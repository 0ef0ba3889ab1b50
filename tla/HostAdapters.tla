---------------------------- MODULE HostAdapters ----------------------------
(***************************************************************************)
(* The adapters that start and stop programs: LocalProcessAdapter and the  *)
(* application adapters of Linux, macOS and Windows, with the stub that    *)
(* simulates on any other platform.                                        *)
(*                                                                         *)
(* A launch names its program in one of several ways (call.by); every      *)
(* adapter knows some of them and otherwise falls back to the contract's   *)
(* target as a name.  call.allowed is the set of ways in which the scope's *)
(* allowlists permit the program.                                          *)
(***************************************************************************)
EXTENDS AppWorld

HostRest   == UNCHANGED <<control, files, dns, sent, hop, handled, verdict>>
Untouched  == UNCHANGED <<target, started, effect>>
Start(n)   == started' = started + n /\ effect' = TRUE /\ UNCHANGED target

(* process.local: subprocess.run without a shell, to completion. *)

RunProcess ==
    /\ At("process.local", "invoked")
    /\ IF Refuses({"argv", "no_allowlist", "not_allowed", "shell"})
       THEN Fail /\ Untouched
       ELSE \/ Start(1) /\ Answer("SUCCESS", "process_completed", TRUE)
            \/ Start(1) /\ Answer("FAILURE", "process_completed", TRUE)
            \/ Start(1) /\ Answer("UNKNOWN", "none", FALSE)   \* wall time exceeded
            \/ Fail /\ Untouched                              \* OSError: not spawned
            \/ Raise /\ Untouched                             \* preexec_fn failed
    /\ HostRest

-----------------------------------------------------------------------------
(* application.linux, application.macos, application.windows *)

Ways(a) ==
    IF a = "application.linux" THEN {"desktop_id", "path", "uri", "name"}
    ELSE IF a = "application.macos" THEN {"bundle_id", "name"}
    ELSE {"path", "name"}

\* The way the adapter will name the program, and whether the allowlist for
\* that way permits it.
Chosen(a)  == IF call.by \in Ways(a) THEN call.by ELSE "name"
Allowed(a) == Chosen(a) \in call.allowed

\* Refused for want of permission, of the program, or of list[str] extra
\* arguments (only where they would be used).
LaunchRefused(a) ==
    \/ Refuses({"no_allowlist", "missing"})
    \/ ~Allowed(a)
    \/ call.flaw = "extra" /\ a # "application.macos" /\ Chosen(a) \in {"path", "name"}

\* Linux spawns the program, gtk-launch or xdg-open, detached.
Launch ==
    /\ At("application.linux", "invoked") /\ Op({"launch", "activate"})
    /\ IF LaunchRefused("application.linux")
       THEN Fail /\ Untouched
       ELSE \/ Start(1) /\ Answer("SUCCESS", "open_accepted", FALSE)
            \/ Fail /\ Untouched
    /\ HostRest

\* Windows' activate spawns the program and then starts it a second time
\* through powershell, as far as that works.
LaunchWindows ==
    /\ At("application.windows", "invoked") /\ Op({"launch", "activate"})
    /\ IF LaunchRefused("application.windows")
       THEN Fail /\ Untouched
       ELSE \/ /\ Start(1) \/ (Op({"activate"}) /\ Start(2))
               /\ Answer("SUCCESS", "open_accepted", FALSE)
            \/ Fail /\ Untouched
    /\ HostRest

\* macOS asks `open`, which may fail, or hang with the program started or not.
LaunchOpen ==
    /\ At("application.macos", "invoked") /\ Op({"launch", "activate"})
    /\ IF LaunchRefused("application.macos")
       THEN Fail /\ Untouched
       ELSE \/ Start(1) /\ Answer("SUCCESS", "open_accepted", TRUE)
            \/ Answer("FAILURE", "none", TRUE) /\ Untouched
            \/ Answer("UNKNOWN", "none", FALSE) /\ (Start(1) \/ Untouched)
            \/ Fail /\ Untouched
    /\ HostRest

\* A signal to the process: sent is not dead, gone is a success.
Signal ==
    /\ IF Refuses({"no_terminate", "no_pid", "low_pid"})
       THEN Fail /\ Untouched
       ELSE \/ /\ target = "alive"
               /\ target' \in {"alive", "gone"} /\ effect' = TRUE /\ UNCHANGED started
               /\ Answer("SUCCESS", "terminate_requested", FALSE)
            \/ target = "gone" /\ Answer("SUCCESS", "already absent", FALSE) /\ Untouched
            \/ target = "foreign" /\ Fail /\ Untouched
    /\ HostRest

Terminate      == At("application.linux", "invoked") /\ Op({"terminate"}) /\ Signal
TerminateMacOS == At("application.macos", "invoked") /\ Op({"terminate"}) /\ Signal

\* Windows runs taskkill on the tree and believes its exit status.
TerminateWindows ==
    /\ At("application.windows", "invoked") /\ Op({"terminate"})
    /\ IF Refuses({"no_terminate", "no_pid", "low_pid"})
       THEN Fail /\ Untouched
       ELSE \/ /\ target = "alive"
               /\ target' \in {"alive", "gone"} /\ effect' = TRUE /\ UNCHANGED started
               /\ \/ Answer("SUCCESS", "terminate_requested", TRUE)
                  \/ Answer("FAILURE", "none", TRUE)
                  \/ Answer("UNKNOWN", "none", FALSE)
            \/ target # "alive" /\ Answer("FAILURE", "none", TRUE) /\ Untouched
            \/ Answer("UNKNOWN", "none", FALSE) /\ Untouched    \* taskkill timed out
            \/ Fail /\ Untouched
    /\ HostRest

Inspect ==
    /\ \E a \in {"application.linux", "application.macos", "application.windows"} : At(a, "invoked")
    /\ Op({"inspect"})
    /\ IF Refuses({}) THEN Fail ELSE Answer("SUCCESS", "inspect_platform", FALSE)
    /\ Untouched /\ HostRest

-----------------------------------------------------------------------------
(* application.stub passes the same permissions and touches nothing. *)

Simulate ==
    /\ At("application.stub", "invoked")
    /\ IF \/ Refuses({})
          \/ Op({"launch", "activate"}) /\ call.allowed \cap ({call.by, "name"} \ {"uri"}) = {}
          \/ Op({"terminate"}) /\ call.flaw \in {"no_terminate", "no_pid"}
       THEN Fail
       ELSE Answer("SUCCESS",
                   IF Op({"terminate"}) THEN "terminate_requested"
                   ELSE IF Op({"inspect"}) THEN "inspect_platform" ELSE "open_accepted",
                   FALSE)
    /\ Untouched /\ HostRest

HostStep ==
    \/ RunProcess \/ Launch \/ LaunchWindows \/ LaunchOpen
    \/ Terminate \/ TerminateMacOS \/ TerminateWindows \/ Inspect \/ Simulate

=============================================================================
