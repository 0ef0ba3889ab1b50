------------------------------ MODULE AppPlane ------------------------------
(***************************************************************************)
(* One contract through the app plane: _select_adapter, evaluate_scope,    *)
(* the receipt, the adapter, evaluate_verification, and after a crash the  *)
(* reconcilers.  Meanwhile other programs change files, processes end and  *)
(* names resolve differently.  Receipts, attempts and idempotency keys in  *)
(* the database, and sweeps that race a live call, are Supervisor.         *)
(***************************************************************************)
EXTENDS FilesystemAdapter, HostAdapters, NetworkAdapters, ToolAdapter, FiniteSets

CONSTANTS
    MaxMeddles,      \* bound on what other programs change meanwhile
    WithFilesystem   \* is LocalFilesystemAdapter among the adapters?

ASSUME PlaneAssumption ==
    MaxMeddles \in Nat /\ MaxRedirects \in 0 .. 5 /\ WithFilesystem \in BOOLEAN

VARIABLE meddles

allvars == <<vars, meddles>>

-----------------------------------------------------------------------------
(* Contracts: one requirement missed at a time *)

Flaws(more) == more \cup {"none", "limits"}

Contracts ==
    [family : {"filesystem"}, op : WRITE_OPS \cup {"read", "inspect"},
     flaw : Flaws({"no_roots", "read_only", "outside", "dest_outside", "content"}),
     scoped : BOOLEAN, backend : {"none"}, path : {"a"}, dest : Paths, traced : BOOLEAN]
    \cup
    [family : {"process"}, op : {"run"},
     flaw : Flaws({"argv", "no_allowlist", "not_allowed", "shell"}),
     scoped : BOOLEAN, backend : {"none"}]
    \cup
    [family : {"application"}, op : {"launch", "activate"},
     flaw : Flaws({"no_allowlist", "missing", "extra"}),
     scoped : BOOLEAN, backend : {"none"},
     by : {"desktop_id", "path", "uri", "bundle_id", "name"},
     allowed : {{}, {"name"}, {"desktop_id", "path", "uri", "bundle_id"}}]
    \cup
    [family : {"application"}, op : {"terminate", "inspect"},
     flaw : Flaws({"no_terminate", "no_pid", "low_pid"}),
     scoped : BOOLEAN, backend : {"none"}]
    \cup
    [family : {"network"}, op : {"request"},
     flaw : Flaws({"open_scope", "url", "proxy", "method", "raw_secret", "redirects"}),
     scoped : BOOLEAN, backend : {"none"}]
    \cup
    [family : {"browser"}, op : {"navigate", "read", "download", "upload"},
     flaw : Flaws({"open_scope", "url", "redirects", "attach", "persistent",
                   "no_downloads", "no_uploads", "selector", "outside"}),
     scoped : BOOLEAN, backend : {"none", "browser.engine"}]
    \cup
    [family : {"tool"}, op : {"run"},
     flaw : {"none", "no_permit", "forged", "capability", "schema", "credential"},
     scoped : {FALSE}, backend : {"none", "tool_executor"}, secret : BOOLEAN,
     capability : {"filesystem.write", "network.connect"}]

TypeOK ==
    /\ call \in Contracts
    /\ platform \in {"Linux", "Darwin", "Windows", "other"}
    /\ phase \in {"new", "refused", "receipt", "invoked", "act", "hop", "request",
                  "post", "answered", "down_early", "down_invoked", "final"}
    /\ files \in [Paths -> Contents] /\ target \in {"alive", "gone", "foreign"}
    /\ started \in 0 .. 2 /\ dns \in [Hosts -> {"public", "private"}]
    /\ answer \in [outcome : {"none", "SUCCESS", "FAILURE", "UNKNOWN"},
                   post : {"none", "already absent", "content_match", "exists", "absent",
                           "source_and_destination_exist", "source_absent_destination_exists",
                           "process_completed", "open_accepted", "terminate_requested",
                           "inspect_platform", "page_fetched", "response_received"},
                   status : BOOLEAN]
    /\ effect \in BOOLEAN /\ handled \in BOOLEAN
    /\ verdict \in [outcome : {"none", "SUCCESS", "FAILURE", "UNKNOWN"},
                    by : {"none", "verification", "reconciler"}]
    /\ meddles \in 0 .. MaxMeddles

Init ==
    /\ call \in Contracts
    /\ platform \in {"Linux", "Darwin", "Windows", "other"}
    /\ adapter = "none" /\ phase = "new"
    /\ files \in [Paths -> {"absent", "dir", "old"}]
    /\ call.family # "filesystem" => files = [p \in Paths |-> "absent"]
    /\ target \in {"alive", "gone", "foreign"}
    /\ call.op # "terminate" => target = "gone"
    /\ started = 0
    /\ dns \in [Hosts -> {"public", "private"}]
    /\ call.family \notin {"network", "browser"} => dns = [h \in Hosts |-> "public"]
    /\ call.family \notin {"application", "browser"} => platform = "Linux"
    /\ hop = NoHop /\ sent = <<>>
    /\ answer = NoAnswer /\ effect = FALSE /\ handled = FALSE
    /\ verdict = [outcome |-> "none", by |-> "none"]
    /\ meddles = 0

-----------------------------------------------------------------------------
(* Selection, scope and receipt *)

\* The adapters in the order build_runtime registers them.  It leaves out
\* filesystem.local, which is there only in a supervisor composed with it
\* (WithFilesystem), as the filesystem tests do.
Registered == <<"filesystem.local", "process.local", "application.linux",
    "application.macos", "application.windows", "application.stub",
    "network.local", "browser.local", "browser.engine", "tool_executor">>

\* The operation's prefix or the capability: a tool's contract carries the
\* capability of another family.
Names(family) ==
    \/ call.family = family
    \/ /\ call.family = "tool"
       /\ <<family, call.capability>> \in
             {<<"filesystem", "filesystem.write">>, <<"network", "network.connect">>}

supports(a) ==
    \/ a = "filesystem.local" /\ WithFilesystem /\ Names("filesystem")
    \/ a = "process.local" /\ call.family = "process"
    \/ a = "application.linux" /\ call.family = "application" /\ platform = "Linux"
    \/ a = "application.macos" /\ call.family = "application" /\ platform = "Darwin"
    \/ a = "application.windows" /\ call.family = "application" /\ platform = "Windows"
    \/ a = "application.stub" /\ call.family = "application"
    \/ a = "network.local" /\ Names("network")
    \/ a = "browser.local" /\ call.family = "browser"
    \/ a = "browser.engine" /\ call.family = "browser" /\ platform # "other"
    \/ a = "tool_executor" /\ call.backend = "tool_executor"

\* _select_adapter: the preferred backend if it supports the contract, else
\* the first that does.
Selects(i) ==
    /\ supports(Registered[i])
    /\ \/ Registered[i] = call.backend
       \/ \A j \in DOMAIN Registered :
             supports(Registered[j]) => Registered[j] # call.backend /\ i <= j

\* evaluate_scope: a limit nothing here enforces, or no limit where one is
\* required, is refused before the receipt.
evaluate_scope ==
    call.scoped =>
        /\ call.flaw # "limits"
        /\ call.family = "filesystem" => call.flaw # "no_roots"
        /\ call.family \in {"network", "browser"} => call.flaw # "open_scope"
        /\ call.family = "application" /\ Op({"launch", "activate"}) => call.flaw # "no_allowlist"
        /\ call.family = "application" /\ Op({"terminate"}) => call.flaw # "no_terminate"
        /\ call.family = "process" => call.flaw # "no_allowlist"

Refused ==
    /\ phase = "new"
    /\ ~evaluate_scope \/ ~\E i \in DOMAIN Registered : Selects(i)
    /\ phase' = "refused"
    /\ UNCHANGED <<control, world, hop, answer, effect, handled, verdict, meddles>>

PersistReceipt ==
    /\ phase = "new" /\ evaluate_scope
    /\ \E i \in DOMAIN Registered : Selects(i) /\ adapter' = Registered[i]
    /\ phase' = "receipt"
    /\ UNCHANGED <<call, platform, world, hop, answer, effect, handled, verdict, meddles>>

MarkInvoked ==
    /\ phase = "receipt" /\ phase' = "invoked"
    /\ UNCHANGED <<control, world, hop, answer, effect, handled, verdict, meddles>>

Invoke ==
    /\ FilesystemStep \/ HostStep \/ NetworkStep \/ ToolStep
    /\ UNCHANGED meddles

-----------------------------------------------------------------------------
(* Verification *)

\* policy_for_operation: the postconditions required of the evidence.  Its
\* kind agrees with the policy's, both being read from one table.
Required ==
    IF call.family = "filesystem" THEN
        IF Op({"write"}) THEN {"content_match", "exists"}
        ELSE IF Op(WRITE_OPS) THEN {Marker} ELSE {}
    ELSE IF call.family = "network" THEN {"response_received"}
    ELSE IF call.family = "browser" /\ Op({"navigate", "read"}) THEN {"page_fetched"}
    ELSE IF call.family = "application" /\ Op({"launch", "activate"}) THEN {"open_accepted"}
    ELSE IF call.family = "application" /\ Op({"inspect"}) THEN {"inspect_platform"}
    ELSE {}

Met(required) ==
    \/ answer.post = required
    \/ required = "exists" /\ answer.outcome = "SUCCESS" /\ answer.post = "content_match"
    \/ required = "absent" /\ answer.post = "already absent"

\* evaluate_verification: an unmet postcondition, or a response that is not a
\* complete 2xx, turns SUCCESS into FAILURE; UNKNOWN stays UNKNOWN.
evaluate_verification ==
    IF /\ answer.outcome = "SUCCESS"
       /\ \/ \E p \in Required : ~Met(p)
          \/ call.family = "network" /\ ~answer.status
    THEN "FAILURE" ELSE answer.outcome

Decide(outcome, by) ==
    /\ verdict' = [outcome |-> outcome, by |-> by]
    /\ phase' = "final"
    /\ UNCHANGED <<control, world, hop, answer, effect, handled, meddles>>

Finalize == phase = "answered" /\ Decide(evaluate_verification, "verification")

-----------------------------------------------------------------------------
(* Crash and reconciliation *)

\* Seeded fault: a stuck receipt gets a reason no reconciler knows.
Crash_NoReason ==
    /\ phase \in {"receipt", "invoked", "act", "hop", "request", "post", "answered"}
    /\ phase' = "down"
    /\ UNCHANGED <<control, world, hop, answer, effect, handled, verdict, meddles>>

\* The process dies; what is left in the database tells classify_stuck_attempt
\* whether the adapter may have been called.
Crash ==
    /\ phase \in {"receipt", "invoked", "act", "hop", "request", "post", "answered"}
    /\ phase' = IF phase = "receipt" THEN "down_early" ELSE "down_invoked"
    /\ UNCHANGED <<control, world, hop, answer, effect, handled, verdict, meddles>>

invoked == phase = "down_invoked"
Open    == IF invoked THEN "UNKNOWN" ELSE "FAILURE"

\* FilesystemReconciler.observe on the one path the receipt names, if it does.
observe_file ==
    IF ~call.traced THEN "UNKNOWN"
    ELSE IF Op({"write", "create"}) THEN IF IsFile(call.path) THEN "SUCCESS" ELSE Open
    ELSE IF Op({"delete"}) THEN IF files[call.path] = "absent" THEN "SUCCESS" ELSE Open
    ELSE IF Op({"read"}) THEN Open
    ELSE "UNKNOWN"

\* Seeded fault: what cannot be observed has not happened.
observe_Absent ==
    IF call.family = "filesystem" /\ IsFile(call.path) THEN "SUCCESS" ELSE "FAILURE"

\* ReconcilerRegistry.observe: by operation, a tool's contract by capability;
\* the process, network, application and default rules agree, since an
\* unfinalized attempt carries no evidence.
observe ==
    IF call.family = "filesystem" THEN observe_file
    ELSE IF call.family = "tool" /\ call.capability = "filesystem.write" THEN "UNKNOWN"
    ELSE Open

\* Seeded fault: only invoked attempts are swept.
Reconcile_Invoked ==
    \/ phase = "down_invoked" /\ Decide(observe, "reconciler")
    \/ phase = "down_early" /\ UNCHANGED allvars

Reconcile ==
    phase \in {"down_early", "down_invoked"} /\ Decide(observe, "reconciler")

-----------------------------------------------------------------------------
(* The outside world *)

Meddle ==
    /\ phase \notin {"new", "refused", "final"} /\ meddles < MaxMeddles
    /\ meddles' = meddles + 1
    /\ \/ /\ call.family = "filesystem" /\ UNCHANGED <<target, dns>>
          /\ \E p \in Paths, c \in {"absent", "other"} :
                files[p] # "dir" /\ files' = [files EXCEPT ![p] = c]
       \/ target = "alive" /\ target' = "gone" /\ UNCHANGED <<files, dns>>
       \/ /\ call.family \in {"network", "browser"} /\ UNCHANGED <<files, target>>
          /\ \E h \in Hosts : dns' = [dns EXCEPT ![h] =
                IF dns[h] = "public" THEN "private" ELSE "public"]
    /\ UNCHANGED <<control, phase, started, sent, hop, answer, effect, handled, verdict>>

Done == phase \in {"refused", "final"} /\ UNCHANGED allvars

Supervise == Refused \/ PersistReceipt \/ MarkInvoked \/ Invoke \/ Finalize \/ Reconcile

Next == Supervise \/ Crash \/ Meddle \/ Done

Spec == Init /\ [][Next]_allvars

\* The supervisor goes on, every adapter call is bounded by a timeout, and a
\* process that died is started again and reconciles.
FairSpec == Spec /\ WF_allvars(Supervise)

-----------------------------------------------------------------------------
(* Properties *)

\* A FAILURE behind which something was done is one whose end was seen: an exit
\* or HTTP status, or a re-read that disagreed after another program's change.
\* The exceptions are the calls whose errors the adapter itself calls FAILURE:
\* copy, move, the browser engine and tool handlers.
FailureIsKnown ==
    verdict.by = "verification" /\ verdict.outcome = "FAILURE" /\ effect =>
        \/ answer.status
        \/ meddles > 0
        \/ call.family = "filesystem" /\ Op({"copy", "move"})
        \/ adapter \in {"browser.engine", "tool_executor"}

\* A reconciler that reports FAILURE after a crash is right that the call left
\* no effect.
ReconciledFailureIsSafe ==
    verdict.by = "reconciler" /\ verdict.outcome = "FAILURE" => ~effect /\ ~handled

\* Every request of the network adapter, redirects included, goes to an address
\* that passed the policy at that hop, however names resolve in between, and
\* no contract sends more than max_redirects + 1.
EveryHopChecked ==
    /\ \A i \in DOMAIN sent : sent[i] = "public"
    /\ Len(sent) <= MaxRedirects + 1

\* Every contract is refused or gets a final outcome, also when the process
\* dies on the way.
EveryContractEnds == phase = "receipt" ~> phase = "final"

\* "Secrets are injected here only, after permit verification, immediately
\* before the handler runs" (tool_executor.py): a contract in order whose
\* credentials resolve reaches its tool's handler.
PermittedCallReachesHandler ==
    verdict.by = "verification" /\ adapter = "tool_executor" /\ call.flaw = "none" =>
        handled

=============================================================================
