---------------------------- MODULE ToolAdapter -----------------------------
(***************************************************************************)
(* ToolExecutorAdapter, ToolExecutor and SandboxedExecutionBoundary: the   *)
(* way every step of a plan takes to its tool.  The permit names a digest  *)
(* of the arguments; the adapter checks it against the arguments of the    *)
(* contract, in which a credential is a reference, replaces the references *)
(* by secrets and calls the executor, which checks the same permit against *)
(* what it got.                                                            *)
(***************************************************************************)
EXTENDS AppWorld

ToolRest == UNCHANGED <<control, world, hop, verdict>>

\* ExecutionPermitAuthority.verify: the token was minted for these arguments.
verify(arguments) == call.flaw # "forged" /\ arguments = "references"

\* resolve_argument_credentials
Injected == IF call.secret THEN "secrets" ELSE "references"

\* Missing or invalid permit, or a credential the broker refuses.
AdapterChecks ==
    /\ At("tool_executor", "invoked")
    /\ IF call.flaw \in {"no_permit", "credential"} \/ ~verify("references")
       THEN Fail
       ELSE phase' = "act" /\ UNCHANGED answer
    /\ UNCHANGED <<effect, handled>> /\ ToolRest

\* ToolExecutor.execute up to the handler: capabilities, the permit, the
\* schema.  It raises, which is no answer of the adapter's.
Admitted == verify(Injected) /\ call.flaw \notin {"capability", "schema"}

Rejected ==
    /\ At("tool_executor", "act") /\ ~Admitted
    /\ Raise
    /\ UNCHANGED <<effect, handled>> /\ ToolRest

\* The handler under the boundary: its response, an output too large for the
\* scope, or an exception count as FAILURE whatever it did; a timeout is
\* UNKNOWN, reported when the handler has ended, because the pool is left
\* only then.
RunHandler ==
    /\ At("tool_executor", "act") /\ Admitted
    /\ handled' = TRUE
    /\ effect' \in BOOLEAN
    /\ \E o \in {"SUCCESS", "FAILURE", "UNKNOWN"} : Answer(o, "none", FALSE)
    /\ ToolRest

ToolStep == AdapterChecks \/ Rejected \/ RunHandler

=============================================================================
