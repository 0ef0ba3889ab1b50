------------------------------ MODULE AppWorld ------------------------------
(***************************************************************************)
(* What every adapter of the app plane shares: the contract in hand, the   *)
(* adapter chosen for it, the outside world it acts on and the             *)
(* AdapterResult it gives back to ExecutionSupervisor.                     *)
(*                                                                         *)
(* A contract is its operation (family and op), whether it carries a scope *)
(* (an adapter gets an AdapterContext only then), the backend its metadata *)
(* prefer and `flaw`, the one requirement of the adapter its scope or      *)
(* arguments miss ("none" when they miss none).  Evidence is the postcondition marker and *)
(* whether an exit or HTTP status was received.  The world is small: two   *)
(* paths, one process a terminate is aimed at, the processes started, what *)
(* the hosts' names resolve to and the requests sent.                      *)
(***************************************************************************)
EXTENDS Naturals, Sequences

VARIABLES
    call,      \* the ExecutionContract
    platform,  \* platform.system()
    adapter,   \* name of the selected adapter
    phase,     \* where the supervisor or the adapter is
    files,     \* files[p]: what is at path p
    target,    \* the process a terminate is aimed at
    started,   \* processes started by the adapter
    dns,       \* dns[h]: the kind of address host h resolves to now
    hop,       \* [host, count, pin]: the request the network adapter is at
    sent,      \* addresses the network adapter sent requests to
    answer,    \* the AdapterResult
    effect,    \* observation only: did the adapter change the world?
    handled,   \* observation only: the tool's handler was called
    verdict    \* receipt.outcome, and who decided it

world   == <<files, target, started, dns, sent>>
control == <<call, platform, adapter>>
vars    == <<control, phase, world, hop, answer, effect, handled, verdict>>

Paths    == {"a", "b"}
Contents == {"absent", "dir", "old", "new", "other", "cut"}
IsFile(p) == files[p] \notin {"absent", "dir"}

NoAnswer == [outcome |-> "none", post |-> "none", status |-> FALSE]

\* The adapter returns: an outcome, its postcondition marker and whether the
\* evidence holds an exit or HTTP status.
Answer(outcome, post, status) ==
    /\ answer' = [outcome |-> outcome, post |-> post, status |-> status]
    /\ phase' = "answered"

Fail == Answer("FAILURE", "none", FALSE)

SIDE_EFFECT_FREE_OPERATIONS ==
    {<<"filesystem", "read">>, <<"filesystem", "inspect">>, <<"application", "inspect">>}

\* Seeded fault: an adapter that raises has failed.
Raise_Failure == Fail

\* The adapter raises something execute() does not know as harmless.
Raise ==
    Answer(IF <<call.family, call.op>> \in SIDE_EFFECT_FREE_OPERATIONS
           THEN "FAILURE" ELSE "UNKNOWN", "none", FALSE)

\* SecurityViolationError and NoSideEffectError: stopped before any effect.
Stop == Fail

At(a, p)  == adapter = a /\ phase = p
Op(ops)   == call.op \in ops
Refuses(flaws) == ~call.scoped \/ call.flaw \in flaws

=============================================================================
