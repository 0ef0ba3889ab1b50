------------------------------ MODULE OneShot ------------------------------
(***************************************************************************)
(* What the execution plane promises for one idempotency key: the key is   *)
(* claimed once, the adapter behind it is called at most once, and the     *)
(* execution gets at most one verdict, which then never changes.  Nothing  *)
(* here knows of receipts, attempts, threads, crashes or sweeps.           *)
(***************************************************************************)
CONSTANTS
    Keys,      \* idempotency keys
    Verdicts   \* outcomes an execution may be finalized with

VARIABLES
    phase,     \* phase[k]: how far the execution of k has got
    verdict    \* verdict[k]: its recorded outcome, or "NONE"

vars == <<phase, verdict>>

Phases == {"free", "claimed", "called", "settled"}

Init ==
    /\ phase = [k \in Keys |-> "free"]
    /\ verdict = [k \in Keys |-> "NONE"]

\* A caller takes the key.
Claim(k) ==
    /\ phase[k] = "free"
    /\ phase' = [phase EXCEPT ![k] = "claimed"]
    /\ UNCHANGED verdict

\* The one call of the adapter.
Call(k) ==
    /\ phase[k] = "claimed"
    /\ phase' = [phase EXCEPT ![k] = "called"]
    /\ UNCHANGED verdict

\* The execution is finalized, after the call or instead of it.
Settle(k) ==
    /\ phase[k] \in {"claimed", "called"}
    /\ phase' = [phase EXCEPT ![k] = "settled"]
    /\ \E v \in Verdicts : verdict' = [verdict EXCEPT ![k] = v]

Next == \E k \in Keys : Claim(k) \/ Call(k) \/ Settle(k)

Spec == Init /\ [][Next]_vars
=============================================================================
