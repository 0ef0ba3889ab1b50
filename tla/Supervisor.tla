---------------------------- MODULE Supervisor -----------------------------
(***************************************************************************)
(* ExecutionSupervisor (shea/app/supervisor.py): the only way to run a     *)
(* privileged operation.  Every unit-of-work commit of execute() and of    *)
(* reconcile_receipt() is one action, so a crash can fall between any two  *)
(* of them; everything held in local variables of the Python call is lost  *)
(* by a crash, everything in the repositories survives it.                 *)
(*                                                                         *)
(* Abstracted: the contract's fields, its expiry (a contract refused by    *)
(* _validate or by _select_adapter changes nothing), the payload of the    *)
(* evidence and verification rows written with the final outcome.          *)
(* A receipt row is written CREATED and ATTEMPTING inside one transaction, *)
(* so CREATED is never a committed state.                                  *)
(***************************************************************************)
EXTENDS Naturals

CONSTANTS
    Keys,        \* idempotency keys: one per (task, tool, action, arguments)
    Workers,     \* threads that may be inside execute()
    Receipts,    \* receipt ids; the size of the set bounds the receipts made
    NoKey, NoReceipt,
    LiveSweep,   \* may reconcile_stuck() run while executions are in flight?
    MaxCrashes   \* bound on the crashes of one behaviour

ASSUME SentinelAssumption == NoKey \notin Keys /\ NoReceipt \notin Receipts
ASSUME LiveSweepAssumption == LiveSweep \in BOOLEAN
ASSUME MaxCrashesAssumption == MaxCrashes \in Nat

Outcomes   == {"SUCCESS", "FAILURE", "UNKNOWN"}
IdemStates == {"NONE", "IN_PROGRESS", "COMPLETED", "FAILED", "UNKNOWN"}

VARIABLES
    \* durable: the rows of app_idempotency, app_receipts, app_attempts,
    \* app_recovery_incidents
    idem,          \* state of the row of a key, "NONE" when there is no row
    idemReceipt,   \* its receipt_id
    rState, rOutcome,
    aState, aOutcome,
    incidents,     \* statuses of the incidents filed for a receipt
    \* volatile: the frames of execute() and of reconcile_receipt()
    pc, wKey, wReceipt, wResult,
    sw, swReceipt, swAttempt, swOutcome,
    mode,          \* "boot" until the start-up sweep is over, then "up"
    crashes,
    \* the outside world and what callers were told: observation only
    invoked,       \* how often the adapter was called for a key
    effect,        \* how often it changed the outside world
    refused        \* row states in which a caller was refused a key

durable  == <<idem, idemReceipt, rState, rOutcome, aState, aOutcome, incidents>>
frames   == <<pc, wKey, wReceipt, wResult>>
sweep    == <<sw, swReceipt, swAttempt, swOutcome>>
observed == <<invoked, effect, refused>>
vars     == <<durable, frames, sweep, mode, crashes, observed>>

TypeOK ==
    /\ idem \in [Keys -> IdemStates]
    /\ idemReceipt \in [Keys -> Receipts \cup {NoReceipt}]
    /\ rState \in [Receipts -> {"NONE", "ATTEMPTING", "FINALIZED"}]
    /\ rOutcome \in [Receipts -> Outcomes \cup {"NONE"}]
    /\ aState \in [Receipts -> {"NONE", "CREATED", "INVOKED", "FINALIZED"}]
    /\ aOutcome \in [Receipts -> Outcomes \cup {"NONE"}]
    /\ incidents \in [Receipts -> SUBSET {"RESOLVED", "QUARANTINED"}]
    /\ pc \in [Workers -> {"idle", "reserved", "receipted", "invoking", "returned"}]
    /\ wKey \in [Workers -> Keys \cup {NoKey}]
    /\ wReceipt \in [Workers -> Receipts \cup {NoReceipt}]
    /\ wResult \in [Workers -> Outcomes \cup {"NONE"}]
    /\ sw \in {"idle", "read", "observed"}
    /\ swReceipt \in Receipts \cup {NoReceipt}
    /\ swAttempt \in {"NONE", "CREATED", "INVOKED", "FINALIZED"}
    /\ swOutcome \in Outcomes \cup {"NONE"}
    /\ mode \in {"boot", "up"}
    /\ crashes \in 0 .. MaxCrashes
    /\ invoked \in [Keys -> Nat]
    /\ effect \in [Keys -> Nat]
    /\ refused \in [Keys -> SUBSET IdemStates]

Init ==
    /\ idem = [k \in Keys |-> "NONE"]
    /\ idemReceipt = [k \in Keys |-> NoReceipt]
    /\ rState = [r \in Receipts |-> "NONE"]
    /\ rOutcome = [r \in Receipts |-> "NONE"]
    /\ aState = [r \in Receipts |-> "NONE"]
    /\ aOutcome = [r \in Receipts |-> "NONE"]
    /\ incidents = [r \in Receipts |-> {}]
    /\ pc = [w \in Workers |-> "idle"]
    /\ wKey = [w \in Workers |-> NoKey]
    /\ wReceipt = [w \in Workers |-> NoReceipt]
    /\ wResult = [w \in Workers |-> "NONE"]
    /\ sw = "idle" /\ swReceipt = NoReceipt
    /\ swAttempt = "NONE" /\ swOutcome = "NONE"
    /\ mode = "boot"
    /\ crashes = 0
    /\ invoked = [k \in Keys |-> 0]
    /\ effect = [k \in Keys |-> 0]
    /\ refused = [k \in Keys |-> {}]

-----------------------------------------------------------------------------
(* execute() *)

\* The worker's frame is gone: it returned or raised.
Leave(w) ==
    /\ pc' = [pc EXCEPT ![w] = "idle"]
    /\ wKey' = [wKey EXCEPT ![w] = NoKey]
    /\ wReceipt' = [wReceipt EXCEPT ![w] = NoReceipt]
    /\ wResult' = [wResult EXCEPT ![w] = "NONE"]

\* Seeded fault: the key is claimed with the upsert of save().
CanReserve_Upsert(k) == idem[k] \in {"NONE", "FAILED"}

\* reserve() is a plain INSERT: it succeeds only when the key has no row.
CanReserve(k) == idem[k] = "NONE"

\* _reserve_idempotency: the row is inserted and committed.
Reserve(w, k) ==
    /\ mode = "up" /\ pc[w] = "idle"
    /\ CanReserve(k)
    /\ idem' = [idem EXCEPT ![k] = "IN_PROGRESS"]
    /\ pc' = [pc EXCEPT ![w] = "reserved"]
    /\ wKey' = [wKey EXCEPT ![w] = k]
    /\ UNCHANGED <<idemReceipt, rState, rOutcome, aState, aOutcome, incidents,
                   wReceipt, wResult, sweep, mode, crashes, observed>>

\* _reserve_idempotency raises ContractValidationError: "already completed"
\* and "in progress" by its own check, any other existing row by the UNIQUE
\* constraint of the INSERT.
Refuse(w, k) ==
    /\ mode = "up" /\ pc[w] = "idle"
    /\ ~CanReserve(k)
    /\ refused' = [refused EXCEPT ![k] = @ \cup {idem[k]}]
    /\ UNCHANGED <<durable, frames, sweep, mode, crashes, invoked, effect>>

\* Identity resolution, its verification or evaluate_scope raises between
\* the reservation and the receipt.
AbortBeforeReceipt(w) ==
    /\ pc[w] = "reserved"
    /\ Leave(w)
    /\ UNCHANGED <<durable, sweep, mode, crashes, observed>>

\* One transaction: receipt, attempt, and the receipt bound to the key.
PersistReceipt(w) ==
    /\ pc[w] = "reserved"
    /\ \E r \in Receipts :
        /\ rState[r] = "NONE"
        /\ rState' = [rState EXCEPT ![r] = "ATTEMPTING"]
        /\ aState' = [aState EXCEPT ![r] = "CREATED"]
        /\ idemReceipt' = [idemReceipt EXCEPT ![wKey[w]] = r]
        /\ wReceipt' = [wReceipt EXCEPT ![w] = r]
    /\ pc' = [pc EXCEPT ![w] = "receipted"]
    /\ UNCHANGED <<idem, rOutcome, aOutcome, incidents, wKey, wResult,
                   sweep, mode, crashes, observed>>

\* The pre_invoke revalidation of the identity raises.
AbortBeforeInvoke(w) ==
    /\ pc[w] = "receipted"
    /\ Leave(w)
    /\ UNCHANGED <<durable, sweep, mode, crashes, observed>>

\* Seeded fault: the INVOKED attempt is not saved before the adapter runs.
MarkInvoked_Unsaved(w) ==
    /\ pc[w] = "receipted"
    /\ pc' = [pc EXCEPT ![w] = "invoking"]
    /\ UNCHANGED <<durable, wKey, wReceipt, wResult, sweep, mode, crashes, observed>>

\* The attempt row is overwritten with the in-memory attempt, now INVOKED
\* and without an outcome.
MarkInvoked(w) ==
    /\ pc[w] = "receipted"
    /\ aState' = [aState EXCEPT ![wReceipt[w]] = "INVOKED"]
    /\ aOutcome' = [aOutcome EXCEPT ![wReceipt[w]] = "NONE"]
    /\ pc' = [pc EXCEPT ![w] = "invoking"]
    /\ UNCHANGED <<idem, idemReceipt, rState, rOutcome, incidents,
                   wKey, wReceipt, wResult, sweep, mode, crashes, observed>>

\* What adapter.invoke can come back with: its outcome, and whether the
\* outside world changed.  A NoSideEffectError is a FAILURE without effect,
\* any other exception is UNKNOWN and may hide an effect.
AdapterReturns ==
    {<<"SUCCESS", 1>>, <<"FAILURE", 0>>, <<"FAILURE", 1>>,
     <<"UNKNOWN", 0>>, <<"UNKNOWN", 1>>}

Invoke(w) ==
    /\ pc[w] = "invoking"
    /\ \E a \in AdapterReturns :
        /\ wResult' = [wResult EXCEPT ![w] = a[1]]
        /\ effect' = [effect EXCEPT ![wKey[w]] = @ + a[2]]
    /\ invoked' = [invoked EXCEPT ![wKey[w]] = @ + 1]
    /\ pc' = [pc EXCEPT ![w] = "returned"]
    /\ UNCHANGED <<durable, wKey, wReceipt, sweep, mode, crashes, refused>>

\* The outcomes evaluate_verification may turn an adapter outcome into
\* under the built-in policies: missing evidence or an unmet postcondition
\* demotes SUCCESS to FAILURE, and UNKNOWN always stays UNKNOWN.
evaluate_verification(outcome) ==
    IF outcome = "SUCCESS" THEN {"SUCCESS", "FAILURE"} ELSE {outcome}

\* Seeded fault: only UNKNOWN is told apart.
IdemStateOf_Optimistic(outcome) ==
    IF outcome = "UNKNOWN" THEN "UNKNOWN" ELSE "COMPLETED"

\* The row state _complete_idempotency stores for a final outcome.
IdemStateOf(outcome) ==
    CASE outcome = "SUCCESS" -> "COMPLETED"
      [] outcome = "UNKNOWN" -> "UNKNOWN"
      [] OTHER               -> "FAILED"

\* One transaction: attempt, receipt, evidence, verification and key row.
\* It does not look at what the rows hold by now.
Finalize(w) ==
    /\ pc[w] = "returned"
    /\ \E out \in evaluate_verification(wResult[w]) :
        /\ aOutcome' = [aOutcome EXCEPT ![wReceipt[w]] = out]
        /\ rOutcome' = [rOutcome EXCEPT ![wReceipt[w]] = out]
        /\ idem' = [idem EXCEPT ![wKey[w]] = IdemStateOf(out)]
    /\ aState' = [aState EXCEPT ![wReceipt[w]] = "FINALIZED"]
    /\ rState' = [rState EXCEPT ![wReceipt[w]] = "FINALIZED"]
    /\ idemReceipt' = [idemReceipt EXCEPT ![wKey[w]] = wReceipt[w]]
    /\ Leave(w)
    /\ UNCHANGED <<incidents, sweep, mode, crashes, observed>>

-----------------------------------------------------------------------------
(* reconcile_stuck(): at start-up, and from begin_recovery() or            *)
(* SheaApp.reconcile() while other threads execute.                        *)

SweepAllowed == mode = "boot" \/ LiveSweep

\* Seeded fault: a FINALIZED receipt is swept again.
SweepRead_Any(r) ==
    /\ SweepAllowed /\ sw = "idle"
    /\ rState[r] # "NONE"
    /\ sw' = "read" /\ swReceipt' = r
    /\ UNCHANGED <<durable, frames, swAttempt, swOutcome, mode, crashes, observed>>

\* reconcile_receipt reads the receipt; a FINALIZED one needs nothing.
SweepRead(r) ==
    /\ SweepAllowed /\ sw = "idle"
    /\ rState[r] = "ATTEMPTING"
    /\ sw' = "read" /\ swReceipt' = r
    /\ UNCHANGED <<durable, frames, swAttempt, swOutcome, mode, crashes, observed>>

\* Seeded fault: a probe that finds nothing is reported as FAILURE even after
\* the adapter may have run.
observe_Certain(attempt) == Outcomes

\* What the reconcilers may report for the attempt state read.  After
\* INVOKED no reconciler claims FAILURE; before it, none can tell that the
\* postcondition it probes was there already.
observe(attempt) ==
    IF attempt = "INVOKED" THEN {"UNKNOWN", "SUCCESS"} ELSE Outcomes

\* The attempt is read, classified and the outside world observed.
SweepObserve ==
    /\ sw = "read"
    /\ sw' = "observed"
    /\ swAttempt' = aState[swReceipt]
    /\ swOutcome' \in observe(aState[swReceipt])
    /\ UNCHANGED <<durable, frames, swReceipt, mode, crashes, observed>>

\* Seeded fault: the receipt is left as it is.
SweepCommit_AttemptOnly ==
    /\ sw = "observed"
    /\ aState' = [aState EXCEPT ![swReceipt] = "FINALIZED"]
    /\ aOutcome' = [aOutcome EXCEPT ![swReceipt] = swOutcome]
    /\ sw' = "idle" /\ swReceipt' = NoReceipt
    /\ swAttempt' = "NONE" /\ swOutcome' = "NONE"
    /\ UNCHANGED <<idem, idemReceipt, rState, rOutcome, incidents,
                   frames, mode, crashes, observed>>

\* One transaction: attempt (unless it was read FINALIZED), receipt and
\* incident.  The row of the idempotency key is not written.
SweepCommit ==
    /\ sw = "observed"
    /\ LET fresh == swAttempt # "FINALIZED"
       IN  /\ aState' = [aState EXCEPT ![swReceipt] =
                            IF fresh THEN "FINALIZED" ELSE @]
           /\ aOutcome' = [aOutcome EXCEPT ![swReceipt] =
                            IF fresh THEN swOutcome ELSE @]
    /\ rState' = [rState EXCEPT ![swReceipt] = "FINALIZED"]
    /\ rOutcome' = [rOutcome EXCEPT ![swReceipt] = swOutcome]
    /\ incidents' = [incidents EXCEPT ![swReceipt] = @ \cup
            {IF swOutcome = "UNKNOWN" THEN "QUARANTINED" ELSE "RESOLVED"}]
    /\ sw' = "idle" /\ swReceipt' = NoReceipt
    /\ swAttempt' = "NONE" /\ swOutcome' = "NONE"
    /\ UNCHANGED <<idem, idemReceipt, frames, mode, crashes, observed>>

-----------------------------------------------------------------------------
(* Process life cycle *)

\* build_runtime returns once the sweep has nothing left to do.
BootDone ==
    /\ mode = "boot" /\ sw = "idle"
    /\ \A r \in Receipts : rState[r] # "ATTEMPTING"
    /\ mode' = "up"
    /\ UNCHANGED <<durable, frames, sweep, crashes, observed>>

\* The process dies and is started again.
Crash ==
    /\ crashes < MaxCrashes
    /\ crashes' = crashes + 1
    /\ mode' = "boot"
    /\ pc' = [w \in Workers |-> "idle"]
    /\ wKey' = [w \in Workers |-> NoKey]
    /\ wReceipt' = [w \in Workers |-> NoReceipt]
    /\ wResult' = [w \in Workers |-> "NONE"]
    /\ sw' = "idle" /\ swReceipt' = NoReceipt
    /\ swAttempt' = "NONE" /\ swOutcome' = "NONE"
    /\ UNCHANGED <<durable, observed>>

Execute(w) ==
    \/ \E k \in Keys : Reserve(w, k) \/ Refuse(w, k)
    \/ AbortBeforeReceipt(w)
    \/ PersistReceipt(w)
    \/ AbortBeforeInvoke(w)
    \/ MarkInvoked(w)
    \/ Invoke(w)
    \/ Finalize(w)

Sweep ==
    \/ \E r \in Receipts : SweepRead(r)
    \/ SweepObserve
    \/ SweepCommit

Next ==
    \/ \E w \in Workers : Execute(w)
    \/ Sweep
    \/ BootDone
    \/ Crash

Spec == Init /\ [][Next]_vars

\* Straight-line code keeps running: the start-up sweep and a worker that is
\* past the reservation.  Nobody has to call execute() or crash.
Fairness ==
    /\ WF_vars(mode = "boot" /\ Sweep)
    /\ WF_vars(BootDone)
    /\ \A w \in Workers :
        WF_vars(PersistReceipt(w) \/ AbortBeforeReceipt(w) \/ MarkInvoked(w)
                  \/ AbortBeforeInvoke(w) \/ Invoke(w) \/ Finalize(w))

FairSpec == Spec /\ Fairness

-----------------------------------------------------------------------------
(* Properties *)

\* Whatever threads, retries, crashes and sweeps do, the adapter behind one
\* idempotency key is called at most once: reserve() arbitrates the key and
\* no path ever gives it back.
AtMostOneInvocation == \A k \in Keys : invoked[k] <= 1

\* "No adapter call may precede a durable receipt" (supervisor.py:90): an
\* adapter that was called has a receipt bound to its key whose attempt was
\* durably INVOKED first, so a later sweep can find it.
ReceiptBeforeInvoke ==
    \A k \in Keys : invoked[k] > 0 =>
        /\ idemReceipt[k] \in Receipts
        /\ rState[idemReceipt[k]] # "NONE"
        /\ aState[idemReceipt[k]] \in {"INVOKED", "FINALIZED"}

\* A key recorded COMPLETED really ran: the outside world changed and the
\* receipt bound to it is finalized as SUCCESS.
CompletedMeansDone ==
    \A k \in Keys : idem[k] = "COMPLETED" =>
        /\ effect[k] = 1
        /\ rState[idemReceipt[k]] = "FINALIZED"
        /\ rOutcome[idemReceipt[k]] = "SUCCESS"

\* A receipt that the sweep settled as FAILURE belongs to an adapter call
\* that never started ("SUCCESS / FAILURE only when external state is known",
\* reconcile/base.py:14).
SweptFailureIsSafe ==
    \A k \in Keys, r \in Receipts :
        (idemReceipt[k] = r /\ incidents[r] # {} /\ rOutcome[r] = "FAILURE")
            => invoked[k] = 0

\* Once execute() or the sweep has finalized a receipt, no step changes the
\* verdict or reopens the receipt.
VerdictIsFinal ==
    [][\A r \in Receipts : rState[r] = "FINALIZED" =>
          rState'[r] = "FINALIZED" /\ rOutcome'[r] = rOutcome[r]]_vars

\* A receipt that a crash left ATTEMPTING is finalized by the start-up sweep.
StuckReceiptsSettle ==
    \A r \in Receipts :
        (mode = "boot" /\ rState[r] = "ATTEMPTING") ~> rState[r] = "FINALIZED"

-----------------------------------------------------------------------------
(* The supervisor implements OneShot. *)

phaseBar ==
    [k \in Keys |->
        IF idem[k] = "NONE" THEN "free"
        ELSE IF idemReceipt[k] = NoReceipt THEN "claimed"
        ELSE IF rState[idemReceipt[k]] = "FINALIZED" THEN "settled"
        ELSE IF invoked[k] = 0 THEN "claimed" ELSE "called"]

verdictBar ==
    [k \in Keys |->
        IF idemReceipt[k] = NoReceipt THEN "NONE" ELSE rOutcome[idemReceipt[k]]]

OS == INSTANCE OneShot
        WITH Verdicts <- Outcomes, phase <- phaseBar, verdict <- verdictBar

\* When sweeps only run at start-up, every key of the supervisor goes through
\* one claim, at most one call and one verdict, as OneShot says.
ImplementsOneShot == OS!Spec
=============================================================================
