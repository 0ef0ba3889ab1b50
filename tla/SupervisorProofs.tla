-------------------------- MODULE SupervisorProofs -------------------------
(***************************************************************************)
(* Safety of the supervisor for any number of keys, workers, receipts and  *)
(* crashes, with or without sweeps during executions.                      *)
(*                                                                         *)
(* AtMostOneInvocation is not inductive: it says nothing of a worker that  *)
(* is about to call its adapter.  Inv adds what the reservation buys: the  *)
(* frames inside execute() own distinct keys, those that have not reached  *)
(* the adapter own a key that was never invoked, and a key without a row   *)
(* was never invoked.                                                      *)
(***************************************************************************)
EXTENDS Supervisor, TLAPS

\* What a frame of execute() knows of the rows.
WorkerInv ==
    \A w \in Workers :
        /\ pc[w] # "idle" => wKey[w] \in Keys /\ idem[wKey[w]] # "NONE"
        /\ pc[w] \in {"reserved", "receipted", "invoking"} => invoked[wKey[w]] = 0
        /\ pc[w] \in {"receipted", "invoking", "returned"} =>
              /\ wReceipt[w] \in Receipts
              /\ idemReceipt[wKey[w]] = wReceipt[w]
              /\ rState[wReceipt[w]] # "NONE"
        /\ pc[w] \in {"invoking", "returned"} =>
              aState[wReceipt[w]] \in {"INVOKED", "FINALIZED"}
        /\ pc[w] = "returned" => wResult[w] \in Outcomes

\* No two frames hold the same key.
OwnerInv ==
    \A v, w \in Workers :
        pc[v] # "idle" /\ pc[w] # "idle" /\ wKey[v] = wKey[w] => v = w

\* What the rows say of the calls that were made.
KeyInv ==
    \A k \in Keys :
        /\ invoked[k] <= 1
        /\ idem[k] = "NONE" => invoked[k] = 0
        /\ idemReceipt[k] \in Receipts => rState[idemReceipt[k]] # "NONE"
        /\ invoked[k] > 0 =>
              /\ idemReceipt[k] \in Receipts
              /\ aState[idemReceipt[k]] \in {"INVOKED", "FINALIZED"}

\* The sweep holds a receipt that exists.
SweepInv ==
    /\ sw # "idle" => swReceipt \in Receipts /\ rState[swReceipt] # "NONE"
    /\ sw = "observed" => swOutcome \in Outcomes

Inv == TypeOK /\ WorkerInv /\ OwnerInv /\ KeyInv /\ SweepInv

-----------------------------------------------------------------------------

LEMMA InitInv == Init => Inv
BY SentinelAssumption, MaxCrashesAssumption
   DEF Init, Inv, TypeOK, WorkerInv, OwnerInv, KeyInv, SweepInv, IdemStates, Outcomes

LEMMA ReserveInv ==
    ASSUME Inv, NEW w \in Workers, NEW k \in Keys, Reserve(w, k)
    PROVE  Inv'
<1> USE SentinelAssumption, MaxCrashesAssumption
<1>1. TypeOK'
  BY DEF Inv, TypeOK, IdemStates, Reserve, sweep, observed
<1>2. WorkerInv'
  BY DEF Inv, TypeOK, WorkerInv, KeyInv, Reserve, CanReserve, observed
<1>3. OwnerInv'
  BY DEF Inv, TypeOK, WorkerInv, OwnerInv, Reserve, CanReserve
<1>4. KeyInv'
  BY DEF Inv, KeyInv, Reserve, observed
<1>5. SweepInv'
  BY DEF Inv, SweepInv, Reserve, sweep
<1> QED  BY <1>1, <1>2, <1>3, <1>4, <1>5 DEF Inv

LEMMA RefuseInv ==
    ASSUME Inv, NEW w \in Workers, NEW k \in Keys, Refuse(w, k)
    PROVE  Inv'
<1> USE SentinelAssumption, MaxCrashesAssumption
<1>1. TypeOK'
  BY DEF Inv, TypeOK, Refuse, durable, frames, sweep
<1>2. WorkerInv'
  BY DEF Inv, WorkerInv, Refuse, durable, frames
<1>3. OwnerInv'
  BY DEF Inv, OwnerInv, Refuse, frames
<1>4. KeyInv'
  BY DEF Inv, KeyInv, Refuse, durable
<1>5. SweepInv'
  BY DEF Inv, SweepInv, Refuse, durable, sweep
<1> QED  BY <1>1, <1>2, <1>3, <1>4, <1>5 DEF Inv

LEMMA AbortBeforeReceiptInv ==
    ASSUME Inv, NEW w \in Workers, AbortBeforeReceipt(w)
    PROVE  Inv'
<1> USE SentinelAssumption, MaxCrashesAssumption
<1>1. TypeOK'
  BY DEF Inv, TypeOK, AbortBeforeReceipt, Leave, durable, sweep, observed
<1>2. WorkerInv'
  BY DEF Inv, TypeOK, WorkerInv, AbortBeforeReceipt, Leave, durable, observed
<1>3. OwnerInv'
  BY DEF Inv, WorkerInv, OwnerInv, AbortBeforeReceipt, Leave
<1>4. KeyInv'
  BY DEF Inv, KeyInv, AbortBeforeReceipt, durable, observed
<1>5. SweepInv'
  BY DEF Inv, SweepInv, AbortBeforeReceipt, durable, sweep
<1> QED  BY <1>1, <1>2, <1>3, <1>4, <1>5 DEF Inv

LEMMA PersistReceiptInv ==
    ASSUME Inv, NEW w \in Workers, PersistReceipt(w)
    PROVE  Inv'
<1> USE SentinelAssumption, MaxCrashesAssumption
<1>1. TypeOK'
  BY DEF Inv, TypeOK, WorkerInv, PersistReceipt, sweep, observed
<1>2. WorkerInv'
  BY DEF Inv, TypeOK, WorkerInv, OwnerInv, PersistReceipt, observed
<1>3. OwnerInv'
  BY DEF Inv, OwnerInv, PersistReceipt
<1>4. KeyInv'
  BY DEF Inv, TypeOK, WorkerInv, KeyInv, PersistReceipt, observed
<1>5. SweepInv'
  BY DEF Inv, SweepInv, PersistReceipt, sweep
<1> QED  BY <1>1, <1>2, <1>3, <1>4, <1>5 DEF Inv

LEMMA AbortBeforeInvokeInv ==
    ASSUME Inv, NEW w \in Workers, AbortBeforeInvoke(w)
    PROVE  Inv'
<1> USE SentinelAssumption, MaxCrashesAssumption
<1>1. TypeOK'
  BY DEF Inv, TypeOK, AbortBeforeInvoke, Leave, durable, sweep, observed
<1>2. WorkerInv'
  BY DEF Inv, TypeOK, WorkerInv, AbortBeforeInvoke, Leave, durable, observed
<1>3. OwnerInv'
  BY DEF Inv, WorkerInv, OwnerInv, AbortBeforeInvoke, Leave
<1>4. KeyInv'
  BY DEF Inv, KeyInv, AbortBeforeInvoke, durable, observed
<1>5. SweepInv'
  BY DEF Inv, SweepInv, AbortBeforeInvoke, durable, sweep
<1> QED  BY <1>1, <1>2, <1>3, <1>4, <1>5 DEF Inv

LEMMA MarkInvokedInv ==
    ASSUME Inv, NEW w \in Workers, MarkInvoked(w)
    PROVE  Inv'
<1> USE SentinelAssumption, MaxCrashesAssumption
<1>1. TypeOK'
  BY DEF Inv, TypeOK, MarkInvoked, sweep, observed
<1>2. WorkerInv'
  BY DEF Inv, TypeOK, WorkerInv, MarkInvoked, observed
<1>3. OwnerInv'
  BY DEF Inv, OwnerInv, MarkInvoked
<1>4. KeyInv'
  BY DEF Inv, KeyInv, MarkInvoked, observed
<1>5. SweepInv'
  BY DEF Inv, SweepInv, MarkInvoked, sweep
<1> QED  BY <1>1, <1>2, <1>3, <1>4, <1>5 DEF Inv

LEMMA InvokeInv ==
    ASSUME Inv, NEW w \in Workers, Invoke(w)
    PROVE  Inv'
<1> USE SentinelAssumption, MaxCrashesAssumption
<1>1. TypeOK'
  BY DEF Inv, TypeOK, WorkerInv, Outcomes, Invoke, AdapterReturns, durable,
     sweep
<1>2. WorkerInv'
  BY DEF Inv, TypeOK, WorkerInv, OwnerInv, Outcomes, Invoke, AdapterReturns,
     durable
<1>3. OwnerInv'
  BY DEF Inv, OwnerInv, Invoke
<1>4. KeyInv'
  BY DEF Inv, WorkerInv, KeyInv, Invoke, durable
<1>5. SweepInv'
  BY DEF Inv, SweepInv, Invoke, durable, sweep
<1> QED  BY <1>1, <1>2, <1>3, <1>4, <1>5 DEF Inv

LEMMA FinalizeInv ==
    ASSUME Inv, NEW w \in Workers, Finalize(w)
    PROVE  Inv'
<1> USE SentinelAssumption, MaxCrashesAssumption
<1>1. TypeOK'
  BY DEF Inv, TypeOK, WorkerInv, IdemStates, Outcomes, Finalize, Leave,
     evaluate_verification, IdemStateOf, sweep, observed
<1>2. WorkerInv'
  BY DEF Inv, TypeOK, WorkerInv, Finalize, Leave, IdemStateOf, observed
<1>3. OwnerInv'
  BY DEF Inv, WorkerInv, OwnerInv, Finalize, Leave
<1>4. KeyInv'
  BY DEF Inv, WorkerInv, KeyInv, Finalize, IdemStateOf, observed
<1>5. SweepInv'
  BY DEF Inv, SweepInv, Finalize, sweep
<1> QED  BY <1>1, <1>2, <1>3, <1>4, <1>5 DEF Inv

LEMMA SweepReadInv ==
    ASSUME Inv, NEW r \in Receipts, SweepRead(r)
    PROVE  Inv'
<1> USE SentinelAssumption, MaxCrashesAssumption
<1>1. TypeOK'
  BY DEF Inv, TypeOK, SweepRead, durable, frames, observed
<1>2. WorkerInv'
  BY DEF Inv, WorkerInv, SweepRead, durable, frames, observed
<1>3. OwnerInv'
  BY DEF Inv, OwnerInv, SweepRead, frames
<1>4. KeyInv'
  BY DEF Inv, KeyInv, SweepRead, durable, observed
<1>5. SweepInv'
  BY DEF SweepInv, SweepRead, durable
<1> QED  BY <1>1, <1>2, <1>3, <1>4, <1>5 DEF Inv

LEMMA SweepObserveInv ==
    ASSUME Inv, SweepObserve
    PROVE  Inv'
<1> USE SentinelAssumption, MaxCrashesAssumption
<1>1. TypeOK'
  BY DEF Inv, TypeOK, SweepInv, Outcomes, SweepObserve, observe, durable,
     frames, observed
<1>2. WorkerInv'
  BY DEF Inv, WorkerInv, SweepObserve, durable, frames, observed
<1>3. OwnerInv'
  BY DEF Inv, OwnerInv, SweepObserve, frames
<1>4. KeyInv'
  BY DEF Inv, KeyInv, SweepObserve, durable, observed
<1>5. SweepInv'
  BY DEF Inv, SweepInv, Outcomes, SweepObserve, observe, durable
<1> QED  BY <1>1, <1>2, <1>3, <1>4, <1>5 DEF Inv

LEMMA SweepCommitInv ==
    ASSUME Inv, SweepCommit
    PROVE  Inv'
<1> USE SentinelAssumption, MaxCrashesAssumption
<1>1. TypeOK'
  BY DEF Inv, TypeOK, SweepCommit, frames, observed
<1>2. WorkerInv'
  BY DEF Inv, WorkerInv, SweepCommit, frames, observed
<1>3. OwnerInv'
  BY DEF Inv, OwnerInv, SweepCommit, frames
<1>4. KeyInv'
  BY DEF Inv, KeyInv, SweepCommit, observed
<1>5. SweepInv'
  BY DEF SweepInv, SweepCommit
<1> QED  BY <1>1, <1>2, <1>3, <1>4, <1>5 DEF Inv

LEMMA BootDoneInv ==
    ASSUME Inv, BootDone
    PROVE  Inv'
<1> USE SentinelAssumption, MaxCrashesAssumption
<1>1. TypeOK'
  BY DEF Inv, TypeOK, BootDone, durable, frames, sweep, observed
<1>2. WorkerInv'
  BY DEF Inv, WorkerInv, BootDone, durable, frames, observed
<1>3. OwnerInv'
  BY DEF Inv, OwnerInv, BootDone, frames
<1>4. KeyInv'
  BY DEF Inv, KeyInv, BootDone, durable, observed
<1>5. SweepInv'
  BY DEF SweepInv, BootDone, sweep
<1> QED  BY <1>1, <1>2, <1>3, <1>4, <1>5 DEF Inv

LEMMA CrashInv ==
    ASSUME Inv, Crash
    PROVE  Inv'
<1> USE SentinelAssumption, MaxCrashesAssumption
<1>1. TypeOK'
  BY DEF Inv, TypeOK, Crash, durable, observed
<1>2. WorkerInv'
  BY DEF WorkerInv, Crash
<1>3. OwnerInv'
  BY DEF OwnerInv, Crash
<1>4. KeyInv'
  BY DEF Inv, KeyInv, Crash, durable, observed
<1>5. SweepInv'
  BY DEF SweepInv, Crash
<1> QED  BY <1>1, <1>2, <1>3, <1>4, <1>5 DEF Inv

LEMMA NextInv == Inv /\ [Next]_vars => Inv'
<1> SUFFICES ASSUME Inv, [Next]_vars PROVE Inv'
  OBVIOUS
<1>1. ASSUME NEW w \in Workers, Execute(w) PROVE Inv'
  BY <1>1, ReserveInv, RefuseInv, AbortBeforeReceiptInv, PersistReceiptInv,
     AbortBeforeInvokeInv, MarkInvokedInv, InvokeInv, FinalizeInv DEF Execute
<1>2. CASE Sweep
  BY <1>2, SweepReadInv, SweepObserveInv, SweepCommitInv DEF Sweep
<1>3. CASE BootDone
  BY <1>3, BootDoneInv
<1>4. CASE Crash
  BY <1>4, CrashInv
<1>5. CASE UNCHANGED vars
  BY <1>5 DEF Inv, TypeOK, WorkerInv, OwnerInv, KeyInv, SweepInv,
              vars, durable, frames, sweep, observed
<1> QED  BY <1>1, <1>2, <1>3, <1>4, <1>5 DEF Next

LEMMA InvHolds == Spec => []Inv
BY InitInv, NextInv, PTL DEF Spec

\* The rows, the frames and the sweep keep their types.
THEOREM TypeCorrect == Spec => []TypeOK
<1>1. Inv => TypeOK
  BY DEF Inv
<1> QED  BY <1>1, InvHolds, PTL

\* No idempotency key ever has its adapter called twice, however many threads
\* submit it and wherever the process crashes, even if sweeps run meanwhile:
\* _reserve_idempotency decides, and no path gives a key back.
THEOREM AdapterCalledOnce == Spec => []AtMostOneInvocation
<1>1. Inv => AtMostOneInvocation
  BY DEF Inv, KeyInv, AtMostOneInvocation
<1> QED  BY <1>1, InvHolds, PTL

\* "No adapter call may precede a durable receipt" (supervisor.py:90).
THEOREM ReceiptsComeFirst == Spec => []ReceiptBeforeInvoke
<1>1. Inv => ReceiptBeforeInvoke
  BY DEF Inv, KeyInv, ReceiptBeforeInvoke
<1> QED  BY <1>1, InvHolds, PTL

-----------------------------------------------------------------------------
(***************************************************************************)
(* When the sweep runs only at start-up, the supervisor implements         *)
(* OneShot: each of its steps claims a key, calls its adapter, settles it, *)
(* or changes nothing OneShot can see.                                     *)
(*                                                                         *)
(* On top of Inv the argument needs that a receipt is in one pair of hands *)
(* at a time: workers and the sweep are never active together, a receipt   *)
(* in somebody's hands is still ATTEMPTING, and no two keys share one.     *)
(***************************************************************************)
\* During start-up nothing else runs, and the sweep runs only then.
PhaseInv ==
    /\ mode = "boot" => \A w \in Workers : pc[w] = "idle"
    /\ sw # "idle" => mode = "boot" /\ rState[swReceipt] = "ATTEMPTING"

\* A receipt whose worker is still inside execute() is not finalized.
HandInv ==
    \A w \in Workers :
        /\ pc[w] = "reserved" => idemReceipt[wKey[w]] = NoReceipt
        /\ pc[w] \in {"receipted", "invoking", "returned"} =>
              rState[wReceipt[w]] = "ATTEMPTING"
        /\ pc[w] = "returned" => invoked[wKey[w]] = 1

\* Receipts are made once, for one key, without an outcome.
BindingInv ==
    /\ \A k \in Keys : idem[k] = "NONE" => idemReceipt[k] = NoReceipt
    /\ \A j, k \in Keys :
          idemReceipt[j] = idemReceipt[k] /\ idemReceipt[j] # NoReceipt => j = k
    /\ \A r \in Receipts : rState[r] = "NONE" => rOutcome[r] = "NONE"

RInv == Inv /\ PhaseInv /\ HandInv /\ BindingInv

-----------------------------------------------------------------------------

LEMMA InitRInv == Init => RInv
BY InitInv, SentinelAssumption DEF RInv, Init, PhaseInv, HandInv, BindingInv

LEMMA ReserveRInv ==
    ASSUME RInv, NEW w \in Workers, NEW k \in Keys, Reserve(w, k)
    PROVE  RInv'
<1>1. Inv'
  BY ReserveInv DEF RInv
<1>2. PhaseInv'
  BY DEF RInv, PhaseInv, Reserve, sweep
<1>3. HandInv'
  BY DEF RInv, Inv, TypeOK, HandInv, BindingInv, Reserve, CanReserve,
     observed
<1>4. BindingInv'
  BY DEF RInv, BindingInv, Reserve
<1> QED  BY <1>1, <1>2, <1>3, <1>4 DEF RInv

LEMMA RefuseRInv ==
    ASSUME RInv, NEW w \in Workers, NEW k \in Keys, Refuse(w, k)
    PROVE  RInv'
<1>1. Inv'
  BY RefuseInv DEF RInv
<1>2. PhaseInv'
  BY DEF RInv, PhaseInv, Refuse, sweep
<1>3. HandInv'
  BY DEF RInv, HandInv, Refuse, durable, frames
<1>4. BindingInv'
  BY DEF RInv, BindingInv, Refuse, durable
<1> QED  BY <1>1, <1>2, <1>3, <1>4 DEF RInv

LEMMA AbortBeforeReceiptRInv ==
    ASSUME RInv, NEW w \in Workers, AbortBeforeReceipt(w)
    PROVE  RInv'
<1>1. Inv'
  BY AbortBeforeReceiptInv DEF RInv
<1>2. PhaseInv'
  BY DEF RInv, PhaseInv, AbortBeforeReceipt, sweep
<1>3. HandInv'
  BY DEF RInv, Inv, TypeOK, HandInv, AbortBeforeReceipt, Leave, durable,
     observed
<1>4. BindingInv'
  BY DEF RInv, BindingInv, AbortBeforeReceipt, durable
<1> QED  BY <1>1, <1>2, <1>3, <1>4 DEF RInv

LEMMA PersistReceiptRInv ==
    ASSUME RInv, NEW w \in Workers, PersistReceipt(w)
    PROVE  RInv'
<1>1. Inv'
  BY PersistReceiptInv DEF RInv
<1>2. PhaseInv'
  BY DEF RInv, PhaseInv, PersistReceipt, sweep
<1>3. HandInv'
  BY DEF RInv, Inv, TypeOK, OwnerInv, HandInv, PersistReceipt, observed
<1>4. BindingInv'
  BY DEF RInv, Inv, WorkerInv, KeyInv, BindingInv, PersistReceipt
<1> QED  BY <1>1, <1>2, <1>3, <1>4 DEF RInv

LEMMA AbortBeforeInvokeRInv ==
    ASSUME RInv, NEW w \in Workers, AbortBeforeInvoke(w)
    PROVE  RInv'
<1>1. Inv'
  BY AbortBeforeInvokeInv DEF RInv
<1>2. PhaseInv'
  BY DEF RInv, PhaseInv, AbortBeforeInvoke, sweep
<1>3. HandInv'
  BY DEF RInv, Inv, TypeOK, HandInv, AbortBeforeInvoke, Leave, durable,
     observed
<1>4. BindingInv'
  BY DEF RInv, BindingInv, AbortBeforeInvoke, durable
<1> QED  BY <1>1, <1>2, <1>3, <1>4 DEF RInv

LEMMA MarkInvokedRInv ==
    ASSUME RInv, NEW w \in Workers, MarkInvoked(w)
    PROVE  RInv'
<1>1. Inv'
  BY MarkInvokedInv DEF RInv
<1>2. PhaseInv'
  BY DEF RInv, PhaseInv, MarkInvoked, sweep
<1>3. HandInv'
  BY DEF RInv, HandInv, MarkInvoked, observed
<1>4. BindingInv'
  BY DEF RInv, BindingInv, MarkInvoked
<1> QED  BY <1>1, <1>2, <1>3, <1>4 DEF RInv

LEMMA InvokeRInv ==
    ASSUME RInv, NEW w \in Workers, Invoke(w)
    PROVE  RInv'
<1>1. Inv'
  BY InvokeInv DEF RInv
<1>2. PhaseInv'
  BY DEF RInv, PhaseInv, Invoke, sweep
<1>3. HandInv'
  BY DEF RInv, Inv, TypeOK, WorkerInv, HandInv, Invoke, durable
<1>4. BindingInv'
  BY DEF RInv, BindingInv, Invoke, durable
<1> QED  BY <1>1, <1>2, <1>3, <1>4 DEF RInv

LEMMA FinalizeRInv ==
    ASSUME RInv, NEW w \in Workers, Finalize(w)
    PROVE  RInv'
<1>1. Inv'
  BY FinalizeInv DEF RInv
<1>2. PhaseInv'
  BY DEF RInv, PhaseInv, Finalize, sweep
<1>3. HandInv'
  BY SentinelAssumption DEF RInv, Inv, TypeOK, WorkerInv, OwnerInv, HandInv,
     BindingInv, Finalize, Leave, observed
<1>4. BindingInv'
  BY DEF RInv, Inv, WorkerInv, BindingInv, Finalize, IdemStateOf
<1> QED  BY <1>1, <1>2, <1>3, <1>4 DEF RInv

LEMMA SweepReadRInv ==
    ASSUME RInv, LiveSweep = FALSE, NEW r \in Receipts, SweepRead(r)
    PROVE  RInv'
<1>1. Inv'
  BY SweepReadInv DEF RInv
<1>2. PhaseInv'
  BY DEF RInv, PhaseInv, SweepRead, SweepAllowed, durable, frames
<1>3. HandInv'
  BY DEF RInv, HandInv, SweepRead, durable, frames, observed
<1>4. BindingInv'
  BY DEF RInv, BindingInv, SweepRead, durable
<1> QED  BY <1>1, <1>2, <1>3, <1>4 DEF RInv

LEMMA SweepObserveRInv ==
    ASSUME RInv, SweepObserve
    PROVE  RInv'
<1>1. Inv'
  BY SweepObserveInv DEF RInv
<1>2. PhaseInv'
  BY DEF RInv, PhaseInv, SweepObserve, durable, frames
<1>3. HandInv'
  BY DEF RInv, HandInv, SweepObserve, durable, frames, observed
<1>4. BindingInv'
  BY DEF RInv, BindingInv, SweepObserve, durable
<1> QED  BY <1>1, <1>2, <1>3, <1>4 DEF RInv

LEMMA SweepCommitRInv ==
    ASSUME RInv, SweepCommit
    PROVE  RInv'
<1>1. Inv'
  BY SweepCommitInv DEF RInv
<1>2. PhaseInv'
  BY DEF RInv, PhaseInv, SweepCommit, frames
<1>3. HandInv'
  BY DEF RInv, PhaseInv, HandInv, SweepCommit, frames
<1>4. BindingInv'
  BY DEF RInv, PhaseInv, BindingInv, SweepCommit
<1> QED  BY <1>1, <1>2, <1>3, <1>4 DEF RInv

LEMMA BootDoneRInv ==
    ASSUME RInv, BootDone
    PROVE  RInv'
<1>1. Inv'
  BY BootDoneInv DEF RInv
<1>2. PhaseInv'
  BY DEF PhaseInv, BootDone, sweep
<1>3. HandInv'
  BY DEF RInv, HandInv, BootDone, durable, frames, observed
<1>4. BindingInv'
  BY DEF RInv, BindingInv, BootDone, durable
<1> QED  BY <1>1, <1>2, <1>3, <1>4 DEF RInv

LEMMA CrashRInv ==
    ASSUME RInv, Crash
    PROVE  RInv'
<1>1. Inv'
  BY CrashInv DEF RInv
<1>2. PhaseInv'
  BY DEF PhaseInv, Crash
<1>3. HandInv'
  BY DEF HandInv, Crash
<1>4. BindingInv'
  BY DEF RInv, BindingInv, Crash, durable
<1> QED  BY <1>1, <1>2, <1>3, <1>4 DEF RInv

LEMMA NextRInv ==
    ASSUME RInv, LiveSweep = FALSE, [Next]_vars
    PROVE  RInv'
<1>1. ASSUME NEW w \in Workers, Execute(w) PROVE RInv'
  BY <1>1, ReserveRInv, RefuseRInv, AbortBeforeReceiptRInv, PersistReceiptRInv,
     AbortBeforeInvokeRInv, MarkInvokedRInv, InvokeRInv, FinalizeRInv DEF Execute
<1>2. CASE Sweep
  BY <1>2, SweepReadRInv, SweepObserveRInv, SweepCommitRInv DEF Sweep
<1>3. CASE BootDone
  BY <1>3, BootDoneRInv
<1>4. CASE Crash
  BY <1>4, CrashRInv
<1>5. CASE UNCHANGED vars
  <2>1. Inv'
    BY NextInv DEF RInv
  <2> QED  BY <1>5, <2>1 DEF RInv, PhaseInv, HandInv, BindingInv,
              vars, durable, frames, sweep, observed
<1> QED  BY <1>1, <1>2, <1>3, <1>4, <1>5 DEF Next

-----------------------------------------------------------------------------
(* Every step is a step of OneShot or a stutter. *)

LEMMA InitMaps == Init => OS!Init
BY DEF Init, OS!Init, phaseBar, verdictBar

LEMMA ReserveMaps ==
    ASSUME RInv, NEW w \in Workers, NEW k \in Keys, Reserve(w, k)
    PROVE  OS!Claim(k)
<1>1. /\ idem[k] = "NONE" /\ idemReceipt[k] = NoReceipt
      /\ idem \in [Keys -> IdemStates]
  BY DEF RInv, BindingInv, Inv, TypeOK, Reserve, CanReserve
<1>2. /\ idem' = [idem EXCEPT ![k] = "IN_PROGRESS"] /\ invoked' = invoked
      /\ idemReceipt' = idemReceipt /\ rState' = rState /\ rOutcome' = rOutcome
  BY DEF Reserve, observed
<1>3. phaseBar[k] = "free" /\ phaseBar' = [phaseBar EXCEPT ![k] = "claimed"]
  BY <1>1, <1>2 DEF phaseBar
<1>4. verdictBar' = verdictBar
  BY <1>2 DEF verdictBar
<1> QED  BY <1>3, <1>4 DEF OS!Claim

LEMMA PersistReceiptStutters ==
    ASSUME RInv, NEW w \in Workers, PersistReceipt(w)
    PROVE  UNCHANGED <<phaseBar, verdictBar>>
<1> DEFINE k == wKey[w]
<1>1. /\ k \in Keys /\ idem[k] # "NONE" /\ invoked[k] = 0 /\ idemReceipt[k] = NoReceipt
      /\ idemReceipt \in [Keys -> Receipts \cup {NoReceipt}]
      /\ rState \in [Receipts -> {"NONE", "ATTEMPTING", "FINALIZED"}]
  BY DEF RInv, Inv, TypeOK, WorkerInv, HandInv, PersistReceipt
<1>2. PICK r \in Receipts :
        /\ rState[r] = "NONE"
        /\ rState' = [rState EXCEPT ![r] = "ATTEMPTING"]
        /\ idemReceipt' = [idemReceipt EXCEPT ![k] = r]
  BY DEF PersistReceipt
<1>3. idem' = idem /\ invoked' = invoked /\ rOutcome' = rOutcome
  BY DEF PersistReceipt, observed
<1>4. \A j \in Keys : j # k => idemReceipt'[j] = idemReceipt[j] /\ idemReceipt[j] # r
  BY <1>1, <1>2, SentinelAssumption DEF RInv, Inv, KeyInv
<1>5. rOutcome[r] = "NONE"
  BY <1>2 DEF RInv, BindingInv
<1>6. phaseBar' = phaseBar
  BY <1>1, <1>2, <1>3, <1>4, SentinelAssumption DEF phaseBar
<1>7. verdictBar' = verdictBar
  BY <1>1, <1>2, <1>3, <1>4, <1>5, SentinelAssumption DEF verdictBar
<1> QED  BY <1>6, <1>7

LEMMA InvokeMaps ==
    ASSUME RInv, NEW w \in Workers, Invoke(w)
    PROVE  OS!Call(wKey[w])
<1> DEFINE k == wKey[w]
<1>1. /\ k \in Keys /\ idem[k] # "NONE" /\ invoked[k] = 0
      /\ idemReceipt[k] \in Receipts /\ rState[idemReceipt[k]] = "ATTEMPTING"
      /\ invoked \in [Keys -> Nat]
  BY DEF RInv, Inv, TypeOK, WorkerInv, HandInv, Invoke
<1>2. /\ idem' = idem /\ idemReceipt' = idemReceipt
      /\ rState' = rState /\ rOutcome' = rOutcome
      /\ invoked' = [invoked EXCEPT ![k] = @ + 1]
  BY DEF Invoke, durable
<1>3. phaseBar[k] = "claimed" /\ phaseBar' = [phaseBar EXCEPT ![k] = "called"]
  BY <1>1, <1>2, SentinelAssumption DEF phaseBar
<1>4. verdictBar' = verdictBar
  BY <1>2 DEF verdictBar
<1> QED  BY <1>3, <1>4 DEF OS!Call

LEMMA FinalizeMaps ==
    ASSUME RInv, NEW w \in Workers, Finalize(w)
    PROVE  OS!Settle(wKey[w])
<1> DEFINE k == wKey[w]
           r == wReceipt[w]
<1>1. /\ k \in Keys /\ idem[k] # "NONE" /\ invoked[k] = 1
      /\ r \in Receipts /\ idemReceipt[k] = r /\ rState[r] = "ATTEMPTING"
      /\ idem \in [Keys -> IdemStates]
      /\ idemReceipt \in [Keys -> Receipts \cup {NoReceipt}]
      /\ rState \in [Receipts -> {"NONE", "ATTEMPTING", "FINALIZED"}]
      /\ rOutcome \in [Receipts -> Outcomes \cup {"NONE"}]
      /\ wResult[w] \in Outcomes
  BY DEF RInv, Inv, TypeOK, WorkerInv, HandInv, Finalize
<1>2. PICK out \in evaluate_verification(wResult[w]) :
        /\ rOutcome' = [rOutcome EXCEPT ![r] = out]
        /\ idem' = [idem EXCEPT ![k] = IdemStateOf(out)]
  BY DEF Finalize
<1>3. out \in Outcomes
  BY <1>1 DEF evaluate_verification, Outcomes
<1>4. /\ rState' = [rState EXCEPT ![r] = "FINALIZED"]
      /\ idemReceipt' = idemReceipt /\ invoked' = invoked
  BY <1>1 DEF Finalize, observed
<1>5. \A j \in Keys : j # k => idemReceipt[j] # r
  BY <1>1, SentinelAssumption DEF RInv, BindingInv
<1>6. idem'[k] # "NONE" /\ \A j \in Keys : j # k => idem'[j] = idem[j]
  BY <1>1, <1>2 DEF IdemStateOf
<1>7. phaseBar[k] = "called" /\ phaseBar' = [phaseBar EXCEPT ![k] = "settled"]
  BY <1>1, <1>4, <1>5, <1>6, SentinelAssumption DEF phaseBar
<1>8. verdictBar' = [verdictBar EXCEPT ![k] = out]
  BY <1>1, <1>2, <1>4, <1>5, SentinelAssumption DEF verdictBar
<1> QED  BY <1>3, <1>7, <1>8 DEF OS!Settle

LEMMA SweepCommitMaps ==
    ASSUME RInv, SweepCommit
    PROVE  (\E k \in Keys : OS!Settle(k)) \/ UNCHANGED <<phaseBar, verdictBar>>
<1> DEFINE r == swReceipt
<1>1. /\ r \in Receipts /\ rState[r] = "ATTEMPTING" /\ swOutcome \in Outcomes
      /\ idemReceipt \in [Keys -> Receipts \cup {NoReceipt}]
      /\ rState \in [Receipts -> {"NONE", "ATTEMPTING", "FINALIZED"}]
      /\ rOutcome \in [Receipts -> Outcomes \cup {"NONE"}]
  BY DEF RInv, Inv, TypeOK, SweepInv, PhaseInv, SweepCommit
<1>2. /\ rState' = [rState EXCEPT ![r] = "FINALIZED"]
      /\ rOutcome' = [rOutcome EXCEPT ![r] = swOutcome]
      /\ idem' = idem /\ idemReceipt' = idemReceipt /\ invoked' = invoked
  BY DEF SweepCommit, observed
<1>3. CASE \A k \in Keys : idemReceipt[k] # r
  BY <1>1, <1>2, <1>3, SentinelAssumption DEF phaseBar, verdictBar
<1>4. ASSUME NEW k \in Keys, idemReceipt[k] = r
      PROVE  OS!Settle(k)
  <2>1. idem[k] # "NONE" /\ r # NoReceipt
    BY <1>1, <1>4, SentinelAssumption DEF RInv, BindingInv
  <2>2. \A j \in Keys : j # k => idemReceipt[j] # r
    BY <1>4, <2>1 DEF RInv, BindingInv
  <2>3. phaseBar[k] \in {"claimed", "called"}
    BY <1>1, <1>4, <2>1 DEF phaseBar
  <2>4. phaseBar' = [phaseBar EXCEPT ![k] = "settled"]
    BY <1>1, <1>2, <1>4, <2>1, <2>2 DEF phaseBar
  <2>5. verdictBar' = [verdictBar EXCEPT ![k] = swOutcome]
    BY <1>1, <1>2, <1>4, <2>1, <2>2 DEF verdictBar
  <2> QED  BY <1>1, <2>3, <2>4, <2>5 DEF OS!Settle
<1> QED  BY <1>3, <1>4

\* The rows OneShot is defined on.
seen == <<idem, idemReceipt, rState, rOutcome, invoked>>

LEMMA UnseenStutters == UNCHANGED seen => UNCHANGED <<phaseBar, verdictBar>>
BY DEF seen, phaseBar, verdictBar

LEMMA NextMaps ==
    ASSUME RInv, [Next]_vars
    PROVE  [OS!Next]_(OS!vars)
<1> USE DEF OS!Next, OS!vars
<1>1. ASSUME NEW w \in Workers, NEW k \in Keys, Reserve(w, k) \/ Refuse(w, k)
      PROVE  [OS!Next]_(OS!vars)
  <2>1. CASE Reserve(w, k)
    BY <2>1, ReserveMaps
  <2>2. CASE Refuse(w, k)
    BY <2>2, UnseenStutters DEF Refuse, durable, seen
  <2> QED  BY <1>1, <2>1, <2>2
<1>2. ASSUME NEW w \in Workers,
             AbortBeforeReceipt(w) \/ AbortBeforeInvoke(w) \/ MarkInvoked(w)
      PROVE  [OS!Next]_(OS!vars)
  BY <1>2, UnseenStutters
     DEF AbortBeforeReceipt, AbortBeforeInvoke, MarkInvoked, durable, observed, seen
<1>3. ASSUME NEW w \in Workers, PersistReceipt(w)
      PROVE  [OS!Next]_(OS!vars)
  BY <1>3, PersistReceiptStutters
<1>4. ASSUME NEW w \in Workers, Invoke(w)
      PROVE  [OS!Next]_(OS!vars)
  <2>1. wKey[w] \in Keys
    BY <1>4 DEF RInv, Inv, WorkerInv, Invoke
  <2> QED  BY <1>4, <2>1, InvokeMaps
<1>5. ASSUME NEW w \in Workers, Finalize(w)
      PROVE  [OS!Next]_(OS!vars)
  <2>1. wKey[w] \in Keys
    BY <1>5 DEF RInv, Inv, WorkerInv, Finalize
  <2> QED  BY <1>5, <2>1, FinalizeMaps
<1>6. CASE Sweep
  <2>1. ASSUME NEW r \in Receipts, SweepRead(r)
        PROVE  [OS!Next]_(OS!vars)
    BY <2>1, UnseenStutters DEF SweepRead, durable, observed, seen
  <2>2. CASE SweepObserve
    BY <2>2, UnseenStutters DEF SweepObserve, durable, observed, seen
  <2>3. CASE SweepCommit
    BY <2>3, SweepCommitMaps
  <2> QED  BY <1>6, <2>1, <2>2, <2>3 DEF Sweep
<1>7. CASE BootDone \/ Crash
  BY <1>7, UnseenStutters DEF BootDone, Crash, durable, observed, seen
<1>8. CASE UNCHANGED vars
  BY <1>8, UnseenStutters DEF vars, durable, observed, seen
<1> QED  BY <1>1, <1>2, <1>3, <1>4, <1>5, <1>6, <1>7, <1>8 DEF Next, Execute

\* With sweeps confined to start-up, every behaviour of the supervisor is,
\* key by key, a claim, at most one call and one final verdict.
THEOREM Refinement ==
    ASSUME LiveSweep = FALSE
    PROVE  Spec => ImplementsOneShot
<1>1. Init => RInv /\ OS!Init
  BY InitRInv, InitMaps
<1>2. RInv /\ [Next]_vars => RInv'
  BY NextRInv, LiveSweep = FALSE
<1>3. RInv /\ [Next]_vars => [OS!Next]_(OS!vars)
  BY NextMaps
<1> QED  BY <1>1, <1>2, <1>3, PTL DEF Spec, ImplementsOneShot, OS!Spec

\* With sweeps confined to start-up, a verdict is never revised: whoever
\* finalizes a receipt, worker or sweep, had it to itself.
THEOREM VerdictsAreFinal ==
    ASSUME LiveSweep = FALSE
    PROVE  Spec => VerdictIsFinal
<1> DEFINE Final == \A r \in Receipts : rState[r] = "FINALIZED" =>
                       rState'[r] = "FINALIZED" /\ rOutcome'[r] = rOutcome[r]
<1>1. Init => RInv
  BY InitRInv
<1>2. RInv /\ [Next]_vars => RInv'
  BY NextRInv, LiveSweep = FALSE
<1>3. ASSUME RInv, [Next]_vars PROVE [Final]_vars
  <2> SUFFICES ASSUME Next PROVE Final
    BY <1>3
  <2>0. /\ rState \in [Receipts -> {"NONE", "ATTEMPTING", "FINALIZED"}]
        /\ rOutcome \in [Receipts -> Outcomes \cup {"NONE"}]
    BY <1>3 DEF RInv, Inv, TypeOK
  <2>1. ASSUME NEW w \in Workers, PersistReceipt(w) PROVE Final
    BY <2>0, <2>1 DEF PersistReceipt
  <2>2. ASSUME NEW w \in Workers, Finalize(w) PROVE Final
    <3>1. wReceipt[w] \in Receipts /\ rState[wReceipt[w]] = "ATTEMPTING"
      BY <1>3, <2>2 DEF RInv, Inv, WorkerInv, HandInv, Finalize
    <3> QED  BY <2>0, <2>2, <3>1 DEF Finalize
  <2>3. CASE SweepCommit
    <3>1. swReceipt \in Receipts /\ rState[swReceipt] = "ATTEMPTING"
      BY <1>3, <2>3 DEF RInv, Inv, SweepInv, PhaseInv, SweepCommit
    <3> QED  BY <2>0, <2>3, <3>1 DEF SweepCommit
  <2>4. CASE UNCHANGED <<rState, rOutcome>>
    BY <2>4
  <2>5. Next => \/ \E w \in Workers : PersistReceipt(w) \/ Finalize(w)
                \/ SweepCommit
                \/ UNCHANGED <<rState, rOutcome>>
    BY DEF Next, Execute, Sweep, Reserve, Refuse, AbortBeforeReceipt,
           AbortBeforeInvoke, MarkInvoked, Invoke, SweepRead, SweepObserve,
           BootDone, Crash, durable
  <2> QED  BY <2>1, <2>2, <2>3, <2>4, <2>5
<1>4. RInv /\ [Next]_vars => [Final]_vars
  BY <1>3
<1> QED  BY <1>1, <1>2, <1>4, PTL DEF Spec, VerdictIsFinal

-----------------------------------------------------------------------------
(* The verdicts are true. *)

\* What worker and sweep know of the calls behind the verdict they will write.
KnowledgeInv ==
    /\ \A k \in Keys : invoked[k] = 0 => effect[k] = 0
    /\ \A w \in Workers :
          pc[w] = "returned" /\ wResult[w] = "SUCCESS" => effect[wKey[w]] = 1
    /\ sw = "observed" /\ swOutcome = "FAILURE" =>
          \A k \in Keys : idemReceipt[k] = swReceipt => invoked[k] = 0

\* Only finalized receipts have incidents or finalized attempts, and a key is
\* COMPLETED through its receipt.
RowsInv ==
    /\ \A r \in Receipts : rState[r] # "FINALIZED" =>
          incidents[r] = {} /\ aState[r] # "FINALIZED"
    /\ \A k \in Keys : idem[k] = "COMPLETED" => idemReceipt[k] \in Receipts

TInv == KnowledgeInv /\ RowsInv /\ CompletedMeansDone /\ SweptFailureIsSafe

LEMMA InitTInv == Init => TInv
BY DEF Init, TInv, KnowledgeInv, RowsInv, CompletedMeansDone, SweptFailureIsSafe

\* Steps that write none of the rows the verdicts are made of.
LEMMA FrameTInv ==
    ASSUME TInv, UNCHANGED <<idemReceipt, rState, rOutcome, incidents, invoked, effect>>,
           \A k \in Keys : idem'[k] = "COMPLETED" => idem[k] = "COMPLETED",
           \A r \in Receipts : rState[r] # "FINALIZED" /\ aState'[r] = "FINALIZED" =>
               aState[r] = "FINALIZED",
           \A w \in Workers : pc'[w] = "returned" =>
               pc[w] = "returned" /\ wKey'[w] = wKey[w] /\ wResult'[w] = wResult[w],
           sw' = "observed" => sw = "observed" /\ UNCHANGED <<swReceipt, swOutcome>>
    PROVE  TInv'
BY DEF TInv, KnowledgeInv, RowsInv, CompletedMeansDone, SweptFailureIsSafe

LEMMA QuietTInv ==
    ASSUME RInv, TInv, NEW w \in Workers,
           \/ \E k \in Keys : Reserve(w, k) \/ Refuse(w, k)
           \/ AbortBeforeReceipt(w) \/ AbortBeforeInvoke(w) \/ MarkInvoked(w)
    PROVE  TInv'
<1> USE DEF RInv, Inv, TypeOK
<1>1. ASSUME NEW k \in Keys, Reserve(w, k) PROVE TInv'
  BY <1>1, FrameTInv DEF Reserve, sweep, observed
<1>2. ASSUME NEW k \in Keys, Refuse(w, k) PROVE TInv'
  BY <1>2, FrameTInv DEF Refuse, durable, frames, sweep
<1>3. CASE AbortBeforeReceipt(w) \/ AbortBeforeInvoke(w)
  BY <1>3, FrameTInv DEF AbortBeforeReceipt, AbortBeforeInvoke, Leave, durable, sweep, observed
<1>4. CASE MarkInvoked(w)
  <2>1. wReceipt[w] \in Receipts
    BY <1>4 DEF WorkerInv, MarkInvoked
  <2> QED  BY <1>4, <2>1, FrameTInv DEF MarkInvoked, sweep, observed
<1> QED  BY <1>1, <1>2, <1>3, <1>4

LEMMA PersistReceiptTInv ==
    ASSUME RInv, TInv, NEW w \in Workers, PersistReceipt(w)
    PROVE  TInv'
<1> DEFINE k == wKey[w]
<1>1. PICK r \in Receipts :
        /\ rState[r] = "NONE"
        /\ rState' = [rState EXCEPT ![r] = "ATTEMPTING"]
        /\ aState' = [aState EXCEPT ![r] = "CREATED"]
        /\ idemReceipt' = [idemReceipt EXCEPT ![k] = r]
  BY DEF PersistReceipt
<1>2. /\ UNCHANGED <<idem, rOutcome, incidents, invoked, effect, wKey, wResult, sw,
                    swReceipt, swOutcome>>
      /\ pc' = [pc EXCEPT ![w] = "receipted"] /\ pc[w] = "reserved"
  BY DEF PersistReceipt, sweep, observed
<1>3. k \in Keys /\ idemReceipt[k] = NoReceipt /\ idem[k] # "COMPLETED" /\ mode # "boot"
  BY <1>2, SentinelAssumption DEF RInv, Inv, WorkerInv, HandInv, PhaseInv, TInv, RowsInv
<1>4. sw = "idle"
  BY <1>3 DEF RInv, PhaseInv
<1>5. KnowledgeInv'
  BY <1>2, <1>4 DEF RInv, Inv, TypeOK, TInv, KnowledgeInv
<1>6. RowsInv'
  BY <1>1, <1>2, <1>3 DEF RInv, Inv, TypeOK, TInv, RowsInv
<1>7. CompletedMeansDone'
  BY <1>1, <1>2, <1>3 DEF RInv, Inv, TypeOK, TInv, RowsInv, CompletedMeansDone
<1>8. SweptFailureIsSafe'
  BY <1>1, <1>2, <1>3 DEF RInv, Inv, TypeOK, TInv, RowsInv, SweptFailureIsSafe
<1> QED  BY <1>5, <1>6, <1>7, <1>8 DEF TInv

LEMMA InvokeTInv ==
    ASSUME RInv, TInv, NEW w \in Workers, Invoke(w)
    PROVE  TInv'
<1> DEFINE k == wKey[w]
<1>1. /\ k \in Keys /\ invoked[k] = 0 /\ effect[k] = 0 /\ idem[k] # "COMPLETED"
      /\ wReceipt[w] \in Receipts /\ idemReceipt[k] = wReceipt[w]
      /\ incidents[wReceipt[w]] = {} /\ sw = "idle"
  BY DEF RInv, Inv, WorkerInv, HandInv, PhaseInv, TInv, KnowledgeInv, RowsInv,
         CompletedMeansDone, Invoke
<1>2. PICK a \in AdapterReturns :
        /\ wResult' = [wResult EXCEPT ![w] = a[1]]
        /\ effect' = [effect EXCEPT ![k] = @ + a[2]]
  BY DEF Invoke
<1>3. /\ UNCHANGED <<idem, idemReceipt, rState, rOutcome, aState, incidents, wKey, sw>>
      /\ invoked' = [invoked EXCEPT ![k] = @ + 1]
      /\ pc' = [pc EXCEPT ![w] = "returned"]
  BY DEF Invoke, durable, sweep
<1>4. a[1] = "SUCCESS" => a[2] = 1
  BY DEF AdapterReturns
<1>5. \A v \in Workers : v # w /\ pc[v] # "idle" => wKey[v] # k
  BY DEF RInv, Inv, OwnerInv, Invoke
<1>6. KnowledgeInv'
  <2>1. \A j \in Keys : invoked'[j] = 0 => effect'[j] = 0
    BY <1>1, <1>2, <1>3 DEF RInv, Inv, TypeOK, TInv, KnowledgeInv
  <2>2. ASSUME NEW v \in Workers, pc'[v] = "returned", wResult'[v] = "SUCCESS"
        PROVE  effect'[wKey[v]] = 1
    <3>1. CASE v = w
      BY <1>1, <1>2, <1>4, <2>2, <3>1 DEF RInv, Inv, TypeOK
    <3>2. CASE v # w
      BY <1>2, <1>3, <1>5, <2>2, <3>2 DEF RInv, Inv, TypeOK, TInv, KnowledgeInv
    <3> QED  BY <3>1, <3>2
  <2> QED  BY <1>1, <1>3, <2>1, <2>2 DEF KnowledgeInv
<1>7. RowsInv' /\ CompletedMeansDone'
  BY <1>1, <1>2, <1>3 DEF RInv, Inv, TypeOK, TInv, RowsInv, CompletedMeansDone
<1>8. SweptFailureIsSafe'
  BY <1>1, <1>3 DEF RInv, Inv, TypeOK, TInv, SweptFailureIsSafe
<1> QED  BY <1>6, <1>7, <1>8 DEF TInv

LEMMA FinalizeTInv ==
    ASSUME RInv, TInv, NEW w \in Workers, Finalize(w)
    PROVE  TInv'
<1> DEFINE k == wKey[w]
           r == wReceipt[w]
<1>1. /\ k \in Keys /\ r \in Receipts /\ idemReceipt[k] = r /\ rState[r] = "ATTEMPTING"
      /\ incidents[r] = {} /\ sw = "idle"
      /\ (wResult[w] = "SUCCESS" => effect[k] = 1) /\ wResult[w] \in Outcomes
  BY DEF RInv, Inv, WorkerInv, HandInv, PhaseInv, TInv, KnowledgeInv, RowsInv, Finalize
<1>2. PICK out \in evaluate_verification(wResult[w]) :
        /\ rOutcome' = [rOutcome EXCEPT ![r] = out]
        /\ idem' = [idem EXCEPT ![k] = IdemStateOf(out)]
  BY DEF Finalize
<1>3. /\ rState' = [rState EXCEPT ![r] = "FINALIZED"]
      /\ aState' = [aState EXCEPT ![r] = "FINALIZED"]
      /\ UNCHANGED <<idemReceipt, incidents, invoked, effect, sw>>
      /\ pc' = [pc EXCEPT ![w] = "idle"]
      /\ \A v \in Workers : v # w => wKey'[v] = wKey[v] /\ wResult'[v] = wResult[v]
  BY <1>1 DEF RInv, Inv, TypeOK, Finalize, Leave, sweep, observed
<1>4. \A j \in Keys : j # k => idemReceipt[j] # r
  BY <1>1, SentinelAssumption DEF RInv, BindingInv
<1>5. IdemStateOf(out) = "COMPLETED" => out = "SUCCESS" /\ effect[k] = 1
  BY <1>1, <1>2 DEF IdemStateOf, evaluate_verification
<1>6. KnowledgeInv'
  BY <1>1, <1>3 DEF RInv, Inv, TypeOK, TInv, KnowledgeInv
<1>7. RowsInv'
  BY <1>1, <1>2, <1>3 DEF RInv, Inv, TypeOK, TInv, RowsInv
<1>8. CompletedMeansDone'
  BY <1>1, <1>2, <1>3, <1>4, <1>5 DEF RInv, Inv, TypeOK, TInv, RowsInv, CompletedMeansDone
<1>9. SweptFailureIsSafe'
  BY <1>1, <1>2, <1>3 DEF RInv, Inv, TypeOK, TInv, SweptFailureIsSafe
<1> QED  BY <1>6, <1>7, <1>8, <1>9 DEF TInv

LEMMA SweepTInv ==
    ASSUME RInv, TInv, Sweep
    PROVE  TInv'
<1>1. ASSUME NEW r \in Receipts, SweepRead(r) PROVE TInv'
  BY <1>1, FrameTInv DEF SweepRead, durable, frames, observed
<1>2. CASE SweepObserve
  <2>1. swReceipt \in Receipts /\ aState[swReceipt] # "FINALIZED"
    BY <1>2 DEF RInv, Inv, SweepInv, PhaseInv, TInv, RowsInv, SweepObserve
  <2>2. swOutcome' = "FAILURE" => aState[swReceipt] # "INVOKED"
    BY <1>2 DEF SweepObserve, observe
  <2>3. swOutcome' = "FAILURE" =>
          \A k \in Keys : idemReceipt[k] = swReceipt => invoked[k] = 0
    <3> SUFFICES ASSUME swOutcome' = "FAILURE", NEW k \in Keys, idemReceipt[k] = swReceipt
                 PROVE  invoked[k] = 0
      OBVIOUS
    <3>1. invoked[k] \in Nat /\ ~(invoked[k] > 0)
      BY <2>1, <2>2 DEF RInv, Inv, TypeOK, KeyInv
    <3> QED  BY <3>1
  <2> QED  BY <1>2, <2>3 DEF SweepObserve, durable, frames, observed, TInv, KnowledgeInv,
              RowsInv, CompletedMeansDone, SweptFailureIsSafe
<1>3. CASE SweepCommit
  <2> DEFINE r == swReceipt
  <2>1. /\ r \in Receipts /\ rState[r] = "ATTEMPTING"
        /\ swOutcome = "FAILURE" => \A k \in Keys : idemReceipt[k] = r => invoked[k] = 0
    BY <1>3 DEF RInv, Inv, SweepInv, PhaseInv, TInv, KnowledgeInv, SweepCommit
  <2>2. /\ rState' = [rState EXCEPT ![r] = "FINALIZED"]
        /\ rOutcome' = [rOutcome EXCEPT ![r] = swOutcome]
        /\ \A q \in Receipts : q # r => aState'[q] = aState[q] /\ incidents'[q] = incidents[q]
        /\ UNCHANGED <<idem, idemReceipt, invoked, effect, pc, wKey, wResult>> /\ sw' = "idle"
    BY <1>3, <2>1 DEF RInv, Inv, TypeOK, SweepCommit, frames, observed
  <2>3. KnowledgeInv'
    BY <2>2 DEF TInv, KnowledgeInv
  <2>4. RowsInv' /\ CompletedMeansDone' /\ SweptFailureIsSafe'
    BY <2>1, <2>2 DEF RInv, Inv, TypeOK, TInv, RowsInv, CompletedMeansDone, SweptFailureIsSafe
  <2> QED  BY <2>3, <2>4 DEF TInv
<1> QED  BY <1>1, <1>2, <1>3 DEF Sweep

LEMMA NextTInv ==
    ASSUME RInv, TInv, [Next]_vars
    PROVE  TInv'
<1>1. ASSUME NEW w \in Workers, Execute(w) PROVE TInv'
  BY <1>1, QuietTInv, PersistReceiptTInv, InvokeTInv, FinalizeTInv DEF Execute
<1>2. CASE BootDone
  BY <1>2, FrameTInv DEF BootDone, durable, frames, sweep, observed
<1>3. CASE Crash
  BY <1>3, FrameTInv DEF Crash, durable, observed
<1>4. CASE UNCHANGED vars
  BY <1>4, FrameTInv DEF vars, durable, frames, sweep, observed
<1> QED  BY <1>1, <1>2, <1>3, <1>4, SweepTInv DEF Next

LEMMA TInvHolds ==
    ASSUME LiveSweep = FALSE
    PROVE  Spec => [](RInv /\ TInv)
<1>1. Init => RInv /\ TInv
  BY InitRInv, InitTInv
<1>2. RInv /\ TInv /\ [Next]_vars => (RInv /\ TInv)'
  BY NextRInv, NextTInv, LiveSweep = FALSE
<1> QED  BY <1>1, <1>2, PTL DEF Spec

\* With sweeps confined to start-up, a receipt the sweep settles as FAILURE
\* belongs to an operation whose adapter was never called.
THEOREM SweptFailuresAreSafe ==
    ASSUME LiveSweep = FALSE
    PROVE  Spec => []SweptFailureIsSafe
<1>1. Spec => [](RInv /\ TInv)
  BY TInvHolds, LiveSweep = FALSE
<1>2. RInv /\ TInv => SweptFailureIsSafe
  BY DEF TInv
<1> QED  BY <1>1, <1>2, PTL

\* With sweeps confined to start-up, a COMPLETED key had its effect, exactly
\* once, and its receipt says SUCCESS.
THEOREM CompletionIsTrue ==
    ASSUME LiveSweep = FALSE
    PROVE  Spec => []CompletedMeansDone
<1>1. Spec => [](RInv /\ TInv)
  BY TInvHolds, LiveSweep = FALSE
<1>2. RInv /\ TInv => CompletedMeansDone
  BY DEF TInv
<1> QED  BY <1>1, <1>2, PTL

=============================================================================
