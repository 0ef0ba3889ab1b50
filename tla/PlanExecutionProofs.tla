------------------------ MODULE PlanExecutionProofs ------------------------
(***************************************************************************)
(* Safety of plan execution for any plan, any number of overlapping runs,  *)
(* recoveries, confirmations, cancellations and crashes, with or without   *)
(* live reconciliation: no lock orders the calls of advance.               *)
(*                                                                         *)
(* EffectAtMostOnce needs the reservation seen from the runner: whoever is *)
(* about to invoke holds the only claim on a key without effects           *)
(* (ClaimInv).  CompletedMeansAllVerified needs what a runner's copy of    *)
(* the plan is worth, stale as it may be: its COMPLETED entries were       *)
(* verified, and so was everything before the step it is on (CopyInv).     *)
(* What an advance is about to save is as good as what it read (GoalInv).  *)
(* ConsumedMeansSuccess needs UseInv: the one call a key allows is         *)
(* recorded once, and nobody is past a step before its success is.         *)
(***************************************************************************)
EXTENDS PlanExecution, TLAPS

\* The part of the type invariant the argument needs.
Shape ==
    /\ plan \in [Steps -> StepStates]
    /\ idem \in [Keys -> BOOLEAN]
    /\ pc \in [Runners -> PCs]
    /\ copy \in [Runners -> [Steps -> StepStates]]
    /\ at \in [Runners -> Steps]
    /\ effect \in [Keys -> Nat]
    /\ verified \in [Steps -> BOOLEAN]

\* A key without a row has no effect; a runner about to invoke holds the only
\* claim on its key.
ClaimInv ==
    /\ \A k \in Keys : ~idem[k] => effect[k] = 0
    /\ \A r \in Runners : pc[r] = "invoke" => idem[Key(r)] /\ effect[Key(r)] = 0
    /\ \A r, q \in Runners :
          pc[r] = "invoke" /\ pc[q] = "invoke" /\ Key(r) = Key(q) => r = q

\* What a run believes COMPLETED was verified, and it skips nothing.
CopyInv ==
    \A r \in Runners :
        /\ \A s \in Steps : copy[r][s] = "COMPLETED" => verified[s]
        /\ pc[r] # "idle" => \A s \in Steps : s < at[r] => copy[r][s] = "COMPLETED"
        /\ pc[r] = "setCompleted" => verified[at[r]]

\* Past the supervisor, a runner holds an outcome.
ResultInv ==
    /\ pc \in [Runners -> PCs]
    /\ result \in [Runners -> Outcomes \cup {"NONE"}]
    /\ \A r \in Runners :
          pc[r] \in {"scan", "record", "saveOutcome"} => result[r] \in Outcomes

\* Between the read and the save of advance a runner holds a state, COMPLETED
\* only if every step was verified; no other call completes a task.
Saving == {"authorize", "halt", "saveOutcome", "saveVerdict"}

GoalInv ==
    /\ goal \in [Runners -> TaskState \cup {"NONE"}]
    /\ call \in [Callers -> CallStates]
    /\ \A r \in Runners : pc[r] \in Saving => goal[r] \in TaskState
    /\ \A r \in Runners : goal[r] = "COMPLETED" => \A s \in Steps : verified[s]
    /\ \A r \in Runners :
          pc[r] = "saveVerdict" => goal[r] = "FAILED" \/ verified[at[r]]
    /\ \A c \in Callers : call[c] \notin {"verified", "COMPLETED"}

Inv == /\ Shape /\ ClaimInv /\ CopyInv /\ EffectAtMostOnce
       /\ SkippedStepsAreVerified /\ CompletedMeansAllVerified

-----------------------------------------------------------------------------
(* Facts about the operators. *)

\* Only a verification completes a task.
LEMMA OnlyVerifiedCompletes ==
    ASSUME NEW s, NEW e, NEW t \in next_state(s, e), t = "COMPLETED"
    PROVE  e = "verified"
BY DEF next_state, TRANSITIONS

LEMMA NextStateTyped ==
    ASSUME NEW s, NEW e, NEW t \in next_state(s, e)
    PROVE  t \in TaskState
BY DEF next_state, TRANSITIONS, TaskState, TERMINAL_STATES

LEMMA KeyTyped ==
    ASSUME Shape, NEW r \in Runners
    PROVE  at[r] \in Steps /\ Key(r) \in Keys
BY StepsAssumption DEF Shape, Key

\* Before the first step that needs work, every step is COMPLETED.
LEMMA FirstPending ==
    ASSUME NEW p \in [Steps -> StepStates], NEW n \in Nat, NEW s \in Steps,
           IsFirst(s, Later(p, n)),
           \A t \in Steps : t <= n => p[t] = "COMPLETED"
    PROVE  \A t \in Steps : t < s => p[t] = "COMPLETED"
BY StepsAssumption DEF IsFirst, Later, Steps

-----------------------------------------------------------------------------
(* Outcomes *)

\* Callers leave the runners alone.
LEMMA CallFrame ==
    ASSUME NEW c \in Callers, CallStep(c)
    PROVE  /\ UNCHANGED <<frames, plan, auth, authUsed, record, idem, ghosts, mode, runs,
                          crashes>>
           /\ UNCHANGED attempts \/ SaveAttempt(c)
           /\ UNCHANGED task \/ (call[c] \in TaskState /\ task' = call[c])
           /\ UNCHANGED pending \/ pending' = FALSE
BY DEF CallStep, Decline, Cancel, BeginRecovery, SaveAttempt, ResolveRecovery, Stabilize,
       ResolveBlocked, Reconcile, CallReads, CallSaves, rows

\* A runner moves on with the outcome it has.
LEMMA KeepsResult ==
    ASSUME ResultInv, UNCHANGED result,
           \/ UNCHANGED pc
           \/ \E r \in Runners, l \in PCs \ {"scan"} :
                 /\ l \in {"record", "saveOutcome"} => pc[r] \in {"scan", "record"}
                 /\ pc' = [pc EXCEPT ![r] = l]
    PROVE  ResultInv'
BY DEF ResultInv

LEMMA NextResult == ResultInv /\ [Next]_vars => ResultInv'
<1> SUFFICES ASSUME ResultInv, [Next]_vars PROVE ResultInv'
  OBVIOUS
<1>1. ASSUME NEW r \in Runners,
             \/ SetRunning(r) \/ Decide(r) \/ Authorize(r) \/ AskUser(r) \/ DecideRaises(r)
             \/ ExecuteChecks(r) \/ ExecuteRaises(r) \/ EnforceHalts(r)
             \/ Reserve(r) \/ ReserveRefused(r) \/ SupervisorRaises(r)
             \/ ScanPasses(r) \/ ScanHalts(r) \/ Halt(r)
             \/ RecordReads(r) \/ RecordOutcome(r) \/ RecordRaises(r)
             \/ (\E ok \in BOOLEAN : Verify(r, ok)) \/ SaveVerdict(r) \/ VerifyRaises(r)
             \/ (\E a \in BOOLEAN : Start(r, a))
      PROVE  ResultInv'
  BY <1>1, KeepsResult
     DEF SetRunning, Decide, Authorize, AskUser, DecideRaises, ExecuteChecks, ExecuteRaises,
         EnforceHalts, Reserve, ReserveRefused, SupervisorRaises, ScanPasses, ScanHalts,
         Halt, RecordReads, RecordOutcome, RecordRaises, Verify, SaveVerdict, AfterVerdict,
         VerifyRaises, Start, Moves, Goto, PCs
<1>2. ASSUME NEW r \in Runners, Invoke(r) PROVE ResultInv'
  BY <1>2 DEF ResultInv, Invoke, Verdicts, Goto, Outcomes, PCs
<1>4. ASSUME NEW r \in Runners, SetCompleted(r) \/ FailStep(r) PROVE ResultInv'
  BY <1>4 DEF ResultInv, SetCompleted, FailStep, Leave, Goto, PCs
<1>5. CASE Crash
  BY <1>5 DEF ResultInv, Crash, PCs
<1>6. CASE ConfirmTooLate \/ BootReconcile \/ \E c \in Callers : CallStep(c)
  BY <1>6, KeepsResult, CallFrame DEF ConfirmTooLate, BootReconcile, frames
<1>7. CASE UNCHANGED vars
  BY <1>7, KeepsResult DEF vars, frames
<1> QED  BY <1>1, <1>2, <1>4, <1>5, <1>6, <1>7 DEF Next, RunnerStep, Run, Confirm

LEMMA ResultHolds == Spec => []ResultInv
<1>1. Init => ResultInv
  BY DEF Init, ResultInv, PCs
<1> QED  BY <1>1, NextResult, PTL DEF Spec

-----------------------------------------------------------------------------

LEMMA InitInv == Init => Inv
BY StepsAssumption
   DEF Init, Inv, Shape, ClaimInv, CopyInv, EffectAtMostOnce, SkippedStepsAreVerified,
       CompletedMeansAllVerified, NewPlan, StepStates, PCs, Steps

\* A runner moves on without touching plan, copies, claims, effects or
\* verifications, and not to one of the two places the invariant names.
LEMMA QuietInv ==
    ASSUME Inv, UNCHANGED <<plan, idem, copy, at, effect, verified>>,
           task' \in {task} \/ task' # "COMPLETED" \/ \A s \in Steps : verified[s],
           \/ UNCHANGED pc
           \/ \E r \in Runners, l \in PCs \ {"idle", "invoke", "setCompleted"} :
                 pc[r] # "idle" /\ pc' = [pc EXCEPT ![r] = l]
    PROVE  Inv'
<1>1. Shape'
  BY DEF Inv, Shape
<1>2. ClaimInv'
  BY DEF Inv, Shape, ClaimInv, Key
<1>3. CopyInv'
  BY DEF Inv, Shape, CopyInv
<1>4. EffectAtMostOnce' /\ SkippedStepsAreVerified' /\ CompletedMeansAllVerified'
  BY DEF Inv, EffectAtMostOnce, SkippedStepsAreVerified, CompletedMeansAllVerified
<1> QED  BY <1>1, <1>2, <1>3, <1>4 DEF Inv

LEMMA QuietSteps ==
    ASSUME Inv, GoalInv, NEW r \in Runners,
           \/ Decide(r) \/ Authorize(r) \/ AskUser(r) \/ DecideRaises(r)
           \/ ExecuteChecks(r) \/ ExecuteRaises(r) \/ EnforceHalts(r)
           \/ ReserveRefused(r) \/ SupervisorRaises(r)
           \/ ScanPasses(r) \/ ScanHalts(r) \/ Halt(r)
           \/ RecordReads(r) \/ RecordOutcome(r) \/ RecordRaises(r) \/ VerifyRaises(r)
    PROVE  Inv'
<1>1. UNCHANGED <<plan, idem, copy, at, effect, verified>>
  BY DEF Decide, Authorize, AskUser, DecideRaises, ExecuteChecks, ExecuteRaises,
         EnforceHalts, ReserveRefused, SupervisorRaises, ScanPasses, ScanHalts, Halt,
         RecordReads, RecordOutcome, RecordRaises, VerifyRaises, Moves, rows, ghosts
<1>2. \E l \in PCs \ {"idle", "invoke", "setCompleted"} :
         pc[r] # "idle" /\ pc' = [pc EXCEPT ![r] = l]
  BY DEF Decide, Authorize, AskUser, DecideRaises, ExecuteChecks, ExecuteRaises,
         EnforceHalts, ReserveRefused, SupervisorRaises, ScanPasses, ScanHalts, Halt,
         RecordReads, RecordOutcome, RecordRaises, VerifyRaises, Moves, Goto, PCs
<1>3. task' = task \/ task' = goal[r]
  BY DEF Decide, Authorize, AskUser, DecideRaises, ExecuteChecks, ExecuteRaises,
         EnforceHalts, ReserveRefused, SupervisorRaises, ScanPasses, ScanHalts, Halt,
         RecordReads, RecordOutcome, RecordRaises, VerifyRaises, Moves, AdvanceSaves, rows
<1>4. goal[r] # "COMPLETED" \/ \A s \in Steps : verified[s]
  BY DEF GoalInv
<1> QED  BY <1>1, <1>2, <1>3, <1>4, QuietInv

\* Users, recovery and reconciliation move the task, never to COMPLETED.
LEMMA OutsideSteps ==
    ASSUME Inv, GoalInv,
           ConfirmTooLate \/ BootReconcile \/ \E c \in Callers : CallStep(c)
    PROVE  Inv'
<1>1. CASE ConfirmTooLate
  BY <1>1, QuietInv DEF ConfirmTooLate, rows, frames, ghosts
<1>2. CASE BootReconcile
  <2>1. task' = task \/ task' # "COMPLETED"
    BY <1>2, OnlyVerifiedCompletes DEF BootReconcile, StrandedEvent
  <2> QED  BY <1>2, <2>1, QuietInv DEF BootReconcile, frames, ghosts
<1>3. ASSUME NEW c \in Callers, CallStep(c) PROVE Inv'
  <2>1. task' = task \/ task' # "COMPLETED"
    BY <1>3, CallFrame DEF GoalInv
  <2> QED  BY <1>3, <2>1, CallFrame, QuietInv DEF frames, ghosts
<1> QED  BY <1>1, <1>2, <1>3

\* A run starts from the plan as persisted.
LEMMA StartInv ==
    ASSUME Inv, NEW r \in Runners, NEW a \in BOOLEAN, Start(r, a)
    PROVE  Inv'
<1>1. PICK s \in Steps :
        IsFirst(s, Later(plan, 0)) /\ at' = [at EXCEPT ![r] = s]
  BY DEF Start
<1>2. /\ copy' = [copy EXCEPT ![r] = plan]
      /\ pc[r] = "idle" /\ pc' = [pc EXCEPT ![r] = "setRunning"]
      /\ UNCHANGED <<task, plan, idem, effect, verified>>
  BY DEF Start, Goto, rows, ghosts
<1>3. \A t \in Steps : t < s => plan[t] = "COMPLETED"
  <2>1. \A t \in Steps : t <= 0 => plan[t] = "COMPLETED"
    BY StepsAssumption DEF Steps
  <2>2. plan \in [Steps -> StepStates]
    BY DEF Inv, Shape
  <2> QED  BY <1>1, <2>1, <2>2, FirstPending
<1>4. Shape'
  BY <1>1, <1>2 DEF Inv, Shape, PCs
<1>5. ClaimInv'
  BY <1>1, <1>2 DEF Inv, Shape, ClaimInv, Key
<1>6. CopyInv'
  BY <1>1, <1>2, <1>3 DEF Inv, Shape, CopyInv, SkippedStepsAreVerified
<1>7. EffectAtMostOnce' /\ SkippedStepsAreVerified' /\ CompletedMeansAllVerified'
  BY <1>2 DEF Inv, EffectAtMostOnce, SkippedStepsAreVerified, CompletedMeansAllVerified
<1> QED  BY <1>4, <1>5, <1>6, <1>7 DEF Inv

\* The runner's copy, with one step not COMPLETED, replaces the plan.
LEMMA SetRunningInv ==
    ASSUME Inv, NEW r \in Runners, SetRunning(r)
    PROVE  Inv'
<1>1. /\ copy' = [copy EXCEPT ![r] = [copy[r] EXCEPT ![at[r]] = "RUNNING"]]
      /\ plan' = [copy[r] EXCEPT ![at[r]] = "RUNNING"]
      /\ pc[r] # "idle" /\ pc' = [pc EXCEPT ![r] = "decide"]
      /\ UNCHANGED <<task, idem, at, effect, verified>>
  BY DEF SetRunning, SaveStep, Goto, ghosts, Inv, Shape
<1>2. at[r] \in Steps
  BY KeyTyped DEF Inv
<1>3. Shape'
  BY <1>1, <1>2 DEF Inv, Shape, PCs, StepStates
<1>4. ClaimInv'
  BY <1>1 DEF Inv, Shape, ClaimInv, Key
<1>5. CopyInv'
  BY <1>1, <1>2, StepsAssumption DEF Inv, Shape, CopyInv, Steps
<1>6. EffectAtMostOnce' /\ SkippedStepsAreVerified' /\ CompletedMeansAllVerified'
  BY <1>1, <1>2 DEF Inv, Shape, CopyInv, EffectAtMostOnce, SkippedStepsAreVerified,
                    CompletedMeansAllVerified
<1> QED  BY <1>3, <1>4, <1>5, <1>6 DEF Inv

LEMMA ReserveInv ==
    ASSUME Inv, NEW r \in Runners, Reserve(r)
    PROVE  Inv'
<1>1. /\ pc[r] = "reserve" /\ ~idem[Key(r)]
      /\ idem' = [idem EXCEPT ![Key(r)] = TRUE]
      /\ pc' = [pc EXCEPT ![r] = "invoke"]
      /\ UNCHANGED <<task, plan, copy, at, effect, verified>>
  BY DEF Reserve, Reservable, Goto, ghosts
<1>2. at[r] \in Steps /\ Key(r) \in Keys
  BY KeyTyped DEF Inv
<1>3. Shape'
  <2>1. idem' \in [Keys -> BOOLEAN]
    <3>1. ASSUME NEW f \in [Keys -> BOOLEAN], NEW k \in Keys
          PROVE  [f EXCEPT ![k] = TRUE] \in [Keys -> BOOLEAN]
      OBVIOUS
    <3> QED  BY <1>1, <1>2, <3>1 DEF Inv, Shape
  <2>2. pc' \in [Runners -> PCs]
    BY <1>1 DEF Inv, Shape, PCs
  <2> QED  BY <1>1, <2>1, <2>2 DEF Inv, Shape
<1>4. ClaimInv'
  <2>1. \A q \in Runners : Key(q)' = Key(q) /\ Key(q) \in Keys
    BY <1>1, KeyTyped DEF Inv, Key
  <2> QED  BY <1>1, <1>2, <2>1 DEF Inv, Shape, ClaimInv
<1>5. CopyInv'
  BY <1>1 DEF Inv, Shape, CopyInv
<1>6. EffectAtMostOnce' /\ SkippedStepsAreVerified' /\ CompletedMeansAllVerified'
  BY <1>1 DEF Inv, EffectAtMostOnce, SkippedStepsAreVerified, CompletedMeansAllVerified
<1> QED  BY <1>3, <1>4, <1>5, <1>6 DEF Inv

LEMMA InvokeInv ==
    ASSUME Inv, NEW r \in Runners, Invoke(r)
    PROVE  Inv'
<1>1. /\ pc[r] = "invoke" /\ pc' = [pc EXCEPT ![r] = "scan"]
      /\ UNCHANGED <<task, plan, idem, copy, at, verified>>
  BY DEF Invoke, Goto, rows
<1>2. PICK n \in {0, 1} : effect' = [effect EXCEPT ![Key(r)] = @ + n]
  <2>1. PICK v \in Verdicts : effect' = [effect EXCEPT ![Key(r)] = @ + v[2]]
    BY DEF Invoke
  <2>2. v[2] \in {0, 1}
    BY DEF Verdicts
  <2> QED  BY <2>1, <2>2
<1>3. /\ Key(r) \in Keys /\ idem[Key(r)] /\ effect[Key(r)] = 0
      /\ \A q \in Runners : Key(q)' = Key(q) /\ Key(q) \in Keys
  BY <1>1, KeyTyped DEF Inv, ClaimInv, Key
<1>4. Shape'
  BY <1>1, <1>2, <1>3 DEF Inv, Shape, PCs
<1>5. ClaimInv'
  BY <1>1, <1>2, <1>3 DEF Inv, Shape, ClaimInv
<1>6. CopyInv'
  BY <1>1 DEF Inv, Shape, CopyInv
<1>7. EffectAtMostOnce'
  BY <1>2, <1>3 DEF Inv, Shape, EffectAtMostOnce
<1>8. SkippedStepsAreVerified' /\ CompletedMeansAllVerified'
  BY <1>1 DEF Inv, SkippedStepsAreVerified, CompletedMeansAllVerified
<1> QED  BY <1>4, <1>5, <1>6, <1>7, <1>8 DEF Inv

LEMMA VerifyInv ==
    ASSUME Inv, NEW r \in Runners, NEW ok \in BOOLEAN, Verify(r, ok)
    PROVE  Inv'
<1>1. /\ pc[r] = "verify" /\ pc' = [pc EXCEPT ![r] = "saveVerdict"]
      /\ verified' = [verified EXCEPT ![at[r]] = verified[at[r]] \/ ok]
      /\ UNCHANGED <<task, plan, idem, copy, at, effect>>
  BY DEF Verify, Goto, rows
<1>2. at[r] \in Steps
  BY KeyTyped DEF Inv
<1>3. /\ verified' \in [Steps -> BOOLEAN]
      /\ \A s \in Steps : verified[s] => verified'[s]
  BY <1>1, <1>2 DEF Inv, Shape
<1>4. Shape'
  <2>1. pc' \in [Runners -> PCs]
    BY <1>1 DEF Inv, Shape, PCs
  <2> QED  BY <1>1, <1>3, <2>1 DEF Inv, Shape
<1>5. ClaimInv'
  BY <1>1 DEF Inv, Shape, ClaimInv, Key
<1>6. CopyInv'
  BY <1>1, <1>3 DEF Inv, Shape, CopyInv
<1>7. EffectAtMostOnce' /\ SkippedStepsAreVerified' /\ CompletedMeansAllVerified'
  BY <1>1, <1>3 DEF Inv, EffectAtMostOnce, SkippedStepsAreVerified,
                    CompletedMeansAllVerified
<1> QED  BY <1>4, <1>5, <1>6, <1>7 DEF Inv

\* The verdict is saved whatever became of the task meanwhile.
LEMMA SaveVerdictInv ==
    ASSUME Inv, GoalInv, NEW r \in Runners, SaveVerdict(r)
    PROVE  Inv'
<1>1. /\ pc[r] = "saveVerdict" /\ task' = goal[r]
      /\ pc' = [pc EXCEPT ![r] = IF goal[r] = "FAILED" THEN "fail" ELSE "setCompleted"]
      /\ UNCHANGED <<plan, idem, copy, at, effect, verified>>
  BY DEF SaveVerdict, AfterVerdict, AdvanceSaves, Goto, ghosts
<1>2. Shape'
  BY <1>1 DEF Inv, Shape, PCs
<1>3. ClaimInv'
  BY <1>1 DEF Inv, Shape, ClaimInv, Key
<1>4. CopyInv'
  BY <1>1 DEF Inv, Shape, CopyInv, GoalInv
<1>5. EffectAtMostOnce' /\ SkippedStepsAreVerified' /\ CompletedMeansAllVerified'
  BY <1>1 DEF Inv, EffectAtMostOnce, SkippedStepsAreVerified, CompletedMeansAllVerified,
              GoalInv
<1> QED  BY <1>2, <1>3, <1>4, <1>5 DEF Inv

LEMMA SetCompletedInv ==
    ASSUME Inv, NEW r \in Runners, SetCompleted(r)
    PROVE  Inv'
<1> DEFINE p == [copy[r] EXCEPT ![at[r]] = "COMPLETED"]
<1>1. /\ pc[r] = "setCompleted" /\ plan' = p
      /\ UNCHANGED <<task, idem, effect, verified>>
  BY DEF SetCompleted, ghosts
<1>2. at[r] \in Steps /\ verified[at[r]] /\ copy[r] \in [Steps -> StepStates]
  BY <1>1, KeyTyped DEF Inv, Shape, CopyInv
<1>3. /\ p \in [Steps -> StepStates]
      /\ \A s \in Steps : p[s] = "COMPLETED" => verified[s]
      /\ \A s \in Steps : s <= at[r] => p[s] = "COMPLETED"
  BY <1>1, <1>2, StepsAssumption DEF Inv, CopyInv, StepStates, Steps
<1>4. EffectAtMostOnce' /\ SkippedStepsAreVerified' /\ CompletedMeansAllVerified'
  BY <1>1, <1>3 DEF Inv, EffectAtMostOnce, SkippedStepsAreVerified,
                    CompletedMeansAllVerified
<1>5. CASE MoreSteps(r)
  <2>1. PICK s \in Steps :
          IsFirst(s, Later(copy[r], at[r])) /\ at' = [at EXCEPT ![r] = s]
    BY <1>5 DEF SetCompleted
  <2>2. copy' = [copy EXCEPT ![r] = p] /\ pc' = [pc EXCEPT ![r] = "setRunning"]
    BY <1>1, <1>5 DEF SetCompleted, Goto
  <2>3. Later(p, at[r]) = Later(copy[r], at[r])
    BY <1>2, StepsAssumption DEF Later, Steps
  <2>4. \A t \in Steps : t < s => p[t] = "COMPLETED"
    <3>1. at[r] \in Nat
      BY <1>2, StepsAssumption DEF Steps
    <3> QED  BY <1>3, <2>1, <2>3, <3>1, FirstPending
  <2>5. Shape'
    BY <1>1, <1>3, <2>1, <2>2 DEF Inv, Shape, PCs
  <2>6. ClaimInv'
    BY <1>1, <2>1, <2>2 DEF Inv, Shape, ClaimInv, Key
  <2>7. CopyInv'
    BY <1>1, <1>3, <2>1, <2>2, <2>4 DEF Inv, Shape, CopyInv
  <2> QED  BY <1>4, <2>5, <2>6, <2>7 DEF Inv
<1>6. CASE ~MoreSteps(r)
  <2>1. /\ copy' = [copy EXCEPT ![r] = NewPlan] /\ at' = [at EXCEPT ![r] = 1]
        /\ pc' = [pc EXCEPT ![r] = "idle"]
    BY <1>6 DEF SetCompleted, Leave, Goto
  <2>2. 1 \in Steps /\ NewPlan \in [Steps -> StepStates]
        /\ \A s \in Steps : NewPlan[s] # "COMPLETED"
    BY StepsAssumption DEF Steps, NewPlan, StepStates
  <2>3. Shape'
    BY <1>1, <1>3, <2>1, <2>2 DEF Inv, Shape, PCs
  <2>4. ClaimInv'
    BY <1>1, <2>1 DEF Inv, Shape, ClaimInv, Key
  <2>5. CopyInv'
    BY <1>1, <2>1, <2>2 DEF Inv, Shape, CopyInv
  <2> QED  BY <1>4, <2>3, <2>4, <2>5 DEF Inv
<1> QED  BY <1>5, <1>6

LEMMA FailStepInv ==
    ASSUME Inv, NEW r \in Runners, FailStep(r)
    PROVE  Inv'
<1>1. /\ plan' = [copy[r] EXCEPT ![at[r]] = "FAILED"]
      /\ copy' = [copy EXCEPT ![r] = NewPlan] /\ at' = [at EXCEPT ![r] = 1]
      /\ pc' = [pc EXCEPT ![r] = "idle"]
      /\ UNCHANGED <<task, idem, effect, verified>>
  BY DEF FailStep, Leave, Goto, ghosts
<1>2. at[r] \in Steps /\ copy[r] \in [Steps -> StepStates]
  BY KeyTyped DEF Inv, Shape
<1>3. 1 \in Steps /\ NewPlan \in [Steps -> StepStates]
      /\ \A s \in Steps : NewPlan[s] # "COMPLETED"
  BY StepsAssumption DEF Steps, NewPlan, StepStates
<1>4. Shape'
  BY <1>1, <1>2, <1>3 DEF Inv, Shape, PCs, StepStates
<1>5. ClaimInv'
  BY <1>1 DEF Inv, Shape, ClaimInv, Key
<1>6. CopyInv'
  BY <1>1, <1>3 DEF Inv, Shape, CopyInv
<1>7. EffectAtMostOnce' /\ SkippedStepsAreVerified' /\ CompletedMeansAllVerified'
  BY <1>1, <1>2 DEF Inv, CopyInv, EffectAtMostOnce, SkippedStepsAreVerified,
                    CompletedMeansAllVerified
<1> QED  BY <1>4, <1>5, <1>6, <1>7 DEF Inv

LEMMA CrashInv ==
    ASSUME Inv, Crash
    PROVE  Inv'
<1>1. 1 \in Steps /\ NewPlan \in [Steps -> StepStates]
      /\ \A s \in Steps : NewPlan[s] # "COMPLETED"
  BY StepsAssumption DEF Steps, NewPlan, StepStates
<1> QED  BY <1>1
         DEF Inv, Shape, ClaimInv, CopyInv, EffectAtMostOnce, SkippedStepsAreVerified,
             CompletedMeansAllVerified, Crash, rows, ghosts, PCs

LEMMA NextInv == Inv /\ GoalInv /\ [Next]_vars => Inv'
<1> SUFFICES ASSUME Inv, GoalInv, [Next]_vars PROVE Inv'
  OBVIOUS
<1>1. ASSUME NEW r \in Runners, RunnerStep(r) PROVE Inv'
  BY <1>1, QuietSteps, SetRunningInv, ReserveInv, InvokeInv, VerifyInv, SaveVerdictInv,
     SetCompletedInv, FailStepInv DEF RunnerStep
<1>2. ASSUME NEW r \in Runners, Run(r) \/ Confirm(r) PROVE Inv'
  BY <1>2, StartInv DEF Run, Confirm
<1>3. CASE UNCHANGED vars
  BY <1>3, QuietInv DEF vars, rows, frames, ghosts
<1> QED  BY <1>1, <1>2, <1>3, OutsideSteps, CrashInv DEF Next

-----------------------------------------------------------------------------
(* What advance is about to save *)

\* Nobody reads the task.
LEMMA KeepsGoal ==
    ASSUME GoalInv, UNCHANGED <<goal, call, verified>>,
           \A q \in Runners : pc'[q] \in Saving => pc'[q] = pc[q] /\ at'[q] = at[q]
    PROVE  GoalInv'
BY DEF GoalInv, Saving

\* A runner looks up a state other than COMPLETED, or is done with its save.
LEMMA TakesGoal ==
    ASSUME GoalInv, Shape, NEW r \in Runners, NEW g \in (TaskState \cup {"NONE"}) \ {"COMPLETED"},
           goal' = [goal EXCEPT ![r] = g], UNCHANGED <<call, verified>>,
           pc'[r] \in Saving => g # "NONE" /\ pc'[r] # "saveVerdict",
           \A q \in Runners \ {r} : pc'[q] = pc[q] /\ at'[q] = at[q]
    PROVE  GoalInv'
BY DEF GoalInv, Shape, Saving

LEMMA RunnerGoal ==
    ASSUME GoalInv, Inv, ResultInv, NEW r \in Runners, RunnerStep(r)
    PROVE  GoalInv'
<1>1. CASE \/ SetRunning(r) \/ AskUser(r) \/ DecideRaises(r)
           \/ ExecuteChecks(r) \/ ExecuteRaises(r)
           \/ Reserve(r) \/ ReserveRefused(r) \/ SupervisorRaises(r) \/ Invoke(r)
           \/ ScanPasses(r) \/ RecordRaises(r) \/ VerifyRaises(r)
  <2>1. /\ UNCHANGED <<goal, call, verified, at>>
        /\ \E l \in PCs \ Saving : pc' = [pc EXCEPT ![r] = l]
    BY <1>1 DEF SetRunning, AskUser, DecideRaises, ExecuteChecks, ExecuteRaises,
       Reserve, ReserveRefused, SupervisorRaises, Invoke, ScanPasses, RecordRaises,
       VerifyRaises, Moves, Goto, PCs, Saving, ghosts
  <2> QED  BY <2>1, KeepsGoal DEF Inv, Shape
<1>2. CASE Authorize(r) \/ Halt(r) \/ RecordOutcome(r) \/ SaveVerdict(r)
  <2>1. /\ goal' = [goal EXCEPT ![r] = "NONE"] /\ UNCHANGED <<call, verified, at>>
        /\ \E l \in PCs \ Saving : pc' = [pc EXCEPT ![r] = l]
    BY <1>2 DEF Authorize, Halt, RecordOutcome, SaveVerdict, AfterVerdict, AdvanceSaves,
       Goto, PCs, Saving, ghosts
  <2> QED  BY <2>1, TakesGoal DEF Inv, Shape, TaskState
<1>3. ASSUME NEW e, e # "verified", AdvanceReads(r, e), UNCHANGED <<call, verified, at>>,
             NEW l \in PCs \ {"saveVerdict"}, pc' = [pc EXCEPT ![r] = l]
      PROVE  GoalInv'
  <2>1. PICK g \in next_state(task, e) : goal' = [goal EXCEPT ![r] = g]
    BY <1>3 DEF AdvanceReads
  <2>2. g \in TaskState /\ g # "COMPLETED"
    BY <1>3, NextStateTyped, OnlyVerifiedCompletes
  <2>3. g # "NONE"
    BY <2>2 DEF TaskState, TERMINAL_STATES
  <2> QED  BY <1>3, <2>1, <2>2, <2>3, TakesGoal DEF Inv, Shape
<1>4. CASE Decide(r)
  BY <1>3, <1>4 DEF Decide, Goto, PCs, ghosts
<1>5. CASE EnforceHalts(r)
  BY <1>3, <1>5 DEF EnforceHalts, Goto, PCs, ghosts
<1>6. CASE ScanHalts(r)
  <2>1. CASE AdvanceReads(r, "security_halt") /\ Goto(r, "halt")
    BY <1>3, <1>6, <2>1 DEF ScanHalts, Goto, PCs, ghosts
  <2>2. CASE Goto(r, "fail") /\ UNCHANGED goal
    BY <1>6, <2>2, KeepsGoal DEF ScanHalts, Goto, Saving, ghosts, Inv, Shape
  <2> QED  BY <1>6, <2>1, <2>2 DEF ScanHalts
<1>7. CASE RecordReads(r)
  <2>1. ADVANCE_EVENT_BY_OUTCOME[result[r]] # "verified"
    BY <1>7 DEF ResultInv, RecordReads, Outcomes, ADVANCE_EVENT_BY_OUTCOME
  <2> QED  BY <1>3, <1>7, <2>1 DEF RecordReads, Goto, PCs, ghosts
<1>8. ASSUME NEW ok \in BOOLEAN, Verify(r, ok) PROVE GoalInv'
  <2> DEFINE e == IF ~ok THEN "verification_failed"
                  ELSE IF MoreSteps(r) THEN "step_verified" ELSE "verified"
  <2>1. PICK g \in next_state(task, e) : goal' = [goal EXCEPT ![r] = g]
    BY <1>8 DEF Verify, AdvanceReads
  <2>2. /\ pc[r] = "verify" /\ pc' = [pc EXCEPT ![r] = "saveVerdict"]
        /\ verified' = [verified EXCEPT ![at[r]] = verified[at[r]] \/ ok]
        /\ UNCHANGED <<call, at>>
    BY <1>8 DEF Verify, Goto
  <2>3. at[r] \in Steps
    BY KeyTyped DEF Inv
  <2>4. /\ \A s \in Steps : verified[s] => verified'[s]
        /\ ok => verified'[at[r]]
    BY <2>2, <2>3 DEF Inv, Shape
  <2>5. g = "FAILED" \/ verified'[at[r]]
    <3>1. CASE ok
      BY <2>4, <3>1
    <3>2. CASE ~ok
      BY <3>2 DEF next_state, TRANSITIONS
    <3> QED  BY <3>1, <3>2
  <2>6. g = "COMPLETED" => \A s \in Steps : verified'[s]
    <3> SUFFICES ASSUME g = "COMPLETED" PROVE \A s \in Steps : verified'[s]
      OBVIOUS
    <3>1. e = "verified"
      BY <2>1, OnlyVerifiedCompletes
    <3>2. ok /\ ~MoreSteps(r)
      BY <3>1
    <3>3. \A s \in Steps : s > at[r] => copy[r][s] = "COMPLETED"
      BY <3>2 DEF MoreSteps, Later
    <3>4. \A s \in Steps : s < at[r] => copy[r][s] = "COMPLETED"
      BY <2>2 DEF Inv, CopyInv
    <3>5. \A s \in Steps : s # at[r] => verified[s]
      BY <2>3, <3>3, <3>4, StepsAssumption DEF Inv, CopyInv, Steps
    <3> QED  BY <2>4, <3>2, <3>5
  <2>7. g \in TaskState
    BY <2>1, NextStateTyped
  <2> QED  BY <2>1, <2>2, <2>4, <2>5, <2>6, <2>7 DEF GoalInv, Inv, Shape, Saving
<1>9. CASE SetCompleted(r) \/ FailStep(r)
  <2>1. CASE UNCHANGED goal
    BY <1>9, <2>1, KeepsGoal DEF SetCompleted, FailStep, Leave, Goto, Saving, ghosts, Inv, Shape
  <2>2. CASE Leave(r)
    BY <1>9, <2>2, TakesGoal DEF SetCompleted, FailStep, Leave, Goto, Saving, ghosts, Inv,
       Shape, TaskState
  <2> QED  BY <1>9, <2>1, <2>2 DEF SetCompleted, FailStep
<1> QED  BY <1>1, <1>2, <1>4, <1>5, <1>6, <1>7, <1>8, <1>9 DEF RunnerStep

LEMMA CallGoal ==
    ASSUME GoalInv, NEW c \in Callers, CallStep(c)
    PROVE  GoalInv'
<1>1. UNCHANGED <<goal, pc, at, verified>>
  BY CallFrame DEF frames, ghosts
<1>2. \E to \in CallStates \ {"verified", "COMPLETED"} : call' = [call EXCEPT ![c] = to]
  <2>1. ASSUME NEW to, call' = [call EXCEPT ![c] = to],
               to \in {"none", "counted", "CANCELLED", "cancel", "retry", "recovered",
                       "recovery_failed", "stabilized", "unblock", "execution_unknown",
                       "verification_failed"}
        PROVE  to \in CallStates \ {"verified", "COMPLETED"}
    BY <2>1 DEF CallStates, Events, TRANSITIONS, TaskState, TERMINAL_STATES
  <2>2. CASE Decline(c) \/ Cancel(c) \/ BeginRecovery(c) \/ SaveAttempt(c)
    BY <2>1, <2>2 DEF Decline, Cancel, BeginRecovery, SaveAttempt, Calls
  <2>3. CASE ResolveRecovery(c) \/ Stabilize(c) \/ ResolveBlocked(c)
    BY <2>1, <2>3 DEF ResolveRecovery, Stabilize, ResolveBlocked, Calls
  <2>4. CASE Reconcile(c)
    <3>1. call' = [call EXCEPT ![c] = StrandedEvent[task]] /\ task \in DOMAIN StrandedEvent
      BY <2>4 DEF Reconcile, Calls
    <3>2. StrandedEvent[task] \in {"cancel", "execution_unknown", "verification_failed",
                                   "recovery_failed"}
      BY <3>1 DEF StrandedEvent
    <3> QED  BY <2>1, <3>1, <3>2
  <2>5. CASE CallReads(c)
    <3>1. CASE call' = [call EXCEPT ![c] = "none"]
      BY <2>1, <3>1
    <3>2. ASSUME NEW s \in next_state(task, call[c]), call' = [call EXCEPT ![c] = s]
          PROVE  s \in CallStates \ {"verified", "COMPLETED"}
      <4>1. s \in TaskState /\ s # "COMPLETED" /\ s # "verified"
        <5>1. call[c] # "verified"
          BY DEF GoalInv
        <5> QED  BY <3>2, <5>1, NextStateTyped, OnlyVerifiedCompletes DEF TaskState, TERMINAL_STATES
      <4> QED  BY <4>1 DEF CallStates
    <3> QED  BY <2>5, <3>1, <3>2 DEF CallReads, Calls
  <2>6. CASE CallSaves(c)
    BY <2>1, <2>6 DEF CallSaves, Calls
  <2> QED  BY <2>2, <2>3, <2>4, <2>5, <2>6 DEF CallStep
<1> QED  BY <1>1, <1>2 DEF GoalInv

LEMMA NextGoal == GoalInv /\ Inv /\ ResultInv /\ [Next]_vars => GoalInv'
<1> SUFFICES ASSUME GoalInv, Inv, ResultInv, [Next]_vars PROVE GoalInv'
  OBVIOUS
<1>1. ASSUME NEW r \in Runners, Run(r) \/ Confirm(r) PROVE GoalInv'
  BY <1>1, KeepsGoal DEF Run, Confirm, Start, Goto, Saving, ghosts, Inv, Shape
<1>2. CASE ConfirmTooLate \/ BootReconcile \/ UNCHANGED vars
  BY <1>2, KeepsGoal DEF ConfirmTooLate, BootReconcile, vars, frames, ghosts
<1>3. CASE Crash
  BY <1>3 DEF Crash, GoalInv, Saving, CallStates, ghosts
<1> QED  BY <1>1, <1>2, <1>3, RunnerGoal, CallGoal DEF Next

LEMMA InvHolds == Spec => [](Inv /\ GoalInv)
<1>1. Init => GoalInv
  BY DEF Init, GoalInv, CallStates, Saving
<1> QED  BY <1>1, InitInv, NextInv, NextGoal, ResultHolds, PTL DEF Spec

\* The tool behind an idempotency key takes effect at most once: across every
\* run, retry, confirmation, reconciliation and crash.
THEOREM EffectsHappenOnce == Spec => []EffectAtMostOnce
<1>1. Inv => EffectAtMostOnce
  BY DEF Inv
<1> QED  BY <1>1, InvHolds, PTL

\* A task is COMPLETED only after a verifier confirmed every step of its
\* plan, although no run need have seen all of them.
THEOREM CompletionIsVerified == Spec => []CompletedMeansAllVerified
<1>1. Inv => CompletedMeansAllVerified
  BY DEF Inv
<1> QED  BY <1>1, InvHolds, PTL

\* A step that a resumed run skips was verified: whatever stale copies of the
\* plan the runs saved over it, every COMPLETED step of the durable plan was
\* confirmed by a verifier.
THEOREM SkippedWasVerified == Spec => []SkippedStepsAreVerified
<1>1. Inv => SkippedStepsAreVerified
  BY DEF Inv
<1> QED  BY <1>1, InvHolds, PTL

-----------------------------------------------------------------------------
(* One authorization, one use.  Nothing keeps two runs from executing at     *)
(* once; what keeps the authorization honest is the order of the steps: who  *)
(* is authorized for a step has seen every earlier one verified, and a step  *)
(* is verified only after the one call its key allows was recorded.          *)

Holding(r) == pc[r] \in {"invoke", "scan", "record", "saveOutcome"}
Granted(r) == Holding(r) \/ pc[r] \in {"execute", "reserve"}

UseInv ==
    /\ auth \in Steps \cup {0}
    /\ record \in [Keys -> Outcomes \cup {"NONE"}]
    /\ \A k \in Keys : ~idem[k] => record[k] = "NONE"
    /\ \A r \in Runners : Holding(r) => idem[Key(r)] /\ record[Key(r)] = "NONE"
    /\ \A r, q \in Runners : Holding(r) /\ Holding(q) /\ Key(r) = Key(q) => r = q
    /\ \A r \in Runners : pc[r] = "verify" => record[Key(r)] = "SUCCESS"
    /\ \A r \in Runners : Granted(r) => auth # 0
    /\ \A s \in Steps : verified[s] => record[StepKey[s]] = "SUCCESS"
    /\ \A s \in Steps : s < auth => verified[s]
    /\ ConsumedMeansSuccess

\* No runner is granted, takes or records a call.
LEMMA UseFrame ==
    ASSUME UseInv, UNCHANGED <<auth, authUsed, record, idem, verified>>,
           \A r \in Runners :
               /\ Granted(r)' => Granted(r) /\ at'[r] = at[r]
               /\ Holding(r)' => Holding(r)
               /\ pc'[r] = "verify" => pc[r] = "verify" /\ at'[r] = at[r]
    PROVE  UseInv'
<1>1. \A r \in Runners : Holding(r)' => Holding(r) /\ Key(r)' = Key(r)
  BY DEF Granted, Key
<1>2. \A r \in Runners : pc'[r] = "verify" => pc[r] = "verify" /\ Key(r)' = Key(r)
  BY DEF Key
<1> QED  BY <1>1, <1>2 DEF UseInv, ConsumedMeansSuccess

LEMMA AuthorizeUse ==
    ASSUME UseInv, Inv, NEW r \in Runners, Authorize(r)
    PROVE  UseInv'
<1>1. /\ pc[r] = "authorize" /\ pc' = [pc EXCEPT ![r] = "execute"]
      /\ auth' = at[r] /\ authUsed' = FALSE
      /\ UNCHANGED <<record, idem, at, verified>>
  BY DEF Authorize, Goto, ghosts
<1>2. at[r] \in Steps /\ at[r] # 0
  BY KeyTyped, StepsAssumption DEF Inv, Steps
<1>3. \A s \in Steps : s < at[r] => verified[s]
  BY <1>1 DEF Inv, CopyInv
<1>4. \A q \in Runners : /\ Key(q)' = Key(q) /\ (Holding(q)' => Holding(q))
                         /\ (pc'[q] = "verify" => pc[q] = "verify")
  BY <1>1 DEF Inv, Shape, Holding, Key
<1> QED  BY <1>1, <1>2, <1>3, <1>4 DEF UseInv, ConsumedMeansSuccess

LEMMA ReserveUse ==
    ASSUME UseInv, Inv, NEW r \in Runners, Reserve(r)
    PROVE  UseInv'
<1>1. /\ pc[r] = "reserve" /\ ~idem[Key(r)]
      /\ idem' = [idem EXCEPT ![Key(r)] = TRUE]
      /\ pc' = [pc EXCEPT ![r] = "invoke"]
      /\ UNCHANGED <<auth, authUsed, record, at, verified>>
  BY DEF Reserve, Reservable, Goto, ghosts
<1>2. \A q \in Runners : Key(q) \in Keys /\ Key(q)' = Key(q)
  BY <1>1, KeyTyped DEF Inv, Key
<1>3. /\ Holding(r)' /\ Granted(r)
      /\ \A q \in Runners \ {r} : /\ Holding(q)' = Holding(q) /\ Granted(q)' = Granted(q)
                                  /\ pc'[q] = pc[q]
  BY <1>1 DEF Inv, Shape, Holding, Granted
<1>4. pc'[r] # "verify"
  BY <1>1 DEF Inv, Shape
<1>5. \A k \in Keys : idem[k] => idem'[k]
  BY <1>1, <1>2 DEF Inv, Shape
<1>6. idem'[Key(r)]
  BY <1>1, <1>2 DEF Inv, Shape
<1>7. record[Key(r)] = "NONE" /\ \A q \in Runners : Holding(q) => Key(q) # Key(r)
  BY <1>1, <1>2 DEF UseInv
<1>8. \A k \in Keys : ~idem'[k] => record'[k] = "NONE"
  BY <1>1, <1>5 DEF UseInv
<1>9. \A q \in Runners : Holding(q)' => idem'[Key(q)'] /\ record'[Key(q)'] = "NONE"
  BY <1>1, <1>2, <1>3, <1>5, <1>6, <1>7 DEF UseInv
<1>10. \A p, q \in Runners : Holding(p)' /\ Holding(q)' /\ Key(p)' = Key(q)' => p = q
  BY <1>2, <1>3, <1>7 DEF UseInv
<1>11. /\ \A q \in Runners : pc'[q] = "verify" => record'[Key(q)'] = "SUCCESS"
       /\ \A q \in Runners : Granted(q)' => auth' # 0
  BY <1>1, <1>2, <1>3, <1>4 DEF UseInv
<1> QED  BY <1>1, <1>8, <1>9, <1>10, <1>11 DEF UseInv, ConsumedMeansSuccess

\* Whoever was authorized last, the authorization this SUCCESS consumes is for
\* this step or for one that was verified before.
LEMMA RecordUse ==
    ASSUME UseInv, Inv, ResultInv, NEW r \in Runners, RecordOutcome(r)
    PROVE  UseInv'
<1> DEFINE l == IF result[r] = "SUCCESS" THEN "verify" ELSE "fail"
<1>1. /\ pc[r] = "saveOutcome" /\ pc' = [pc EXCEPT ![r] = l]
      /\ record' = [record EXCEPT ![Key(r)] = result[r]]
      /\ authUsed' = (authUsed \/ result[r] = "SUCCESS")
      /\ UNCHANGED <<auth, idem, at, verified>>
  BY DEF RecordOutcome, Goto, Consumes, ghosts
<1>2. /\ Holding(r) /\ Granted(r) /\ result[r] \in Outcomes
      /\ \A q \in Runners : at[q] \in Steps /\ Key(q) \in Keys /\ Key(q)' = Key(q)
  BY <1>1, KeyTyped DEF Holding, Granted, ResultInv, Inv, Key
<1>3. idem[Key(r)] /\ record[Key(r)] = "NONE" /\ auth # 0
  BY <1>2 DEF UseInv
<1>4. \A k \in Keys : record[k] # "NONE" => record'[k] = record[k]
  BY <1>1, <1>2, <1>3 DEF UseInv
<1>5. record'[Key(r)] = result[r] /\ record' \in [Keys -> Outcomes \cup {"NONE"}]
  BY <1>1, <1>2 DEF UseInv
<1>6. \A k \in Keys : ~idem'[k] => record'[k] = "NONE"
  BY <1>1, <1>2, <1>3 DEF UseInv
<1>7. \A q \in Runners : Holding(q)' => q # r /\ Holding(q)
  BY <1>1 DEF Inv, Shape, Holding
<1>8. \A q \in Runners : Holding(q)' => idem'[Key(q)'] /\ record'[Key(q)'] = "NONE"
  BY <1>1, <1>2, <1>7 DEF UseInv
<1>9. \A p, q \in Runners : Holding(p)' /\ Holding(q)' /\ Key(p)' = Key(q)' => p = q
  BY <1>2, <1>7 DEF UseInv
<1>10. \A q \in Runners : pc'[q] = "verify" => record'[Key(q)'] = "SUCCESS"
  <2> SUFFICES ASSUME NEW q \in Runners, pc'[q] = "verify"
               PROVE  record'[Key(q)'] = "SUCCESS"
    OBVIOUS
  <2>1. CASE q = r
    BY <1>1, <1>2, <1>5, <2>1 DEF Inv, Shape
  <2>2. CASE q # r
    <3>1. pc[q] = "verify"
      BY <1>1, <2>2 DEF Inv, Shape
    <3> QED  BY <1>2, <1>4, <3>1 DEF UseInv
  <2> QED  BY <2>1, <2>2
<1>11. \A s \in Steps : verified[s] => record'[StepKey[s]] = "SUCCESS"
  BY <1>4, StepsAssumption DEF UseInv
<1>12. ConsumedMeansSuccess'
  <2> SUFFICES ASSUME authUsed' PROVE record'[StepKey[auth]] = "SUCCESS"
    BY <1>1, <1>3 DEF ConsumedMeansSuccess
  <2>1. auth \in Steps
    BY <1>3 DEF UseInv
  <2>2. CASE authUsed
    BY <1>4, <2>1, <2>2, StepsAssumption DEF UseInv, ConsumedMeansSuccess
  <2>3. CASE result[r] = "SUCCESS"
    <3>1. CASE auth = at[r]
      BY <1>5, <2>3, <3>1 DEF Key
    <3>2. CASE auth < at[r]
      <4>1. verified[auth]
        BY <1>1, <2>1, <3>2 DEF Inv, CopyInv
      <4> QED  BY <1>11, <2>1, <4>1
    <3>3. CASE at[r] < auth
      <4>1. record[Key(r)] = "SUCCESS"
        BY <1>2, <3>3 DEF UseInv, Key
      <4> QED  BY <1>3, <4>1
    <3> QED  BY <1>2, <2>1, <3>1, <3>2, <3>3, StepsAssumption DEF Steps
  <2> QED  BY <1>1, <2>2, <2>3
<1>13. \A q \in Runners : Granted(q)' => auth' # 0
  BY <1>1, <1>3
<1> QED  BY <1>1, <1>5, <1>6, <1>8, <1>9, <1>10, <1>11, <1>12, <1>13 DEF UseInv

LEMMA VerifyUse ==
    ASSUME UseInv, Inv, NEW r \in Runners, NEW ok \in BOOLEAN, Verify(r, ok)
    PROVE  UseInv'
<1>1. /\ pc[r] = "verify" /\ pc' = [pc EXCEPT ![r] = "saveVerdict"]
      /\ verified' = [verified EXCEPT ![at[r]] = verified[at[r]] \/ ok]
      /\ UNCHANGED <<auth, authUsed, record, idem, at>>
  BY DEF Verify, Goto, rows
<1>2. at[r] \in Steps /\ record[StepKey[at[r]]] = "SUCCESS"
  BY <1>1, KeyTyped DEF UseInv, Key, Inv
<1>3. /\ \A s \in Steps : verified[s] => verified'[s]
      /\ \A s \in Steps : verified'[s] => verified[s] \/ s = at[r]
  BY <1>1, <1>2 DEF Inv, Shape
<1>4. \A q \in Runners : /\ Key(q)' = Key(q) /\ (Holding(q)' => Holding(q))
                         /\ (Granted(q)' => Granted(q))
                         /\ (pc'[q] = "verify" => pc[q] = "verify")
  BY <1>1 DEF Inv, Shape, Holding, Granted, Key
<1> QED  BY <1>1, <1>2, <1>3, <1>4 DEF UseInv, ConsumedMeansSuccess

LEMMA NextUse ==
    ASSUME UseInv, Inv, ResultInv, [Next]_vars
    PROVE  UseInv'
<1>1. ASSUME NEW r \in Runners,
             \/ SetRunning(r) \/ Decide(r) \/ AskUser(r) \/ DecideRaises(r)
             \/ ExecuteChecks(r) \/ ExecuteRaises(r) \/ EnforceHalts(r)
             \/ ReserveRefused(r) \/ SupervisorRaises(r) \/ Invoke(r)
             \/ ScanPasses(r) \/ ScanHalts(r) \/ Halt(r)
             \/ RecordReads(r) \/ RecordRaises(r) \/ SaveVerdict(r) \/ VerifyRaises(r)
      PROVE  UseInv'
  <2>1. /\ UNCHANGED <<auth, authUsed, record, idem, verified, at>>
        /\ \E l \in PCs \ {"invoke", "execute", "verify"} :
              /\ pc' = [pc EXCEPT ![r] = l]
              /\ l \in {"reserve", "scan", "record", "saveOutcome"} => Granted(r)
              /\ l \in {"scan", "record", "saveOutcome"} => Holding(r)
    BY <1>1 DEF SetRunning, Decide, AskUser, DecideRaises, ExecuteChecks, ExecuteRaises,
       EnforceHalts, ReserveRefused, SupervisorRaises, Invoke, ScanPasses, ScanHalts, Halt,
       RecordReads, RecordRaises, SaveVerdict, AfterVerdict, VerifyRaises, Moves, Goto,
       PCs, Granted, Holding, rows, ghosts
  <2> QED  BY <2>1, UseFrame DEF Inv, Shape, Granted, Holding
<1>2. ASSUME NEW r \in Runners,
             \/ SetCompleted(r) \/ FailStep(r) \/ \E a \in BOOLEAN : Start(r, a)
      PROVE  UseInv'
  <2>1. /\ UNCHANGED <<auth, authUsed, record, idem, verified>>
        /\ \E l \in {"idle", "setRunning"} : pc' = [pc EXCEPT ![r] = l]
        /\ \A q \in Runners \ {r} : at'[q] = at[q]
    BY <1>2 DEF SetCompleted, FailStep, Start, Leave, Goto, rows, ghosts, Inv, Shape
  <2> QED  BY <2>1, UseFrame DEF Inv, Shape, Granted, Holding
<1>3. CASE Crash
  BY <1>3, UseFrame DEF Crash, rows, ghosts, Granted, Holding
<1>4. CASE ConfirmTooLate \/ BootReconcile \/ UNCHANGED vars
  BY <1>4, UseFrame DEF ConfirmTooLate, BootReconcile, vars, rows, frames, ghosts, Granted, Holding
<1>5. ASSUME NEW c \in Callers, CallStep(c) PROVE UseInv'
  BY <1>5, CallFrame, UseFrame DEF frames, ghosts, Granted, Holding
<1> QED  BY <1>1, <1>2, <1>3, <1>4, <1>5, AuthorizeUse, ReserveUse, RecordUse, VerifyUse
         DEF Next, RunnerStep, Run, Confirm

\* An authorization is consumed only if its own step's success is on record,
\* although execute consumes the latest authorization of the task, whichever
\* run it was granted to, and nothing keeps two runs from executing at once.
THEOREM OnlySuccessConsumes == Spec => []ConsumedMeansSuccess
<1>1. Init => UseInv
  BY StepsAssumption DEF Init, UseInv, Holding, Granted, ConsumedMeansSuccess, Steps, Outcomes
<1>2. UseInv /\ Inv /\ ResultInv /\ [Next]_vars => UseInv'
  BY NextUse
<1>3. UseInv => ConsumedMeansSuccess
  BY DEF UseInv
<1> QED  BY <1>1, <1>2, <1>3, InvHolds, ResultHolds, PTL DEF Spec

-----------------------------------------------------------------------------
(* Types and restart *)

LEMMA TaskTyped == Spec => [](task \in TaskState)
<1>1. Init => task \in TaskState
  BY DEF Init, TaskState
<1>2. task \in TaskState /\ GoalInv /\ [Next]_vars => (task \in TaskState)'
  <2> SUFFICES ASSUME task \in TaskState, GoalInv, [Next]_vars PROVE task' \in TaskState
    OBVIOUS
  <2>1. ASSUME NEW r \in Runners, Authorize(r) \/ Halt(r) \/ RecordOutcome(r) \/ SaveVerdict(r)
        PROVE  task' \in TaskState
    BY <2>1 DEF Authorize, Halt, RecordOutcome, SaveVerdict, AdvanceSaves, GoalInv, Saving
  <2>2. CASE BootReconcile
    BY <2>2, NextStateTyped DEF BootReconcile
  <2>3. ASSUME NEW c \in Callers, CallStep(c) PROVE task' \in TaskState
    BY <2>3, CallFrame
  <2>4. ASSUME NEW r \in Runners,
               \/ SetRunning(r) \/ Decide(r) \/ AskUser(r) \/ DecideRaises(r)
               \/ ExecuteChecks(r) \/ ExecuteRaises(r) \/ EnforceHalts(r)
               \/ Reserve(r) \/ ReserveRefused(r) \/ SupervisorRaises(r) \/ Invoke(r)
               \/ ScanPasses(r) \/ ScanHalts(r) \/ RecordReads(r) \/ RecordRaises(r)
               \/ (\E ok \in BOOLEAN : Verify(r, ok)) \/ VerifyRaises(r)
               \/ SetCompleted(r) \/ FailStep(r) \/ Run(r) \/ Confirm(r)
        PROVE  UNCHANGED task
    BY <2>4 DEF SetRunning, Decide, AskUser, DecideRaises, ExecuteChecks, ExecuteRaises,
       EnforceHalts, Reserve, ReserveRefused, SupervisorRaises, Invoke, ScanPasses,
       ScanHalts, RecordReads, RecordRaises, Verify, VerifyRaises, SetCompleted, FailStep,
       Run, Confirm, Start, Moves, rows
  <2>5. CASE ConfirmTooLate \/ Crash \/ UNCHANGED vars
    BY <2>5 DEF ConfirmTooLate, Crash, vars, rows
  <2> QED  BY <2>1, <2>2, <2>3, <2>4, <2>5 DEF Next, RunnerStep
<1> QED  BY <1>1, <1>2, InvHolds, PTL DEF Spec

\* What Shape, ResultInv and GoalInv leave out of the type invariant.
RestTyped ==
    /\ auth \in Steps \cup {0} /\ authUsed \in BOOLEAN
    /\ record \in [Keys -> Outcomes \cup {"NONE"}]
    /\ pending \in BOOLEAN /\ ack \in [Runners -> BOOLEAN]
    /\ mode \in {"up", "boot"}
    /\ runs \in 0 .. MaxRuns /\ crashes \in 0 .. MaxCrashes

LEMMA NextTyped ==
    ASSUME RestTyped, Shape, ResultInv, [Next]_vars
    PROVE  RestTyped'
<1>1. ASSUME NEW r \in Runners, NEW a \in BOOLEAN, Start(r, a), pending' \in BOOLEAN
      PROVE  RestTyped'
  BY <1>1, BoundsAssumption DEF RestTyped, Start, rows
<1>2. ASSUME NEW r \in Runners, RunnerStep(r) PROVE RestTyped'
  <2>1. CASE Authorize(r)
    BY <2>1 DEF RestTyped, Shape, Authorize
  <2>2. CASE RecordOutcome(r)
    <3>1. result[r] \in Outcomes
      BY <2>2 DEF ResultInv, RecordOutcome
    <3>2. record' \in [Keys -> Outcomes \cup {"NONE"}]
      BY <2>2, <3>1 DEF RestTyped, RecordOutcome
    <3>3. authUsed' \in BOOLEAN
      BY <2>2 DEF RestTyped, RecordOutcome
    <3> QED  BY <2>2, <3>2, <3>3 DEF RestTyped, RecordOutcome
  <2>3. CASE SetCompleted(r) \/ FailStep(r)
    BY <2>3 DEF RestTyped, SetCompleted, FailStep, Leave
  <2>4. CASE AskUser(r)
    BY <2>4 DEF RestTyped, AskUser, rows
  <2>5. CASE \/ SetRunning(r) \/ Decide(r) \/ DecideRaises(r) \/ ExecuteChecks(r)
             \/ ExecuteRaises(r) \/ EnforceHalts(r) \/ Reserve(r) \/ ReserveRefused(r)
             \/ SupervisorRaises(r) \/ Invoke(r) \/ ScanPasses(r) \/ ScanHalts(r)
             \/ Halt(r) \/ RecordReads(r) \/ RecordRaises(r)
             \/ (\E ok \in BOOLEAN : Verify(r, ok)) \/ SaveVerdict(r) \/ VerifyRaises(r)
    BY <2>5 DEF RestTyped, SetRunning, Decide, DecideRaises, ExecuteChecks, ExecuteRaises,
       EnforceHalts, Reserve, ReserveRefused, SupervisorRaises, Invoke, ScanPasses,
       ScanHalts, Halt, RecordReads, RecordRaises, Verify, SaveVerdict, VerifyRaises,
       Moves, rows
  <2> QED  BY <1>2, <2>1, <2>2, <2>3, <2>4, <2>5 DEF RunnerStep
<1>3. CASE ConfirmTooLate \/ BootReconcile
  BY <1>3 DEF RestTyped, ConfirmTooLate, BootReconcile, rows, frames
<1>4. ASSUME NEW c \in Callers, CallStep(c) PROVE RestTyped'
  BY <1>4, CallFrame DEF RestTyped, frames
<1>5. CASE Crash
  <2>1. crashes' \in 0 .. MaxCrashes
    BY <1>5, BoundsAssumption DEF RestTyped, Crash
  <2>2. ack' \in [Runners -> BOOLEAN] /\ pending' \in BOOLEAN
    BY <1>5, Zenon DEF Crash
  <2> QED  BY <1>5, <2>1, <2>2 DEF RestTyped, Crash, rows
<1>6. CASE UNCHANGED vars
  BY <1>6 DEF RestTyped, vars, rows, frames
<1>7. ASSUME NEW r \in Runners, Run(r) PROVE RestTyped'
  BY <1>1, <1>7 DEF Run, RestTyped
<1>8. ASSUME NEW r \in Runners, Confirm(r) PROVE RestTyped'
  BY <1>1, <1>8 DEF Confirm
<1> QED  BY <1>2, <1>3, <1>4, <1>5, <1>6, <1>7, <1>8 DEF Next

\* Only begin_recovery writes attempts.
LEMMA AttemptsFrame ==
    ASSUME [Next]_vars
    PROVE  UNCHANGED attempts \/ \E c \in Callers : SaveAttempt(c)
BY CallFrame
   DEF Next, vars, rows, Run, RunnerStep, Confirm, Start, Moves, SetRunning, Decide, Authorize, AskUser,
       DecideRaises, ExecuteChecks, ExecuteRaises, EnforceHalts, Reserve, ReserveRefused,
       SupervisorRaises, Invoke, ScanPasses, ScanHalts, Halt, RecordReads, RecordOutcome,
       RecordRaises, Verify, SaveVerdict, VerifyRaises, SetCompleted, FailStep,
       ConfirmTooLate, BootReconcile, Crash

\* Every row, frame and counter of plan execution keeps its type: no run sees
\* a state of the task, of a step or of a record that its code does not know.
THEOREM TypeCorrect == Spec => []TypeOK
<1>1. Init => RestTyped
  <2> SUFFICES ASSUME Init PROVE RestTyped
    OBVIOUS
  <2>1. runs \in 0 .. MaxRuns /\ crashes \in 0 .. MaxCrashes
    BY BoundsAssumption DEF Init
  <2>2. ack \in [Runners -> BOOLEAN] /\ pending \in BOOLEAN
        /\ authUsed \in BOOLEAN
    BY Zenon DEF Init
  <2>3. record \in [Keys -> Outcomes \cup {"NONE"}]
    BY Zenon DEF Init
  <2> QED  BY <2>1, <2>2, <2>3 DEF Init, RestTyped
<1>2. RestTyped /\ Inv /\ ResultInv /\ [Next]_vars => RestTyped'
  BY NextTyped DEF Inv
<1>3. Spec => []RestTyped
  BY <1>1, <1>2, InvHolds, ResultHolds, PTL DEF Spec
<1>4. Spec => [](attempts \in Nat)
  <2>1. Init => attempts \in Nat
    BY DEF Init
  <2>2. attempts \in Nat /\ [Next]_vars => (attempts \in Nat)'
    <3> SUFFICES ASSUME attempts \in Nat, [Next]_vars PROVE attempts' \in Nat
      OBVIOUS
    <3>1. ASSUME NEW c \in Callers, SaveAttempt(c) PROVE attempts' \in Nat
      BY <3>1 DEF SaveAttempt
    <3> QED  BY <3>1, AttemptsFrame
  <2> QED  BY <2>1, <2>2, PTL DEF Spec
<1>5. RestTyped /\ Inv /\ GoalInv /\ ResultInv /\ task \in TaskState /\ attempts \in Nat => TypeOK
  BY DEF RestTyped, Inv, Shape, GoalInv, ResultInv, TypeOK
<1> QED  BY <1>3, <1>4, <1>5, InvHolds, ResultHolds, TaskTyped, PTL

\* Only the reconciliation of build_runtime ends a start-up.
LEMMA OnlyReconcileBoots ==
    ASSUME Next, mode = "boot", mode' = "up"
    PROVE  BootReconcile
BY CallFrame
   DEF Next, Run, RunnerStep, Confirm, Start, Moves, SetRunning, Decide, Authorize, AskUser,
       DecideRaises, ExecuteChecks, ExecuteRaises, EnforceHalts, Reserve, ReserveRefused,
       SupervisorRaises, Invoke, ScanPasses, ScanHalts, Halt, RecordReads, RecordOutcome,
       RecordRaises, Verify, SaveVerdict, VerifyRaises, SetCompleted, FailStep,
       ConfirmTooLate, Crash

\* Whatever the dead process was doing, the restart leaves a task that is
\* done, waits for a decision or is STABILIZING: the reconciliation has an
\* event for every other state, and the table accepts it.
THEOREM RestartSettles == Spec => RestartSettlesTask
<1>1. task \in TaskState /\ [Next]_vars =>
        [mode = "boot" /\ mode' = "up" =>
            task' \in TERMINAL_STATES \cup {"FAILED", "BLOCKED", "STABILIZING"}]_vars
  <2> SUFFICES ASSUME task \in TaskState, Next, mode = "boot", mode' = "up"
               PROVE  task' \in TERMINAL_STATES \cup {"FAILED", "BLOCKED", "STABILIZING"}
    OBVIOUS
  <2>1. BootReconcile
    BY OnlyReconcileBoots
  <2>2. CASE task \in DOMAIN StrandedEvent
    <3>1. task' \in next_state(task, StrandedEvent[task])
      BY <2>1, <2>2 DEF BootReconcile
    <3>2. task \in {"CREATED", "PLANNING", "READY", "RUNNING", "VERIFYING", "RECOVERING"}
      BY <2>2 DEF StrandedEvent
    <3> QED  BY <3>1, <3>2 DEF StrandedEvent, next_state, TRANSITIONS, TERMINAL_STATES
  <2>3. CASE task \notin DOMAIN StrandedEvent
    BY <2>1, <2>3 DEF BootReconcile, StrandedEvent, TaskState, TERMINAL_STATES
  <2> QED  BY <2>2, <2>3
<1> QED  BY <1>1, TaskTyped, PTL DEF Spec, RestartSettlesTask

-----------------------------------------------------------------------------
(* Completed steps stay, if only one thread runs plans *)

\* The copy of the one run is the persisted plan, and its step needs work.
FreshInv ==
    \A r \in Runners : pc[r] # "idle" => copy[r] = plan /\ plan[at[r]] # "COMPLETED"

KeepsCompleted == \A s \in Steps : plan[s] = "COMPLETED" => plan'[s] = "COMPLETED"

\* Only saving a step writes the plan.
LEMMA PlanFrame ==
    ASSUME [Next]_vars
    PROVE  \/ \E r \in Runners : SetRunning(r) \/ SetCompleted(r) \/ FailStep(r)
           \/ \E r \in Runners, a \in BOOLEAN : Start(r, a)
           \/ Crash
           \/ /\ UNCHANGED <<plan, copy, at>>
              /\ \A r \in Runners : pc[r] = "idle" /\ pc \in [Runners -> PCs] => pc'[r] = "idle"
<1>1. ASSUME NEW r \in Runners,
             \/ Decide(r) \/ Authorize(r) \/ AskUser(r) \/ DecideRaises(r)
             \/ ExecuteChecks(r) \/ ExecuteRaises(r) \/ EnforceHalts(r)
             \/ Reserve(r) \/ ReserveRefused(r) \/ SupervisorRaises(r) \/ Invoke(r)
             \/ ScanPasses(r) \/ ScanHalts(r) \/ Halt(r)
             \/ RecordReads(r) \/ RecordOutcome(r) \/ RecordRaises(r)
             \/ (\E ok \in BOOLEAN : Verify(r, ok)) \/ SaveVerdict(r) \/ VerifyRaises(r)
      PROVE  UNCHANGED <<plan, copy, at>> /\ pc[r] # "idle" /\ \E l : Goto(r, l)
  BY <1>1 DEF Decide, Authorize, AskUser, DecideRaises, ExecuteChecks, ExecuteRaises,
         EnforceHalts, Reserve, ReserveRefused, SupervisorRaises, Invoke, ScanPasses,
         ScanHalts, Halt, RecordReads, RecordOutcome, RecordRaises, Verify, SaveVerdict,
         VerifyRaises, Moves, rows
<1>2. ASSUME NEW r \in Runners, pc[r] # "idle", \E l : Goto(r, l)
      PROVE  \A q \in Runners : pc[q] = "idle" /\ pc \in [Runners -> PCs] => pc'[q] = "idle"
  BY <1>2 DEF Goto
<1>3. ASSUME ConfirmTooLate \/ BootReconcile \/ UNCHANGED vars \/ \E c \in Callers : CallStep(c)
      PROVE  UNCHANGED <<plan, copy, at, pc>>
  BY <1>3, CallFrame DEF ConfirmTooLate, BootReconcile, vars, rows, frames
<1> QED  BY <1>1, <1>2, <1>3 DEF Next, RunnerStep, Run, Confirm

LEMMA NextFresh ==
    ASSUME \A r, q \in Runners : r = q, FreshInv, Shape, [Next]_vars
    PROVE  FreshInv' /\ KeepsCompleted
<1>1. ASSUME NEW r \in Runners, SetRunning(r)
      PROVE  FreshInv' /\ KeepsCompleted
  <2>1. /\ pc[r] # "idle" /\ plan' = [copy[r] EXCEPT ![at[r]] = "RUNNING"]
        /\ copy'[r] = plan' /\ at' = at
    BY <1>1 DEF SetRunning, SaveStep, Shape
  <2> QED  BY <2>1 DEF FreshInv, Shape, KeepsCompleted
<1>2. ASSUME NEW r \in Runners, FailStep(r)
      PROVE  FreshInv' /\ KeepsCompleted
  <2>1. /\ pc[r] # "idle" /\ plan' = [copy[r] EXCEPT ![at[r]] = "FAILED"]
        /\ pc'[r] = "idle"
    BY <1>2 DEF FailStep, Leave, Goto, Shape
  <2> QED  BY <2>1 DEF FreshInv, Shape, KeepsCompleted
<1>3. ASSUME NEW r \in Runners, SetCompleted(r)
      PROVE  FreshInv' /\ KeepsCompleted
  <2>1. pc[r] # "idle" /\ plan' = [copy[r] EXCEPT ![at[r]] = "COMPLETED"]
    BY <1>3 DEF SetCompleted
  <2>2. KeepsCompleted
    BY <2>1 DEF FreshInv, Shape, KeepsCompleted
  <2>3. CASE MoreSteps(r)
    <3>1. PICK s \in Steps :
            IsFirst(s, Later(copy[r], at[r])) /\ at' = [at EXCEPT ![r] = s]
      BY <1>3, <2>3 DEF SetCompleted
    <3>2. copy'[r] = plan' /\ at'[r] = s
      BY <1>3, <2>3, <3>1 DEF SetCompleted, Shape
    <3>3. s > at[r] /\ copy[r][s] # "COMPLETED" /\ at[r] \in Steps
      BY <3>1 DEF IsFirst, Later, Shape
    <3>4. plan'[s] # "COMPLETED"
      BY <2>1, <3>3, StepsAssumption DEF Shape, Steps
    <3> QED  BY <2>2, <3>2, <3>4 DEF FreshInv
  <2>4. CASE ~MoreSteps(r)
    BY <1>3, <2>2, <2>4 DEF SetCompleted, Leave, Goto, Shape, FreshInv
  <2> QED  BY <2>3, <2>4
<1>4. ASSUME NEW r \in Runners, NEW a \in BOOLEAN, Start(r, a)
      PROVE  FreshInv' /\ KeepsCompleted
  <2>1. PICK s \in Steps :
          IsFirst(s, Later(plan, 0)) /\ at' = [at EXCEPT ![r] = s]
    BY <1>4 DEF Start
  <2>2. plan' = plan /\ copy'[r] = plan /\ at'[r] = s /\ plan[s] # "COMPLETED"
    BY <1>4, <2>1 DEF Start, rows, Shape, IsFirst, Later
  <2> QED  BY <2>2 DEF FreshInv, KeepsCompleted
<1>5. CASE Crash
  BY <1>5 DEF Crash, rows, FreshInv, KeepsCompleted
<1>6. CASE /\ UNCHANGED <<plan, copy, at>>
           /\ \A r \in Runners : pc[r] = "idle" /\ pc \in [Runners -> PCs] => pc'[r] = "idle"
  BY <1>6 DEF FreshInv, Shape, KeepsCompleted
<1> QED  BY <1>1, <1>2, <1>3, <1>4, <1>5, <1>6, PlanFrame

\* If only one thread runs plans, no step of the durable plan loses its
\* COMPLETED: across crashes, failed steps, retries and reconciliations at any
\* time, a resumed run skips what was done.
THEOREM CompletedStaysSerial ==
    ASSUME \A r, q \in Runners : r = q
    PROVE  Spec => CompletedStepsStay
<1>1. Init => FreshInv
  BY DEF Init, FreshInv
<1>2. FreshInv /\ Inv /\ [Next]_vars => FreshInv' /\ [KeepsCompleted]_vars
  BY NextFresh, \A r, q \in Runners : r = q DEF Inv
<1>3. Spec => [][KeepsCompleted]_vars
  BY <1>1, <1>2, InvHolds, PTL DEF Spec
<1> QED  BY <1>3 DEF CompletedStepsStay, KeepsCompleted

=============================================================================
