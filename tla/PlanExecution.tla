--------------------------- MODULE PlanExecution ---------------------------
(***************************************************************************)
(* One task from READY on: PlanRunner.run drives DecisionService,          *)
(* ExecutionService, the ExecutionSupervisor, SecurityService and          *)
(* VerificationService step by step; users confirm and cancel;             *)
(* RecoveryService retries; a crash may fall between any two commits and   *)
(* the next start-up reconciles.                                           *)
(*                                                                         *)
(* Orchestrator.advance reads the task, looks up the new state and later   *)
(* saves it, without a lock: each is an action, whoever calls it (goal[r], *)
(* call[c]), and the save overwrites whatever happened meanwhile.  The     *)
(* other rows of a unit of work are committed with that save; where the    *)
(* event is illegal the unit is rolled back, and the exception makes the   *)
(* runner fail the step.  The receipts inside the supervisor are the       *)
(* subject of Supervisor, here it is its idempotency row and its call.     *)
(*                                                                         *)
(* Abstracted: capabilities, permits and the text of requests (their       *)
(* refusals are the nondeterministic exceptions below), expiry of          *)
(* authorizations (refuses, changes nothing), compensation requests (the   *)
(* binding check refuses them: their arguments were never authorized).     *)
(***************************************************************************)
EXTENDS Naturals, TaskStates

CONSTANTS
    NumSteps,     \* executable steps, in topological order 1 .. NumSteps
    Keys,         \* idempotency keys: (task, tool, action, arguments)
    StepKey,      \* StepKey[s]: the key of step s; equal steps share one
    NeedsAck,     \* steps whose risk needs an explicit acknowledgement
    Runners,      \* threads that may be inside PlanRunner.run
    Callers,      \* threads that cancel, recover and reconcile
    MaxAttempts,  \* RetryPolicy.max_attempts
    MaxRuns,      \* bound on the calls of run() in one behaviour
    MaxCrashes,   \* bound on the crashes of one behaviour
    HaltOnInjection, \* SecurityService's halt_on_injection
    LiveReconcile    \* may SheaApp.reconcile() be called while tasks run?

Steps == 1 .. NumSteps

ASSUME StepsAssumption ==
    /\ NumSteps \in Nat \ {0}
    /\ StepKey \in [Steps -> Keys]
    /\ NeedsAck \subseteq Steps
ASSUME BoundsAssumption ==
    /\ MaxAttempts \in Nat /\ MaxRuns \in Nat /\ MaxCrashes \in Nat
    /\ HaltOnInjection \in BOOLEAN /\ LiveReconcile \in BOOLEAN

StepStates == {"PENDING", "RUNNING", "COMPLETED", "FAILED"}
Outcomes   == {"SUCCESS", "FAILURE", "UNKNOWN"}

VARIABLES
    \* durable rows
    task,       \* state of the task
    plan,       \* plan[s]: persisted state of the step
    auth,       \* the latest authorization: the step it is bound to (0: none)
    authUsed,   \* its used_at is set
    record,     \* record[k]: outcome of the latest tool_executions row of k
    idem,       \* idem[k]: does the app plane hold a row for k?
    attempts,   \* number of recovery_attempts rows
    \* volatile
    pending,    \* is a confirmation waiting in PendingConfirmationStore?
    pc,         \* pc[r]: where runner r is
    copy,       \* copy[r]: its in-memory plan
    at,         \* at[r]: the step it is on
    ack,        \* ack[r]: explicit_user_ack
    result,     \* result[r]: outcome the supervisor returned
    goal,       \* goal[r]: the state its advance is about to save
    call,       \* call[c]: what c has read and not yet acted on
    mode, runs, crashes,
    \* observation only
    effect,     \* effect[k]: times the tool of k changed the outside world
    verified    \* verified[s]: a verifier confirmed the step

rows   == <<task, plan, auth, authUsed, record, idem, attempts>>
frames == <<pc, copy, at, ack, result, goal>>
ghosts == <<effect, verified>>
vars   == <<rows, pending, frames, call, mode, runs, crashes, ghosts>>

PCs == {"idle", "setRunning", "decide", "authorize", "execute", "reserve", "invoke",
        "scan", "halt", "record", "saveOutcome", "verify", "saveVerdict",
        "setCompleted", "fail"}

\* begin_recovery has counted the attempts; an event advance is called with;
\* the state a call is about to save.
CallStates == {"none", "counted"} \cup Events \cup TaskState

TypeOK ==
    /\ task \in TaskState
    /\ plan \in [Steps -> StepStates]
    /\ auth \in Steps \cup {0} /\ authUsed \in BOOLEAN
    /\ record \in [Keys -> Outcomes \cup {"NONE"}]
    /\ idem \in [Keys -> BOOLEAN]
    /\ attempts \in Nat
    /\ pending \in BOOLEAN
    /\ pc \in [Runners -> PCs]
    /\ copy \in [Runners -> [Steps -> StepStates]]
    /\ at \in [Runners -> Steps]
    /\ ack \in [Runners -> BOOLEAN]
    /\ result \in [Runners -> Outcomes \cup {"NONE"}]
    /\ goal \in [Runners -> TaskState \cup {"NONE"}]
    /\ call \in [Callers -> CallStates]
    /\ mode \in {"up", "boot"}
    /\ runs \in 0 .. MaxRuns /\ crashes \in 0 .. MaxCrashes
    /\ effect \in [Keys -> Nat]
    /\ verified \in [Steps -> BOOLEAN]

NewPlan == [s \in Steps |-> "PENDING"]

\* Planning has just moved the task to READY.
Init ==
    /\ task = "READY" /\ plan = NewPlan
    /\ auth = 0 /\ authUsed = FALSE
    /\ record = [k \in Keys |-> "NONE"]
    /\ idem = [k \in Keys |-> FALSE]
    /\ attempts = 0
    /\ pending = FALSE
    /\ pc = [r \in Runners |-> "idle"]
    /\ copy = [r \in Runners |-> NewPlan]
    /\ at = [r \in Runners |-> 1]
    /\ ack = [r \in Runners |-> FALSE]
    /\ result = [r \in Runners |-> "NONE"]
    /\ goal = [r \in Runners |-> "NONE"]
    /\ call = [c \in Callers |-> "none"]
    /\ mode = "up" /\ runs = 0 /\ crashes = 0
    /\ effect = [k \in Keys |-> 0]
    /\ verified = [s \in Steps |-> FALSE]

-----------------------------------------------------------------------------
(* PlanRunner.run *)

Key(r) == StepKey[at[r]]

Goto(r, l) == pc' = [pc EXCEPT ![r] = l]

\* The runner goes on; nothing else changes.
Moves(r, l) ==
    /\ Goto(r, l)
    /\ UNCHANGED <<rows, pending, copy, at, ack, result, goal, call, mode, runs,
                   crashes, ghosts>>

\* The runner's frame is gone; its fields get their initial values back.
Leave(r) ==
    /\ Goto(r, "idle")
    /\ copy' = [copy EXCEPT ![r] = NewPlan]
    /\ at' = [at EXCEPT ![r] = 1]
    /\ ack' = [ack EXCEPT ![r] = FALSE]
    /\ result' = [result EXCEPT ![r] = "NONE"]
    /\ goal' = [goal EXCEPT ![r] = "NONE"]

\* advance(event): the task is read and the state to be saved looked up.
AdvanceReads(r, event) == \E s \in next_state(task, event) : goal' = [goal EXCEPT ![r] = s]

\* advance's save, whatever the task has become since it was read.
AdvanceSaves(r) == task' = goal[r] /\ goal' = [goal EXCEPT ![r] = "NONE"]

\* Steps of a plan after s that still need work.
Later(p, s) == {t \in Steps : t > s /\ p[t] # "COMPLETED"}
IsFirst(s, S) == s \in S /\ \A t \in S : s <= t

\* run() reads the task and the plan; without a READY task or a pending step
\* it ends at once.
Start(r, acked) ==
    /\ pc[r] = "idle" /\ runs < MaxRuns
    /\ task = "READY"
    /\ copy' = [copy EXCEPT ![r] = plan]
    /\ \E s \in Steps : IsFirst(s, Later(plan, 0)) /\ at' = [at EXCEPT ![r] = s]
    /\ ack' = [ack EXCEPT ![r] = acked]
    /\ runs' = runs + 1
    /\ Goto(r, "setRunning")
    /\ UNCHANGED <<rows, result, goal, call, mode, crashes, ghosts>>

\* A run started by handle_text or by an embedding program.
Run(r) ==
    /\ mode = "up"
    /\ \E acked \in BOOLEAN : Start(r, acked)
    /\ UNCHANGED pending

\* _set_step_state: the runner's whole plan copy replaces the persisted plan.
SaveStep(r, st) ==
    /\ copy' = [copy EXCEPT ![r][at[r]] = st]
    /\ plan' = copy'[r]

SetRunning(r) ==
    /\ pc[r] = "setRunning"
    /\ SaveStep(r, "RUNNING")
    /\ Goto(r, "decide")
    /\ UNCHANGED <<task, auth, authUsed, record, idem, attempts, pending, at, ack,
                   result, goal, call, mode, runs, crashes, ghosts>>

\* evaluate_and_authorize, up to the state advance(authorize_and_run) read.
Decide(r) ==
    /\ pc[r] = "decide"
    /\ at[r] \in NeedsAck => ack[r]
    /\ AdvanceReads(r, "authorize_and_run")
    /\ Goto(r, "authorize")
    /\ UNCHANGED <<rows, pending, copy, at, ack, result, call, mode, runs, crashes, ghosts>>

\* Its unit of work commits: the decision, the authorization bound to this
\* step, and RUNNING, although another run may have done the same meanwhile.
Authorize(r) ==
    /\ pc[r] = "authorize"
    /\ AdvanceSaves(r)
    /\ auth' = at[r] /\ authUsed' = FALSE
    /\ Goto(r, "execute")
    /\ UNCHANGED <<plan, record, idem, attempts, pending, copy, at, ack, result,
                   call, mode, runs, crashes, ghosts>>

\* AuthorizationRequiredError: the confirmation is queued and the exception
\* goes on to the handler that fails the step.
AskUser(r) ==
    /\ pc[r] = "decide"
    /\ at[r] \in NeedsAck /\ ~ack[r]
    /\ pending' = TRUE
    /\ Goto(r, "fail")
    /\ UNCHANGED <<rows, copy, at, ack, result, goal, call, mode, runs, crashes, ghosts>>

\* Policy denial, or the task is no longer READY.
DecideRaises(r) ==
    /\ pc[r] = "decide"
    /\ Moves(r, "fail")

\* A prior execution on record forbids calling the tool again.
Suppressed(k) == record[k] \in {"SUCCESS", "UNKNOWN"}

\* ExecutionService.execute up to the supervisor: security gate, binding to
\* the latest authorization, replay and duplicate checks.
ExecuteChecks(r) ==
    /\ pc[r] = "execute"
    /\ auth = at[r] /\ ~authUsed
    /\ ~Suppressed(Key(r))
    /\ Moves(r, "reserve")

\* Any of those checks raises; the task stays where it is.
ExecuteRaises(r) ==
    /\ pc[r] = "execute"
    /\ Moves(r, "fail")

\* SecurityService.enforce finds a violation: the task is halted.
EnforceHalts(r) ==
    /\ pc[r] = "execute"
    /\ AdvanceReads(r, "security_halt")
    /\ Goto(r, "halt")
    /\ UNCHANGED <<rows, pending, copy, at, ack, result, call, mode, runs,
                   crashes, ghosts>>

\* Seeded fault: a recorded FAILURE gives the key back.
Reservable_AfterFailure(k) == ~idem[k] \/ record[k] = "FAILURE"

\* The supervisor's reservation: a key that ever had a row is refused.
Reservable(k) == ~idem[k]

Reserve(r) ==
    /\ pc[r] = "reserve"
    /\ Reservable(Key(r))
    /\ idem' = [idem EXCEPT ![Key(r)] = TRUE]
    /\ Goto(r, "invoke")
    /\ UNCHANGED <<task, plan, auth, authUsed, record, attempts, pending, copy, at,
                   ack, result, goal, call, mode, runs, crashes, ghosts>>

ReserveRefused(r) ==
    /\ pc[r] = "reserve"
    /\ ~Reservable(Key(r))
    /\ Moves(r, "fail")

\* The supervisor raises between its reservation and the adapter call.
SupervisorRaises(r) ==
    /\ pc[r] = "invoke"
    /\ Moves(r, "fail")

\* The verdict of the supervisor and whether the outside world changed.
Verdicts ==
    {<<"SUCCESS", 1>>, <<"FAILURE", 0>>, <<"FAILURE", 1>>,
     <<"UNKNOWN", 0>>, <<"UNKNOWN", 1>>}

Invoke(r) ==
    /\ pc[r] = "invoke"
    /\ \E v \in Verdicts :
        /\ result' = [result EXCEPT ![r] = v[1]]
        /\ effect' = [effect EXCEPT ![Key(r)] = @ + v[2]]
    /\ Goto(r, "scan")
    /\ UNCHANGED <<rows, pending, copy, at, ack, goal, call, mode, runs, crashes,
                   verified>>

\* execute's own scan_output finds nothing, or only reports what it finds.
ScanPasses(r) ==
    /\ pc[r] = "scan"
    /\ Moves(r, "record")

\* scan_output halts the task where that is legal, and raises in any case:
\* the outcome is not recorded.
ScanHalts(r) ==
    /\ pc[r] = "scan" /\ HaltOnInjection
    /\ \/ AdvanceReads(r, "security_halt") /\ Goto(r, "halt")
       \/ /\ next_state(task, "security_halt") = {}
          /\ Goto(r, "fail") /\ UNCHANGED goal
    /\ UNCHANGED <<rows, pending, copy, at, ack, result, call, mode, runs,
                   crashes, ghosts>>

\* Either way SECURITY_HALT is saved and the violation raised.
Halt(r) ==
    /\ pc[r] = "halt"
    /\ AdvanceSaves(r)
    /\ Goto(r, "fail")
    /\ UNCHANGED <<plan, auth, authUsed, record, idem, attempts, pending, copy, at,
                   ack, result, call, mode, runs, crashes, ghosts>>

ADVANCE_EVENT_BY_OUTCOME ==
    [SUCCESS |-> "execution_complete", FAILURE |-> "execution_failed",
     UNKNOWN |-> "execution_unknown"]

\* Seeded fault: the authorization is consumed whatever the outcome.
Consumes_Always(outcome) == TRUE

\* A one-shot authorization is consumed only by a SUCCESS.
Consumes(outcome) == outcome = "SUCCESS"

\* advance(outcome's event) has read the task.
RecordReads(r) ==
    /\ pc[r] = "record"
    /\ AdvanceReads(r, ADVANCE_EVENT_BY_OUTCOME[result[r]])
    /\ Goto(r, "saveOutcome")
    /\ UNCHANGED <<rows, pending, copy, at, ack, result, call, mode, runs,
                   crashes, ghosts>>

\* One unit of work: execution record, consumed authorization (the latest of
\* the task, whoever it was granted to), new state.
RecordOutcome(r) ==
    /\ pc[r] = "saveOutcome"
    /\ AdvanceSaves(r)
    /\ record' = [record EXCEPT ![Key(r)] = result[r]]
    /\ authUsed' = (authUsed \/ Consumes(result[r]))
    /\ Goto(r, IF result[r] = "SUCCESS" THEN "verify" ELSE "fail")
    /\ UNCHANGED <<plan, auth, idem, attempts, pending, copy, at, ack, result,
                   call, mode, runs, crashes, ghosts>>

\* The task left RUNNING meanwhile: advance raises and the unit of work is
\* rolled back, the execution record with it.
RecordRaises(r) ==
    /\ pc[r] = "record"
    /\ next_state(task, ADVANCE_EVENT_BY_OUTCOME[result[r]]) = {}
    /\ Moves(r, "fail")

\* Seeded fault: the step after next decides.
MoreSteps_Late(r) == Later(copy[r], at[r] + 1) # {}

\* more_steps: is this not the last step that was pending when run() began?
MoreSteps(r) == Later(copy[r], at[r]) # {}

\* Seeded fault: the runner goes on whatever the verifier says.
AfterVerdict_Ignored(r) == "setCompleted"

\* The runner goes on only with a step that was confirmed.
AfterVerdict(r) == IF goal[r] = "FAILED" THEN "fail" ELSE "setCompleted"

\* VerificationService.verify: the verifier has looked at the latest execution
\* record of the task, and advance has read the task.
Verify(r, ok) ==
    /\ pc[r] = "verify"
    /\ AdvanceReads(r, IF ~ok THEN "verification_failed"
                       ELSE IF MoreSteps(r) THEN "step_verified" ELSE "verified")
    /\ verified' = [verified EXCEPT ![at[r]] = @ \/ ok]
    /\ Goto(r, "saveVerdict")
    /\ UNCHANGED <<rows, pending, copy, at, ack, result, call, mode, runs,
                   crashes, effect>>

\* Its unit of work commits the verification and the new state.
SaveVerdict(r) ==
    /\ pc[r] = "saveVerdict"
    /\ AdvanceSaves(r)
    /\ Goto(r, AfterVerdict(r))
    /\ UNCHANGED <<plan, auth, authUsed, record, idem, attempts, pending, copy, at,
                   ack, result, call, mode, runs, crashes, ghosts>>

\* The runner's own scan flags the output, the verifier raises, or the task
\* has left VERIFYING.
VerifyRaises(r) ==
    /\ pc[r] = "verify"
    /\ Moves(r, "fail")

SetCompleted(r) ==
    /\ pc[r] = "setCompleted"
    /\ plan' = [copy[r] EXCEPT ![at[r]] = "COMPLETED"]
    /\ IF MoreSteps(r)
       THEN /\ copy' = [copy EXCEPT ![r] = plan']
            /\ \E s \in Steps :
                IsFirst(s, Later(copy[r], at[r])) /\ at' = [at EXCEPT ![r] = s]
            /\ result' = [result EXCEPT ![r] = "NONE"]
            /\ Goto(r, "setRunning")
            /\ UNCHANGED <<ack, goal>>
       ELSE Leave(r)
    /\ UNCHANGED <<task, auth, authUsed, record, idem, attempts, pending,
                   call, mode, runs, crashes, ghosts>>

\* The exception handler, and every early stop: the step is saved FAILED.
FailStep(r) ==
    /\ pc[r] = "fail"
    /\ plan' = [copy[r] EXCEPT ![at[r]] = "FAILED"]
    /\ Leave(r)
    /\ UNCHANGED <<task, auth, authUsed, record, idem, attempts, pending,
                   call, mode, runs, crashes, ghosts>>

-----------------------------------------------------------------------------
(* Users *)

\* /confirm: the confirmation is taken, and the plan run with the
\* acknowledgement if the task is still READY.
Confirm(r) ==
    /\ mode = "up" /\ pending
    /\ pending' = FALSE
    /\ Start(r, TRUE)

ConfirmTooLate ==
    /\ mode = "up" /\ pending /\ task # "READY"
    /\ pending' = FALSE
    /\ UNCHANGED <<rows, frames, call, mode, runs, crashes, ghosts>>

\* Calls by others than the runners: c goes from one read or save to the next.
Calls(c, from, to) ==
    /\ mode = "up"
    /\ call[c] = from /\ call' = [call EXCEPT ![c] = to]

\* /confirm with acknowledge = false
Decline(c) ==
    /\ pending /\ pending' = FALSE
    /\ Calls(c, "none", "cancel")
    /\ UNCHANGED <<rows, frames, mode, runs, crashes, ghosts>>

\* Orchestrator.cancel_task: its own list of states instead of the table.
Cancel(c) ==
    /\ task \notin TERMINAL_STATES \cup {"FAILED", "BLOCKED"}
    /\ Calls(c, "none", "CANCELLED")
    /\ UNCHANGED <<rows, pending, frames, mode, runs, crashes, ghosts>>

\* advance(event) reads the task, and raises where the event is illegal.
CallReads(c) ==
    /\ call[c] \in Events
    /\ \/ \E s \in next_state(task, call[c]) : Calls(c, call[c], s)
       \/ next_state(task, call[c]) = {} /\ Calls(c, call[c], "none")
    /\ UNCHANGED <<rows, pending, frames, mode, runs, crashes, ghosts>>

\* ... and saves, whatever the task has become since.
CallSaves(c) ==
    /\ call[c] \in TaskState
    /\ task' = call[c]
    /\ Calls(c, call[c], "none")
    /\ UNCHANGED <<plan, auth, authUsed, record, idem, attempts, pending, frames,
                   mode, runs, crashes, ghosts>>

-----------------------------------------------------------------------------
(* RecoveryService *)

\* RetryController.can_retry and RecoveryAuthority.assert_can
CanRetry == attempts < MaxAttempts

\* begin_recovery counts the attempt rows of a FAILED task.
BeginRecovery(c) ==
    /\ task = "FAILED"
    /\ CanRetry
    /\ auth # 0
    /\ \E k \in Keys : record[k] # "NONE"
    /\ Calls(c, "none", "counted")
    /\ UNCHANGED <<rows, pending, frames, mode, runs, crashes, ghosts>>

\* It commits its attempt row; advance(retry) is next.
SaveAttempt(c) ==
    /\ Calls(c, "counted", "retry")
    /\ attempts' = attempts + 1
    /\ UNCHANGED <<task, plan, auth, authUsed, record, idem, pending, frames, mode,
                   runs, crashes, ghosts>>

\* resolve_recovery: the compensator restored the outside world, or did not.
ResolveRecovery(c) ==
    /\ task = "RECOVERING" /\ attempts > 0 /\ auth # 0
    /\ \E e \in {"recovered", "recovery_failed"} : Calls(c, "none", e)
    /\ UNCHANGED <<rows, pending, frames, mode, runs, crashes, ghosts>>

Stabilize(c) ==
    /\ task = "STABILIZING"
    /\ Calls(c, "none", "stabilized")
    /\ UNCHANGED <<rows, pending, frames, mode, runs, crashes, ghosts>>

ResolveBlocked(c) ==
    /\ task = "BLOCKED" /\ auth # 0
    /\ \E e \in {"unblock", "cancel"} : Calls(c, "none", e)
    /\ UNCHANGED <<rows, pending, frames, mode, runs, crashes, ghosts>>

\* Seeded fault: VERIFYING is not swept.
StrandedEvent_NoVerifying ==
    [CREATED |-> "cancel", PLANNING |-> "cancel", READY |-> "cancel",
     RUNNING |-> "execution_unknown", RECOVERING |-> "recovery_failed"]

\* The event reconcile_stranded_tasks sends a task it found in a state; the
\* other states are skipped.
StrandedEvent ==
    [CREATED |-> "cancel", PLANNING |-> "cancel", READY |-> "cancel",
     RUNNING |-> "execution_unknown", VERIFYING |-> "verification_failed",
     RECOVERING |-> "recovery_failed"]

\* build_runtime ends with reconcile_stranded_tasks, before anything else runs.
BootReconcile ==
    /\ mode = "boot"
    /\ IF task \in DOMAIN StrandedEvent
       THEN task' \in next_state(task, StrandedEvent[task])
       ELSE UNCHANGED task
    /\ mode' = "up"
    /\ UNCHANGED <<plan, auth, authUsed, record, idem, attempts, pending, frames,
                   call, runs, crashes, ghosts>>

\* SheaApp.reconcile, called by the embedding program at any time: the event
\* is chosen from the state in the listing, advance reads the task again.
Reconcile(c) ==
    /\ LiveReconcile
    /\ task \in DOMAIN StrandedEvent
    /\ Calls(c, "none", StrandedEvent[task])
    /\ UNCHANGED <<rows, pending, frames, mode, runs, crashes, ghosts>>

Crash ==
    /\ crashes < MaxCrashes
    /\ crashes' = crashes + 1
    /\ mode' = "boot"
    /\ pending' = FALSE
    /\ call' = [c \in Callers |-> "none"]
    /\ pc' = [r \in Runners |-> "idle"]
    /\ copy' = [r \in Runners |-> NewPlan]
    /\ at' = [r \in Runners |-> 1]
    /\ ack' = [r \in Runners |-> FALSE]
    /\ result' = [r \in Runners |-> "NONE"]
    /\ goal' = [r \in Runners |-> "NONE"]
    /\ UNCHANGED <<rows, runs, ghosts>>

RunnerStep(r) ==
    \/ SetRunning(r)
    \/ Decide(r) \/ Authorize(r) \/ AskUser(r) \/ DecideRaises(r)
    \/ ExecuteChecks(r) \/ ExecuteRaises(r) \/ EnforceHalts(r)
    \/ Reserve(r) \/ ReserveRefused(r) \/ SupervisorRaises(r) \/ Invoke(r)
    \/ ScanPasses(r) \/ ScanHalts(r) \/ Halt(r)
    \/ RecordReads(r) \/ RecordOutcome(r) \/ RecordRaises(r)
    \/ \E ok \in BOOLEAN : Verify(r, ok)
    \/ SaveVerdict(r) \/ VerifyRaises(r)
    \/ SetCompleted(r) \/ FailStep(r)

CallStep(c) ==
    \/ Decline(c) \/ Cancel(c)
    \/ BeginRecovery(c) \/ SaveAttempt(c)
    \/ ResolveRecovery(c) \/ Stabilize(c) \/ ResolveBlocked(c) \/ Reconcile(c)
    \/ CallReads(c) \/ CallSaves(c)

Next ==
    \/ \E r \in Runners : Run(r) \/ RunnerStep(r) \/ Confirm(r)
    \/ \E c \in Callers : CallStep(c)
    \/ ConfirmTooLate
    \/ BootReconcile \/ Crash

Spec == Init /\ [][Next]_vars

-----------------------------------------------------------------------------
(* Properties *)

\* Through retries, confirmations, live reconciliation and restarts, the
\* tool behind one idempotency key changes the outside world at most once.
EffectAtMostOnce == \A k \in Keys : effect[k] <= 1

\* A COMPLETED task had every step of its plan confirmed by a verifier, even
\* when several runs, each with its own copy of the plan, did the work.
CompletedMeansAllVerified ==
    task = "COMPLETED" => \A s \in Steps : verified[s]

\* A step that a later run will skip as COMPLETED really was verified.
SkippedStepsAreVerified ==
    \A s \in Steps : plan[s] = "COMPLETED" => verified[s]

\* "Consume one-shot auth only on durable SUCCESS" (execution/service.py:460):
\* the authorization on file is used only if the record of its step says so.
ConsumedMeansSuccess ==
    authUsed => auth # 0 /\ record[StepKey[auth]] = "SUCCESS"

\* "Retries are bounded by `RetryController` (backed by `RetryPolicy.
\* max_attempts`), counted from persisted RecoveryAttempt rows"
\* (recovery/service.py:102): the rows never outnumber max_attempts.  It
\* does not hold, and no run checks it: two calls of begin_recovery that both
\* count before either saves break it.
RecoveryWithinBudget == attempts <= MaxAttempts

\* A restart leaves no task in a state that only the dead process could have
\* moved on: what comes up is done, waits for a decision (FAILED, BLOCKED), or
\* is STABILIZING, which the reconciliation skips and stabilize() still ends.
RestartSettlesTask ==
    [][mode = "boot" /\ mode' = "up" =>
          task' \in TERMINAL_STATES \cup {"FAILED", "BLOCKED", "STABILIZING"}]_vars

\* "Skip steps already COMPLETED (resume-friendly)": a completed step is
\* never persisted as anything else again.  Proved for one runner; the stale plan
\* of a second one breaks it.
CompletedStepsStay ==
    [][\A s \in Steps : plan[s] = "COMPLETED" => plan'[s] = "COMPLETED"]_vars
=============================================================================
