---------------------------- MODULE TaskStates -----------------------------
(***************************************************************************)
(* The task state machine of shea/state_machine/transitions.py: its states *)
(* and its table of legal moves, shared by every module that moves a task. *)
(***************************************************************************)

TERMINAL_STATES == {"COMPLETED", "CANCELLED", "SECURITY_HALT"}

TaskState ==
    TERMINAL_STATES \cup
    {"CREATED", "PLANNING", "READY", "RUNNING", "VERIFYING", "FAILED",
     "RECOVERING", "STABILIZING", "BLOCKED"}

\* <<state, event, next state>>, row by row.
TRANSITIONS ==
    { <<"CREATED", "start_planning", "PLANNING">>,
      <<"CREATED", "cancel", "CANCELLED">>,
      <<"PLANNING", "plan_ready", "READY">>,
      <<"PLANNING", "plan_failed", "FAILED">>,
      <<"PLANNING", "block", "BLOCKED">>,
      <<"PLANNING", "cancel", "CANCELLED">>,
      <<"READY", "authorize_and_run", "RUNNING">>,
      <<"READY", "block", "BLOCKED">>,
      <<"READY", "cancel", "CANCELLED">>,
      <<"RUNNING", "execution_complete", "VERIFYING">>,
      <<"RUNNING", "execution_failed", "FAILED">>,
      <<"RUNNING", "execution_unknown", "BLOCKED">>,
      <<"RUNNING", "security_halt", "SECURITY_HALT">>,
      <<"RUNNING", "cancel", "CANCELLED">>,
      <<"VERIFYING", "verified", "COMPLETED">>,
      <<"VERIFYING", "step_verified", "READY">>,
      <<"VERIFYING", "verification_failed", "FAILED">>,
      <<"FAILED", "retry", "RECOVERING">>,
      <<"RECOVERING", "recovered", "STABILIZING">>,
      <<"RECOVERING", "recovery_failed", "FAILED">>,
      <<"STABILIZING", "stabilized", "READY">>,
      <<"STABILIZING", "destabilized", "FAILED">>,
      <<"BLOCKED", "unblock", "READY">>,
      <<"BLOCKED", "cancel", "CANCELLED">> }

Events == {t[2] : t \in TRANSITIONS}

\* next_state: the singleton of the new state, or {} where the code raises
\* IllegalTransitionError.
next_state(current, event) ==
    {t[3] : t \in {u \in TRANSITIONS : u[1] = current /\ u[2] = event}}
=============================================================================
