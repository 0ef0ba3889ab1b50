--------------------------- MODULE Orchestrator ----------------------------
(***************************************************************************)
(* Orchestrator (shea/core/orchestrator.py) over the row of one task.      *)
(* Every operation reads the whole row (get_task), decides on that copy    *)
(* and later writes the whole row back (SqliteTaskRepository.save, an      *)
(* upsert of every column); no lock or version check spans the two, so     *)
(* each is an action and other callers may act in between.  The row and    *)
(* its audit event are written in one unit of work.                        *)
(*                                                                         *)
(* Abstracted: timestamps, profile snapshot, the event-bus notifications   *)
(* sent after the commit, the audit events of rejected attempts.           *)
(***************************************************************************)
EXTENDS Naturals, Sequences, TaskStates

CONSTANTS
    Callers,   \* threads calling the orchestrator
    Plans,     \* plan ids
    NoPlan,
    MaxTrail   \* bound on the audited transitions of one behaviour

ASSUME NoPlanAssumption == NoPlan \notin Plans
ASSUME MaxTrailAssumption == MaxTrail \in Nat

VARIABLES
    state, planId,   \* the row of the task; state "NONE" before create_task
    trail,           \* the task.transition audit events: <<from, event, to>>
    frame            \* frame[c]: the operation c is in, with its row copy

vars == <<state, planId, trail, frame>>

NoFrame == [op |-> "idle", state |-> "NONE", planId |-> NoPlan]

Ops == {"advance", "attach_plan", "cancel_task"}

TypeOK ==
    /\ state \in TaskState \cup {"NONE"}
    /\ planId \in Plans \cup {NoPlan}
    /\ trail \in Seq(TRANSITIONS)
    /\ frame \in [Callers -> [op : Ops \cup {"idle"},
                              state : TaskState \cup {"NONE"},
                              planId : Plans \cup {NoPlan}]]

Init ==
    /\ state = "NONE" /\ planId = NoPlan
    /\ trail = <<>>
    /\ frame = [c \in Callers |-> NoFrame]

create_task ==
    /\ state = "NONE"
    /\ state' = "CREATED"
    /\ UNCHANGED <<planId, trail, frame>>

\* get_task, the first line of every operation.
get_task(c, op) ==
    /\ frame[c] = NoFrame /\ state # "NONE"
    /\ frame' = [frame EXCEPT ![c] = [op |-> op, state |-> state, planId |-> planId]]
    /\ UNCHANGED <<state, planId, trail>>

Return(c) == frame' = [frame EXCEPT ![c] = NoFrame]

\* save writes the caller's copy of the row with one field changed.
save(s, p) == state' = s /\ planId' = p

\* Seeded fault: the row is saved without its audit event.
advance_Unaudited(c, event) ==
    /\ frame[c].op = "advance"
    /\ Len(trail) < MaxTrail
    /\ \E s \in next_state(frame[c].state, event) : save(s, frame[c].planId)
    /\ Return(c)
    /\ UNCHANGED trail

\* advance: the copy is moved by the table and saved with its audit event.
advance(c, event) ==
    /\ frame[c].op = "advance"
    /\ Len(trail) < MaxTrail
    /\ \E s \in next_state(frame[c].state, event) :
        /\ save(s, frame[c].planId)
        /\ trail' = Append(trail, <<frame[c].state, event, s>>)
    /\ Return(c)

\* advance on an illegal event: audited as rejected, then raised; the row
\* is not written.
advance_illegal(c, event) ==
    /\ frame[c].op = "advance"
    /\ next_state(frame[c].state, event) = {}
    /\ Return(c)
    /\ UNCHANGED <<state, planId, trail>>

attach_plan(c, p) ==
    /\ frame[c].op = "attach_plan"
    /\ save(frame[c].state, p)
    /\ Return(c)
    /\ UNCHANGED trail

\* Seeded fault: only a task already CANCELLED is left alone.
Uncancellable_Narrow == {"CANCELLED"}

\* The states in which cancel_task returns the task as it is.
Uncancellable == TERMINAL_STATES \cup {"FAILED", "BLOCKED"}

\* cancel_task assigns the state itself: no table, no audit event.
cancel_task(c) ==
    /\ frame[c].op = "cancel_task"
    /\ IF frame[c].state \in Uncancellable
       THEN UNCHANGED <<state, planId>>
       ELSE save("CANCELLED", frame[c].planId)
    /\ Return(c)
    /\ UNCHANGED trail

\* The process dies: what was not committed is gone.
Crash ==
    /\ \E c \in Callers : frame[c] # NoFrame
    /\ frame' = [c \in Callers |-> NoFrame]
    /\ UNCHANGED <<state, planId, trail>>

\* A thread that read the row goes on with its operation.
Proceed(c) ==
    \/ \E e \in Events : advance(c, e) \/ advance_illegal(c, e)
    \/ \E p \in Plans : attach_plan(c, p)
    \/ cancel_task(c)

Next ==
    \/ create_task
    \/ \E c \in Callers :
        \/ \E op \in Ops : get_task(c, op)
        \/ Proceed(c)
    \/ Crash

Spec == Init /\ [][Next]_vars

-----------------------------------------------------------------------------
(* Properties *)

\* "A task that reaches one of these is done, one way or another, and stays
\* there" (transitions.py:5): no operation moves a task out of a terminal
\* state.  It needs both the table and cancel_task's own list.  A second caller
\* breaks it: its save of a row it read earlier revives a task that has ended.
TerminalStays ==
    [][(state \in TERMINAL_STATES) => (state' = state)]_vars

\* The audit trail explains the row: replayed from CREATED it is one
\* unbroken path, and it ends where the task is, unless cancel_task (which
\* writes no audit event) ended the task.
TrailReplays ==
    /\ \A i \in 1 .. Len(trail) :
        trail[i][1] = IF i = 1 THEN "CREATED" ELSE trail[i - 1][3]
    /\ state \in {"NONE", "CANCELLED",
                  IF trail = <<>> THEN "CREATED" ELSE trail[Len(trail)][3]}
=============================================================================
