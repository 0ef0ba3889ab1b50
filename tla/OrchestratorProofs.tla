------------------------- MODULE OrchestratorProofs ------------------------
(***************************************************************************)
(* The orchestrator with one caller at a time: its copy of the row is then *)
(* the row, which is what makes read-decide-write safe and what the two    *)
(* properties need on top of themselves (CopyInv).                         *)
(***************************************************************************)
EXTENDS Orchestrator, TLAPS

Serial == \A c, d \in Callers : c = d

\* A caller inside an operation holds the row as it is.
CopyInv ==
    \A c \in Callers : frame[c].op # "idle" =>
        frame[c].state = state /\ frame[c].planId = planId /\ state # "NONE"

\* The trail starts only after create_task.
TrailInv == state = "NONE" => trail = <<>>

Inv == TypeOK /\ CopyInv /\ TrailInv /\ TrailReplays

-----------------------------------------------------------------------------
(* Facts about the table. *)

LEMMA NextStateLegal ==
    ASSUME NEW s, NEW e, NEW t \in next_state(s, e)
    PROVE  <<s, e, t>> \in TRANSITIONS
BY DEF next_state, TRANSITIONS

LEMMA TransitionStates ==
    ASSUME NEW t \in TRANSITIONS
    PROVE  t[1] \in TaskState \ TERMINAL_STATES /\ t[3] \in TaskState
BY DEF TRANSITIONS, TaskState, TERMINAL_STATES

LEMMA NextStateTyped ==
    ASSUME NEW s, NEW e, NEW t \in next_state(s, e)
    PROVE  s \notin TERMINAL_STATES /\ t \in TaskState
<1>1. <<s, e, t>> \in TRANSITIONS
  BY NextStateLegal
<1> QED  BY <1>1, TransitionStates

-----------------------------------------------------------------------------

LEMMA InitInv == Init => Inv
BY DEF Init, Inv, TypeOK, CopyInv, TrailInv, TrailReplays, NoFrame

LEMMA CreateInv ==
    ASSUME Inv, create_task
    PROVE  Inv'
BY DEF Inv, TypeOK, CopyInv, TrailInv, TrailReplays, create_task, TaskState

LEMMA GetInv ==
    ASSUME Serial, Inv, NEW c \in Callers, NEW op \in Ops, get_task(c, op)
    PROVE  Inv'
<1> USE DEF Inv, TypeOK, get_task
<1>1. TypeOK'
  OBVIOUS
<1>2. CopyInv'
  BY DEF CopyInv, Serial
<1>3. TrailInv' /\ TrailReplays'
  BY DEF TrailInv, TrailReplays
<1> QED  BY <1>1, <1>2, <1>3

\* The transition appended to the trail starts where the trail ended.
LEMMA AdvanceInv ==
    ASSUME Serial, Inv, NEW c \in Callers, NEW e \in Events, advance(c, e)
    PROVE  Inv'
<1> USE DEF Inv
<1>1. PICK s \in next_state(frame[c].state, e) :
        /\ state' = s /\ planId' = frame[c].planId
        /\ trail' = Append(trail, <<frame[c].state, e, s>>)
  BY DEF advance, save
<1>2. /\ frame[c].op = "advance" /\ frame[c].state = state
      /\ frame[c].planId = planId /\ state # "NONE"
      /\ frame' = [frame EXCEPT ![c] = NoFrame]
  BY DEF advance, Return, CopyInv
<1>3. /\ <<state, e, s>> \in TRANSITIONS
      /\ s \in TaskState /\ state \notin TERMINAL_STATES /\ s # "NONE"
  BY <1>2, NextStateLegal, NextStateTyped DEF TaskState, TERMINAL_STATES
<1>4. trail \in Seq(TRANSITIONS) /\ trail' = Append(trail, <<state, e, s>>)
  BY <1>1, <1>2 DEF TypeOK
<1>5. TypeOK'
  BY <1>1, <1>2, <1>3, <1>4 DEF TypeOK, NoFrame
<1>6. CopyInv' /\ TrailInv'
  BY <1>1, <1>2, <1>3 DEF CopyInv, TrailInv, Serial, NoFrame, TypeOK
<1>7. TrailReplays'
  <2>1. state = IF trail = <<>> THEN "CREATED" ELSE trail[Len(trail)][3]
    BY <1>2, <1>3 DEF TrailReplays, TERMINAL_STATES
  <2>2. /\ Len(trail') = Len(trail) + 1 /\ Len(trail) \in Nat
        /\ trail'[Len(trail) + 1] = <<state, e, s>>
        /\ \A i \in 1 .. Len(trail) : trail'[i] = trail[i]
        /\ trail = <<>> <=> Len(trail) = 0
        /\ trail' # <<>>
    BY <1>4
  <2>3. ASSUME NEW i \in 1 .. Len(trail')
        PROVE  trail'[i][1] = IF i = 1 THEN "CREATED" ELSE trail'[i - 1][3]
    <3>1. CASE i \in 1 .. Len(trail)
      BY <2>2, <3>1 DEF TrailReplays
    <3>2. CASE i = Len(trail) + 1
      BY <2>1, <2>2, <3>2
    <3> QED  BY <2>2, <3>1, <3>2
  <2>4. state' = trail'[Len(trail')][3]
    BY <1>1, <2>2
  <2> QED  BY <2>2, <2>3, <2>4 DEF TrailReplays
<1> QED  BY <1>5, <1>6, <1>7

\* What a rejected advance, attach_plan and cancel_task have in common: the
\* row keeps its state or becomes CANCELLED, and the trail is not written.
LEMMA UntrailedInv ==
    ASSUME Serial, Inv, NEW c \in Callers, frame[c].op # "idle", Return(c),
           state' \in {state, "CANCELLED"}, planId' \in Plans \cup {NoPlan},
           UNCHANGED trail
    PROVE  Inv'
<1> USE DEF Inv, Return
<1>1. TypeOK'
  BY DEF TypeOK, NoFrame, TaskState, TERMINAL_STATES
<1>2. CopyInv' /\ TrailInv'
  BY DEF TypeOK, CopyInv, TrailInv, Serial, NoFrame
<1>3. TrailReplays'
  BY DEF TrailReplays
<1> QED  BY <1>1, <1>2, <1>3

LEMMA OtherInv ==
    ASSUME Serial, Inv, NEW c \in Callers,
           \/ \E e \in Events : advance_illegal(c, e)
           \/ \E p \in Plans : attach_plan(c, p)
           \/ cancel_task(c)
    PROVE  Inv'
<1>1. /\ frame[c].op # "idle" /\ Return(c) /\ UNCHANGED trail
      /\ state' \in {state, "CANCELLED"} /\ planId' \in Plans \cup {NoPlan}
  BY DEF Inv, TypeOK, CopyInv, advance_illegal, attach_plan, cancel_task, save
<1> QED  BY <1>1, UntrailedInv

LEMMA CrashInv ==
    ASSUME Inv, Crash
    PROVE  Inv'
BY DEF Inv, TypeOK, CopyInv, TrailInv, TrailReplays, Crash, NoFrame

LEMMA NextInv ==
    ASSUME Serial, Inv, [Next]_vars
    PROVE  Inv'
<1>1. CASE UNCHANGED vars
  BY <1>1 DEF Inv, TypeOK, CopyInv, TrailInv, TrailReplays, vars
<1> QED  BY <1>1, CreateInv, GetInv, AdvanceInv, OtherInv, CrashInv DEF Next, Proceed

\* With one caller at a time, the audit trail replayed from CREATED leads to
\* the persisted state of the task.
THEOREM SerialTrail ==
    ASSUME Serial
    PROVE  Spec => []TrailReplays
<1>1. Inv /\ [Next]_vars => Inv'
  BY NextInv, Serial
<1>2. Inv => TrailReplays
  BY DEF Inv
<1> QED  BY InitInv, <1>1, <1>2, PTL DEF Spec

\* The row, the copies of the callers and the trail keep their types.
THEOREM SerialTypes ==
    ASSUME Serial
    PROVE  Spec => []TypeOK
<1>1. Inv /\ [Next]_vars => Inv'
  BY NextInv, Serial
<1>2. Inv => TypeOK
  BY DEF Inv
<1> QED  BY InitInv, <1>1, <1>2, PTL DEF Spec

\* With one caller at a time, no operation moves a task out of a terminal
\* state: neither an event of the table nor cancel_task.
THEOREM SerialTerminal ==
    ASSUME Serial
    PROVE  Spec => TerminalStays
<1> DEFINE Stays == (state \in TERMINAL_STATES) => (state' = state)
<1>1. Inv /\ [Next]_vars => Inv'
  BY NextInv, Serial
<1>2. ASSUME Inv, Next PROVE Stays
  <2>1. CASE create_task
    BY <2>1 DEF create_task, TERMINAL_STATES
  <2>2. ASSUME NEW c \in Callers, NEW e \in Events, advance(c, e) PROVE Stays
    <3>1. frame[c].state = state
      BY <1>2, <2>2 DEF Inv, CopyInv, advance
    <3> QED  BY <2>2, <3>1, NextStateTyped DEF advance
  <2>3. ASSUME NEW c \in Callers, cancel_task(c) PROVE Stays
    <3>1. frame[c].state = state
      BY <1>2, <2>3 DEF Inv, CopyInv, cancel_task
    <3> QED  BY <2>3, <3>1 DEF cancel_task, Uncancellable
  <2>4. ASSUME NEW c \in Callers, NEW p \in Plans, attach_plan(c, p) PROVE Stays
    BY <1>2, <2>4 DEF Inv, CopyInv, attach_plan, save
  <2>5. CASE UNCHANGED state
    BY <2>5
  <2> QED  BY <1>2, <2>1, <2>2, <2>3, <2>4, <2>5
              DEF Next, Proceed, get_task, advance_illegal, Crash
<1>3. Inv /\ [Next]_vars => [Stays]_vars
  BY <1>2
<1> QED  BY InitInv, <1>1, <1>3, PTL DEF Spec, TerminalStays

=============================================================================
