---------------------------- MODULE IntakeProofs ----------------------------
(***************************************************************************)
(* Proofs about Intake, for any number of requests, crashes and sweeps.    *)
(*                                                                         *)
(* The invariant follows one request through its handler: which rows exist *)
(* at each place of create_and_plan and answer_conversationally, and what  *)
(* can have become of them once the handler has returned or died.          *)
(***************************************************************************)
EXTENDS Intake, TLAPS

Parsing   == {"new", "open", "match", "classify", "reclassify"}
Answering == {"respond", "remember"}
Planning  == {"start", "build", "commit"}

\* Before and besides planning there is no task; a handler at work has
\* returned nothing.
NoTaskYet(r) ==
    /\ pc[r] \in Parsing \cup {"route"} \cup Answering => task[r] = "NONE"
    /\ pc[r] \in Parsing \cup {"route"} \cup Answering \cup Planning => result[r] = "none"
    /\ pc[r] \in Parsing \cup {"route"} => ~response[r]
    /\ pc[r] = "remember" => response[r]
    /\ pc[r] \notin {"new", "open", "reply", "done", "gone"} => request[r]
    /\ pc[r] \in {"route"} \cup Answering \cup Planning => intent[r]
    /\ pc[r] = "route" /\ draft[r].type = "task" => ~draft[r].reply

\* A sweep may cancel the task under its planner, nothing else moves it.
InPlanning(r) ==
    /\ pc[r] \in Planning => ~plan[r]
    /\ pc[r] = "start" => task[r] \in {"CREATED", "CANCELLED"}
    /\ pc[r] \in {"build", "commit"} => task[r] \in {"PLANNING", "CANCELLED"}

\* The rows of a task, whatever became of its handler.
Rows(r) ==
    /\ task[r] \in {"NONE", "CREATED", "PLANNING", "READY", "FAILED", "CANCELLED"}
    /\ task[r] # "NONE" => intent[r] /\ ~response[r] /\ ~draft[r].reply
    /\ task[r] = "READY" => plan[r]
    /\ plan[r] => task[r] \in {"READY", "CANCELLED"} /\ result[r] = "ready"
    /\ result[r] = "message" => response[r]
    /\ turn[r] => request[r] /\ response[r] /\ ~viaApi[r]
    /\ pc[r] \in {"reply", "done"} /\ task[r] \in {"CREATED", "PLANNING"} => outage[r]

Cell(r) == NoTaskYet(r) /\ InPlanning(r) /\ Rows(r)

Inv == TypeOK /\ \A r \in Requests : Cell(r)

-----------------------------------------------------------------------------

\* The moves of the table that planning uses, and that no event moves a
\* cancelled task.
LEMMA PlanningMoves ==
    /\ next_state("CREATED", "start_planning") = {"PLANNING"}
    /\ next_state("PLANNING", "plan_failed") = {"FAILED"}
    /\ next_state("PLANNING", "plan_ready") = {"READY"}
    /\ \A e : next_state("CANCELLED", e) = {}
<1>1. /\ <<"CREATED", "start_planning", "PLANNING">> \in TRANSITIONS
      /\ <<"PLANNING", "plan_failed", "FAILED">> \in TRANSITIONS
      /\ <<"PLANNING", "plan_ready", "READY">> \in TRANSITIONS
  BY DEF TRANSITIONS
<1>2. \A t \in TRANSITIONS :
        /\ t[1] = "CREATED" /\ t[2] = "start_planning" => t[3] = "PLANNING"
        /\ t[1] = "PLANNING" /\ t[2] = "plan_failed" => t[3] = "FAILED"
        /\ t[1] = "PLANNING" /\ t[2] = "plan_ready" => t[3] = "READY"
        /\ t[1] # "CANCELLED"
  BY DEF TRANSITIONS
<1>3. next_state("CREATED", "start_planning") = {"PLANNING"}
  BY <1>1, <1>2 DEF next_state
<1>4. next_state("PLANNING", "plan_failed") = {"FAILED"}
  BY <1>1, <1>2 DEF next_state
<1>5. next_state("PLANNING", "plan_ready") = {"READY"}
  BY <1>1, <1>2 DEF next_state
<1>6. \A e : next_state("CANCELLED", e) = {}
  BY <1>2 DEF next_state
<1> QED
  BY <1>3, <1>4, <1>5, <1>6

\* A draft is stored, or found too unclear.
LEMMA UnderstoodType ==
    ASSUME TypeOK, NEW r \in Requests, NEW d \in Drafts, Understood(r, d),
           UNCHANGED <<fixed, process, turn>>
    PROVE  TypeOK'
<1>1. draft' \in [Requests -> Drafts]
  BY DEF TypeOK, Understood
<1>2. pc' \in [Requests -> PCs] /\ result' \in [Requests -> Returned]
  BY DEF TypeOK, Understood, Return, Goto, PCs, Returned
<1>3. intent' \in [Requests -> BOOLEAN]
  BY DEF TypeOK, Understood, Set
<1> QED
  BY <1>1, <1>2, <1>3 DEF TypeOK, Understood, fixed, process

\* A request of which nothing changes keeps its part of the invariant.
LEMMA CellUnchanged ==
    ASSUME NEW q \in Requests, Cell(q), viaApi' = viaApi,
           request'[q] = request[q], intent'[q] = intent[q], response'[q] = response[q],
           task'[q] = task[q], plan'[q] = plan[q], pc'[q] = pc[q], draft'[q] = draft[q],
           result'[q] = result[q], turn'[q] = turn[q], outage'[q] = outage[q]
    PROVE  Cell(q)'
BY DEF Cell, NoTaskYet, InPlanning, Rows

\* The handlers start with nothing.
LEMMA InitInv ==
    Init => Inv
BY BoundsAssumption
   DEF Init, Inv, TypeOK, Cell, NoTaskYet, InPlanning, Rows, None, NoDraft, Drafts, PCs, Returned,
       TaskState, TERMINAL_STATES, Parsing, Answering, Planning

\* The message is stored.
LEMMA ReceiveInv ==
    ASSUME Inv, NEW r \in Requests, Receive(r)
    PROVE  Inv'
<1>1. TypeOK'
  BY DEF Inv, Cell, InPlanning, Receive, Set, At, Goto, rows, fixed, process, TypeOK, PCs,
     Returned, TaskState, TERMINAL_STATES
<1>2. ASSUME NEW q \in Requests, q # r PROVE Cell(q)'
  BY <1>2, CellUnchanged DEF Inv, TypeOK, Receive, Set, At, Goto, rows, fixed, process
<1>3. Cell(r)'
  BY DEF Inv, Receive, Set, At, Goto, rows, fixed, process, TypeOK, Cell, NoTaskYet,
     InPlanning, Rows, Parsing, Answering,
     Planning
<1> QED
  BY <1>1, <1>2, <1>3 DEF Inv

\* The request is stored.
LEMMA open_requestInv ==
    ASSUME Inv, NEW r \in Requests, open_request(r)
    PROVE  Inv'
<1>1. TypeOK'
  BY DEF Inv, Cell, InPlanning, open_request, Set, At, Goto, rows, fixed, process, TypeOK, PCs,
     Returned, TaskState, TERMINAL_STATES
<1>2. ASSUME NEW q \in Requests, q # r PROVE Cell(q)'
  BY <1>2, CellUnchanged DEF Inv, TypeOK, open_request, Set, At, Goto, rows, fixed, process
<1>3. Cell(r)'
  BY DEF Inv, open_request, Set, At, Goto, rows, fixed, process, TypeOK, Cell, NoTaskYet,
     InPlanning, Rows, Parsing, Answering,
     Planning
<1> QED
  BY <1>1, <1>2, <1>3 DEF Inv

\* The reply is stored.
LEMMA SaveReplyInv ==
    ASSUME Inv, NEW r \in Requests, SaveReply(r)
    PROVE  Inv'
<1>1. TypeOK'
  BY DEF Inv, Cell, InPlanning, SaveReply, Set, At, Goto, rows, fixed, process, TypeOK, PCs,
     Returned, TaskState, TERMINAL_STATES
<1>2. ASSUME NEW q \in Requests, q # r PROVE Cell(q)'
  BY <1>2, CellUnchanged DEF Inv, TypeOK, SaveReply, Set, At, Goto, rows, fixed, process
<1>3. Cell(r)'
  BY DEF Inv, SaveReply, Set, At, Goto, rows, fixed, process, TypeOK, Cell, NoTaskYet,
     InPlanning, Rows, Parsing, Answering,
     Planning
<1> QED
  BY <1>1, <1>2, <1>3 DEF Inv

\* A rule understands the request.
LEMMA MatchInv ==
    ASSUME Inv, NEW r \in Requests, Match(r)
    PROVE  Inv'
<1>1. TypeOK'
  BY UnderstoodType DEF Inv, Match
<1>2. ASSUME NEW q \in Requests, q # r PROVE Cell(q)'
  BY <1>2, CellUnchanged DEF Inv, TypeOK, Match, Understood, Return, Set, Drafts, At, Goto,
     rows, fixed, process
<1>3. Cell(r)'
  BY DEF Inv, Match, Understood, Return, Set, Drafts, At, Goto, rows, fixed, process, TypeOK,
     Cell, NoTaskYet, InPlanning, Rows, Parsing, Answering,
     Planning
<1> QED
  BY <1>1, <1>2, <1>3 DEF Inv

\* No rule does.
LEMMA NoMatchInv ==
    ASSUME Inv, NEW r \in Requests, NoMatch(r)
    PROVE  Inv'
<1>1. TypeOK'
  BY DEF Inv, Cell, InPlanning, NoMatch, Fails, Return, At, Goto, rows, fixed, process, TypeOK,
     PCs, Returned, TaskState, TERMINAL_STATES
<1>2. ASSUME NEW q \in Requests, q # r PROVE Cell(q)'
  BY <1>2, CellUnchanged DEF Inv, TypeOK, NoMatch, Fails, Return, At, Goto, rows, fixed, process
<1>3. Cell(r)'
  BY DEF Inv, NoMatch, Fails, Return, At, Goto, rows, fixed, process, TypeOK, Cell, NoTaskYet,
     InPlanning, Rows, Parsing, Answering,
     Planning
<1> QED
  BY <1>1, <1>2, <1>3 DEF Inv

\* The model understands it, or does not.
LEMMA ClassifyInv ==
    ASSUME Inv, NEW r \in Requests, Classify(r)
    PROVE  Inv'
<1>1. TypeOK'
  <2>1. CASE \E d \in Drafts : ModelDraft(d) /\ Understood(r, d)
    BY <2>1, UnderstoodType DEF Inv, Classify
  <2>2. CASE ModelRaises(r) \/ (Goto(r, "reclassify") /\ UNCHANGED <<rows, draft, result, outage>>)
    BY <2>2 DEF Inv, Classify, ModelRaises, Fails, Return, Set, Goto, rows, fixed, process,
       TypeOK,
                PCs, Returned
  <2> QED
    BY <2>1, <2>2 DEF Classify
<1>2. ASSUME NEW q \in Requests, q # r PROVE Cell(q)'
  BY <1>2, CellUnchanged DEF Inv, TypeOK, Classify, ModelRaises, ModelDraft, Understood, Fails,
     Return, Set, Drafts, At, Goto, rows, fixed, process
<1>3. Cell(r)'
  BY DEF Inv, Classify, ModelRaises, ModelDraft, Understood, Fails, Return, Set, Drafts, At,
     Goto, rows, fixed, process, TypeOK, Cell, NoTaskYet, InPlanning, Rows, Parsing, Answering,
     Planning
<1> QED
  BY <1>1, <1>2, <1>3 DEF Inv

\* The model is asked again.
LEMMA ReclassifyInv ==
    ASSUME Inv, NEW r \in Requests, Reclassify(r)
    PROVE  Inv'
<1>1. TypeOK'
  <2>1. CASE \E d \in Drafts : ModelDraft(d) /\ Understood(r, d)
    BY <2>1, UnderstoodType DEF Inv, Reclassify
  <2>2. CASE ModelRaises(r) \/ (Fails(r) /\ UNCHANGED <<rows, draft, outage>>)
    BY <2>2 DEF Inv, Reclassify, ModelRaises, Fails, Return, Set, Goto, rows, fixed, process,
       TypeOK,
                PCs, Returned
  <2> QED
    BY <2>1, <2>2 DEF Reclassify
<1>2. ASSUME NEW q \in Requests, q # r PROVE Cell(q)'
  BY <1>2, CellUnchanged DEF Inv, TypeOK, Reclassify, ModelRaises, ModelDraft, Understood,
     Fails, Return, Set, Drafts, At, Goto, rows, fixed, process
<1>3. Cell(r)'
  BY DEF Inv, Reclassify, ModelRaises, ModelDraft, Understood, Fails, Return, Set, Drafts, At,
     Goto, rows, fixed, process, TypeOK, Cell, NoTaskYet, InPlanning, Rows, Parsing, Answering,
     Planning
<1> QED
  BY <1>1, <1>2, <1>3 DEF Inv

\* An answer is found or not.
LEMMA answer_conversationallyInv ==
    ASSUME Inv, NEW r \in Requests, answer_conversationally(r)
    PROVE  Inv'
<1>1. TypeOK'
  BY DEF Inv, Cell, InPlanning, answer_conversationally, ModelRaises, Fails, Return, Set, At,
     Goto, rows, fixed, process, TypeOK, PCs, Returned, TaskState, TERMINAL_STATES
<1>2. ASSUME NEW q \in Requests, q # r PROVE Cell(q)'
  BY <1>2, CellUnchanged DEF Inv, TypeOK, answer_conversationally, ModelRaises, Fails, Return,
     Set, At, Goto, rows, fixed, process
<1>3. Cell(r)'
  BY DEF Inv, answer_conversationally, ModelRaises, Fails, Return, Set, At, Goto, rows, fixed,
     process, TypeOK, Cell, NoTaskYet, InPlanning, Rows, Parsing, Answering,
     Planning
<1> QED
  BY <1>1, <1>2, <1>3 DEF Inv

\* The answer is stored.
LEMMA record_responseInv ==
    ASSUME Inv, NEW r \in Requests, record_response(r)
    PROVE  Inv'
<1>1. TypeOK'
  BY DEF Inv, Cell, InPlanning, record_response, Set, At, Goto, rows, fixed, process, TypeOK,
     PCs, Returned, TaskState, TERMINAL_STATES
<1>2. ASSUME NEW q \in Requests, q # r PROVE Cell(q)'
  BY <1>2, CellUnchanged DEF Inv, TypeOK, record_response, Set, At, Goto, rows, fixed, process
<1>3. Cell(r)'
  BY DEF Inv, record_response, Set, At, Goto, rows, fixed, process, TypeOK, Cell, NoTaskYet,
     InPlanning, Rows, Parsing, Answering,
     Planning
<1> QED
  BY <1>1, <1>2, <1>3 DEF Inv

\* The turn is announced.
LEMMA RememberInv ==
    ASSUME Inv, NEW r \in Requests, Remember(r)
    PROVE  Inv'
<1>1. TypeOK'
  BY DEF Inv, Cell, InPlanning, Remember, Set, Return, At, Goto, rows, fixed, process, TypeOK,
     PCs, Returned, TaskState, TERMINAL_STATES
<1>2. ASSUME NEW q \in Requests, q # r PROVE Cell(q)'
  BY <1>2, CellUnchanged DEF Inv, TypeOK, Remember, Set, Return, At, Goto, rows, fixed, process
<1>3. Cell(r)'
  BY DEF Inv, Remember, Set, Return, At, Goto, rows, fixed, process, TypeOK, Cell, NoTaskYet,
     InPlanning, Rows, Parsing, Answering,
     Planning
<1> QED
  BY <1>1, <1>2, <1>3 DEF Inv

\* The task is created.
LEMMA CreateTaskInv ==
    ASSUME Inv, NEW r \in Requests, CreateTask(r)
    PROVE  Inv'
<1>1. TypeOK'
  BY DEF Inv, Cell, InPlanning, CreateTask, At, Goto, rows, fixed, process, TypeOK, PCs,
     Returned, TaskState, TERMINAL_STATES
<1>2. ASSUME NEW q \in Requests, q # r PROVE Cell(q)'
  BY <1>2, CellUnchanged DEF Inv, TypeOK, CreateTask, At, Goto, rows, fixed, process
<1>3. Cell(r)'
  BY DEF Inv, CreateTask, At, Goto, rows, fixed, process, TypeOK, Cell, NoTaskYet, InPlanning,
     Rows, Parsing, Answering, Planning
<1> QED
  BY <1>1, <1>2, <1>3 DEF Inv

\* Planning starts, or finds the task cancelled.
LEMMA StartPlanningInv ==
    ASSUME Inv, NEW r \in Requests, StartPlanning(r)
    PROVE  Inv'
<1>1. TypeOK'
  BY PlanningMoves DEF Inv, Cell, InPlanning, StartPlanning, Advance, Illegal, Fails, Return,
     At, Goto, rows, fixed, process, TypeOK, PCs, Returned, TaskState, TERMINAL_STATES
<1>2. ASSUME NEW q \in Requests, q # r PROVE Cell(q)'
  BY <1>2, CellUnchanged DEF Inv, TypeOK, StartPlanning, Advance, Illegal, Fails, Return, At,
     Goto, rows, fixed, process
<1>3. Cell(r)'
  <2>1. CASE task[r] = "CREATED"
    <3>1. task'[r] = "PLANNING" /\ pc'[r] = "build" /\ result' = result
      BY <2>1, PlanningMoves DEF Inv, TypeOK, StartPlanning, Advance, Illegal, Goto
    <3> QED
      BY <2>1, <3>1 DEF Inv, StartPlanning, At, fixed, Cell, NoTaskYet, InPlanning, Rows,
         Parsing, Answering, Planning
  <2>2. CASE task[r] = "CANCELLED"
    <3>1. task' = task /\ pc'[r] \in {"reply", "done"} /\ result'[r] = "failed"
      BY <2>2, PlanningMoves DEF Inv, TypeOK, StartPlanning, Advance, Fails, Return, Goto
    <3> QED
      BY <2>2, <3>1 DEF Inv, StartPlanning, At, fixed, Cell, NoTaskYet, InPlanning, Rows,
         Parsing, Answering, Planning
  <2> QED
    BY <2>1, <2>2 DEF Inv, Cell, InPlanning, StartPlanning, At
<1> QED
  BY <1>1, <1>2, <1>3 DEF Inv

\* The plan is valid.
LEMMA BuildPlanInv ==
    ASSUME Inv, NEW r \in Requests, BuildPlan(r)
    PROVE  Inv'
<1>1. TypeOK'
  BY DEF Inv, Cell, InPlanning, BuildPlan, At, Goto, rows, fixed, process, TypeOK, PCs,
     Returned, TaskState, TERMINAL_STATES
<1>2. ASSUME NEW q \in Requests, q # r PROVE Cell(q)'
  BY <1>2, CellUnchanged DEF Inv, TypeOK, BuildPlan, At, Goto, rows, fixed, process
<1>3. Cell(r)'
  BY DEF Inv, BuildPlan, At, Goto, rows, fixed, process, TypeOK, Cell, NoTaskYet, InPlanning,
     Rows, Parsing, Answering, Planning
<1> QED
  BY <1>1, <1>2, <1>3 DEF Inv

\* The plan is refused.
LEMMA RejectPlanInv ==
    ASSUME Inv, NEW r \in Requests, RejectPlan(r)
    PROVE  Inv'
<1>1. TypeOK'
  BY PlanningMoves DEF Inv, Cell, InPlanning, RejectPlan, Advance, Illegal, Fails, Return, At,
     Goto, rows, fixed, process, TypeOK, PCs, Returned, TaskState, TERMINAL_STATES
<1>2. ASSUME NEW q \in Requests, q # r PROVE Cell(q)'
  BY <1>2, CellUnchanged DEF Inv, TypeOK, RejectPlan, Advance, Illegal, Fails, Return, At,
     Goto, rows, fixed, process
<1>3. Cell(r)'
  <2>1. pc'[r] \in {"reply", "done"} /\ result'[r] = "failed"
    BY DEF Inv, TypeOK, RejectPlan, Fails, Return, Goto
  <2>2. CASE task[r] = "PLANNING"
    <3>1. task'[r] = "FAILED"
      BY <2>2, PlanningMoves DEF Inv, TypeOK, RejectPlan, Advance, Illegal
    <3> QED
      BY <2>1, <2>2, <3>1 DEF Inv, RejectPlan, At, fixed, Cell, NoTaskYet, InPlanning, Rows,
         Parsing, Answering, Planning
  <2>3. CASE task[r] = "CANCELLED"
    <3>1. task' = task
      BY <2>3, PlanningMoves DEF RejectPlan, Advance
    <3> QED
      BY <2>1, <2>3, <3>1 DEF Inv, RejectPlan, At, fixed, Cell, NoTaskYet, InPlanning, Rows,
         Parsing, Answering, Planning
  <2> QED
    BY <2>2, <2>3 DEF Inv, Cell, InPlanning, RejectPlan, At
<1> QED
  BY <1>1, <1>2, <1>3 DEF Inv

\* Planning raises.
LEMMA PlanningBreaksInv ==
    ASSUME Inv, NEW r \in Requests, PlanningBreaks(r)
    PROVE  Inv'
<1>1. TypeOK'
  BY DEF Inv, Cell, InPlanning, PlanningBreaks, ModelRaises, Fails, Return, Set, At, Goto,
     rows, fixed, process, TypeOK, PCs, Returned, TaskState, TERMINAL_STATES
<1>2. ASSUME NEW q \in Requests, q # r PROVE Cell(q)'
  BY <1>2, CellUnchanged DEF Inv, TypeOK, PlanningBreaks, ModelRaises, Fails, Return, Set, At,
     Goto, rows, fixed, process
<1>3. Cell(r)'
  BY DEF Inv, PlanningBreaks, ModelRaises, Fails, Return, Set, At, Goto, rows, fixed, process,
     TypeOK, Cell, NoTaskYet, InPlanning, Rows, Parsing, Answering,
     Planning
<1> QED
  BY <1>1, <1>2, <1>3 DEF Inv

\* Plan and READY are committed together.
LEMMA CommitPlanInv ==
    ASSUME Inv, NEW r \in Requests, CommitPlan(r)
    PROVE  Inv'
<1>1. TypeOK'
  <2>1. task' \in [Requests -> TaskState \cup {"NONE"}] /\ plan' \in [Requests -> BOOLEAN]
    <3>1. task[r] \in {"PLANNING", "CANCELLED"}
      BY DEF Inv, Cell, InPlanning, CommitPlan, At
    <3>2. \A s \in next_state(task[r], "plan_ready") : s = "READY"
      BY <3>1, PlanningMoves
    <3> QED
      BY <3>2 DEF Inv, TypeOK, CommitPlan, Advance, Set, TaskState
  <2>2. pc' \in [Requests -> PCs] /\ result' \in [Requests -> Returned]
    BY DEF Inv, TypeOK, CommitPlan, Fails, Return, Goto, PCs, Returned
  <2> QED
    BY <2>1, <2>2 DEF Inv, TypeOK, CommitPlan, fixed, process
<1>2. ASSUME NEW q \in Requests, q # r PROVE Cell(q)'
  BY <1>2, CellUnchanged DEF Inv, TypeOK, CommitPlan, Advance, Illegal, Fails, Return, Set, At,
     Goto, rows, fixed, process
<1>3. Cell(r)'
  <2>1. CASE task[r] = "PLANNING"
    <3>1. task'[r] = "READY" /\ plan'[r] /\ pc'[r] = "done" /\ result'[r] = "ready"
      BY <2>1, PlanningMoves DEF Inv, TypeOK, CommitPlan, Advance, Illegal, Set, Return, Goto
    <3> QED
      BY <2>1, <3>1 DEF Inv, CommitPlan, At, fixed, Cell, NoTaskYet, InPlanning, Rows, Parsing,
         Answering, Planning
  <2>2. CASE task[r] = "CANCELLED"
    <3>1. task' = task /\ plan' = plan /\ pc'[r] \in {"reply", "done"} /\ result'[r] = "failed"
      BY <2>2, PlanningMoves DEF Inv, TypeOK, CommitPlan, Advance, Fails, Return, Goto
    <3> QED
      BY <2>2, <3>1 DEF Inv, CommitPlan, At, fixed, Cell, NoTaskYet, InPlanning, Rows, Parsing,
         Answering, Planning
  <2> QED
    BY <2>1, <2>2 DEF Inv, Cell, InPlanning, CommitPlan, At
<1> QED
  BY <1>1, <1>2, <1>3 DEF Inv

\* The process dies: the handlers at work are gone.
LEMMA CrashInv ==
    ASSUME Inv, Crash
    PROVE  Inv'
<1>1. TypeOK'
  BY BoundsAssumption DEF Inv, TypeOK, Crash, PCs, rows, fixed
<1>2. ASSUME NEW q \in Requests PROVE Cell(q)'
  <2>1. pc'[q] \in {pc[q], "gone"} /\ UNCHANGED <<rows, draft, result, fixed, turn, outage>>
    BY DEF Crash
  <2> QED
    BY <2>1 DEF Inv, Cell, NoTaskYet, InPlanning, Rows, rows, fixed, Parsing, Answering, Planning
<1> QED
  BY <1>1, <1>2 DEF Inv

\* A sweep, at the start or live, cancels what is not running yet.
LEMMA SweptInv ==
    ASSUME Inv, task' = Swept, NEW q \in Requests,
           UNCHANGED <<request, intent, response, plan, pc, draft, result, fixed, turn, outage>>
    PROVE  Cell(q)' /\ task'[q] \in TaskState \cup {"NONE"}
<1>1. \/ task'[q] = task[q]
      \/ task'[q] = "CANCELLED" /\ task[q] \in {"CREATED", "PLANNING", "READY"}
  BY DEF Swept
<1> QED
  BY <1>1 DEF Inv, Cell, NoTaskYet, InPlanning, Rows, fixed, Parsing, Answering, Planning,
              TypeOK, TaskState, TERMINAL_STATES

\* Start-up and SheaApp.reconcile sweep.
LEMMA SweepsInv ==
    ASSUME Inv, Boot \/ LiveSweep
    PROVE  Inv'
<1>1. ASSUME NEW q \in Requests PROVE Cell(q)' /\ task'[q] \in TaskState \cup {"NONE"}
  BY SweptInv DEF Boot, LiveSweep, fixed
<1>2. task' \in [Requests -> TaskState \cup {"NONE"}]
  BY <1>1 DEF Boot, LiveSweep, Swept
<1>3. TypeOK'
  BY <1>2, BoundsAssumption DEF Inv, TypeOK, Boot, LiveSweep, fixed
<1> QED
  BY <1>1, <1>3 DEF Inv

\* Inv is inductive.
THEOREM Invariance ==
    Spec => []Inv
<1>1. Inv /\ [Next]_vars => Inv'
  <2> SUFFICES ASSUME Inv, [Next]_vars PROVE Inv'
    OBVIOUS
  <2>1. CASE UNCHANGED vars
    BY <2>1, CellUnchanged DEF Inv, TypeOK, vars, rows, fixed, process
  <2>2. CASE Next
    BY <2>2, CrashInv, SweepsInv, ReceiveInv, open_requestInv, SaveReplyInv, MatchInv, NoMatchInv,
       ClassifyInv, ReclassifyInv, answer_conversationallyInv, record_responseInv, RememberInv,
       CreateTaskInv, StartPlanningInv, BuildPlanInv, RejectPlanInv, PlanningBreaksInv,
       CommitPlanInv DEF Next, Handler
  <2> QED
    BY <2>1, <2>2
<1> QED
  BY InitInv, <1>1, PTL DEF Spec

-----------------------------------------------------------------------------

\* The rows and the handlers keep their types.
THEOREM TypeCorrect ==
    Spec => []TypeOK
<1>1. Inv => TypeOK
  BY DEF Inv
<1> QED
  BY Invariance, <1>1, PTL

\* create_and_plan leaves a plan and a READY task, or neither, wherever a crash
\* or a sweep falls between its commits.
THEOREM PlanAndReadyTogether ==
    Spec => []ReadyHasPlan
<1>1. Inv => ReadyHasPlan
  BY DEF Inv, Cell, Rows, NoTaskYet, ReadyHasPlan
<1> QED
  BY Invariance, <1>1, PTL

\* No request is both answered and turned into a task: a reply written while
\* classifying never goes out for work that still needs authorization.
THEOREM AnsweredOrTask ==
    Spec => []NeverPreAnswered
<1>1. Inv => NeverPreAnswered
  BY DEF Inv, Cell, Rows, NoTaskYet, NeverPreAnswered
<1> QED
  BY Invariance, <1>1, PTL

\* Only a stored question with a stored answer, acknowledged by its sender,
\* reaches the memory extractor.
THEOREM MemoryNeedsConsent ==
    Spec => []TurnIsConsented
<1>1. Inv => TurnIsConsented
  BY DEF Inv, Cell, Rows, NoTaskYet, TurnIsConsented
<1> QED
  BY Invariance, <1>1, PTL

\* When handle_text reports an error, no task of the request is READY and no
\* plan is stored.
THEOREM ErrorsHideNoWork ==
    Spec => []ErrorHidesNoWork
<1>1. Inv => ErrorHidesNoWork
  BY DEF Inv, Cell, Rows, NoTaskYet, ErrorHidesNoWork
<1> QED
  BY Invariance, <1>1, PTL

\* A handler that returned leaves its task in CREATED or PLANNING only after an
\* exception that create_and_plan does not catch.
THEOREM StrandedOnlyByOutage ==
    Spec => []OnlyOutageStrands
<1>1. Inv => OnlyOutageStrands
  BY DEF Inv, Cell, Rows, NoTaskYet, OnlyOutageStrands
<1> QED
  BY Invariance, <1>1, PTL

=============================================================================
