------------------------------- MODULE Intake -------------------------------
(***************************************************************************)
(* A user's message from the chat route (or the command line) to a READY   *)
(* plan, a direct answer or an error: submit_chat, InteractionService.     *)
(* handle_text, PlanningService (open_request, understand,                 *)
(* answer_conversationally, create_and_plan), IntentParser and the plan    *)
(* validator.  Requests run on threads of one process; a crash may fall    *)
(* between any two commits, and RecoveryService.reconcile_stranded_tasks   *)
(* sweeps at the next start and, through SheaApp.reconcile, while requests *)
(* are being planned.  What happens to a READY task is PlanExecution.      *)
(*                                                                         *)
(* A draft is its type, whether it carries a reply and whether its         *)
(* confidence reaches the threshold.  A call of the model may raise        *)
(* ("outage": routing is the subject of ProviderRouting) or return         *)
(* something the caller can or cannot use.  Abstracted: texts, prompts,    *)
(* the context blocks, audit rows (AuditChain), sessions and profiles.     *)
(***************************************************************************)
EXTENDS Naturals, TaskStates

CONSTANTS
    Requests,      \* messages, each handled by a thread of its own
    MaxCrashes,    \* bound on the crashes of one behaviour
    MaxSweeps      \* bound on the live calls of SheaApp.reconcile

ASSUME BoundsAssumption == MaxCrashes \in Nat /\ MaxSweeps \in Nat

VARIABLES
    \* durable rows
    question,   \* question[r]: the user's message is in chat_events
    request,    \* request[r]: the requests row exists
    intent,     \* intent[r]: the intents row exists
    response,   \* response[r]: requests.response is set
    task,       \* task[r]: state of the task, "NONE" without one
    plan,       \* plan[r]: plan row and tasks.plan_id
    answer,     \* answer[r]: the agent's message is in chat_events
    \* volatile
    pc,         \* pc[r]: where the handler of r is
    draft,      \* draft[r]: the IntentDraft
    result,     \* result[r]: what handle_text returned
    hasModel,   \* is a model provider configured?
    viaApi,     \* viaApi[r]: by submit_chat, which acknowledges nothing
    mode, crashes, sweeps,
    \* observation only
    turn,       \* turn[r]: interaction.conversation_turn was published
    outage      \* outage[r]: the model or a template raised something else

rows    == <<question, request, intent, response, task, plan, answer>>
process == <<mode, crashes, sweeps>>
fixed   == <<hasModel, viaApi>>
vars    == <<rows, pc, draft, result, fixed, process, turn, outage>>

Drafts   == [type : {"task", "query"}, reply : BOOLEAN, clear : BOOLEAN]
NoDraft  == [type |-> "query", reply |-> FALSE, clear |-> FALSE]
PCs      == {"new", "open", "match", "classify", "reclassify", "route", "respond",
             "remember", "start", "build", "commit", "reply", "done", "gone"}
Returned == {"none", "message", "no_model", "ambiguous", "failed", "ready"}

TypeOK ==
    /\ question \in [Requests -> BOOLEAN] /\ request \in [Requests -> BOOLEAN]
    /\ intent \in [Requests -> BOOLEAN] /\ response \in [Requests -> BOOLEAN]
    /\ plan \in [Requests -> BOOLEAN] /\ answer \in [Requests -> BOOLEAN]
    /\ turn \in [Requests -> BOOLEAN] /\ outage \in [Requests -> BOOLEAN]
    /\ viaApi \in [Requests -> BOOLEAN]
    /\ task \in [Requests -> TaskState \cup {"NONE"}]
    /\ pc \in [Requests -> PCs] /\ draft \in [Requests -> Drafts]
    /\ result \in [Requests -> Returned]
    /\ hasModel \in BOOLEAN
    /\ mode \in {"up", "boot"} /\ crashes \in 0 .. MaxCrashes
    /\ sweeps \in 0 .. MaxSweeps

None == [r \in Requests |-> FALSE]

Init ==
    /\ question = None /\ request = None /\ intent = None /\ response = None
    /\ task = [r \in Requests |-> "NONE"] /\ plan = None /\ answer = None
    /\ pc = [r \in Requests |-> "new"]
    /\ draft = [r \in Requests |-> NoDraft]
    /\ result = [r \in Requests |-> "none"]
    /\ hasModel \in BOOLEAN /\ viaApi \in [Requests -> BOOLEAN]
    /\ mode = "up" /\ crashes = 0 /\ sweeps = 0
    /\ turn = None /\ outage = None

Set(f, r) == f' = [f EXCEPT ![r] = TRUE]
At(r, l)  == mode = "up" /\ pc[r] = l
Goto(r, l) == pc' = [pc EXCEPT ![r] = l]

\* handle_text returns; submit_chat then stores its reply, if it has one.
Return(r, what) ==
    /\ result' = [result EXCEPT ![r] = what]
    /\ Goto(r, IF viaApi[r] /\ what # "ready" THEN "reply" ELSE "done")

\* An exception handle_text does not know: it returns a task of its own
\* making, in state FAILED, that no row stands for.
Fails(r) == Return(r, "failed")

Advance(r, event) ==
    \E s \in next_state(task[r], event) : task' = [task EXCEPT ![r] = s]
Illegal(r, event) == next_state(task[r], event) = {}

-----------------------------------------------------------------------------
(* submit_chat and open_request *)

Receive(r) ==
    /\ At(r, "new")
    /\ IF viaApi[r] THEN Set(question, r) ELSE UNCHANGED question
    /\ Goto(r, "open")
    /\ UNCHANGED <<request, intent, response, task, plan, answer, draft, result,
                   fixed, process, turn, outage>>

open_request(r) ==
    /\ At(r, "open")
    /\ Set(request, r) /\ Goto(r, "match")
    /\ UNCHANGED <<question, intent, response, task, plan, answer, draft, result,
                   fixed, process, turn, outage>>

SaveReply(r) ==
    /\ At(r, "reply")
    /\ Set(answer, r) /\ Goto(r, "done")
    /\ UNCHANGED <<question, request, intent, response, task, plan, draft, result,
                   fixed, process, turn, outage>>

-----------------------------------------------------------------------------
(* understand and IntentParser *)

\* parse() ends with a draft: too little confidence is AmbiguousIntentError,
\* otherwise understand() stores the intent.
Understood(r, d) ==
    /\ draft' = [draft EXCEPT ![r] = d]
    /\ IF d.clear
       THEN Set(intent, r) /\ Goto(r, "route") /\ UNCHANGED result
       ELSE Return(r, "ambiguous") /\ UNCHANGED intent
    /\ UNCHANGED <<question, request, response, task, plan, answer, outage>>

\* A deterministic rule matches; its draft never carries a reply.
Match(r) ==
    /\ At(r, "match")
    /\ \E d \in Drafts : ~d.reply /\ Understood(r, d)
    /\ UNCHANGED <<fixed, process, turn>>

NoMatch(r) ==
    /\ At(r, "match")
    /\ IF hasModel THEN Goto(r, "classify") /\ UNCHANGED result ELSE Fails(r)
    /\ UNCHANGED <<rows, draft, fixed, process, turn, outage>>

\* Seeded fault: a model's reply is kept whatever the type of the intent.
ModelDraft_Any(d) == TRUE

\* _draft_from_model_data keeps a reply only for a query.
ModelDraft(d) == d.reply => d.type = "query"

ModelRaises(r) == Set(outage, r) /\ Fails(r) /\ UNCHANGED <<rows, draft>>

\* The combined call; an unusable answer is asked for again, an outage is not.
Classify(r) ==
    /\ At(r, "classify")
    /\ \/ ModelRaises(r)
       \/ \E d \in Drafts : ModelDraft(d) /\ Understood(r, d)
       \/ Goto(r, "reclassify") /\ UNCHANGED <<rows, draft, result, outage>>
    /\ UNCHANGED <<fixed, process, turn>>

Reclassify(r) ==
    /\ At(r, "reclassify")
    /\ \/ ModelRaises(r)
       \/ \E d \in Drafts : ModelDraft(d) /\ Understood(r, d)
       \/ Fails(r) /\ UNCHANGED <<rows, draft, outage>>
    /\ UNCHANGED <<fixed, process, turn>>

-----------------------------------------------------------------------------
(* A query: answer_conversationally and what handle_text does after it *)

answer_conversationally(r) ==
    /\ At(r, "route") /\ draft[r].type = "query"
    /\ \/ /\ draft[r].reply \/ hasModel
          /\ Goto(r, "respond") /\ UNCHANGED <<rows, draft, result, outage>>
       \/ /\ ~draft[r].reply /\ hasModel /\ ModelRaises(r)
       \/ /\ ~draft[r].reply /\ ~hasModel
          /\ Return(r, "no_model") /\ UNCHANGED <<rows, draft, outage>>
    /\ UNCHANGED <<fixed, process, turn>>

record_response(r) ==
    /\ At(r, "respond")
    /\ Set(response, r) /\ Goto(r, "remember")
    /\ UNCHANGED <<question, request, intent, task, plan, answer, draft, result,
                   fixed, process, turn, outage>>

\* _memory_write_permitted: memory.write needs authorization, so the turn is
\* announced to the memory extractor only with the user's acknowledgement,
\* which submit_chat never gives.
Remember(r) ==
    /\ At(r, "remember")
    /\ IF viaApi[r] THEN UNCHANGED turn ELSE Set(turn, r)
    /\ Return(r, "message")
    /\ UNCHANGED <<rows, draft, fixed, process, outage>>

-----------------------------------------------------------------------------
(* A task: create_and_plan *)

CreateTask(r) ==
    /\ At(r, "route") /\ draft[r].type = "task"
    /\ task' = [task EXCEPT ![r] = "CREATED"]
    /\ Goto(r, "start")
    /\ UNCHANGED <<question, request, intent, response, plan, answer, draft, result,
                   fixed, process, turn, outage>>

StartPlanning(r) ==
    /\ At(r, "start")
    /\ \/ Advance(r, "start_planning") /\ Goto(r, "build") /\ UNCHANGED result
       \/ Illegal(r, "start_planning") /\ Fails(r) /\ UNCHANGED task
    /\ UNCHANGED <<question, request, intent, response, plan, answer, draft, fixed,
                   process, turn, outage>>

\* A template or the model gives steps that validate_plan accepts.
BuildPlan(r) ==
    /\ At(r, "build")
    /\ Goto(r, "commit")
    /\ UNCHANGED <<rows, draft, result, fixed, process, turn, outage>>

\* Seeded fault: the error is reported and the task is left alone.
RejectPlan_Forget(r) ==
    /\ At(r, "build") /\ Fails(r)
    /\ UNCHANGED <<rows, draft, fixed, process, turn, outage>>

\* No template and no model, a malformed answer or an invalid plan: the task
\* fails, unless it has been moved meanwhile, and handle_text reports.
RejectPlan(r) ==
    /\ At(r, "build")
    /\ \/ Advance(r, "plan_failed")
       \/ Illegal(r, "plan_failed") /\ UNCHANGED task
    /\ Fails(r)
    /\ UNCHANGED <<question, request, intent, response, plan, answer, draft, fixed,
                   process, turn, outage>>

\* The planning call of the model, or the template's builder, raises an
\* exception create_and_plan does not catch: the task stays in PLANNING.
PlanningBreaks(r) ==
    /\ At(r, "build") /\ ModelRaises(r)
    /\ UNCHANGED <<fixed, process, turn>>

\* Seeded fault: the plan is stored before the unit of work begins.
CommitPlan_Early(r) ==
    /\ At(r, "commit")
    /\ Set(plan, r)
    /\ \/ Advance(r, "plan_ready") /\ Return(r, "ready")
       \/ Illegal(r, "plan_ready") /\ Fails(r) /\ UNCHANGED task
    /\ UNCHANGED <<question, request, intent, response, answer, draft, fixed,
                   process, turn, outage>>

\* One unit of work: the plan, its link and READY, or nothing when the task
\* has been moved meanwhile.  That it is all or nothing supposes that no other
\* thread's unit is open just then (UnitOfWork_overlap).
CommitPlan(r) ==
    /\ At(r, "commit")
    /\ \/ Advance(r, "plan_ready") /\ Set(plan, r) /\ Return(r, "ready")
       \/ Illegal(r, "plan_ready") /\ Fails(r) /\ UNCHANGED <<task, plan>>
    /\ UNCHANGED <<question, request, intent, response, answer, draft, fixed,
                   process, turn, outage>>

-----------------------------------------------------------------------------
(* Crash, restart and the sweep *)

Crash ==
    /\ mode = "up" /\ crashes < MaxCrashes
    /\ crashes' = crashes + 1 /\ mode' = "boot"
    /\ pc' = [r \in Requests |-> IF pc[r] \in {"new", "done"} THEN pc[r] ELSE "gone"]
    /\ UNCHANGED <<rows, draft, result, fixed, sweeps, turn, outage>>

\* Seeded fault: the sweep looks for running tasks only.
Swept_Running == [r \in Requests |-> task[r]]

\* reconcile_stranded_tasks on the states of this module: a task that is not
\* running yet is cancelled.
Swept ==
    [r \in Requests |->
        IF task[r] \in {"CREATED", "PLANNING", "READY"} THEN "CANCELLED" ELSE task[r]]

Boot ==
    /\ mode = "boot"
    /\ mode' = "up" /\ task' = Swept
    /\ UNCHANGED <<question, request, intent, response, plan, answer, pc, draft,
                   result, fixed, crashes, sweeps, turn, outage>>

LiveSweep ==
    /\ mode = "up" /\ sweeps < MaxSweeps
    /\ sweeps' = sweeps + 1 /\ task' = Swept
    /\ UNCHANGED <<question, request, intent, response, plan, answer, pc, draft,
                   result, fixed, mode, crashes, turn, outage>>

Handler(r) ==
    \/ Receive(r) \/ open_request(r) \/ SaveReply(r)
    \/ Match(r) \/ NoMatch(r) \/ Classify(r) \/ Reclassify(r)
    \/ answer_conversationally(r) \/ record_response(r) \/ Remember(r)
    \/ CreateTask(r) \/ StartPlanning(r) \/ BuildPlan(r) \/ RejectPlan(r)
    \/ PlanningBreaks(r) \/ CommitPlan(r)

Next == Crash \/ Boot \/ LiveSweep \/ \E r \in Requests : Handler(r)

Spec == Init /\ [][Next]_vars

\* A handler that is not blocked goes on (every model call has a timeout), and
\* a process that died is started again.
FairSpec == Spec /\ WF_vars(Boot) /\ \A r \in Requests : WF_vars(Handler(r))

-----------------------------------------------------------------------------
(* Properties *)

\* A READY task has its intent and its plan, and a plan exists only for a task
\* that became READY: a crash, a sweep or an error between the commits of
\* create_and_plan leaves neither half.
ReadyHasPlan ==
    \A r \in Requests :
        /\ task[r] = "READY" => intent[r] /\ plan[r]
        /\ plan[r] => task[r] \in {"READY", "CANCELLED"} /\ result[r] \in {"none", "ready"}

\* A request is answered or becomes a task, never both: no reply the model
\* wrote while classifying is stored for work that still needs authorization.
NeverPreAnswered ==
    \A r \in Requests :
        /\ task[r] # "NONE" => ~response[r] /\ ~draft[r].reply
        /\ result[r] = "message" => response[r]

\* What reaches the memory extractor is a stored question with a stored answer
\* whose sender agreed to it.
TurnIsConsented ==
    \A r \in Requests : turn[r] => request[r] /\ response[r] /\ ~viaApi[r]

\* handle_text's made-up FAILED task never hides real work: behind an error
\* report there is no task that could still run.
ErrorHidesNoWork ==
    \A r \in Requests :
        result[r] \in {"failed", "ambiguous", "no_model"} =>
            task[r] \notin {"READY", "RUNNING"} /\ ~plan[r]

\* A handler that has returned leaves its task in PLANNING only after an
\* exception planning does not catch; every refusal it does catch fails the
\* task in its row.
OnlyOutageStrands ==
    \A r \in Requests :
        pc[r] \in {"reply", "done"} /\ task[r] \in {"CREATED", "PLANNING"} => outage[r]

\* A task whose handler died with the process leaves CREATED and PLANNING at
\* the next start.
RestartUnstrands ==
    \A r \in Requests :
        pc[r] = "gone" /\ task[r] \in {"CREATED", "PLANNING"} ~>
            task[r] \notin {"CREATED", "PLANNING"}

=============================================================================
