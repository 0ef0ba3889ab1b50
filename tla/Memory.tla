------------------------------- MODULE Memory -------------------------------
(***************************************************************************)
(* The long-term memory: the extractor listening on the event bus, the     *)
(* broker that weighs a proposal against what is stored, the two stores    *)
(* (table and full-text index) behind MemoryService, and the unit of work  *)
(* they share with the task whose completion is being announced.           *)
(*                                                                         *)
(* VerificationService.verify completes a task inside a unit of work, and  *)
(* advance() publishes task.state_changed before that unit ends: all that  *)
(* the extractor stores for a task joins the task's own transaction.  A    *)
(* conversational turn is published outside any unit, so every save is a   *)
(* commit of its own, unless another thread has a unit open.               *)
(*                                                                         *)
(*   working, durable  the database as the shared connection sees it, and  *)
(*                     as last committed; depth is the unit of work's      *)
(*   unit              per actor: the unit of work of a save it is in      *)
(*   pc, left, hits, held, fresh                                           *)
(*                     per thread: its place, proposals left, what the     *)
(*                     index found, the type proposed and the memory read  *)
(*                     (id, row), the id of the row inserted               *)
(*   deleting          the memory whose delete is between its two steps    *)
(*   told              the completions some listener has been told of      *)
(*   broken, undone, deleted                                               *)
(*                     for the properties: sources whose saves raised or   *)
(*                     were lost; whether a rollback has taken the writes  *)
(*                     of others with it; the memories deleted             *)
(*                                                                         *)
(* Each task or turn has a thread of its own, as the API runs each request;*)
(* "api" makes deletes and maintenance runs, one at a time.  A save enters *)
(* its unit and writes in one step and leaves it in another, so that other *)
(* units may begin and end in between.  Leaving is one step: that another  *)
(* thread may enter between the decrement of the counter and the commit is *)
(* the subject of UnitOfWork and AuditChain and left out here.             *)
(* A row is [src, type, status, by]: by is the source whose UPDATE expired *)
(* it.  Contents are left out: what search finds and how the model judges  *)
(* a pair are choices.                                                     *)
(***************************************************************************)
EXTENDS EventBus

CONSTANTS
    Tasks, Turns,     \* what can be learnt from
    Profile,          \* the profile of each, and of "earlier" and "foreign"
    MemIds,           \* ids of memories; 1 and 2 are stored already
    MaxItems,         \* memories the transcript of each may yield
    MaxDisturbances,  \* other events, connections, failed saves, deletes
                      \* and maintenance runs, taken together
    MaxCrashes

Sources == Tasks \cup Turns
Actors  == Threads \cup {"api"}
Types   == {"FACT", "PREFERENCE"}
Before  == {"earlier", "foreign"}

ASSUME MemoryAssumption ==
    /\ Tasks \cap Turns = {} /\ (Before \cup {"none"}) \cap Sources = {} /\ Threads = Sources
    /\ "api" \notin Threads
    /\ DOMAIN Profile = Sources \cup Before /\ {1, 2} \subseteq MemIds
    /\ MaxItems \in [Sources -> Nat] /\ 0 \notin MemIds /\ IsFiniteSet(Threads)

VARIABLES working, durable, depth, unit, pc, left, hits, held, fresh, deleting,
          disturbances, crashes, told, broken, undone, deleted

store   == <<working, durable>>
uow     == <<depth, unit>>
locals  == <<left, hits, held, fresh>>
thread  == <<pc, locals>>
bounds  == <<disturbances, crashes>>
ghosts  == <<told, broken, undone, deleted>>
memvars == <<store, uow, thread, deleting, bounds, ghosts>>
vars    == <<busvars, memvars>>

NoRow  == [src |-> "none", type |-> "none", status |-> "none", by |-> "none"]
Rows   == [src : Sources \cup Before, type : Types, status : {"ACTIVE", "EXPIRED"},
           by : Sources \cup {"none"}]
Db     == [task : [Tasks -> {"VERIFYING", "COMPLETED", "FAILED"}],
           row : [MemIds -> Rows \cup {NoRow}], fts : SUBSET MemIds, born : SUBSET Sources]
NoHeld == [id |-> 0, row |-> NoRow, type |-> "none"]

Extractor == {"x_task", "x_turn"}
Stream    == Subscription("stream", "*", "*", 0)
Plugin    == Subscription("plugin", "task", "*", 0)
Steps     == {"idle", "other", "dispatch", "extract", "search", "judge", "bump", "bump_fts", "expire",
              "expire_fts", "insert", "insert_fts", "done"}

TypeOK ==
    /\ working \in Db /\ durable \in Db /\ depth \in 0 .. Cardinality(Tasks) + Cardinality(Actors)
    /\ unit \in [Actors -> {"out", "in", "raising"}]
    /\ pc \in [Threads -> Steps]
    /\ \A t \in Threads : left[t] \in 0 .. MaxItems[t]
    /\ hits \in [Threads -> SUBSET MemIds]
    /\ held \in [Threads -> [id : MemIds \cup {0}, row : Rows \cup {NoRow},
                            type : Types \cup {"none"}]]
    /\ fresh \in [Threads -> MemIds \cup {0}]
    /\ deleting \in MemIds \cup {0}
    /\ told \subseteq Tasks /\ broken \subseteq Sources
    /\ undone \in BOOLEAN /\ deleted \subseteq MemIds

Stored(who, type) == [src |-> who, type |-> type, status |-> "ACTIVE", by |-> "none"]

\* A request is about to publish; a client is connected.
Init ==
    /\ subs = <<Subscription("x_task", "task", "state_changed", 10),
                Subscription("x_turn", "interaction", "conversation_turn", 10), Plugin, Stream>>
    /\ sinks = <<[id |-> "alarm", filter |-> HIGH]>>
    /\ queue = [t \in Threads |-> {}] /\ event = [t \in Threads |-> NoEvent]
    /\ owed = [t \in Threads |-> {}] /\ called = [t \in Threads |-> {}]
    /\ working = [task |-> [k \in Tasks |-> "VERIFYING"], fts |-> {1, 2}, born |-> {},
                  row |-> [i \in MemIds |-> CASE i = 1 -> Stored("earlier", "FACT")
                                              [] i = 2 -> Stored("foreign", "PREFERENCE")
                                              [] OTHER -> NoRow]]
    /\ durable = working /\ depth = 0 /\ unit = [u \in Actors |-> "out"]
    /\ pc = [t \in Threads |-> "idle"]
    /\ left = [t \in Threads |-> 0] /\ hits = [t \in Threads |-> {}]
    /\ held = [t \in Threads |-> NoHeld] /\ fresh = [t \in Threads |-> 0]
    /\ deleting = 0 /\ disturbances = 0 /\ crashes = 0
    /\ told = {} /\ broken = {} /\ undone = FALSE /\ deleted = {}

\* Thread t is at p, with no save under way.
At(t, p)   == pc[t] = p /\ unit[t] = "out"
Goto(t, p) == pc' = [pc EXCEPT ![t] = p]

Disturb ==
    /\ disturbances < MaxDisturbances /\ disturbances' = disturbances + 1
    /\ UNCHANGED crashes

-----------------------------------------------------------------------------
(* The unit of work, as far as these saves use it *)

\* u enters a unit and writes, or fails to.
Enter(u, db, how) ==
    /\ unit[u] = "out" /\ unit' = [unit EXCEPT ![u] = how]
    /\ depth' = depth + 1
    /\ working' = db /\ UNCHANGED durable

Save(u, db) == Enter(u, db, "in")

\* A unit ends: it commits whatever is uncommitted if it is the last one.
Leave ==
    /\ depth' = depth - 1
    /\ durable' = IF depth = 1 THEN working ELSE durable

Exit(u) ==
    /\ unit[u] = "in" /\ unit' = [unit EXCEPT ![u] = "out"]
    /\ Leave
    /\ UNCHANGED <<busvars, working, thread, deleting, bounds, ghosts>>

\* Writes that are not committed, apart from texts a failed save took out of
\* the index.
Uncommitted ==
    \/ working.task # durable.task \/ working.row # durable.row
    \/ working.born # durable.born \/ ~(working.fts \subseteq durable.fts)

\* The last unit to end does so with an exception: what others wrote and left
\* to it to commit is rolled back with its own.
Rollback(u) ==
    /\ unit[u] = "raising" /\ unit' = [unit EXCEPT ![u] = "out"]
    /\ depth' = depth - 1
    /\ IF depth = 1
       THEN working' = durable /\ undone' = (undone \/ Uncommitted)
       ELSE UNCHANGED <<working, undone>>
    /\ UNCHANGED <<busvars, durable, thread, deleting, bounds, told, broken, deleted>>

-----------------------------------------------------------------------------
(* Publishers *)

\* handle_text announces a permitted turn, its response being recorded.
conversation_turn(t) ==
    /\ At(t, "idle") /\ t \in Turns
    /\ publish(t, InteractionChannel(t))
    /\ Goto(t, "dispatch")
    /\ UNCHANGED <<store, uow, locals, deleting, bounds, ghosts>>

\* Seeded fault: advance() announces a state it has not saved.
verify_Unsaved(t) ==
    /\ At(t, "idle") /\ t \in Tasks /\ working.task[t] = "VERIFYING"
    /\ depth' = depth + 1
    /\ \E state \in {"COMPLETED", "FAILED"} : publish(t, TaskChannel(t, state))
    /\ Goto(t, "dispatch")
    /\ UNCHANGED <<store, unit, locals, deleting, bounds, ghosts>>

\* VerificationService.verify on the last step: its unit of work is open when
\* advance() publishes.
verify(t) ==
    /\ At(t, "idle") /\ t \in Tasks /\ working.task[t] = "VERIFYING"
    /\ depth' = depth + 1
    /\ \E state \in {"COMPLETED", "FAILED"} :
          /\ working' = [working EXCEPT !.task[t] = state]
          /\ publish(t, TaskChannel(t, state))
    /\ Goto(t, "dispatch")
    /\ UNCHANGED <<durable, unit, locals, deleting, bounds, ghosts>>

\* Any other channel, earlier in the same request: nothing the extractor
\* listens to.
OtherEvent(t) ==
    /\ At(t, "idle") /\ Disturb
    /\ \E e \in OtherChannels : publish(t, e)
    /\ Goto(t, "other")
    /\ UNCHANGED <<store, uow, locals, deleting, ghosts>>

\* publish() returns to the request ...
Resume(t) ==
    /\ At(t, "other") /\ queue[t] = {}
    /\ Published(t) /\ Goto(t, "idle")
    /\ UNCHANGED <<store, uow, locals, deleting, bounds, ghosts>>

\* Seeded fault: every request leaves a unit of work.
Return_Any(t) ==
    /\ At(t, "dispatch") /\ queue[t] = {}
    /\ Published(t) /\ Goto(t, "done")
    /\ Leave
    /\ UNCHANGED <<working, unit, locals, deleting, bounds, ghosts>>

\* Seeded fault: the unit of work ends without a commit.
Return_NoCommit(t) ==
    /\ At(t, "dispatch") /\ queue[t] = {}
    /\ Published(t) /\ Goto(t, "done")
    /\ depth' = IF t \in Tasks THEN depth - 1 ELSE depth
    /\ UNCHANGED <<store, unit, locals, deleting, bounds, ghosts>>

\* ... and at its end verify() leaves its unit of work.
Return(t) ==
    /\ At(t, "dispatch") /\ queue[t] = {}
    /\ Published(t) /\ Goto(t, "done")
    /\ IF t \in Tasks THEN Leave ELSE UNCHANGED <<depth, durable>>
    /\ UNCHANGED <<working, unit, locals, deleting, bounds, ghosts>>

-----------------------------------------------------------------------------
(* Listeners other than the extractor *)

\* A stream only queues the event; a plugin or a sink may raise.
Deliver(t) ==
    /\ At(t, "dispatch") \/ At(t, "other")
    /\ queue[t] # {} /\ Receiver(t) \notin Extractor
    /\ \/ HandlerReturns(t)
       \/ Receiver(t) # "stream" /\ HandlerRaises(t)
    /\ told' = IF event[t].to = "COMPLETED" THEN told \cup {event[t].about} ELSE told
    /\ UNCHANGED <<store, uow, thread, deleting, bounds, broken, undone, deleted>>

\* event_stream: a client connects or goes away.
Connect ==
    /\ Disturb
    /\ subscribe(Stream) \/ unsubscribe("stream")
    /\ UNCHANGED <<store, uow, thread, deleting, ghosts>>

-----------------------------------------------------------------------------
(* MemoryExtractor *)

\* Only a completed task with an intent, or a turn whose words look worth
\* remembering, is looked at.
Consider(t) ==
    /\ At(t, "dispatch") /\ queue[t] # {} /\ Receiver(t) \in Extractor
    /\ \/ /\ event[t].to \in {"COMPLETED", "none"}
          /\ Goto(t, "extract") /\ UNCHANGED busvars
       \/ HandlerReturns(t) /\ UNCHANGED pc
    /\ UNCHANGED <<store, uow, locals, deleting, bounds, ghosts>>

Forget(t) ==
    /\ hits' = [hits EXCEPT ![t] = {}] /\ held' = [held EXCEPT ![t] = NoHeld]
    /\ fresh' = [fresh EXCEPT ![t] = 0]

\* The handler ends and is back in publish().
Finish(t, how) ==
    /\ how
    /\ Goto(t, "dispatch")
    /\ left' = [left EXCEPT ![t] = 0] /\ Forget(t)

\* The model raises, gives nothing usable, or gives some memories.
extract(t) ==
    /\ At(t, "extract")
    /\ \/ Finish(t, HandlerRaises(t) \/ HandlerReturns(t))
       \/ /\ \E n \in 1 .. MaxItems[t] : left' = [left EXCEPT ![t] = n]
          /\ Goto(t, "search") /\ UNCHANGED <<busvars, hits, held, fresh>>
    /\ UNCHANGED <<store, uow, deleting, bounds, ghosts>>

-----------------------------------------------------------------------------
(* MemoryBroker.propose *)

\* HybridMemoryRetriever.retrieve asks the index first; its profile filter
\* repeats that of the rows below ...
search(t) ==
    /\ At(t, "search")
    /\ hits' = [hits EXCEPT ![t] = working.fts]
    /\ Goto(t, "judge")
    /\ UNCHANGED <<busvars, left, held, fresh, store, uow, deleting, bounds, ghosts>>

\* Seeded fault: the profile filter is left to the index.
retrieve_Any(t) == {i \in hits[t] : working.row[i] # NoRow}

\* ... and keeps what the table still holds for this profile, whatever its
\* status.
retrieve(t) ==
    {i \in hits[t] : working.row[i] # NoRow /\ Profile[working.row[i].src] = Profile[t]}

\* _resolve_conflicts: any memory of the same type that scores high enough may
\* be judged; the first DUPLICATE or UPDATE decides.  The judge may raise.
judge(t) ==
    /\ At(t, "judge")
    /\ \E type \in Types :
          LET found == {i \in retrieve(t) : working.row[i].type = type}
          IN \/ /\ held' = [held EXCEPT ![t] = [NoHeld EXCEPT !.type = type]]
                /\ Goto(t, "insert") /\ UNCHANGED <<busvars, left, hits, fresh>>
             \/ \E i \in found :
                /\ held' = [held EXCEPT ![t] = [id |-> i, row |-> working.row[i], type |-> type]]
                /\ Goto(t, "bump") \/ Goto(t, "expire")
                /\ UNCHANGED <<busvars, left, hits, fresh>>
             \/ found # {} /\ Finish(t, HandlerRaises(t))
    /\ UNCHANGED <<store, uow, deleting, bounds, ghosts>>

\* The next proposal of the transcript, or the end of the handler.
NextItem(t) ==
    IF left[t] > 1
    THEN /\ left' = [left EXCEPT ![t] = @ - 1] /\ Goto(t, "search")
         /\ Forget(t) /\ UNCHANGED busvars
    ELSE Finish(t, HandlerReturns(t))

Rest == UNCHANGED <<deleting, bounds, ghosts>>

\* DUPLICATE: the row that was read is stored again, newly dated.
bump(t) ==
    /\ At(t, "bump")
    /\ Save(t, [working EXCEPT !.row[held[t].id] = held[t].row])
    /\ Goto(t, "bump_fts") /\ UNCHANGED <<busvars, locals>> /\ Rest

\* UPDATE: the row that was read is stored as EXPIRED ...
expire(t) ==
    /\ At(t, "expire")
    /\ Save(t, [working EXCEPT !.row[held[t].id] =
                [held[t].row EXCEPT !.status = "EXPIRED", !.by = t]])
    /\ Goto(t, "expire_fts") /\ UNCHANGED <<busvars, locals>> /\ Rest

\* Seeded fault: an UPDATE is done once the old memory is expired.
upsert_Stop(t) ==
    /\ pc[t] \in {"bump_fts", "expire_fts", "insert_fts"}
    /\ Save(t, [working EXCEPT !.fts = @ \cup IF At(t, "insert_fts") THEN {fresh[t]}
                                           ELSE {held[t].id}])
    /\ NextItem(t) /\ Rest

\* MemoryService.store, second half: the index.
upsert(t) ==
    /\ \/ /\ At(t, "bump_fts")
          /\ Save(t, [working EXCEPT !.fts = @ \cup {held[t].id}]) /\ NextItem(t)
       \/ /\ At(t, "expire_fts")
          /\ Save(t, [working EXCEPT !.fts = @ \cup {held[t].id}])
          /\ Goto(t, "insert") /\ UNCHANGED <<busvars, locals>>
       \/ /\ At(t, "insert_fts")
          /\ Save(t, [working EXCEPT !.fts = @ \cup {fresh[t]}]) /\ NextItem(t)
    /\ Rest

\* Ids no memory has or had, as far as anything remembers.
Unused == {i \in MemIds :
              /\ working.row[i] = NoRow /\ durable.row[i] = NoRow
              /\ i \notin {1, 2, deleting} \cup working.fts \cup durable.fts \cup deleted
              /\ \A t \in Threads : fresh[t] # i /\ held[t].id # i /\ i \notin hits[t]}

\* ... and the new memory is stored, under an id of its own (MemIds bounds them).
insert(t) ==
    /\ At(t, "insert") /\ Unused # {}
    /\ LET i == CHOOSE j \in Unused : TRUE
       IN /\ Save(t, [working EXCEPT !.row[i] = Stored(t, held[t].type), !.born = @ \cup {t}])
          /\ fresh' = [fresh EXCEPT ![t] = i]
    /\ Goto(t, "insert_fts") /\ UNCHANGED <<busvars, left, hits, held>> /\ Rest

\* A save raises: the bus keeps the exception.  The upsert may have taken the
\* old text out of the index by then.
SaveFails(t) ==
    /\ \E p \in {"bump", "bump_fts", "expire", "expire_fts", "insert", "insert_fts"} : At(t, p)
    /\ Disturb /\ Finish(t, HandlerRaises(t))
    /\ \E lost \in {{}, IF pc[t] \in {"bump_fts", "expire_fts"} THEN {held[t].id} ELSE {}} :
          Enter(t, [working EXCEPT !.fts = @ \ lost], "raising")
    /\ broken' = broken \cup {t}
    /\ UNCHANGED <<deleting, told, undone, deleted>>

-----------------------------------------------------------------------------
(* MemoryService: delete and maintenance *)

\* The memory leaves the index, then the table; any id that was given out can
\* be asked for.
DeleteVector(i) ==
    /\ Disturb /\ deleting = 0 /\ (working.row[i] # NoRow \/ i \in working.fts)
    /\ deleting' = i
    /\ Save("api", [working EXCEPT !.fts = @ \ {i}])
    /\ UNCHANGED <<busvars, thread, ghosts>>

DeleteRow ==
    /\ deleting # 0 /\ deleting' = 0
    /\ Save("api", [working EXCEPT !.row[deleting] = NoRow])
    /\ deleted' = deleted \cup {deleting}
    /\ UNCHANGED <<busvars, thread, bounds, told, broken, undone>>

\* run_maintenance: facts past their 90 days expire; no row is ever marked
\* DELETED, so the purge finds none.
run_maintenance ==
    /\ Disturb
    /\ \E S \in SUBSET {i \in MemIds : working.row[i].type = "FACT"
                                       /\ working.row[i].status = "ACTIVE"} :
          /\ S # {}
          /\ Save("api", [working EXCEPT !.row = [i \in MemIds |->
                      IF i \in S THEN [working.row[i] EXCEPT !.status = "EXPIRED"]
                      ELSE working.row[i]]])
    /\ UNCHANGED <<busvars, thread, deleting, ghosts>>

-----------------------------------------------------------------------------
(* Crash and restart: start-up recovery fails the tasks that were verifying. *)

Crash ==
    /\ crashes < MaxCrashes /\ crashes' = crashes + 1
    /\ durable' = [durable EXCEPT !.task = [k \in Tasks |->
                      IF durable.task[k] = "VERIFYING" THEN "FAILED" ELSE durable.task[k]]]
    /\ working' = durable'
    /\ depth' = 0 /\ unit' = [u \in Actors |-> "out"] /\ deleting' = 0
    /\ broken' = broken \cup (working.born \ durable.born)
                        \cup {s \in Turns : pc[s] \notin {"idle", "other", "done"}}
    /\ pc' = [t \in Threads |-> IF pc[t] \in {"idle", "other"} THEN "idle" ELSE "done"]
    /\ left' = [t \in Threads |-> 0] /\ hits' = [t \in Threads |-> {}]
    /\ held' = [t \in Threads |-> NoHeld] /\ fresh' = [t \in Threads |-> 0]
    /\ queue' = [t \in Threads |-> {}] /\ event' = [t \in Threads |-> NoEvent]
    /\ owed' = [t \in Threads |-> {}] /\ called' = [t \in Threads |-> {}]
    /\ IF "stream" \in Ids(subs) THEN Drop("stream") ELSE UNCHANGED subs
    /\ UNCHANGED <<sinks, told, undone, deleted, disturbances>>

-----------------------------------------------------------------------------

Handler(t) ==
    \/ Resume(t) \/ Return(t) \/ Deliver(t) \/ Consider(t)
    \/ extract(t) \/ search(t) \/ judge(t)
    \/ bump(t) \/ expire(t) \/ upsert(t) \/ insert(t) \/ SaveFails(t)

Publisher(t) == conversation_turn(t) \/ verify(t) \/ OtherEvent(t)

Next ==
    \/ \E t \in Threads : Publisher(t) \/ Handler(t)
    \/ \E u \in Actors : Exit(u) \/ Rollback(u)
    \/ (\E i \in MemIds : DeleteVector(i)) \/ DeleteRow
    \/ run_maintenance \/ Connect \/ Crash

Spec == Init /\ [][Next]_vars

\* Model calls have timeouts and handlers no loops of their own.
FairSpec ==
    /\ Spec /\ \A t \in Threads : WF_vars(Handler(t))
    /\ \A u \in Actors : WF_vars(Exit(u) \/ Rollback(u))

-----------------------------------------------------------------------------
(* Properties *)

\* Nothing is remembered of a task that did not complete: in every state a
\* crash can leave behind, a memory drawn from a task stands beside that task
\* in state COMPLETED, unless the last unit to end raised and took the writes of
\* others with it.
TaskMemoryIsEarned ==
    undone \/ \A i \in MemIds : durable.row[i].src \in Tasks =>
        durable.task[durable.row[i].src] = "COMPLETED"

\* Superseding does not forget: a memory that was expired in favour of a new
\* one is followed by that one, unless a save raised, or its source is a turn
\* that is between the two saves or was caught there by a crash.  For a task a
\* crash is no excuse, since both saves are in one transaction.
SupersededHasSuccessor ==
    undone \/ \A i \in MemIds : durable.row[i].by \in Sources =>
        LET s == durable.row[i].by
        IN \/ s \in durable.born \/ s \in broken \/ s \in Turns \cap working.born
           \/ s \in Turns /\ pc[s] \in {"expire_fts", "insert"}

\* "Permanently delete a memory from all stores" (MemoryService.delete): what
\* was deleted is in neither store again.  It does not hold, and no run checks
\* it: propose() stores the row it read before the delete.
DeletedIsGone ==
    \A i \in deleted : i \notin working.fts /\ working.row[i] = NoRow

\* The memories of one profile are out of reach of another: a step that works
\* for a source changes no memory of a foreign profile.
ProfilesAreIsolated ==
    [][\A t \in Threads, i \in MemIds :
          pc[t] # pc'[t] /\ working.row[i] # NoRow /\ crashes' = crashes
          /\ Profile[working.row[i].src] # Profile[t] => working'.row[i] = working.row[i]]_vars

\* A failing listener costs nobody else the event: when publish() is about to
\* return, every listener whose pattern or filter took the event was called.
EveryListenerIsCalled ==
    \A t \in Threads : pc[t] \in {"dispatch", "other"} /\ queue[t] = {} => called[t] = owed[t]

\* What listeners are told becomes true: a completion that was announced is
\* durable in the end, unless the process died before the unit of work ended,
\* in which case start-up recovery fails the task, or another thread's unit
\* ended last and raised.
AnnouncedBecomesDurable ==
    \A k \in Tasks : k \in told ~>
        durable.task[k] \in {"COMPLETED", "FAILED"} \/ undone

=============================================================================
