---------------------------- MODULE MemoryProofs ----------------------------
(***************************************************************************)
(* Safety of the memory pipeline for any tasks, turns, profiles, memories  *)
(* and listeners, and any number of failed saves, deletes and crashes.     *)
(*                                                                         *)
(* The properties are about the durable database, which changes only when *)
(* the last open unit of work ends.  What it becomes then is the working   *)
(* database, so each property is also kept for that one and for the rows   *)
(* the threads hold in their hands (EarnedInv, FollowedInv, ProfileInv).   *)
(* That no verify() is open when the durable database changes needs the    *)
(* counter to be the number of verify()s and saves that are inside their   *)
(* units (UnitInv).  A rollback changes the working database under threads *)
(* that hold rows of it: ids are not given out twice, so a memory keeps    *)
(* its profile all the same.  BusInv says whom a publish() under way has   *)
(* still to call.                                                          *)
(***************************************************************************)
EXTENDS Memory, FiniteSetTheorems, SequenceTheorems, WellFoundedInduction, TLAPS

-----------------------------------------------------------------------------
(* The invariant *)

Working == {"extract", "search", "judge", "bump", "bump_fts", "expire", "expire_fts", "insert",
            "insert_fts"}

\* Tasks whose verify() is inside its unit of work, and actors whose save is.
Verifying == {t \in Tasks : pc[t] \in Working \cup {"dispatch"}}
Saving    == {u \in Actors : unit[u] # "out"}

Listeners == {Subscription("x_task", "task", "state_changed", 10),
              Subscription("x_turn", "interaction", "conversation_turn", 10), Plugin, Stream}

BusShape ==
    /\ DOMAIN event = Threads /\ DOMAIN queue = Threads
    /\ DOMAIN owed = Threads /\ DOMAIN called = Threads
    /\ subs \in Seq(Listeners) /\ sinks \in Seq({[id |-> "alarm", filter |-> HIGH]})
    /\ \A t \in Threads : event[t].to = "COMPLETED" => event[t].about \in Tasks

ShapeInv == TypeOK /\ BusShape /\ DOMAIN left = Threads

\* What a thread holds fits its place.
Place(t) ==
    /\ pc[t] \in {"bump", "bump_fts", "expire", "expire_fts"} => held[t].id # 0
    /\ held[t].id # 0 => held[t].row \in Rows
    /\ pc[t] \in Working \ {"extract", "search", "judge"} => held[t].type \in Types
    /\ pc[t] = "insert_fts" => fresh[t] # 0
    /\ pc[t] \in Working => queue[t] # {}

PlaceInv == \A t \in Threads : Place(t)

UnitInv == depth = Cardinality(Verifying) + Cardinality(Saving)

\* The receivers that took an event were called or are still queued.
BusInv ==
    \A t \in Threads :
        /\ owed[t] = called[t] \cup {r.id : r \in queue[t]}
        /\ \A r \in queue[t] : r.rank \in Nat

Earned(db, row) == row.src \in Tasks => db.task[row.src] = "COMPLETED"

\* A task that is being learnt from has completed.
EarnedParts ==
    /\ \A i \in MemIds : Earned(working, working.row[i]) /\ Earned(durable, durable.row[i])
    /\ \A t \in Threads : Earned(working, held[t].row)
    /\ \A t \in Tasks :
          /\ pc[t] \in Working \cup {"dispatch"} => event[t].to = working.task[t]
          /\ pc[t] \in Working => working.task[t] = "COMPLETED"

EarnedInv == undone \/ EarnedParts

\* The successor of what s expired is there, on its way, or was lost.
Followed(s) == s \in working.born \/ s \in broken \/ pc[s] \in {"expire_fts", "insert"}

FollowedParts ==
    /\ \A i \in MemIds : working.row[i].by \in Sources => Followed(working.row[i].by)
    /\ \A t \in Threads : held[t].row.by \in Sources => Followed(held[t].row.by)
    /\ \A i \in MemIds : durable.row[i].by \in Sources =>
          LET s == durable.row[i].by
          IN \/ s \in durable.born \/ s \in broken \/ s \in Turns \cap working.born
             \/ s \in Turns /\ pc[s] \in {"expire_fts", "insert"}

FollowedInv == undone \/ FollowedParts

\* The source of memory i, as the tables and the holders know it.
Known(i, s) ==
    \/ working.row[i] # NoRow /\ working.row[i].src = s
    \/ durable.row[i] # NoRow /\ durable.row[i].src = s
    \/ \E t \in Threads : held[t].id = i /\ held[t].row.src = s

\* No memory changes hands, and who holds one read it under its own profile.
ProfileInv ==
    /\ \A i \in MemIds : \A s, r \in Sources \cup Before : Known(i, s) /\ Known(i, r) => s = r
    /\ \A t \in Threads : held[t].id # 0 => Profile[held[t].row.src] = Profile[t]

Inv ==
    /\ ShapeInv /\ PlaceInv /\ UnitInv /\ BusInv /\ EarnedInv /\ FollowedInv /\ ProfileInv

-----------------------------------------------------------------------------
(* Values *)

Helds == [id : MemIds \cup {0}, row : Rows \cup {NoRow}, type : Types \cup {"none"}]

LEMMA Constants ==
    /\ Threads = Sources /\ Tasks \subseteq Threads /\ Turns \subseteq Threads
    /\ Threads \ Tasks \subseteq Turns
    /\ Tasks \cap Turns = {} /\ "none" \notin Sources
    /\ 0 \notin MemIds /\ IsFiniteSet(Threads) /\ IsFiniteSet(Tasks)
    /\ "earlier" \notin Sources /\ "foreign" \notin Sources
    /\ Threads \subseteq Actors /\ "api" \in Actors /\ IsFiniteSet(Actors)
    /\ {1, 2} \subseteq MemIds
<1>1. IsFiniteSet(Tasks)
  BY MemoryAssumption, FS_Subset DEF Sources
<1>2. IsFiniteSet(Actors)
  BY MemoryAssumption, FS_AddElement DEF Actors
<1> QED  BY <1>1, <1>2, MemoryAssumption DEF Sources, Before, Actors

LEMMA HeldValues ==
    /\ NoHeld \in Helds /\ NoHeld.id = 0 /\ NoHeld.row = NoRow
    /\ NoRow.src = "none" /\ NoRow.by = "none" /\ NoRow.status = "none" /\ NoRow \notin Rows
    /\ \A type \in Types : /\ [NoHeld EXCEPT !.type = type] \in Helds
                           /\ [NoHeld EXCEPT !.type = type].id = 0
                           /\ [NoHeld EXCEPT !.type = type].row = NoRow
                           /\ [NoHeld EXCEPT !.type = type].type = type
    /\ \A i \in MemIds, row \in Rows, type \in Types :
          [id |-> i, row |-> row, type |-> type] \in Helds
BY DEF NoHeld, Helds, NoRow, Rows, Types

LEMMA RowValues ==
    /\ \A s \in Sources, type \in Types :
          /\ Stored(s, type) \in Rows /\ Stored(s, type).src = s /\ Stored(s, type).by = "none"
    /\ \A row \in Rows : row # NoRow /\ row.src \in Sources \cup Before
    /\ \A row \in Rows, s \in Sources :
          LET expired == [row EXCEPT !.status = "EXPIRED", !.by = s]
          IN expired \in Rows /\ expired.src = row.src /\ expired.by = s
    /\ \A row \in Rows :
          LET aged == [row EXCEPT !.status = "EXPIRED"]
          IN aged \in Rows /\ aged.src = row.src /\ aged.by = row.by
<1>1. \A s \in Sources, type \in Types :
          /\ Stored(s, type) \in Rows /\ Stored(s, type).src = s /\ Stored(s, type).by = "none"
  BY DEF Stored, Rows
<1>2. \A row \in Rows : row # NoRow /\ row.src \in Sources \cup Before
  BY DEF Rows, NoRow
<1>3. \A row \in Rows, s \in Sources :
          LET expired == [row EXCEPT !.status = "EXPIRED", !.by = s]
          IN expired \in Rows /\ expired.src = row.src /\ expired.by = s
  BY DEF Rows
<1>4. \A row \in Rows :
          LET aged == [row EXCEPT !.status = "EXPIRED"]
          IN aged \in Rows /\ aged.src = row.src /\ aged.by = row.by
  BY DEF Rows
<1> QED  BY <1>1, <1>2, <1>3, <1>4

\* The database after each kind of save, column by column.
LEMMA RowSaved ==
    ASSUME NEW db \in Db, NEW i \in MemIds, NEW row \in Rows \cup {NoRow}
    PROVE  LET new == [db EXCEPT !.row[i] = row]
           IN /\ new \in Db /\ new.row = [db.row EXCEPT ![i] = row]
              /\ new.task = db.task /\ new.fts = db.fts /\ new.born = db.born
BY DEF Db

LEMMA IndexSaved ==
    ASSUME NEW db \in Db, NEW S \in SUBSET MemIds
    PROVE  LET new == [db EXCEPT !.fts = S]
           IN /\ new \in Db /\ new.row = db.row
              /\ new.task = db.task /\ new.fts = S /\ new.born = db.born
BY DEF Db

LEMMA TaskSaved ==
    ASSUME NEW db \in Db, NEW t \in Tasks, NEW state \in {"COMPLETED", "FAILED"}
    PROVE  LET new == [db EXCEPT !.task[t] = state]
           IN /\ new \in Db /\ new.row = db.row /\ new.task = [db.task EXCEPT ![t] = state]
              /\ new.fts = db.fts /\ new.born = db.born
BY DEF Db

LEMMA RowsSaved ==
    ASSUME NEW db \in Db, NEW f \in [MemIds -> Rows \cup {NoRow}]
    PROVE  LET new == [db EXCEPT !.row = f]
           IN /\ new \in Db /\ new.row = f
              /\ new.task = db.task /\ new.fts = db.fts /\ new.born = db.born
BY DEF Db

LEMMA Columns ==
    ASSUME NEW db \in Db
    PROVE  /\ db.task \in [Tasks -> {"VERIFYING", "COMPLETED", "FAILED"}]
           /\ db.row \in [MemIds -> Rows \cup {NoRow}]
           /\ db.fts \subseteq MemIds /\ db.born \subseteq Sources
BY DEF Db

-----------------------------------------------------------------------------
(* The event bus *)

LEMMA LeastNat ==
    ASSUME NEW T \in SUBSET Nat, T # {}
    PROVE  \E x \in T : \A y \in T : x <= y
<1> DEFINE R == {p \in Nat \X Nat : p[1] < p[2]}
<1>1. IsWellFoundedOn(R, Nat)
  BY NatLessThanWellFounded DEF OpToRel
<1>2. PICK x \in T : \A y \in T : <<y, x>> \notin R
  <2> HIDE DEF R
  <2> QED  BY <1>1, WFMin
<1>3. ASSUME NEW y \in T PROVE x <= y
  <2>1. ASSUME y < x PROVE <<y, x>> \in R
    <3>1. <<y, x>> \in Nat \X Nat
      OBVIOUS
    <3>2. <<y, x>>[1] < <<y, x>>[2]
      BY <2>1
    <3> QED  BY <3>1, <3>2
  <2> QED  BY <1>2, <2>1
<1> QED  BY <1>3

\* publish() always has a next receiver to call while any is queued.
LEMMA ForemostQueued ==
    ASSUME BusInv, NEW t \in Threads, queue[t] # {}
    PROVE  Foremost(t) \in queue[t]
<1> DEFINE T == {r.rank : r \in queue[t]}
<1>1. T \in SUBSET Nat /\ T # {}
  BY DEF BusInv
<1>2. PICK x \in T : \A y \in T : x <= y
  <2> HIDE DEF T
  <2> QED  BY <1>1, LeastNat
<1>3. PICK r \in queue[t] : r.rank = x
  BY <1>2
<1>4. \A q \in queue[t] : r.rank <= q.rank
  BY <1>2, <1>3
<1> QED  BY <1>3, <1>4 DEF Foremost

\* Whom the sorted list holds is whose pattern or filter takes the event.
LEMMA ReceiversAreOwed ==
    ASSUME ShapeInv, NEW e
    PROVE  /\ {r.id : r \in Receivers(e)} =
                 {s \in Ids(subs) : \E i \in DOMAIN subs :
                       subs[i].id = s /\ pattern_matches(subs[i].pattern, e)}
                 \cup {s \in Ids(sinks) : \E i \in DOMAIN sinks :
                       sinks[i].id = s /\ matches(sinks[i].filter, e)}
           /\ \A r \in Receivers(e) : r.rank \in Nat
<1>1. \A i \in DOMAIN subs : i \in Nat /\ by_priority(i) \in Nat
  BY DEF ShapeInv, BusShape, by_priority
<1>2. \A i \in DOMAIN sinks : 2 * Len(subs) + i \in Nat
  BY DEF ShapeInv, BusShape
<1>3. \A r \in Receivers(e) : r.rank \in Nat
  BY <1>1, <1>2 DEF Receivers
<1> DEFINE H == {j \in DOMAIN subs : pattern_matches(subs[j].pattern, e)}
           K == {j \in DOMAIN sinks : matches(sinks[j].filter, e)}
<1>4. \A r \in Receivers(e) : (\E i \in H : r.id = subs[i].id) \/ (\E i \in K : r.id = sinks[i].id)
  BY DEF Receivers
<1>5. \A i \in H : [rank |-> by_priority(i), id |-> subs[i].id] \in Receivers(e)
  BY DEF Receivers
<1>6. \A i \in K : [rank |-> 2 * Len(subs) + i, id |-> sinks[i].id] \in Receivers(e)
  BY DEF Receivers
<1>7. {r.id : r \in Receivers(e)} = {subs[i].id : i \in H} \cup {sinks[i].id : i \in K}
  <2>1. \A i \in H : \E r \in Receivers(e) : r.id = subs[i].id
    BY <1>5
  <2>2. \A i \in K : \E r \in Receivers(e) : r.id = sinks[i].id
    BY <1>6
  <2> HIDE DEF H, K
  <2> QED  BY <1>4, <2>1, <2>2
<1> QED  BY <1>3, <1>7 DEF Ids

\* A publish, a call and a return keep account of who is owed the event.
LEMMA PublishBus ==
    ASSUME ShapeInv, BusInv, NEW t \in Threads, NEW e, publish(t, e)
    PROVE  BusInv'
<1>1. \A q \in Threads \ {t} : UNCHANGED <<queue[q], owed[q], called[q]>>
  BY DEF publish, ShapeInv, BusShape
<1>2. /\ queue'[t] = Receivers(e) /\ called'[t] = {}
      /\ owed'[t] = {s \in Ids(subs) : \E i \in DOMAIN subs :
                       subs[i].id = s /\ pattern_matches(subs[i].pattern, e)}
                    \cup {s \in Ids(sinks) : \E i \in DOMAIN sinks :
                       sinks[i].id = s /\ matches(sinks[i].filter, e)}
  BY DEF publish, ShapeInv, BusShape
<1>3. /\ owed'[t] = called'[t] \cup {r.id : r \in queue'[t]}
      /\ \A r \in queue'[t] : r.rank \in Nat
  BY <1>2, ReceiversAreOwed
<1> QED  BY <1>1, <1>3 DEF BusInv

LEMMA CallBus ==
    ASSUME ShapeInv, BusInv, NEW t \in Threads, queue[t] # {}, HandlerReturns(t)
    PROVE  BusInv'
<1>1. \A q \in Threads \ {t} : UNCHANGED <<queue[q], owed[q], called[q]>>
  BY DEF HandlerReturns, ShapeInv, BusShape
<1>2. /\ queue'[t] = queue[t] \ {Foremost(t)} /\ owed'[t] = owed[t]
      /\ called'[t] = called[t] \cup {Foremost(t).id}
  BY DEF HandlerReturns, Receiver, ShapeInv, BusShape
<1>3. owed[t] = called[t] \cup {r.id : r \in queue[t]} /\ \A r \in queue[t] : r.rank \in Nat
  BY DEF BusInv
<1>4. owed'[t] = called'[t] \cup {r.id : r \in queue'[t]}
  BY <1>2, <1>3, ForemostQueued
<1> QED  BY <1>1, <1>2, <1>3, <1>4 DEF BusInv

LEMMA ReturnBus ==
    ASSUME ShapeInv, BusInv, NEW t \in Threads, queue[t] = {}, Published(t)
    PROVE  BusInv'
BY DEF Published, ShapeInv, BusShape, BusInv

\* The ways in which a step of thread t can move the bus.
BusMove(t) ==
    \/ UNCHANGED busvars
    \/ HandlerReturns(t) /\ queue[t] # {}
    \/ Published(t) /\ queue[t] = {}
    \/ \E e : publish(t, e) /\ (e.to = "COMPLETED" => e.about \in Tasks)

LEMMA BusStep ==
    ASSUME ShapeInv, BusInv, NEW t \in Threads, BusMove(t)
    PROVE  /\ BusShape' /\ BusInv'
           /\ \A q \in Threads \ {t} : event'[q] = event[q] /\ queue'[q] = queue[q]
<1>1. CASE UNCHANGED busvars
  BY <1>1 DEF busvars, dispatch, ShapeInv, BusShape, BusInv
<1>2. CASE HandlerReturns(t) /\ queue[t] # {}
  <2>1. BusInv'
    BY <1>2, CallBus
  <2> QED  BY <1>2, <2>1 DEF HandlerReturns, ShapeInv, BusShape
<1>3. CASE Published(t) /\ queue[t] = {}
  <2>1. BusInv'
    BY <1>3, ReturnBus
  <2>2. NoEvent.to # "COMPLETED"
    BY DEF NoEvent, Emit
  <2> QED  BY <1>3, <2>1, <2>2 DEF Published, ShapeInv, BusShape
<1>4. ASSUME NEW e, publish(t, e), e.to = "COMPLETED" => e.about \in Tasks
      PROVE  /\ BusShape' /\ BusInv'
             /\ \A q \in Threads \ {t} : event'[q] = event[q] /\ queue'[q] = queue[q]
  <2>1. BusInv'
    BY <1>4, PublishBus
  <2> QED  BY <1>4, <2>1 DEF publish, ShapeInv, BusShape
<1> QED  BY <1>1, <1>2, <1>3, <1>4 DEF BusMove

-----------------------------------------------------------------------------
(* What a step may do to rows, holders and threads *)

NewRow(i) ==
    \/ working'.row[i] = working.row[i] \/ working'.row[i] = NoRow
    \/ /\ working.row[i] \in Rows /\ working'.row[i].src = working.row[i].src
       /\ working'.row[i].by = working.row[i].by
    \/ \E t \in Threads :
          /\ i = held[t].id /\ working'.row[i].src = held[t].row.src
          /\ working'.row[i].by = held[t].row.by \/ (working'.row[i].by = t /\ Followed(t)')
    \/ \E t \in Threads :
          /\ i \in Unused /\ pc[t] = "insert"
          /\ working'.row[i].src = t /\ working'.row[i].by = "none"

NewHeld(t) ==
    \/ held'[t] = held[t]
    \/ held'[t].id = 0 /\ held'[t].row = NoRow
    \/ /\ held'[t].id \in retrieve(t) /\ working' = working
       /\ held'[t].row = working.row[held'[t].id]

Flow(t) ==
    /\ pc[t] \in {"expire_fts", "insert"} => Followed(t)'
    /\ t \in Tasks /\ pc'[t] \in Working \cup {"dispatch"} =>
          \/ pc[t] \in Working \cup {"dispatch"} /\ event'[t].to = event[t].to
          \/ pc'[t] = "dispatch" /\ event'[t].to = working'.task[t]
    /\ pc'[t] \in Working =>
          \/ pc[t] \in Working
          \/ pc[t] = "dispatch" /\ event[t].to \in {"COMPLETED", "none"}
    /\ t \in Tasks => \/ working'.task[t] = working.task[t]
                      \/ pc[t] = "idle" /\ working.task[t] = "VERIFYING"

Course ==
    /\ \A i \in MemIds : NewRow(i)
    /\ \A t \in Threads : NewHeld(t) /\ Flow(t)
    /\ working.born \subseteq working'.born /\ broken \subseteq broken' /\ undone' = undone
    /\ durable' = durable \/ (durable' = working' /\ Verifying' = {})

LEMMA Shapes ==
    ASSUME Inv
    PROVE  /\ working \in Db /\ durable \in Db /\ pc \in [Threads -> Steps]
           /\ unit \in [Actors -> {"out", "in", "raising"}] /\ hits \in [Threads -> SUBSET MemIds]
           /\ held \in [Threads -> Helds] /\ fresh \in [Threads -> MemIds \cup {0}]
           /\ DOMAIN left = Threads /\ \A q \in Threads : left[q] \in 0 .. MaxItems[q]
           /\ MaxItems \in [Threads -> Nat] /\ deleting \in MemIds \cup {0}
           /\ told \subseteq Tasks /\ broken \subseteq Sources
           /\ undone \in BOOLEAN /\ deleted \subseteq MemIds
           /\ working.row \in [MemIds -> Rows \cup {NoRow}] /\ working.fts \subseteq MemIds
           /\ durable.row \in [MemIds -> Rows \cup {NoRow}]
           /\ DOMAIN event = Threads /\ DOMAIN queue = Threads
BY MemoryAssumption, Columns DEF Inv, ShapeInv, TypeOK, Helds, BusShape

LEMMA Retrieved ==
    ASSUME Inv, NEW t \in Threads
    PROVE  \A i \in retrieve(t) : /\ i \in MemIds /\ working.row[i] \in Rows
                                   /\ Profile[working.row[i].src] = Profile[t]
BY Shapes DEF retrieve

\* The invariants a step with such a course keeps.
LEMMA CourseEarned ==
    ASSUME Inv, ShapeInv', Course
    PROVE  EarnedInv'
<1> SUFFICES ASSUME ~undone PROVE EarnedParts'
  BY DEF Course, EarnedInv
<1> USE DEF EarnedInv, EarnedParts
<1>0. /\ working \in Db /\ durable \in Db /\ working' \in Db /\ durable' \in Db
      /\ held \in [Threads -> Helds] /\ held' \in [Threads -> Helds]
  BY DEF Inv, ShapeInv, TypeOK, Helds
<1>1. \A k \in Tasks : working.task[k] = "COMPLETED" => working'.task[k] = "COMPLETED"
  BY Constants DEF Course, Flow
<1>2. \A row : Earned(working, row) => Earned(working', row)
  BY <1>1 DEF Earned
<1>3. \A i \in MemIds : Earned(working', working'.row[i])
  <2> TAKE i \in MemIds
  <2>1. Earned(working', working.row[i]) /\ \A t \in Threads : Earned(working', held[t].row)
    BY <1>2 DEF Inv, EarnedInv
  <2>2. ASSUME NEW t \in Threads, pc[t] = "insert", working'.row[i].src = t
        PROVE  Earned(working', working'.row[i])
    BY <2>2, <1>1 DEF Inv, EarnedInv, Working, Earned
  <2>3. Earned(working', NoRow)
    BY Constants, HeldValues DEF Earned, Sources
  <2> QED  BY <2>1, <2>2, <2>3 DEF Course, NewRow, Earned
<1>4. \A i \in MemIds : Earned(durable', durable'.row[i])
  BY <1>3 DEF Course, Inv, EarnedInv
<1>5. \A t \in Threads : Earned(working', held'[t].row)
  <2> TAKE t \in Threads
  <2>1. Earned(working', held[t].row) /\ \A i \in MemIds : Earned(working', working.row[i])
    BY <1>2 DEF Inv, EarnedInv
  <2>2. Earned(working', NoRow)
    BY Constants, HeldValues DEF Earned, Sources
  <2>3. \A i \in retrieve(t) : i \in MemIds
    BY Retrieved
  <2> QED  BY <2>1, <2>2, <2>3 DEF Course, NewHeld
<1>6. ASSUME NEW t \in Tasks
      PROVE  /\ pc'[t] \in Working \cup {"dispatch"} => event'[t].to = working'.task[t]
             /\ pc'[t] \in Working => working'.task[t] = "COMPLETED"
  <2>1. t \in Threads /\ Flow(t)
    BY Constants DEF Course
  <2>2. pc[t] \in Working \cup {"dispatch"} => working'.task[t] = working.task[t]
    BY <2>1 DEF Flow, Working
  <2>3. working.task[t] # "none"
    BY <1>0, Columns
  <2> QED  BY <2>1, <2>2, <2>3 DEF Flow, Inv, EarnedInv, Working
<1> QED  BY <1>3, <1>4, <1>5, <1>6

LEMMA CourseFollowed ==
    ASSUME Inv, ShapeInv', Course
    PROVE  FollowedInv'
<1> SUFFICES ASSUME ~undone PROVE FollowedParts'
  BY DEF Course, FollowedInv
<1> USE DEF FollowedInv, FollowedParts
<1>0. /\ working \in Db /\ durable \in Db /\ working' \in Db /\ durable' \in Db
      /\ held \in [Threads -> Helds] /\ held' \in [Threads -> Helds]
  BY DEF Inv, ShapeInv, TypeOK, Helds
<1>1. \A s \in Sources : Followed(s) => Followed(s)'
  BY Constants DEF Course, Flow, Followed
<1>2. \A i \in MemIds, s \in Sources : working'.row[i].by = s => Followed(s)'
  <2> SUFFICES ASSUME NEW i \in MemIds, NEW s \in Sources, working'.row[i].by = s
               PROVE  Followed(s)'
    OBVIOUS
  <2>1. working.row[i].by = s => Followed(s)'
    BY <1>1 DEF Inv, FollowedInv
  <2>2. \A t \in Threads : held[t].row.by = s => Followed(s)'
    BY <1>1 DEF Inv, FollowedInv
  <2>3. working'.row[i] # NoRow /\ working'.row[i].by # "none"
    BY Constants, HeldValues
  <2> QED  BY <2>1, <2>2, <2>3 DEF Course, NewRow
<1>3. \A t \in Threads, s \in Sources : held'[t].row.by = s => Followed(s)'
  <2> SUFFICES ASSUME NEW t \in Threads, NEW s \in Sources, held'[t].row.by = s
               PROVE  Followed(s)'
    OBVIOUS
  <2>1. held'[t].row # NoRow
    BY Constants, HeldValues
  <2>2. \A i \in retrieve(t) : i \in MemIds
    BY Retrieved
  <2>3. /\ held[t].row.by = s => Followed(s)'
        /\ \A i \in MemIds : working.row[i].by = s => Followed(s)'
    BY <1>1 DEF Inv, FollowedInv
  <2> QED  BY <2>1, <2>2, <2>3 DEF Course, NewHeld
<1>4. ASSUME NEW i \in MemIds, NEW s \in Sources, durable'.row[i].by = s
      PROVE  \/ s \in durable'.born \/ s \in broken' \/ s \in Turns \cap working'.born
             \/ s \in Turns /\ pc'[s] \in {"expire_fts", "insert"}
  <2>1. CASE durable' = durable
    <3>1. \/ s \in durable.born \/ s \in broken \/ s \in Turns \cap working.born
          \/ s \in Turns /\ pc[s] \in {"expire_fts", "insert"}
      BY <1>4, <2>1 DEF Inv
    <3>2. s \in Turns /\ pc[s] \in {"expire_fts", "insert"} => s \in Turns /\ Followed(s)'
      BY <1>1 DEF Followed
    <3> QED  BY <2>1, <3>1, <3>2 DEF Course, Followed
  <2>2. CASE durable' = working' /\ Verifying' = {}
    <3>1. Followed(s)'
      BY <1>2, <1>4, <2>2
    <3>2. pc'[s] \in {"expire_fts", "insert"} => s \in Turns
      BY <2>2, Constants DEF Verifying, Working
    <3> QED  BY <2>2, <3>1, <3>2 DEF Followed
  <2> QED  BY <2>1, <2>2 DEF Course
<1> QED  BY <1>2, <1>3, <1>4

\* An id that is not in use is nobody's; any other keeps the source it has.
LEMMA CourseProfile ==
    ASSUME Inv, ShapeInv', Course
    PROVE  ProfileInv'
<1>0. /\ working \in Db /\ working' \in Db /\ durable \in Db /\ durable' \in Db
      /\ held \in [Threads -> Helds] /\ held' \in [Threads -> Helds]
  BY DEF Inv, ShapeInv, TypeOK, Helds
<1> DEFINE Who == Sources \cup Before
<1>1. \A i \in MemIds : \A s, r \in Who : Known(i, s) /\ Known(i, r) => s = r
  BY DEF Inv, ProfileInv
<1>2. \A t \in Threads : held'[t].id # 0 =>
          /\ held'[t].id \in MemIds /\ Known(held'[t].id, held'[t].row.src)
          /\ Profile[held'[t].row.src] = Profile[t]
  <2> SUFFICES ASSUME NEW t \in Threads, held'[t].id # 0
               PROVE  /\ held'[t].id \in MemIds /\ Known(held'[t].id, held'[t].row.src)
                      /\ Profile[held'[t].row.src] = Profile[t]
    OBVIOUS
  <2>1. held'[t].id \in MemIds
    BY <1>0 DEF Helds
  <2>2. CASE held'[t] = held[t]
    BY <2>1, <2>2 DEF Inv, ProfileInv, Known
  <2>3. CASE /\ held'[t].id \in retrieve(t)
             /\ held'[t].row = working.row[held'[t].id]
    BY <2>1, <2>3 DEF retrieve, Known
  <2> QED  BY <2>1, <2>2, <2>3 DEF Course, NewHeld
<1>3. ASSUME NEW i \in MemIds, i \notin Unused, working'.row[i] # NoRow
      PROVE  Known(i, working'.row[i].src)
  BY <1>3, RowValues, HeldValues DEF Course, NewRow, Known
<1>4. ASSUME NEW i \in MemIds, i \in Unused, NEW s PROVE ~Known(i, s)
  BY <1>4 DEF Unused, Known
<1>5. ASSUME NEW i \in MemIds, i \notin Unused, NEW s, Known(i, s)' PROVE Known(i, s)
  <2>1. durable'.row[i] # NoRow /\ durable'.row[i].src = s => Known(i, s)
    BY <1>3, <1>5 DEF Course, Known
  <2>2. working'.row[i] # NoRow /\ working'.row[i].src = s => Known(i, s)
    BY <1>3, <1>5
  <2>3. ASSUME NEW t \in Threads, held'[t].id = i, held'[t].row.src = s PROVE Known(i, s)
    BY <1>2, <2>3, Constants
  <2> QED  BY <1>5, <2>1, <2>2, <2>3 DEF Known
<1>6. ASSUME NEW i \in MemIds, i \in Unused, NEW s, Known(i, s)' PROVE s = working'.row[i].src
  <2>1. durable.row[i] = NoRow
    BY <1>6 DEF Unused
  <2>2. ASSUME NEW t \in Threads, held'[t].id = i PROVE FALSE
    BY <1>2, <1>4, <1>6, <2>2, Constants
  <2> QED  BY <1>6, <2>1, <2>2 DEF Known, Course
<1>7. \A i \in MemIds : \A s, r \in Who : Known(i, s)' /\ Known(i, r)' => s = r
  <2> HIDE DEF Who
  <2> QED  BY <1>1, <1>5, <1>6
<1> QED  BY <1>2, <1>7 DEF ProfileInv

-----------------------------------------------------------------------------
(* Initial states *)

LEMMA InitInv == ASSUME Init PROVE Inv
<1> DEFINE rows == [i \in MemIds |-> CASE i = 1 -> Stored("earlier", "FACT")
                                       [] i = 2 -> Stored("foreign", "PREFERENCE")
                                       [] OTHER -> NoRow]
<1>1. /\ working.task = [k \in Tasks |-> "VERIFYING"] /\ working.fts = {1, 2}
      /\ working.born = {} /\ working.row = rows
      /\ working = [task |-> [k \in Tasks |-> "VERIFYING"], fts |-> {1, 2}, born |-> {},
                    row |-> rows]
  BY DEF Init
<1>2. /\ Stored("earlier", "FACT") \in Rows /\ Stored("foreign", "PREFERENCE") \in Rows
      /\ Stored("earlier", "FACT").src \notin Tasks
      /\ Stored("foreign", "PREFERENCE").src \notin Tasks
      /\ Stored("earlier", "FACT").by = "none" /\ Stored("foreign", "PREFERENCE").by = "none"
  BY Constants DEF Stored, Rows, Types, Before, Sources
<1>3. rows \in [MemIds -> Rows \cup {NoRow}]
      /\ \A i \in MemIds : rows[i].src \notin Tasks /\ rows[i].by = "none"
  BY <1>2, HeldValues, Constants DEF Sources
<1>4. working \in Db /\ durable = working
  <2>1. {1, 2} \in SUBSET MemIds
    BY MemoryAssumption
  <2> HIDE DEF rows
  <2> QED  BY <1>1, <1>3, <2>1 DEF Init, Db
<1>5. Verifying = {} /\ Saving = {} /\ Cardinality({}) = 0
  BY Constants, FS_EmptySet DEF Init, Verifying, Saving, Working
<1>6. Cardinality(Tasks) \in Nat /\ Cardinality(Actors) \in Nat
  BY Constants, FS_CardinalityType
<1>7. TypeOK
  <2>1. \A t \in Threads : left[t] \in 0 .. MaxItems[t]
    BY MemoryAssumption DEF Init
  <2>2. held \in [Threads -> Helds]
    BY HeldValues DEF Init
  <2>3. depth \in 0 .. Cardinality(Tasks) + Cardinality(Actors)
    BY <1>6 DEF Init
  <2>4. /\ pc \in [Threads -> Steps] /\ fresh \in [Threads -> MemIds \cup {0}]
        /\ hits \in [Threads -> SUBSET MemIds] /\ unit \in [Actors -> {"out", "in", "raising"}]
    BY DEF Init, Steps
  <2> QED  BY <1>4, <2>1, <2>2, <2>3, <2>4 DEF Init, TypeOK, Helds
<1>8. BusShape
  <2>1. subs \in Seq(Listeners)
    <3> DEFINE a == Subscription("x_task", "task", "state_changed", 10)
               b == Subscription("x_turn", "interaction", "conversation_turn", 10)
    <3>1. subs = <<a, b, Plugin, Stream>>
      BY DEF Init
    <3>2. a \in Listeners /\ b \in Listeners /\ Plugin \in Listeners /\ Stream \in Listeners
      BY DEF Listeners
    <3> HIDE DEF a, b
    <3> QED  BY <3>1, <3>2
  <2>2. sinks \in Seq({[id |-> "alarm", filter |-> HIGH]})
    BY DEF Init
  <2>3. NoEvent.to # "COMPLETED"
    BY DEF NoEvent, Emit
  <2> QED  BY <2>1, <2>2, <2>3 DEF Init, BusShape
<1>9. ShapeInv
  BY <1>7, <1>8 DEF Init, ShapeInv
<1>10. PlaceInv /\ BusInv /\ UnitInv
  <2>1. PlaceInv
    BY HeldValues DEF Init, PlaceInv, Place, Working
  <2>2. BusInv
    BY DEF Init, BusInv
  <2>3. UnitInv
    BY <1>5 DEF Init, UnitInv
  <2> QED  BY <2>1, <2>2, <2>3
<1>11. EarnedInv
  BY <1>1, <1>3, <1>4, HeldValues, Constants
     DEF Init, EarnedInv, EarnedParts, Earned, Working, Sources
<1>12. FollowedInv
  BY <1>1, <1>3, <1>4, HeldValues, Constants DEF Init, FollowedInv, FollowedParts
<1>13. ProfileInv
  <2>1. \A t \in Threads : held[t].id = 0
    BY HeldValues DEF Init
  <2> QED  BY <1>4, <2>1, Constants DEF ProfileInv, Known
<1> QED  BY <1>9, <1>10, <1>11, <1>12, <1>13 DEF Inv

-----------------------------------------------------------------------------
(* Units of work *)

LEMMA UnitsFinite ==
    ASSUME NEW U, IsFiniteSet(U), NEW S \in SUBSET U
    PROVE  /\ IsFiniteSet(S) /\ Cardinality(S) \in Nat /\ Cardinality(U) \in Nat
           /\ Cardinality(S) <= Cardinality(U)
           /\ Cardinality(S) = 0 => S = {}
           /\ \A t \in S : Cardinality(S \ {t}) = Cardinality(S) - 1
           /\ \A t \in U \ S : Cardinality(S \cup {t}) = Cardinality(S) + 1
<1>1. /\ IsFiniteSet(S) /\ Cardinality(S) \in Nat /\ Cardinality(U) \in Nat
      /\ Cardinality(S) <= Cardinality(U)
  BY FS_Subset, FS_CardinalityType
<1>2. Cardinality(S) = 0 => S = {}
  BY <1>1, FS_EmptySet
<1>3. \A t \in S : Cardinality(S \ {t}) = Cardinality(S) - 1
  BY <1>1, FS_RemoveElement
<1>4. \A t \in U \ S : Cardinality(S \cup {t}) = Cardinality(S) + 1
  BY <1>1, FS_AddElement
<1> QED  BY <1>1, <1>2, <1>3, <1>4

LEMMA UnitBound ==
    ASSUME NEW V \in SUBSET Tasks, NEW S \in SUBSET Actors
    PROVE  /\ Cardinality(V) \in Nat /\ Cardinality(S) \in Nat
           /\ Cardinality(V) + Cardinality(S) \in 0 .. Cardinality(Tasks) + Cardinality(Actors)
<1>1. /\ Cardinality(V) \in Nat /\ Cardinality(Tasks) \in Nat
      /\ Cardinality(V) <= Cardinality(Tasks)
  BY UnitsFinite, Constants
<1>2. /\ Cardinality(S) \in Nat /\ Cardinality(Actors) \in Nat
      /\ Cardinality(S) <= Cardinality(Actors)
  BY UnitsFinite, Constants
<1> QED  BY <1>1, <1>2

LEMMA UnitTypes ==
    /\ Verifying \in SUBSET Tasks /\ Saving \in SUBSET Actors
    /\ Cardinality(Verifying) \in Nat /\ Cardinality(Saving) \in Nat
<1>1. Verifying \in SUBSET Tasks /\ Saving \in SUBSET Actors
  BY DEF Verifying, Saving
<1> QED  BY <1>1, UnitBound

LEMMA DepthBound ==
    ASSUME UnitInv'
    PROVE  depth' \in 0 .. Cardinality(Tasks) + Cardinality(Actors)
<1>1. Verifying' \in SUBSET Tasks /\ Saving' \in SUBSET Actors
  BY DEF Verifying, Saving
<1> QED  BY <1>1, UnitBound DEF UnitInv

\* Thread t neither enters nor leaves verify()'s unit of work.
Stays(t) ==
    /\ \A q \in Threads \ {t} : pc'[q] = pc[q]
    /\ t \in Tasks =>
          (pc[t] \in Working \cup {"dispatch"}) = (pc'[t] \in Working \cup {"dispatch"})

LEMMA SameUnits ==
    ASSUME UnitInv, NEW t \in Threads, UNCHANGED uow, Stays(t)
    PROVE  UnitInv' /\ Verifying' = Verifying
<1>1. Verifying' = Verifying /\ Saving' = Saving
  BY Constants DEF Verifying, Saving, Stays, uow
<1> QED  BY <1>1 DEF UnitInv, uow

LEMMA EnterUnit ==
    ASSUME Inv, NEW u \in Actors, NEW db, NEW how \in {"in", "raising"}, Enter(u, db, how),
           Verifying' = Verifying
    PROVE  /\ UnitInv' /\ unit' \in [Actors -> {"out", "in", "raising"}]
           /\ working' = db /\ durable' = durable
<1>1. unit[u] = "out" /\ unit' = [unit EXCEPT ![u] = how] /\ depth' = depth + 1
  BY DEF Enter
<1>2. unit \in [Actors -> {"out", "in", "raising"}]
  BY Shapes
<1>3. Saving' = Saving \cup {u} /\ u \in Actors \ Saving
  BY <1>1, <1>2 DEF Saving
<1>4. Cardinality(Saving') = Cardinality(Saving) + 1
  BY <1>3, UnitTypes, UnitsFinite, Constants
<1>5. UnitInv'
  BY <1>1, <1>4, UnitTypes DEF Inv, UnitInv
<1> QED  BY <1>1, <1>2, <1>5 DEF Enter

LEMMA LeaveUnit ==
    ASSUME Inv, NEW u \in Actors, unit[u] # "out", unit' = [unit EXCEPT ![u] = "out"],
           depth' = depth - 1, Verifying' = Verifying
    PROVE  /\ UnitInv' /\ unit' \in [Actors -> {"out", "in", "raising"}]
           /\ depth = 1 => Verifying = {}
<1>1. unit \in [Actors -> {"out", "in", "raising"}]
  BY Shapes
<1>2. Saving' = Saving \ {u} /\ u \in Saving
  BY <1>1 DEF Saving
<1>3. Cardinality(Saving') = Cardinality(Saving) - 1 /\ Cardinality(Saving') \in Nat
  <2>1. Cardinality(Saving \ {u}) = Cardinality(Saving) - 1
    BY <1>2, UnitTypes, UnitsFinite, Constants
  <2>2. Saving \ {u} \in SUBSET Actors
    BY UnitTypes
  <2>3. Cardinality(Saving \ {u}) \in Nat
    BY <2>2, UnitsFinite, Constants
  <2> QED  BY <1>2, <2>1, <2>3
<1>4. UnitInv'
  BY <1>3, UnitTypes DEF Inv, UnitInv
<1>5. depth = 1 => Cardinality(Verifying) = 0
  BY <1>3, UnitTypes DEF Inv, UnitInv
<1>6. Cardinality(Verifying) = 0 => Verifying = {}
  BY UnitTypes, UnitsFinite, Constants
<1> QED  BY <1>1, <1>4, <1>5, <1>6

-----------------------------------------------------------------------------
(* Steps of one thread *)

\* What a step of thread t may do to the database ...
StoreCourse(t) ==
    /\ working' \in Db /\ durable' \in Db /\ UnitInv'
    /\ unit' \in [Actors -> {"out", "in", "raising"}]
    /\ \A i \in MemIds : NewRow(i)
    /\ working.born \subseteq working'.born
    /\ \A k \in Tasks \ {t} : working'.task[k] = working.task[k]
    /\ durable' = durable \/ (durable' = working' /\ Verifying' = {})

\* ... and to what t keeps of its own.
ThreadCourse(t) ==
    /\ BusMove(t)
    /\ pc' \in [Threads -> Steps] /\ held' \in [Threads -> Helds]
    /\ hits' \in [Threads -> SUBSET MemIds]
    /\ fresh' \in [Threads -> MemIds \cup {0}] /\ DOMAIN left' = Threads
    /\ \A q \in Threads : left'[q] \in 0 .. MaxItems[q]
    /\ \A q \in Threads \ {t} : /\ pc'[q] = pc[q] /\ held'[q] = held[q]
                                /\ fresh'[q] = fresh[q]
    /\ NewHeld(t) /\ Place(t)'

LEMMA ThreadStep ==
    ASSUME Inv, NEW t \in Threads, StoreCourse(t), ThreadCourse(t), Flow(t),
           told' \subseteq Tasks, broken' \subseteq Sources, broken \subseteq broken',
           UNCHANGED <<deleting, undone, deleted>>
    PROVE  Inv'
<1>1. /\ BusShape' /\ BusInv'
      /\ \A q \in Threads \ {t} : event'[q] = event[q] /\ queue'[q] = queue[q]
  BY BusStep DEF Inv, ThreadCourse
<1>2. PlaceInv'
  BY <1>1 DEF Inv, PlaceInv, Place, ThreadCourse
<1>3. TypeOK'
  <2>1. depth' \in 0 .. Cardinality(Tasks) + Cardinality(Actors)
    BY DepthBound DEF StoreCourse
  <2>2. deleting' \in MemIds \cup {0} /\ undone' \in BOOLEAN /\ deleted' \subseteq MemIds
    BY Shapes
  <2> QED  BY <2>1, <2>2 DEF TypeOK, Helds, StoreCourse, ThreadCourse
<1>4. ShapeInv'
  BY <1>1, <1>3 DEF ShapeInv, Inv, ThreadCourse
<1>5. Course
  <2>1. \A q \in Threads : NewHeld(q)
    BY DEF ThreadCourse, NewHeld
  <2>2. \A q \in Threads : Flow(q)
    <3> SUFFICES ASSUME NEW q \in Threads \ {t} PROVE Flow(q)
      OBVIOUS
    <3>1. pc'[q] = pc[q] /\ event'[q] = event[q]
      BY <1>1 DEF ThreadCourse
    <3>2. q \in Tasks => working'.task[q] = working.task[q]
      BY DEF StoreCourse
    <3> QED  BY <3>1, <3>2 DEF Flow, Followed
  <2> QED  BY <2>1, <2>2 DEF Course, StoreCourse
<1> QED  BY <1>1, <1>2, <1>4, <1>5, CourseEarned, CourseFollowed, CourseProfile
         DEF Inv, StoreCourse

LEMMA SameStore ==
    ASSUME Inv, NEW t \in Threads, UNCHANGED <<store, uow>>, Stays(t)
    PROVE  StoreCourse(t)
<1>1. UnitInv'
  BY SameUnits DEF Inv
<1> QED  BY <1>1, Shapes DEF store, uow, StoreCourse, NewRow

LEMMA GotoMoves ==
    ASSUME Inv, NEW t \in Threads, NEW p \in Steps, Goto(t, p)
    PROVE  /\ pc' \in [Threads -> Steps] /\ pc'[t] = p
           /\ \A q \in Threads \ {t} : pc'[q] = pc[q]
BY Shapes DEF Goto

\* A handler ends, by itself or with an exception.
LEMMA FinishCourse ==
    ASSUME Inv, NEW t \in Threads, pc[t] \in Working, Finish(t, HandlerReturns(t))
    PROVE  /\ ThreadCourse(t) /\ pc'[t] = "dispatch" /\ event' = event
<1>1. queue[t] # {} /\ HandlerReturns(t)
  BY DEF Inv, PlaceInv, Place, Finish
<1>2. BusMove(t) /\ event' = event
  BY <1>1 DEF BusMove, HandlerReturns
<1>3. /\ pc' \in [Threads -> Steps] /\ pc'[t] = "dispatch"
      /\ \A q \in Threads \ {t} : pc'[q] = pc[q]
  BY GotoMoves DEF Finish, Steps
<1>4. /\ held' \in [Threads -> Helds] /\ held'[t] = NoHeld
      /\ fresh' \in [Threads -> MemIds \cup {0}] /\ fresh'[t] = 0
      /\ hits' \in [Threads -> SUBSET MemIds]
      /\ \A q \in Threads \ {t} : held'[q] = held[q] /\ fresh'[q] = fresh[q]
  BY Shapes, HeldValues DEF Finish, Forget
<1>5. DOMAIN left' = Threads /\ \A q \in Threads : left'[q] \in 0 .. MaxItems[q]
  BY Shapes DEF Finish
<1>6. NewHeld(t) /\ Place(t)'
  BY <1>3, <1>4, HeldValues DEF NewHeld, Place, Working
<1> QED  BY <1>2, <1>3, <1>4, <1>5, <1>6 DEF ThreadCourse

\* A step that only moves the thread on.
LEMMA MoveCourse ==
    ASSUME Inv, NEW t \in Threads, NEW p \in Steps, Goto(t, p), BusMove(t),
           UNCHANGED locals, Place(t)'
    PROVE  ThreadCourse(t) /\ pc'[t] = p
<1>1. /\ pc' \in [Threads -> Steps] /\ pc'[t] = p
      /\ \A q \in Threads \ {t} : pc'[q] = pc[q]
  BY GotoMoves
<1> QED  BY <1>1, Shapes DEF ThreadCourse, NewHeld, locals

-----------------------------------------------------------------------------
(* Publishers *)

LEMMA conversation_turnInv == ASSUME Inv, NEW t \in Threads, conversation_turn(t) PROVE Inv'
<1>1. /\ pc[t] = "idle" /\ t \in Turns /\ t \notin Tasks
      /\ publish(t, InteractionChannel(t)) /\ Goto(t, "dispatch") /\ "dispatch" \in Steps
      /\ UNCHANGED <<store, uow, locals, deleting, bounds, ghosts>>
  BY Constants DEF conversation_turn, At, Steps
<1>2. BusMove(t)
  <2>1. InteractionChannel(t).to # "COMPLETED"
    BY DEF InteractionChannel, Emit
  <2> QED  BY <1>1, <2>1 DEF BusMove
<1>3. /\ pc' \in [Threads -> Steps] /\ pc'[t] = "dispatch"
      /\ \A q \in Threads \ {t} : pc'[q] = pc[q]
  BY <1>1, GotoMoves
<1>4. Place(t)'
  BY <1>1, <1>3 DEF Inv, PlaceInv, Place, Working, locals
<1>5. ThreadCourse(t)
  BY <1>1, <1>2, <1>4, MoveCourse
<1>6. StoreCourse(t)
  <2>1. Stays(t)
    BY <1>1, <1>3 DEF Stays, Working
  <2> QED  BY <1>1, <2>1, SameStore
<1>7. Flow(t)
  BY <1>1, <1>3 DEF Flow, Working
<1> QED  BY <1>1, <1>5, <1>6, <1>7, ThreadStep, Shapes DEF ghosts

LEMMA verifyInv == ASSUME Inv, NEW t \in Threads, verify(t) PROVE Inv'
<1>1. PICK state \in {"COMPLETED", "FAILED"} :
          /\ working' = [working EXCEPT !.task[t] = state]
          /\ publish(t, TaskChannel(t, state))
  BY DEF verify
<1>2. /\ pc[t] = "idle" /\ t \in Tasks /\ working.task[t] = "VERIFYING" /\ depth' = depth + 1
      /\ Goto(t, "dispatch") /\ "dispatch" \in Steps
      /\ UNCHANGED <<durable, unit, locals, deleting, bounds, ghosts>>
  BY DEF verify, At, Steps
<1>3. TaskChannel(t, state).about = t /\ TaskChannel(t, state).to = state
  BY DEF TaskChannel, Emit
<1>4. BusMove(t) /\ event'[t].to = state
  <2>1. BusMove(t)
    BY <1>1, <1>2, <1>3 DEF BusMove
  <2>2. event'[t] = TaskChannel(t, state)
    BY <1>1, Shapes DEF publish
  <2> QED  BY <1>3, <2>1, <2>2
<1>5. /\ pc' \in [Threads -> Steps] /\ pc'[t] = "dispatch"
      /\ \A q \in Threads \ {t} : pc'[q] = pc[q]
  BY <1>2, GotoMoves
<1>6. Place(t)'
  BY <1>2, <1>5 DEF Inv, PlaceInv, Place, Working, locals
<1>7. ThreadCourse(t)
  BY <1>2, <1>4, <1>6, MoveCourse
<1>8. /\ working' \in Db /\ working'.row = working.row /\ working'.fts = working.fts
      /\ working'.born = working.born /\ working'.task = [working.task EXCEPT ![t] = state]
  <2> DEFINE new == [working EXCEPT !.task[t] = state]
  <2>1. /\ new \in Db /\ new.row = working.row /\ new.task = [working.task EXCEPT ![t] = state]
        /\ new.fts = working.fts /\ new.born = working.born
    <3>1. working \in Db /\ t \in Tasks /\ state \in {"COMPLETED", "FAILED"}
      BY <1>2, Shapes
    <3> QED  BY <3>1, TaskSaved
  <2> QED  BY <1>1, <2>1
<1>9. UnitInv' /\ unit' \in [Actors -> {"out", "in", "raising"}]
  <2>1. t \in Tasks \ Verifying
    BY <1>2 DEF Verifying, Working
  <2>2. Verifying' = Verifying \cup {t} /\ Saving' = Saving
    BY <1>2, <1>5, Constants DEF Verifying, Saving, Working
  <2>3. Cardinality(Verifying') = Cardinality(Verifying) + 1
    BY <2>1, <2>2, UnitTypes, UnitsFinite, Constants
  <2> QED  BY <1>2, <2>2, <2>3, UnitTypes, Shapes DEF Inv, UnitInv
<1>10. working'.task[t] = state /\ \A k \in Tasks \ {t} : working'.task[k] = working.task[k]
  BY <1>2, <1>8, Columns, Shapes
<1>11. StoreCourse(t)
  BY <1>2, <1>8, <1>9, <1>10, Shapes DEF StoreCourse, NewRow
<1>12. Flow(t)
  BY <1>2, <1>4, <1>5, <1>10 DEF Flow, Working
<1> QED  BY <1>2, <1>7, <1>11, <1>12, ThreadStep, Shapes DEF ghosts

LEMMA OtherEventInv == ASSUME Inv, NEW t \in Threads, OtherEvent(t) PROVE Inv'
<1>1. PICK e \in OtherChannels : publish(t, e)
  BY DEF OtherEvent
<1>2. /\ pc[t] = "idle" /\ Goto(t, "other") /\ "other" \in Steps
      /\ UNCHANGED <<store, uow, locals, deleting, ghosts>>
  BY DEF OtherEvent, At, Steps
<1>3. BusMove(t)
  <2>1. e.to = "none"
    BY DEF OtherChannels, Emit
  <2> QED  BY <1>1, <2>1 DEF BusMove
<1>4. /\ pc' \in [Threads -> Steps] /\ pc'[t] = "other"
      /\ \A q \in Threads \ {t} : pc'[q] = pc[q]
  BY <1>2, GotoMoves
<1>5. Place(t)'
  BY <1>2, <1>4 DEF Inv, PlaceInv, Place, Working, locals
<1>6. ThreadCourse(t)
  BY <1>2, <1>3, <1>5, MoveCourse
<1>7. StoreCourse(t)
  <2>1. Stays(t)
    BY <1>2, <1>4 DEF Stays, Working
  <2> QED  BY <1>2, <2>1, SameStore
<1>8. Flow(t)
  BY <1>2, <1>4 DEF Flow, Working, store
<1> QED  BY <1>2, <1>6, <1>7, <1>8, ThreadStep, Shapes DEF ghosts

LEMMA ResumeInv == ASSUME Inv, NEW t \in Threads, Resume(t) PROVE Inv'
<1>1. /\ pc[t] = "other" /\ Goto(t, "idle") /\ "idle" \in Steps /\ queue[t] = {} /\ Published(t)
      /\ UNCHANGED <<store, uow, locals, deleting, bounds, ghosts>>
  BY DEF Resume, At, Steps
<1>2. /\ pc' \in [Threads -> Steps] /\ pc'[t] = "idle"
      /\ \A q \in Threads \ {t} : pc'[q] = pc[q]
  BY <1>1, GotoMoves
<1>3. Place(t)'
  BY <1>1, <1>2 DEF Inv, PlaceInv, Place, Working, locals
<1>4. ThreadCourse(t)
  BY <1>1, <1>3, MoveCourse DEF BusMove
<1>5. StoreCourse(t)
  <2>1. Stays(t)
    BY <1>1, <1>2 DEF Stays, Working
  <2> QED  BY <1>1, <2>1, SameStore
<1>6. Flow(t)
  BY <1>1, <1>2 DEF Flow, Working, store
<1> QED  BY <1>1, <1>4, <1>5, <1>6, ThreadStep, Shapes DEF ghosts

\* The unit of work that ends commits only as the last one.
LEMMA ReturnInv == ASSUME Inv, NEW t \in Threads, Return(t) PROVE Inv'
<1>1. /\ pc[t] = "dispatch" /\ Goto(t, "done") /\ "done" \in Steps /\ queue[t] = {} /\ Published(t)
      /\ UNCHANGED <<working, unit, locals, deleting, bounds, ghosts>>
  BY DEF Return, At, Steps
<1>2. /\ pc' \in [Threads -> Steps] /\ pc'[t] = "done"
      /\ \A q \in Threads \ {t} : pc'[q] = pc[q]
  BY <1>1, GotoMoves
<1>3. Place(t)'
  BY <1>1, <1>2 DEF Inv, PlaceInv, Place, Working, locals
<1>4. ThreadCourse(t)
  BY <1>1, <1>3, MoveCourse DEF BusMove
<1>5. StoreCourse(t)
  <2>1. CASE t \in Tasks
    <3>1. t \in Verifying
      BY <1>1, <2>1 DEF Verifying
    <3>2. Verifying' = Verifying \ {t} /\ Saving' = Saving
      BY <1>1, <1>2, <2>1, Constants DEF Verifying, Saving, Working
    <3>3. depth' = depth - 1 /\ durable' = IF depth = 1 THEN working ELSE durable
      BY <2>1 DEF Return, Leave
    <3>4. Verifying' \in SUBSET Tasks /\ Cardinality(Verifying') = Cardinality(Verifying) - 1
      BY <3>1, <3>2, UnitTypes, UnitsFinite, Constants
    <3>5. Cardinality(Verifying') \in Nat /\ (Cardinality(Verifying') = 0 => Verifying' = {})
      BY <3>4, UnitsFinite, Constants
    <3>6. UnitInv'
      BY <3>2, <3>3, <3>4, UnitTypes DEF Inv, UnitInv
    <3>7. depth = 1 => Verifying' = {}
      BY <3>4, <3>5, UnitTypes DEF Inv, UnitInv
    <3> QED  BY <1>1, <3>3, <3>6, <3>7, Shapes DEF StoreCourse, NewRow
  <2>2. CASE t \notin Tasks
    <3>1. UNCHANGED <<depth, durable>>
      BY <2>2 DEF Return
    <3>2. Stays(t)
      BY <1>2, <2>2 DEF Stays
    <3> QED  BY <1>1, <3>1, <3>2, SameStore DEF store, uow
  <2> QED  BY <2>1, <2>2
<1>6. Flow(t)
  BY <1>1, <1>2 DEF Flow, Working
<1> QED  BY <1>1, <1>4, <1>5, <1>6, ThreadStep, Shapes DEF ghosts

-----------------------------------------------------------------------------
(* Listeners and the extractor *)

LEMMA DeliverInv == ASSUME Inv, NEW t \in Threads, Deliver(t) PROVE Inv'
<1>1. /\ pc[t] \in {"dispatch", "other"} /\ queue[t] # {} /\ HandlerReturns(t)
      /\ told' = IF event[t].to = "COMPLETED" THEN told \cup {event[t].about} ELSE told
      /\ UNCHANGED <<store, uow, pc, locals, deleting, bounds, broken, undone, deleted>>
  BY DEF Deliver, HandlerRaises, thread, At
<1>2. BusMove(t) /\ event' = event
  BY <1>1 DEF BusMove, HandlerReturns
<1>3. Place(t)'
  BY <1>1 DEF Inv, PlaceInv, Place, Working, locals
<1>4. ThreadCourse(t)
  BY <1>1, <1>2, <1>3, Shapes DEF ThreadCourse, NewHeld, locals
<1>5. StoreCourse(t)
  <2>1. Stays(t)
    BY <1>1 DEF Stays, Working
  <2> QED  BY <1>1, <2>1, SameStore
<1>6. Flow(t)
  BY <1>1, <1>2 DEF Flow, Working, store
<1>7. told' \subseteq Tasks
  BY <1>1, Shapes DEF Inv, ShapeInv, BusShape
<1> QED  BY <1>1, <1>4, <1>5, <1>6, <1>7, ThreadStep, Shapes

LEMMA ConsiderInv == ASSUME Inv, NEW t \in Threads, Consider(t) PROVE Inv'
<1>1. /\ pc[t] = "dispatch" /\ queue[t] # {}
      /\ UNCHANGED <<store, uow, locals, deleting, bounds, ghosts>>
  BY DEF Consider, At
<1>2. CASE /\ event[t].to \in {"COMPLETED", "none"} /\ Goto(t, "extract") /\ UNCHANGED busvars
  <2>1. /\ pc' \in [Threads -> Steps] /\ pc'[t] = "extract"
        /\ \A q \in Threads \ {t} : pc'[q] = pc[q]
    BY <1>2, GotoMoves DEF Steps
  <2>2. queue' = queue /\ event' = event /\ BusMove(t)
    BY <1>2 DEF BusMove, busvars, dispatch
  <2>3. Place(t)'
    BY <1>1, <2>1, <2>2 DEF Inv, PlaceInv, Place, Working, locals
  <2>4. ThreadCourse(t)
    BY <1>1, <1>2, <2>2, <2>3, MoveCourse DEF Steps
  <2>5. StoreCourse(t)
    <3>1. Stays(t)
      BY <1>1, <2>1 DEF Stays, Working
    <3> QED  BY <1>1, <3>1, SameStore
  <2>6. Flow(t)
    BY <1>1, <1>2, <2>1, <2>2 DEF Flow, Working, store
  <2> QED  BY <1>1, <2>4, <2>5, <2>6, ThreadStep, Shapes DEF ghosts
<1>3. CASE HandlerReturns(t) /\ UNCHANGED pc
  <2>1. BusMove(t) /\ event' = event
    BY <1>1, <1>3 DEF BusMove, HandlerReturns
  <2>2. Place(t)'
    BY <1>1, <1>3 DEF Inv, PlaceInv, Place, Working, locals
  <2>3. ThreadCourse(t)
    BY <1>1, <1>3, <2>1, <2>2, Shapes DEF ThreadCourse, NewHeld, locals
  <2>4. StoreCourse(t)
    <3>1. Stays(t)
      BY <1>1, <1>3 DEF Stays, Working
    <3> QED  BY <1>1, <3>1, SameStore
  <2>5. Flow(t)
    BY <1>1, <1>3, <2>1 DEF Flow, Working, store
  <2> QED  BY <1>1, <2>3, <2>4, <2>5, ThreadStep, Shapes DEF ghosts
<1> QED  BY <1>2, <1>3 DEF Consider

\* A handler that ends without a save.
LEMMA GivesUp ==
    ASSUME Inv, NEW t \in Threads, pc[t] \in {"extract", "judge"}, Finish(t, HandlerReturns(t)),
           UNCHANGED <<store, uow, deleting, ghosts>>
    PROVE  Inv'
<1>1. ThreadCourse(t) /\ pc'[t] = "dispatch" /\ event' = event
  BY FinishCourse DEF Working
<1>2. StoreCourse(t)
  <2>1. Stays(t)
    BY <1>1 DEF Stays, ThreadCourse, Working
  <2> QED  BY <2>1, SameStore
<1>3. Flow(t)
  BY <1>1 DEF Flow, Working, store
<1> QED  BY <1>1, <1>2, <1>3, ThreadStep, Shapes DEF ghosts

LEMMA extractInv == ASSUME Inv, NEW t \in Threads, extract(t) PROVE Inv'
<1>1. pc[t] = "extract" /\ UNCHANGED <<store, uow, deleting, bounds, ghosts>>
  BY DEF extract, At
<1>2. CASE Finish(t, HandlerRaises(t) \/ HandlerReturns(t))
  <2>1. Finish(t, HandlerReturns(t))
    BY <1>2 DEF Finish, HandlerRaises
  <2> QED  BY <1>1, <2>1, GivesUp
<1>3. ASSUME NEW n \in 1 .. MaxItems[t], left' = [left EXCEPT ![t] = n],
             Goto(t, "search"), UNCHANGED <<busvars, hits, held, fresh>>
      PROVE  Inv'
  <2>1. /\ pc' \in [Threads -> Steps] /\ pc'[t] = "search"
        /\ \A q \in Threads \ {t} : pc'[q] = pc[q]
    BY <1>3, GotoMoves DEF Steps
  <2>2. queue' = queue /\ event' = event /\ BusMove(t)
    BY <1>3 DEF BusMove, busvars, dispatch
  <2>3. Place(t)'
    BY <1>1, <1>3, <2>1, <2>2 DEF Inv, PlaceInv, Place, Working, locals
  <2>4. DOMAIN left' = Threads /\ \A q \in Threads : left'[q] \in 0 .. MaxItems[q]
    BY <1>3, Shapes
  <2>5. ThreadCourse(t)
    BY <1>3, <2>1, <2>2, <2>3, <2>4, Shapes DEF ThreadCourse, NewHeld, locals
  <2>6. StoreCourse(t)
    <3>1. Stays(t)
      BY <1>1, <2>1 DEF Stays, Working
    <3> QED  BY <1>1, <3>1, SameStore
  <2>7. Flow(t)
    BY <1>1, <2>1, <2>2 DEF Flow, Working, store
  <2> QED  BY <1>1, <2>5, <2>6, <2>7, ThreadStep, Shapes DEF ghosts
<1> QED  BY <1>2, <1>3 DEF extract

\* The index is read; the thread keeps what it found.
LEMMA searchInv == ASSUME Inv, NEW t \in Threads, search(t) PROVE Inv'
<1>1. /\ pc[t] = "search" /\ hits' = [hits EXCEPT ![t] = working.fts] /\ Goto(t, "judge")
      /\ UNCHANGED <<busvars, left, held, fresh, store, uow, deleting, bounds, ghosts>>
  BY DEF search, At
<1>2. /\ pc' \in [Threads -> Steps] /\ pc'[t] = "judge"
      /\ \A q \in Threads \ {t} : pc'[q] = pc[q]
  BY <1>1, GotoMoves DEF Steps
<1>3. queue' = queue /\ event' = event /\ BusMove(t)
  BY <1>1 DEF BusMove, busvars, dispatch
<1>4. Place(t)'
  BY <1>1, <1>2, <1>3 DEF Inv, PlaceInv, Place, Working
<1>5. hits' \in [Threads -> SUBSET MemIds]
  BY <1>1, Shapes
<1>6. ThreadCourse(t)
  BY <1>1, <1>2, <1>3, <1>4, <1>5, Shapes DEF ThreadCourse, NewHeld
<1>7. StoreCourse(t)
  <2>1. Stays(t)
    BY <1>1, <1>2 DEF Stays, Working
  <2> QED  BY <1>1, <2>1, SameStore
<1>8. Flow(t)
  BY <1>1, <1>2, <1>3 DEF Flow, Working, store
<1> QED  BY <1>1, <1>6, <1>7, <1>8, ThreadStep, Shapes DEF ghosts

LEMMA judgeInv == ASSUME Inv, NEW t \in Threads, judge(t) PROVE Inv'
<1>1. pc[t] = "judge" /\ UNCHANGED <<store, uow, deleting, bounds, ghosts>>
  BY DEF judge, At
\* The proposal is new, or it is a pair with a memory of the thread's profile.
<1>2. ASSUME NEW h \in Helds, NEW p \in {"insert", "bump", "expire"},
             held' = [held EXCEPT ![t] = h], Goto(t, p), UNCHANGED <<busvars, left, hits, fresh>>,
             h.type \in Types, h.id = 0 => p = "insert",
             \/ h.id = 0 /\ h.row = NoRow
             \/ h.id \in retrieve(t) /\ h.row = working.row[h.id]
      PROVE  Inv'
  <2>1. /\ pc' \in [Threads -> Steps] /\ pc'[t] = p
        /\ \A q \in Threads \ {t} : pc'[q] = pc[q]
    BY <1>2, GotoMoves DEF Steps
  <2>2. queue' = queue /\ event' = event /\ BusMove(t)
    BY <1>2 DEF BusMove, busvars, dispatch
  <2>3. /\ held' \in [Threads -> Helds] /\ held'[t] = h
        /\ \A q \in Threads \ {t} : held'[q] = held[q]
    BY <1>2, Shapes
  <2>4. h.id # 0 => h.row \in Rows
    BY <1>2, Retrieved
  <2>5. Place(t)'
    BY <1>1, <1>2, <2>1, <2>2, <2>3, <2>4 DEF Inv, PlaceInv, Place, Working
  <2>6. NewHeld(t)
    BY <1>1, <1>2, <2>3 DEF NewHeld, store
  <2>7. ThreadCourse(t)
    BY <1>2, <2>1, <2>2, <2>3, <2>5, <2>6, Shapes DEF ThreadCourse
  <2>8. StoreCourse(t)
    <3>1. Stays(t)
      BY <1>1, <2>1 DEF Stays, Working
    <3> QED  BY <1>1, <3>1, SameStore
  <2>9. Flow(t)
    BY <1>1, <2>1, <2>2 DEF Flow, Working, store
  <2> QED  BY <1>1, <2>7, <2>8, <2>9, ThreadStep, Shapes DEF ghosts
<1>3. ASSUME Finish(t, HandlerRaises(t)) PROVE Inv'
  BY <1>1, <1>3, GivesUp DEF HandlerRaises
<1> SUFFICES ASSUME NEW type \in Types,
        LET found == {i \in retrieve(t) : working.row[i].type = type}
        IN \/ /\ held' = [held EXCEPT ![t] = [NoHeld EXCEPT !.type = type]]
              /\ Goto(t, "insert") /\ UNCHANGED <<busvars, left, hits, fresh>>
           \/ \E i \in found :
              /\ held' = [held EXCEPT ![t] = [id |-> i, row |-> working.row[i], type |-> type]]
              /\ Goto(t, "bump") \/ Goto(t, "expire")
              /\ UNCHANGED <<busvars, left, hits, fresh>>
           \/ found # {} /\ Finish(t, HandlerRaises(t))
             PROVE Inv'
  BY DEF judge
<1>4. CASE /\ held' = [held EXCEPT ![t] = [NoHeld EXCEPT !.type = type]]
           /\ Goto(t, "insert") /\ UNCHANGED <<busvars, left, hits, fresh>>
  <2> DEFINE h == [NoHeld EXCEPT !.type = type]
  <2>1. h \in Helds /\ h.id = 0 /\ h.row = NoRow /\ h.type = type
    BY HeldValues
  <2> HIDE DEF h
  <2>2. held' = [held EXCEPT ![t] = h]
    BY <1>4 DEF h
  <2> QED  BY <1>2, <1>4, <2>1, <2>2
<1>5. ASSUME NEW i \in retrieve(t),
             held' = [held EXCEPT ![t] = [id |-> i, row |-> working.row[i], type |-> type]],
             Goto(t, "bump") \/ Goto(t, "expire"), UNCHANGED <<busvars, left, hits, fresh>>
      PROVE  Inv'
  <2> DEFINE h == [id |-> i, row |-> working.row[i], type |-> type]
  <2>1. i \in MemIds /\ working.row[i] \in Rows /\ i # 0
    BY Retrieved, Constants
  <2>2. h \in Helds /\ h.id = i /\ h.row = working.row[i] /\ h.type = type
    BY <2>1, HeldValues
  <2> HIDE DEF h
  <2>3. held' = [held EXCEPT ![t] = h]
    BY <1>5 DEF h
  <2> QED  BY <1>2, <1>5, <2>1, <2>2, <2>3
<1> QED  BY <1>3, <1>4, <1>5

-----------------------------------------------------------------------------
(* The saves of the broker *)

\* A step that saves and stays inside the handler, or ends it.
LEMMA SaveStep ==
    ASSUME Inv, NEW t \in Threads, pc[t] \in Working, pc'[t] \in Working \cup {"dispatch"},
           ThreadCourse(t), event' = event, NEW db \in Db, Save(t, db), Rest,
           db.task = working.task, working.born \subseteq db.born,
           \A i \in MemIds : NewRow(i),
           pc[t] \in {"expire_fts", "insert"} => Followed(t)'
    PROVE  Inv'
<1>1. Verifying' = Verifying
  BY Constants DEF Verifying, ThreadCourse
<1>2. /\ UnitInv' /\ unit' \in [Actors -> {"out", "in", "raising"}]
      /\ working' = db /\ durable' = durable
  BY <1>1, EnterUnit, Constants DEF Save
<1>3. StoreCourse(t)
  BY <1>2, Shapes DEF StoreCourse
<1>4. Flow(t)
  BY <1>2 DEF Flow
<1> QED  BY <1>3, <1>4, ThreadStep, Shapes DEF Rest, ghosts

LEMMA NextItemCourse ==
    ASSUME Inv, NEW t \in Threads, pc[t] \in Working, NextItem(t)
    PROVE  ThreadCourse(t) /\ pc'[t] \in {"search", "dispatch"} /\ event' = event
<1>1. CASE left[t] > 1
  <2>1. /\ left' = [left EXCEPT ![t] = @ - 1] /\ Goto(t, "search")
        /\ Forget(t) /\ UNCHANGED busvars
    BY <1>1 DEF NextItem
  <2>2. /\ pc' \in [Threads -> Steps] /\ pc'[t] = "search"
        /\ \A q \in Threads \ {t} : pc'[q] = pc[q]
    BY <2>1, GotoMoves DEF Steps
  <2>3. queue' = queue /\ event' = event /\ BusMove(t)
    BY <2>1 DEF BusMove, busvars, dispatch
  <2>4. /\ held' \in [Threads -> Helds] /\ held'[t] = NoHeld
        /\ fresh' \in [Threads -> MemIds \cup {0}] /\ fresh'[t] = 0
        /\ hits' \in [Threads -> SUBSET MemIds]
        /\ \A q \in Threads \ {t} : held'[q] = held[q] /\ fresh'[q] = fresh[q]
    BY <2>1, Shapes, HeldValues DEF Forget
  <2>5. DOMAIN left' = Threads /\ \A q \in Threads : left'[q] \in 0 .. MaxItems[q]
    <3>1. MaxItems[t] \in Nat /\ left[t] \in 0 .. MaxItems[t] /\ left[t] - 1 \in 0 .. MaxItems[t]
      BY <1>1, Shapes
    <3> QED  BY <2>1, <3>1, Shapes
  <2>6. NewHeld(t) /\ Place(t)'
    BY <2>2, <2>3, <2>4, HeldValues DEF NewHeld, Place, Working, Inv, PlaceInv
  <2> QED  BY <2>2, <2>3, <2>4, <2>5, <2>6 DEF ThreadCourse
<1>2. CASE ~(left[t] > 1)
  BY <1>2, FinishCourse DEF NextItem
<1> QED  BY <1>1, <1>2

\* A step of the broker from one save to the next.
LEMMA OnwardCourse ==
    ASSUME Inv, NEW t \in Threads, pc[t] \in Working, NEW p \in Working, Goto(t, p),
           UNCHANGED <<busvars, locals>>,
           pc[t] \notin {"extract", "search", "judge"},
           p \in {"bump_fts", "expire_fts"} => held[t].id # 0,
           p \in {"insert", "bump_fts", "expire_fts"}
    PROVE  ThreadCourse(t) /\ pc'[t] = p /\ event' = event
<1>1. /\ pc' \in [Threads -> Steps] /\ pc'[t] = p
  BY GotoMoves DEF Steps
<1>2. queue' = queue /\ event' = event /\ BusMove(t)
  BY DEF BusMove, busvars, dispatch
<1>3. Place(t)'
  BY <1>1, <1>2 DEF Inv, PlaceInv, Place, Working, locals
<1> QED  BY <1>2, <1>3, MoveCourse DEF Steps

LEMMA bumpInv == ASSUME Inv, NEW t \in Threads, bump(t) PROVE Inv'
<1> DEFINE id == held[t].id
           db == [working EXCEPT !.row[id] = held[t].row]
<1>1. /\ pc[t] = "bump" /\ Save(t, db) /\ Goto(t, "bump_fts")
      /\ UNCHANGED <<busvars, locals>> /\ Rest
  BY DEF bump, At
<1>2. id \in MemIds /\ held[t].row \in Rows /\ working \in Db
  <2>1. held[t] \in Helds /\ working \in Db
    BY Shapes
  <2>2. held[t].id # 0 /\ held[t].row \in Rows
    BY <1>1 DEF Inv, PlaceInv, Place
  <2> QED  BY <2>1, <2>2 DEF Helds
<1>3. ThreadCourse(t) /\ pc'[t] = "bump_fts" /\ event' = event
  BY <1>1, <1>2, Constants, OnwardCourse DEF Working
<1>4. /\ db \in Db /\ db.row = [working.row EXCEPT ![id] = held[t].row]
      /\ db.task = working.task /\ db.fts = working.fts /\ db.born = working.born
  <2> HIDE DEF id
  <2> QED  BY <1>2, RowSaved
<1>5. \A i \in MemIds : NewRow(i)
  <2>1. working'.row = [working.row EXCEPT ![id] = held[t].row]
    BY <1>1, <1>4 DEF Save, Enter
  <2> QED  BY <2>1, Shapes DEF NewRow
<1> HIDE DEF id, db
<1> QED  BY <1>1, <1>3, <1>4, <1>5, SaveStep DEF Working

LEMMA expireInv == ASSUME Inv, NEW t \in Threads, expire(t) PROVE Inv'
<1> DEFINE id == held[t].id
           new == [held[t].row EXCEPT !.status = "EXPIRED", !.by = t]
           db == [working EXCEPT !.row[id] = new]
<1>1. /\ pc[t] = "expire" /\ Save(t, db) /\ Goto(t, "expire_fts")
      /\ UNCHANGED <<busvars, locals>> /\ Rest
  BY DEF expire, At
<1>2. id \in MemIds /\ held[t].row \in Rows /\ working \in Db
  <2>1. held[t] \in Helds /\ working \in Db
    BY Shapes
  <2>2. held[t].id # 0 /\ held[t].row \in Rows
    BY <1>1 DEF Inv, PlaceInv, Place
  <2> QED  BY <2>1, <2>2 DEF Helds
<1>3. ThreadCourse(t) /\ pc'[t] = "expire_fts" /\ event' = event
  BY <1>1, <1>2, Constants, OnwardCourse DEF Working
<1>4. new \in Rows /\ new.src = held[t].row.src /\ new.by = t
  BY <1>2, RowValues, Constants
<1> HIDE DEF new, id
<1>5. /\ db \in Db /\ db.row = [working.row EXCEPT ![id] = new]
      /\ db.task = working.task /\ db.fts = working.fts /\ db.born = working.born
  BY <1>2, <1>4, RowSaved
<1>6. \A i \in MemIds : NewRow(i)
  <2>1. working'.row = [working.row EXCEPT ![id] = new]
    BY <1>1, <1>5 DEF Save, Enter
  <2>2. Followed(t)'
    BY <1>3 DEF Followed
  <2>3. ASSUME NEW i \in MemIds, i # id PROVE working'.row[i] = working.row[i]
    BY <2>1, <2>3, Shapes
  <2>4. working'.row[id].src = held[t].row.src /\ working'.row[id].by = t
    BY <1>2, <1>4, <2>1, Shapes
  <2> QED  BY <2>2, <2>3, <2>4 DEF NewRow, id
<1> HIDE DEF db
<1> QED  BY <1>1, <1>3, <1>5, <1>6, SaveStep DEF Working

\* The text of memory i goes into the index.
LEMMA IndexStep ==
    ASSUME Inv, NEW t \in Threads, pc[t] \in Working, pc'[t] \in Working \cup {"dispatch"},
           ThreadCourse(t), event' = event, NEW i \in MemIds,
           Save(t, [working EXCEPT !.fts = @ \cup {i}]), Rest,
           pc[t] \in {"expire_fts", "insert"} => Followed(t)'
    PROVE  Inv'
<1> DEFINE db == [working EXCEPT !.fts = working.fts \cup {i}]
<1>1. working.fts \cup {i} \in SUBSET MemIds /\ working \in Db
  BY Shapes
<1>2. /\ db \in Db /\ db.row = working.row
      /\ db.task = working.task /\ db.fts = working.fts \cup {i} /\ db.born = working.born
  BY <1>1, IndexSaved
<1>3. Save(t, db)
  OBVIOUS
<1> HIDE DEF db
<1>4. \A j \in MemIds : NewRow(j)
  BY <1>2, <1>3 DEF Save, Enter, NewRow
<1> QED  BY <1>2, <1>3, <1>4, SaveStep

LEMMA upsertInv == ASSUME Inv, NEW t \in Threads, upsert(t) PROVE Inv'
<1>1. Rest /\ held[t] \in Helds /\ fresh[t] \in MemIds \cup {0}
  BY Shapes DEF upsert
<1>2. CASE /\ At(t, "bump_fts")
           /\ Save(t, [working EXCEPT !.fts = @ \cup {held[t].id}]) /\ NextItem(t)
  <2>1. held[t].id \in MemIds
    BY <1>1, <1>2 DEF At, Inv, PlaceInv, Place, Helds
  <2>2. pc[t] = "bump_fts"
    BY <1>2 DEF At
  <2>3. ThreadCourse(t) /\ pc'[t] \in {"search", "dispatch"} /\ event' = event
    BY <1>2, <2>2, NextItemCourse DEF Working
  <2> QED  BY <1>1, <1>2, <2>1, <2>2, <2>3, IndexStep DEF Working
<1>3. CASE /\ At(t, "expire_fts")
           /\ Save(t, [working EXCEPT !.fts = @ \cup {held[t].id}])
           /\ Goto(t, "insert") /\ UNCHANGED <<busvars, locals>>
  <2>1. held[t].id \in MemIds
    BY <1>1, <1>3 DEF At, Inv, PlaceInv, Place, Helds
  <2>2. pc[t] = "expire_fts"
    BY <1>3 DEF At
  <2>3. ThreadCourse(t) /\ pc'[t] = "insert" /\ event' = event
    BY <1>3, <2>2, OnwardCourse DEF Working
  <2>4. Followed(t)'
    BY <2>3 DEF Followed
  <2> QED  BY <1>1, <1>3, <2>1, <2>2, <2>3, <2>4, IndexStep DEF Working
<1>4. CASE /\ At(t, "insert_fts")
           /\ Save(t, [working EXCEPT !.fts = @ \cup {fresh[t]}]) /\ NextItem(t)
  <2>1. fresh[t] \in MemIds
    BY <1>1, <1>4 DEF At, Inv, PlaceInv, Place
  <2>2. pc[t] = "insert_fts"
    BY <1>4 DEF At
  <2>3. ThreadCourse(t) /\ pc'[t] \in {"search", "dispatch"} /\ event' = event
    BY <1>4, <2>2, NextItemCourse DEF Working
  <2> QED  BY <1>1, <1>4, <2>1, <2>2, <2>3, IndexStep DEF Working
<1> QED  BY <1>2, <1>3, <1>4 DEF upsert

LEMMA insertInv == ASSUME Inv, NEW t \in Threads, insert(t) PROVE Inv'
<1> DEFINE i == CHOOSE j \in Unused : TRUE
           row == Stored(t, held[t].type)
           db == [working EXCEPT !.row[i] = row, !.born = @ \cup {t}]
<1>1. /\ pc[t] = "insert" /\ Unused # {} /\ Save(t, db) /\ fresh' = [fresh EXCEPT ![t] = i]
      /\ Goto(t, "insert_fts") /\ UNCHANGED <<busvars, left, hits, held>> /\ Rest
  BY DEF insert, At
<1>2. i \in Unused /\ i \in MemIds /\ i # 0
  BY <1>1, Constants DEF Unused
<1>3. row \in Rows /\ row.src = t /\ row.by = "none"
  <2>1. held[t].type \in Types
    BY <1>1 DEF Inv, PlaceInv, Place, Working
  <2> QED  BY <2>1, RowValues, Constants
<1> HIDE DEF row, i
<1>4. /\ db \in Db /\ db.row = [working.row EXCEPT ![i] = row]
      /\ db.task = working.task /\ db.fts = working.fts /\ db.born = working.born \cup {t}
  <2>1. working \in Db /\ t \in Sources
    BY Shapes, Constants
  <2> QED  BY <1>2, <1>3, <2>1 DEF Db
<1>5. \A j \in MemIds : NewRow(j)
  <2>1. working'.row = [working.row EXCEPT ![i] = row]
    BY <1>1, <1>4 DEF Save, Enter
  <2> QED  BY <1>1, <1>2, <1>3, <2>1, Shapes DEF NewRow
<1>6. ThreadCourse(t) /\ pc'[t] = "insert_fts" /\ event' = event
  <2>1. /\ pc' \in [Threads -> Steps] /\ pc'[t] = "insert_fts"
        /\ \A q \in Threads \ {t} : pc'[q] = pc[q]
    BY <1>1, GotoMoves DEF Steps
  <2>2. queue' = queue /\ event' = event /\ BusMove(t)
    BY <1>1 DEF BusMove, busvars, dispatch
  <2>3. /\ fresh' \in [Threads -> MemIds \cup {0}] /\ fresh'[t] = i
        /\ \A q \in Threads \ {t} : fresh'[q] = fresh[q]
    BY <1>1, <1>2, Shapes
  <2>4. NewHeld(t) /\ Place(t)'
    BY <1>1, <1>2, <2>1, <2>2, <2>3 DEF NewHeld, Place, Working, Inv, PlaceInv
  <2> QED  BY <1>1, <2>1, <2>2, <2>3, <2>4, Shapes DEF ThreadCourse
<1>7. Followed(t)'
  BY <1>1, <1>4 DEF Followed, Save, Enter
<1> HIDE DEF db
<1> QED  BY <1>1, <1>4, <1>5, <1>6, <1>7, SaveStep DEF Working

LEMMA SaveFailsInv == ASSUME Inv, NEW t \in Threads, SaveFails(t) PROVE Inv'
<1>1. /\ pc[t] \in {"bump", "bump_fts", "expire", "expire_fts", "insert", "insert_fts"}
      /\ Finish(t, HandlerReturns(t)) /\ broken' = broken \cup {t}
      /\ UNCHANGED <<deleting, told, undone, deleted>>
  BY DEF SaveFails, HandlerRaises, At
<1>2. PICK lost : Enter(t, [working EXCEPT !.fts = working.fts \ lost], "raising")
  BY DEF SaveFails
<1>3. ThreadCourse(t) /\ pc'[t] = "dispatch" /\ event' = event
  BY <1>1, FinishCourse DEF Working
<1> DEFINE S == working.fts \ lost
           db == [working EXCEPT !.fts = S]
<1>4. /\ db \in Db /\ db.row = working.row /\ db.task = working.task /\ db.born = working.born
  <2>1. S \in SUBSET MemIds /\ working \in Db
    BY Shapes
  <2> HIDE DEF S
  <2> QED  BY <2>1, IndexSaved
<1>5. Verifying' = Verifying
  BY <1>1, <1>3, Constants DEF Verifying, ThreadCourse, Working
<1>6. /\ UnitInv' /\ unit' \in [Actors -> {"out", "in", "raising"}]
      /\ working' = db /\ durable' = durable
  BY <1>2, <1>5, EnterUnit, Constants
<1> HIDE DEF db
<1>7. StoreCourse(t)
  BY <1>4, <1>6, Shapes DEF StoreCourse, NewRow
<1>8. Flow(t)
  BY <1>1, <1>3, <1>4, <1>6 DEF Flow, Followed, Working
<1> QED  BY <1>1, <1>3, <1>7, <1>8, ThreadStep, Shapes, Constants

-----------------------------------------------------------------------------
(* Deletes, maintenance, connections and crashes *)

\* A step on the stores that moves no thread.
LEMMA StoreStep ==
    ASSUME Inv, UNCHANGED <<busvars, thread, told, broken, undone>>,
           working' \in Db, durable' \in Db, UnitInv',
           unit' \in [Actors -> {"out", "in", "raising"}],
           working'.task = working.task, working'.born = working.born,
           \A i \in MemIds : NewRow(i),
           durable' = durable \/ (durable' = working' /\ Verifying' = {}),
           deleting' \in MemIds \cup {0}, deleted' \subseteq MemIds
    PROVE  Inv'
<1>1. UNCHANGED <<pc, left, hits, held, fresh, queue, event, owed, called, subs, sinks>>
  BY DEF thread, locals, busvars, dispatch
<1>2. ShapeInv'
  BY <1>1, DepthBound DEF Inv, ShapeInv, TypeOK, BusShape
<1>3. PlaceInv' /\ BusInv'
  BY <1>1 DEF Inv, PlaceInv, Place, BusInv
<1>4. Course
  BY <1>1 DEF Course, NewHeld, Flow, Followed
<1> QED  BY <1>2, <1>3, <1>4, CourseEarned, CourseFollowed, CourseProfile DEF Inv

\* A save of a delete or of a maintenance run.
LEMMA ApiSave ==
    ASSUME Inv, UNCHANGED <<busvars, thread, told, broken, undone>>, NEW db \in Db,
           Save("api", db), db.task = working.task, db.born = working.born,
           \A i \in MemIds : NewRow(i),
           deleting' \in MemIds \cup {0}, deleted' \subseteq MemIds
    PROVE  Inv'
<1>1. Verifying' = Verifying
  BY DEF Verifying, thread
<1>2. /\ UnitInv' /\ unit' \in [Actors -> {"out", "in", "raising"}]
      /\ working' = db /\ durable' = durable
  BY <1>1, EnterUnit, Constants DEF Save
<1> QED  BY <1>2, StoreStep, Shapes

LEMMA DeleteVectorInv == ASSUME Inv, NEW i \in MemIds, DeleteVector(i) PROVE Inv'
<1> DEFINE S == working.fts \ {i}
           db == [working EXCEPT !.fts = S]
<1>1. /\ deleting' = i /\ Save("api", db) /\ deleted' = deleted
      /\ UNCHANGED <<busvars, thread, told, broken, undone>>
  BY DEF DeleteVector, ghosts
<1>2. S \in SUBSET MemIds /\ working \in Db
  BY Shapes
<1> HIDE DEF S
<1>3. db \in Db /\ db.row = working.row /\ db.task = working.task /\ db.born = working.born
  BY <1>2, IndexSaved
<1> HIDE DEF db
<1>4. \A j \in MemIds : NewRow(j)
  BY <1>1, <1>3 DEF NewRow, Save, Enter
<1> QED  BY <1>1, <1>3, <1>4, ApiSave, Shapes

LEMMA DeleteRowInv == ASSUME Inv, DeleteRow PROVE Inv'
<1> DEFINE db == [working EXCEPT !.row[deleting] = NoRow]
<1>1. /\ deleting # 0 /\ deleting' = 0 /\ Save("api", db) /\ deleted' = deleted \cup {deleting}
      /\ UNCHANGED <<busvars, thread, told, broken, undone>>
  BY DEF DeleteRow
<1>2. deleting \in MemIds /\ working \in Db
  BY <1>1, Shapes
<1>3. /\ db \in Db /\ db.row = [working.row EXCEPT ![deleting] = NoRow]
      /\ db.task = working.task /\ db.born = working.born
  BY <1>2, RowSaved
<1> HIDE DEF db
<1>4. \A j \in MemIds : NewRow(j)
  BY <1>1, <1>2, <1>3, Shapes DEF NewRow, Save, Enter
<1> QED  BY <1>1, <1>2, <1>3, <1>4, ApiSave, Shapes

LEMMA run_maintenanceInv == ASSUME Inv, run_maintenance PROVE Inv'
<1>1. PICK S \in SUBSET {i \in MemIds : working.row[i].type = "FACT"
                                       /\ working.row[i].status = "ACTIVE"} :
          Save("api", [working EXCEPT !.row = [i \in MemIds |->
                  IF i \in S THEN [working.row[i] EXCEPT !.status = "EXPIRED"]
                  ELSE working.row[i]]])
  BY DEF run_maintenance
<1>2. UNCHANGED <<busvars, thread, deleting, told, broken, undone, deleted>>
  BY DEF run_maintenance, ghosts
<1> DEFINE f == [i \in MemIds |->
                   IF i \in S THEN [working.row[i] EXCEPT !.status = "EXPIRED"]
                   ELSE working.row[i]]
           db == [working EXCEPT !.row = f]
<1>3. \A i \in S : i \in MemIds /\ working.row[i] \in Rows
  BY HeldValues, Shapes
<1>4. \A i \in MemIds :
        \/ f[i] = working.row[i]
        \/ /\ i \in S /\ working.row[i] \in Rows /\ f[i] \in Rows
           /\ f[i].src = working.row[i].src /\ f[i].by = working.row[i].by
  BY <1>3, RowValues
<1>5. f \in [MemIds -> Rows \cup {NoRow}]
  BY <1>4, Shapes
<1>6. Save("api", db)
  BY <1>1
<1> HIDE DEF f
<1>7. db \in Db /\ db.row = f /\ db.task = working.task /\ db.born = working.born
  BY <1>5, RowsSaved, Shapes
<1> HIDE DEF db
<1>8. working' = db
  BY <1>6 DEF Save, Enter
<1>9. \A j \in MemIds : NewRow(j)
  BY <1>4, <1>7, <1>8 DEF NewRow
<1> QED  BY <1>2, <1>6, <1>7, <1>9, ApiSave, Shapes

\* A save's unit ends: it is a commit only if no other unit is open.
LEMMA ExitInv == ASSUME Inv, NEW u \in Actors, Exit(u) PROVE Inv'
<1>1. /\ unit[u] # "out" /\ unit' = [unit EXCEPT ![u] = "out"] /\ depth' = depth - 1
      /\ durable' = IF depth = 1 THEN working ELSE durable
      /\ UNCHANGED <<busvars, working, thread, deleting, told, broken, undone, deleted>>
  BY DEF Exit, Leave, ghosts
<1>2. Verifying' = Verifying
  BY <1>1 DEF Verifying, thread
<1>3. /\ UnitInv' /\ unit' \in [Actors -> {"out", "in", "raising"}]
      /\ depth = 1 => Verifying = {}
  BY <1>1, <1>2, LeaveUnit
<1>4. \A i \in MemIds : NewRow(i)
  BY <1>1 DEF NewRow
<1> QED  BY <1>1, <1>2, <1>3, <1>4, StoreStep, Shapes

\* The last unit ends with an exception: either nobody else's writes were
\* pending, or undone says so.  The durable rows have the sources they had.
LEMMA RollbackInv == ASSUME Inv, NEW u \in Actors, Rollback(u) PROVE Inv'
<1>1. /\ unit[u] # "out" /\ unit' = [unit EXCEPT ![u] = "out"] /\ depth' = depth - 1
      /\ UNCHANGED <<busvars, durable, thread, deleting, told, broken, deleted>>
      /\ \/ UNCHANGED <<working, undone>>
         \/ working' = durable /\ undone' = (undone \/ Uncommitted)
  BY DEF Rollback
<1>2. UNCHANGED <<pc, left, hits, held, fresh, queue, event, owed, called, subs, sinks>>
  BY <1>1 DEF thread, locals, busvars, dispatch
<1>3. Verifying' = Verifying
  BY <1>2 DEF Verifying
<1>4. UnitInv' /\ unit' \in [Actors -> {"out", "in", "raising"}]
  BY <1>1, <1>3, LeaveUnit
<1>5. ShapeInv'
  <2>1. working' \in Db /\ undone' \in BOOLEAN
    BY <1>1, Shapes
  <2> QED  BY <1>1, <1>2, <1>4, <2>1, DepthBound DEF Inv, ShapeInv, TypeOK, BusShape
<1>6. PlaceInv' /\ BusInv'
  BY <1>2 DEF Inv, PlaceInv, Place, BusInv
<1>7. ASSUME ~undone'
      PROVE  /\ ~undone /\ working'.task = working.task /\ working'.row = working.row
             /\ working'.born = working.born
  <2>1. CASE UNCHANGED <<working, undone>>
    BY <1>7, <2>1
  <2>2. CASE working' = durable /\ undone' = (undone \/ Uncommitted)
    <3>1. ~undone /\ ~Uncommitted
      BY <1>7, <2>2, Zenon
    <3>2. /\ working.task = durable.task /\ working.row = durable.row
          /\ working.born = durable.born
      BY <3>1, Zenon DEF Uncommitted
    <3> QED  BY <2>2, <3>1, <3>2
  <2> QED  BY <1>1, <2>1, <2>2
<1>8. EarnedInv'
  BY <1>1, <1>2, <1>7 DEF Inv, EarnedInv, EarnedParts, Earned
<1>9. FollowedInv'
  BY <1>1, <1>2, <1>7 DEF Inv, FollowedInv, FollowedParts, Followed
<1>10. ProfileInv'
  <2>1. \A i \in MemIds : \A s \in Sources \cup Before : Known(i, s)' => Known(i, s)
    BY <1>1, <1>2 DEF Known
  <2> QED  BY <1>2, <2>1 DEF Inv, ProfileInv
<1> QED  BY <1>4, <1>5, <1>6, <1>8, <1>9, <1>10 DEF Inv

LEMMA DropType ==
    ASSUME subs \in Seq(Listeners), NEW id, Drop(id)
    PROVE  subs' \in Seq(Listeners)
<1>1. PICK k \in DOMAIN subs : subs' = SubSeq(subs, 1, k - 1) \o SubSeq(subs, k + 1, Len(subs))
  BY DEF Drop
<1>2. k \in 1 .. Len(subs)
  OBVIOUS
<1>3. SubSeq(subs, 1, k - 1) \in Seq(Listeners)
  BY <1>2, SubSeqProperties
<1>4. SubSeq(subs, k + 1, Len(subs)) \in Seq(Listeners)
  BY <1>2, SubSeqProperties
<1> QED  BY <1>1, <1>3, <1>4

LEMMA ConnectInv == ASSUME Inv, Connect PROVE Inv'
<1>1. UNCHANGED <<sinks, dispatch, store, uow, thread, deleting, ghosts>>
  BY DEF Connect, subscribe, unsubscribe
<1>2. UNCHANGED <<working, durable, depth, unit, pc, left, hits, held, fresh, queue, event, owed,
                  called, told, broken, undone, deleted>>
  BY <1>1 DEF store, uow, thread, locals, dispatch, ghosts
<1>3. subs' \in Seq(Listeners)
  <2>0. subs \in Seq(Listeners)
    BY DEF Inv, ShapeInv, BusShape
  <2>1. CASE subscribe(Stream)
    <3>1. Stream \in Listeners
      BY DEF Listeners
    <3> QED  BY <2>0, <2>1, <3>1 DEF subscribe
  <2>2. CASE unsubscribe("stream")
    BY <2>0, <2>2, DropType DEF unsubscribe
  <2> QED  BY <2>1, <2>2 DEF Connect
<1>4. ShapeInv'
  BY <1>1, <1>2, <1>3 DEF Inv, ShapeInv, TypeOK, BusShape
<1>5. PlaceInv' /\ UnitInv' /\ BusInv'
  BY <1>1, <1>2 DEF Inv, PlaceInv, Place, UnitInv, Verifying, Saving, BusInv
<1>6. EarnedInv' /\ FollowedInv'
  BY <1>2 DEF Inv, EarnedInv, EarnedParts, FollowedInv, FollowedParts, Followed
<1>7. ProfileInv'
  BY <1>1, <1>2 DEF Inv, ProfileInv, Known
<1> QED  BY <1>4, <1>5, <1>6, <1>7 DEF Inv

\* What a crash leaves is the durable database, with no thread under way.
LEMMA CrashInv == ASSUME Inv, Crash PROVE Inv'
<1> DEFINE task == [k \in Tasks |-> IF durable.task[k] = "VERIFYING" THEN "FAILED"
                                    ELSE durable.task[k]]
<1>1. /\ durable' = [durable EXCEPT !.task = task] /\ working' = durable'
      /\ depth' = 0 /\ unit' = [u \in Actors |-> "out"] /\ deleting' = 0
      /\ broken' = broken \cup (working.born \ durable.born)
                          \cup {s \in Turns : pc[s] \notin {"idle", "other", "done"}}
      /\ pc' = [t \in Threads |-> IF pc[t] \in {"idle", "other"} THEN "idle" ELSE "done"]
      /\ left' = [t \in Threads |-> 0] /\ hits' = [t \in Threads |-> {}]
      /\ held' = [t \in Threads |-> NoHeld]
      /\ fresh' = [t \in Threads |-> 0]
      /\ queue' = [t \in Threads |-> {}] /\ event' = [t \in Threads |-> NoEvent]
      /\ owed' = [t \in Threads |-> {}] /\ called' = [t \in Threads |-> {}]
      /\ UNCHANGED <<sinks, told, undone, deleted>>
  BY DEF Crash
<1>2. /\ durable' \in Db /\ durable'.row = durable.row /\ durable'.fts = durable.fts
      /\ durable'.born = durable.born
      /\ \A k \in Tasks : durable.task[k] = "COMPLETED" => durable'.task[k] = "COMPLETED"
  <2>1. durable \in Db /\ task \in [Tasks -> {"VERIFYING", "COMPLETED", "FAILED"}]
    BY Shapes, Columns
  <2>2. \A k \in Tasks : durable.task[k] = "COMPLETED" => task[k] = "COMPLETED"
    OBVIOUS
  <2> HIDE DEF task
  <2> QED  BY <1>1, <2>1, <2>2 DEF Db
<1>3. \A t \in Threads : /\ pc'[t] \in {"idle", "done"} /\ held'[t] = NoHeld /\ fresh'[t] = 0
                         /\ queue'[t] = {} /\ event'[t] = NoEvent /\ owed'[t] = {}
                         /\ called'[t] = {} /\ left'[t] = 0
  BY <1>1
<1>4. UnitInv'
  <2>1. Verifying' = {} /\ Saving' = {}
    BY <1>1, <1>3, Constants DEF Verifying, Saving, Working
  <2> QED  BY <1>1, <2>1, FS_EmptySet DEF UnitInv
<1>5. ShapeInv'
  <2>1. subs' \in Seq(Listeners)
    <3>1. subs \in Seq(Listeners)
      BY DEF Inv, ShapeInv, BusShape
    <3>2. CASE "stream" \in Ids(subs)
      BY <3>1, <3>2, DropType DEF Crash
    <3>3. CASE "stream" \notin Ids(subs)
      BY <3>1, <3>3 DEF Crash
    <3> QED  BY <3>2, <3>3
  <2>2. NoEvent.to # "COMPLETED"
    BY DEF NoEvent, Emit
  <2>3. BusShape'
    BY <1>1, <1>3, <2>1, <2>2 DEF Inv, ShapeInv, BusShape
  <2>4. \A t \in Threads : left'[t] \in 0 .. MaxItems[t]
    BY <1>3, Shapes
  <2>5. held' \in [Threads -> Helds] /\ fresh' \in [Threads -> MemIds \cup {0}]
        /\ pc' \in [Threads -> Steps] /\ hits' \in [Threads -> SUBSET MemIds]
        /\ unit' \in [Actors -> {"out", "in", "raising"}]
    BY <1>1, HeldValues DEF Steps
  <2>6. depth' \in 0 .. Cardinality(Tasks) + Cardinality(Actors)
    BY <1>4, DepthBound
  <2>7. /\ broken' \subseteq Sources /\ told' \subseteq Tasks
        /\ undone' \in BOOLEAN /\ deleted' \subseteq MemIds
    BY <1>1, Shapes, Columns, Constants
  <2>8. TypeOK'
    BY <1>1, <1>2, <2>4, <2>5, <2>6, <2>7 DEF TypeOK, Helds
  <2> QED  BY <1>1, <2>3, <2>8 DEF Inv, ShapeInv
<1>6. PlaceInv' /\ BusInv'
  BY <1>3, HeldValues DEF PlaceInv, Place, BusInv, Working
<1>7. EarnedInv'
  <2> SUFFICES ASSUME ~undone PROVE EarnedParts'
    BY <1>1 DEF EarnedInv
  <2>1. \A i \in MemIds : Earned(durable', durable'.row[i])
    BY <1>2 DEF Inv, EarnedInv, EarnedParts, Earned
  <2>2. \A t \in Threads : Earned(working', held'[t].row)
    BY <1>3, HeldValues, Constants DEF Earned, Sources
  <2> QED  BY <1>1, <1>3, <2>1, <2>2, Constants DEF EarnedParts, Working
<1>8. FollowedInv'
  <2> SUFFICES ASSUME ~undone PROVE FollowedParts'
    BY <1>1 DEF FollowedInv
  <2>1. \A i \in MemIds, s \in Sources : durable.row[i].by = s =>
            s \in durable'.born \/ s \in broken'
    <3> SUFFICES ASSUME NEW i \in MemIds, NEW s \in Sources, durable.row[i].by = s
                 PROVE  s \in durable'.born \/ s \in broken'
      OBVIOUS
    <3>1. \/ s \in durable.born \/ s \in broken \/ s \in Turns \cap working.born
          \/ s \in Turns /\ pc[s] \in {"expire_fts", "insert"}
      BY DEF Inv, FollowedInv, FollowedParts
    <3> QED  BY <1>1, <1>2, <3>1
  <2>2. \A t \in Threads : held'[t].row.by \notin Sources
    BY <1>3, HeldValues, Constants
  <2> QED  BY <1>1, <1>2, <2>1, <2>2 DEF FollowedParts, Followed
<1>9. ProfileInv'
  <2>1. \A t \in Threads : held'[t].id = 0
    BY <1>3, HeldValues
  <2>2. \A i \in MemIds : \A s \in Sources \cup Before : Known(i, s)' => Known(i, s)
    BY <1>1, <1>2, <2>1, Constants DEF Known
  <2> QED  BY <2>1, <2>2 DEF Inv, ProfileInv
<1> QED  BY <1>4, <1>5, <1>6, <1>7, <1>8, <1>9 DEF Inv

LEMMA StutterInv == ASSUME Inv, UNCHANGED vars PROVE Inv'
<1>1. UNCHANGED <<working, durable, depth, unit, deleting, pc, left, hits, held, fresh, queue,
                  event, owed, called, subs, sinks, told, broken, undone, deleted>>
  BY DEF vars, busvars, memvars, store, uow, thread, locals, dispatch, ghosts
<1>2. ShapeInv'
  BY <1>1 DEF Inv, ShapeInv, TypeOK, BusShape
<1>3. PlaceInv' /\ UnitInv' /\ BusInv'
  BY <1>1 DEF Inv, PlaceInv, Place, UnitInv, Verifying, Saving, BusInv
<1>4. EarnedInv' /\ FollowedInv'
  BY <1>1 DEF Inv, EarnedInv, EarnedParts, FollowedInv, FollowedParts, Followed
<1>5. ProfileInv'
  BY <1>1 DEF Inv, ProfileInv, Known
<1> QED  BY <1>2, <1>3, <1>4, <1>5 DEF Inv

LEMMA NextInv == ASSUME Inv, [Next]_vars PROVE Inv'
<1>1. ASSUME NEW t \in Threads, Publisher(t) PROVE Inv'
  BY <1>1, conversation_turnInv, verifyInv, OtherEventInv DEF Publisher
<1>2. ASSUME NEW t \in Threads, Handler(t) PROVE Inv'
  BY <1>2, ResumeInv, ReturnInv, DeliverInv, ConsiderInv, extractInv, searchInv, judgeInv, bumpInv,
     expireInv, upsertInv, insertInv, SaveFailsInv DEF Handler
<1>3. ASSUME NEW i \in MemIds, DeleteVector(i) PROVE Inv'
  BY <1>3, DeleteVectorInv
<1>4. ASSUME NEW u \in Actors, Exit(u) \/ Rollback(u) PROVE Inv'
  BY <1>4, ExitInv, RollbackInv
<1> QED  BY <1>1, <1>2, <1>3, <1>4, DeleteRowInv, run_maintenanceInv, ConnectInv, CrashInv,
            StutterInv DEF Next

-----------------------------------------------------------------------------
(* Theorems *)

\* The strengthened invariant holds in every state of every behaviour, for any
\* sources, memories and profiles.
THEOREM Safety == Spec => []Inv
<1>1. Init => Inv
  BY InitInv
<1>2. Inv /\ [Next]_vars => Inv'
  BY NextInv
<1> QED  BY <1>1, <1>2, PTL DEF Spec

\* Every variable keeps its type: in particular the depth of the unit of work
\* never leaves 0 .. the number of units there can be, however verify()s and
\* saves interleave.
THEOREM TypeCorrect == Spec => []TypeOK
<1>1. Inv => TypeOK
  BY DEF Inv, ShapeInv
<1> QED  BY <1>1, Safety, PTL

\* A memory drawn from a task is durable only beside that task as COMPLETED:
\* the extractor's saves join the transaction of verify(), and no other thread's
\* commit can publish them early; only a rollback that took others' writes with
\* it is excepted.
THEOREM TaskMemoriesAreEarned == Spec => []TaskMemoryIsEarned
<1>1. Inv => TaskMemoryIsEarned
  BY DEF Inv, EarnedInv, EarnedParts, Earned, TaskMemoryIsEarned
<1> QED  BY <1>1, Safety, PTL

\* What a broker's UPDATE expired is followed by its successor, unless a save
\* raised, a rollback took others' writes with it, or a turn was caught between
\* its two saves.
THEOREM SuccessorsFollow == Spec => []SupersededHasSuccessor
<1>1. Inv => SupersededHasSuccessor
  BY DEF Inv, FollowedInv, FollowedParts, SupersededHasSuccessor
<1> QED  BY <1>1, Safety, PTL

\* publish() calls every listener and sink that takes the event, whichever of
\* them raise and whoever connects or leaves meanwhile.
THEOREM ListenersAreCalled == Spec => []EveryListenerIsCalled
<1>1. Inv => EveryListenerIsCalled
  BY DEF Inv, BusInv, EveryListenerIsCalled
<1> QED  BY <1>1, Safety, PTL

\* A step for one source changes no row of another profile.
LEMMA OwnRows ==
    ASSUME Inv, NEW t \in Threads, NEW i \in MemIds, Publisher(t) \/ Handler(t),
           working.row[i] # NoRow, Profile[working.row[i].src] # Profile[t]
    PROVE  working'.row[i] = working.row[i]
<1>1. i # held[t].id
  <2>0. working.row[i] \in Rows
    BY Shapes
  <2>1. working.row[i].src \in Sources \cup Before
    BY <2>0, RowValues
  <2> SUFFICES ASSUME held[t].id = i PROVE FALSE
    OBVIOUS
  <2>2. held[t].id # 0 /\ held[t].row \in Rows
    BY Constants DEF Inv, PlaceInv, Place
  <2>3. held[t].row.src \in Sources \cup Before
    BY <2>2, RowValues
  <2>4. Known(i, held[t].row.src) /\ Known(i, working.row[i].src)
    BY DEF Known
  <2> QED  BY <2>1, <2>2, <2>3, <2>4 DEF Inv, ProfileInv
<1>2. working \in Db
  BY Shapes
<1> USE DEF Save, Enter
<1>4. CASE conversation_turn(t) \/ OtherEvent(t) \/ Resume(t) \/ Return(t) \/ Deliver(t)
           \/ Consider(t) \/ extract(t) \/ search(t) \/ judge(t)
  BY <1>4 DEF conversation_turn, OtherEvent, Resume, Return, Deliver, Consider, extract,
              search, judge, store
<1>5. CASE verify(t)
  BY <1>2, <1>5 DEF verify, Db
<1>6. CASE bump(t)
  BY <1>1, <1>2, <1>6 DEF bump, Db
<1>7. CASE expire(t)
  BY <1>1, <1>2, <1>7 DEF expire, Db
<1>8. CASE upsert(t)
  BY <1>2, <1>8 DEF upsert, Db
<1>9. CASE insert(t)
  <2>1. (CHOOSE j \in Unused : TRUE) \in Unused
    BY <1>9 DEF insert
  <2>2. i \notin Unused
    BY DEF Unused
  <2> QED  BY <1>2, <1>9, <2>1, <2>2 DEF insert, Db
<1>10. CASE SaveFails(t)
  BY <1>2, <1>10 DEF SaveFails, Db
<1> QED  BY <1>4, <1>5, <1>6, <1>7, <1>8, <1>9, <1>10 DEF Publisher, Handler

LEMMA OwnStep ==
    ASSUME NEW t \in Threads, Publisher(t) \/ Handler(t), NEW q \in Threads, pc'[q] # pc[q],
           pc \in [Threads -> Steps]
    PROVE  q = t
<1>1. UNCHANGED pc \/ \E p : Goto(t, p)
  BY DEF Publisher, Handler, conversation_turn, verify, OtherEvent, Resume, Return, Deliver,
         Consider, extract, search, judge, bump, expire, upsert, insert, SaveFails,
         NextItem, Finish, thread
<1> QED  BY <1>1 DEF Goto

\* No step that works for a source reaches into the memories of a foreign
\* profile: what a thread holds was found under its own.
THEOREM ProfilesStayApart == Spec => ProfilesAreIsolated
<1> DEFINE Apart == \A t \in Threads, i \in MemIds :
               pc[t] # pc'[t] /\ working.row[i] # NoRow /\ crashes' = crashes
               /\ Profile[working.row[i].src] # Profile[t] => working'.row[i] = working.row[i]
           Count == crashes \in Nat
<1>1. Init => Count
  BY DEF Init
<1>2. Count /\ [Next]_vars => Count'
  <2>1. UNCHANGED bounds \/ Disturb => crashes' = crashes
    BY DEF bounds, Disturb
  <2>2. ASSUME NEW t \in Threads, Publisher(t) \/ Handler(t) PROVE UNCHANGED bounds \/ Disturb
    BY <2>2 DEF Publisher, Handler, conversation_turn, verify, OtherEvent, Resume, Return, Deliver,
            Consider, extract, search, judge, bump, expire, upsert, insert, SaveFails, Rest
  <2>3. ASSUME \/ \E i \in MemIds : DeleteVector(i)
               \/ \E u \in Actors : Exit(u) \/ Rollback(u)
               \/ DeleteRow \/ run_maintenance \/ Connect \/ UNCHANGED vars
        PROVE  UNCHANGED bounds \/ Disturb
    BY <2>3 DEF Exit, Rollback, DeleteVector, DeleteRow, run_maintenance, Connect, vars, memvars
  <2>4. Count /\ Crash => Count'
    BY DEF Crash
  <2> QED  BY <2>1, <2>2, <2>3, <2>4 DEF Next
<1>3. Inv /\ Count /\ [Next]_vars => Apart
  <2> SUFFICES ASSUME Inv, Count, [Next]_vars, NEW q \in Threads, NEW i \in MemIds,
                      pc[q] # pc'[q], working.row[i] # NoRow, crashes' = crashes,
                      Profile[working.row[i].src] # Profile[q]
               PROVE  working'.row[i] = working.row[i]
    OBVIOUS
  <2>1. ASSUME NEW t \in Threads, Publisher(t) \/ Handler(t)
        PROVE  working'.row[i] = working.row[i]
    <3>1. q = t
      BY <2>1, OwnStep, Shapes
    <3> QED  BY <2>1, <3>1, OwnRows
  <2>2. ~Crash
    BY DEF Crash
  <2>3. ~((\E j \in MemIds : DeleteVector(j)) \/ DeleteRow \/ run_maintenance \/ Connect
          \/ (\E u \in Actors : Exit(u) \/ Rollback(u)) \/ UNCHANGED vars)
    BY DEF Exit, Rollback, DeleteVector, DeleteRow, run_maintenance, Connect, vars, memvars, thread
  <2> QED  BY <2>1, <2>2, <2>3 DEF Next
<1>4. Inv /\ Count /\ [Next]_vars => [Apart]_vars
  BY <1>3
<1> HIDE DEF Apart, Count
<1>5. Spec => []Count
  BY <1>1, <1>2, PTL DEF Spec
<1>6. Spec => [][Apart]_vars
  BY <1>4, <1>5, Safety, PTL DEF Spec
<1> QED  BY <1>6 DEF ProfilesAreIsolated, Apart

=============================================================================
