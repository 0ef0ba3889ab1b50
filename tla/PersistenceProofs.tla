------------------------- MODULE PersistenceProofs -------------------------
(***************************************************************************)
(* Proofs about what the SQLite connection keeps: UnitOfWork, and the      *)
(* audit log written inside its units (AuditChain).                        *)
(*                                                                         *)
(* A unit of work is atomic, for any nesting, any number of writes and any *)
(* pattern of exceptions caught on the way, as long as units of different  *)
(* threads do not overlap.  AllOrNothing is not inductive: it does not say *)
(* what a commit would write.  Inv adds that the counter is the nesting of *)
(* the one open unit, and that the connection holds exactly the writes of  *)
(* that unit.                                                              *)
(*                                                                         *)
(* In the audit log committed rows stay, whatever the threads do; the      *)
(* chain verifies until a rollback hits the unit of another thread.        *)
(***************************************************************************)
EXTENDS UnitOfWork, AuditChain, WellFoundedInduction, TLAPS

-----------------------------------------------------------------------------
(* Units of work *)

\* Units of different threads do not overlap.
SoleInv ==
    \A u, v \in Units : fate[u] = "open" /\ fate[v] = "open" => u = v

\* The shared counter and the shared transaction are those of the open unit.
OpenInv ==
    \A u \in Units :
        /\ fate[u] = "open" =>
              nest[u] > 0 /\ depth = nest[u] /\ buffer = WritesOf(u)
        /\ fate[u] = "new" => written[u] = 0

\* Only units that returned have committed writes.
DbInv == \A u \in Units, n \in 1 .. MaxWrites :
            <<u, n>> \in db => fate[u] = "returned"

Inv == TypeOK /\ SoleInv /\ OpenInv /\ DbInv /\ CounterBalanced /\ AllOrNothing

-----------------------------------------------------------------------------

LEMMA InitInv == Init => Inv
BY BoundsAssumption
   DEF Init, Inv, TypeOK, SoleInv, OpenInv, DbInv, CounterBalanced, AllOrNothing,
       WritesOf, Writes

LEMMA BeginInv ==
    ASSUME Inv, Overlap = FALSE, NEW u \in Units, Begin(u)
    PROVE  Inv'
<1> USE BoundsAssumption DEF Inv, TypeOK, Begin
<1>1. TypeOK'
  OBVIOUS
<1>2. SoleInv'
  BY DEF SoleInv
<1>3. OpenInv'
  BY DEF OpenInv, CounterBalanced, WritesOf
<1>4. DbInv'
  BY DEF DbInv
<1>5. CounterBalanced'
  BY DEF CounterBalanced
<1>6. AllOrNothing'
  BY DEF AllOrNothing, WritesOf
<1> QED  BY <1>1, <1>2, <1>3, <1>4, <1>5, <1>6

LEMMA EnterInv ==
    ASSUME Inv, NEW u \in Units, Enter(u)
    PROVE  Inv'
<1> USE BoundsAssumption DEF Inv, TypeOK, Enter
<1>1. TypeOK'
  OBVIOUS
<1>2. SoleInv' /\ DbInv'
  BY DEF SoleInv, DbInv
<1>3. OpenInv'
  BY DEF SoleInv, OpenInv, WritesOf
<1>4. CounterBalanced'
  BY DEF CounterBalanced
<1>5. AllOrNothing'
  BY DEF AllOrNothing, WritesOf
<1> QED  BY <1>1, <1>2, <1>3, <1>4, <1>5

LEMMA WriteInv ==
    ASSUME Inv, NEW u \in Units, Write(u)
    PROVE  Inv'
<1> USE BoundsAssumption DEF Inv, TypeOK, Write
<1>1. TypeOK'
  BY DEF Writes
<1>2. SoleInv' /\ DbInv'
  BY DEF SoleInv, DbInv
<1>3. OpenInv'
  <2>1. WritesOf(u)' = WritesOf(u) \cup {<<u, written[u] + 1>>}
    BY DEF WritesOf
  <2>2. \A v \in Units : fate'[v] = "open" => v = u
    BY DEF SoleInv
  <2> QED  BY <2>1, <2>2 DEF OpenInv
<1>4. CounterBalanced'
  BY DEF CounterBalanced
<1>5. AllOrNothing'
  BY <1>1, <1>2 DEF AllOrNothing, WritesOf, DbInv
<1> QED  BY <1>1, <1>2, <1>3, <1>4, <1>5

LEMMA RaiseInv ==
    ASSUME Inv, NEW u \in Units, Raise(u)
    PROVE  Inv'
BY DEF Inv, TypeOK, SoleInv, OpenInv, DbInv, CounterBalanced, AllOrNothing, WritesOf,
       Raise

\* A nested exit leaves the transaction alone: the counter stays positive.
LEMMA ExitInv ==
    ASSUME Inv, NEW u \in Units, Exit(u)
    PROVE  Inv'
<1> USE BoundsAssumption DEF Inv, TypeOK, Exit
<1>1. depth - 1 > 0 /\ depth = nest[u]
  BY DEF OpenInv
<1>2. db' = db /\ buffer' = buffer
  BY <1>1 DEF EndTransaction
<1>3. TypeOK'
  <2>1. raising' \in [Units -> BOOLEAN]
    <3>1. [raising EXCEPT ![u] = FALSE] \in [Units -> BOOLEAN]
      OBVIOUS
    <3> QED  BY <3>1
  <2>2. depth' \in Nat /\ nest' \in [Units -> 0 .. MaxNest]
    BY <1>1
  <2>3. UNCHANGED <<db, buffer, written, fate>>
    BY <1>2
  <2> QED  BY <2>1, <2>2, <2>3 DEF Writes
<1>4. SoleInv' /\ DbInv'
  BY <1>2 DEF SoleInv, DbInv
<1>5. OpenInv'
  BY <1>1, <1>2 DEF SoleInv, OpenInv, WritesOf
<1>6. CounterBalanced'
  BY DEF CounterBalanced
<1>7. AllOrNothing'
  BY <1>2 DEF AllOrNothing, WritesOf
<1> QED  BY <1>3, <1>4, <1>5, <1>6, <1>7

\* The outermost exit decides about the writes of its own unit.
LEMMA FinishInv ==
    ASSUME Inv, NEW u \in Units, Finish(u)
    PROVE  Inv'
<1> USE BoundsAssumption DEF Inv, TypeOK, Finish
<1>1. depth = 1 /\ buffer = WritesOf(u)
  BY DEF OpenInv
<1>2. buffer' = {} /\ db' = IF raising[u] THEN db ELSE db \cup WritesOf(u)
  BY <1>1 DEF EndTransaction
<1>3. \A v \in Units : v # u => fate[v] # "open" /\ fate'[v] = fate[v]
  BY DEF SoleInv
<1>4. TypeOK'
  BY <1>1, <1>2
<1>5. SoleInv' /\ OpenInv' /\ CounterBalanced'
  BY <1>1, <1>2, <1>3 DEF SoleInv, OpenInv, CounterBalanced
<1>6. DbInv'
  BY <1>2, <1>3 DEF DbInv, WritesOf
<1>7. AllOrNothing'
  BY <1>2, <1>3 DEF AllOrNothing, WritesOf, DbInv
<1> QED  BY <1>4, <1>5, <1>6, <1>7

LEMMA CrashInv ==
    ASSUME Inv, Crash
    PROVE  Inv'
<1> USE BoundsAssumption DEF Inv, TypeOK, Crash
<1>1. TypeOK'
  OBVIOUS
<1>2. SoleInv' /\ OpenInv' /\ CounterBalanced'
  BY DEF SoleInv, OpenInv, CounterBalanced
<1>3. DbInv'
  BY DEF DbInv
<1>4. AllOrNothing'
  BY DEF AllOrNothing, WritesOf
<1> QED  BY <1>1, <1>2, <1>3, <1>4

LEMMA NextInv ==
    ASSUME Overlap = FALSE, Inv, [Next]_vars
    PROVE  Inv'
<1>1. CASE UNCHANGED vars
  BY <1>1 DEF Inv, TypeOK, SoleInv, OpenInv, DbInv, CounterBalanced, AllOrNothing,
              WritesOf, vars
<1> QED  BY <1>1, BeginInv, EnterInv, WriteInv, RaiseInv, ExitInv, FinishInv,
            CrashInv DEF Next

\* Without overlapping units, every unit of work that returned is committed
\* in full and no other unit is committed in part.
THEOREM SerialUnitsAreAtomic ==
    ASSUME Overlap = FALSE
    PROVE  Spec => []AllOrNothing
<1>1. Inv /\ [Next]_vars => Inv'
  BY NextInv, Overlap = FALSE
<1>2. Inv => AllOrNothing
  BY DEF Inv
<1> QED  BY InitInv, <1>1, <1>2, PTL DEF Spec

\* Without overlapping units, the counter is back at zero and nothing is left in
\* the transaction whenever no unit is open, however deep the units nested and
\* wherever they raised.
THEOREM SerialCounterBalanced ==
    ASSUME Overlap = FALSE
    PROVE  Spec => [](TypeOK /\ CounterBalanced)
<1>1. Inv /\ [Next]_vars => Inv'
  BY NextInv, Overlap = FALSE
<1>2. Inv => TypeOK /\ CounterBalanced
  BY DEF Inv
<1> QED  BY InitInv, <1>1, <1>2, PTL DEF Spec


-----------------------------------------------------------------------------
(* Committed rows stay *)

\* The connection's view of the table extends the committed one.
Extends(t, s) == \A n \in DOMAIN s : n \in DOMAIN t /\ t[n] = s[n]

LEMMA ExtendsInvariant == LogSpec => []Extends(table, saved)
<1>1. LogInit => Extends(table, saved)
  BY DEF LogInit, Extends, EmptyTable
<1>2. Extends(table, saved) /\ [LogNext]_logvars => Extends(table, saved)'
  <2> SUFFICES ASSUME Extends(table, saved), [LogNext]_logvars
               PROVE Extends(table, saved)'
    OBVIOUS
  <2>1. ASSUME NEW w \in Writers, NEW e \in Events, Insert(w, e)
        PROVE Extends(table, saved)'
    BY <2>1 DEF Extends, Insert
  <2>2. ASSUME NEW w \in Writers,
               Open(w) \/ ReadTip(w) \/ InsertFails(w) \/ End(w)
        PROVE Extends(table, saved)'
    BY <2>2 DEF Extends, Open, ReadTip, InsertFails, End, Leave
  <2>3. ASSUME NEW w \in Writers, Commit(w) \/ Rollback(w)
        PROVE Extends(table, saved)'
    BY <2>3 DEF Extends, Commit, Rollback
  <2>4. CASE Kill
    BY <2>4 DEF Extends, Kill
  <2>5. CASE UNCHANGED logvars
    BY <2>5 DEF Extends, logvars
  <2> QED
    BY <2>1, <2>2, <2>3, <2>4, <2>5 DEF LogNext
<1> QED
  BY <1>1, <1>2, PTL DEF LogSpec

\* Committed history is append-only for any number of threads: the unique
\* index refuses a row whose number is taken, and rollback restores the
\* committed table.
THEOREM HistoryIsAppendOnly == LogSpec => CommittedRowsStay
<1>1. Extends(table, saved) /\ [LogNext]_logvars =>
        [\A n \in DOMAIN saved : n \in DOMAIN saved' /\ saved'[n] = saved[n]]_logvars
  <2> SUFFICES ASSUME Extends(table, saved), LogNext
               PROVE \A n \in DOMAIN saved : n \in DOMAIN saved' /\ saved'[n] = saved[n]
    OBVIOUS
  <2>1. ASSUME NEW w \in Writers, Commit(w)
        PROVE \A n \in DOMAIN saved : n \in DOMAIN saved' /\ saved'[n] = saved[n]
    BY <2>1 DEF Extends, Commit
  <2>2. ASSUME UNCHANGED saved
        PROVE \A n \in DOMAIN saved : n \in DOMAIN saved' /\ saved'[n] = saved[n]
    BY <2>2
  <2>3. (\E w \in Writers : Commit(w)) \/ UNCHANGED saved
    BY DEF LogNext, Open, ReadTip, Insert, InsertFails, End,
           Leave, Rollback, Kill
  <2> QED
    BY <2>1, <2>2, <2>3
<1> QED
  BY <1>1, ExtendsInvariant, PTL DEF LogSpec, CommittedRowsStay

\* The log keeps its types for any threads: a writer holds a tip only inside
\* its unit, and the connection never loses sight of a committed row.
THEOREM LogTypesHold == LogSpec => []LogTypeOK
<1> DEFINE I == LogTypeOK /\ DOMAIN tip = Writers
<1>1. LogInit => I
  BY DEF LogInit, LogTypeOK, EmptyTable
<1>2. I /\ [LogNext]_logvars => I'
  <2> SUFFICES ASSUME I, [LogNext]_logvars PROVE I'
    OBVIOUS
  <2>1. ASSUME NEW w \in Writers, Open(w) PROVE I'
    BY <2>1 DEF LogTypeOK, Open
  <2>2. ASSUME NEW w \in Writers, ReadTip(w) PROVE I'
    <3>1. tip'[w].seq \in 1 .. MaxEvents /\ DOMAIN tip' = Writers
          /\ \A v \in Writers \ {w} : tip'[v] = tip[v]
      BY <2>2, MaxEventsAssumption DEF LogTypeOK, ReadTip
    <3> QED  BY <2>2, <3>1 DEF LogTypeOK, ReadTip
  <2>3. ASSUME NEW w \in Writers, NEW e \in Events, Insert(w, e) PROVE I'
    BY <2>3 DEF LogTypeOK, Insert
  <2>4. ASSUME NEW w \in Writers, InsertFails(w) PROVE I'
    BY <2>4 DEF LogTypeOK, InsertFails, Leave
  <2>5. ASSUME NEW w \in Writers, End(w) PROVE I'
    BY <2>5 DEF LogTypeOK, End, Leave
  <2>6. ASSUME NEW w \in Writers, Commit(w) PROVE I'
    BY <2>6 DEF LogTypeOK, Commit
  <2>7. ASSUME NEW w \in Writers, Rollback(w) PROVE I'
    <3>1. torn' \in BOOLEAN
      BY <2>7 DEF LogTypeOK, Rollback
    <3> QED  BY <2>7, <3>1 DEF LogTypeOK, Rollback
  <2>8. CASE Kill
    BY <2>8 DEF LogTypeOK, Kill
  <2>9. CASE UNCHANGED logvars
    BY <2>9 DEF LogTypeOK, logvars
  <2> QED  BY <2>1, <2>2, <2>3, <2>4, <2>5, <2>6, <2>7, <2>8, <2>9 DEF LogNext
<1>3. I => LogTypeOK
  OBVIOUS
<1> HIDE DEF I
<1> QED  BY <1>1, <1>2, <1>3, PTL DEF LogSpec

-----------------------------------------------------------------------------
(* The chain verifies as long as no rollback has hit another unit *)

\* t is a chain of the rows 1 .. k.
ChainOf(t, k) ==
    /\ DOMAIN t = 1 .. k
    /\ \A n \in 1 .. k :
        /\ t[n].prev = IF n = 1 THEN GENESIS_PREV_HASH ELSE t[n - 1].hash
        /\ t[n].hash = hash_audit_event(t[n].event, t[n].prev)
        /\ DOMAIN t[n] = {"event", "prev", "hash"}

IsChain(t) == \E k \in Nat : ChainOf(t, k)

\* What verify_audit_chain accepts is at least every chain.
LEMMA ChainsVerify == ASSUME NEW t, IsChain(t) PROVE verify_audit_chain(t) = {}
<1>1. PICK k \in Nat : ChainOf(t, k)
  BY DEF IsChain
<1>2. ASSUME NEW n \in DOMAIN t
      PROVE ~sequence_gap(t, n) /\ ~link_broken(t, n) /\ ~content_altered(t, n)
  <2>1. n \in 1 .. k /\ DOMAIN t = 1 .. k
    BY <1>1, <1>2 DEF ChainOf
  <2>2. IsFirst(t, n) => n = 1
    BY <2>1 DEF IsFirst
  <2>3. ASSUME NEW m \in DOMAIN t, Follows(t, m, n)
        PROVE m = n - 1 /\ n # 1
    <3>1. m \in 1 .. k /\ m < n
      BY <2>1, <2>3 DEF Follows
    <3>2. n - 1 \in DOMAIN t
      BY <2>1, <3>1
    <3>3. n - 1 <= m \/ n <= n - 1
      BY <2>3, <3>2 DEF Follows
    <3> QED
      BY <2>1, <3>1, <3>3
  <2>4. t[n].prev = (IF n = 1 THEN GENESIS_PREV_HASH ELSE t[n - 1].hash)
    BY <1>1, <2>1 DEF ChainOf
  <2>5. t[n].hash = hash_audit_event(t[n].event, t[n].prev)
    BY <1>1, <2>1 DEF ChainOf
  <2>6. ~sequence_gap(t, n)
    BY <2>1, <2>2, <2>3 DEF sequence_gap
  <2>7. ~link_broken(t, n)
    BY <2>2, <2>3, <2>4 DEF link_broken
  <2>8. ~content_altered(t, n)
    BY <2>5 DEF content_altered
  <2> QED
    BY <2>6, <2>7, <2>8
<1> QED
  BY <1>2 DEF verify_audit_chain

\* x is what a writer reads of a chain that is a prefix of t, or nothing.
TipFits(t, x) ==
    x = NoTip \/ \E j \in Nat :
        /\ j = 0 \/ j \in DOMAIN t
        /\ x = [seq |-> j + 1, prev |-> IF j = 0 THEN GENESIS_PREV_HASH ELSE t[j].hash]

\* The inductive invariant: both tables are chains, and what a writer inside
\* its unit has read is still a row of the table, though perhaps not its last.
ChainInv ==
    /\ DOMAIN tip = Writers
    /\ \A w \in Writers : tip[w] # NoTip => w \in inside
    /\ ~torn => /\ IsChain(table) /\ IsChain(saved)
                /\ \A w \in Writers : TipFits(table, tip[w])

LEMMA EmptyIsChain == IsChain(EmptyTable)
<1>1. ChainOf(EmptyTable, 0)
  BY DEF ChainOf, EmptyTable
<1> QED
  BY <1>1 DEF IsChain

\* ReadTip reads the tip of the table.
LEMMA ReadTipFits ==
    ASSUME DOMAIN tip = Writers, IsChain(table), NEW w \in Writers, ReadTip(w)
    PROVE  TipFits(table, tip'[w])
<1>1. CASE table = EmptyTable
  <2>1. tip'[w] = [seq |-> 1, prev |-> GENESIS_PREV_HASH]
    BY <1>1 DEF ReadTip, EmptyTable
  <2>2. tip'[w] = [seq |-> 0 + 1, prev |-> IF 0 = 0 THEN GENESIS_PREV_HASH ELSE table[0].hash]
    BY <2>1
  <2> QED
    BY <2>2 DEF TipFits
<1>2. CASE table # EmptyTable
  <2>1. PICK m \in DOMAIN table :
          tip' = [tip EXCEPT ![w] = [seq |-> m + 1, prev |-> table[m].hash]]
    BY <1>2 DEF ReadTip
  <2>2. m \in Nat \ {0}
    BY DEF IsChain, ChainOf
  <2>3. tip'[w] = [seq |-> m + 1, prev |-> IF m = 0 THEN GENESIS_PREV_HASH ELSE table[m].hash]
    BY <2>1, <2>2
  <2> QED
    BY <2>2, <2>3 DEF TipFits
<1> QED
  BY <1>1, <1>2

\* Insert makes a longer chain: the unique index refuses every tip but the
\* last, and no row is changed.
LEMMA InsertExtendsChain ==
    ASSUME IsChain(table), NEW w \in Writers, TipFits(table, tip[w]),
           NEW e \in Events, Insert(w, e)
    PROVE  IsChain(table') /\ \A n \in DOMAIN table : n \in DOMAIN table' /\ table'[n] = table[n]
<1>1. PICK k \in Nat : ChainOf(table, k)
  BY DEF IsChain
<1>2. DOMAIN table = 1 .. k
  BY <1>1 DEF ChainOf
<1>3. tip[w].seq = k + 1 /\ tip[w].prev = IF k = 0 THEN GENESIS_PREV_HASH ELSE table[k].hash
  <2>1. PICK j \in Nat :
          /\ j = 0 \/ j \in DOMAIN table
          /\ tip[w] = [seq |-> j + 1, prev |-> IF j = 0 THEN GENESIS_PREV_HASH ELSE table[j].hash]
    BY DEF TipFits, Insert
  <2>2. j + 1 \notin 1 .. k /\ j <= k
    BY <1>2, <2>1 DEF Insert
  <2>3. j = k
    BY <2>2
  <2> QED
    BY <2>1, <2>3
<1>4. DOMAIN table' = 1 .. (k + 1)
  BY <1>2, <1>3 DEF Insert
<1>5. \A n \in 1 .. k : table'[n] = table[n]
  BY <1>2, <1>3 DEF Insert
<1>6. table'[k + 1] = Row(w, e)
  BY <1>3, <1>4 DEF Insert
<1>7. ASSUME NEW n \in 1 .. (k + 1)
      PROVE /\ table'[n].prev = IF n = 1 THEN GENESIS_PREV_HASH ELSE table'[n - 1].hash
            /\ table'[n].hash = hash_audit_event(table'[n].event, table'[n].prev)
            /\ DOMAIN table'[n] = {"event", "prev", "hash"}
  <2>1. CASE n = k + 1
    <3>1. table'[n].prev = tip[w].prev /\ table'[n].event = e
            /\ table'[n].hash = hash_audit_event(e, tip[w].prev)
            /\ DOMAIN table'[n] = {"event", "prev", "hash"}
      BY <1>6, <2>1 DEF Row
    <3>2. k # 0 => table'[k] = table[k]
      BY <1>5
    <3> QED
      BY <1>3, <2>1, <3>1, <3>2
  <2>2. CASE n # k + 1
    <3>1. n \in 1 .. k /\ (n # 1 => n - 1 \in 1 .. k)
      BY <2>2
    <3>2. /\ table[n].prev = IF n = 1 THEN GENESIS_PREV_HASH ELSE table[n - 1].hash
          /\ table[n].hash = hash_audit_event(table[n].event, table[n].prev)
          /\ DOMAIN table[n] = {"event", "prev", "hash"}
      BY <1>1, <3>1 DEF ChainOf
    <3> QED
      BY <1>5, <3>1, <3>2
  <2> QED
    BY <2>1, <2>2
<1>8. ChainOf(table', k + 1)
  BY <1>4, <1>7 DEF ChainOf
<1> QED
  BY <1>2, <1>4, <1>5, <1>8 DEF IsChain

LEMMA ChainInvariant == LogSpec => []ChainInv
<1>1. LogInit => ChainInv
  BY EmptyIsChain DEF LogInit, ChainInv, TipFits
<1>2. ChainInv /\ [LogNext]_logvars => ChainInv'
  <2> SUFFICES ASSUME ChainInv, [LogNext]_logvars PROVE ChainInv'
    OBVIOUS
  <2>1. ASSUME NEW w \in Writers, Open(w) PROVE ChainInv'
    BY <2>1 DEF ChainInv, Open
  <2>2. ASSUME NEW w \in Writers, ReadTip(w) PROVE ChainInv'
    <3>1. UNCHANGED <<table, saved, inside, torn>> /\ w \in inside /\ DOMAIN tip' = Writers
            /\ \A v \in Writers \ {w} : tip'[v] = tip[v]
      BY <2>2 DEF ReadTip, ChainInv
    <3>2. ~torn => TipFits(table, tip'[w])
      BY <2>2, ReadTipFits DEF ChainInv
    <3> QED
      BY <3>1, <3>2 DEF ChainInv
  <2>3. ASSUME NEW w \in Writers, NEW e \in Events, Insert(w, e) PROVE ChainInv'
    <3>1. UNCHANGED <<saved, inside, torn>> /\ DOMAIN tip' = Writers /\ tip'[w] = NoTip
            /\ \A v \in Writers \ {w} : tip'[v] = tip[v]
      BY <2>3 DEF Insert, ChainInv
    <3>2. CASE torn
      BY <3>1, <3>2 DEF ChainInv
    <3>3. CASE ~torn
      <4>1. IsChain(table') /\ \A n \in DOMAIN table : n \in DOMAIN table' /\ table'[n] = table[n]
        BY <2>3, <3>3, InsertExtendsChain DEF ChainInv
      <4>2. \A v \in Writers : TipFits(table', tip'[v])
        BY <3>1, <3>3, <4>1 DEF ChainInv, TipFits
      <4> QED
        BY <3>1, <3>3, <4>1, <4>2 DEF ChainInv
    <3> QED
      BY <3>2, <3>3
  <2>4. ASSUME NEW w \in Writers, InsertFails(w) \/ End(w) PROVE ChainInv'
    <3>1. UNCHANGED <<table, saved, torn>> /\ inside' = inside \ {w}
      BY <2>4 DEF InsertFails, End, Leave
    <3>2. DOMAIN tip' = Writers /\ tip'[w] = NoTip
            /\ \A v \in Writers \ {w} : tip'[v] = tip[v]
      BY <2>4 DEF InsertFails, End, ChainInv
    <3> QED
      BY <3>1, <3>2 DEF ChainInv, TipFits
  <2>5. ASSUME NEW w \in Writers, Commit(w) PROVE ChainInv'
    BY <2>5 DEF ChainInv, Commit
  <2>6. ASSUME NEW w \in Writers, Rollback(w) PROVE ChainInv'
    <3>1. UNCHANGED <<saved, inside, tip>> /\ table' = saved
            /\ (~torn' => ~torn /\ inside = {})
      BY <2>6 DEF Rollback
    <3>2. ~torn' => \A v \in Writers : tip[v] = NoTip
      BY <3>1 DEF ChainInv
    <3> QED
      BY <3>1, <3>2 DEF ChainInv, TipFits
  <2>7. CASE Kill
    BY <2>7 DEF ChainInv, Kill, TipFits
  <2>8. CASE UNCHANGED logvars
    BY <2>8 DEF ChainInv, logvars
  <2> QED
    BY <2>1, <2>2, <2>3, <2>4, <2>5, <2>6, <2>7, <2>8 DEF LogNext
<1> QED
  BY <1>1, <1>2, PTL DEF LogSpec

\* Until a rollback hits the unit of another thread, verify_audit_chain finds
\* no break in a log nobody has touched, for any number of writers and
\* events: interleaved units, refused inserts, rollbacks and crashes leave
\* neither a gap nor a broken link.
THEOREM UntouchedLogVerifies == LogSpec => []ChainVerifies
<1>1. ChainInv => ChainVerifies
  BY ChainsVerify DEF ChainInv, ChainVerifies
<1> QED
  BY <1>1, ChainInvariant, PTL

-----------------------------------------------------------------------------
(* Tampering shows *)

\* Every non-empty set of naturals has a least element.
LEMMA LeastNat ==
    ASSUME NEW T \in SUBSET Nat, T # {}
    PROVE  \E x \in T : \A y \in T : x <= y
<1> DEFINE R == {p \in Nat \X Nat : p[1] < p[2]}
<1>1. IsWellFoundedOn(R, Nat)
  BY NatLessThanWellFounded DEF OpToRel
<1>2. PICK x \in T : \A y \in T : <<y, x>> \notin R
  <2> HIDE DEF R
  <2> QED  BY <1>1, WFMin
<1>3. ASSUME NEW y \in T PROVE x <= y
  <2>1. ASSUME y < x PROVE <<y, x>> \in R
    <3>1. <<y, x>> \in Nat \X Nat
      OBVIOUS
    <3>2. <<y, x>>[1] < <<y, x>>[2]
      BY <2>1
    <3> QED  BY <3>1, <3>2
  <2> QED  BY <1>2, <2>1
<1> QED  BY <1>3

LEMMA HashInjective ==
    ASSUME NEW a, NEW b, NEW c, NEW d, hash_audit_event(a, b) = hash_audit_event(c, d)
    PROVE  a = c /\ b = d
BY DEF hash_audit_event

LEMMA HashNotGenesis ==
    ASSUME NEW a, NEW b
    PROVE  hash_audit_event(a, b) # GENESIS_PREV_HASH
BY DEF hash_audit_event, GENESIS_PREV_HASH

\* No two rows of a chain have the same hash: the earliest of two that had
\* would follow two earlier ones that had, or the genesis would be a hash.
LEMMA HashesDiffer ==
    ASSUME NEW t, NEW k \in Nat, ChainOf(t, k),
           NEW i \in 1 .. k, NEW j \in 1 .. k, i < j
    PROVE  t[i].hash # t[j].hash
<1> DEFINE T == {n \in 1 .. k : \E m \in 1 .. k : n < m /\ t[n].hash = t[m].hash}
<1> SUFFICES ASSUME t[i].hash = t[j].hash PROVE FALSE
  OBVIOUS
<1>1. T \in SUBSET Nat /\ T # {}
  OBVIOUS
<1>2. PICK n \in T : \A y \in T : n <= y
  BY <1>1, LeastNat
<1>3. PICK m \in 1 .. k : n < m /\ t[n].hash = t[m].hash
  OBVIOUS
<1>4. n \in 1 .. k /\ m - 1 \in 1 .. k /\ m # 1
  BY <1>3
<1>5. /\ t[n].hash = hash_audit_event(t[n].event, t[n].prev)
      /\ t[m].hash = hash_audit_event(t[m].event, t[m].prev)
      /\ t[m].prev = t[m - 1].hash
      /\ t[m - 1].hash = hash_audit_event(t[m - 1].event, t[m - 1].prev)
      /\ t[n].prev = IF n = 1 THEN GENESIS_PREV_HASH ELSE t[n - 1].hash
  BY <1>3, <1>4 DEF ChainOf
<1>6. t[n].prev = t[m - 1].hash
  <2>1. hash_audit_event(t[n].event, t[n].prev) = hash_audit_event(t[m].event, t[m].prev)
    BY <1>3, <1>5
  <2>2. t[n].prev = t[m].prev
    BY <2>1, HashInjective
  <2> QED  BY <1>5, <2>2
<1>7. n # 1
  BY <1>5, <1>6, HashNotGenesis
<1>8. n - 1 \in 1 .. k /\ n - 1 < m - 1 /\ t[n - 1].hash = t[m - 1].hash
  BY <1>3, <1>4, <1>5, <1>6, <1>7
<1>9. n - 1 \in T
  BY <1>4, <1>8
<1> QED  BY <1>2, <1>4, <1>9

\* The row after n of a table with the numbers 1 .. k.
LEMMA NextRow ==
    ASSUME NEW t, NEW k \in Nat, DOMAIN t = 1 .. k, NEW n \in 1 .. k, n + 1 <= k
    PROVE  n + 1 \in DOMAIN t /\ Follows(t, n, n + 1)
BY DEF Follows

\* Other content with the old hash does not match that hash; with a new hash
\* the next row does not match it.
LEMMA AlteredShows ==
    ASSUME NEW t, NEW k \in Nat, ChainOf(t, k), NEW n \in 1 .. k, n + 1 <= k,
           NEW x \in Altered(t, n)
    PROVE  verify_audit_chain(x) # {}
<1>1. DOMAIN t = 1 .. k /\ DOMAIN t[n] = {"event", "prev", "hash"}
      /\ t[n].hash = hash_audit_event(t[n].event, t[n].prev)
  BY DEF ChainOf
<1>2. CASE \E e \in Events \ {t[n].event} : x = [t EXCEPT ![n].event = e]
  <2>1. PICK e \in Events \ {t[n].event} : x = [t EXCEPT ![n].event = e]
    BY <1>2
  <2>2. DOMAIN x = 1 .. k /\ x[n].event = e /\ x[n].prev = t[n].prev
        /\ x[n].hash = t[n].hash
    BY <1>1, <2>1
  <2>3. content_altered(x, n)
    BY <1>1, <2>1, <2>2, HashInjective DEF content_altered
  <2> QED  BY <2>2, <2>3 DEF verify_audit_chain
<1>3. CASE \E e \in Events \ {t[n].event} :
             x = [t EXCEPT ![n].event = e, ![n].hash = hash_audit_event(e, t[n].prev)]
  <2>1. PICK e \in Events \ {t[n].event} :
             x = [t EXCEPT ![n].event = e, ![n].hash = hash_audit_event(e, t[n].prev)]
    BY <1>3
  <2>2. DOMAIN x = 1 .. k /\ x[n].hash = hash_audit_event(e, t[n].prev)
        /\ x[n + 1] = t[n + 1]
    BY <1>1, <2>1
  <2>3. t[n + 1].prev = t[n].hash
    BY DEF ChainOf
  <2>4. x[n + 1].prev # x[n].hash
    BY <1>1, <2>1, <2>2, <2>3, HashInjective
  <2>5. n + 1 \in DOMAIN x /\ Follows(x, n, n + 1)
    BY <2>2, NextRow
  <2>6. link_broken(x, n + 1)
    BY <2>2, <2>4, <2>5 DEF link_broken
  <2> QED  BY <2>5, <2>6 DEF verify_audit_chain
<1> QED  BY <1>2, <1>3 DEF Altered

\* A missing row leaves a gap before the row after it.
LEMMA MissingShows ==
    ASSUME NEW t, NEW k \in Nat, ChainOf(t, k), NEW n \in 1 .. k, n + 1 <= k
    PROVE  verify_audit_chain(Without(t, n)) # {}
<1> DEFINE x == Without(t, n)
<1>1. DOMAIN x = (1 .. k) \ {n} /\ n + 1 \in DOMAIN x
  BY DEF ChainOf, Without
<1>2. CASE n = 1
  <2>1. IsFirst(x, n + 1)
    BY <1>1, <1>2 DEF IsFirst
  <2> QED  BY <1>1, <1>2, <2>1 DEF verify_audit_chain, sequence_gap
<1>3. CASE n # 1
  <2>1. n - 1 \in DOMAIN x /\ Follows(x, n - 1, n + 1)
    BY <1>1, <1>3 DEF Follows
  <2>2. sequence_gap(x, n + 1)
    BY <2>1 DEF sequence_gap
  <2> QED  BY <1>1, <2>2 DEF verify_audit_chain
<1> QED  BY <1>2, <1>3

\* The earlier of two exchanged rows does not continue the row before it.
LEMMA SwapShows ==
    ASSUME NEW t, NEW k \in Nat, ChainOf(t, k), NEW x,
           NEW a \in 1 .. k, NEW b \in 1 .. k, a < b,
           DOMAIN x = 1 .. k, x[a] = t[b], a # 1 => x[a - 1] = t[a - 1]
    PROVE  verify_audit_chain(x) # {}
<1>1. t[b].prev = t[b - 1].hash /\ b - 1 \in 1 .. k
  BY DEF ChainOf
<1>2. CASE a = 1
  <2>1. t[b - 1].hash # GENESIS_PREV_HASH
    BY <1>1, HashNotGenesis DEF ChainOf
  <2>2. link_broken(x, a)
    BY <1>1, <1>2, <2>1 DEF link_broken, IsFirst
  <2> QED  BY <2>2 DEF verify_audit_chain
<1>3. CASE a # 1
  <2>1. a - 1 \in 1 .. k /\ a - 1 < b - 1
    BY <1>3
  <2>2. x[a].prev # x[a - 1].hash
    BY <1>1, <1>3, <2>1, HashesDiffer
  <2>3. Follows(x, a - 1, a)
    BY <2>1 DEF Follows
  <2>4. link_broken(x, a)
    BY <2>1, <2>2, <2>3 DEF link_broken
  <2> QED  BY <2>4 DEF verify_audit_chain
<1> QED  BY <1>2, <1>3

\* Until a rollback hits the unit of another thread, any change, removal or
\* exchange of a row before the tip of the committed log is reported, for logs
\* of any length and any events.
THEOREM TamperingShows == LogSpec => []TamperEvident
<1>1. ChainInv => TamperEvident
  <2> SUFFICES ASSUME ChainInv, ~torn, NEW n \in DOMAIN saved, ~IsLast(saved, n)
               PROVE  /\ \A t \in Altered(saved, n) : verify_audit_chain(t) # {}
                      /\ verify_audit_chain(Without(saved, n)) # {}
                      /\ \A m \in DOMAIN saved \ {n} :
                            verify_audit_chain(Swapped(saved, n, m)) # {}
    BY DEF TamperEvident
  <2>1. PICK k \in Nat : ChainOf(saved, k)
    BY DEF ChainInv, IsChain
  <2>2. DOMAIN saved = 1 .. k /\ n \in 1 .. k
    BY <2>1 DEF ChainOf
  <2>3. n + 1 <= k
    BY <2>2 DEF IsLast
  <2>4. ASSUME NEW m \in DOMAIN saved \ {n}
        PROVE  verify_audit_chain(Swapped(saved, n, m)) # {}
    <3> DEFINE x == Swapped(saved, n, m)
    <3>1. /\ DOMAIN x = 1 .. k /\ x[n] = saved[m] /\ x[m] = saved[n]
          /\ \A i \in (1 .. k) \ {n, m} : x[i] = saved[i]
      BY <2>2 DEF Swapped
    <3> HIDE DEF x
    <3>2. CASE n < m
      <4>1. n # 1 => x[n - 1] = saved[n - 1]
        BY <2>2, <3>1, <3>2
      <4> QED  BY <2>1, <2>2, <3>1, <3>2, <4>1, SwapShows DEF x
    <3>3. CASE m < n
      <4>1. m # 1 => x[m - 1] = saved[m - 1]
        BY <2>2, <3>1, <3>3
      <4> QED  BY <2>1, <2>2, <3>1, <3>3, <4>1, SwapShows DEF x
    <3> QED  BY <2>2, <3>2, <3>3
  <2> QED  BY <2>1, <2>2, <2>3, <2>4, AlteredShows, MissingShows
<1> QED
  BY <1>1, ChainInvariant, PTL

=============================================================================
