---------------------------- MODULE AuditChain -----------------------------
(***************************************************************************)
(* The hash-chained audit log: SqliteAuditSink.record appends, inside the  *)
(* unit of work of whoever audits, and verify_audit_chain replays the      *)
(* whole table.  record() reads the tip and inserts the next row in two    *)
(* statements; all threads share the connection, its open transaction and  *)
(* the nesting counter of the unit of work (here the set `inside`).        *)
(* __exit__ lowers the counter first and ends the transaction afterwards:  *)
(* another thread can enter in between.                                    *)
(*                                                                         *)
(* The table is a function from sequence numbers to rows.  SHA-256 is an   *)
(* injective pairing of the event with the hash before it.                 *)
(***************************************************************************)
EXTENDS Naturals, FiniteSets

CONSTANTS
    Writers,    \* threads that audit
    Events,     \* contents of an audit event
    MaxEvents   \* bound on the sequence numbers of one behaviour

ASSUME MaxEventsAssumption == MaxEvents \in Nat \ {0}

VARIABLES
    table,      \* audit_events as the connection sees it
    saved,      \* its committed contents
    inside,     \* writers inside a unit of work
    tip,        \* tip[w]: what w read of the tip and has not used yet
    ending,     \* ending[w]: "commit" or "rollback" once w found the counter
                \* at zero and has not called the connection yet, else "no"
    torn        \* observation: has a rollback hit a unit of another thread?

logvars == <<table, saved, inside, tip, ending, torn>>

GENESIS_PREV_HASH == <<>>
hash_audit_event(event, prev) == <<event, prev>>

\* Successor of nothing in the table: the row a writer would add first.
NoTip == [seq |-> 0, prev |-> GENESIS_PREV_HASH]

EmptyTable == [n \in {} |-> NoTip]

LogInit ==
    /\ table = EmptyTable /\ saved = EmptyTable
    /\ inside = {}
    /\ tip = [w \in Writers |-> NoTip]
    /\ ending = [w \in Writers |-> "no"]
    /\ torn = FALSE

-----------------------------------------------------------------------------
(* verify_audit_chain *)

IsLast(t, m) == m \in DOMAIN t /\ \A k \in DOMAIN t : k <= m

\* n is the next row after m in sequence order.
Follows(t, m, n) ==
    /\ m \in DOMAIN t /\ n \in DOMAIN t /\ m < n
    /\ \A k \in DOMAIN t : k <= m \/ n <= k

IsFirst(t, n) == n \in DOMAIN t /\ \A k \in DOMAIN t : n <= k

sequence_gap(t, n) ==
    \/ IsFirst(t, n) /\ n # 1
    \/ \E m \in DOMAIN t : Follows(t, m, n) /\ n # m + 1

\* Seeded fault: only the first row is compared with its predecessor.
link_broken_FirstOnly(t, n) == IsFirst(t, n) /\ t[n].prev # GENESIS_PREV_HASH

link_broken(t, n) ==
    \/ IsFirst(t, n) /\ t[n].prev # GENESIS_PREV_HASH
    \/ \E m \in DOMAIN t : Follows(t, m, n) /\ t[n].prev # t[m].hash

content_altered(t, n) == t[n].hash # hash_audit_event(t[n].event, t[n].prev)

\* The rows at which a break is reported.
verify_audit_chain(t) ==
    {n \in DOMAIN t : sequence_gap(t, n) \/ link_broken(t, n) \/ content_altered(t, n)}

-----------------------------------------------------------------------------
(* SqliteAuditSink.record inside a unit of work *)

Idle(w) == w \notin inside /\ ending[w] = "no"

Open(w) ==
    /\ Idle(w)
    /\ inside' = inside \cup {w}
    /\ UNCHANGED <<table, saved, tip, ending, torn>>

\* Seeded fault: the previous hash is looked up among the committed rows.
ReadTip_Committed(w) ==
    /\ w \in inside /\ tip[w] = NoTip
    /\ \/ /\ table = EmptyTable
          /\ tip' = [tip EXCEPT ![w] = [seq |-> 1, prev |-> GENESIS_PREV_HASH]]
       \/ \E m \in DOMAIN table :
            /\ IsLast(table, m) /\ m < MaxEvents
            /\ tip' = [tip EXCEPT ![w] = [seq |-> m + 1, prev |->
                    IF m \in DOMAIN saved THEN saved[m].hash ELSE GENESIS_PREV_HASH]]
    /\ UNCHANGED <<table, saved, inside, ending, torn>>

\* SELECT ... ORDER BY sequence_number DESC LIMIT 1
ReadTip(w) ==
    /\ w \in inside /\ tip[w] = NoTip
    /\ \/ /\ table = EmptyTable
          /\ tip' = [tip EXCEPT ![w] = [seq |-> 1, prev |-> GENESIS_PREV_HASH]]
       \/ \E m \in DOMAIN table :
            /\ IsLast(table, m) /\ m < MaxEvents
            /\ tip' = [tip EXCEPT ![w] = [seq |-> m + 1, prev |-> table[m].hash]]
    /\ UNCHANGED <<table, saved, inside, ending, torn>>

Row(w, e) ==
    [event |-> e, prev |-> tip[w].prev, hash |-> hash_audit_event(e, tip[w].prev)]

\* Seeded fault: INSERT OR REPLACE.
Insert_Replace(w, e) ==
    /\ tip[w] # NoTip
    /\ table' = [n \in DOMAIN table \cup {tip[w].seq} |->
                    IF n = tip[w].seq THEN Row(w, e) ELSE table[n]]
    /\ tip' = [tip EXCEPT ![w] = NoTip]
    /\ UNCHANGED <<saved, inside, ending, torn>>

Insert(w, e) ==
    /\ tip[w] # NoTip /\ tip[w].seq \notin DOMAIN table
    /\ table' = [n \in DOMAIN table \cup {tip[w].seq} |->
                    IF n = tip[w].seq THEN Row(w, e) ELSE table[n]]
    /\ tip' = [tip EXCEPT ![w] = NoTip]
    /\ UNCHANGED <<saved, inside, ending, torn>>

\* __exit__ of the unit of w: the last one out will end the transaction.
Leave(w, failed) ==
    /\ inside' = inside \ {w}
    /\ ending' = [ending EXCEPT ![w] =
            IF inside' # {} THEN "no" ELSE IF failed THEN "rollback" ELSE "commit"]
    /\ UNCHANGED <<table, saved, torn>>

\* The unique index on sequence_number refuses the row: the unit raises.
InsertFails(w) ==
    /\ tip[w] # NoTip /\ tip[w].seq \in DOMAIN table
    /\ tip' = [tip EXCEPT ![w] = NoTip]
    /\ Leave(w, TRUE)

End(w) ==
    /\ w \in inside /\ tip[w] = NoTip
    /\ \E failed \in BOOLEAN : Leave(w, failed)
    /\ UNCHANGED tip

\* commit() and rollback() end whatever transaction the connection has open.
Commit(w) ==
    /\ ending[w] = "commit"
    /\ saved' = table
    /\ ending' = [ending EXCEPT ![w] = "no"]
    /\ UNCHANGED <<table, inside, tip, torn>>

Rollback(w) ==
    /\ ending[w] = "rollback"
    /\ table' = saved
    /\ ending' = [ending EXCEPT ![w] = "no"]
    /\ torn' = (torn \/ inside # {})
    /\ UNCHANGED <<saved, inside, tip>>

\* The process dies: the open transaction is gone.
Kill ==
    /\ \E w \in Writers : ~Idle(w)
    /\ table' = saved
    /\ inside' = {}
    /\ tip' = [w \in Writers |-> NoTip]
    /\ ending' = [w \in Writers |-> "no"]
    /\ UNCHANGED <<saved, torn>>

LogNext ==
    \/ \E w \in Writers :
        \/ Open(w) \/ ReadTip(w) \/ InsertFails(w) \/ End(w)
        \/ Commit(w) \/ Rollback(w)
        \/ \E e \in Events : Insert(w, e)
    \/ Kill

LogSpec == LogInit /\ [][LogNext]_logvars

-----------------------------------------------------------------------------
(* Properties *)

\* verify_audit_chain raises no false alarm: a log nobody has touched
\* verifies at every moment, through interleaved units, refused inserts,
\* rolled back units and crashes, as long as no rollback has hit the unit of
\* another thread.  A sequence_gap then means what its detail says, "an event
\* was deleted or the sequence was tampered with".
ChainVerifies ==
    ~torn => verify_audit_chain(table) = {} /\ verify_audit_chain(saved) = {}

\* What an outside change may do to a row: other content with the old hash,
\* or with a hash computed for it.
Altered(t, n) ==
    {[t EXCEPT ![n].event = e] : e \in Events \ {t[n].event}} \cup
    {[t EXCEPT ![n].event = e, ![n].hash = hash_audit_event(e, t[n].prev)] :
        e \in Events \ {t[n].event}}

Without(t, n) == [k \in DOMAIN t \ {n} |-> t[k]]
Swapped(t, n, m) == [t EXCEPT ![n] = t[m], ![m] = t[n]]

\* "changing, reordering, or deleting any earlier event" (audit/chain.py:21)
\* is detected: every altered, removed or exchanged row before the tip of
\* a committed log that verifies makes verify_audit_chain report a break.
TamperEvident ==
    ~torn => \A n \in DOMAIN saved : ~IsLast(saved, n) =>
        /\ \A t \in Altered(saved, n) : verify_audit_chain(t) # {}
        /\ verify_audit_chain(Without(saved, n)) # {}
        /\ \A m \in DOMAIN saved \ {n} :
              verify_audit_chain(Swapped(saved, n, m)) # {}

\* Committed history is append-only, whatever the threads do: no unit
\* changes or removes a committed row.
CommittedRowsStay ==
    [][\A n \in DOMAIN saved : n \in DOMAIN saved' /\ saved'[n] = saved[n]]_logvars

\* Type invariant: a writer holds a tip only inside its unit, and the table
\* never lacks a committed row.
LogTypeOK ==
    /\ DOMAIN table \subseteq 1 .. MaxEvents
    /\ DOMAIN saved \subseteq DOMAIN table
    /\ inside \subseteq Writers
    /\ ending \in [Writers -> {"no", "commit", "rollback"}]
    /\ torn \in BOOLEAN
    /\ \A w \in Writers : tip[w] # NoTip => w \in inside /\ tip[w].seq \in 1 .. MaxEvents
=============================================================================
