---------------------------- MODULE UnitOfWork -----------------------------
(***************************************************************************)
(* SqliteUnitOfWork (shea/persistence/sqlite/unit_of_work.py): one object, *)
(* one nesting counter and one SQLite connection for the whole process.    *)
(* A unit is the code between an outermost __enter__ and its __exit__; it  *)
(* writes, and opens and closes nested blocks.  An exception unwinds the   *)
(* blocks, unless a block catches it.                                      *)
(*                                                                         *)
(* The n-th write of unit u is the pair <<u, n>>.  Units belong to the     *)
(* threads of the API server's pool: with Overlap they interleave.         *)
(***************************************************************************)
EXTENDS Naturals

CONSTANTS
    Units,      \* units of work that are run
    MaxWrites,  \* bound on the writes of one unit
    MaxNest,    \* bound on its nesting
    Overlap     \* may units of different threads be open at the same time?

ASSUME BoundsAssumption == MaxWrites \in Nat /\ MaxNest \in Nat \ {0}
ASSUME OverlapAssumption == Overlap \in BOOLEAN

VARIABLES
    depth,      \* self._depth, shared by all threads
    buffer,     \* writes of the connection's open transaction
    db,         \* committed writes
    nest,       \* nest[u]: blocks unit u is inside
    raising,    \* raising[u]: an exception is unwinding u
    written,    \* written[u]: writes u has made
    fate        \* fate[u]: "new", "open", "returned", "raised" or "killed"

vars == <<depth, buffer, db, nest, raising, written, fate>>

Writes == Units \X (1 .. MaxWrites)

TypeOK ==
    /\ depth \in Nat
    /\ buffer \subseteq Writes /\ db \subseteq Writes
    /\ nest \in [Units -> 0 .. MaxNest]
    /\ raising \in [Units -> BOOLEAN]
    /\ written \in [Units -> 0 .. MaxWrites]
    /\ fate \in [Units -> {"new", "open", "returned", "raised", "killed"}]

Init ==
    /\ depth = 0 /\ buffer = {} /\ db = {}
    /\ nest = [u \in Units |-> 0]
    /\ raising = [u \in Units |-> FALSE]
    /\ written = [u \in Units |-> 0]
    /\ fate = [u \in Units |-> "new"]

\* __enter__ of an outermost block.
Begin(u) ==
    /\ fate[u] = "new"
    /\ Overlap \/ \A v \in Units : fate[v] # "open"
    /\ fate' = [fate EXCEPT ![u] = "open"]
    /\ nest' = [nest EXCEPT ![u] = 1]
    /\ depth' = depth + 1
    /\ UNCHANGED <<buffer, db, raising, written>>

\* __enter__ of a nested block.
Enter(u) ==
    /\ fate[u] = "open" /\ ~raising[u] /\ nest[u] < MaxNest
    /\ nest' = [nest EXCEPT ![u] = @ + 1]
    /\ depth' = depth + 1
    /\ UNCHANGED <<buffer, db, raising, written, fate>>

\* A repository executes a statement on the shared connection.
Write(u) ==
    /\ fate[u] = "open" /\ ~raising[u] /\ written[u] < MaxWrites
    /\ written' = [written EXCEPT ![u] = @ + 1]
    /\ buffer' = buffer \cup {<<u, written[u] + 1>>}
    /\ UNCHANGED <<depth, db, nest, raising, fate>>

Raise(u) ==
    /\ fate[u] = "open" /\ ~raising[u]
    /\ raising' = [raising EXCEPT ![u] = TRUE]
    /\ UNCHANGED <<depth, buffer, db, nest, written, fate>>

\* Seeded fault: every clean exit commits.
EndTransaction_Eager(d, failed) ==
    /\ db' = IF failed THEN db ELSE db \cup buffer
    /\ buffer' = IF failed /\ d > 0 THEN buffer ELSE {}

\* The exit that brings the counter to d decides: at zero it commits or
\* rolls back whatever the connection holds, above zero it does neither.
EndTransaction(d, failed) ==
    /\ db' = IF d > 0 \/ failed THEN db ELSE db \cup buffer
    /\ buffer' = IF d > 0 THEN buffer ELSE {}

\* __exit__ of a nested block; the code around it may catch the exception.
Exit(u) ==
    /\ fate[u] = "open" /\ nest[u] > 1
    /\ nest' = [nest EXCEPT ![u] = @ - 1]
    /\ depth' = depth - 1
    /\ EndTransaction(depth - 1, raising[u])
    /\ raising' \in {raising, [raising EXCEPT ![u] = FALSE]}
    /\ UNCHANGED <<written, fate>>

\* __exit__ of the outermost block: the unit is over.
Finish(u) ==
    /\ fate[u] = "open" /\ nest[u] = 1
    /\ nest' = [nest EXCEPT ![u] = 0]
    /\ depth' = depth - 1
    /\ EndTransaction(depth - 1, raising[u])
    /\ fate' = [fate EXCEPT ![u] = IF raising[u] THEN "raised" ELSE "returned"]
    /\ raising' = [raising EXCEPT ![u] = FALSE]
    /\ UNCHANGED written

\* The process dies inside a unit and starts again.
Crash ==
    /\ \E u \in Units : fate[u] = "open"
    /\ depth' = 0 /\ buffer' = {}
    /\ nest' = [u \in Units |-> 0]
    /\ raising' = [u \in Units |-> FALSE]
    /\ fate' = [u \in Units |-> IF fate[u] = "open" THEN "killed" ELSE fate[u]]
    /\ UNCHANGED <<db, written>>

Next ==
    \/ \E u \in Units :
        Begin(u) \/ Enter(u) \/ Write(u) \/ Raise(u) \/ Exit(u) \/ Finish(u)
    \/ Crash

Spec == Init /\ [][Next]_vars

-----------------------------------------------------------------------------
(* Properties *)

WritesOf(u) == {<<u, n>> : n \in 1 .. written[u]}

\* "composed writes commit or roll back together" (unit_of_work.py:10): a
\* unit that returned has all its writes committed, however deeply they were
\* nested; a unit that raised, was killed or is still open has none.
AllOrNothing ==
    \A u \in Units :
        IF fate[u] = "returned" THEN WritesOf(u) \subseteq db
        ELSE db \cap WritesOf(u) = {}

\* A block never leaves the counter off: with no unit open it is zero, or
\* the next unit would not commit at all.
CounterBalanced == (\A u \in Units : fate[u] # "open") => depth = 0 /\ buffer = {}
=============================================================================
