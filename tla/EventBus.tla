------------------------------ MODULE EventBus ------------------------------
(***************************************************************************)
(* EventBus and the channels that publish on it.  publish() runs every     *)
(* matching handler on the publisher's thread, then every sink, and keeps  *)
(* the exceptions to itself; one step here is one receiver.                *)
(*                                                                         *)
(*   subs         the subscriptions in the order of registration           *)
(*   sinks        the sinks attached at start-up, with their filters       *)
(*   queue        per thread: the receivers publish() has still to call    *)
(*   event        per thread: the event being published                    *)
(*   owed, called per thread (for the properties): the receivers whose     *)
(*                pattern or filter took the event, those called so far    *)
(*                                                                         *)
(* Left out: last_errors, the exceptions of the last publish(), which only *)
(* tests read.                                                             *)
(***************************************************************************)
EXTENDS Naturals, Sequences, FiniteSets

CONSTANTS Threads

VARIABLES subs, sinks, queue, event, owed, called

dispatch == <<queue, event, owed, called>>
busvars  == <<subs, sinks, dispatch>>

-----------------------------------------------------------------------------
(* Events, by channel.  about is the request or task an event tells of. *)

LOW      == 0
NORMAL   == 1
HIGH     == 2
CRITICAL == 3

Emit(family, name, priority) ==
    [family |-> family, name |-> name, priority |-> priority, about |-> "none", to |-> "none"]

NoEvent == Emit("none", "none", LOW)

TaskChannel(task, state) ==
    [Emit("task", "state_changed", NORMAL) EXCEPT !.about = task, !.to = state]

InteractionChannel(request) ==
    [Emit("interaction", "conversation_turn", NORMAL) EXCEPT !.about = request]

\* The other channels: below and above what a sink filters by.
OtherChannels ==
    {Emit("execution", "completed", NORMAL), Emit("security", "violation", CRITICAL)}

-----------------------------------------------------------------------------
(* Patterns, filters and the order of the receivers *)

\* "*", "family.*" or an exact type; none of them looks at the payload.
pattern_matches(p, e) ==
    p.family = "*" \/ (p.family = e.family /\ p.name \in {"*", e.name})

\* EventFilter.matches with min_priority; the other two axes are not set.
matches(filter, e) == e.priority >= filter

Subscription(id, family, name, priority) ==
    [id |-> id, pattern |-> [family |-> family, name |-> name], priority |-> priority]

Ids(s) == {s[i].id : i \in DOMAIN s}

\* The place of subscription i after the stable sort; only the memory extractor
\* registers with a priority.
by_priority(i) == IF subs[i].priority > 0 THEN i ELSE Len(subs) + i

\* Whom publish() will call, in the order of their ranks: first the handlers
\* that match, then the sinks whose filter lets the event through.
Receivers(e) ==
    {[rank |-> by_priority(i), id |-> subs[i].id] :
        i \in {j \in DOMAIN subs : pattern_matches(subs[j].pattern, e)}}
    \cup
    {[rank |-> 2 * Len(subs) + i, id |-> sinks[i].id] :
        i \in {j \in DOMAIN sinks : matches(sinks[j].filter, e)}}

-----------------------------------------------------------------------------
(* Operations *)

\* The matching subscriptions are fixed here: who subscribes later misses this
\* event, who unsubscribes later still gets it.
publish(t, e) ==
    /\ queue' = [queue EXCEPT ![t] = Receivers(e)]
    /\ event' = [event EXCEPT ![t] = e]
    /\ owed' = [owed EXCEPT ![t] =
                   {s \in Ids(subs) : \E i \in DOMAIN subs :
                       subs[i].id = s /\ pattern_matches(subs[i].pattern, e)}
                   \cup {s \in Ids(sinks) : \E i \in DOMAIN sinks :
                       sinks[i].id = s /\ matches(sinks[i].filter, e)}]
    /\ called' = [called EXCEPT ![t] = {}]
    /\ UNCHANGED <<subs, sinks>>

Foremost(t) == CHOOSE r \in queue[t] : \A q \in queue[t] : r.rank <= q.rank
Receiver(t) == Foremost(t).id

HandlerReturns(t) ==
    /\ called' = [called EXCEPT ![t] = @ \cup {Receiver(t)}]
    /\ queue' = [queue EXCEPT ![t] = @ \ {Foremost(t)}]
    /\ UNCHANGED <<subs, sinks, event, owed>>

\* Seeded fault: the first exception ends the dispatch.
HandlerRaises_Stop(t) ==
    /\ called' = [called EXCEPT ![t] = @ \cup {Receiver(t)}]
    /\ queue' = [queue EXCEPT ![t] = {}]
    /\ UNCHANGED <<subs, sinks, event, owed>>

\* The exception is logged; the next receiver is called all the same.
HandlerRaises(t) == HandlerReturns(t)

\* publish() returns.
Published(t) ==
    /\ event' = [event EXCEPT ![t] = NoEvent]
    /\ owed' = [owed EXCEPT ![t] = {}] /\ called' = [called EXCEPT ![t] = {}]
    /\ UNCHANGED <<subs, sinks, queue>>

subscribe(sub) ==
    /\ sub.id \notin Ids(subs)
    /\ subs' = Append(subs, sub)
    /\ UNCHANGED <<sinks, dispatch>>

\* Ids are unique: subscribe() makes them up from a counter.
Drop(id) ==
    \E k \in DOMAIN subs : /\ subs[k].id = id
                           /\ subs' = SubSeq(subs, 1, k - 1) \o SubSeq(subs, k + 1, Len(subs))

unsubscribe(id) == Drop(id) /\ UNCHANGED <<sinks, dispatch>>

=============================================================================
