-------------------------- MODULE ProviderRouting --------------------------
(***************************************************************************)
(* ProviderRoutingService: callers (the intent parser, the planner, the    *)
(* memory extractor and broker, on the API's threads) share one service.   *)
(* A call takes a snapshot of every provider's health, filters and ranks   *)
(* the providers, and tries them one after another until one answers;      *)
(* each outcome enters the sliding window the health is derived from.      *)
(*                                                                         *)
(* A provider is its place in the registration order.  The ranked list is  *)
(* the set todo[c] read in the order of Before: Python's sort is stable.   *)
(* Abstracted: prompts and replies (what is kept of a reply is how it ends *)
(* the attempt), audit rows, and the texts of the errors.                  *)
(***************************************************************************)
EXTENDS Naturals, Sequences, FiniteSets

CONSTANTS
    NumProviders,  \* registered providers, in registration order
    Profile,       \* Profile[p]: trust_level, capabilities, context_limit
    Requirements,  \* the RoutingRequirements a service may be built with, each
                   \* with its max_provider_attempts (0 stands for None)
    Preferences,   \* the providers a name in preferred_provider_ctx can match
    Callers,       \* threads that call generate()
    WindowSize,    \* HealthTracker.window_size
    MaxCalls       \* bound on the calls of one behaviour; 0 for no bound

Providers == 1 .. NumProviders

Trust == {"LOCAL", "TRUSTED_REMOTE", "UNTRUSTED"}

ASSUME ProfileAssumption ==
    /\ NumProviders \in Nat \ {0}
    /\ \A p \in Providers :
          Profile[p].trust_level \in Trust /\ Profile[p].context_limit \in Nat
ASSUME RequirementsAssumption ==
    \A q \in Requirements :
        /\ q.require_local_only \in BOOLEAN
        /\ q.context_size_estimate \in Nat /\ q.max_attempts \in Nat
ASSUME LimitsAssumption ==
    /\ Preferences \subseteq SUBSET Providers
    /\ WindowSize \in Nat \ {0} /\ MaxCalls \in Nat

VARIABLES
    registered,\* the providers of this service, fixed at construction
    reqs,      \* its requirements, fixed at construction
    outcomes,  \* outcomes[p]: HealthTracker's window, oldest first
    pc,        \* pc[c]: "idle", "calling"
    todo,      \* todo[c]: eligible providers the call has not tried yet
    rank,      \* rank[c][p]: the sort key p got when the call ranked them
    tried,     \* tried[c]: providers that failed in this call
    result,    \* result[c]: how the last call of c ended
    calls,
    \* observation only
    offered    \* offered[c]: the providers that were eligible when it began

frame  == <<pc, todo, rank, tried, result, offered>>
built  == <<registered, reqs>>
vars   == <<built, outcomes, frame, calls>>

Results == {"none", "answered", "no_eligible", "exhausted"}
Ranks   == 0 .. 3

TypeOK ==
    /\ registered \subseteq Providers
    /\ reqs \in Requirements
    /\ outcomes \in [Providers -> Seq(BOOLEAN)]
    /\ \A p \in Providers : Len(outcomes[p]) <= WindowSize
    /\ pc \in [Callers -> {"idle", "calling"}]
    /\ todo \in [Callers -> SUBSET Providers]
    /\ rank \in [Callers -> [Providers -> Ranks]]
    /\ tried \in [Callers -> SUBSET Providers]
    /\ result \in [Callers -> Results]
    /\ calls \in 0 .. MaxCalls
    /\ offered \in [Callers -> SUBSET Providers]

NoRank == [p \in Providers |-> 0]

\* build_provider_routing_service: the local provider always, each remote one
\* when its key is in the environment.
build_provider_routing_service == {R \in SUBSET Providers : 1 \in R}

Init ==
    /\ registered \in build_provider_routing_service
    /\ reqs \in Requirements
    /\ outcomes = [p \in Providers |-> <<>>]
    /\ pc = [c \in Callers |-> "idle"]
    /\ todo = [c \in Callers |-> {}]
    /\ rank = [c \in Callers |-> NoRank]
    /\ tried = [c \in Callers |-> {}]
    /\ result = [c \in Callers |-> "none"]
    /\ calls = 0
    /\ offered = [c \in Callers |-> {}]

-----------------------------------------------------------------------------
(* HealthTracker *)

Failures(w) == Cardinality({i \in DOMAIN w : ~w[i]})

\* The error rate of the window against the thresholds 0.7 and 0.3.
state(w) ==
    IF w = <<>> THEN "HEALTHY"
    ELSE IF 10 * Failures(w) >= 7 * Len(w) THEN "UNAVAILABLE"
    ELSE IF 10 * Failures(w) >= 3 * Len(w) THEN "DEGRADED" ELSE "HEALTHY"

Health(p) == state(outcomes[p])

\* _record: append, then drop the oldest when the window is over its size.
record(w, ok) ==
    LET longer == Append(w, ok)
    IN IF Len(longer) > WindowSize THEN Tail(longer) ELSE longer

-----------------------------------------------------------------------------
(* ProviderRouter.eligible *)

\* The hard constraints, everything but the health.
Suitable(p, q) ==
    /\ Profile[p].trust_level # "UNTRUSTED"
    /\ q.require_local_only => Profile[p].trust_level = "LOCAL"
    /\ q.required_capabilities \subseteq Profile[p].capabilities
    /\ Profile[p].context_limit >= q.context_size_estimate

eligible(q) == {p \in registered : Suitable(p, q) /\ Health(p) # "UNAVAILABLE"}

\* _rank_key: preferred providers first, and healthy ones before degraded.
rank_key(p, preferred) ==
    (IF p \in preferred THEN 0 ELSE 2) + (IF Health(p) = "HEALTHY" THEN 0 ELSE 1)

Before(c, p, q) == rank[c][p] < rank[c][q] \/ (rank[c][p] = rank[c][q] /\ p <= q)

\* p is the next entry of the ranked list.
IsNext(c, p) == p \in todo[c] /\ \A q \in todo[c] : Before(c, p, q)

\* eligible[:attempt_budget] still has an entry to try.
WithinBudget(done) == reqs.max_attempts = 0 \/ Cardinality(done) < reqs.max_attempts

-----------------------------------------------------------------------------
(* ModelCompatibleProvider.generate: how one HTTP exchange ends *)

\* The gateway refuses, cannot be reached or is too slow; the body is not what
\* the API promises; a reply whose text holds a JSON object, or does not.
Replies == {"unavailable", "timeout", "malformed", "object", "text"}

Raises(reply) == reply \notin {"object", "text"}

\* The exchange with p puts its outcome into p's window.
Exchange(p, reply) ==
    outcomes' = [outcomes EXCEPT ![p] = record(@, ~Raises(reply))]

-----------------------------------------------------------------------------
(* ProviderRoutingService.generate *)

End(c, r) ==
    /\ pc' = [pc EXCEPT ![c] = "idle"]
    /\ todo' = [todo EXCEPT ![c] = {}]
    /\ rank' = [rank EXCEPT ![c] = NoRank]
    /\ result' = [result EXCEPT ![c] = r]

\* Health is read once, here; what other calls record later changes neither
\* the list nor its order.  preferred: the providers whose id contains the
\* name in preferred_provider_ctx.
Begin(c) ==
    /\ pc[c] = "idle"
    /\ IF MaxCalls = 0 THEN calls' = calls ELSE calls < MaxCalls /\ calls' = calls + 1
    /\ offered' = [offered EXCEPT ![c] = eligible(reqs)]
    /\ tried' = [tried EXCEPT ![c] = {}]
    /\ IF eligible(reqs) = {}
       THEN End(c, "no_eligible")
       ELSE /\ pc' = [pc EXCEPT ![c] = "calling"]
            /\ todo' = [todo EXCEPT ![c] = eligible(reqs)]
            /\ \E preferred \in Preferences :
                  rank' = [rank EXCEPT ![c] =
                              [p \in Providers |-> rank_key(p, preferred)]]
            /\ result' = [result EXCEPT ![c] = "none"]
    /\ UNCHANGED <<built, outcomes>>

Answer(c) ==
    /\ pc[c] = "calling"
    /\ \E p \in todo[c], reply \in Replies :
          IsNext(c, p) /\ ~Raises(reply) /\ Exchange(p, reply)
    /\ End(c, "answered")
    /\ UNCHANGED <<built, tried, calls, offered>>

\* Seeded fault: the first failure ends the call.
Fail_Once(c) ==
    /\ pc[c] = "calling"
    /\ \E p \in todo[c], reply \in Replies :
          /\ IsNext(c, p) /\ Raises(reply) /\ Exchange(p, reply)
          /\ tried' = [tried EXCEPT ![c] = @ \cup {p}]
    /\ End(c, "exhausted")
    /\ UNCHANGED <<built, calls, offered>>

\* Whatever the category of the failure, the next eligible provider is tried.
Fail(c) ==
    /\ pc[c] = "calling"
    /\ \E p \in todo[c], reply \in Replies :
          /\ IsNext(c, p) /\ Raises(reply) /\ Exchange(p, reply)
          /\ tried' = [tried EXCEPT ![c] = @ \cup {p}]
          /\ IF todo[c] # {p} /\ WithinBudget(tried'[c])
             THEN /\ todo' = [todo EXCEPT ![c] = @ \ {p}]
                  /\ UNCHANGED <<pc, rank, result>>
             ELSE End(c, "exhausted")
    /\ UNCHANGED <<built, calls, offered>>

Next == \E c \in Callers : Begin(c) \/ Answer(c) \/ Fail(c)

Spec == Init /\ [][Next]_vars

\* Requests keep coming, an exchange ends (at the latest by its timeout), and
\* a provider that is asked over and over answers over and over.
Fairness ==
    \A c \in Callers :
        /\ WF_vars(Begin(c)) /\ WF_vars(Answer(c) \/ Fail(c))
        /\ \A p \in Providers : SF_vars(IsNext(c, p) /\ Answer(c))

FairSpec == Spec /\ Fairness

-----------------------------------------------------------------------------
(* Properties *)

\* AllProvidersExhaustedError is honest: without a budget every provider that
\* was eligible when the call began has failed in this very call, and with one
\* the budget is used up; a call that found nobody eligible tried nobody.
ExhaustedMeansTried ==
    \A c \in Callers :
        /\ result[c] = "exhausted" =>
              \/ tried[c] = offered[c]
              \/ reqs.max_attempts # 0 /\ Cardinality(tried[c]) = reqs.max_attempts
        /\ result[c] = "no_eligible" => tried[c] = {} /\ offered[c] = {}

\* A provider is tried only after every provider that ranked before it when
\* the call began has failed, however the windows have moved since.
RankedOrder ==
    \A c \in Callers : pc[c] = "calling" =>
        \A p \in tried[c], q \in todo[c] : Before(c, p, q)

\* "A provider recovers to HEALTHY as soon as enough recent successes push the
\* window's error rate back down" (health.py:26-27): while calls keep coming
\* and every provider that is asked again and again answers again and again,
\* no outage lasts for ever.
OutagesEnd == \A p \in Providers : []<>(Health(p) # "UNAVAILABLE")

=============================================================================
