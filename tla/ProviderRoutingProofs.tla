----------------------- MODULE ProviderRoutingProofs -----------------------
(***************************************************************************)
(* Proofs about ProviderRouting, for any registry, any requirements, any   *)
(* number of threads and any window.                                       *)
(*                                                                         *)
(* The inductive invariant says how the three sets of a call under way fit *)
(* together: what it has tried and what it has still to try make up what   *)
(* it was offered, and the tried part has not used up the budget.          *)
(***************************************************************************)
EXTENDS ProviderRouting, FiniteSetTheorems, TLAPS

\* A call under way: offered is split into tried and todo.
SplitInv ==
    \A c \in Callers : pc[c] = "calling" =>
        /\ offered[c] = tried[c] \cup todo[c] /\ tried[c] \cap todo[c] = {}
        /\ todo[c] # {} /\ result[c] = "none"
        /\ WithinBudget(tried[c])

\* Only a call under way has providers to try.
IdleInv == \A c \in Callers : pc[c] = "idle" => todo[c] = {}

Inv == TypeOK /\ SplitInv /\ IdleInv /\ RankedOrder /\ ExhaustedMeansTried

-----------------------------------------------------------------------------

\* record keeps a window a sequence of at most WindowSize outcomes.
LEMMA RecordType ==
    ASSUME NEW w \in Seq(BOOLEAN), Len(w) <= WindowSize, NEW ok \in BOOLEAN
    PROVE  record(w, ok) \in Seq(BOOLEAN) /\ Len(record(w, ok)) <= WindowSize
<1>1. Append(w, ok) \in Seq(BOOLEAN) /\ Len(Append(w, ok)) = Len(w) + 1
  OBVIOUS
<1>2. Len(Append(w, ok)) > WindowSize =>
        /\ Tail(Append(w, ok)) \in Seq(BOOLEAN)
        /\ Len(Tail(Append(w, ok))) = Len(w)
  BY <1>1, LimitsAssumption
<1>3. CASE Len(Append(w, ok)) > WindowSize
  <2>1. record(w, ok) = Tail(Append(w, ok))
    BY <1>3 DEF record
  <2> QED
    BY <1>2, <1>3, <2>1
<1>4. CASE ~(Len(Append(w, ok)) > WindowSize)
  <2>1. record(w, ok) = Append(w, ok)
    BY <1>4 DEF record
  <2>2. Len(Append(w, ok)) <= WindowSize
    BY <1>1, <1>4, LimitsAssumption
  <2> QED
    BY <1>1, <2>1, <2>2
<1> QED
  BY <1>3, <1>4

\* An exchange leaves the windows well formed and the other windows alone.
LEMMA ExchangeType ==
    ASSUME TypeOK, NEW p \in Providers, NEW reply \in Replies, Exchange(p, reply)
    PROVE  /\ outcomes' \in [Providers -> Seq(BOOLEAN)]
           /\ \A q \in Providers : Len(outcomes'[q]) <= WindowSize
           /\ \A q \in Providers : q # p => outcomes'[q] = outcomes[q]
<1>1. (~Raises(reply)) \in BOOLEAN
  BY DEF Raises
<1>2. outcomes[p] \in Seq(BOOLEAN) /\ Len(outcomes[p]) <= WindowSize
  BY DEF TypeOK
<1>3. /\ record(outcomes[p], ~Raises(reply)) \in Seq(BOOLEAN)
      /\ Len(record(outcomes[p], ~Raises(reply))) <= WindowSize
  BY <1>1, <1>2, RecordType
<1> QED
  BY <1>3 DEF Exchange, TypeOK

\* The list of a call holds registered, suitable providers.
LEMMA EligibleSuits ==
    ASSUME TypeOK, NEW p \in eligible(reqs)
    PROVE  p \in Providers /\ Suitable(p, reqs) /\ Health(p) # "UNAVAILABLE"
BY DEF eligible, TypeOK

\* A sort key is a number from 0 to 3.
LEMMA RankType ==
    ASSUME NEW p, NEW preferred
    PROVE  rank_key(p, preferred) \in Ranks
BY DEF rank_key, Ranks

\* What the frame of a call looks like.
FrameType ==
    /\ pc \in [Callers -> {"idle", "calling"}] /\ todo \in [Callers -> SUBSET Providers]
    /\ result \in [Callers -> Results] /\ rank \in [Callers -> [Providers -> Ranks]]

\* The end of a call leaves a well-formed frame.
LEMMA EndType ==
    ASSUME FrameType, NEW c \in Callers, NEW r \in Results, End(c, r)
    PROVE  FrameType'
<1>1. NoRank \in [Providers -> Ranks]
  BY DEF NoRank, Ranks
<1> QED
  BY <1>1 DEF FrameType, End

\* The service starts in the invariant.
LEMMA InitInv ==
    Init => Inv
BY ProfileAssumption, LimitsAssumption
   DEF Init, Inv, TypeOK, SplitInv, IdleInv, RankedOrder, ExhaustedMeansTried,
       build_provider_routing_service, NoRank, Ranks, Results

\* generate() takes its snapshot.
LEMMA BeginInv ==
    ASSUME Inv, NEW c \in Callers, Begin(c)
    PROVE  Inv'
<1> USE DEF Inv
<1>1. eligible(reqs) \subseteq Providers
  BY EligibleSuits
<1>2. FrameType'
  <2>0. FrameType
    BY DEF TypeOK, FrameType
  <2>1. CASE eligible(reqs) = {}
    <3>1. End(c, "no_eligible")
      BY <2>1 DEF Begin
    <3> QED
      BY <2>0, <3>1, EndType DEF Results
  <2>2. CASE eligible(reqs) # {}
    <3>1. PICK preferred \in Preferences :
            rank' = [rank EXCEPT ![c] = [p \in Providers |-> rank_key(p, preferred)]]
      BY <2>2 DEF Begin
    <3>2. [p \in Providers |-> rank_key(p, preferred)] \in [Providers -> Ranks]
      BY RankType
    <3>3. /\ pc' = [pc EXCEPT ![c] = "calling"] /\ todo' = [todo EXCEPT ![c] = eligible(reqs)]
          /\ result' = [result EXCEPT ![c] = "none"]
      BY <2>2 DEF Begin
    <3> QED
      BY <1>1, <2>0, <3>1, <3>2, <3>3 DEF FrameType, Results
  <2> QED
    BY <2>1, <2>2
<1>3. calls' \in 0 .. MaxCalls
  BY LimitsAssumption DEF Begin, TypeOK
<1>4. TypeOK'
  <2>1. UNCHANGED <<built, outcomes>> /\ offered' \in [Callers -> SUBSET Providers]
                                     /\ tried' \in [Callers -> SUBSET Providers]
    BY <1>1 DEF TypeOK, Begin
  <2> QED
    BY <1>2, <1>3, <2>1 DEF TypeOK, FrameType, built
<1>5. Cardinality({}) = 0
  BY FS_EmptySet
<1>6. SplitInv' /\ IdleInv'
  <2>1. WithinBudget({})'
    BY <1>5, RequirementsAssumption DEF WithinBudget, TypeOK, Begin, built
  <2> QED
    BY <1>1, <2>1, RequirementsAssumption
       DEF SplitInv, IdleInv, Begin, End, TypeOK, WithinBudget, built
<1>8. RankedOrder'
  BY DEF RankedOrder, Begin, End, TypeOK, Before
<1>9. ExhaustedMeansTried'
  BY <1>1 DEF ExhaustedMeansTried, Begin, End, TypeOK, built
<1> QED
  BY <1>4, <1>6, <1>8, <1>9

\* A provider answers.
LEMMA AnswerInv ==
    ASSUME Inv, NEW c \in Callers, Answer(c)
    PROVE  Inv'
<1> USE DEF Inv
<1>1. PICK p \in todo[c], reply \in Replies : Exchange(p, reply)
  BY DEF Answer
<1>2. TypeOK'
  BY <1>1, ExchangeType DEF TypeOK, Answer, End, NoRank, Ranks, Results, built
<1>3. SplitInv' /\ IdleInv'
  BY DEF SplitInv, IdleInv, Answer, End, TypeOK, WithinBudget, built
<1>4. RankedOrder' /\ ExhaustedMeansTried'
  BY DEF RankedOrder, ExhaustedMeansTried, Answer, End, TypeOK, Before, built
<1> QED
  BY <1>2, <1>3, <1>4

\* A provider fails: the call goes on with the next one, or is exhausted.
LEMMA FailInv ==
    ASSUME Inv, NEW c \in Callers, Fail(c)
    PROVE  Inv'
<1> USE DEF Inv
<1>1. PICK p \in todo[c], reply \in Replies :
        /\ IsNext(c, p) /\ Exchange(p, reply)
        /\ tried' = [tried EXCEPT ![c] = @ \cup {p}]
        /\ IF todo[c] # {p} /\ WithinBudget(tried'[c])
           THEN /\ todo' = [todo EXCEPT ![c] = @ \ {p}]
                /\ UNCHANGED <<pc, rank, result>>
           ELSE End(c, "exhausted")
  BY DEF Fail
<1>2. pc[c] = "calling" /\ p \in Providers /\ p \notin tried[c]
  BY <1>1 DEF Fail, TypeOK, SplitInv
<1>3. TypeOK'
  <2>1. /\ outcomes' \in [Providers -> Seq(BOOLEAN)]
        /\ \A q \in Providers : Len(outcomes'[q]) <= WindowSize
    BY <1>1, <1>2, ExchangeType
  <2>2. UNCHANGED <<built, calls, offered>> /\ tried' \in [Callers -> SUBSET Providers]
    BY <1>1, <1>2 DEF TypeOK, Fail
  <2>3. FrameType'
    <3>1. FrameType
      BY DEF TypeOK, FrameType
    <3>2. CASE End(c, "exhausted")
      BY <3>1, <3>2, EndType DEF Results
    <3>3. CASE todo' = [todo EXCEPT ![c] = @ \ {p}] /\ UNCHANGED <<pc, rank, result>>
      BY <3>1, <3>3 DEF FrameType
    <3> QED
      BY <1>1, <3>2, <3>3
  <2> QED
    BY <2>1, <2>2, <2>3 DEF TypeOK, FrameType, built
<1>4. tried'[c] = tried[c] \cup {p}
  BY <1>1 DEF TypeOK
<1>5. Cardinality(tried'[c]) = Cardinality(tried[c]) + 1 /\ Cardinality(tried[c]) \in Nat
  <2>1. IsFiniteSet(tried[c])
    <3>1. IsFiniteSet(1 .. NumProviders)
      BY FS_Interval, ProfileAssumption
    <3> QED
      BY <3>1, FS_Subset DEF TypeOK, Providers
  <2> QED
    BY <1>2, <1>4, <2>1, FS_AddElement, FS_CardinalityType
<1>6. SplitInv' /\ IdleInv'
  <2>1. reqs' = reqs /\ offered' = offered
    BY DEF Fail, built
  <2>2. CASE todo[c] # {p} /\ WithinBudget(tried'[c])
    <3>1. /\ todo'[c] = todo[c] \ {p} /\ UNCHANGED <<pc, result>>
          /\ \A d \in Callers : d # c => todo'[d] = todo[d] /\ tried'[d] = tried[d]
      BY <1>1, <2>2 DEF TypeOK
    <3>2. /\ offered[c] = tried'[c] \cup todo'[c] /\ tried'[c] \cap todo'[c] = {}
          /\ todo'[c] # {} /\ result[c] = "none"
      BY <1>1, <1>2, <1>4, <2>2, <3>1 DEF SplitInv
    <3>3. \A d \in Callers : d # c => WithinBudget(tried'[d]) = WithinBudget(tried[d])
      BY <3>1 DEF WithinBudget
    <3>4. \A d \in Callers : (WithinBudget(tried[d]))' = WithinBudget(tried'[d])
      BY <2>1 DEF WithinBudget
    <3> QED
      BY <1>2, <2>1, <2>2, <3>1, <3>2, <3>3, <3>4 DEF SplitInv, IdleInv
  <2>3. CASE ~(todo[c] # {p} /\ WithinBudget(tried'[c]))
    <3>1. /\ pc'[c] = "idle" /\ todo'[c] = {}
          /\ \A d \in Callers : d # c => /\ pc'[d] = pc[d] /\ todo'[d] = todo[d]
                                        /\ tried'[d] = tried[d] /\ result'[d] = result[d]
      BY <1>1, <2>3 DEF End, TypeOK
    <3> QED
      BY <2>1, <3>1 DEF SplitInv, IdleInv, WithinBudget
  <2> QED
    BY <2>2, <2>3
<1>8. RankedOrder'
  BY <1>1, <1>2 DEF RankedOrder, Fail, End, TypeOK, Before, IsNext
<1>9. ExhaustedMeansTried'
  <2>1. CASE todo[c] # {p} /\ WithinBudget(tried'[c])
    BY <1>1, <1>2, <2>1 DEF ExhaustedMeansTried, SplitInv, Fail, TypeOK, built
  <2>2. CASE todo[c] = {p}
    <3>1. tried'[c] = offered'[c]
      BY <1>2, <1>4, <2>2 DEF SplitInv, Fail
    <3> QED
      BY <1>1, <1>2, <2>2, <3>1 DEF ExhaustedMeansTried, Fail, End, TypeOK, built
  <2>3. CASE ~WithinBudget(tried'[c])
    <3>1. reqs.max_attempts # 0 /\ Cardinality(tried'[c]) = reqs.max_attempts
      <4>1. reqs.max_attempts \in Nat /\ WithinBudget(tried[c])
        BY <1>2, RequirementsAssumption DEF TypeOK, SplitInv
      <4> QED
        BY <1>5, <2>3, <4>1 DEF WithinBudget
    <3> QED
      BY <1>1, <1>2, <2>3, <3>1 DEF ExhaustedMeansTried, Fail, End, TypeOK, built
  <2> QED
    BY <2>1, <2>2, <2>3
<1> QED
  BY <1>3, <1>6, <1>8, <1>9

\* Inv is inductive.
THEOREM Invariance ==
    Spec => []Inv
<1>1. Inv /\ [Next]_vars => Inv'
  <2> SUFFICES ASSUME Inv, [Next]_vars PROVE Inv'
    OBVIOUS
  <2>1. CASE UNCHANGED vars
    BY <2>1 DEF Inv, TypeOK, SplitInv, IdleInv, RankedOrder, ExhaustedMeansTried,
                vars, built, frame, WithinBudget, Before
  <2>2. CASE Next
    BY <2>2, BeginInv, AnswerInv, FailInv DEF Next
  <2> QED
    BY <2>1, <2>2
<1> QED
  BY InitInv, <1>1, PTL DEF Spec

-----------------------------------------------------------------------------

\* The windows and the calls keep their types.
THEOREM TypeCorrect ==
    Spec => []TypeOK
<1>1. Inv => TypeOK
  BY DEF Inv
<1> QED
  BY Invariance, <1>1, PTL

\* generate() tries the providers in the order it ranked them, whatever other
\* calls record meanwhile.
THEOREM OrderIsKept ==
    Spec => []RankedOrder
<1>1. Inv => RankedOrder
  BY DEF Inv
<1> QED
  BY Invariance, <1>1, PTL

\* AllProvidersExhaustedError is raised only when every offered provider has
\* failed in this call or the budget is used up exactly.
THEOREM ExhaustionIsHonest ==
    Spec => []ExhaustedMeansTried
<1>1. Inv => ExhaustedMeansTried
  BY DEF Inv
<1> QED
  BY Invariance, <1>1, PTL

\* An outage is for ever: once a provider is UNAVAILABLE and no call that
\* ranked it earlier is under way, no call ever turns to it again, so no
\* success can bring it back, whether or not its backend has recovered.
OutageIsForever ==
    [][\A p \in Providers :
          Health(p) = "UNAVAILABLE" /\ (\A c \in Callers : p \notin todo[c])
              => Health(p)' = "UNAVAILABLE" /\ (\A c \in Callers : p \notin todo'[c])]_vars

\* Once a provider is UNAVAILABLE and in no call's list, HealthTracker never
\* hears of it again: what the counterexample to OutagesEnd shows on a small
\* instance, for every registry, window and number of threads.
THEOREM OutagesLast ==
    Spec => OutageIsForever
<1> DEFINE Stays(p) ==
        Health(p) = "UNAVAILABLE" /\ (\A c \in Callers : p \notin todo[c])
            => Health(p)' = "UNAVAILABLE" /\ (\A c \in Callers : p \notin todo'[c])
<1>1. Inv /\ [Next]_vars => \A p \in Providers : Stays(p)
  <2> SUFFICES ASSUME Inv, [Next]_vars, NEW p \in Providers, Health(p) = "UNAVAILABLE",
                      \A c \in Callers : p \notin todo[c]
               PROVE  Health(p)' = "UNAVAILABLE" /\ (\A c \in Callers : p \notin todo'[c])
    OBVIOUS
  <2> USE DEF Inv
  <2>1. CASE UNCHANGED vars
    BY <2>1 DEF vars, frame, Health
  <2>2. ASSUME NEW c \in Callers, Begin(c)
        PROVE  outcomes' = outcomes /\ (\A d \in Callers : p \notin todo'[d])
    BY <2>2, EligibleSuits DEF Begin, End, TypeOK
  <2>3. ASSUME NEW c \in Callers, Answer(c)
        PROVE  outcomes'[p] = outcomes[p] /\ (\A d \in Callers : p \notin todo'[d])
    <3>1. PICK q \in todo[c], reply \in Replies : Exchange(q, reply)
      BY <2>3 DEF Answer
    <3>2. q \in Providers /\ q # p
      BY <3>1 DEF TypeOK
    <3> QED
      BY <2>3, <3>1, <3>2, ExchangeType DEF Answer, End, TypeOK
  <2>4. ASSUME NEW c \in Callers, Fail(c)
        PROVE  outcomes'[p] = outcomes[p] /\ (\A d \in Callers : p \notin todo'[d])
    <3>1. PICK q \in todo[c], reply \in Replies :
            /\ Exchange(q, reply)
            /\ \/ todo' = [todo EXCEPT ![c] = @ \ {q}]
               \/ todo' = [todo EXCEPT ![c] = {}]
      BY <2>4 DEF Fail, End
    <3>2. q \in Providers /\ q # p
      BY <3>1 DEF TypeOK
    <3> QED
      BY <3>1, <3>2, ExchangeType DEF TypeOK
  <2> QED
    BY <2>1, <2>2, <2>3, <2>4 DEF Next, Health
<1>2. Inv /\ [Next]_vars => [\A p \in Providers : Stays(p)]_vars
  BY <1>1
<1> QED
  BY Invariance, <1>2, PTL DEF Spec, OutageIsForever

=============================================================================
