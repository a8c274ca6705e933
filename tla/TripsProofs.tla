----------------------------- MODULE TripsProofs -------------------------------
(***************************************************************************)
(* What is cached about a trip, its todos and its feedback, proved of      *)
(* Trips for every number of trips, questions, todos and requests.         *)
(***************************************************************************)
EXTENDS Trips, FiniteSetTheorems, TLAPS

(* What is about to be stored fits as well as what is stored.              *)
SetsFit ==
    \A w \in Workers : req[w].op = "set" /\ req[w].q.kind # "map" =>
                         req[w].answer.about = Subject(req[w].q)

TripsInv == TripsTypeOK /\ AnswersFit /\ SetsFit /\ FeedbackBounded

Giving(t) == {w \in Workers : req[w].op = "feedback" /\ req[w].trip = t}

-----------------------------------------------------------------------------
(* Two questions under one key are about the same, unless they are about a *)
(* map without a gate, which no other question shares its key with.        *)
LEMMA KeyFits ==
  ASSUME NEW p \in Asked, NEW q \in Asked, Key(p) = Key(q), q.kind # "map"
  PROVE  p.kind # "map" /\ Subject(p) = Subject(q)
<1>1. \A x \in Asked : x.kind \in {"packing", "timeline", "plan", "tips", "gate_map", "map"} /\ x.trip \in Trips
  BY TripsAssumption DEF Question, PlanQuestion
<1>g. Gate[q.trip] # NoGate
  BY <1>1, TripsAssumption
<1>2. /\ p.kind = "packing" => Key(p) = <<"packing_list", p.trip>>
      /\ p.kind = "timeline" => Key(p) = <<"trip_timeline", p.trip, p.locale>>
      /\ p.kind = "plan" => Key(p) = <<"departure_plan", p.trip, p.spot, p.mode>>
      /\ p.kind = "tips" => Key(p) = <<"destination_tips", Destination[p.trip]>>
      /\ p.kind = "gate_map" => Key(p) = <<"indoor_map", Gate[p.trip]>>
      /\ p.kind = "map" => Key(p) = <<"indoor_map", NoGate>>
  BY DEF Key
<1>3. /\ q.kind = "packing" => Key(q) = <<"packing_list", q.trip>>
      /\ q.kind = "timeline" => Key(q) = <<"trip_timeline", q.trip, q.locale>>
      /\ q.kind = "plan" => Key(q) = <<"departure_plan", q.trip, q.spot, q.mode>>
      /\ q.kind = "tips" => Key(q) = <<"destination_tips", Destination[q.trip]>>
      /\ q.kind = "gate_map" => Key(q) = <<"indoor_map", Gate[q.trip]>>
  BY DEF Key
<1>p. \A a, b, c, d : <<a, b>> = <<c, d>> => a = c /\ b = d
  OBVIOUS
<1>t. \A a, b, c, d, e, f : <<a, b, c>> = <<d, e, f>> => a = d /\ b = e /\ c = f
  OBVIOUS
<1>u. \A a, b, c, d, e, f, g, h : <<a, b, c, d>> = <<e, f, g, h>> => b = f /\ c = g /\ d = h
  OBVIOUS
<1>n. \A a, b, c, d, e : <<a, b>> # <<c, d, e>>
  OBVIOUS
<1>k. /\ Key(p) = Key(q) /\ q.kind # "map"
      /\ q.kind \in {"packing", "timeline", "plan", "tips", "gate_map"}
      /\ p.kind \in {"packing", "timeline", "plan", "tips", "gate_map", "map"}
  BY <1>1
<1>4. p.kind = q.kind
  BY <1>2, <1>3, <1>g, <1>k
<1>5. CASE q.kind = "packing"
  <2>1. p.trip = q.trip
    BY <1>2, <1>3, <1>4, <1>5, <1>p
  <2> QED BY <1>4, <1>5, <2>1 DEF Subject
<1>6. CASE q.kind = "timeline"
  <2>1. p.trip = q.trip /\ p.locale = q.locale
    BY <1>2, <1>3, <1>4, <1>6, <1>t
  <2> QED BY <1>4, <1>6, <2>1 DEF Subject
<1>7. CASE q.kind = "tips"
  <2>1. Destination[p.trip] = Destination[q.trip]
    BY <1>2, <1>3, <1>4, <1>7, <1>p
  <2> QED BY <1>4, <1>7, <2>1 DEF Subject
<1>8. CASE q.kind = "gate_map"
  <2>1. Gate[p.trip] = Gate[q.trip]
    BY <1>2, <1>3, <1>4, <1>8, <1>p
  <2> QED BY <1>4, <1>8, <2>1 DEF Subject
<1>9. CASE q.kind = "plan"
  <2>1. p.trip = q.trip /\ p.spot = q.spot /\ p.mode = q.mode
    BY <1>2, <1>3, <1>4, <1>9, <1>u
  <2> QED BY <1>4, <1>9, <2>1 DEF Subject
<1> QED BY <1>1, <1>4, <1>5, <1>6, <1>7, <1>8, <1>9

(* The answers a model, a default and a merge give.                        *)
LEMMA AnswerTypes ==
  ASSUME NEW q \in Asked
  PROVE  /\ Replied(q) \in Answer /\ Replied(q).about = Subject(q)
         /\ Default(q) \in Answer /\ Default(q).about = Subject(q)
         /\ Attempted(q) \in Answer /\ Attempted(q).about = Subject(q)
         /\ [Replied(q) EXCEPT !.about = <<NoGate>>] \in Answer
         /\ \A a, b \in BOOLEAN : Merged(q, a, b) \in Answer /\ Merged(q, a, b).about = Subject(q)
  BY DEF Answer, Replied, Default, Attempted, Merged

LEMMA GivingFinite ==
  ASSUME NEW t
  PROVE  /\ IsFiniteSet(Giving(t)) /\ Cardinality(Giving(t)) \in Nat
         /\ Cardinality(Giving(t)) <= Cardinality(Workers)
         /\ IsFiniteSet(Giving(t)') /\ Cardinality(Giving(t)') \in Nat
         /\ Cardinality(Giving(t)') <= Cardinality(Workers)
         /\ Cardinality(Workers) \in Nat
<1>1. Giving(t) \subseteq Workers /\ Giving(t)' \subseteq Workers
  BY DEF Giving
<1> HIDE DEF Giving
<1> QED BY <1>1, TripsAssumption, FS_Subset, FS_CardinalityType

THEOREM InitInv == Init => TripsInv
<1> SUFFICES ASSUME Init PROVE TripsInv
  OBVIOUS
<1>1. \A w \in Workers : req[w].op = "idle"
  BY DEF Init
<1>2. Cardinality(Workers) \in Nat
  BY TripsAssumption, FS_CardinalityType
<1>3. TripsTypeOK
  <2>1. req \in [Workers -> Request]
    BY DEF Init, Request
  <2>2. cache \in [Keys -> SUBSET Answer] /\ \A k \in Keys : \A a, b \in cache[k] : a = b
    BY DEF Init
  <2>3. /\ up \in BOOLEAN /\ todo \in [Todos -> TodoStatus]
        /\ feedback \in [Trips -> 0..Cardinality(Workers)]
    BY <1>2 DEF Init, TodoStatus
  <2> QED BY <1>1, <2>1, <2>2, <2>3 DEF TripsTypeOK
<1>4. AnswersFit /\ SetsFit
  BY <1>1 DEF Init, AnswersFit, SetsFit, Keys
<1>5. FeedbackBounded
  <2> SUFFICES ASSUME NEW t \in Trips
               PROVE  feedback[t] + Cardinality(Giving(t)) <= Cardinality(Workers)
    BY DEF FeedbackBounded, Giving
  <2>1. feedback[t] = 0
    BY DEF Init
  <2> QED BY <2>1, GivingFinite
<1> QED BY <1>3, <1>4, <1>5 DEF TripsInv

-----------------------------------------------------------------------------
(* A step that takes a request on, or ends it, and touches neither what is *)
(* cached nor the feedback; of the todos, none becomes one that was never  *)
(* there.                                                                  *)
LEMMA TurnStep ==
  ASSUME TripsInv, NEW w \in Workers, NEW r \in Request, req' = [req EXCEPT ![w] = r],
         UNCHANGED <<cache, feedback>>, up' \in BOOLEAN,
         todo' \in [Todos -> TodoStatus],
         \A i \in Todos : todo[i] # "none" => todo'[i] # "none",
         r.op = "again" => r.q.kind = "packing",
         r.op \in {"ask", "again", "set"} => (r.fill => r.q.kind = "packing"),
         r.op \in {"update", "delete"} => todo[r.id] # "none",
         r.op = "set" /\ r.q.kind # "map" => r.answer.about = Subject(r.q),
         r.op = "feedback" => r.trip \in Trips /\ feedback[r.trip] = 0
  PROVE  TripsInv'
<1> USE DEF TripsInv
<1>1. /\ req'[w] = r /\ req' \in [Workers -> Request]
      /\ \A x \in Workers : x # w => req'[x] = req[x]
  BY DEF TripsTypeOK
<1>2. TripsTypeOK'
  <2>1. \A x \in Workers :
          /\ req'[x].op = "again" => req'[x].q.kind = "packing"
          /\ req'[x].op \in {"ask", "again", "set"} => (req'[x].fill => req'[x].q.kind = "packing")
    BY <1>1 DEF TripsTypeOK
  <2>2. \A x \in Workers : req'[x].op \in {"update", "delete"} => todo'[req'[x].id] # "none"
    <3> SUFFICES ASSUME NEW x \in Workers, req'[x].op \in {"update", "delete"}
                 PROVE  todo'[req'[x].id] # "none"
      OBVIOUS
    <3>1. req'[x].id \in Todos
      BY <1>1 DEF Request
    <3>2. todo[req'[x].id] # "none"
      BY <1>1 DEF TripsTypeOK
    <3> QED BY <3>1, <3>2
  <2>3. /\ cache' \in [Keys -> SUBSET Answer]
        /\ \A k \in Keys : \A a, b \in cache'[k] : a = b
        /\ feedback' \in [Trips -> 0..Cardinality(Workers)]
    BY DEF TripsTypeOK
  <2> QED BY <1>1, <2>1, <2>2, <2>3 DEF TripsTypeOK
<1>3. AnswersFit' /\ SetsFit'
  BY <1>1 DEF AnswersFit, SetsFit
<1>4. FeedbackBounded'
  <2> SUFFICES ASSUME NEW t \in Trips
               PROVE  feedback'[t] + Cardinality(Giving(t)') <= Cardinality(Workers)
    BY DEF FeedbackBounded, Giving
  <2>1. feedback'[t] = feedback[t] /\ feedback[t] \in Nat
    BY DEF TripsTypeOK
  <2>2. CASE r.op = "feedback" /\ r.trip = t
    BY <2>1, <2>2, GivingFinite
  <2>3. CASE ~(r.op = "feedback" /\ r.trip = t)
    <3>1. Giving(t)' \subseteq Giving(t)
      BY <1>1, <2>3 DEF Giving
    <3>2. feedback[t] + Cardinality(Giving(t)) <= Cardinality(Workers)
      BY DEF FeedbackBounded, Giving
    <3>3. Cardinality(Giving(t)') <= Cardinality(Giving(t))
      BY <3>1, GivingFinite, FS_Subset
    <3> QED BY <2>1, <3>2, <3>3, GivingFinite
  <2> QED BY <2>2, <2>3
<1> QED BY <1>2, <1>3, <1>4

(* A step of nobody's request.                                             *)
LEMMA WorldStep ==
  ASSUME TripsInv, UNCHANGED <<req, feedback>>, up' \in BOOLEAN,
         cache' \in [Keys -> SUBSET Answer], \A k \in Keys : cache'[k] \subseteq cache[k],
         todo' \in [Todos -> TodoStatus],
         \A i \in Todos : todo[i] # "none" => todo'[i] # "none"
  PROVE  TripsInv'
<1> USE DEF TripsInv
<1>1. TripsTypeOK'
  <2>1. \A x \in Workers : req[x].op \in {"update", "delete"} => req[x].id \in Todos
    BY DEF TripsTypeOK, Request
  <2> QED BY <2>1 DEF TripsTypeOK
<1>2. AnswersFit' /\ SetsFit'
  BY DEF AnswersFit, SetsFit, Keys
<1>3. FeedbackBounded'
  BY DEF FeedbackBounded
<1> QED BY <1>1, <1>2, <1>3

(* Set stores what fits, under a key that fits.                            *)
LEMMA SetInv ==
  ASSUME TripsInv, NEW w \in Workers, Set(w)
  PROVE  TripsInv'
<1> DEFINE q == req[w].q
           a == req[w].answer
           k == Key(q)
           r == IF req[w].fill THEN [op |-> "insert"] ELSE [op |-> "idle"]
<1> USE DEF TripsInv
<1>1. req[w] \in [op: {"set"}, q: Asked, fill: BOOLEAN, answer: Answer]
  BY DEF Set, TripsTypeOK, Request
<1>2. q \in Asked /\ a \in Answer /\ k \in Keys
  BY <1>1 DEF Keys
<1>3. q.kind # "map" => a.about = Subject(q)
  BY <1>1 DEF SetsFit
<1>4. /\ cache' = [cache EXCEPT ![k] = {a}] /\ req' = [req EXCEPT ![w] = r]
      /\ UNCHANGED <<up, todo, feedback>>
  BY DEF Set, Turn, Finish
<1>5. r \in Request /\ r.op \in {"insert", "idle"}
  BY DEF Request
<1> HIDE DEF q, a, r
<1>6. /\ req'[w] = r /\ req' \in [Workers -> Request]
      /\ \A x \in Workers : x # w => req'[x] = req[x]
  BY <1>4, <1>5 DEF TripsTypeOK
<1>7. TripsTypeOK'
  <2>1. cache' \in [Keys -> SUBSET Answer] /\ \A j \in Keys : \A b, c \in cache'[j] : b = c
    <3> HIDE DEF k
    <3> QED BY <1>2, <1>4 DEF TripsTypeOK
  <2>2. \A x \in Workers :
          /\ req'[x].op = "again" => req'[x].q.kind = "packing"
          /\ req'[x].op \in {"ask", "again", "set"} => (req'[x].fill => req'[x].q.kind = "packing")
          /\ req'[x].op \in {"update", "delete"} => todo'[req'[x].id] # "none"
    BY <1>4, <1>5, <1>6 DEF TripsTypeOK
  <2> QED BY <1>4, <1>6, <2>1, <2>2 DEF TripsTypeOK
<1>8. AnswersFit'
  <2> SUFFICES ASSUME NEW p \in Asked, p.kind # "map", NEW b \in cache'[Key(p)]
               PROVE  b.about = Subject(p)
    BY DEF AnswersFit
  <2>0. Key(p) \in Keys
    BY DEF Keys
  <2>1. CASE Key(p) = k
    <3>1. b = a
      BY <1>2, <1>4, <2>1 DEF TripsTypeOK
    <3>2. q.kind # "map" /\ Subject(q) = Subject(p)
      BY <1>2, <2>1, KeyFits
    <3> QED BY <1>3, <3>1, <3>2
  <2>2. CASE Key(p) # k
    <3>1. b \in cache[Key(p)]
      <4> HIDE DEF k
      <4> QED BY <1>4, <2>0, <2>2 DEF TripsTypeOK
    <3> QED BY <3>1 DEF AnswersFit
  <2> QED BY <2>1, <2>2
<1>9. SetsFit'
  BY <1>5, <1>6 DEF SetsFit
<1>10. FeedbackBounded'
  <2> SUFFICES ASSUME NEW t \in Trips
               PROVE  feedback'[t] + Cardinality(Giving(t)') <= Cardinality(Workers)
    BY DEF FeedbackBounded, Giving
  <2>1. Giving(t)' = Giving(t)
    BY <1>1, <1>5, <1>6 DEF Giving
  <2> QED BY <1>4, <2>1 DEF FeedbackBounded, Giving
<1> QED BY <1>7, <1>8, <1>9, <1>10

(* A feedback that is stored is no longer under way.                       *)
LEMMA FeedbackCommitInv ==
  ASSUME TripsInv, NEW w \in Workers, FeedbackCommit(w)
  PROVE  TripsInv'
<1> DEFINE t == req[w].trip
           r == [op |-> "idle"]
<1> USE DEF TripsInv
<1>1. t \in Trips /\ req[w].op = "feedback"
  BY DEF FeedbackCommit, TripsTypeOK, Request
<1>2. /\ feedback' = [feedback EXCEPT ![t] = @ + 1] /\ req' = [req EXCEPT ![w] = r]
      /\ UNCHANGED <<up, cache, todo>>
  BY DEF FeedbackCommit, Turn, Finish
<1>3. r \in Request /\ r.op = "idle"
  BY DEF Request
<1> HIDE DEF t, r
<1>4. /\ req'[w] = r /\ req' \in [Workers -> Request]
      /\ \A x \in Workers : x # w => req'[x] = req[x]
  BY <1>2, <1>3 DEF TripsTypeOK
<1>5. \A s \in Trips : /\ feedback[s] \in Nat
                       /\ feedback'[s] = IF s = t THEN feedback[s] + 1 ELSE feedback[s]
  BY <1>1, <1>2 DEF TripsTypeOK
<1>6. \A s \in Trips : feedback'[s] + Cardinality(Giving(s)') <= Cardinality(Workers)
  <2> SUFFICES ASSUME NEW s \in Trips
               PROVE  feedback'[s] + Cardinality(Giving(s)') <= Cardinality(Workers)
    OBVIOUS
  <2>1. feedback[s] + Cardinality(Giving(s)) <= Cardinality(Workers)
    BY DEF FeedbackBounded, Giving
  <2>2. CASE s = t
    <3>1. w \in Giving(s) /\ Giving(s)' = Giving(s) \ {w}
      BY <1>1, <1>3, <1>4, <2>2 DEF Giving, t
    <3>2. Cardinality(Giving(s)') = Cardinality(Giving(s)) - 1
      BY <3>1, GivingFinite, FS_RemoveElement
    <3> QED BY <1>5, <2>1, <2>2, <3>2, GivingFinite
  <2>3. CASE s # t
    <3>1. Giving(s)' = Giving(s)
      BY <1>1, <1>3, <1>4, <2>3 DEF Giving, t
    <3> QED BY <1>5, <2>1, <2>3, <3>1
  <2> QED BY <2>2, <2>3
<1>7. TripsTypeOK'
  <2>1. feedback' \in [Trips -> 0..Cardinality(Workers)]
    <3>1. \A s \in Trips : feedback'[s] \in 0..Cardinality(Workers)
      BY <1>5, <1>6, GivingFinite
    <3>2. feedback' = [s \in Trips |-> feedback'[s]]
      BY <1>2 DEF TripsTypeOK
    <3> QED BY <3>1, <3>2
  <2>2. \A x \in Workers :
          /\ req'[x].op = "again" => req'[x].q.kind = "packing"
          /\ req'[x].op \in {"ask", "again", "set"} => (req'[x].fill => req'[x].q.kind = "packing")
          /\ req'[x].op \in {"update", "delete"} => todo'[req'[x].id] # "none"
    BY <1>2, <1>3, <1>4 DEF TripsTypeOK
  <2> QED BY <1>2, <1>4, <2>1, <2>2 DEF TripsTypeOK
<1>8. AnswersFit' /\ SetsFit'
  BY <1>2, <1>3, <1>4 DEF AnswersFit, SetsFit
<1>9. FeedbackBounded'
  BY <1>6 DEF FeedbackBounded, Giving
<1> QED BY <1>7, <1>8, <1>9

-----------------------------------------------------------------------------
(* Every step keeps the invariant.                                         *)
LEMMA StepInv == TripsInv /\ [Next]_vars => TripsInv'
<1> SUFFICES ASSUME TripsInv, [Next]_vars PROVE TripsInv'
  OBVIOUS
<1>f. /\ up \in BOOLEAN /\ todo \in [Todos -> TodoStatus]
      /\ cache \in [Keys -> SUBSET Answer]
  BY DEF TripsInv, TripsTypeOK
<1>i. [op |-> "idle"] \in Request /\ [op |-> "insert"] \in Request
  BY DEF Request
<1>1. CASE Switch
  BY <1>1, <1>f, WorldStep DEF Switch
<1>2. ASSUME NEW k \in Keys, Lapse(k) PROVE TripsInv'
  BY <1>2, <1>f, WorldStep DEF Lapse
<1>3. ASSUME NEW i \in Todos, CreateTodo(i) PROVE TripsInv'
  BY <1>3, <1>f, WorldStep DEF CreateTodo, TodoStatus
<1>4. ASSUME NEW w \in Workers, NEW q \in Asked, Miss(w, q) PROVE TripsInv'
  <2> DEFINE r == [op |-> "ask", q |-> q, fill |-> FALSE, good |-> TRUE]
  <2>1. r \in Request /\ r.op = "ask" /\ ~r.fill
    BY DEF Request
  <2>2. req' = [req EXCEPT ![w] = r] /\ UNCHANGED <<up, cache, todo, feedback>>
    BY <1>4 DEF Miss, Begin, Turn
  <2> HIDE DEF r
  <2> QED BY <1>f, <2>1, <2>2, TurnStep
<1>5. ASSUME NEW w \in Workers, NEW t \in Trips, Populate(w, t) PROVE TripsInv'
  <2> DEFINE q == [kind |-> "packing", trip |-> t]
             r == [op |-> "ask", q |-> q, fill |-> TRUE, good |-> TRUE]
  <2>1. /\ q \in Asked /\ UNCHANGED <<up, cache, todo, feedback>>
        /\ req' = [req EXCEPT ![w] = [op |-> "insert"]] \/ req' = [req EXCEPT ![w] = r]
    BY <1>5 DEF Populate, Begin, Turn
  <2>2. q.kind = "packing"
    OBVIOUS
  <2> HIDE DEF q
  <2>3. r \in Request /\ r.op = "ask" /\ r.q = q
    BY <2>1 DEF Request
  <2>4. CASE req' = [req EXCEPT ![w] = r]
    <3> HIDE DEF r
    <3> QED BY <1>f, <2>1, <2>2, <2>3, <2>4, TurnStep
  <2>5. CASE req' = [req EXCEPT ![w] = [op |-> "insert"]]
    BY <1>f, <1>i, <2>1, <2>5, TurnStep
  <2> QED BY <2>1, <2>4, <2>5
<1>6. ASSUME NEW w \in Workers, Ask(w) \/ (\E gate \in BOOLEAN : AskMap(w, gate)) PROVE TripsInv'
  <2> DEFINE q == req[w].q
  <2>1. q \in Asked
    BY <1>6 DEF Ask, AskMap, TripsInv, TripsTypeOK, Request
  <2> HIDE DEF q
  <2>2. PICK a \in Answer : /\ q.kind # "map" => a.about = Subject(q)
                            /\ req' = [req EXCEPT ![w] = [op |-> "set", q |-> q,
                                                          fill |-> FALSE, answer |-> a]]
    <3>1. CASE Ask(w)
      <4> DEFINE a == Attempted(q)
      <4>1. a \in Answer /\ a.about = Subject(q)
        BY <2>1, AnswerTypes
      <4>2. req' = [req EXCEPT ![w] = [op |-> "set", q |-> q, fill |-> FALSE, answer |-> a]]
        BY <3>1 DEF Ask, Turn, q
      <4> QED BY <4>1, <4>2
    <3>2. ASSUME NEW gate \in BOOLEAN, AskMap(w, gate)
          PROVE  \E a \in Answer : /\ q.kind # "map" => a.about = Subject(q)
                                   /\ req' = [req EXCEPT ![w] = [op |-> "set", q |-> q,
                                                                 fill |-> FALSE, answer |-> a]]
      <4> DEFINE a == IF q.kind = "gate_map" \/ gate THEN Replied(q)
                      ELSE [Replied(q) EXCEPT !.about = <<NoGate>>]
      <4>1. q.kind \in {"gate_map", "map"}
        BY <3>2 DEF AskMap, q
      <4>2. a \in Answer /\ (q.kind # "map" => a.about = Subject(q))
        BY <2>1, <4>1, AnswerTypes
      <4>3. req' = [req EXCEPT ![w] = [op |-> "set", q |-> q, fill |-> FALSE, answer |-> a]]
        BY <3>2 DEF AskMap, Turn, q
      <4> QED BY <4>2, <4>3
    <3> QED BY <1>6, <3>1, <3>2
  <2> DEFINE r == [op |-> "set", q |-> q, fill |-> FALSE, answer |-> a]
  <2>3. r \in Request /\ r.op = "set" /\ r.q = q /\ r.answer = a /\ ~r.fill
    BY <2>1 DEF Request
  <2>4. req' = [req EXCEPT ![w] = r] /\ UNCHANGED <<up, cache, todo, feedback>>
    BY <1>6, <2>2 DEF Ask, AskMap
  <2> HIDE DEF r
  <2> QED BY <1>f, <2>2, <2>3, <2>4, TurnStep
<1>7. ASSUME NEW w \in Workers, AskHalf(w) PROVE TripsInv'
  <2> DEFINE q == req[w].q
  <2>1. /\ req[w] \in [op: {"ask", "again"}, q: Asked, fill: BOOLEAN, good: BOOLEAN]
        /\ q.kind = "packing" /\ UNCHANGED <<up, cache, todo, feedback>>
    BY <1>7 DEF AskHalf, TripsInv, TripsTypeOK, Request
  <2>2. CASE req[w].op = "ask"
    <3> DEFINE r == [req[w] EXCEPT !.op = "again", !.good = up]
    <3>1. r \in Request /\ r.op = "again" /\ r.q = q
      BY <1>f, <2>1 DEF Request
    <3>2. req' = [req EXCEPT ![w] = r]
      BY <1>7, <2>2 DEF AskHalf, Turn
    <3> HIDE DEF r
    <3> QED BY <1>f, <2>1, <3>1, <3>2, TurnStep
  <2>3. CASE req[w].op = "again"
    <3> DEFINE a == Merged(q, req[w].good, up)
               r == [op |-> "set", q |-> q, fill |-> req[w].fill, answer |-> a]
    <3>1. a \in Answer /\ a.about = Subject(q)
      BY <1>f, <2>1, AnswerTypes
    <3>2. req' = [req EXCEPT ![w] = r]
      BY <1>7, <2>3 DEF AskHalf, Turn
    <3> HIDE DEF a
    <3>3. r \in Request /\ r.op = "set" /\ r.q = q /\ r.answer = a
      BY <2>1, <3>1 DEF Request
    <3> HIDE DEF r
    <3> QED BY <1>f, <2>1, <3>1, <3>2, <3>3, TurnStep
  <2> QED BY <2>1, <2>2, <2>3
<1>8. ASSUME NEW w \in Workers, Set(w) PROVE TripsInv'
  BY <1>8, SetInv
<1>9. ASSUME NEW w \in Workers, NEW I \in SUBSET Todos, Insert(w, I) PROVE TripsInv'
  <2>1. /\ todo' \in [Todos -> TodoStatus]
        /\ \A i \in Todos : todo[i] # "none" => todo'[i] # "none"
    BY <1>9, <1>f DEF Insert, TodoStatus
  <2> QED BY <1>9, <1>f, <1>i, <2>1, TurnStep DEF Insert, Finish, Turn
<1>10. ASSUME NEW w \in Workers, NEW i \in Todos, NEW op \in {"update", "delete"},
              ChangeTodo(w, op, i)
       PROVE  TripsInv'
  <2> DEFINE r == [op |-> op, id |-> i]
  <2>1. r \in Request /\ r.op \in {"update", "delete"} /\ r.id = i
    BY DEF Request
  <2>2. /\ req' = [req EXCEPT ![w] = r] /\ UNCHANGED <<up, cache, todo, feedback>>
        /\ todo[i] # "none"
    BY <1>10 DEF ChangeTodo, Begin, Turn
  <2> HIDE DEF r
  <2> QED BY <1>f, <2>1, <2>2, TurnStep
<1>11. ASSUME NEW w \in Workers, UpdateCommit(w) \/ DeleteCommit(w) PROVE TripsInv'
  <2>1. /\ todo' \in [Todos -> TodoStatus]
        /\ \A i \in Todos : todo[i] # "none" => todo'[i] # "none"
    BY <1>11, <1>f DEF UpdateCommit, DeleteCommit, TodoStatus
  <2> QED BY <1>11, <1>f, <1>i, <2>1, TurnStep DEF UpdateCommit, DeleteCommit, Finish, Turn
<1>12. ASSUME NEW w \in Workers, NEW t \in Trips, FeedbackLoad(w, t) PROVE TripsInv'
  <2> DEFINE r == [op |-> "feedback", trip |-> t]
  <2>1. r \in Request /\ r.op = "feedback" /\ r.trip = t
    BY DEF Request
  <2>2. /\ req' = [req EXCEPT ![w] = r] /\ UNCHANGED <<up, cache, todo, feedback>>
        /\ feedback[t] = 0
    BY <1>12 DEF FeedbackLoad, Begin, Turn
  <2> HIDE DEF r
  <2> QED BY <1>f, <2>1, <2>2, TurnStep
<1>13. ASSUME NEW w \in Workers, FeedbackCommit(w) PROVE TripsInv'
  BY <1>13, FeedbackCommitInv
<1>14. ASSUME NEW w \in Workers, Drop(w) PROVE TripsInv'
  BY <1>14, <1>f, <1>i, TurnStep DEF Drop, Finish, Turn
<1>15. CASE UNCHANGED vars
  BY <1>15, <1>f, WorldStep DEF vars
<1> QED BY <1>1, <1>2, <1>3, <1>4, <1>5, <1>6, <1>7, <1>8, <1>9, <1>10, <1>11, <1>12, <1>13,
           <1>14, <1>15 DEF Next, Answering

-----------------------------------------------------------------------------
(* The strengthened invariant, for every number of trips and requests.     *)
THEOREM Invariance == Spec => []TripsInv
<1> QED BY InitInv, StepInv, PTL DEF Spec

(* Rows, keys and requests keep their types.                               *)
THEOREM TripsTypeCorrect == Spec => []TripsTypeOK
<1>1. TripsInv => TripsTypeOK
  BY DEF TripsInv
<1> QED BY <1>1, Invariance, PTL

(* What a key holds is about what is asked with it.                        *)
THEOREM AnswersFitHolds == Spec => []AnswersFit
<1>1. TripsInv => AnswersFit
  BY DEF TripsInv
<1> QED BY <1>1, Invariance, PTL

(* Only requests that looked before the first feedback can add to it.      *)
THEOREM FeedbackBoundedHolds == Spec => []FeedbackBounded
<1>1. TripsInv => FeedbackBounded
  BY DEF TripsInv
<1> QED BY <1>1, Invariance, PTL

(* A todo that was deleted stays so.                                       *)
THEOREM DeletedStaysHolds == Spec => DeletedStays
<1>1. TripsInv /\ [Next]_vars =>
        [\A i \in Todos : todo[i] = "deleted" => todo'[i] = "deleted"]_vars
  <2> SUFFICES ASSUME TripsInv, [Next]_vars, NEW i \in Todos, todo[i] = "deleted"
               PROVE  todo'[i] = "deleted"
    OBVIOUS
  <2>1. todo \in [Todos -> TodoStatus]
    BY DEF TripsInv, TripsTypeOK
  <2>2. CASE todo' = todo
    BY <2>2
  <2>3. ASSUME NEW w \in Workers, UpdateCommit(w) \/ DeleteCommit(w) PROVE todo'[i] = "deleted"
    BY <2>1, <2>3 DEF UpdateCommit, DeleteCommit
  <2>4. ASSUME NEW j \in Todos, CreateTodo(j) PROVE todo'[i] = "deleted"
    BY <2>1, <2>4 DEF CreateTodo
  <2>5. ASSUME NEW w \in Workers, NEW I \in SUBSET Todos, Insert(w, I) PROVE todo'[i] = "deleted"
    BY <2>1, <2>5 DEF Insert
  <2>6. CASE Next
    BY <2>2, <2>3, <2>4, <2>5, <2>6
       DEF Next, Answering, Switch, Lapse, Miss, Populate, FeedbackLoad, Ask, AskHalf, AskMap,
           Set, ChangeTodo, FeedbackCommit, Drop
  <2> QED BY <2>2, <2>6 DEF vars
<1> QED BY <1>1, Invariance, PTL DEF Spec, DeletedStays

=============================================================================
