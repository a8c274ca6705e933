-------------------------------- MODULE Trips --------------------------------
(***************************************************************************)
(* What a customer asks about a trip (trips.py, destinations.py): answers  *)
(* of a language model, route and map services, kept in Redis under a key  *)
(* of its own, the todo list, which the packing list may fill, and one     *)
(* feedback at the end.  Requests overlap; models fail and recover.        *)
(***************************************************************************)
EXTENDS Naturals, FiniteSets

CONSTANTS
    Trips, Locales,
    Spots, Modes,           \* where a customer sets out from, and by what
    Asked,                  \* the questions that are asked
    Destination, Gate,      \* of the flight of each trip
    Todos,                  \* ids of todo rows
    Workers,
    NoGate

(* When to leave for the airport: the preferences fill in what the request *)
(* leaves open before anything else, and places are rounded.               *)
PlanQuestion == [kind: {"plan"}, trip: Trips, spot: Spots, mode: Modes]

(* A packing list is made for all locales at once; a map is asked for with *)
(* the gate the application knows, or with none.                           *)
Question ==
    [kind: {"packing", "tips", "gate_map", "map"}, trip: Trips]
    \cup [kind: {"timeline"}, trip: Trips, locale: Locales]
    \cup PlanQuestion

ASSUME TripsAssumption ==
    /\ Asked \subseteq Question
    /\ \A t \in Trips : Gate[t] # NoGate
    /\ IsFiniteSet(Workers)

VARIABLES
    up,         \* the language model, or the service of routes, answers
    cache,      \* the keys that are set, with what they hold
    todo,       \* the rows of the todo list
    feedback,   \* rows of trip_feedback, counted for each trip
    req         \* each request under way

vars == <<up, cache, todo, feedback, req>>

-----------------------------------------------------------------------------
(* Fault: one timeline for all locales.                                    *)
KeyNoLocale(q) ==
    CASE q.kind = "packing" -> <<"packing_list", q.trip>>
      [] q.kind = "timeline" -> <<"trip_timeline", q.trip>>
      [] q.kind = "plan" -> <<"departure_plan", q.trip, q.spot, q.mode>>
      [] q.kind = "tips" -> <<"destination_tips", Destination[q.trip]>>
      [] q.kind = "gate_map" -> <<"indoor_map", Gate[q.trip]>>
      [] q.kind = "map" -> <<"indoor_map", NoGate>>

Key(q) ==
    CASE q.kind = "packing" -> <<"packing_list", q.trip>>
      [] q.kind = "timeline" -> <<"trip_timeline", q.trip, q.locale>>
      [] q.kind = "plan" -> <<"departure_plan", q.trip, q.spot, q.mode>>
      [] q.kind = "tips" -> <<"destination_tips", Destination[q.trip]>>
      [] q.kind = "gate_map" -> <<"indoor_map", Gate[q.trip]>>
      [] q.kind = "map" -> <<"indoor_map", NoGate>>

(* What the answer is about.                                               *)
Subject(q) ==
    CASE q.kind = "packing" -> <<q.trip>>
      [] q.kind = "timeline" -> <<q.trip, q.locale>>
      [] q.kind = "plan" -> <<q.trip, q.spot, q.mode>>
      [] q.kind = "tips" -> <<Destination[q.trip]>>
      [] q.kind \in {"gate_map", "map"} -> <<Gate[q.trip]>>

Keys == {Key(q) : q \in Asked}

(* An answer is the model's or a default; "kept" is a key without an       *)
(* expiry.  A packing list is the model's if both of its halves are.       *)
Answer == [about: {Subject(q) : q \in Asked} \cup {<<NoGate>>}, good: BOOLEAN, kept: BOOLEAN]

(* A timeline or tips that need no model, a plan with an estimated way.    *)
Default(q) == [about |-> Subject(q), good |-> FALSE, kept |-> FALSE]

Replied(q) == [about |-> Subject(q), good |-> TRUE, kept |-> FALSE]

(* The default stands in if the model fails or sends what cannot be read.  *)
Attempted(q) == IF up THEN Replied(q) ELSE Default(q)

(* The Arabic and the English list are put together item by item.          *)
Merged(q, ar, en) == IF ar /\ en THEN Replied(q) ELSE Default(q)

TodoStatus == {"none", "open", "done", "deleted"}

Request == [op: {"idle"}]
    \cup [op: {"ask", "again"}, q: Asked, fill: BOOLEAN, good: BOOLEAN]
    \cup [op: {"set"}, q: Asked, fill: BOOLEAN, answer: Answer]
    \cup [op: {"insert"}]
    \cup [op: {"update", "delete"}, id: Todos]
    \cup [op: {"feedback"}, trip: Trips]

(* Answers about a map may have no gate, others are about what they are    *)
(* asked for; only packing lists have a second half and fill the todos,    *)
(* and a request changes rows that were there.                             *)
TripsTypeOK ==
    /\ up \in BOOLEAN
    /\ cache \in [Keys -> SUBSET Answer]
    /\ \A k \in Keys : \A a, b \in cache[k] : a = b
    /\ todo \in [Todos -> TodoStatus]
    /\ feedback \in [Trips -> 0..Cardinality(Workers)]
    /\ req \in [Workers -> Request]
    /\ \A w \in Workers :
          /\ req[w].op = "again" => req[w].q.kind = "packing"
          /\ req[w].op \in {"ask", "again", "set"} => (req[w].fill => req[w].q.kind = "packing")
          /\ req[w].op \in {"update", "delete"} => todo[req[w].id] # "none"

Init ==
    /\ up = TRUE
    /\ cache = [k \in Keys |-> {}]
    /\ todo = [i \in Todos |-> "none"]
    /\ feedback = [t \in Trips |-> 0]
    /\ req = [w \in Workers |-> [op |-> "idle"]]

(* A request on a trip begins with its reservation, the user's own.        *)
Turn(w, r) == req' = [req EXCEPT ![w] = r]
Begin(w, r) == req[w].op = "idle" /\ Turn(w, r)
Finish(w) == Turn(w, [op |-> "idle"])

-----------------------------------------------------------------------------
(* The model fails or is back; a call that fails alone is both.            *)
Switch ==
    /\ up' = ~up
    /\ UNCHANGED <<cache, todo, feedback, req>>

(* Five minutes, a day or a week have passed since the key was set.        *)
Lapse(k) ==
    /\ \E a \in cache[k] : ~a.kept
    /\ cache' = [cache EXCEPT ![k] = {}]
    /\ UNCHANGED <<up, todo, feedback, req>>

(* A key that is set is answered; without it the request goes on.          *)
Miss(w, q) ==
    /\ cache[Key(q)] = {}
    /\ Begin(w, [op |-> "ask", q |-> q, fill |-> FALSE, good |-> TRUE])
    /\ UNCHANGED <<up, cache, todo, feedback>>

(* POST /trips/{id}/todos/populate, likewise, and inserts at the end.      *)
Populate(w, t) ==
    /\ LET q == [kind |-> "packing", trip |-> t]
       IN /\ q \in Asked
          /\ Begin(w, IF cache[Key(q)] # {} THEN [op |-> "insert"]
                      ELSE [op |-> "ask", q |-> q, fill |-> TRUE, good |-> TRUE])
    /\ UNCHANGED <<up, cache, todo, feedback>>

(* Timelines, tips and plans take one call.                                *)
Ask(w) ==
    /\ req[w].op = "ask" /\ req[w].q.kind \in {"timeline", "tips", "plan"}
    /\ Turn(w, [op |-> "set", q |-> req[w].q, fill |-> FALSE, answer |-> Attempted(req[w].q)])
    /\ UNCHANGED <<up, cache, todo, feedback>>

(* A packing list is asked for in Arabic and then in English, with a       *)
(* default for each, and the two are merged.                               *)
AskHalf(w) ==
    /\ req[w].op \in {"ask", "again"} /\ req[w].q.kind = "packing"
    /\ Turn(w, IF req[w].op = "ask" THEN [req[w] EXCEPT !.op = "again", !.good = up]
               ELSE [op |-> "set", q |-> req[w].q, fill |-> req[w].fill,
                     answer |-> Merged(req[w].q, req[w].good, up)])
    /\ UNCHANGED <<up, cache, todo, feedback>>

(* A map without a gate in the question takes the one of the flight's      *)
(* cached status, if there is a copy at that moment.  Maps do not need the *)
(* model; the outline that is shown if the map service fails is left out.  *)
AskMap(w, gate) ==
    /\ req[w].op = "ask" /\ req[w].q.kind \in {"gate_map", "map"}
    /\ Turn(w, [op |-> "set", q |-> req[w].q, fill |-> FALSE,
                answer |-> IF req[w].q.kind = "gate_map" \/ gate THEN Replied(req[w].q)
                           ELSE [Replied(req[w].q) EXCEPT !.about = <<NoGate>>]])
    /\ UNCHANGED <<up, cache, todo, feedback>>

(* Fault: a default is stored without an expiry.                           *)
SetForever(w) ==
    /\ req[w].op = "set"
    /\ cache' = [cache EXCEPT ![Key(req[w].q)] =
                   {[req[w].answer EXCEPT !.kept = ~req[w].answer.good]}]
    /\ IF req[w].fill THEN Turn(w, [op |-> "insert"]) ELSE Finish(w)
    /\ UNCHANGED <<up, todo, feedback>>

(* Model's answers and defaults are stored for the same time.              *)
Set(w) ==
    /\ req[w].op = "set"
    /\ cache' = [cache EXCEPT ![Key(req[w].q)] = {req[w].answer}]
    /\ IF req[w].fill THEN Turn(w, [op |-> "insert"]) ELSE Finish(w)
    /\ UNCHANGED <<up, todo, feedback>>

-----------------------------------------------------------------------------
(* Todos: one that the customer types in, or those of a packing list, even *)
(* if they are there already.                                              *)
CreateTodo(i) ==
    /\ todo[i] = "none"
    /\ todo' = [todo EXCEPT ![i] = "open"]
    /\ UNCHANGED <<up, cache, feedback, req>>

Insert(w, I) ==
    /\ req[w].op = "insert"
    /\ \A i \in I : todo[i] = "none"
    /\ todo' = [i \in Todos |-> IF i \in I THEN "open" ELSE todo[i]]
    /\ Finish(w)
    /\ UNCHANGED <<up, cache, feedback>>

(* Fault: a row that is gone is written anew.                              *)
UpdateMerged(w) ==
    /\ req[w].op = "update"
    /\ \E s \in {"open", "done"} : todo' = [todo EXCEPT ![req[w].id] = s]
    /\ Finish(w)
    /\ UNCHANGED <<up, cache, feedback>>

(* Fault: a request may change a row that is not there.                    *)
ChangeAny(w, op, i) ==
    /\ Begin(w, [op |-> op, id |-> i])
    /\ UNCHANGED <<up, cache, todo, feedback>>

(* Only a todo of the customer's own trip that is there.                   *)
ChangeTodo(w, op, i) ==
    /\ todo[i] \in {"open", "done"}
    /\ Begin(w, [op |-> op, id |-> i])
    /\ UNCHANGED <<up, cache, todo, feedback>>

(* An update of a row that is gone meanwhile is an error.                  *)
UpdateCommit(w) ==
    /\ req[w].op = "update"
    /\ \/ todo[req[w].id] = "deleted" /\ UNCHANGED todo
       \/ /\ todo[req[w].id] # "deleted"
          /\ \E s \in {"open", "done"} : todo' = [todo EXCEPT ![req[w].id] = s]
    /\ Finish(w)
    /\ UNCHANGED <<up, cache, feedback>>

DeleteCommit(w) ==
    /\ req[w].op = "delete"
    /\ todo' = [todo EXCEPT ![req[w].id] = "deleted"]
    /\ Finish(w)
    /\ UNCHANGED <<up, cache, feedback>>

(* Fault: no look at the feedback there is.                                *)
FeedbackAny(w, t) ==
    /\ Begin(w, [op |-> "feedback", trip |-> t])
    /\ UNCHANGED <<up, cache, todo, feedback>>

(* Refused where there is one; where there are two the look itself fails,  *)
(* as does every later one.                                                *)
FeedbackLoad(w, t) ==
    /\ feedback[t] = 0
    /\ Begin(w, [op |-> "feedback", trip |-> t])
    /\ UNCHANGED <<up, cache, todo, feedback>>

FeedbackCommit(w) ==
    /\ req[w].op = "feedback"
    /\ feedback' = [feedback EXCEPT ![req[w].trip] = @ + 1]
    /\ Finish(w)
    /\ UNCHANGED <<up, cache, todo>>

(* The process dies or an error ends the request.                          *)
Drop(w) ==
    /\ req[w].op # "idle"
    /\ Finish(w)
    /\ UNCHANGED <<up, cache, todo, feedback>>

-----------------------------------------------------------------------------
Answering(w) == Ask(w) \/ AskHalf(w) \/ (\E gate \in BOOLEAN : AskMap(w, gate)) \/ Set(w)

Next ==
    \/ Switch
    \/ \E k \in Keys : Lapse(k)
    \/ \E i \in Todos : CreateTodo(i)
    \/ \E w \in Workers :
          \/ \E q \in Asked : Miss(w, q)
          \/ \E t \in Trips : Populate(w, t) \/ FeedbackLoad(w, t)
          \/ Answering(w)
          \/ \E I \in SUBSET Todos : Insert(w, I)
          \/ \E i \in Todos, op \in {"update", "delete"} : ChangeTodo(w, op, i)
          \/ UpdateCommit(w) \/ DeleteCommit(w) \/ FeedbackCommit(w) \/ Drop(w)

Spec == Init /\ [][Next]_vars

(* Keys lapse; nobody has to ask or to answer, and the model need not come *)
(* back.                                                                   *)
FairSpec == Spec /\ \A k \in Keys : WF_vars(Lapse(k))

-----------------------------------------------------------------------------
(* Properties.                                                             *)

(* Whichever of several requests stored it last, what a key holds is about *)
(* what is asked with that key.  A map that is asked for without a gate is *)
(* left out: its key names no flight.                                      *)
AnswersFit ==
    \A q \in Asked : q.kind # "map" => \A a \in cache[Key(q)] : a.about = Subject(q)

(* A failure of the model is served from the cache long after it, but not  *)
(* for good: when the model is back to stay and what was under way is      *)
(* over, every default gives way.                                          *)
FallbackPasses == <>[]up => <>[](\A k \in Keys : \A a \in cache[k] : a.good)

(* There is no unique key on the feedback of a trip: only requests that    *)
(* looked before the first was stored can add to it.                       *)
FeedbackBounded ==
    \A t \in Trips :
       feedback[t] + Cardinality({w \in Workers : req[w].op = "feedback" /\ req[w].trip = t})
          <= Cardinality(Workers)

(* A todo that was deleted stays so, whatever changes of it are under way. *)
DeletedStays == [][\A i \in Todos : todo[i] = "deleted" => todo'[i] = "deleted"]_vars

(* docs/airport-indoor-map-issues.md: "Indoor map ... must all reference   *)
(* the same gate returned for that ticket".                                *)
MapShowsOwnGate ==
    \A q \in Asked : q.kind = "map" =>
       \A a \in cache[Key(q)] : a.about \in {Subject(q), <<NoGate>>}

=============================================================================
