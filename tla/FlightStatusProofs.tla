-------------------------- MODULE FlightStatusProofs --------------------------
(***************************************************************************)
(* What users are told, proved of FlightStatus for every number of runs,   *)
(* requests and users, and every period, time limit and life of a copy.    *)
(***************************************************************************)
EXTENDS FlightStatus, TLAPS

(* What a run has read was asked for before what it has asked for itself,  *)
(* though maybe with a newer row; and once it tells anybody, the two       *)
(* differ.                                                                 *)
Forward(r) ==
    /\ r.phase = "ask" => \A v \in r.prev : v.live <= live
    /\ r.phase = "set" => \A v \in r.prev : v.live <= r.new.live
    /\ r.phase = "tell" => r.old.live <= r.new.live /\ r.old # r.new

(* A row waits for the commit only with a push that was made.              *)
Pushed(r, T) == r.phase = "tell" => r.pending \subseteq T

StatusInv ==
    /\ StatusTypeOK
    /\ \A i \in Runs : Forward(run[i]) /\ Pushed(run[i], told)
    /\ ToldForward

-----------------------------------------------------------------------------
(* A record of any phase that is not idle may age.                         *)
LEMMA Aged ==
  ASSUME NEW r \in Run, r.phase # "idle", r.age < Limit
  PROVE  LET n == [r EXCEPT !.age = @ + 1]
         IN /\ n \in Run
            /\ n.phase = r.phase
            /\ n.phase \in {"read", "ask"} => n.row = r.row
            /\ n.phase \in {"ask", "set"} => n.prev = r.prev
            /\ n.phase \in {"set", "tell"} => n.new = r.new
            /\ n.phase = "tell" => n.old = r.old /\ n.left = r.left /\ n.pending = r.pending
<1> USE FlightStatusAssumption
<1>1. CASE r \in [phase: {"read"}, age: 0..Limit, row: Row]
  BY <1>1 DEF Run
<1>2. CASE r \in [phase: {"ask"}, age: 0..Limit, row: Row, prev: SUBSET Status]
  BY <1>2 DEF Run
<1>3. CASE r \in [phase: {"set"}, age: 0..Limit, prev: SUBSET Status, new: Status]
  BY <1>3 DEF Run
<1>4. CASE r \in [phase: {"tell"}, age: 0..Limit, old: Status, new: Status,
                  left: SUBSET Users, pending: SUBSET Change]
  BY <1>4 DEF Run
<1> QED BY <1>1, <1>2, <1>3, <1>4 DEF Run

(* At the start nothing is cached, shown or told.                          *)
THEOREM InitInv == Init => StatusInv
<1> SUFFICES ASSUME Init PROVE StatusInv
  OBVIOUS
<1> USE FlightStatusAssumption DEF Init
<1>1. /\ cache \in [v: Past, ttl: 0..PollTtl]
      /\ shown \in [Streams -> SUBSET Past] /\ \A s \in Streams : AtMostOne(shown[s])
  BY DEF Absent, AtMostOne, Past
<1>2. /\ run \in [Runs -> Run]
      /\ \A i \in Runs : run[i].phase = "idle"
  BY DEF Run
<1>3. /\ reader \in [Readers -> Reader]
      /\ \A w \in Readers : reader[w].phase = "idle"
  BY DEF Reader
<1>4. /\ row \in Row /\ live \in 0..MaxVersion
      /\ next \in 0..Period /\ deaths \in 0..MaxDeaths
  BY DEF Row
<1>5. StatusTypeOK
  BY ONLY <1>1, <1>2, <1>3, <1>4, Init DEF StatusTypeOK
<1> QED BY <1>2, <1>5 DEF StatusInv, Forward, Pushed, ToldForward

-----------------------------------------------------------------------------
(* The part of the invariant that is about one run.                        *)
RunOK(r) ==
    /\ r \in Run
    /\ r.phase \in {"read", "ask"} => r.row <= row
    /\ r.phase \in {"ask", "set"} => AtMostOne(r.prev)
    /\ r.phase \in {"set", "tell"} => r.new \in Past
    /\ r.phase = "tell" => r.left \subseteq holders
    /\ Forward(r)

(* A run that has moved on in order keeps the invariant, whatever it has   *)
(* stored in the cache or told.                                            *)
LEMMA RunStepInv ==
  ASSUME StatusInv, NEW i \in Runs, NEW r, RunOK(r), run' = [run EXCEPT ![i] = r],
         UNCHANGED <<row, live, departed, holders, reader, shown>>,
         cache' \in [v: Past, ttl: 0..PollTtl], next' \in 0..Period,
         told' \subseteq Change, stored' \subseteq told', told \subseteq told', deaths' \in 0..MaxDeaths,
         Pushed(r, told'),
         \A c \in told' : c.old.live <= c.new.live /\ c.old # c.new
  PROVE  StatusInv'
<1> USE DEF StatusInv, StatusTypeOK, RunOK
<1>1. /\ run' \in [Runs -> Run]
      /\ \A j \in Runs : run'[j] = r \/ run'[j] = run[j]
  OBVIOUS
<1>2. Past' = Past
  BY DEF Past
<1> QED BY <1>1, <1>2 DEF ToldForward, Forward, Pushed

(* What was is still what once was when time has gone on.                  *)
LEMMA PastGrows ==
  ASSUME row \in Nat, live \in Nat, row' \in Nat, live' \in Nat, row <= row', live <= live'
  PROVE  Past \subseteq Past'
<1>1. 0..row \subseteq 0..row' /\ 0..live \subseteq 0..live'
  OBVIOUS
<1> QED BY <1>1 DEF Past

(* The same when no run moves, and the world has gone on.                  *)
LEMMA OtherStepInv ==
  ASSUME StatusInv, UNCHANGED <<run, told, stored>>,
         row' \in Row, row <= row', live' \in 0..MaxVersion, live <= live',
         holders \subseteq holders', holders' \subseteq Users,
         departed' \in BOOLEAN, cache' \in [v: Past', ttl: 0..PollTtl], next' \in 0..Period,
         reader' \in [Readers -> Reader],
         \A w \in Readers :
            /\ reader'[w].phase \in {"look", "ask"} => reader'[w].row <= row'
            /\ reader'[w].phase = "set" => reader'[w].new \in Past',
         shown' \in [Streams -> SUBSET Past'], \A s \in Streams : AtMostOne(shown'[s]),
         deaths' \in 0..MaxDeaths
  PROVE  StatusInv'
<1> USE FlightStatusAssumption DEF StatusInv, StatusTypeOK
<1>1. \A i \in Runs : RunOK(run[i])'
  <2> SUFFICES ASSUME NEW i \in Runs PROVE RunOK(run[i])'
    OBVIOUS
  <2>1. run[i] \in Run
    OBVIOUS
  <2>2. /\ run[i].phase = "ask" => /\ run[i].row \in Nat
                                   /\ \A v \in run[i].prev : v.live \in Nat
        /\ run[i].phase = "read" => run[i].row \in Nat
    BY ONLY <2>1, FlightStatusAssumption DEF Run, Row, Status
  <2>3. row \in Nat /\ row' \in Nat /\ live \in Nat /\ live' \in Nat
    BY DEF Row
  <2>4. Past \subseteq Past'
    BY <2>3, PastGrows
  <2> QED BY <2>1, <2>2, <2>3, <2>4 DEF RunOK, Forward
<1> QED BY <1>1 DEF ToldForward, RunOK, Pushed
-----------------------------------------------------------------------------
(* Every step of a run, of the world, of a request and of the stream.      *)
THEOREM StepInv == StatusInv /\ [Next]_vars => StatusInv'
<1> SUFFICES ASSUME StatusInv, [Next]_vars PROVE StatusInv'
  OBVIOUS
<1>0. /\ StatusTypeOK /\ ToldForward
      /\ row \in Nat /\ live \in Nat /\ Past \subseteq Status
      /\ \A v \in Status : v.row \in Nat /\ v.live \in Nat
      /\ row' = row /\ live' = live => Past' = Past
  <2>1. StatusTypeOK /\ ToldForward
    BY DEF StatusInv
  <2>2. row \in Row /\ live \in 0..MaxVersion
    BY <2>1 DEF StatusTypeOK
  <2>3. row \in Nat /\ live \in Nat
    BY <2>2, FlightStatusAssumption DEF Row
  <2>4. 0..row \subseteq Row /\ 0..live \subseteq 0..MaxVersion
    BY <2>2, <2>3, FlightStatusAssumption DEF Row
  <2>5. Past \subseteq Status
    BY <2>4 DEF Past, Status
  <2>6. \A v \in Status : v.row \in Nat /\ v.live \in Nat
    BY FlightStatusAssumption DEF Row, Status
  <2>7. row' = row /\ live' = live => Past' = Past
    BY DEF Past
  <2> QED BY <2>1, <2>3, <2>5, <2>6, <2>7
<1>1. CASE UNCHANGED vars
  BY <1>0, <1>1, OtherStepInv DEF vars, StatusTypeOK
<1>2. CASE Update \/ Edit
  <2>1. /\ row' \in Row /\ row <= row' /\ live' \in 0..MaxVersion /\ live <= live'
        /\ departed' \in BOOLEAN
        /\ UNCHANGED <<holders, cache, next, run, reader, shown, notices, deaths>>
    BY <1>0, <1>2, FlightStatusAssumption DEF Update, Edit, StatusTypeOK, Row
  <2>5. row' \in Nat /\ live' \in Nat
    BY <2>1, FlightStatusAssumption DEF Row
  <2>4. Past \subseteq Past'
    BY <1>0, <2>1, <2>5, PastGrows
  <2>2. /\ cache' \in [v: Past', ttl: 0..PollTtl]
        /\ shown' \in [Streams -> SUBSET Past'] /\ \A s \in Streams : AtMostOne(shown'[s])
    BY <1>0, <2>1, <2>4 DEF StatusTypeOK
  <2>3. \A w \in Readers :
           /\ reader'[w].phase \in {"look", "ask"} => reader'[w].row <= row'
           /\ reader'[w].phase = "set" => reader'[w].new \in Past'
    <3> SUFFICES ASSUME NEW w \in Readers
                 PROVE  /\ reader[w].phase \in {"look", "ask"} => reader[w].row <= row'
                        /\ reader[w].phase = "set" => reader[w].new \in Past'
      BY <2>1
    <3>1. /\ reader[w].phase \in {"look", "ask"} => reader[w].row <= row
          /\ reader[w].phase = "set" => reader[w].new \in Past
          /\ reader[w] \in Reader
      BY <1>0 DEF StatusTypeOK
    <3>2. reader[w].phase \in {"look", "ask"} => reader[w].row \in Nat
      BY ONLY <3>1, FlightStatusAssumption DEF Reader, Row
    <3> QED BY <1>0, <2>1, <2>4, <2>5, <3>1, <3>2
  <2>6. reader' \in [Readers -> Reader] /\ holders' \subseteq Users /\ next' \in 0..Period
        /\ deaths' \in 0..MaxDeaths /\ UNCHANGED <<run, told, stored>> /\ holders \subseteq holders'
    BY <1>0, <2>1 DEF StatusTypeOK, notices
  <2> QED BY <2>1, <2>2, <2>3, <2>6, OtherStepInv
<1>3. CASE Depart
  BY <1>0, <1>3, OtherStepInv DEF Depart, notices, StatusTypeOK
<1>4. ASSUME NEW u \in Users, Book(u) PROVE StatusInv'
  BY <1>0, <1>4, OtherStepInv DEF Book, notices, StatusTypeOK
<1>5. ASSUME NEW s \in Streams, Stream(s) PROVE StatusInv'
  <2>1. shown' \in [Streams -> SUBSET Past] /\ \A t \in Streams : AtMostOne(shown'[t])
    BY <1>0, <1>5 DEF Stream, StatusTypeOK, AtMostOne
  <2>2. UNCHANGED <<row, live, departed, holders, cache, next, run, reader, told, stored, deaths>>
    BY <1>5 DEF Stream, notices
  <2>3. /\ row' \in Row /\ row <= row' /\ live' \in 0..MaxVersion /\ live <= live' /\ Past' = Past
        /\ holders \subseteq holders' /\ holders' \subseteq Users /\ departed' \in BOOLEAN
        /\ cache' \in [v: Past, ttl: 0..PollTtl] /\ next' \in 0..Period /\ deaths' \in 0..MaxDeaths
    BY <1>0, <2>2 DEF StatusTypeOK
  <2>4. /\ reader' \in [Readers -> Reader]
        /\ \A w \in Readers : /\ reader'[w].phase \in {"look", "ask"} => reader'[w].row <= row'
                              /\ reader'[w].phase = "set" => reader'[w].new \in Past
    BY <1>0, <2>2 DEF StatusTypeOK
  <2> QED BY <2>1, <2>2, <2>3, <2>4, OtherStepInv
<1>6. CASE Skip
  BY <1>0, <1>6, OtherStepInv, FlightStatusAssumption DEF Skip, notices, StatusTypeOK
<1>7. ASSUME NEW w \in Readers, Miss(w) \/ Open(w) \/ ReaderStep(w) PROVE StatusInv'
  <2> DEFINE ReaderOK(r) == /\ r \in Reader
                            /\ r.phase \in {"look", "ask"} => r.row <= row
                            /\ r.phase = "set" => r.new \in Past
  <2>0. ReaderOK(reader[w])
    BY <1>0 DEF StatusTypeOK
  <2>a. ASSUME NEW r, ReaderOK(r), reader' = [reader EXCEPT ![w] = r],
               cache' \in [v: Past, ttl: 0..PollTtl],
               UNCHANGED <<row, live, departed, holders, next, run, shown, notices, deaths>>
        PROVE  StatusInv'
    <3>1. reader' \in [Readers -> Reader]
      BY <1>0, <2>a DEF StatusTypeOK
    <3>2. \A x \in Readers : /\ reader'[x].phase \in {"look", "ask"} => reader'[x].row <= row
                             /\ reader'[x].phase = "set" => reader'[x].new \in Past
      BY <1>0, <2>a DEF StatusTypeOK
    <3> HIDE DEF ReaderOK
    <3> QED BY <1>0, <2>a, <3>1, <3>2, OtherStepInv DEF notices, StatusTypeOK
  <2>1. CASE Miss(w)
    <3>1. ReaderOK([phase |-> "miss"])
      BY DEF Reader
    <3> QED BY <1>0, <2>1, <2>a, <3>1 DEF Miss, StatusTypeOK
  <2>2. CASE Load(w) \/ Open(w)
    <3>1. ReaderOK([phase |-> "ask", row |-> row]) /\ ReaderOK([phase |-> "look", row |-> row])
      BY <1>0 DEF Reader, StatusTypeOK
    <3> HIDE DEF ReaderOK
    <3> QED BY <1>0, <2>2, <2>a, <3>1 DEF Load, Open, StatusTypeOK
  <2>3. CASE Look(w)
    <3> DEFINE r == IF cache.ttl > 0 THEN Idle ELSE [phase |-> "ask", row |-> reader[w].row]
    <3>1. ReaderOK(r)
      BY <2>0, <2>3 DEF Look, Reader, Idle
    <3>2. reader' = [reader EXCEPT ![w] = r]
      BY <2>3 DEF Look
    <3> HIDE DEF r, ReaderOK
    <3> QED BY <1>0, <2>3, <2>a, <3>1, <3>2 DEF Look, StatusTypeOK
  <2>4. CASE AskForReader(w)
    <3> DEFINE v == [row |-> reader[w].row, live |-> live]
    <3>1. reader[w].row \in Nat /\ reader[w].row <= row
      BY <2>0, <2>4, FlightStatusAssumption DEF AskForReader, Reader, Row
    <3>2. v \in Past
      BY <1>0, <3>1 DEF Past
    <3>3. reader' = [reader EXCEPT ![w] = [phase |-> "set", new |-> v]]
      BY <2>4 DEF AskForReader
    <3> HIDE DEF v
    <3>4. ReaderOK([phase |-> "set", new |-> v])
      BY <1>0, <3>2 DEF Reader
    <3> HIDE DEF ReaderOK
    <3> QED BY <1>0, <2>4, <2>a, <3>3, <3>4 DEF AskForReader, StatusTypeOK
  <2>5. CASE Fill(w)
    <3>1. cache' \in [v: Past, ttl: 0..PollTtl]
      BY <2>0, <2>5, FlightStatusAssumption DEF Fill
    <3>2. ReaderOK(Idle)
      BY DEF Reader, Idle
    <3> HIDE DEF ReaderOK
    <3> QED BY <2>5, <2>a, <3>1, <3>2 DEF Fill
  <2> QED BY <1>7, <2>1, <2>2, <2>3, <2>4, <2>5 DEF ReaderStep
<1>8. ASSUME NEW i \in Runs, RunStep(i) \/ Die(i) PROVE StatusInv'
  <2>0. RunOK(run[i]) /\ run[i] \in Run
    BY <1>0 DEF StatusInv, StatusTypeOK, RunOK
  <2>8. Pushed(run[i], told)
    BY DEF StatusInv
  <2>1. CASE Start(i)
    <3> DEFINE r == IF departed THEN Idle ELSE [phase |-> "read", age |-> 0, row |-> row]
    <3>1. RunOK(r) /\ Pushed(r, told')
      BY <1>0, FlightStatusAssumption DEF RunOK, Run, Idle, Forward, Pushed, StatusTypeOK
    <3>2. run' = [run EXCEPT ![i] = r] /\ next' \in 0..Period
      BY <2>1, FlightStatusAssumption DEF Start, To
    <3> HIDE DEF r
    <3> QED BY <1>0, <2>1, <3>1, <3>2, RunStepInv DEF Start, notices, StatusTypeOK, ToldForward
  <2>2. CASE Read(i)
    <3> DEFINE r == [phase |-> "ask", age |-> run[i].age, row |-> run[i].row, prev |-> Cached]
    <3>3. cache.v \in Past /\ cache.v \in Status /\ cache.v.live <= live
      BY <1>0 DEF StatusTypeOK, Past
    <3>4. run[i] \in [phase: {"read"}, age: 0..Limit, row: Row] /\ run[i].row <= row
      BY <2>0, <2>2 DEF RunOK, Run, Read
    <3>5. Cached \in SUBSET Status /\ AtMostOne(Cached) /\ \A v \in Cached : v.live <= live
      BY <3>3 DEF Cached, AtMostOne
    <3>1. RunOK(r) /\ Pushed(r, told')
      BY ONLY <3>4, <3>5 DEF RunOK, Run, Forward, Pushed
    <3>2. run' = [run EXCEPT ![i] = r]
      BY <2>2 DEF Read, To
    <3> HIDE DEF r
    <3> QED BY <1>0, <2>2, <3>1, <3>2, RunStepInv DEF Read, notices, StatusTypeOK, ToldForward
  <2>3. CASE Ask(i)
    <3> DEFINE new == [row |-> run[i].row, live |-> live]
               r == [phase |-> "set", age |-> run[i].age, prev |-> run[i].prev, new |-> new]
    <3>3. /\ run[i] \in [phase: {"ask"}, age: 0..Limit, row: Row, prev: SUBSET Status]
          /\ run[i].row <= row /\ AtMostOne(run[i].prev)
          /\ \A v \in run[i].prev : v.live <= live
      BY <2>0, <2>3 DEF RunOK, Run, Ask, Forward
    <3>4. run[i].row \in Nat
      BY <3>3, FlightStatusAssumption DEF Row
    <3>5. new \in Past /\ new \in Status /\ new.live = live
      BY <1>0, <3>3, <3>4 DEF Past
    <3> HIDE DEF new
    <3>1. RunOK(r) /\ Pushed(r, told')
      BY ONLY <3>3, <3>5 DEF RunOK, Run, Forward, Pushed
    <3>2. run' = [run EXCEPT ![i] = r]
      BY <2>3 DEF Ask, To, new
    <3> HIDE DEF r
    <3> QED BY <1>0, <2>3, <3>1, <3>2, RunStepInv DEF Ask, notices, StatusTypeOK, ToldForward
  <2>4. CASE Set(i)
    <3> DEFINE r == Compare(i, run[i].prev)
    <3>1. run[i] \in [phase: {"set"}, age: 0..Limit, prev: SUBSET Status, new: Status]
      BY <2>0, <2>4 DEF Run, Set
    <3>6. run[i].new \in Past /\ \A v \in run[i].prev : v.live <= run[i].new.live
      BY <2>0, <3>1 DEF RunOK, Forward
    <3>2. ASSUME run[i].prev \subseteq {run[i].new} PROVE RunOK(r) /\ Pushed(r, told')
      BY <3>2 DEF RunOK, Run, Compare, Idle, Forward, Pushed
    <3>3. ASSUME NEW v \in run[i].prev, v # run[i].new PROVE RunOK(r) /\ Pushed(r, told')
      <4>1. (CHOOSE x \in run[i].prev : TRUE) = v
        BY <2>0, <3>1, <3>3 DEF RunOK, AtMostOne
      <4>2. v.live <= run[i].new.live
        BY ONLY <3>6, <3>3
      <4>3. r = [phase |-> "tell", age |-> run[i].age, new |-> run[i].new, old |-> v,
                 left |-> holders, pending |-> {}]
        BY <3>3, <4>1 DEF Compare
      <4>4. run[i].new \in Past /\ holders \subseteq Users
        BY <1>0, <3>6 DEF StatusTypeOK
      <4>5. v \in Status
        BY <3>1, <3>3
      <4> HIDE DEF r
      <4> QED BY ONLY <3>1, <3>3, <4>2, <4>3, <4>4, <4>5 DEF RunOK, Run, Forward, Pushed
    <3>4. RunOK(r) /\ Pushed(r, told')
      BY <3>2, <3>3 DEF RunOK, Run, Compare, Idle, Forward, Pushed
    <3>5. run' = [run EXCEPT ![i] = r]
      BY <2>4 DEF Set, To
    <3>7. cache' \in [v: Past, ttl: 0..PollTtl]
      BY <2>4, <3>6, FlightStatusAssumption DEF Set
    <3> HIDE DEF r
    <3> QED BY <1>0, <2>4, <3>4, <3>5, <3>7, RunStepInv DEF Set, notices, StatusTypeOK, ToldForward
  <2>5. ASSUME NEW u \in Users, Tell(i, u) PROVE StatusInv'
    <3> DEFINE c == [user |-> u, old |-> run[i].old, new |-> run[i].new]
               r == [run[i] EXCEPT !.left = @ \ {u}, !.pending = @ \cup {c}]
    <3>1. run[i] \in [phase: {"tell"}, age: 0..Limit, old: Status, new: Status,
                      left: SUBSET Users, pending: SUBSET Change]
      BY <2>0, <2>5 DEF Run, Tell
    <3>2. c \in Change /\ c.old.live <= c.new.live /\ c.old # c.new
      BY <2>0, <3>1 DEF RunOK, Forward, Change
    <3>3. run' = [run EXCEPT ![i] = r] /\ told' = told \cup {c}
      BY <2>5 DEF Tell, To
    <3> HIDE DEF c
    <3>4. RunOK(r)
      BY ONLY <2>0, <3>1, <3>2 DEF RunOK, Run, Forward
    <3>5. Pushed(r, told')
      BY ONLY <2>8, <3>1, <3>3 DEF Pushed
    <3> HIDE DEF r
    <3> QED BY <1>0, <2>5, <3>2, <3>3, <3>4, <3>5, RunStepInv DEF Tell, StatusTypeOK, ToldForward
  <2>6. CASE Commit(i)
    <3>1. RunOK(Idle) /\ Pushed(Idle, told')
      BY DEF RunOK, Run, Idle, Forward, Pushed
    <3>2. stored' \subseteq told' /\ told' = told
      BY <1>0, <2>8, <2>6 DEF Commit, Pushed, StatusTypeOK
    <3> QED BY <1>0, <2>6, <3>1, <3>2, RunStepInv DEF Commit, To, StatusTypeOK, ToldForward
  <2>7. CASE Die(i)
    <3>1. RunOK(Idle) /\ Pushed(Idle, told')
      BY DEF RunOK, Run, Idle, Forward, Pushed
    <3>2. deaths' \in 0..MaxDeaths
      BY <1>0, <2>7, FlightStatusAssumption DEF Die, StatusTypeOK
    <3> QED BY <1>0, <2>7, <3>1, <3>2, RunStepInv DEF Die, To, notices, StatusTypeOK, ToldForward
  <2> QED BY <1>8, <2>1, <2>2, <2>3, <2>4, <2>5, <2>6, <2>7 DEF RunStep
<1>9. CASE Tick
  <2> DEFINE aged(i) == IF Active(i) THEN [run[i] EXCEPT !.age = @ + 1] ELSE run[i]
  <2>1. \A i \in Runs : RunOK(aged(i)) /\ Pushed(aged(i), told)
    <3> SUFFICES ASSUME NEW i \in Runs PROVE RunOK(aged(i)) /\ Pushed(aged(i), told)
      OBVIOUS
    <3>1. RunOK(run[i]) /\ Pushed(run[i], told)
      BY <1>0 DEF StatusInv, StatusTypeOK, RunOK
    <3>2. CASE Active(i)
      <4>1. run[i] \in Run /\ run[i].phase # "idle" /\ run[i].age < Limit
        BY <1>9, <3>1, <3>2 DEF Tick, Active, RunOK
      <4>2. /\ aged(i) \in Run
            /\ aged(i).phase = run[i].phase
            /\ aged(i).phase \in {"read", "ask"} => aged(i).row = run[i].row
            /\ aged(i).phase \in {"ask", "set"} => aged(i).prev = run[i].prev
            /\ aged(i).phase \in {"set", "tell"} => aged(i).new = run[i].new
            /\ aged(i).phase = "tell" => /\ aged(i).old = run[i].old /\ aged(i).left = run[i].left
                                         /\ aged(i).pending = run[i].pending
        BY <3>2, <4>1, Aged
      <4> HIDE DEF aged
      <4> QED BY <3>1, <4>2 DEF RunOK, Forward, Pushed
    <3>3. CASE ~Active(i)
      BY <3>1, <3>3
    <3> QED BY <3>2, <3>3
  <2>2. run' = [i \in Runs |-> aged(i)] /\ UNCHANGED <<row, live, holders, told, stored>>
    BY <1>9 DEF Tick, notices
  <2>3. /\ cache' \in [v: Past, ttl: 0..PollTtl]
        /\ next' \in 0..Period
    <3>1. Absent \in [v: Past, ttl: 0..PollTtl]
      BY <1>0, FlightStatusAssumption DEF Absent, Past
    <3> QED BY <1>0, <1>9, <3>1, FlightStatusAssumption DEF Tick, StatusTypeOK
  <2> HIDE DEF aged
  <2>4. run' \in [Runs -> Run] /\ \A i \in Runs : RunOK(run'[i]) /\ Pushed(run'[i], told)
    BY <2>1, <2>2 DEF RunOK
  <2> QED BY <1>0, <1>9, <2>2, <2>3, <2>4
          DEF Tick, notices, StatusInv, StatusTypeOK, RunOK, Forward, Pushed, ToldForward
<1> QED
  BY <1>1, <1>2, <1>3, <1>4, <1>5, <1>6, <1>7, <1>8, <1>9 DEF Next

THEOREM Invariance == Spec => []StatusInv
  BY InitInv, StepInv, PTL DEF Spec

(* What is cached, being stored or shown is made of a row and a state that *)
(* there were.                                                             *)
THEOREM StatusTypeCorrect == Spec => []StatusTypeOK
<1>1. StatusInv => StatusTypeOK
  BY DEF StatusInv
<1> QED BY <1>1, Invariance, PTL

(* What is told as new was asked for no earlier than what is told as old.  *)
THEOREM ToldForwardHolds == Spec => []ToldForward
<1>1. StatusInv => ToldForward
  BY DEF StatusInv
<1> QED BY <1>1, Invariance, PTL

-----------------------------------------------------------------------------
(* A push has its row in the database, or in the session of a run.         *)
Rowed(c, S, r) == c \in S \/ \E i \in Runs : r[i].phase = "tell" /\ c \in r[i].pending

LEMMA ByElement ==
  ASSUME NEW T, NEW S, NEW r
  PROVE  T = S \cup UNION {r[i].pending : i \in {i \in Runs : r[i].phase = "tell"}}
            <=> \A c : c \in T <=> Rowed(c, S, r)
  BY DEF Rowed

(* As long as no run dies every step keeps pushes and rows together.       *)
LEMMA StoredStep == StatusInv /\ ToldIsStored /\ [Next]_vars => ToldIsStored'
<1> SUFFICES ASSUME StatusInv, ToldIsStored, [Next]_vars, deaths' = 0
             PROVE  \A c : c \in told' <=> Rowed(c, stored', run')
  <2>1. (\A c : c \in told' <=> Rowed(c, stored', run')) =>
          told' = stored' \cup UNION {run'[i].pending : i \in {i \in Runs : run'[i].phase = "tell"}}
    BY ByElement
  <2> QED BY <2>1, Zenon DEF ToldIsStored
<1> DEFINE Goal == \A c : c \in told' <=> Rowed(c, stored', run')
<1>0. deaths \in Nat /\ run \in [Runs -> Run]
  BY FlightStatusAssumption DEF StatusInv, StatusTypeOK
<1>1. ASSUME deaths = 0 PROVE \A c : c \in told <=> Rowed(c, stored, run)
  BY <1>1, ByElement DEF ToldIsStored
<1>2. ASSUME deaths' = deaths, UNCHANGED notices,
             \A i \in Runs : /\ run'[i].phase = "tell" => run'[i].pending = {} \/ run[i].phase = "tell"
                             /\ run[i].phase = "tell" => /\ run'[i].phase = "tell"
                                                         /\ run'[i].pending = run[i].pending
                             /\ run[i].phase # "tell" /\ run'[i].phase = "tell" =>
                                   run'[i].pending = {}
      PROVE  Goal
  BY <1>1, <1>2 DEF Rowed, notices
<1>3. ASSUME UNCHANGED vars PROVE Goal
  BY <1>2, <1>3 DEF vars, notices
<1>4. ASSUME \/ Update \/ Edit \/ Depart \/ (\E s \in Streams : Stream(s))
             \/ (\E u \in Users : Book(u))
             \/ \E w \in Readers : Miss(w) \/ Open(w) \/ ReaderStep(w)
      PROVE  Goal
  BY <1>2, <1>4 DEF Update, Edit, Depart, Stream, Book, Miss, Open, ReaderStep, Load, Look,
                    AskForReader, Fill
<1>5. ASSUME Tick PROVE Goal
  <2>1. \A i \in Runs : /\ run'[i].phase = run[i].phase
                        /\ run[i].phase = "tell" => run'[i].pending = run[i].pending
    <3> SUFFICES ASSUME NEW i \in Runs
                 PROVE  /\ run'[i].phase = run[i].phase
                        /\ run[i].phase = "tell" => run'[i].pending = run[i].pending
      OBVIOUS
    <3>1. CASE Active(i)
      BY <1>0, <1>5, <3>1, Aged DEF Tick, Active
    <3>2. CASE ~Active(i)
      BY <1>0, <1>5, <3>2 DEF Tick
    <3> QED BY <3>1, <3>2
  <2> QED BY <1>2, <1>5, <2>1 DEF Tick
<1>6. ASSUME NEW i \in Runs, Start(i) \/ Read(i) \/ Ask(i) \/ Set(i) PROVE Goal
  BY <1>0, <1>2, <1>6 DEF Start, Read, Ask, Set, To, Active, Compare, Idle
<1>7. ASSUME NEW i \in Runs, NEW u \in Users, Tell(i, u) PROVE Goal
  <2>1. run[i] \in [phase: {"tell"}, age: 0..Limit, old: Status, new: Status,
                    left: SUBSET Users, pending: SUBSET Change]
    BY <1>0, <1>7 DEF Run, Tell
  <2> DEFINE c == [user |-> u, old |-> run[i].old, new |-> run[i].new]
  <2>2. /\ told' = told \cup {c} /\ stored' = stored /\ deaths' = deaths
        /\ run'[i].phase = "tell" /\ run'[i].pending = run[i].pending \cup {c}
        /\ \A j \in Runs : j # i => run'[j] = run[j]
    BY <1>0, <1>7, <2>1 DEF Tell, To
  <2> HIDE DEF c
  <2> QED BY <1>1, <2>1, <2>2 DEF Rowed
<1>8. ASSUME NEW i \in Runs, Commit(i) PROVE Goal
  <2>1. /\ told' = told /\ stored' = stored \cup run[i].pending /\ deaths' = deaths
        /\ run[i].phase = "tell" /\ run'[i].phase = "idle"
        /\ \A j \in Runs : j # i => run'[j] = run[j]
    BY <1>0, <1>8 DEF Commit, To, Idle
  <2> QED BY <1>1, <2>1 DEF Rowed
<1>9. ASSUME Skip \/ \E i \in Runs : Die(i) PROVE FALSE
  BY <1>0, <1>9 DEF Skip, Die
<1> HIDE DEF Goal
<1>10. Goal
  BY <1>3, <1>4, <1>5, <1>6, <1>7, <1>8, <1>9 DEF Next, RunStep
<1> QED BY <1>10 DEF Goal

(* A change that was pushed has its in-app row, or its run is not over,    *)
(* unless a run died.                                                      *)
THEOREM ToldIsStoredHolds == Spec => []ToldIsStored
<1>1. Init => ToldIsStored
  BY DEF Init, ToldIsStored
<1> QED BY <1>1, StoredStep, Invariance, PTL DEF Spec

=============================================================================
