---------------------------- MODULE FlightStatus ----------------------------
(***************************************************************************)
(* The status of one flight: the cron job that polls it, compares it with  *)
(* the copy in Redis and tells the passengers (flight_status_poller.py),   *)
(* the requests that fill the same copy when it is missing (flights.py,    *)
(* trips.py), and the stream that shows it.  A status is asked for with    *)
(* the flight's row (carrier, number, origin, departure), which runs and   *)
(* requests have loaded earlier and an administrator may have changed      *)
(* since.  Time is in minutes.                                             *)
(***************************************************************************)
EXTENDS Naturals, FiniteSets

CONSTANTS
    Runs, Readers, Users, Streams,
    Period,         \* minutes between two runs
    Limit,          \* job_timeout, in minutes
    PollTtl,        \* life of a copy that a run stores
    ReadTtl,        \* life of a copy that a request stores
    MaxVersion, MaxEdits, MaxDeaths

(* A run is stopped before the next but one starts, so two are enough.     *)
ASSUME FlightStatusAssumption ==
    /\ Period \in Nat \ {0} /\ Limit \in Nat \ {0} /\ Limit < Cardinality(Runs) * Period
    /\ PollTtl \in Nat \ {0} /\ ReadTtl \in 1..PollTtl
    /\ MaxVersion \in Nat /\ MaxEdits \in Nat /\ MaxDeaths \in Nat

VARIABLES
    row,        \* the flight's row: each change of it gives a new number
    live,       \* what status, gate and delay a row has by now: likewise
    departed,   \* the scheduled time is over
    holders,    \* users with a reservation
    cache,      \* flight:status:{id} and the minutes it has left, 0 for none
    next,       \* minutes to the next run
    run,        \* the runs of the job
    reader,     \* requests that have found no copy
    shown,      \* what each stream sent last
    told,       \* changes that users were pushed, with the two versions named
    stored,     \* their in-app rows
    deaths      \* runs that died or did not take place

vars == <<row, live, departed, holders, cache, next, run, reader, shown, told, stored, deaths>>

-----------------------------------------------------------------------------
Row == 0..MaxEdits
Status == [row: Row, live: 0..MaxVersion]
Past == [row: 0..row, live: 0..live]
Now == [row |-> row, live |-> live]

Change == [user: Users, old: Status, new: Status]
Absent == [v |-> [row |-> 0, live |-> 0], ttl |-> 0]

(* A run keeps the row it has loaded, then what it has read from Redis;    *)
(* its notifications wait for the commit.                                  *)
Run == [phase: {"idle"}]
    \cup [phase: {"read"}, age: 0..Limit, row: Row]
    \cup [phase: {"ask"}, age: 0..Limit, row: Row, prev: SUBSET Status]
    \cup [phase: {"set"}, age: 0..Limit, prev: SUBSET Status, new: Status]
    \cup [phase: {"tell"}, age: 0..Limit, old: Status, new: Status,
          left: SUBSET Users, pending: SUBSET Change]

AtMostOne(S) == \A v, w \in S : v = w

Reader == [phase: {"idle", "miss"}]
    \cup [phase: {"look", "ask"}, row: Row]
    \cup [phase: {"set"}, new: Status]

(* What is cached, being stored or shown is made of a row and a state that *)
(* there were; a run has read one copy or none, and tells users who have a *)
(* reservation.                                                            *)
StatusTypeOK ==
    /\ row \in Row /\ live \in 0..MaxVersion
    /\ departed \in BOOLEAN
    /\ holders \subseteq Users
    /\ cache \in [v: Past, ttl: 0..PollTtl]
    /\ next \in 0..Period
    /\ run \in [Runs -> Run]
    /\ \A i \in Runs :
          /\ run[i].phase \in {"read", "ask"} => run[i].row <= row
          /\ run[i].phase \in {"ask", "set"} => AtMostOne(run[i].prev)
          /\ run[i].phase \in {"set", "tell"} => run[i].new \in Past
          /\ run[i].phase = "tell" => run[i].left \subseteq holders
    /\ reader \in [Readers -> Reader]
    /\ \A w \in Readers :
          /\ reader[w].phase \in {"look", "ask"} => reader[w].row <= row
          /\ reader[w].phase = "set" => reader[w].new \in Past
    /\ shown \in [Streams -> SUBSET Past] /\ \A s \in Streams : AtMostOne(shown[s])
    /\ told \subseteq Change /\ stored \subseteq told
    /\ deaths \in 0..MaxDeaths

Init ==
    /\ row = 0 /\ live = 0 /\ departed = FALSE
    /\ holders = {}
    /\ cache = Absent
    /\ next = 0
    /\ run = [i \in Runs |-> [phase |-> "idle"]]
    /\ reader = [w \in Readers |-> [phase |-> "idle"]]
    /\ shown = [s \in Streams |-> {}]
    /\ told = {} /\ stored = {}
    /\ deaths = 0

notices == <<told, stored>>
Cached == IF cache.ttl = 0 THEN {} ELSE {cache.v}

-----------------------------------------------------------------------------
(* The world: the status changes, an administrator changes the flight,     *)
(* someone books, the flight leaves, time passes.                          *)
Update ==
    /\ live < MaxVersion
    /\ live' = live + 1
    /\ UNCHANGED <<row, departed, holders, cache, next, run, reader, shown, notices, deaths>>

(* PATCH /flights/{id}, which may move the departure.  No copy is removed. *)
Edit ==
    /\ row < MaxEdits
    /\ row' = row + 1
    /\ departed' \in BOOLEAN
    /\ UNCHANGED <<live, holders, cache, next, run, reader, shown, notices, deaths>>

(* A reservation counts for the poller even after it is canceled.          *)
Book(u) ==
    /\ u \notin holders /\ ~departed
    /\ holders' = holders \cup {u}
    /\ UNCHANGED <<row, live, departed, cache, next, run, reader, shown, notices, deaths>>

Depart ==
    /\ ~departed
    /\ departed' = TRUE
    /\ UNCHANGED <<row, live, holders, cache, next, run, reader, shown, notices, deaths>>

Active(i) == run[i].phase # "idle"

(* Fault: nothing stops a run.                                             *)
TickUnlimited ==
    /\ next > 0
    /\ next' = next - 1
    /\ run' = [i \in Runs |-> IF Active(i) THEN [run[i] EXCEPT !.age = @ + 1] ELSE run[i]]
    /\ cache' = IF cache.ttl <= 1 THEN Absent ELSE [cache EXCEPT !.ttl = @ - 1]
    /\ UNCHANGED <<row, live, departed, holders, reader, shown, notices, deaths>>

Tick ==
    /\ next > 0
    /\ \A i \in Runs : Active(i) => run[i].age < Limit
    /\ next' = next - 1
    /\ run' = [i \in Runs |-> IF Active(i) THEN [run[i] EXCEPT !.age = @ + 1] ELSE run[i]]
    /\ cache' = IF cache.ttl <= 1 THEN Absent ELSE [cache EXCEPT !.ttl = @ - 1]
    /\ UNCHANGED <<row, live, departed, holders, reader, shown, notices, deaths>>

-----------------------------------------------------------------------------
(* The cron job.                                                           *)
To(i, r) == run' = [run EXCEPT ![i] = r]
Idle == [phase |-> "idle"]

(* The rows of the flights of the next day are loaded, one that should     *)
(* have left is not; none is loaded again.                                 *)
Start(i) ==
    /\ next = 0 /\ ~Active(i)
    /\ next' = Period
    /\ To(i, IF departed THEN Idle ELSE [phase |-> "read", age |-> 0, row |-> row])
    /\ UNCHANGED <<row, live, departed, holders, cache, reader, shown, notices, deaths>>

Read(i) ==
    /\ run[i].phase = "read"
    /\ To(i, [phase |-> "ask", age |-> run[i].age, row |-> run[i].row, prev |-> Cached])
    /\ UNCHANGED <<row, live, departed, holders, cache, next, reader, shown, notices, deaths>>

(* What the row that was loaded at the start has for a status by now.      *)
Ask(i) ==
    /\ run[i].phase = "ask"
    /\ To(i, [phase |-> "set", age |-> run[i].age, prev |-> run[i].prev,
              new |-> [row |-> run[i].row, live |-> live]])
    /\ UNCHANGED <<row, live, departed, holders, cache, next, reader, shown, notices, deaths>>

(* Whom a run tells, if what it had read is another status.                *)
Compare(i, prev) ==
    IF prev \subseteq {run[i].new} THEN Idle
    ELSE [phase |-> "tell", age |-> run[i].age, new |-> run[i].new,
          old |-> CHOOSE v \in prev : TRUE, left |-> holders, pending |-> {}]

(* Fault: old and new copy are exchanged in one call, "SET ... GET".       *)
SetAndGet(i) ==
    /\ run[i].phase = "set"
    /\ cache' = [v |-> run[i].new, ttl |-> PollTtl]
    /\ To(i, Compare(i, Cached))
    /\ UNCHANGED <<row, live, departed, holders, next, reader, shown, notices, deaths>>

(* The copy is replaced before anybody is told.                            *)
Set(i) ==
    /\ run[i].phase = "set"
    /\ cache' = [v |-> run[i].new, ttl |-> PollTtl]
    /\ To(i, Compare(i, run[i].prev))
    /\ UNCHANGED <<row, live, departed, holders, next, reader, shown, notices, deaths>>

(* dispatch: a row for the commit, and the push.                           *)
Tell(i, u) ==
    /\ run[i].phase = "tell" /\ u \in run[i].left
    /\ LET c == [user |-> u, old |-> run[i].old, new |-> run[i].new]
       IN /\ told' = told \cup {c}
          /\ To(i, [run[i] EXCEPT !.left = @ \ {u}, !.pending = @ \cup {c}])
    /\ UNCHANGED <<row, live, departed, holders, cache, next, reader, shown, stored, deaths>>

(* Fault: a new session is committed.                                      *)
CommitOther(i) ==
    /\ run[i].phase = "tell" /\ run[i].left = {}
    /\ To(i, Idle)
    /\ UNCHANGED <<row, live, departed, holders, cache, next, reader, shown, notices, deaths>>

Commit(i) ==
    /\ run[i].phase = "tell" /\ run[i].left = {}
    /\ stored' = stored \cup run[i].pending
    /\ To(i, Idle)
    /\ UNCHANGED <<row, live, departed, holders, cache, next, reader, shown, told, deaths>>

(* An error or the time limit; nothing is tried again.                     *)
Die(i) ==
    /\ Active(i) /\ deaths < MaxDeaths
    /\ To(i, Idle)
    /\ deaths' = deaths + 1
    /\ UNCHANGED <<row, live, departed, holders, cache, next, reader, shown, notices>>

(* The worker is down when a run is due.                                   *)
Skip ==
    /\ next = 0 /\ deaths < MaxDeaths
    /\ next' = Period
    /\ deaths' = deaths + 1
    /\ UNCHANGED <<row, live, departed, holders, cache, run, reader, shown, notices>>

-----------------------------------------------------------------------------
(* Requests that show the status.  A copy that is there is answered as it  *)
(* is.  GET /flights/{id}/status looks for it and loads the row without.   *)
Miss(w) ==
    /\ reader[w].phase = "idle" /\ cache.ttl = 0
    /\ reader' = [reader EXCEPT ![w] = [phase |-> "miss"]]
    /\ UNCHANGED <<row, live, departed, holders, cache, next, run, shown, notices, deaths>>

Load(w) ==
    /\ reader[w].phase = "miss"
    /\ reader' = [reader EXCEPT ![w] = [phase |-> "ask", row |-> row]]
    /\ UNCHANGED <<row, live, departed, holders, cache, next, run, shown, notices, deaths>>

(* The location check and the dashboard have the row before they look.     *)
Open(w) ==
    /\ reader[w].phase = "idle"
    /\ reader' = [reader EXCEPT ![w] = [phase |-> "look", row |-> row]]
    /\ UNCHANGED <<row, live, departed, holders, cache, next, run, shown, notices, deaths>>

Look(w) ==
    /\ reader[w].phase = "look"
    /\ reader' = [reader EXCEPT ![w] = IF cache.ttl > 0 THEN Idle
                                       ELSE [phase |-> "ask", row |-> reader[w].row]]
    /\ UNCHANGED <<row, live, departed, holders, cache, next, run, shown, notices, deaths>>

AskForReader(w) ==
    /\ reader[w].phase = "ask"
    /\ reader' = [reader EXCEPT ![w] =
                     [phase |-> "set", new |-> [row |-> reader[w].row, live |-> live]]]
    /\ UNCHANGED <<row, live, departed, holders, cache, next, run, shown, notices, deaths>>

(* Whatever has been stored since is overwritten.                          *)
Fill(w) ==
    /\ reader[w].phase = "set"
    /\ cache' = [v |-> reader[w].new, ttl |-> ReadTtl]
    /\ reader' = [reader EXCEPT ![w] = Idle]
    /\ UNCHANGED <<row, live, departed, holders, next, run, shown, notices, deaths>>

(* Fault: only the first copy is sent.                                     *)
StreamOnce(s) ==
    /\ cache.ttl > 0 /\ shown[s] = {}
    /\ shown' = [shown EXCEPT ![s] = {cache.v}]
    /\ UNCHANGED <<row, live, departed, holders, cache, next, run, reader, notices, deaths>>

(* A stream looks at the copy and sends it when it has changed.            *)
Stream(s) ==
    /\ cache.ttl > 0 /\ shown[s] # {cache.v}
    /\ shown' = [shown EXCEPT ![s] = {cache.v}]
    /\ UNCHANGED <<row, live, departed, holders, cache, next, run, reader, notices, deaths>>

-----------------------------------------------------------------------------
RunStep(i) == Start(i) \/ Read(i) \/ Ask(i) \/ Set(i) \/ (\E u \in Users : Tell(i, u)) \/ Commit(i)
ReaderStep(w) == Load(w) \/ Look(w) \/ AskForReader(w) \/ Fill(w)

Next ==
    \/ Update \/ Edit \/ Depart \/ Tick \/ Skip
    \/ \E s \in Streams : Stream(s)
    \/ \E u \in Users : Book(u)
    \/ \E i \in Runs : RunStep(i) \/ Die(i)
    \/ \E w \in Readers : Miss(w) \/ Open(w) \/ ReaderStep(w)

Spec == Init /\ [][Next]_vars

(* Time passes, cron starts its runs, a run and a request that have begun  *)
(* go on; a stream looks every ten seconds, often enough to see every      *)
(* copy, as each lives minutes.  Nothing makes a request come, the status  *)
(* or the row change or a run die.                                         *)
FairSpec ==
    /\ Spec
    /\ WF_vars(Tick) /\ \A s \in Streams : SF_vars(Stream(s))
    /\ \A i \in Runs : WF_vars(RunStep(i))
    /\ \A w \in Readers : WF_vars(ReaderStep(w))

-----------------------------------------------------------------------------
(* Properties.                                                             *)

(* Runs overlap and requests overwrite a copy with an older one, so a      *)
(* change may be told twice; but the copy is read before the status is     *)
(* asked for, so what is told as new was asked for no earlier than what is *)
(* told as old: of a flight whose row stays as it is nobody is told that   *)
(* it went back.  Rows do go back: a run or request that has loaded one    *)
(* before a change of it may come after one that has loaded it since.      *)
ToldForward == \A c \in told : c.old.live <= c.new.live /\ c.old # c.new

(* A change that was pushed has its in-app row, or its run is not over,    *)
(* unless a run died.                                                      *)
ToldIsStored ==
    deaths = 0 =>
       told = stored \cup UNION {run[i].pending : i \in {i \in Runs : run[i].phase = "tell"}}

(* A stream that stays open longer than its two hours: once row and status *)
(* stay as they are the stream comes to show them and keeps to them,       *)
(* whatever copy was stored last, until the flight leaves.                 *)
StreamSettles == \A s \in Streams : <>[](departed \/ shown[s] = {Now})

=============================================================================
