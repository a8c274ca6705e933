------------------------------ MODULE Reminders ------------------------------
(***************************************************************************)
(* The reminder workers (departure_alert.py, trip_todo_reminder.py): two   *)
(* cron jobs look at the flights that are near, push what is due and has   *)
(* no mark in Redis, mark it, and commit the in-app rows of all            *)
(* reservations at the end.  A run may die anywhere, customers change      *)
(* their minds while it goes on, and a flight may be moved.                *)
(***************************************************************************)
EXTENDS Integers, Sequences, FiniteSets

CONSTANTS
    Reservations,
    Jobs,
    First,          \* the jobs that send one reminder per run ("break")
    Kinds,          \* the list each job goes through, in its order
    Window,         \* how far ahead a job looks
    Departures,     \* the times flights may have, in periods of the cron jobs
    Buffers,        \* what a plan may put between leaving home and departure
    MinTtl,         \* the least life of a mark
    MaxDeaths, MaxMoves

Places(j) == 1..Len(Kinds[j])
KindsOf(j) == {Kinds[j][i] : i \in Places(j)}
AllKinds == UNION {KindsOf(j) : j \in Jobs}

(* A reminder that counts from the flight is due early enough for all      *)
(* others of its job to go first, one a run.                               *)
ASSUME RemindersAssumption ==
    /\ First \subseteq Jobs
    /\ \A j \in Jobs :
          /\ Len(Kinds[j]) \in Nat /\ Window[j] \in Nat
          /\ \A i, n \in Places(j) : Kinds[j][i] = Kinds[j][n] => i = n
          /\ \A k \in KindsOf(j) :
                /\ k.from \in {"flight", "leave"}
                /\ k.from = "flight" => /\ k.at \in Nat
                                        /\ Len(Kinds[j]) <= k.at /\ k.at <= Window[j]
    /\ \A i, j \in Jobs : i # j => KindsOf(i) \cap KindsOf(j) = {}
    /\ Departures \subseteq Nat \ {0}
    /\ MinTtl \in Nat \ {0} /\ MaxDeaths \in Nat /\ MaxMoves \in Nat

VARIABLES
    now,
    booking,    \* each reservation: sold or canceled, its flight, todos, its user's preference
    job,        \* each job: what it has loaded, is going to push, and has not committed
    until,      \* the marks in Redis: when they lapse, 0 for none
    pushed,     \* how often each reminder reached a phone
    stored,     \* the in-app rows
    steady,     \* reservations that nothing has kept from being reminded
    deaths, moves

vars == <<now, booking, job, until, pushed, stored, steady, deaths, moves>>

-----------------------------------------------------------------------------
Reminder == Reservations \X AllKinds

(* A user without a row of preferences is not notified either.             *)
BookingRow == [status: {"none", "booked", "canceled"}, departs: Departures,
               todos: {"open", "complete"}, notify: BOOLEAN]

(* What a run is going to push: a reservation, the departure it has loaded *)
(* for it, and a place in the list of the job.                             *)
Task == Reservations \X Departures \X Nat

(* A run keeps the departures it has loaded, and its rows until the end.   *)
Run == [phase: {"due", "serve", "mark", "ran"}, left: SUBSET (Reservations \X Departures),
        queue: SUBSET Task, pending: SUBSET Reminder]

NoRun(phase) == [phase |-> phase, left |-> {}, queue |-> {}, pending |-> {}]

(* Only what was sold is reminded of, a run that is about to mark has      *)
(* something to mark, and no mark has lapsed.                              *)
RemindersTypeOK ==
    /\ now \in Nat
    /\ booking \in [Reservations -> BookingRow]
    /\ job \in [Jobs -> Run]
    /\ \A j \in Jobs : job[j].phase = "mark" => job[j].queue # {}
    /\ until \in [Reminder -> Nat]
    /\ \A m \in Reminder : until[m] # 0 => until[m] > now
    /\ pushed \in [Reminder -> Nat]
    /\ stored \subseteq {m \in Reminder : booking[m[1]].status # "none"}
    /\ steady \subseteq Reservations
    /\ deaths \in 0..MaxDeaths /\ moves \in 0..MaxMoves

Init ==
    /\ now = 0
    /\ booking \in [Reservations ->
                      {b \in BookingRow : b.status = "none" /\ b.todos = "open"}]
    /\ job = [j \in Jobs |-> NoRun("due")]
    /\ until = [m \in Reminder |-> 0]
    /\ pushed = [m \in Reminder |-> 0]
    /\ stored = {}
    /\ steady = {}
    /\ deaths = 0 /\ moves = 0

sent == <<until, pushed, stored>>

-----------------------------------------------------------------------------
(* Customers, and the administrator who moves a flight.                    *)

(* Time for every job to send its whole list, one reminder a run.          *)
InTime(r) == \A j \in Jobs : now + Len(Kinds[j]) < booking[r].departs

Sell(r) ==
    /\ booking[r].status = "none" /\ now < booking[r].departs
    /\ booking' = [booking EXCEPT ![r].status = "booked"]
    /\ steady' = IF booking[r].notify /\ InTime(r)
                 THEN steady \cup {r} ELSE steady
    /\ UNCHANGED <<now, job, sent, deaths, moves>>

Cancel(r) ==
    /\ booking[r].status = "booked"
    /\ booking' = [booking EXCEPT ![r].status = "canceled"]
    /\ steady' = steady \ {r}
    /\ UNCHANGED <<now, job, sent, deaths, moves>>

SetPreference(r) ==
    /\ booking' = [booking EXCEPT ![r].notify = ~@]
    /\ steady' = steady \ {r}
    /\ UNCHANGED <<now, job, sent, deaths, moves>>

SetTodos(r, t) ==
    /\ booking[r].status # "none"
    /\ booking' = [booking EXCEPT ![r].todos = t]
    /\ steady' = IF t = "complete" THEN steady \ {r} ELSE steady
    /\ UNCHANGED <<now, job, sent, deaths, moves>>

(* PATCH /flights/{id}; the marks stay as they are.                        *)
Move(r, t) ==
    /\ moves < MaxMoves /\ t > now /\ t # booking[r].departs
    /\ booking' = [booking EXCEPT ![r].departs = t]
    /\ moves' = moves + 1
    /\ steady' = steady \ {r}
    /\ UNCHANGED <<now, job, sent, deaths>>

-----------------------------------------------------------------------------
(* The jobs.                                                               *)

Upcoming(j) == {r \in Reservations : /\ booking[r].status = "booked"
                                     /\ now < booking[r].departs
                                     /\ booking[r].departs <= now + Window[j]}

(* Fault: what was not sold is reminded of as well.                        *)
LoadUnsold(j) ==
    /\ job[j].phase = "due"
    /\ job' = [job EXCEPT ![j] =
                 [phase |-> "serve", queue |-> {}, pending |-> {},
                  left |-> {<<r, booking[r].departs>> : r \in Reservations}]]
    /\ UNCHANGED <<now, booking, sent, steady, deaths, moves>>

(* Reservations of flights ahead, with the departures as they are now.  A  *)
(* run begins a moment after its minute, when that minute's flights have   *)
(* left.                                                                   *)
Load(j) ==
    /\ job[j].phase = "due"
    /\ job' = [job EXCEPT ![j] =
                 [phase |-> "serve", queue |-> {}, pending |-> {},
                  left |-> {<<r, booking[r].departs>> : r \in Upcoming(j)}]]
    /\ UNCHANGED <<now, booking, sent, steady, deaths, moves>>

(* A plan, the time it puts between leaving home and departure, needs the  *)
(* user's home and the airport's position; it may fail besides.            *)
Plans == {{}} \cup {{b} : b \in Buffers}

(* The way with its traffic, the check-in and the weather.                 *)
LeaveAt(departs, buffer) == departs - buffer

Due(k, departs, plan) ==
    IF k.from = "flight" THEN departs - now <= k.at
                         ELSE \E b \in plan : LeaveAt(departs, b) - now <= k.at

(* What of the list is due and not marked.                                 *)
DuePlaces(j, r, departs, plan) ==
    {i \in Places(j) : Due(Kinds[j][i], departs, plan) /\ until[<<r, Kinds[j][i]>>] = 0}

(* Fault: the most urgent one decides, sent or not.                        *)
ChosenOnlyTop(j, r, departs, plan) ==
    {i \in DuePlaces(j, r, departs, plan) :
        \A n \in Places(j) : Due(Kinds[j][n], departs, plan) => i <= n}

(* What this run is going to send: all of that, or the first of it.        *)
Chosen(j, r, departs, plan) ==
    {i \in DuePlaces(j, r, departs, plan) :
        j \in First => \A n \in DuePlaces(j, r, departs, plan) : i <= n}

Wanted(j, r) == /\ booking[r].notify
                /\ j \notin First => booking[r].todos = "open"

Serve(j, c, plan) ==
    /\ job[j].phase = "serve" /\ job[j].queue = {} /\ c \in job[j].left
    /\ job' = [job EXCEPT
                 ![j].left = @ \ {c},
                 ![j].queue = IF Wanted(j, c[1])
                              THEN {<<c[1], c[2], i>> : i \in Chosen(j, c[1], c[2], plan)}
                              ELSE {}]
    /\ UNCHANGED <<now, booking, sent, steady, deaths, moves>>

(* The next of the list, and the reminder it stands for.                   *)
Foremost(j, x) == x \in job[j].queue /\ \A y \in job[j].queue : x[3] <= y[3]
ReminderOf(j, x) == <<x[1], Kinds[j][x[3]]>>

(* dispatch adds the row to the session and pushes.  Without a device, or  *)
(* when the push fails, which is only logged, nothing reaches the phone;   *)
(* the worker does not look at what dispatch returns and goes on to mark.  *)
Push(j, x, reached) ==
    /\ job[j].phase = "serve" /\ Foremost(j, x)
    /\ pushed' = IF reached THEN [pushed EXCEPT ![ReminderOf(j, x)] = @ + 1] ELSE pushed
    /\ job' = [job EXCEPT ![j].phase = "mark", ![j].pending = @ \cup {ReminderOf(j, x)}]
    /\ UNCHANGED <<now, booking, until, stored, steady, deaths, moves>>

(* Fault: the mark lives an hour.                                          *)
MarkShort(j, x) ==
    /\ job[j].phase = "mark" /\ Foremost(j, x)
    /\ until' = [until EXCEPT ![ReminderOf(j, x)] = now + MinTtl]
    /\ job' = [job EXCEPT ![j].phase = "serve", ![j].queue = @ \ {x}]
    /\ UNCHANGED <<now, booking, pushed, stored, steady, deaths, moves>>

(* The mark lives until the departure that was loaded, at least MinTtl.    *)
Mark(j, x) ==
    /\ job[j].phase = "mark" /\ Foremost(j, x)
    /\ until' = [until EXCEPT ![ReminderOf(j, x)] =
                    IF x[2] > now + MinTtl THEN x[2] ELSE now + MinTtl]
    /\ job' = [job EXCEPT ![j].phase = "serve", ![j].queue = @ \ {x}]
    /\ UNCHANGED <<now, booking, pushed, stored, steady, deaths, moves>>

Served(j) == job[j].phase = "serve" /\ job[j].left = {} /\ job[j].queue = {}

(* Fault: the session is closed without a commit.                          *)
CommitNothing(j) ==
    /\ Served(j)
    /\ job' = [job EXCEPT ![j] = NoRun("ran")]
    /\ UNCHANGED <<now, booking, until, pushed, stored, steady, deaths, moves>>

Commit(j) ==
    /\ Served(j)
    /\ stored' = stored \cup job[j].pending
    /\ job' = [job EXCEPT ![j] = NoRun("ran")]
    /\ UNCHANGED <<now, booking, until, pushed, steady, deaths, moves>>

(* An error, the job's time limit or a restart of the worker; cron jobs    *)
(* are not tried again.                                                    *)
Die(j) ==
    /\ job[j].phase \in {"serve", "mark"} /\ deaths < MaxDeaths
    /\ job' = [job EXCEPT ![j] = NoRun("ran")]
    /\ deaths' = deaths + 1
    /\ steady' = {}
    /\ UNCHANGED <<now, booking, sent, moves>>

(* The next period; a run is over by then, and one that did not take place *)
(* is not made up for.                                                     *)
Tick ==
    /\ \E t \in Departures : now < t
    /\ \A j \in Jobs : job[j].phase \in {"due", "ran"}
    /\ now' = now + 1
    /\ steady' = IF \A j \in Jobs : job[j].phase = "ran" THEN steady ELSE {}
    /\ job' = [j \in Jobs |-> NoRun("due")]
    /\ until' = [m \in Reminder |-> IF until[m] <= now' THEN 0 ELSE until[m]]
    /\ UNCHANGED <<booking, pushed, stored, deaths, moves>>

-----------------------------------------------------------------------------
Next ==
    \/ \E r \in Reservations :
          \/ Sell(r) \/ Cancel(r) \/ SetPreference(r)
          \/ \E t \in {"open", "complete"} : SetTodos(r, t)
          \/ \E t \in Departures : Move(r, t)
    \/ \E j \in Jobs :
          \/ Load(j) \/ Commit(j) \/ Die(j)
          \/ \E x \in job[j].queue :
                Mark(j, x) \/ \E reached \in BOOLEAN : Push(j, x, reached)
          \/ \E c \in Reservations \X Departures, plan \in Plans : Serve(j, c, plan)
    \/ Tick

Spec == Init /\ [][Next]_vars

-----------------------------------------------------------------------------
(* Properties.                                                             *)

(* A mark outlives the flight it was set for, so a reminder reaches the    *)
(* phone once more only for a run that died between push and mark, or for  *)
(* a flight that was moved.                                                *)
PushedOnce == \A m \in Reminder : pushed[m] <= 1 + deaths + moves

(* The in-app row of a reminder is there, or some run will commit it.      *)
Recorded(m) == m \in stored \/ \E j \in Jobs : m \in job[j].pending

(* A mark keeps a reminder from being sent again, and it is in Redis while *)
(* the row still waits for the end of the run: unless a run has died, no   *)
(* mark stands for a reminder that leaves no row.  It may stand for one    *)
(* that never reached a phone; the row is all the user has of that then.   *)
MarkedHasRow ==
    deaths = 0 => \A m \in Reminder : until[m] # 0 => Recorded(m)

(* Urgent reminders go first, and after them a less urgent one is sent     *)
(* although its time has long come: who was there in time, stayed, and met *)
(* no missed or broken run finds those of the flight in the application    *)
(* when it leaves.  Nothing is promised of the phone: a push that failed   *)
(* is marked like one that went out, and is not tried again.               *)
SteadyReminded ==
    \A r \in steady : now >= booking[r].departs =>
       \A k \in AllKinds : k.from = "flight" => <<r, k>> \in stored

=============================================================================
