--------------------------- MODULE RemindersProofs ---------------------------
(***************************************************************************)
(* Theorems about Reminders for every number of reservations, jobs and     *)
(* kinds of reminder, and for any deaths and moves of flights.             *)
(***************************************************************************)
EXTENDS Reminders, FiniteSetTheorems, WellFoundedInduction, TLAPS

-----------------------------------------------------------------------------
(* The inductive invariant.                                                *)

(* A run serves a reservation once, and what it is going to push belongs   *)
(* to one reservation, with the departure loaded for it, and is unmarked.  *)
RunsOK ==
    \A j \in Jobs :
       /\ job[j].phase \in {"due", "ran"} =>
             job[j].left = {} /\ job[j].queue = {} /\ job[j].pending = {}
       /\ \A c \in job[j].left :
             /\ booking[c[1]].status # "none"
             /\ \A d \in job[j].left : d[1] = c[1] => d = c
       /\ \A x \in job[j].queue :
             /\ booking[x[1]].status # "none"
             /\ x[3] \in Places(j)
             /\ until[ReminderOf(j, x)] = 0
             /\ \A c \in job[j].left : c[1] # x[1]
             /\ \A y \in job[j].queue : y[1] = x[1] /\ y[2] = x[2]
       /\ \A m \in job[j].pending : booking[m[1]].status # "none"

(* The task a run has dispatched and not yet marked: its row waits.        *)
Marking(j, x) == job[j].phase = "mark" /\ Foremost(j, x)

MarkedInv ==
    /\ MarkedHasRow
    /\ \A j \in Jobs : \A x \in job[j].queue : Marking(j, x) =>
          ReminderOf(j, x) \in job[j].pending

(* The run of j may yet push m, with t for the departure.                  *)
ToPush(j, m, t) ==
    \/ m[2] \in KindsOf(j) /\ <<m[1], t>> \in job[j].left /\ until[m] = 0
    \/ \E x \in job[j].queue : ReminderOf(j, x) = m /\ x[2] = t /\ ~Marking(j, x)

(* Nothing pushes m again: the mark lasts until the flight has left, or    *)
(* is about to be set so, or the flight has left.                          *)
Covered(m) ==
    \/ booking[m[1]].departs <= until[m]
    \/ booking[m[1]].departs <= now
    \/ \E j \in Jobs : \E x \in job[j].queue :
          Marking(j, x) /\ ReminderOf(j, x) = m /\ x[2] = booking[m[1]].departs

(* Each death and each move allows one push more.  A run that has loaded   *)
(* an earlier departure has a move to spend.                               *)
OnceInv ==
    \A m \in Reminder :
       /\ pushed[m] <= 1 + deaths + moves
       /\ pushed[m] = 1 + deaths + moves => Covered(m)
       /\ \A j \in Jobs, t \in Departures : ToPush(j, m, t) =>
             /\ pushed[m] <= deaths + moves
             /\ t # booking[m[1]].departs => pushed[m] < deaths + moves

UnsoldInv ==
    \A r \in Reservations : booking[r].status = "none" =>
       booking[r].todos = "open" /\ \A k \in AllKinds : until[<<r, k>>] = 0

Unmarked(j, r) == {i \in Places(j) : until[<<r, Kinds[j][i]>>] = 0}

(* The runs of j that can still serve r before its flight leaves.          *)
InRun(j, r) == \/ job[j].phase = "due"
               \/ \E c \in job[j].left : c[1] = r
               \/ \E x \in job[j].queue : x[1] = r
RunsLeft(j, r) ==
    IF InRun(j, r) THEN booking[r].departs - now ELSE booking[r].departs - now - 1

(* What a run holds of a steady reservation is of a flight still ahead, so *)
(* the row is committed before it leaves.                                  *)
Holds(j, r) == \/ \E c \in job[j].left : c[1] = r
               \/ \E x \in job[j].queue : x[1] = r
               \/ \E m \in job[j].pending : m[1] = r
AheadInv ==
    \A r \in steady, j \in Jobs : Holds(j, r) => now < booking[r].departs

(* While a reminder of the flight is missing, there are as many runs left  *)
(* as reminders of the job that may go first.                              *)
SteadyInv ==
    \A r \in steady :
       /\ booking[r].status = "booked" /\ booking[r].notify /\ booking[r].todos = "open"
       /\ \A k \in AllKinds : until[<<r, k>>] = 0 \/ booking[r].departs <= until[<<r, k>>]
       /\ \A k \in AllKinds : until[<<r, k>>] # 0 => Recorded(<<r, k>>)
       /\ \A j \in Jobs :
             /\ \A c \in job[j].left : c[1] = r => c[2] = booking[r].departs
             /\ \A x \in job[j].queue : x[1] = r => x[2] = booking[r].departs
             /\ \A k \in KindsOf(j) : k.from = "flight" /\ ~Recorded(<<r, k>>) =>
                   now < booking[r].departs /\ Cardinality(Unmarked(j, r)) <= RunsLeft(j, r)

RemindersInv ==
    /\ RemindersTypeOK /\ RunsOK /\ MarkedInv /\ OnceInv /\ UnsoldInv
    /\ AheadInv /\ SteadyInv

-----------------------------------------------------------------------------
(* Reminders, places and counts.                                           *)

(* The types of what a run holds.                                          *)
LEMMA RunTypes ==
    ASSUME RemindersTypeOK
    PROVE  /\ \A r \in Reservations : booking[r] \in BookingRow /\ booking[r].departs \in Departures
           /\ \A j \in Jobs :
                 /\ job[j].phase \in {"due", "serve", "mark", "ran"}
                 /\ \A c \in job[j].left :
                       c[1] \in Reservations /\ c[2] \in Departures /\ c = <<c[1], c[2]>>
                 /\ \A x \in job[j].queue :
                       /\ x[1] \in Reservations /\ x[2] \in Departures /\ x[3] \in Nat
                       /\ x = <<x[1], x[2], x[3]>>
                 /\ job[j].pending \subseteq Reminder
           /\ \A m \in Reminder : /\ m[1] \in Reservations /\ m[2] \in AllKinds
                                  /\ m = <<m[1], m[2]>>
<1>1. \A r \in Reservations : booking[r] \in BookingRow /\ booking[r].departs \in Departures
  BY DEF RemindersTypeOK, BookingRow
<1>2. ASSUME NEW j \in Jobs
      PROVE  /\ job[j].phase \in {"due", "serve", "mark", "ran"}
             /\ job[j].left \subseteq Reservations \X Departures
             /\ job[j].queue \subseteq Reservations \X Departures \X Nat
             /\ job[j].pending \subseteq Reminder
  BY DEF RemindersTypeOK, Run, Task
<1>. QED
  BY <1>1, <1>2 DEF Reminder

(* What is set up for runs stays right while nothing is unsold.            *)
LEMMA RunsStay ==
    ASSUME RemindersTypeOK, RunsOK, UNCHANGED <<job, until>>,
           \A r \in Reservations : booking[r].status # "none" => booking'[r].status # "none"
    PROVE  RunsOK'
<1>1. \A m \in Reminder : m[1] \in Reservations
  BY RunTypes
<1>2. ASSUME NEW j \in Jobs
      PROVE  /\ \A c \in job[j].left : booking'[c[1]].status # "none"
             /\ \A x \in job[j].queue : booking'[x[1]].status # "none"
             /\ \A m \in job[j].pending : booking'[m[1]].status # "none"
  BY <1>1, RunTypes DEF RunsOK
<1>3. \A j, x : ReminderOf(j, x)' = ReminderOf(j, x)
  BY DEF ReminderOf
<1>4. ASSUME NEW j \in Jobs
      PROVE  /\ job[j].phase \in {"due", "ran"} =>
                   job[j].left = {} /\ job[j].queue = {} /\ job[j].pending = {}
             /\ \A c \in job[j].left : \A d \in job[j].left : d[1] = c[1] => d = c
             /\ \A x \in job[j].queue :
                   /\ x[3] \in Places(j) /\ until'[ReminderOf(j, x)] = 0
                   /\ \A c \in job[j].left : c[1] # x[1]
                   /\ \A y \in job[j].queue : y[1] = x[1] /\ y[2] = x[2]
  BY DEF RunsOK
<1>. QED
  BY <1>2, <1>3, <1>4 DEF RunsOK

(* The reminder of a task, which no other task and no other job has.       *)
LEMMA ReminderFacts ==
    ASSUME RemindersAssumption, RemindersTypeOK, RunsOK, NEW j \in Jobs, NEW x \in job[j].queue
    PROVE  /\ x \in Task /\ x[1] \in Reservations /\ x[2] \in Departures /\ x[3] \in Places(j)
           /\ x = <<x[1], x[2], x[3]>>
           /\ ReminderOf(j, x) \in Reminder
           /\ ReminderOf(j, x)[1] = x[1]
           /\ ReminderOf(j, x)[2] = Kinds[j][x[3]]
           /\ ReminderOf(j, x)[2] \in KindsOf(j)
           /\ \A i \in Jobs : i # j => ReminderOf(j, x)[2] \notin KindsOf(i)
           /\ \A y \in job[j].queue : ReminderOf(j, y) = ReminderOf(j, x) => y = x
<1>1. x \in Task /\ x[1] \in Reservations /\ x[2] \in Departures /\ x = <<x[1], x[2], x[3]>>
  BY DEF RemindersTypeOK, Run, Task
<1>2. x[3] \in Places(j)
  BY DEF RunsOK
<1>3. Kinds[j][x[3]] \in KindsOf(j) /\ KindsOf(j) \subseteq AllKinds
  BY <1>2 DEF KindsOf, AllKinds
<1>4. ReminderOf(j, x) \in Reminder
  BY <1>1, <1>3 DEF ReminderOf, Reminder
<1>5. \A i \in Jobs : i # j => Kinds[j][x[3]] \notin KindsOf(i)
  BY <1>3 DEF RemindersAssumption
<1>6. ASSUME NEW y \in job[j].queue, ReminderOf(j, y) = ReminderOf(j, x)
      PROVE  y = x
  <2>1. y = <<y[1], y[2], y[3]>> /\ y[3] \in Places(j) /\ y[1] = x[1] /\ y[2] = x[2]
    BY DEF RemindersTypeOK, Run, Task, RunsOK
  <2>2. Kinds[j][y[3]] = Kinds[j][x[3]]
    BY <1>6 DEF ReminderOf
  <2>3. y[3] = x[3]
    BY <1>2, <2>1, <2>2 DEF RemindersAssumption
  <2>. QED
    BY <1>1, <2>1, <2>3
<1>. QED
  BY <1>1, <1>2, <1>3, <1>4, <1>5, <1>6 DEF ReminderOf

(* A set of places that is not empty has a first one.                      *)
LEMMA FirstPlace ==
    ASSUME NEW T, T \subseteq Nat, T # {}
    PROVE  \E i \in T : \A n \in T : i <= n
<1>1. IsWellFoundedOn(OpToRel(<, Nat), Nat)
  BY NatLessThanWellFounded
<1>2. PICK i \in T : \A n \in T : ~(<<n, i>> \in OpToRel(<, Nat))
  BY <1>1, WFMin
<1>3. \A n \in T : ~(n < i)
  BY <1>2 DEF OpToRel
<1>. QED
  BY <1>3

(* No more is unmarked than the list of the job has.                       *)
LEMMA UnmarkedCount ==
    ASSUME RemindersAssumption, NEW j \in Jobs, NEW r
    PROVE  /\ IsFiniteSet(Unmarked(j, r))
           /\ Cardinality(Unmarked(j, r)) \in Nat
           /\ Cardinality(Unmarked(j, r)) <= Len(Kinds[j])
<1>1. Len(Kinds[j]) \in Nat
  BY DEF RemindersAssumption
<1>2. IsFiniteSet(Places(j)) /\ Cardinality(Places(j)) = Len(Kinds[j])
  <2>1. \A n \in Nat : n >= 1 => IsFiniteSet(1..n) /\ Cardinality(1..n) = n
    BY FS_Interval
  <2>2. 1..0 = {} /\ IsFiniteSet({}) /\ Cardinality({}) = 0
    BY FS_EmptySet
  <2>3. \A n \in Nat : IsFiniteSet(1..n) /\ Cardinality(1..n) = n
    BY <2>1, <2>2
  <2>. QED
    BY <1>1, <2>3, Zenon DEF Places
<1>3. Unmarked(j, r) \subseteq Places(j)
  BY DEF Unmarked
<1>4. IsFiniteSet(Unmarked(j, r)) /\ Cardinality(Unmarked(j, r)) <= Cardinality(Places(j))
  <2>1. \A P, U : IsFiniteSet(P) /\ U \subseteq P =>
                     IsFiniteSet(U) /\ Cardinality(U) <= Cardinality(P)
    BY ONLY FS_Subset, Zenon
  <2>. QED
    BY <1>2, <1>3, <2>1, Zenon
<1>5. Cardinality(Unmarked(j, r)) \in Nat
  BY <1>4, FS_CardinalityType
<1>. QED
  BY <1>2, <1>4, <1>5

(* A reminder of the flight is due a period for each of its list before.   *)
LEMMA FlightKind ==
    ASSUME RemindersAssumption, NEW j \in Jobs, NEW k \in KindsOf(j), k.from = "flight", NEW r
    PROVE  /\ k.at \in Nat /\ Window[j] \in Nat /\ k.at <= Window[j]
           /\ Cardinality(Unmarked(j, r)) <= k.at
<1>1. /\ k.at \in Nat /\ Window[j] \in Nat /\ Len(Kinds[j]) \in Nat
      /\ Len(Kinds[j]) <= k.at /\ k.at <= Window[j]
  BY DEF RemindersAssumption
<1>. QED
  BY <1>1, UnmarkedCount

-----------------------------------------------------------------------------
(* Customers, and the administrator who moves a flight.                    *)

(* What keeps counting when neither the runs nor the marks change.         *)
LEMMA CountStays ==
    ASSUME UNCHANGED <<now, job, until>>, NEW j, NEW r,
           booking'[r].departs = booking[r].departs
    PROVE  Unmarked(j, r)' = Unmarked(j, r) /\ RunsLeft(j, r)' = RunsLeft(j, r)
  BY DEF Unmarked, RunsLeft, InRun

(* A change of mind: no departure changes, what was sold is not unsold,    *)
(* and who goes on being steady has kept the conditions for it.            *)
LEMMA MindsChange ==
    ASSUME RemindersInv, UNCHANGED <<now, job, sent, deaths, moves>>,
           booking' \in [Reservations -> BookingRow],
           \A r \in Reservations :
              /\ booking'[r].departs = booking[r].departs
              /\ booking'[r].status = "none" <=> booking[r].status = "none"
              /\ booking'[r].status = "none" => booking'[r].todos = "open",
           steady' \subseteq steady,
           \A r \in steady' : /\ booking'[r].status = "booked"
                              /\ booking'[r].notify /\ booking'[r].todos = "open"
    PROVE  RemindersInv'
<1>. USE DEF sent
<1>. USE DEF RemindersInv
<1>1. RemindersTypeOK'
  BY DEF RemindersTypeOK, Reminder
<1>2. RunsOK'
  BY RunsStay
<1>3. MarkedInv'
  BY DEF MarkedInv, MarkedHasRow, Recorded, Marking, Foremost, ReminderOf
<1>4. OnceInv'
  BY DEF OnceInv, ToPush, Covered, Marking, Foremost, ReminderOf, Reminder
<1>5. UnsoldInv'
  BY DEF UnsoldInv
<1>6. AheadInv'
  BY DEF AheadInv, Holds, RemindersTypeOK
<1>7. \A m : Recorded(m)' <=> Recorded(m)
  BY DEF Recorded
<1>8. SteadyInv'
  BY <1>7, CountStays DEF SteadyInv, RemindersTypeOK
<1>. QED
  BY <1>1, <1>2, <1>3, <1>4, <1>5, <1>6, <1>8

(* A cancellation, a preference, a todo.                                   *)
LEMMA CustomerSteps ==
    ASSUME RemindersInv, NEW r \in Reservations
    PROVE  /\ Cancel(r) => RemindersInv'
           /\ SetPreference(r) => RemindersInv'
           /\ \A t \in {"open", "complete"} : SetTodos(r, t) => RemindersInv'
<1>. DEFINE row == booking[r]
<1>1. /\ booking \in [Reservations -> BookingRow] /\ row \in BookingRow
      /\ steady \subseteq Reservations
      /\ \A q \in steady : /\ booking[q].status = "booked"
                            /\ booking[q].notify /\ booking[q].todos = "open"
      /\ \A q \in Reservations : booking[q].status = "none" => booking[q].todos = "open"
  BY DEF RemindersInv, RemindersTypeOK, SteadyInv, UnsoldInv
<1>2. ASSUME Cancel(r)
      PROVE  RemindersInv'
  <2>1. booking' \in [Reservations -> BookingRow]
    BY <1>1, <1>2 DEF Cancel, BookingRow
  <2>2. \A q \in Reservations :
           /\ booking'[q].departs = booking[q].departs
           /\ booking'[q].todos = booking[q].todos
           /\ booking'[q].status = "none" <=> booking[q].status = "none"
           /\ q # r => booking'[q] = booking[q]
    BY <1>1, <1>2 DEF Cancel, BookingRow
  <2>. QED
    BY <1>1, <1>2, <2>1, <2>2, MindsChange DEF Cancel
<1>3. ASSUME SetPreference(r)
      PROVE  RemindersInv'
  <2>. DEFINE new == [row EXCEPT !.notify = ~@]
  <2>1. /\ new \in BookingRow /\ new.departs = row.departs
        /\ new.status = row.status /\ new.todos = row.todos
    BY <1>1 DEF BookingRow
  <2>2. booking' = [booking EXCEPT ![r] = new]
    BY <1>3 DEF SetPreference
  <2>. HIDE DEF new
  <2>3. booking' \in [Reservations -> BookingRow]
    BY <1>1, <2>1, <2>2
  <2>4. \A q \in Reservations :
           /\ booking'[q].departs = booking[q].departs
           /\ booking'[q].todos = booking[q].todos
           /\ booking'[q].status = booking[q].status
           /\ q # r => booking'[q] = booking[q]
    BY <1>1, <2>1, <2>2
  <2>. QED
    BY <1>1, <1>3, <2>3, <2>4, MindsChange DEF SetPreference
<1>4. ASSUME NEW t \in {"open", "complete"}, SetTodos(r, t)
      PROVE  RemindersInv'
  <2>1. booking' \in [Reservations -> BookingRow]
    BY <1>1, <1>4 DEF SetTodos, BookingRow
  <2>2. \A q \in Reservations :
           /\ booking'[q].departs = booking[q].departs
           /\ booking'[q].notify = booking[q].notify
           /\ booking'[q].status = booking[q].status
           /\ q # r => booking'[q] = booking[q]
    BY <1>1, <1>4 DEF SetTodos, BookingRow
  <2>3. booking'[r].todos = t /\ booking[r].status # "none"
    BY <1>1, <1>4 DEF SetTodos, BookingRow
  <2>4. steady' \subseteq steady /\ (r \in steady' => t = "open")
    BY <1>4 DEF SetTodos
  <2>. QED
    BY <1>1, <1>4, <2>1, <2>2, <2>3, <2>4, MindsChange DEF SetTodos
<1>. QED
  BY <1>2, <1>3, <1>4

(* A sale: nothing has been marked for it, and there is time for all.      *)
LEMMA SellSteps ==
    ASSUME RemindersAssumption, RemindersInv, NEW r \in Reservations, Sell(r)
    PROVE  RemindersInv'
<1>. USE DEF RemindersInv
<1>1. /\ booking' \in [Reservations -> BookingRow]
      /\ \A q \in Reservations :
            /\ booking'[q].departs = booking[q].departs
            /\ booking'[q].todos = booking[q].todos
            /\ booking'[q].notify = booking[q].notify
            /\ booking[q].status # "none" => booking'[q].status = booking[q].status
            /\ booking'[q].status = "none" => booking[q].status = "none"
      /\ booking[r].status = "none" /\ booking'[r].status = "booked"
  BY DEF Sell, RemindersTypeOK, BookingRow
<1>2. UNCHANGED <<now, job, until, pushed, stored, deaths, moves>>
  BY DEF Sell, sent
<1>3. RemindersTypeOK'
  <2>1. steady' \subseteq Reservations
    BY DEF Sell, RemindersTypeOK
  <2>2. \A m \in Reminder : m[1] \in Reservations
    BY RunTypes
  <2>3. stored \subseteq {m \in Reminder : booking'[m[1]].status # "none"}
    BY <1>1, <2>2 DEF RemindersTypeOK
  <2>. QED
    BY <1>1, <1>2, <2>1, <2>3 DEF RemindersTypeOK
<1>4. RunsOK'
  BY <1>1, <1>2, RunsStay
<1>5. MarkedInv'
  BY <1>2 DEF MarkedInv, MarkedHasRow, Recorded, Marking, Foremost, ReminderOf
<1>6. OnceInv'
  BY <1>1, <1>2 DEF OnceInv, ToPush, Covered, Marking, Foremost, ReminderOf, Reminder
<1>7. UnsoldInv'
  BY <1>1, <1>2 DEF UnsoldInv
<1>8. \A m : Recorded(m)' <=> Recorded(m)
  BY <1>2 DEF Recorded
<1>9. AheadInv'
  <2>1. \A j \in Jobs : ~Holds(j, r)
    BY <1>1 DEF RunsOK, Holds
  <2>2. \A j, q : Holds(j, q)' <=> Holds(j, q)
    BY <1>2 DEF Holds
  <2>3. steady' \subseteq steady \cup {r} /\ steady \subseteq Reservations
    BY DEF Sell, RemindersTypeOK
  <2>. QED
    BY <1>1, <1>2, <2>1, <2>2, <2>3 DEF AheadInv
<1>10. SteadyInv'
  <2>1. \A j, q : q \in Reservations => /\ Unmarked(j, q)' = Unmarked(j, q)
                                         /\ RunsLeft(j, q)' = RunsLeft(j, q)
    BY <1>1, <1>2, CountStays
  <2>2. ASSUME r \in steady'
        PROVE  r \in steady \/ (booking[r].notify /\ InTime(r))
    <3>1. steady' = IF booking[r].notify /\ InTime(r) THEN steady \cup {r} ELSE steady
      BY DEF Sell
    <3>. QED
      BY <2>2, <3>1
  <2>3. ASSUME booking[r].notify, InTime(r)
        PROVE  /\ booking'[r].notify /\ booking'[r].todos = "open"
               /\ \A k \in AllKinds : until'[<<r, k>>] = 0
               /\ \A j \in Jobs :
                     /\ \A c \in job'[j].left : c[1] # r
                     /\ \A x \in job'[j].queue : x[1] # r
                     /\ now < booking[r].departs
                     /\ Cardinality(Unmarked(j, r)) <= RunsLeft(j, r)
    <3>1. /\ booking'[r].notify /\ booking'[r].todos = "open"
          /\ \A k \in AllKinds : until'[<<r, k>>] = 0
      BY <1>1, <1>2, <2>3 DEF UnsoldInv
    <3>2. ASSUME NEW j \in Jobs
          PROVE  /\ \A c \in job'[j].left : c[1] # r
                 /\ \A x \in job'[j].queue : x[1] # r
      BY <1>1, <1>2 DEF RunsOK
    <3>3. ASSUME NEW j \in Jobs
          PROVE  now < booking[r].departs /\ Cardinality(Unmarked(j, r)) <= RunsLeft(j, r)
      <4>1. now \in Nat /\ booking[r].departs \in Nat /\ Len(Kinds[j]) \in Nat
        BY DEF RemindersTypeOK, BookingRow, RemindersAssumption
      <4>2. now + Len(Kinds[j]) < booking[r].departs
        BY <2>3 DEF InTime
      <4>. QED
        BY <4>1, <4>2, UnmarkedCount DEF RunsLeft
    <3>. QED
      BY <3>1, <3>2, <3>3
  <2>4. ASSUME NEW q \in steady', q \in steady
        PROVE  /\ booking'[q].status = "booked" /\ booking'[q].notify /\ booking'[q].todos = "open"
               /\ \A k \in AllKinds : until'[<<q, k>>] = 0 \/ booking'[q].departs <= until'[<<q, k>>]
               /\ \A k \in AllKinds : until'[<<q, k>>] # 0 => Recorded(<<q, k>>)'
               /\ \A j \in Jobs :
                     /\ \A c \in job'[j].left : c[1] = q => c[2] = booking'[q].departs
                     /\ \A x \in job'[j].queue : x[1] = q => x[2] = booking'[q].departs
                     /\ \A k \in KindsOf(j) : k.from = "flight" /\ ~Recorded(<<q, k>>)' =>
                           /\ now' < booking'[q].departs
                           /\ Cardinality(Unmarked(j, q)') <= RunsLeft(j, q)'
    <3>1. q \in Reservations /\ booking'[q].departs = booking[q].departs
      BY <1>1, <2>4 DEF RemindersTypeOK
    <3>2. booking[q].status = "booked" /\ booking[q].notify /\ booking[q].todos = "open"
      BY <2>4 DEF SteadyInv
    <3>3. booking'[q].status = "booked" /\ booking'[q].todos = "open"
      BY <1>1, <3>1, <3>2
    <3>4. booking'[q].notify
      BY <1>1, <3>1, <3>2
    <3>5. \A k \in AllKinds : until'[<<q, k>>] = 0 \/ booking'[q].departs <= until'[<<q, k>>]
      BY <1>2, <2>4, <3>1 DEF SteadyInv
    <3>6. \A k \in AllKinds : until'[<<q, k>>] # 0 => Recorded(<<q, k>>)'
      BY <1>2, <1>8, <2>4 DEF SteadyInv
    <3>7. ASSUME NEW j \in Jobs
          PROVE  /\ \A c \in job'[j].left : c[1] = q => c[2] = booking'[q].departs
                 /\ \A x \in job'[j].queue : x[1] = q => x[2] = booking'[q].departs
      BY <1>2, <2>4, <3>1 DEF SteadyInv
    <3>8. ASSUME NEW j \in Jobs, NEW k \in KindsOf(j), k.from = "flight", ~Recorded(<<q, k>>)'
          PROVE  /\ now' < booking'[q].departs
                 /\ Cardinality(Unmarked(j, q)') <= RunsLeft(j, q)'
      <4>1. /\ now < booking[q].departs
            /\ Cardinality(Unmarked(j, q)) <= RunsLeft(j, q)
        BY <1>8, <2>4, <3>8 DEF SteadyInv
      <4>. QED
        BY <1>2, <2>1, <3>1, <4>1
    <3>. QED
      BY <3>3, <3>4, <3>5, <3>6, <3>7, <3>8
  <2>5. ASSUME NEW q \in steady', q \notin steady
        PROVE  q = r
    BY <2>5 DEF Sell
  <2>6. r \in steady' => r \in Reservations
    OBVIOUS
  <2>. QED
    BY <1>1, <1>2, <2>1, <2>2, <2>3, <2>4, <2>5 DEF SteadyInv
<1>. QED
  BY <1>3, <1>4, <1>5, <1>6, <1>7, <1>9, <1>10

(* A flight is moved: every reminder may be pushed once more.              *)
LEMMA MoveSteps ==
    ASSUME RemindersAssumption, RemindersInv, NEW r \in Reservations, NEW t \in Departures,
           Move(r, t)
    PROVE  RemindersInv'
<1>. USE DEF RemindersInv
<1>1. /\ booking' \in [Reservations -> BookingRow]
      /\ \A q \in Reservations :
            /\ booking'[q].status = booking[q].status
            /\ booking'[q].todos = booking[q].todos
            /\ booking'[q].notify = booking[q].notify
            /\ q # r => booking'[q].departs = booking[q].departs
  <2>. DEFINE moved == [booking[r] EXCEPT !.departs = t]
  <2>1. /\ moved \in BookingRow
        /\ moved.status = booking[r].status /\ moved.todos = booking[r].todos
    BY ZenonT(40) DEF RemindersTypeOK, BookingRow
  <2>2. moved.notify = booking[r].notify
    BY DEF RemindersTypeOK, BookingRow
  <2>3. booking' = [booking EXCEPT ![r] = moved]
    BY DEF Move
  <2>. HIDE DEF moved
  <2>. QED
    BY <2>1, <2>2, <2>3 DEF RemindersTypeOK
<1>2. /\ UNCHANGED <<now, job, until, pushed, stored, deaths>>
      /\ moves' = moves + 1 /\ steady' = steady \ {r}
      /\ moves \in Nat /\ deaths \in Nat /\ pushed \in [Reminder -> Nat]
  BY DEF Move, sent, RemindersTypeOK, RemindersAssumption
<1>3. RemindersTypeOK'
  <2>1. stored \subseteq {m \in Reminder : booking'[m[1]].status # "none"}
    BY <1>1, RunTypes DEF RemindersTypeOK
  <2>2. moves' \in 0..MaxMoves
    BY <1>2 DEF Move, RemindersTypeOK, RemindersAssumption
  <2>. QED
    BY <1>1, <1>2, <2>1, <2>2 DEF RemindersTypeOK
<1>4. RunsOK'
  BY <1>1, <1>2, RunsStay
<1>5. MarkedInv'
  BY <1>2 DEF MarkedInv, MarkedHasRow, Recorded, Marking, Foremost, ReminderOf
<1>6. OnceInv'
  <2>1. \A m \in Reminder : pushed'[m] < 1 + deaths' + moves'
    BY <1>2 DEF OnceInv
  <2>2. \A m, j, u : ToPush(j, m, u)' <=> ToPush(j, m, u)
    BY <1>2 DEF ToPush, Marking, Foremost, ReminderOf
  <2>3. ASSUME NEW m \in Reminder, NEW j \in Jobs, NEW u \in Departures, ToPush(j, m, u)
        PROVE  pushed'[m] < deaths' + moves'
    <3>1. pushed[m] <= deaths + moves
      BY <2>3 DEF OnceInv
    <3>. QED
      BY <1>2, <3>1
  <2>4. \A m \in Reminder : pushed'[m] \in Nat
    BY <1>2
  <2>. QED
    BY <1>2, <2>1, <2>2, <2>3, <2>4 DEF OnceInv
<1>7. UnsoldInv'
  BY <1>1, <1>2 DEF UnsoldInv
<1>8. SteadyInv'
  <2>1. ASSUME NEW q \in steady'
        PROVE  /\ q \in steady /\ q \in Reservations
               /\ booking'[q].departs = booking[q].departs
    BY <1>1, <1>2, <2>1 DEF RemindersTypeOK
  <2>2. ASSUME NEW q \in steady', NEW j
        PROVE  Unmarked(j, q)' = Unmarked(j, q) /\ RunsLeft(j, q)' = RunsLeft(j, q)
    BY <1>2, <2>1, <2>2, CountStays
  <2>3. \A m : Recorded(m)' <=> Recorded(m)
    BY <1>2 DEF Recorded
  <2>. QED
    BY <1>1, <1>2, <2>1, <2>2, <2>3 DEF SteadyInv
<1>9. AheadInv'
  BY <1>1, <1>2 DEF AheadInv, Holds, RemindersTypeOK
<1>. QED
  BY <1>3, <1>4, <1>5, <1>6, <1>7, <1>8, <1>9

-----------------------------------------------------------------------------
(* The jobs.                                                               *)

(* A run loads a flight that is ahead: what it is going to push of it has  *)
(* a push to spend, and a flight it passes over can wait for the next run. *)
LEMMA LoadSteps ==
    ASSUME RemindersAssumption, RemindersInv, NEW j \in Jobs, Load(j)
    PROVE  RemindersInv'
<1>. USE DEF RemindersInv
<1>1. /\ UNCHANGED <<now, booking, until, pushed, stored, steady, deaths, moves>>
      /\ job[j].phase = "due" /\ job[j].queue = {} /\ job[j].pending = {}
      /\ job \in [Jobs -> Run]
  BY DEF Load, sent, RunsOK, RemindersTypeOK
<1>. DEFINE loaded == {<<r, booking[r].departs>> : r \in Upcoming(j)}
<1>. DEFINE run == [phase |-> "serve", queue |-> {}, pending |-> {}, left |-> loaded]
<1>2. /\ Upcoming(j) \subseteq Reservations
      /\ \A r \in Upcoming(j) : booking[r].departs \in Departures
  BY RunTypes DEF Upcoming
<1>3. run \in Run
  BY <1>2 DEF Run
<1>4. job' = [job EXCEPT ![j] = run]
  BY DEF Load
<1>. HIDE DEF run
<1>5. /\ job' \in [Jobs -> Run] /\ job'[j] = run
      /\ \A i \in Jobs : i # j => job'[i] = job[i]
  BY <1>1, <1>3, <1>4
<1>6. /\ job'[j].phase = "serve" /\ job'[j].queue = {} /\ job'[j].pending = {}
      /\ job'[j].left = loaded
  BY <1>5 DEF run
<1>7. /\ \A i \in Jobs : job'[i].queue = job[i].queue /\ job'[i].pending = job[i].pending
      /\ \A i \in Jobs : job'[i].phase = "mark" <=> job[i].phase = "mark"
  BY <1>1, <1>5, <1>6
<1>8. \A c \in loaded : /\ c[1] \in Upcoming(j) /\ c = <<c[1], c[2]>>
                        /\ c[2] = booking[c[1]].departs
  OBVIOUS
<1>. HIDE DEF loaded
<1>9. RemindersTypeOK'
  BY <1>1, <1>5, <1>7 DEF RemindersTypeOK
<1>10. RunsOK'
  <2>1. \A i, x : ReminderOf(i, x)' = ReminderOf(i, x)
    BY DEF ReminderOf
  <2>2. ASSUME NEW i \in Jobs, i # j
        PROVE  /\ job'[i].phase \in {"due", "ran"} =>
                     job'[i].left = {} /\ job'[i].queue = {} /\ job'[i].pending = {}
               /\ \A c \in job'[i].left :
                     /\ booking'[c[1]].status # "none"
                     /\ \A d \in job'[i].left : d[1] = c[1] => d = c
               /\ \A x \in job'[i].queue :
                     /\ booking'[x[1]].status # "none"
                     /\ x[3] \in Places(i)
                     /\ until'[ReminderOf(i, x)] = 0
                     /\ \A c \in job'[i].left : c[1] # x[1]
                     /\ \A y \in job'[i].queue : y[1] = x[1] /\ y[2] = x[2]
               /\ \A m \in job'[i].pending : booking'[m[1]].status # "none"
    <3>1. job'[i] = job[i]
      BY <1>5, <2>2
    <3>. QED
      BY <1>1, <3>1 DEF RunsOK
  <2>3. \A c \in job'[j].left : /\ booking'[c[1]].status # "none"
                                /\ \A d \in job'[j].left : d[1] = c[1] => d = c
    <3>1. \A c \in loaded : booking'[c[1]].status # "none"
      BY <1>1, <1>8 DEF Upcoming
    <3>2. \A c \in loaded : \A d \in loaded : d[1] = c[1] => d = c
      BY <1>8
    <3>. QED
      BY <1>6, <3>1, <3>2
  <2>. QED
    BY <1>6, <2>1, <2>2, <2>3 DEF RunsOK
<1>11. \A i \in Jobs : \A x \in job[i].queue : Marking(i, x)' <=> Marking(i, x)
  BY <1>7 DEF Marking, Foremost
<1>12. MarkedInv'
  <2>1. \A i, x : ReminderOf(i, x)' = ReminderOf(i, x)
    BY DEF ReminderOf
  <2>. QED
    BY <1>1, <1>7, <1>11, <2>1 DEF MarkedInv, MarkedHasRow, Recorded
<1>13. OnceInv'
  <2>1. \A m : Covered(m)' <=> Covered(m)
    BY <1>1, <1>7, <1>11 DEF Covered, ReminderOf
  <2>2. ASSUME NEW i \in Jobs, i # j, NEW m, NEW u
        PROVE  ToPush(i, m, u)' <=> ToPush(i, m, u)
    <3>1. job'[i] = job[i]
      BY <1>5, <2>2
    <3>. QED
      BY <1>1, <1>11, <3>1 DEF ToPush, ReminderOf
  <2>3. ASSUME NEW m \in Reminder, NEW u \in Departures, ToPush(j, m, u)'
        PROVE  pushed[m] <= deaths + moves /\ u = booking[m[1]].departs
    <3>1. m[2] \in KindsOf(j) /\ <<m[1], u>> \in loaded /\ until[m] = 0
      BY <1>1, <1>6, <2>3 DEF ToPush
    <3>2. m[1] \in Upcoming(j) /\ u = booking[m[1]].departs
      BY <1>8, <3>1
    <3>3. now \in Nat /\ booking[m[1]].departs \in Nat \ {0} /\ now < booking[m[1]].departs
      BY <1>2, <3>2 DEF RemindersTypeOK, RemindersAssumption, Upcoming
    <3>4. \A i \in Jobs : \A x \in job[i].queue : ReminderOf(i, x) # m
      BY <1>1, <3>1, ReminderFacts
    <3>5. ~Covered(m)
      BY <3>1, <3>3, <3>4 DEF Covered
    <3>6. pushed[m] <= 1 + deaths + moves /\ pushed[m] # 1 + deaths + moves
      BY <3>5 DEF OnceInv
    <3>7. pushed[m] \in Nat /\ deaths \in Nat /\ moves \in Nat
      BY DEF RemindersTypeOK, RemindersAssumption
    <3>. QED
      BY <3>2, <3>6, <3>7
  <2>4. ASSUME NEW m \in Reminder, NEW i \in Jobs, NEW u \in Departures, ToPush(i, m, u)'
        PROVE  /\ pushed'[m] <= deaths' + moves'
               /\ u # booking'[m[1]].departs => pushed'[m] < deaths' + moves'
    <3>1. CASE i = j
      BY <1>1, <2>3, <2>4, <3>1
    <3>2. CASE i # j
      BY <1>1, <2>2, <2>4, <3>2 DEF OnceInv
    <3>. QED
      BY <3>1, <3>2
  <2>. QED
    BY <1>1, <2>1, <2>4 DEF OnceInv
<1>14. UnsoldInv'
  BY <1>1 DEF UnsoldInv
<1>15. \A m : Recorded(m)' <=> Recorded(m)
  BY <1>1, <1>7 DEF Recorded
<1>16. AheadInv'
  <2>1. \A c \in loaded : now < booking[c[1]].departs
    BY <1>8 DEF Upcoming
  <2>2. \A r, i : i \in Jobs /\ i # j => (Holds(i, r)' <=> Holds(i, r))
    BY <1>5 DEF Holds
  <2>3. \A r : Holds(j, r)' => now < booking[r].departs
    BY <1>6, <2>1 DEF Holds
  <2>. QED
    BY <1>1, <2>2, <2>3 DEF AheadInv
<1>17. SteadyInv'
  <2>1. ASSUME NEW r \in steady
        PROVE  /\ booking[r].status = "booked" /\ booking[r].notify /\ booking[r].todos = "open"
               /\ \A k \in AllKinds : until[<<r, k>>] = 0 \/ booking[r].departs <= until[<<r, k>>]
               /\ \A k \in AllKinds : until[<<r, k>>] # 0 => Recorded(<<r, k>>)
               /\ \A i \in Jobs : \A c \in job'[i].left : c[1] = r => c[2] = booking[r].departs
               /\ \A i \in Jobs : \A x \in job'[i].queue : x[1] = r => x[2] = booking[r].departs
    <3>1. \A i \in Jobs : i # j => job'[i].left = job[i].left
      BY <1>5
    <3>. QED
      BY <1>6, <1>7, <1>8, <3>1 DEF SteadyInv
  <2>2. \A i, r : Unmarked(i, r)' = Unmarked(i, r)
    BY <1>1 DEF Unmarked
  <2>3. ASSUME NEW r \in steady, NEW i \in Jobs, NEW k \in KindsOf(i),
               k.from = "flight", ~Recorded(<<r, k>>)
        PROVE  now < booking[r].departs /\ Cardinality(Unmarked(i, r)) <= RunsLeft(i, r)'
    <3>1. now < booking[r].departs /\ Cardinality(Unmarked(i, r)) <= RunsLeft(i, r)
      BY <2>3 DEF SteadyInv
    <3>2. CASE i # j
      <4>1. job'[i] = job[i]
        BY <1>5, <3>2
      <4>2. RunsLeft(i, r)' = RunsLeft(i, r)
        BY <1>1, <4>1 DEF RunsLeft, InRun
      <4>. QED
        BY <3>1, <4>2
    <3>3. CASE i = j
      <4>1. /\ r \in Reservations /\ now \in Nat /\ booking[r].departs \in Nat
            /\ booking[r].status = "booked"
        BY <2>1, RunTypes DEF RemindersTypeOK, RemindersAssumption
      <4>2. Cardinality(Unmarked(j, r)) <= booking[r].departs - now
        BY <1>1, <3>1, <3>3 DEF RunsLeft, InRun
      <4>3. CASE r \in Upcoming(j)
        <5>1. <<r, booking[r].departs>> \in job'[j].left
          BY <1>6, <4>3 DEF loaded
        <5>2. InRun(j, r)'
          BY <5>1 DEF InRun
        <5>. QED
          BY <1>1, <3>1, <3>3, <4>2, <5>2 DEF RunsLeft
      <4>4. CASE r \notin Upcoming(j)
        <5>1. ~(booking[r].departs <= now + Window[j])
          BY <3>1, <4>1, <4>4 DEF Upcoming
        <5>2. /\ k.at \in Nat /\ Window[j] \in Nat /\ k.at <= Window[j]
              /\ Cardinality(Unmarked(j, r)) <= k.at
          BY <2>3, <3>3, FlightKind
        <5>3. Cardinality(Unmarked(j, r)) \in Nat
          BY UnmarkedCount
        <5>4. Cardinality(Unmarked(j, r)) <= booking[r].departs - now - 1
          BY <4>1, <5>1, <5>2, <5>3
        <5>5. RunsLeft(j, r)' \in {booking[r].departs - now, booking[r].departs - now - 1}
          BY <1>1 DEF RunsLeft
        <5>. QED
          BY <3>1, <3>3, <4>2, <5>4, <5>5
      <4>. QED
        BY <4>3, <4>4
    <3>. QED
      BY <3>2, <3>3
  <2>. QED
    BY <1>1, <1>15, <2>1, <2>2, <2>3 DEF SteadyInv
<1>. QED
  BY <1>9, <1>10, <1>12, <1>13, <1>14, <1>16, <1>17

(* The first of what is due is chosen by either kind of job.               *)
LEMMA SomeChosen ==
    ASSUME NEW j, NEW r, NEW departs, NEW plan, DuePlaces(j, r, departs, plan) # {}
    PROVE  Chosen(j, r, departs, plan) # {}
<1>1. DuePlaces(j, r, departs, plan) \subseteq Nat
  BY DEF DuePlaces, Places
<1>2. PICK i \in DuePlaces(j, r, departs, plan) :
              \A n \in DuePlaces(j, r, departs, plan) : i <= n
  BY <1>1, FirstPlace
<1>. QED
  BY <1>2 DEF Chosen

(* A reservation is served: what the run is going to push of it, it was    *)
(* going to push before, and if that is nothing, nothing was due.          *)
LEMMA ServeSteps ==
    ASSUME RemindersAssumption, RemindersInv, NEW j \in Jobs, NEW plan,
           NEW c \in Reservations \X Departures, Serve(j, c, plan)
    PROVE  RemindersInv'
<1>. USE DEF RemindersInv
<1>1. /\ UNCHANGED <<now, booking, until, pushed, stored, steady, deaths, moves>>
      /\ job[j].phase = "serve" /\ job[j].queue = {} /\ c \in job[j].left
      /\ job \in [Jobs -> Run]
      /\ c = <<c[1], c[2]>> /\ c[1] \in Reservations /\ c[2] \in Departures
  BY DEF Serve, sent, RemindersTypeOK
<1>. DEFINE chosen == Chosen(j, c[1], c[2], plan)
<1>. DEFINE tasks == IF Wanted(j, c[1]) THEN {<<c[1], c[2], i>> : i \in chosen} ELSE {}
<1>2. \A i \in chosen : i \in Places(j) /\ i \in Nat /\ until[<<c[1], Kinds[j][i]>>] = 0
  BY DEF Chosen, DuePlaces, Places
<1>. HIDE DEF chosen
<1>3. tasks \subseteq Task
  <2>1. \A i \in chosen : <<c[1], c[2], i>> \in Task
    BY <1>1, <1>2 DEF Task
  <2>. QED
    BY <2>1
<1>4. \A x \in tasks : /\ x[1] = c[1] /\ x[2] = c[2] /\ x[3] \in Places(j)
                       /\ until[<<c[1], Kinds[j][x[3]]>>] = 0
  BY <1>2
<1>5. job' = [job EXCEPT ![j].left = @ \ {c}, ![j].queue = tasks]
  BY DEF Serve, chosen
<1>. HIDE DEF tasks
<1>6. /\ job' \in [Jobs -> Run]
      /\ \A i \in Jobs : i # j => job'[i] = job[i]
      /\ job'[j].phase = "serve" /\ job'[j].pending = job[j].pending
      /\ job'[j].left = job[j].left \ {c} /\ job'[j].queue = tasks
  <2>. DEFINE run == [job[j] EXCEPT !.left = @ \ {c}, !.queue = tasks]
  <2>1. job[j] \in Run
    BY <1>1
  <2>2. /\ run \in Run /\ run.phase = job[j].phase /\ run.pending = job[j].pending
        /\ run.left = job[j].left \ {c} /\ run.queue = tasks
    BY <1>3, <2>1 DEF Run
  <2>3. job' = [job EXCEPT ![j] = run]
    BY <1>5
  <2>. HIDE DEF run
  <2>. QED
    BY <1>1, <2>2, <2>3
<1>7. \A d \in job[j].left : d[1] = c[1] => d = c
  BY <1>1 DEF RunsOK
<1>8. \A i, x : ReminderOf(i, x)' = ReminderOf(i, x)
  BY DEF ReminderOf
<1>9. RemindersTypeOK'
  <2>1. \A i \in Jobs : job'[i].phase = "mark" => job'[i].queue # {}
    BY <1>6 DEF RemindersTypeOK
  <2>. QED
    BY <1>1, <1>6, <2>1 DEF RemindersTypeOK
<1>10. RunsOK'
  <2>1. ASSUME NEW i \in Jobs, i # j
        PROVE  /\ job'[i].phase \in {"due", "ran"} =>
                     job'[i].left = {} /\ job'[i].queue = {} /\ job'[i].pending = {}
               /\ \A d \in job'[i].left :
                     /\ booking'[d[1]].status # "none"
                     /\ \A e \in job'[i].left : e[1] = d[1] => e = d
               /\ \A x \in job'[i].queue :
                     /\ booking'[x[1]].status # "none"
                     /\ x[3] \in Places(i)
                     /\ until'[ReminderOf(i, x)] = 0
                     /\ \A d \in job'[i].left : d[1] # x[1]
                     /\ \A y \in job'[i].queue : y[1] = x[1] /\ y[2] = x[2]
               /\ \A m \in job'[i].pending : booking'[m[1]].status # "none"
    <3>1. job'[i] = job[i]
      BY <1>6, <2>1
    <3>. QED
      BY <1>1, <3>1 DEF RunsOK
  <2>2. /\ \A d \in job'[j].left :
              /\ booking'[d[1]].status # "none"
              /\ \A e \in job'[j].left : e[1] = d[1] => e = d
        /\ \A m \in job'[j].pending : booking'[m[1]].status # "none"
    BY <1>1, <1>6 DEF RunsOK
  <2>3. booking'[c[1]].status # "none"
    BY <1>1 DEF RunsOK
  <2>4. ASSUME NEW x \in tasks
        PROVE  /\ booking'[x[1]].status # "none"
               /\ x[3] \in Places(j)
               /\ until'[ReminderOf(j, x)] = 0
               /\ \A d \in job'[j].left : d[1] # x[1]
               /\ \A y \in tasks : y[1] = x[1] /\ y[2] = x[2]
    BY <1>1, <1>4, <1>6, <1>7, <2>3 DEF ReminderOf
  <2>. QED
    BY <1>6, <1>8, <2>1, <2>2, <2>4 DEF RunsOK
<1>11. ~(\E x : Marking(j, x)) /\ ~(\E x : Marking(j, x)')
  BY <1>1, <1>6 DEF Marking
<1>12. ASSUME NEW i \in Jobs, i # j
       PROVE  /\ job'[i] = job[i]
              /\ \A x : Marking(i, x)' <=> Marking(i, x)
  BY <1>6, <1>12 DEF Marking, Foremost
<1>13. MarkedInv'
  <2>1. \A i \in Jobs : job'[i].pending = job[i].pending
    BY <1>6
  <2>2. MarkedHasRow'
    BY <1>1, <2>1 DEF MarkedInv, MarkedHasRow, Recorded
  <2>3. ASSUME NEW i \in Jobs, NEW x \in job'[i].queue, Marking(i, x)'
        PROVE  ReminderOf(i, x) \in job'[i].pending
    <3>1. i # j
      BY <1>11, <2>3
    <3>. QED
      BY <1>1, <1>12, <2>3, <3>1 DEF MarkedInv
  <2>. QED
    BY <1>8, <2>2, <2>3 DEF MarkedInv
<1>14. OnceInv'
  <2>1. ASSUME NEW m
        PROVE  Covered(m)' <=> Covered(m)
    <3>1. (\E i \in Jobs : \E x \in job'[i].queue :
                Marking(i, x)' /\ ReminderOf(i, x) = m /\ x[2] = booking[m[1]].departs)
          <=> (\E i \in Jobs : \E x \in job[i].queue :
                Marking(i, x) /\ ReminderOf(i, x) = m /\ x[2] = booking[m[1]].departs)
      BY <1>11, <1>12
    <3>. QED
      BY <1>1, <1>8, <3>1 DEF Covered
  <2>2. ASSUME NEW m \in Reminder, NEW i \in Jobs, NEW u, ToPush(i, m, u)'
        PROVE  ToPush(i, m, u)
    <3>1. CASE i # j
      BY <1>1, <1>8, <1>12, <2>2, <3>1 DEF ToPush
    <3>2. CASE i = j /\ m[2] \in KindsOf(j) /\ <<m[1], u>> \in job'[j].left /\ until'[m] = 0
      BY <1>1, <1>6, <3>2 DEF ToPush
    <3>3. ASSUME i = j, NEW x \in tasks, ReminderOf(j, x) = m, x[2] = u
          PROVE  ToPush(j, m, u)
      <4>1. m = <<c[1], Kinds[j][x[3]]>> /\ u = c[2]
        BY <1>4, <3>3 DEF ReminderOf
      <4>2. m[1] = c[1] /\ m[2] \in KindsOf(j) /\ until[m] = 0
        BY <1>4, <4>1 DEF KindsOf
      <4>. QED
        BY <1>1, <4>1, <4>2 DEF ToPush
    <3>. QED
      BY <1>6, <1>8, <2>2, <3>1, <3>2, <3>3 DEF ToPush
  <2>. QED
    BY <1>1, <2>1, <2>2 DEF OnceInv
<1>15. UnsoldInv'
  BY <1>1 DEF UnsoldInv
<1>16. \A m : Recorded(m)' <=> Recorded(m)
  <2>1. \A i \in Jobs : job'[i].pending = job[i].pending
    BY <1>6
  <2>. QED
    BY <1>1, <2>1 DEF Recorded
<1>17. AheadInv'
  <2>1. \A r : Holds(j, r)' => Holds(j, r)
    BY <1>1, <1>4, <1>6 DEF Holds
  <2>2. \A r, i : i \in Jobs /\ i # j => (Holds(i, r)' <=> Holds(i, r))
    BY <1>6 DEF Holds
  <2>. QED
    BY <1>1, <2>1, <2>2 DEF AheadInv
<1>18. SteadyInv'
  <2>1. ASSUME NEW r \in steady
        PROVE  /\ booking[r].status = "booked" /\ booking[r].notify /\ booking[r].todos = "open"
               /\ \A k \in AllKinds : until[<<r, k>>] = 0 \/ booking[r].departs <= until[<<r, k>>]
               /\ \A k \in AllKinds : until[<<r, k>>] # 0 => Recorded(<<r, k>>)
               /\ \A i \in Jobs : \A d \in job'[i].left : d[1] = r => d[2] = booking[r].departs
               /\ \A i \in Jobs : \A x \in job'[i].queue : x[1] = r => x[2] = booking[r].departs
    <3>1. c[1] = r => c[2] = booking[r].departs
      BY <1>1 DEF SteadyInv
    <3>2. \A d \in job'[j].left : d \in job[j].left
      BY <1>6
    <3>4. \A d \in job[j].left : d[1] = r => d[2] = booking[r].departs
      BY DEF SteadyInv
    <3>3. ASSUME NEW i \in Jobs
          PROVE  /\ \A d \in job'[i].left : d[1] = r => d[2] = booking[r].departs
                 /\ \A x \in job'[i].queue : x[1] = r => x[2] = booking[r].departs
      <4>1. CASE i = j
        BY <1>4, <1>6, <3>1, <3>2, <3>4, <4>1
      <4>2. CASE i # j
        BY <1>12, <4>2 DEF SteadyInv
      <4>. QED
        BY <4>1, <4>2
    <3>. QED
      BY <3>3 DEF SteadyInv
  <2>2. \A i, r : Unmarked(i, r)' = Unmarked(i, r)
    BY <1>1 DEF Unmarked
  <2>3. ASSUME NEW r \in steady, NEW i \in Jobs, NEW k \in KindsOf(i),
               k.from = "flight", ~Recorded(<<r, k>>)
        PROVE  now < booking[r].departs /\ Cardinality(Unmarked(i, r)) <= RunsLeft(i, r)'
    <3>1. now < booking[r].departs /\ Cardinality(Unmarked(i, r)) <= RunsLeft(i, r)
      BY <2>3 DEF SteadyInv
    <3>2. CASE i # j
      <4>1. job'[i] = job[i]
        BY <1>12, <3>2
      <4>2. RunsLeft(i, r)' = RunsLeft(i, r)
        BY <1>1, <4>1 DEF RunsLeft, InRun
      <4>. QED
        BY <3>1, <4>2
    <3>3. CASE i = j /\ r # c[1]
      <4>1. /\ (\E d \in job'[j].left : d[1] = r) <=> (\E d \in job[j].left : d[1] = r)
            /\ ~ \E x \in job'[j].queue : x[1] = r
        BY <1>4, <1>6, <3>3
      <4>2. InRun(j, r)' <=> InRun(j, r)
        BY <1>1, <1>6, <4>1 DEF InRun
      <4>3. RunsLeft(j, r)' = RunsLeft(j, r)
        BY <1>1, <4>2 DEF RunsLeft
      <4>. QED
        BY <3>1, <3>3, <4>3
    <3>4. CASE i = j /\ r = c[1] /\ tasks # {}
      <4>1. PICK x \in tasks : TRUE
        BY <3>4
      <4>2. x \in job'[j].queue /\ x[1] = r
        BY <1>4, <1>6, <3>4
      <4>3. InRun(j, r)' /\ InRun(j, r)
        BY <1>1, <3>4, <4>2 DEF InRun
      <4>. QED
        BY <1>1, <3>1, <3>4, <4>3 DEF RunsLeft
    <3>5. CASE i = j /\ r = c[1] /\ tasks = {}
      <4>1. c[2] = booking[r].departs
        BY <1>1, <3>5 DEF SteadyInv
      <4>2. Wanted(j, r)
        BY <2>1 DEF Wanted
      <4>3. chosen = {}
        <5>1. \A n \in chosen : <<c[1], c[2], n>> \in tasks
          BY <3>5, <4>2 DEF tasks
        <5>. QED
          BY <3>5, <5>1
      <4>4. DuePlaces(j, r, booking[r].departs, plan) = {}
        BY <3>5, <4>1, <4>3, SomeChosen DEF chosen
      <4>5. k \in AllKinds
        BY <3>5 DEF AllKinds
      <4>6. until[<<r, k>>] = 0
        BY <2>1, <2>3, <4>5
      <4>7. PICK n \in Places(j) : k = Kinds[j][n]
        BY <3>5 DEF KindsOf
      <4>8. ~Due(k, booking[r].departs, plan)
        BY <4>4, <4>6, <4>7 DEF DuePlaces
      <4>9. ~(booking[r].departs - now <= k.at)
        BY <2>3, <4>8 DEF Due
      <4>10. /\ k.at \in Nat /\ Cardinality(Unmarked(j, r)) <= k.at
             /\ Cardinality(Unmarked(j, r)) \in Nat
        BY <2>3, <3>5, FlightKind, UnmarkedCount
      <4>11. now \in Nat /\ booking[r].departs \in Nat
        BY <1>1, <4>1, RunTypes DEF RemindersTypeOK, RemindersAssumption
      <4>12. Cardinality(Unmarked(j, r)) <= booking[r].departs - now - 1
        BY <4>9, <4>10, <4>11
      <4>13. RunsLeft(j, r)' \in {booking[r].departs - now, booking[r].departs - now - 1}
        BY <1>1 DEF RunsLeft
      <4>. QED
        BY <3>1, <3>5, <4>10, <4>11, <4>12, <4>13
    <3>. QED
      BY <3>2, <3>3, <3>4, <3>5
  <2>. QED
    BY <1>1, <1>16, <2>1, <2>2, <2>3 DEF SteadyInv
<1>. QED
  BY <1>9, <1>10, <1>13, <1>14, <1>15, <1>17, <1>18

(* A run has one foremost task.                                            *)
LEMMA OneForemost ==
    ASSUME RemindersTypeOK, RunsOK, NEW j \in Jobs, NEW x, NEW y, Foremost(j, x), Foremost(j, y)
    PROVE  y = x
<1>1. x \in job[j].queue /\ y \in job[j].queue /\ x[3] <= y[3] /\ y[3] <= x[3]
  BY DEF Foremost
<1>2. /\ x = <<x[1], x[2], x[3]>> /\ x[3] \in Nat
      /\ y = <<y[1], y[2], y[3]>> /\ y[3] \in Nat
  BY <1>1, RunTypes
<1>3. y[1] = x[1] /\ y[2] = x[2]
  BY <1>1 DEF RunsOK
<1>4. y[3] = x[3]
  BY <1>1, <1>2
<1>. QED
  BY <1>2, <1>3, <1>4

(* A push that reaches a phone spends one; if it was the last, the mark    *)
(* that is to follow keeps the reminder from being pushed again.           *)
LEMMA PushSteps ==
    ASSUME RemindersAssumption, RemindersInv, NEW j \in Jobs, NEW x \in job[j].queue,
           NEW reached \in BOOLEAN, Push(j, x, reached)
    PROVE  RemindersInv'
<1>. USE DEF RemindersInv
<1>1. /\ UNCHANGED <<now, booking, until, stored, steady, deaths, moves>>
      /\ job[j].phase = "serve" /\ Foremost(j, x)
      /\ job \in [Jobs -> Run] /\ pushed \in [Reminder -> Nat]
      /\ deaths \in Nat /\ moves \in Nat
  BY DEF Push, RemindersTypeOK, RemindersAssumption
<1>. DEFINE m0 == ReminderOf(j, x)
<1>2. /\ m0 \in Reminder /\ m0[1] = x[1] /\ m0[2] \in KindsOf(j)
      /\ \A i \in Jobs : i # j => m0[2] \notin KindsOf(i)
      /\ x[1] \in Reservations /\ x[2] \in Departures
  BY ReminderFacts
<1>3. /\ job' \in [Jobs -> Run]
      /\ \A i \in Jobs : i # j => job'[i] = job[i]
      /\ \A i \in Jobs : job'[i].left = job[i].left /\ job'[i].queue = job[i].queue
      /\ job'[j].phase = "mark" /\ job'[j].pending = job[j].pending \cup {m0}
  <2>. DEFINE run == [job[j] EXCEPT !.phase = "mark", !.pending = @ \cup {m0}]
  <2>. HIDE DEF m0
  <2>1. job[j] \in Run
    BY <1>1
  <2>2. /\ run \in Run /\ run.left = job[j].left /\ run.queue = job[j].queue
        /\ run.phase = "mark" /\ run.pending = job[j].pending \cup {m0}
    BY <1>2, <2>1 DEF Run
  <2>3. job' = [job EXCEPT ![j] = run]
    BY DEF Push, m0
  <2>. HIDE DEF run
  <2>. QED
    BY <1>1, <2>2, <2>3
<1>4. pushed' = pushed \/ pushed' = [pushed EXCEPT ![m0] = @ + 1]
  BY DEF Push
<1>5. \A i, y : ReminderOf(i, y)' = ReminderOf(i, y)
  BY DEF ReminderOf
<1>. HIDE DEF m0
<1>6. /\ pushed' \in [Reminder -> Nat] /\ pushed'[m0] \in {pushed[m0], pushed[m0] + 1}
      /\ \A m \in Reminder : m # m0 => pushed'[m] = pushed[m]
      /\ \A m \in Reminder : pushed[m] \in Nat
  BY <1>1, <1>2, <1>4
<1>7. ASSUME NEW i \in Jobs, i # j
      PROVE  /\ job'[i] = job[i]
             /\ \A y : Marking(i, y)' <=> Marking(i, y)
  BY <1>3, <1>7 DEF Marking, Foremost
<1>8. \A y : Foremost(j, y)' <=> Foremost(j, y)
  BY <1>3 DEF Foremost
<1>9. /\ Marking(j, x)'
      /\ \A y : Marking(j, y)' => y = x
      /\ \A y : ~Marking(j, y)
  BY <1>1, <1>3, <1>8, OneForemost DEF Marking
<1>10. RemindersTypeOK'
  <2>1. \A i \in Jobs : job'[i].phase = "mark" => job'[i].queue # {}
    BY <1>3 DEF RemindersTypeOK
  <2>. QED
    BY <1>1, <1>3, <1>6, <2>1 DEF RemindersTypeOK
<1>11. RunsOK'
  <2>1. ASSUME NEW i \in Jobs
        PROVE  /\ \A c \in job'[i].left :
                     /\ booking'[c[1]].status # "none"
                     /\ \A d \in job'[i].left : d[1] = c[1] => d = c
               /\ \A y \in job'[i].queue :
                     /\ booking'[y[1]].status # "none"
                     /\ y[3] \in Places(i)
                     /\ until'[ReminderOf(i, y)] = 0
                     /\ \A c \in job'[i].left : c[1] # y[1]
                     /\ \A z \in job'[i].queue : z[1] = y[1] /\ z[2] = y[2]
    BY <1>1, <1>3 DEF RunsOK
  <2>2. ASSUME NEW i \in Jobs
        PROVE  job'[i].phase \in {"due", "ran"} =>
                   job'[i].left = {} /\ job'[i].queue = {} /\ job'[i].pending = {}
    BY <1>3 DEF RunsOK
  <2>3. \A m \in job'[j].pending : booking'[m[1]].status # "none"
    BY <1>1, <1>2, <1>3 DEF RunsOK
  <2>4. \A i \in Jobs : \A m \in job'[i].pending : booking'[m[1]].status # "none"
    BY <1>1, <1>7, <2>3 DEF RunsOK
  <2>. QED
    BY <1>5, <2>1, <2>2, <2>4 DEF RunsOK
<1>12. MarkedInv'
  <2>1. \A i \in Jobs : job[i].pending \subseteq job'[i].pending
    BY <1>3
  <2>2. \A m : Recorded(m) => Recorded(m)'
    BY <1>1, <2>1 DEF Recorded
  <2>3. ASSUME NEW i \in Jobs, NEW y \in job'[i].queue, Marking(i, y)'
        PROVE  ReminderOf(i, y) \in job'[i].pending
    <3>1. CASE i = j
      <4>1. ReminderOf(i, y) = m0
        BY <1>9, <2>3, <3>1 DEF m0
      <4>. QED
        BY <1>3, <3>1, <4>1
    <3>2. CASE i # j
      BY <1>7, <2>3, <3>2 DEF MarkedInv
    <3>. QED
      BY <3>1, <3>2
  <2>4. MarkedHasRow'
    <3>1. \A m \in Reminder' : m \in Reminder
      BY DEF Reminder
    <3>. QED
      BY <1>1, <2>2, <3>1 DEF MarkedInv, MarkedHasRow
  <2>. QED
    BY <1>5, <2>3, <2>4 DEF MarkedInv
<1>13. OnceInv'
  <2>1. ASSUME NEW m, Covered(m)
        PROVE  Covered(m)'
    BY <1>1, <1>5, <1>7, <1>9, <2>1 DEF Covered
  <2>2. ASSUME NEW m, NEW i \in Jobs, NEW u, ToPush(i, m, u)'
        PROVE  ToPush(i, m, u)
    BY <1>1, <1>3, <1>5, <1>7, <1>9, <2>2 DEF ToPush
  <2>3. ASSUME NEW m \in Reminder, m # m0
        PROVE  /\ pushed'[m] <= 1 + deaths' + moves'
               /\ pushed'[m] = 1 + deaths' + moves' => Covered(m)'
               /\ \A i \in Jobs, u \in Departures : ToPush(i, m, u)' =>
                     /\ pushed'[m] <= deaths' + moves'
                     /\ u # booking'[m[1]].departs => pushed'[m] < deaths' + moves'
    BY <1>1, <1>6, <2>1, <2>2, <2>3 DEF OnceInv
  <2>4. ToPush(j, m0, x[2])
    BY <1>9 DEF ToPush, m0
  <2>5. /\ pushed[m0] <= deaths + moves
        /\ x[2] # booking[m0[1]].departs => pushed[m0] < deaths + moves
    BY <1>2, <2>4 DEF OnceInv
  <2>6. pushed'[m0] <= 1 + deaths' + moves'
    BY <1>1, <1>2, <1>6, <2>5
  <2>7. ASSUME pushed'[m0] = 1 + deaths' + moves'
        PROVE  Covered(m0)'
    <3>1. x[2] = booking[m0[1]].departs
      BY <1>1, <1>2, <1>6, <2>5, <2>7
    <3>2. x \in job'[j].queue /\ ReminderOf(j, x) = m0
      BY <1>3 DEF m0
    <3>. QED
      BY <1>1, <1>5, <1>9, <3>1, <3>2 DEF Covered
  <2>8. ASSUME NEW i \in Jobs, NEW u, ToPush(i, m0, u)'
        PROVE  FALSE
    <3>1. CASE m0[2] \in KindsOf(i) /\ <<m0[1], u>> \in job'[i].left
      <4>1. i = j /\ <<x[1], u>> \in job[j].left
        BY <1>2, <1>3, <3>1
      <4>. QED
        BY <4>1 DEF RunsOK
    <3>2. ASSUME NEW y \in job[i].queue, ReminderOf(i, y) = m0, ~Marking(i, y)'
          PROVE  FALSE
      <4>1. m0[2] \in KindsOf(i)
        BY <3>2, ReminderFacts
      <4>2. i = j
        BY <1>2, <4>1
      <4>3. y = x
        BY <3>2, <4>2, ReminderFacts DEF m0
      <4>. QED
        BY <1>9, <3>2, <4>2, <4>3
    <3>. QED
      BY <1>3, <1>5, <2>8, <3>1, <3>2 DEF ToPush
  <2>. QED
    BY <2>3, <2>6, <2>7, <2>8 DEF OnceInv
<1>14. UnsoldInv'
  BY <1>1 DEF UnsoldInv
<1>15. SteadyInv'
  <2>1. ASSUME NEW i \in Jobs, NEW r
        PROVE  Unmarked(i, r)' = Unmarked(i, r) /\ RunsLeft(i, r)' = RunsLeft(i, r)
    <3>1. InRun(i, r)' <=> InRun(i, r)
      BY <1>1, <1>3, <1>7 DEF InRun
    <3>. QED
      BY <1>1, <3>1 DEF Unmarked, RunsLeft
  <2>2. \A m : Recorded(m) => Recorded(m)'
    BY <1>1, <1>3, <1>7 DEF Recorded
  <2>. QED
    BY <1>1, <1>3, <2>1, <2>2 DEF SteadyInv
<1>16. AheadInv'
  <2>1. \A r : Holds(j, r)' => Holds(j, r)
    BY <1>2, <1>3 DEF Holds
  <2>2. \A r, i : i \in Jobs /\ i # j => (Holds(i, r)' <=> Holds(i, r))
    BY <1>7 DEF Holds
  <2>. QED
    BY <1>1, <2>1, <2>2 DEF AheadInv
<1>. QED
  BY <1>10, <1>11, <1>12, <1>13, <1>14, <1>15, <1>16

(* A mark lasts until the departure that was loaded, and takes one from    *)
(* what may go first.                                                      *)
LEMMA MarkSteps ==
    ASSUME RemindersAssumption, RemindersInv, NEW j \in Jobs, NEW x \in job[j].queue, Mark(j, x)
    PROVE  RemindersInv'
<1>. USE DEF RemindersInv
<1>1. /\ UNCHANGED <<now, booking, pushed, stored, steady, deaths, moves>>
      /\ job[j].phase = "mark" /\ Foremost(j, x)
      /\ job \in [Jobs -> Run] /\ until \in [Reminder -> Nat] /\ now \in Nat
  BY DEF Mark, RemindersTypeOK
<1>. DEFINE m0 == ReminderOf(j, x)
<1>. DEFINE lapse == IF x[2] > now + MinTtl THEN x[2] ELSE now + MinTtl
<1>2. /\ m0 \in Reminder /\ m0[1] = x[1] /\ m0[2] = Kinds[j][x[3]] /\ m0[2] \in KindsOf(j)
      /\ \A i \in Jobs : i # j => m0[2] \notin KindsOf(i)
      /\ \A y \in job[j].queue : ReminderOf(j, y) = m0 => y = x
      /\ x[1] \in Reservations /\ x[2] \in Departures
  BY ReminderFacts
<1>3. until[m0] = 0 /\ booking[x[1]].status # "none" /\ x[3] \in Places(j)
  BY DEF RunsOK
<1>4. lapse \in Nat /\ lapse > now /\ lapse >= x[2] /\ lapse # 0
  <2>1. x[2] \in Nat /\ now \in Nat /\ MinTtl \in Nat \ {0}
    BY <1>1, <1>2 DEF RemindersAssumption
  <2>. HIDE DEF m0
  <2>2. CASE x[2] > now + MinTtl
    BY <2>1, <2>2
  <2>3. CASE ~(x[2] > now + MinTtl)
    BY <2>1, <2>3
  <2>. QED
    BY <2>2, <2>3
<1>5. until' = [until EXCEPT ![m0] = lapse]
  BY DEF Mark
<1>6. /\ job' \in [Jobs -> Run]
      /\ \A i \in Jobs : i # j => job'[i] = job[i]
      /\ \A i \in Jobs : job'[i].left = job[i].left /\ job'[i].pending = job[i].pending
      /\ job'[j].phase = "serve" /\ job'[j].queue = job[j].queue \ {x}
  <2>. DEFINE run == [job[j] EXCEPT !.phase = "serve", !.queue = @ \ {x}]
  <2>1. job[j] \in Run
    BY <1>1
  <2>2. /\ run \in Run /\ run.left = job[j].left /\ run.pending = job[j].pending
        /\ run.phase = "serve" /\ run.queue = job[j].queue \ {x}
    BY <2>1 DEF Run
  <2>3. job' = [job EXCEPT ![j] = run]
    BY DEF Mark
  <2>. HIDE DEF run
  <2>. QED
    BY <1>1, <2>2, <2>3
<1>7. \A i, y : ReminderOf(i, y)' = ReminderOf(i, y)
  BY DEF ReminderOf
<1>. HIDE DEF m0, lapse
<1>8. /\ until' \in [Reminder -> Nat] /\ until'[m0] = lapse
      /\ \A m \in Reminder : m # m0 => until'[m] = until[m]
  BY <1>1, <1>2, <1>4, <1>5
<1>9. ASSUME NEW i \in Jobs, i # j
      PROVE  /\ job'[i] = job[i]
             /\ \A y : Marking(i, y)' <=> Marking(i, y)
             /\ \A y \in job[i].queue : ReminderOf(i, y) \in Reminder /\ ReminderOf(i, y) # m0
  BY <1>2, <1>6, <1>9, ReminderFacts DEF Marking, Foremost
<1>10. /\ Marking(j, x)
       /\ \A y : Marking(j, y) => y = x
       /\ \A y : ~Marking(j, y)'
  BY <1>1, <1>6, OneForemost DEF Marking
<1>11. RemindersTypeOK'
  <2>1. \A i \in Jobs : job'[i].phase = "mark" => job'[i].queue # {}
    BY <1>6 DEF RemindersTypeOK
  <2>2. \A m \in Reminder : until'[m] # 0 => until'[m] > now
    BY <1>4, <1>8 DEF RemindersTypeOK
  <2>. QED
    BY <1>1, <1>6, <1>8, <2>1, <2>2 DEF RemindersTypeOK
<1>12. RunsOK'
  <2>1. ASSUME NEW i \in Jobs
        PROVE  /\ job'[i].phase \in {"due", "ran"} =>
                     job'[i].left = {} /\ job'[i].queue = {} /\ job'[i].pending = {}
               /\ \A c \in job'[i].left :
                     /\ booking'[c[1]].status # "none"
                     /\ \A d \in job'[i].left : d[1] = c[1] => d = c
               /\ \A m \in job'[i].pending : booking'[m[1]].status # "none"
    BY <1>1, <1>6 DEF RunsOK
  <2>2. ASSUME NEW i \in Jobs
        PROVE  \A y \in job'[i].queue :
                     /\ booking'[y[1]].status # "none"
                     /\ y[3] \in Places(i)
                     /\ \A c \in job'[i].left : c[1] # y[1]
                     /\ \A z \in job'[i].queue : z[1] = y[1] /\ z[2] = y[2]
    <3>1. job'[i].queue \subseteq job[i].queue
      BY <1>6
    <3>. QED
      BY <1>1, <1>6, <3>1 DEF RunsOK
  <2>3. ASSUME NEW i \in Jobs, NEW y \in job'[i].queue
        PROVE  until'[ReminderOf(i, y)] = 0
    <3>1. y \in job[i].queue /\ ReminderOf(i, y) # m0
      BY <1>2, <1>6, <1>9, <2>3
    <3>2. until[ReminderOf(i, y)] = 0 /\ ReminderOf(i, y) \in Reminder
      BY <3>1, ReminderFacts DEF RunsOK
    <3>. QED
      BY <1>8, <3>1, <3>2
  <2>. QED
    BY <1>7, <2>1, <2>2, <2>3 DEF RunsOK
<1>13. Recorded(m0)' /\ \A m : Recorded(m)' <=> Recorded(m)
  <2>1. m0 \in job[j].pending
    BY <1>10 DEF MarkedInv, m0
  <2>. QED
    BY <1>1, <1>6, <2>1 DEF Recorded
<1>14. MarkedInv'
  <2>1. \A m \in Reminder : until'[m] # 0 /\ m # m0 => until[m] # 0
    BY <1>8
  <2>2. MarkedHasRow'
    BY <1>1, <1>13, <2>1 DEF MarkedInv, MarkedHasRow
  <2>3. ASSUME NEW i \in Jobs, NEW y \in job'[i].queue, Marking(i, y)'
        PROVE  ReminderOf(i, y) \in job'[i].pending
    <3>1. i # j
      BY <1>10, <2>3
    <3>. QED
      BY <1>9, <2>3, <3>1 DEF MarkedInv
  <2>. QED
    BY <1>7, <2>2, <2>3 DEF MarkedInv
<1>15. OnceInv'
  <2>1. ASSUME NEW m \in Reminder, Covered(m)
        PROVE  Covered(m)'
    <3>1. booking[m[1]].departs \in Nat \ {0}
      BY RunTypes DEF RemindersAssumption
    <3>2. CASE booking[m[1]].departs <= now
      BY <1>1, <3>2 DEF Covered
    <3>3. CASE booking[m[1]].departs <= until[m]
      <4>1. m # m0
        BY <1>3, <3>1, <3>3
      <4>. QED
        BY <1>1, <1>8, <3>3, <4>1 DEF Covered
    <3>4. ASSUME NEW i \in Jobs, NEW y \in job[i].queue, Marking(i, y), ReminderOf(i, y) = m,
                 y[2] = booking[m[1]].departs
          PROVE  Covered(m)'
      <4>1. CASE i = j
        <5>1. y = x
          BY <1>10, <3>4, <4>1
        <5>2. m = m0 /\ x[2] = booking[m[1]].departs
          BY <3>4, <4>1, <5>1 DEF m0
        <5>3. booking[m[1]].departs <= until'[m]
          BY <1>2, <1>4, <1>8, <3>1, <5>2
        <5>. QED
          BY <1>1, <5>3 DEF Covered
      <4>2. CASE i # j
        BY <1>1, <1>7, <1>9, <3>4, <4>2 DEF Covered
      <4>. QED
        BY <4>1, <4>2
    <3>. QED
      BY <2>1, <3>2, <3>3, <3>4 DEF Covered
  <2>2. ASSUME NEW m \in Reminder, NEW i \in Jobs, NEW u, ToPush(i, m, u)'
        PROVE  ToPush(i, m, u)
    <3>1. CASE m[2] \in KindsOf(i) /\ <<m[1], u>> \in job'[i].left /\ until'[m] = 0
      <4>1. m # m0
        BY <1>4, <1>8, <3>1
      <4>. QED
        BY <1>6, <1>8, <3>1, <4>1 DEF ToPush
    <3>2. ASSUME NEW y \in job'[i].queue, ReminderOf(i, y) = m, y[2] = u, ~Marking(i, y)'
          PROVE  ToPush(i, m, u)
      <4>1. y \in job[i].queue /\ ~Marking(i, y)
        BY <1>6, <1>9, <1>10, <3>2
      <4>. QED
        BY <3>2, <4>1 DEF ToPush
    <3>. QED
      BY <1>7, <2>2, <3>1, <3>2 DEF ToPush
  <2>. QED
    BY <1>1, <2>1, <2>2 DEF OnceInv
<1>16. UnsoldInv'
  <2>1. ASSUME NEW r \in Reservations, booking[r].status = "none", NEW k \in AllKinds
        PROVE  until'[<<r, k>>] = 0
    <3>1. <<r, k>> \in Reminder /\ until[<<r, k>>] = 0
      BY <2>1 DEF UnsoldInv, Reminder
    <3>2. <<r, k>> # m0
      BY <1>2, <1>3, <2>1
    <3>. QED
      BY <1>8, <3>1, <3>2
  <2>. QED
    BY <1>1, <2>1 DEF UnsoldInv
<1>17. SteadyInv'
  <2>1. \A r \in steady : r \in Reservations
    BY DEF RemindersTypeOK
  <2>2. ASSUME NEW r \in steady, NEW k \in AllKinds
        PROVE  until'[<<r, k>>] = 0 \/ booking[r].departs <= until'[<<r, k>>]
    <3>1. <<r, k>> \in Reminder
      BY <2>1 DEF Reminder
    <3>2. CASE <<r, k>> # m0
      BY <1>8, <3>1, <3>2 DEF SteadyInv
    <3>3. CASE <<r, k>> = m0
      <4>1. x[1] = r
        BY <1>2, <3>3
      <4>2. x[2] = booking[r].departs
        BY <4>1 DEF SteadyInv
      <4>. QED
        BY <1>4, <1>8, <3>3, <4>2
    <3>. QED
      BY <3>2, <3>3
  <2>3. ASSUME NEW r \in steady, NEW i \in Jobs
        PROVE  /\ \A c \in job'[i].left : c[1] = r => c[2] = booking[r].departs
               /\ \A y \in job'[i].queue : y[1] = r => y[2] = booking[r].departs
    <3>1. job'[i].queue \subseteq job[i].queue
      BY <1>6
    <3>. QED
      BY <1>6, <3>1 DEF SteadyInv
  <2>4. ASSUME NEW r \in steady, NEW i \in Jobs, i # j \/ r # x[1]
        PROVE  Unmarked(i, r)' = Unmarked(i, r) /\ RunsLeft(i, r)' = RunsLeft(i, r)
    <3>1. ASSUME NEW n \in Places(i)
          PROVE  until'[<<r, Kinds[i][n]>>] = until[<<r, Kinds[i][n]>>]
      <4>1. Kinds[i][n] \in KindsOf(i)
        BY DEF KindsOf
      <4>2. <<r, Kinds[i][n]>> \in Reminder
        BY <2>1, <4>1 DEF Reminder, AllKinds
      <4>3. <<r, Kinds[i][n]>> # m0
        BY <1>2, <2>4, <4>1
      <4>. QED
        BY <1>8, <4>2, <4>3
    <3>2. Unmarked(i, r)' = Unmarked(i, r)
      BY <3>1 DEF Unmarked
    <3>3. CASE i # j
      <4>1. job'[i] = job[i]
        BY <1>9, <3>3
      <4>. QED
        BY <1>1, <3>2, <4>1 DEF RunsLeft, InRun
    <3>4. CASE i = j /\ r # x[1]
      <4>1. \A y \in job[j].queue : y[1] = x[1]
        BY DEF RunsOK
      <4>2. InRun(j, r)' <=> InRun(j, r)
        BY <1>1, <1>6, <3>4, <4>1 DEF InRun
      <4>. QED
        BY <1>1, <3>2, <3>4, <4>2 DEF RunsLeft
    <3>. QED
      BY <2>4, <3>3, <3>4
  <2>5. ASSUME x[1] \in steady, Cardinality(Unmarked(j, x[1])) <= RunsLeft(j, x[1])
        PROVE  Cardinality(Unmarked(j, x[1])') <= RunsLeft(j, x[1])'
    <3>1. Unmarked(j, x[1])' = Unmarked(j, x[1]) \ {x[3]}
      <4>1. until'[<<x[1], Kinds[j][x[3]]>>] # 0
        BY <1>4, <1>8 DEF m0, ReminderOf
      <4>2. ASSUME NEW n \in Places(j), n # x[3]
            PROVE  until'[<<x[1], Kinds[j][n]>>] = until[<<x[1], Kinds[j][n]>>]
        <5>1. Kinds[j][n] # Kinds[j][x[3]]
          BY <1>3, <4>2 DEF RemindersAssumption
        <5>2. <<x[1], Kinds[j][n]>> \in Reminder
          BY <1>2 DEF Reminder, AllKinds, KindsOf
        <5>3. <<x[1], Kinds[j][n]>> # m0
          BY <1>2, <5>1
        <5>. QED
          BY <1>8, <5>2, <5>3
      <4>. QED
        BY <4>1, <4>2 DEF Unmarked
    <3>2. x[3] \in Unmarked(j, x[1])
      BY <1>3 DEF Unmarked, ReminderOf, m0
    <3>3. /\ Cardinality(Unmarked(j, x[1])') = Cardinality(Unmarked(j, x[1])) - 1
          /\ Cardinality(Unmarked(j, x[1])) \in Nat
      <4>1. IsFiniteSet(Unmarked(j, x[1])) /\ Cardinality(Unmarked(j, x[1])) \in Nat
        BY UnmarkedCount
      <4>2. PICK S : S = Unmarked(j, x[1])
        OBVIOUS
      <4>3. PICK n : n = x[3]
        OBVIOUS
      <4>4. Cardinality(S \ {n}) = Cardinality(S) - 1
        <5>1. IsFiniteSet(S) /\ n \in S
          BY <3>2, <4>1, <4>2, <4>3, Zenon
        <5>. QED
          BY <5>1, FS_RemoveElement
      <4>5. Unmarked(j, x[1])' = S \ {n}
        BY <3>1, <4>2, <4>3, Zenon
      <4>. QED
        BY <4>1, <4>2, <4>4, <4>5, Zenon
    <3>4. now \in Nat /\ booking[x[1]].departs \in Nat
      BY <1>1, <1>2, RunTypes DEF RemindersAssumption
    <3>5. RunsLeft(j, x[1]) = booking[x[1]].departs - now
      BY DEF RunsLeft, InRun
    <3>6. RunsLeft(j, x[1])' \in {booking[x[1]].departs - now, booking[x[1]].departs - now - 1}
      BY <1>1 DEF RunsLeft
    <3>. QED
      BY <2>5, <3>3, <3>4, <3>5, <3>6
  <2>6. ASSUME NEW r \in steady, NEW i \in Jobs, NEW k \in KindsOf(i),
               k.from = "flight", ~Recorded(<<r, k>>)
        PROVE  /\ now < booking[r].departs
               /\ Cardinality(Unmarked(i, r)') <= RunsLeft(i, r)'
    <3>1. now < booking[r].departs /\ Cardinality(Unmarked(i, r)) <= RunsLeft(i, r)
      BY <2>6 DEF SteadyInv
    <3>2. CASE i # j \/ r # x[1]
      BY <2>4, <3>1, <3>2
    <3>3. CASE i = j /\ r = x[1]
      BY <2>5, <3>1, <3>3
    <3>. QED
      BY <3>2, <3>3
  <2>7. \A r \in steady : booking[r].status = "booked" /\ booking[r].notify /\ booking[r].todos = "open"
    BY DEF SteadyInv
  <2>8. ASSUME NEW r \in steady, NEW k \in AllKinds, until'[<<r, k>>] # 0
        PROVE  Recorded(<<r, k>>)'
    <3>1. <<r, k>> \in Reminder
      BY <2>1 DEF Reminder
    <3>. QED
      BY <1>8, <1>13, <2>8, <3>1 DEF SteadyInv
  <2>. QED
    BY <1>1, <1>13, <2>2, <2>3, <2>6, <2>7, <2>8 DEF SteadyInv
<1>18. AheadInv'
  <2>1. \A r : Holds(j, r)' => Holds(j, r)
    BY <1>6 DEF Holds
  <2>2. \A r, i : i \in Jobs /\ i # j => (Holds(i, r)' <=> Holds(i, r))
    BY <1>9 DEF Holds
  <2>. QED
    BY <1>1, <2>1, <2>2 DEF AheadInv
<1>. QED
  BY <1>11, <1>12, <1>14, <1>15, <1>16, <1>17, <1>18

-----------------------------------------------------------------------------
(* The end of a run.                                                       *)

(* The rows are committed when nothing is left to serve.                   *)
LEMMA CommitSteps ==
    ASSUME RemindersAssumption, RemindersInv, NEW j \in Jobs, Commit(j)
    PROVE  RemindersInv'
<1>. USE DEF RemindersInv
<1>1. /\ UNCHANGED <<now, booking, until, pushed, steady, deaths, moves>>
      /\ stored' = stored \cup job[j].pending
      /\ job[j].phase = "serve" /\ job[j].left = {} /\ job[j].queue = {}
      /\ job \in [Jobs -> Run]
  BY DEF Commit, Served, RemindersTypeOK
<1>2. NoRun("ran") \in Run
  BY DEF NoRun, Run
<1>3. /\ job' \in [Jobs -> Run] /\ job'[j] = NoRun("ran")
      /\ \A i \in Jobs : i # j => job'[i] = job[i]
  BY <1>1, <1>2 DEF Commit
<1>4. /\ job'[j].phase = "ran" /\ job'[j].pending = {}
      /\ job'[j].left = {} /\ job'[j].queue = {}
  BY <1>3 DEF NoRun
<1>5. \A i, x : ReminderOf(i, x)' = ReminderOf(i, x)
  BY DEF ReminderOf
<1>6. \A i \in Jobs : \A x : Marking(i, x)' <=> Marking(i, x)
  <2>1. \A x : ~Marking(j, x) /\ ~Marking(j, x)'
    BY <1>1, <1>4 DEF Marking
  <2>2. ASSUME NEW i \in Jobs, i # j
        PROVE  \A x : Marking(i, x)' <=> Marking(i, x)
    BY <1>3, <2>2 DEF Marking, Foremost
  <2>. QED
    BY <2>1, <2>2
<1>7. \A i \in Jobs : job'[i].left = job[i].left /\ job'[i].queue = job[i].queue
  BY <1>1, <1>3, <1>4
<1>8. RemindersTypeOK'
  <2>1. \A i \in Jobs : job'[i].phase = "mark" => job'[i].queue # {}
    BY <1>3, <1>4 DEF RemindersTypeOK
  <2>2. \A m \in job[j].pending : m \in Reminder /\ booking[m[1]].status # "none"
    BY RunTypes DEF RunsOK
  <2>3. stored' \subseteq {m \in Reminder : booking'[m[1]].status # "none"}
    BY <1>1, <2>2 DEF RemindersTypeOK
  <2>. QED
    BY <1>1, <1>3, <2>1, <2>3 DEF RemindersTypeOK
<1>9. RunsOK'
  <2>1. ASSUME NEW i \in Jobs, i # j
        PROVE  /\ job'[i].phase \in {"due", "ran"} =>
                     job'[i].left = {} /\ job'[i].queue = {} /\ job'[i].pending = {}
               /\ \A c \in job'[i].left :
                     /\ booking'[c[1]].status # "none"
                     /\ \A d \in job'[i].left : d[1] = c[1] => d = c
               /\ \A x \in job'[i].queue :
                     /\ booking'[x[1]].status # "none"
                     /\ x[3] \in Places(i)
                     /\ until'[ReminderOf(i, x)] = 0
                     /\ \A c \in job'[i].left : c[1] # x[1]
                     /\ \A y \in job'[i].queue : y[1] = x[1] /\ y[2] = x[2]
               /\ \A m \in job'[i].pending : booking'[m[1]].status # "none"
    <3>1. job'[i] = job[i]
      BY <1>3, <2>1
    <3>. QED
      BY <1>1, <3>1 DEF RunsOK
  <2>. QED
    BY <1>4, <1>5, <2>1 DEF RunsOK
<1>10. \A m : Recorded(m)' <=> Recorded(m)
  <2>1. ASSUME NEW m, m \in stored'
        PROVE  Recorded(m)
    BY <1>1, <2>1 DEF Recorded
  <2>2. ASSUME NEW m, NEW i \in Jobs
        PROVE  /\ m \in job'[i].pending => m \in job[i].pending
               /\ m \in job[i].pending => m \in stored' \/ m \in job'[i].pending
    BY <1>1, <1>3, <1>4
  <2>3. stored \subseteq stored'
    BY <1>1
  <2>. QED
    BY <2>1, <2>2, <2>3 DEF Recorded
<1>11. MarkedInv'
  <2>1. \A i \in Jobs : i # j => job'[i].pending = job[i].pending
    BY <1>3
  <2>2. MarkedHasRow'
    BY <1>1, <1>10 DEF MarkedInv, MarkedHasRow
  <2>3. ASSUME NEW i \in Jobs, NEW x \in job'[i].queue, Marking(i, x)'
        PROVE  ReminderOf(i, x) \in job'[i].pending
    <3>1. i # j
      BY <1>4, <2>3
    <3>. QED
      BY <1>1, <1>6, <1>7, <2>1, <2>3, <3>1 DEF MarkedInv
  <2>. QED
    BY <1>5, <2>2, <2>3 DEF MarkedInv
<1>12. OnceInv'
  <2>1. \A m : Covered(m)' <=> Covered(m)
    BY <1>1, <1>5, <1>6, <1>7 DEF Covered
  <2>2. \A m, u : \A i \in Jobs : ToPush(i, m, u)' <=> ToPush(i, m, u)
    BY <1>1, <1>5, <1>6, <1>7 DEF ToPush
  <2>. QED
    BY <1>1, <2>1, <2>2 DEF OnceInv
<1>13. UnsoldInv'
  BY <1>1 DEF UnsoldInv
<1>14. SteadyInv'
  <2>1. ASSUME NEW i \in Jobs, NEW r
        PROVE  Unmarked(i, r)' = Unmarked(i, r) /\ RunsLeft(i, r)' = RunsLeft(i, r)
    <3>1. job'[i].phase = "due" <=> job[i].phase = "due"
      BY <1>1, <1>3, <1>4
    <3>2. InRun(i, r)' <=> InRun(i, r)
      BY <1>7, <3>1 DEF InRun
    <3>. QED
      BY <1>1, <3>2 DEF Unmarked, RunsLeft
  <2>. QED
    BY <1>1, <1>7, <1>10, <2>1 DEF SteadyInv
<1>15. AheadInv'
  <2>1. \A i \in Jobs : job'[i].pending \subseteq job[i].pending
    BY <1>3, <1>4
  <2>2. \A r : \A i \in Jobs : Holds(i, r)' => Holds(i, r)
    BY <1>7, <2>1 DEF Holds
  <2>. QED
    BY <1>1, <2>2 DEF AheadInv
<1>. QED
  BY <1>8, <1>9, <1>11, <1>12, <1>13, <1>14, <1>15

(* A run that dies leaves nothing behind, and allows every reminder to be  *)
(* pushed once more.                                                       *)
LEMMA DieSteps ==
    ASSUME RemindersAssumption, RemindersInv, NEW j \in Jobs, Die(j)
    PROVE  RemindersInv'
<1>. USE DEF RemindersInv
<1>1. /\ UNCHANGED <<now, booking, until, pushed, stored, moves>>
      /\ steady' = {} /\ deaths' = deaths + 1
      /\ deaths \in Nat /\ moves \in Nat /\ deaths' \in 0..MaxDeaths
      /\ job \in [Jobs -> Run] /\ pushed \in [Reminder -> Nat]
  BY DEF Die, sent, RemindersTypeOK, RemindersAssumption
<1>2. NoRun("ran") \in Run
  BY DEF NoRun, Run
<1>3. /\ job' \in [Jobs -> Run] /\ job'[j] = NoRun("ran")
      /\ \A i \in Jobs : i # j => job'[i] = job[i]
  BY <1>1, <1>2 DEF Die
<1>4. /\ job'[j].phase = "ran" /\ job'[j].pending = {}
      /\ job'[j].left = {} /\ job'[j].queue = {}
  BY <1>3 DEF NoRun
<1>5. \A i, x : ReminderOf(i, x)' = ReminderOf(i, x)
  BY DEF ReminderOf
<1>6. ASSUME NEW i \in Jobs, i # j
      PROVE  \A x : Marking(i, x)' <=> Marking(i, x)
  BY <1>3, <1>6 DEF Marking, Foremost
<1>7. RemindersTypeOK'
  <2>1. \A i \in Jobs : job'[i].phase = "mark" => job'[i].queue # {}
    BY <1>3, <1>4 DEF RemindersTypeOK
  <2>. QED
    BY <1>1, <1>3, <2>1 DEF RemindersTypeOK
<1>8. RunsOK'
  <2>1. ASSUME NEW i \in Jobs, i # j
        PROVE  /\ job'[i].phase \in {"due", "ran"} =>
                     job'[i].left = {} /\ job'[i].queue = {} /\ job'[i].pending = {}
               /\ \A c \in job'[i].left :
                     /\ booking'[c[1]].status # "none"
                     /\ \A d \in job'[i].left : d[1] = c[1] => d = c
               /\ \A x \in job'[i].queue :
                     /\ booking'[x[1]].status # "none"
                     /\ x[3] \in Places(i)
                     /\ until'[ReminderOf(i, x)] = 0
                     /\ \A c \in job'[i].left : c[1] # x[1]
                     /\ \A y \in job'[i].queue : y[1] = x[1] /\ y[2] = x[2]
               /\ \A m \in job'[i].pending : booking'[m[1]].status # "none"
    <3>1. job'[i] = job[i]
      BY <1>3, <2>1
    <3>. QED
      BY <1>1, <3>1 DEF RunsOK
  <2>. QED
    BY <1>4, <1>5, <2>1 DEF RunsOK
<1>9. MarkedInv'
  <2>1. MarkedHasRow'
    BY <1>1 DEF MarkedHasRow
  <2>2. ASSUME NEW i \in Jobs, NEW x \in job'[i].queue, Marking(i, x)'
        PROVE  ReminderOf(i, x) \in job'[i].pending
    <3>1. i # j
      BY <1>4, <2>2
    <3>2. job'[i] = job[i]
      BY <1>3, <3>1
    <3>. QED
      BY <1>1, <1>6, <2>2, <3>1, <3>2 DEF MarkedInv
  <2>. QED
    BY <1>5, <2>1, <2>2 DEF MarkedInv
<1>10. OnceInv'
  <2>1. ASSUME NEW m \in Reminder
        PROVE  pushed'[m] < 1 + deaths' + moves'
    <3>1. pushed[m] <= 1 + deaths + moves /\ pushed[m] \in Nat
      BY <1>1 DEF OnceInv
    <3>. QED
      BY <1>1, <3>1
  <2>2. ASSUME NEW m \in Reminder, NEW i \in Jobs, NEW u \in Departures, ToPush(i, m, u)'
        PROVE  pushed'[m] < deaths' + moves'
    <3>1. i # j
      BY <1>4, <2>2 DEF ToPush
    <3>2. job'[i] = job[i]
      BY <1>3, <3>1
    <3>3. ToPush(i, m, u)
      BY <1>1, <1>5, <1>6, <2>2, <3>1, <3>2 DEF ToPush
    <3>4. pushed[m] <= deaths + moves /\ pushed[m] \in Nat
      BY <1>1, <3>3 DEF OnceInv
    <3>. QED
      BY <1>1, <3>4
  <2>3. \A m \in Reminder : pushed'[m] \in Nat /\ deaths' \in Nat /\ moves' \in Nat
    BY <1>1
  <2>. QED
    BY <2>1, <2>2, <2>3 DEF OnceInv
<1>11. UnsoldInv'
  BY <1>1 DEF UnsoldInv
<1>12. AheadInv' /\ SteadyInv'
  BY <1>1 DEF AheadInv, SteadyInv
<1>. QED
  BY <1>7, <1>8, <1>9, <1>10, <1>11, <1>12

(* A period ends: a mark lapses when its flight has left, and who goes on  *)
(* being steady has one run less before departure.                         *)
LEMMA TickSteps ==
    ASSUME RemindersAssumption, RemindersInv, Tick
    PROVE  RemindersInv'
<1>. USE DEF RemindersInv
<1>1. /\ UNCHANGED <<booking, pushed, stored, deaths, moves>>
      /\ now \in Nat /\ now' = now + 1
      /\ until \in [Reminder -> Nat] /\ until' \in [Reminder -> Nat]
      /\ \A m \in Reminder : until'[m] = IF until[m] <= now' THEN 0 ELSE until[m]
      /\ \A m \in Reminder : until[m] \in Nat
  BY DEF Tick, RemindersTypeOK
<1>2. \A j \in Jobs : /\ job[j].phase \in {"due", "ran"}
                      /\ job[j].left = {} /\ job[j].queue = {} /\ job[j].pending = {}
  BY DEF Tick, RunsOK
<1>3. NoRun("due") \in Run
  BY DEF NoRun, Run
<1>4. /\ job' \in [Jobs -> Run]
      /\ \A j \in Jobs : /\ job'[j].phase = "due" /\ job'[j].pending = {}
                         /\ job'[j].left = {} /\ job'[j].queue = {}
  BY <1>3 DEF Tick, NoRun
<1>5. steady' \subseteq steady
  BY DEF Tick
<1>6. RemindersTypeOK'
  <2>1. \A m \in Reminder : until'[m] # 0 => until'[m] > now'
    BY <1>1
  <2>2. now' \in Nat
    BY <1>1
  <2>. QED
    BY <1>1, <1>4, <1>5, <2>1, <2>2 DEF RemindersTypeOK
<1>7. RunsOK'
  BY <1>4 DEF RunsOK
<1>8. \A m : Recorded(m)' <=> Recorded(m)
  BY <1>1, <1>2, <1>4 DEF Recorded
<1>9. MarkedInv'
  <2>1. \A m \in Reminder : until'[m] # 0 => until[m] # 0
    BY <1>1
  <2>. QED
    BY <1>1, <1>4, <1>8, <2>1 DEF MarkedInv, MarkedHasRow
<1>10. OnceInv'
  <2>1. ASSUME NEW m \in Reminder, Covered(m)
        PROVE  Covered(m)'
    <3>1. booking[m[1]].departs \in Nat
      BY RunTypes DEF RemindersAssumption
    <3>2. booking[m[1]].departs <= until[m] \/ booking[m[1]].departs <= now
      BY <1>2, <2>1 DEF Covered
    <3>3. booking[m[1]].departs <= until'[m] \/ booking[m[1]].departs <= now'
      BY <1>1, <3>1, <3>2
    <3>. QED
      BY <1>1, <3>3 DEF Covered
  <2>2. \A m, u : \A j \in Jobs : ~ToPush(j, m, u)'
    BY <1>4 DEF ToPush
  <2>. QED
    BY <1>1, <2>1, <2>2 DEF OnceInv
<1>11. UnsoldInv'
  <2>1. ASSUME NEW r \in Reservations, booking[r].status = "none", NEW k \in AllKinds
        PROVE  until'[<<r, k>>] = 0
    <3>1. <<r, k>> \in Reminder /\ until[<<r, k>>] = 0
      BY <2>1 DEF UnsoldInv, Reminder
    <3>. QED
      BY <1>1, <3>1
  <2>. QED
    BY <1>1, <2>1 DEF UnsoldInv
<1>12. SteadyInv'
  <2>1. ASSUME NEW r \in steady'
        PROVE  /\ r \in steady /\ r \in Reservations
               /\ \A j \in Jobs : job[j].phase = "ran"
               /\ booking[r].departs \in Nat
    <3>1. r \in steady /\ \A j \in Jobs : job[j].phase = "ran"
      BY <2>1 DEF Tick
    <3>. QED
      BY <3>1, RunTypes DEF RemindersTypeOK, RemindersAssumption
  <2>2. ASSUME NEW r \in steady', NEW k \in AllKinds
        PROVE  /\ <<r, k>> \in Reminder
               /\ until[<<r, k>>] = 0 \/ booking[r].departs <= until[<<r, k>>]
               /\ until[<<r, k>>] # 0 => Recorded(<<r, k>>)
    BY <2>1 DEF SteadyInv, Reminder
  <2>3. ASSUME NEW r \in steady', NEW k \in AllKinds
        PROVE  /\ until'[<<r, k>>] = 0 \/ booking'[r].departs <= until'[<<r, k>>]
               /\ until'[<<r, k>>] # 0 => Recorded(<<r, k>>)'
    BY <1>1, <1>8, <2>2
  <2>4. ASSUME NEW r \in steady', NEW j \in Jobs, NEW k \in KindsOf(j),
               k.from = "flight", ~Recorded(<<r, k>>)'
        PROVE  /\ now' < booking'[r].departs
               /\ Cardinality(Unmarked(j, r)') <= RunsLeft(j, r)'
    <3>1. Cardinality(Unmarked(j, r)) <= RunsLeft(j, r)
      BY <1>8, <2>1, <2>4 DEF SteadyInv
    <3>2. RunsLeft(j, r) = booking[r].departs - now - 1
      BY <1>2, <2>1 DEF RunsLeft, InRun
    <3>3. /\ IsFiniteSet(Unmarked(j, r)) /\ Cardinality(Unmarked(j, r)) \in Nat
      BY UnmarkedCount
    <3>4. PICK n \in Places(j) : k = Kinds[j][n]
      BY DEF KindsOf
    <3>5. until[<<r, k>>] = 0
      BY <1>8, <2>2, <2>4 DEF AllKinds
    <3>6. n \in Unmarked(j, r)
      BY <3>4, <3>5 DEF Unmarked
    <3>7. Cardinality(Unmarked(j, r)) # 0
      BY <3>3, <3>6, FS_EmptySet
    <3>8. now' < booking[r].departs
      BY <1>1, <2>1, <3>1, <3>2, <3>3, <3>7
    <3>9. ASSUME NEW i \in Places(j)
          PROVE  until'[<<r, Kinds[j][i]>>] = until[<<r, Kinds[j][i]>>]
      <4>1. Kinds[j][i] \in AllKinds
        BY DEF AllKinds, KindsOf
      <4>2. /\ <<r, Kinds[j][i]>> \in Reminder
            /\ until[<<r, Kinds[j][i]>>] = 0 \/ booking[r].departs <= until[<<r, Kinds[j][i]>>]
        BY <2>2, <4>1
      <4>. QED
        BY <1>1, <2>1, <3>8, <4>2
    <3>10. Unmarked(j, r)' = Unmarked(j, r)
      BY <3>9 DEF Unmarked
    <3>11. RunsLeft(j, r)' = booking[r].departs - now'
      BY <1>1, <1>4 DEF RunsLeft, InRun
    <3>. QED
      BY <1>1, <2>1, <3>1, <3>2, <3>8, <3>10, <3>11
  <2>5. \A r \in steady' : /\ booking'[r].status = "booked"
                           /\ booking'[r].notify /\ booking'[r].todos = "open"
    BY <1>1, <2>1 DEF SteadyInv
  <2>. QED
    BY <1>4, <2>3, <2>4, <2>5 DEF SteadyInv
<1>13. AheadInv'
  BY <1>4 DEF AheadInv, Holds
<1>. QED
  BY <1>6, <1>7, <1>9, <1>10, <1>11, <1>12, <1>13

-----------------------------------------------------------------------------
(* The invariant, and what follows from it.                                *)

LEMMA InitInv == ASSUME RemindersAssumption, Init PROVE RemindersInv
<1>1. \A j \in Jobs : /\ job[j] = NoRun("due") /\ job[j] \in Run /\ job[j].phase = "due"
                      /\ job[j].left = {} /\ job[j].queue = {} /\ job[j].pending = {}
  BY DEF Init, NoRun, Run
<1>2. /\ \A m \in Reminder : until[m] = 0 /\ pushed[m] = 0
      /\ deaths = 0 /\ moves = 0 /\ steady = {} /\ stored = {} /\ now = 0
      /\ until \in [Reminder -> Nat] /\ pushed \in [Reminder -> Nat]
  BY DEF Init
<1>3. /\ booking \in [Reservations -> BookingRow]
      /\ \A r \in Reservations : booking[r].status = "none" /\ booking[r].todos = "open"
  BY DEF Init
<1>4. RemindersTypeOK
  <2>1. job \in [Jobs -> Run]
    BY <1>1 DEF Init
  <2>. QED
    BY <1>1, <1>2, <1>3, <2>1 DEF RemindersTypeOK, RemindersAssumption
<1>5. RunsOK
  BY <1>1 DEF RunsOK
<1>6. MarkedInv
  BY <1>1, <1>2 DEF MarkedInv, MarkedHasRow
<1>7. OnceInv
  BY <1>1, <1>2 DEF OnceInv, ToPush
<1>8. UnsoldInv
  BY <1>2, <1>3 DEF UnsoldInv, Reminder
<1>9. AheadInv /\ SteadyInv
  BY <1>2 DEF AheadInv, SteadyInv
<1>. QED
  BY <1>4, <1>5, <1>6, <1>7, <1>8, <1>9 DEF RemindersInv

LEMMA StutterSteps == ASSUME RemindersInv, UNCHANGED vars PROVE RemindersInv'
<1>. USE DEF RemindersInv, vars
<1>1. RemindersTypeOK' /\ UnsoldInv'
  BY DEF RemindersTypeOK, UnsoldInv
<1>2. \A j, x : /\ ReminderOf(j, x)' = ReminderOf(j, x)
                /\ Marking(j, x)' <=> Marking(j, x)
  BY DEF ReminderOf, Marking, Foremost
<1>3. RunsOK'
  BY RunsStay
<1>4. MarkedInv'
  BY <1>2 DEF MarkedInv, MarkedHasRow, Recorded
<1>5. OnceInv'
  BY <1>2 DEF OnceInv, ToPush, Covered
<1>6. AheadInv'
  BY DEF AheadInv, Holds
<1>7. \A m : Recorded(m)' <=> Recorded(m)
  BY DEF Recorded
<1>8. SteadyInv'
  BY <1>7, CountStays DEF SteadyInv
<1>. QED
  BY <1>1, <1>3, <1>4, <1>5, <1>6, <1>8

LEMMA NextInv == ASSUME RemindersAssumption, RemindersInv, [Next]_vars PROVE RemindersInv'
<1>1. ASSUME NEW r \in Reservations,
             \/ Sell(r) \/ Cancel(r) \/ SetPreference(r)
             \/ \E t \in {"open", "complete"} : SetTodos(r, t)
             \/ \E t \in Departures : Move(r, t)
      PROVE  RemindersInv'
  BY <1>1, SellSteps, CustomerSteps, MoveSteps
<1>2. ASSUME NEW j \in Jobs,
             \/ Load(j) \/ Commit(j) \/ Die(j)
             \/ \E x \in job[j].queue :
                   Mark(j, x) \/ \E reached \in BOOLEAN : Push(j, x, reached)
             \/ \E c \in Reservations \X Departures, plan \in Plans : Serve(j, c, plan)
      PROVE  RemindersInv'
  BY <1>2, LoadSteps, CommitSteps, DieSteps, PushSteps, MarkSteps, ServeSteps
<1>3. CASE Tick
  BY <1>3, TickSteps
<1>4. CASE UNCHANGED vars
  BY <1>4, StutterSteps
<1>. QED
  BY <1>1, <1>2, <1>3, <1>4 DEF Next

(* The runs, the marks and the count of pushes keep to the invariant.      *)
THEOREM Invariance == Spec => []RemindersInv
<1>1. Init => RemindersInv
  BY InitInv, RemindersAssumption
<1>2. RemindersInv /\ [Next]_vars => RemindersInv'
  BY NextInv, RemindersAssumption
<1>. QED
  BY <1>1, <1>2, PTL DEF Spec

(* Only what was sold is reminded of, a run that is about to mark has      *)
(* something to mark, and no mark outlasts its time.                       *)
THEOREM RemindersTypeCorrect == Spec => []RemindersTypeOK
<1>1. RemindersInv => RemindersTypeOK
  BY DEF RemindersInv
<1>. QED
  BY <1>1, Invariance, PTL

(* A reminder reaches the phone once more only for a run that died between *)
(* push and mark, or for a flight that was moved.                          *)
THEOREM PushedOnceHolds == Spec => []PushedOnce
<1>1. RemindersInv => PushedOnce
  BY DEF RemindersInv, OnceInv, PushedOnce
<1>. QED
  BY <1>1, Invariance, PTL

(* Unless a run has died, the in-app row of what is marked is there or     *)
(* some run will commit it.                                                *)
THEOREM MarkedHasRowHolds == Spec => []MarkedHasRow
<1>1. RemindersInv => MarkedHasRow
  BY DEF RemindersInv, MarkedInv
<1>. QED
  BY <1>1, Invariance, PTL

(* Who was there in time, stayed, and met no missed or broken run finds    *)
(* the reminders of the flight in the application when it leaves, whether  *)
(* or not they reached the phone.                                          *)
THEOREM SteadyRemindedHolds == Spec => []SteadyReminded
<1>1. ASSUME RemindersInv
      PROVE  SteadyReminded
  <2>. USE <1>1 DEF RemindersInv
  <2>1. ASSUME NEW r \in steady, now >= booking[r].departs, NEW k \in AllKinds, k.from = "flight"
        PROVE  <<r, k>> \in stored
    <3>1. now \in Nat /\ booking[r].departs \in Nat
      BY RunTypes, RemindersAssumption DEF RemindersTypeOK, RemindersAssumption
    <3>2. PICK j \in Jobs : k \in KindsOf(j)
      BY DEF AllKinds
    <3>3. Recorded(<<r, k>>)
      BY <2>1, <3>1, <3>2 DEF SteadyInv
    <3>4. \A i \in Jobs : <<r, k>> \notin job[i].pending
      BY <2>1, <3>1 DEF AheadInv, Holds
    <3>. QED
      BY <3>3, <3>4 DEF Recorded
  <2>. QED
    BY <2>1 DEF SteadyReminded
<1>. QED
  BY <1>1, Invariance, PTL

=============================================================================
