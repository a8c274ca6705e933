# TLA+ models of Mosafer

Mosafer is a travel platform: a FastAPI server over PostgreSQL and Redis, ARQ
workers, a Next.js web application where flights are booked and paid, and a
Flutter application for the trip itself. This directory holds TLA+ models of
the server's logic and of the part of the mobile application that keeps a
session, the TLC runs that check them on small instances, and proofs, checked
by TLAPS, that hold for every size.

Paths below are relative to `src/`.

## 1. Inventory

| Component | State it keeps | Operations | Talks to | Model |
|---|---|---|---|---|
| Checkout sessions (`app/services/checkout_session_service.py`) | `checkout_sessions`: seats, passengers, open / consumed / expired, expiry, reservation | create, GET (expires), submit passengers, turn into a reservation | taken seats, payments | `Booking` |
| Payments (`app/api/v1/payments.py`) | `payments`: status, session, reservation | create-session, two webhooks, return-page check, refund | provider, sessions, reservations | `Booking` |
| Payment providers (`app/services/external/*payment*`) | the charge, at Stripe | open, retrieve, refund, webhook | payments | `Booking` (partly) |
| Cancellation (`app/services/reservation_cancel_service.py`) | – | cancel with full, half or no refund | payments, tickets, mock provider | `Booking` |
| Seats (`app/models/reservations.py`, `reservation_seats.py`, `seat_availability.py`) | two tables, each with a unique key on (flight, seat) | available and taken seats, insert | all bookings | `Booking`, `DirectBooking` (partly: rows and letters are a set of seats) |
| Direct bookings and passenger details (`orders.py`, `reservations.py`, `passenger_details_service.py`, `passenger_duplicate.py`) | reservations without a session, `booking_passengers` | POST /orders, POST /reservations, submit passengers, activate tickets | seats, tickets | `DirectBooking` |
| Tickets (`app/api/v1/tickets.py`) | ticket status, accounts it belongs to, images | validate, claim, upload, list, hide | reservations, disk | `Tickets`, `Booking` |
| Authentication (`auth.py`, `core/jwt.py`) | refresh tokens, revoked access tokens, verification and reset links | register, verify, login, refresh, logout, forgot, reset | mail, every request | `Tokens`, `Accounts` |
| Mobile application (`Flutter/app/lib/core/network/api_client.dart`) | one stored token pair | exchange on a 401, repeat, give up | the API | `Tokens` (partly: no screens) |
| Roles and staff (`core/rbac.py`, `db/rbac_seed.py`, `admin_staff_service.py`, `admin_staff.py`) | roles, permissions, admin rows | seed, create, edit, promote, disable, delete | every request | `Staff` |
| Users and profiles (`users.py`, `passport_profile.py`) | account, preferences, avatar, passport columns | change address, password, preferences; upload | disk, analyzer | `Accounts`, `Tickets` |
| Reminder workers (`app/workers/departure_alert.py`, `trip_todo_reminder.py`, `trip_reminder_support.py`) | marks in Redis, notifications | cron jobs every 3 or 15 minutes | dispatcher, reservations, todos | `Reminders` |
| Status poller (`app/workers/flight_status_poller.py`, status and stream of `flights.py`) | one cached status per flight | poll every 3 minutes, fill on a miss, stream | dispatcher, flight service | `FlightStatus` |
| Dispatcher (`notification_dispatcher.py`) | `notifications`, device tokens | in-app row, push, e-mail | workers, payments | `Reminders`, `FlightStatus` (partly) |
| Trips (`trips.py`, `departure_planner.py`) | todos, feedback, cached answers | packing list, timeline, tips, departure plan, map, todo edits, feedback; dashboards | language model, route and map services, cache | `Trips` (partly), `Reminders` |
| Cache (`core/cache.py`) | keys with a life | get, set | workers, flights, trips | `FlightStatus`, `Trips`, `Reminders` (partly) |
| Analyzers (`services/ai`) | none | answers or defaults | trips, uploads | `Trips`, `Tickets` (partly) |
| Flights, airports, destinations, map proxies | single rows or none | reads, search | external services | partly, through `FlightStatus`, `Trips`, `Reminders` |
| Flight identity, analytics, indoor geometry, web application, deployment | – | – | – | not modelled (section 6) |

What makes this code hard:

* **No locks.** `app/db/database.py` opens sessions at PostgreSQL's default READ
  COMMITTED, with `autoflush=False`; no handler uses `with_for_update` or a
  version column, and production runs four server processes
  (`docker/Dockerfile.prod:63`). Everything read before an `await` may be stale
  when the transaction commits. What the code relies on are the unique keys.
* **Results that come twice, late or contradictory.** A payment's result
  arrives by webhook, which the provider repeats, and by the page the customer
  returns to; the mock webhook may say anything at any time.
* **Effects outside the transaction.** Money goes back at the provider, a
  mail or a push leaves, a mark is set in Redis and a file is written before
  the commit that records it, and the process may die in between.
* **Shared copies.** Poller, requests and stream read and write one cached
  status; runs of the poller overlap, since one may take five minutes and one
  starts every three.
* **Several ways in.** Sessions hold seats for a while; orders and reservations
  ignore the holds. Tickets are claimed by accounts that did not buy them.
* **Time.** Sessions, links, tokens, marks and cached keys lapse silently.

What makes each part correct, beyond what one request sees: a seat is sold
once; a session becomes one reservation; "completed" means booked and paid;
captured money does not get stuck; a canceled booking stays canceled; a token
is exchanged once for each request that raced for it, and the telephone is left
with a pair it can use; nobody holds an address he can never verify; a used
link is dead; a staff role has the permissions of one edit and the superadmin's
role keeps all; a stored path names a file; a trip that is ahead stays listed; a
reminder reaches the telephone no more than once, and who was there in time
finds it in the application, if a push fails too; what is told of a flight as new
was asked for no earlier than what is told as old; an answer served from the
cache is about what was asked; what was deleted stays deleted. Two of these
hold with exceptions, which the properties name: a request to hide a trip that
was canceled or over when it was loaded, and a status asked for with a flight's
row from before an edit. One holds in two of the three environments: in
`staging` an address can be held by an account that nobody can verify.
`PROJECT.json` lists the hazards at their lines.

## 2. The modules

| Module | What it is |
|---|---|
| `Booking` | The booking core on one flight: sessions, payments, provider, webhooks, refund, cancellation, the gate. |
| `SeatSale` | The abstract specification: sessions ask for seats, a sale gives all of them in one step, once, for good. |
| `DirectBooking` | `Booking` composed with orders, reservations and their passenger details over the same tables. |
| `BookingInvariant`, `BookingProofs` | The inductive invariants `DirectInv` and `BookingInv`; proofs that `DirectBooking` and `Booking` have them, and that `Booking` implements `SeatSale`. |
| `Tickets`, `TicketsProofs` | A ticket after the sale: claims, gates, cancellation, a repeated webhook, hiding, the list of trips; uploaded files. |
| `Tokens`, `TokensProofs` | Token pairs at the server and the one pair the application keeps, with its concurrent calls. |
| `Accounts`, `AccountsProofs` | Registration and verification, reset links, passwords, addresses, preferences. |
| `Staff`, `StaffProofs` | Roles and permissions edited by several administrators. |
| `Reminders`, `RemindersProofs` | The two reminder jobs over reservations that change under them. |
| `FlightStatus`, `FlightStatusProofs` | The poller, requests and stream over one cached status. |
| `Trips`, `TripsProofs` | Cached answers, todos and feedback. |
| `MC*` | The instances TLC checks: symmetry and small constants only. |

### How state and actions correspond to the code

A table is a function from its keys to rows; a row with status `"absent"` or
`"none"`, or not `stored`, has not been inserted. `req[w]` is the request a
server worker is serving, with the columns the handler has loaded and still
uses; `Idle` is a free worker. Redis keys are a function to the value they hold
with its life.

A handler is cut where another actor can come between: after what it reads,
after a call that leaves the process (provider, mail, push, model, disk) and at
its commit. In `Booking`, `WebhookLoad`, `ApplyToOpen` and `MaterializeCommit`
are one webhook: the payment is loaded (what it said stays in `seen`), the
session and the taken seats are read, and all rows are inserted and committed
if the unique keys allow it (`MaterializeAbort` is the `IntegrityError`). In
`Accounts`, `RegisterFlush`, `RegisterMail` and `RegisterCommit` are one
registration; in `Reminders`, `Load`, `Serve`, `Push`, `Mark` and `Commit` one
run of a job; `HideLoad` and `HideCommit` in `Tickets` are one request to hide a
trip. A push may reach no telephone (`reached` in `Push`): a user without a
device and a failed call are logged and the worker goes on as if it had. A
status is asked for with the row that a run or a request has loaded (`row` in
`FlightStatus`), which an administrator may have edited since. A transaction
that has flushed a unique value or a row holds it:
`Free` and `Unlocked` in `Accounts` are PostgreSQL making the others wait. An
early return or an HTTP error before anything is written is a guard, or an
action that only ends the request. `Flushed` in `Booking` is SQLAlchemy's unit
of work: a column is written only when it differs from the loaded value. `Drop`
(and `Die` in the workers, `Close` in the application) is an actor that dies, or
a later call that raises; nothing uncommitted survives, but a provider call, a
mail, a push, a mark or a file does.

The environment is: clocks (`Lapse`, `Tick`, `AccessLapses`, `LinkLapses`,
`Depart`), the customer on the hosted page, a status that changes (`Update`), a
flight that is moved or edited (`Move`, `Postpone`, `Edit`), a model that fails and recovers (`Switch`), and
requests, which arrive in any order, number and concurrency.

A few variables are in no table and remember what happened, so that properties
can be stated: `issuer` in `Tokens`, `told`, `admitted` and `again` in `Tickets`,
`invited` in `Accounts`, the
`"used"` of a link in `Accounts`, `granted` in `Staff`, `pushed`, `steady`,
`deaths` and `moves` in `Reminders`, `told` and `deaths` in `FlightStatus`.

Left out as data: names, amounts other than halves of a price, PNR, QR code,
locale of messages, texts, and in `Booking`, `DirectBooking`, `Tickets` and
`Trips` the rights of the caller (every request is one that the permission
check lets through; `Staff` has the check). The mock webhook's status, an
arbitrary string in the code, is one of completed and failed. Permissions stand
for their groups. There is one flight in `Booking` and `FlightStatus`.

### Bounds that are not in the code

* `RowLeft` and `SpareRow` (`Booking`, `DirectBooking`), `SparePair`
  (`Tokens`): a request that will insert a row starts only when the finite
  table has one left for every request under way. No property depends on a
  request being refused. Links (`Accounts`), file names (`Tickets`) and todo
  ids (`Trips`) are used up likewise.
* `MaxRefund` bounds the money given back, `MaxVersion` how often a status
  changes, `MaxEdits` how often the flight's row is edited, `MaxMoves` how
  often flights are moved, `MaxDeaths` how many runs die or are missed. The
  properties that allow for deaths and moves count them, so one of each shows
  what one more does.
* `Reminders` counts time in periods: one stands for the time between two
  thresholds of a job. `FlightStatus.cfg` counts it in periods of the poller
  too: a run's limit and the copies, 5, 5 and 2 minutes beside a period of 3,
  are one each. Runs still overlap and read each other's copies, in the moment
  in which one ends and the next begins, and in it a run may take any steps.
  The theorems are about all times that keep the order of the code's.
* `ToldOrShown`, the constraint of `FlightStatus.cfg`: once a customer has
  booked, no stream sends and no run dies. `ToldIsStored` is about runs that
  live, a run that dies tells nobody more, a stream changes nothing but what it
  has sent, and `StreamSettles` does not look at what is told; without a
  customer nothing is left out, and no fairness makes one book. The theorems
  need no such split.
* All other sets are finite in the runs and arbitrary in the theorems.

## 3. What is checked

| Run | Instance | Shows |
|---|---|---|
| `booking_race` | 2 sessions, 2 Stripe payments, 2 seats, 2 passports, 2 workers | however creations, submissions, payments and webhooks of two customers interleave: `BookingInv`, `OneReservationPerSession`, `SeatSoldOnce`, and every step is one of `SeatSale` or a stutter (`ImplementsSeatSale`) |
| `booking_stripe` | 1 session, 2 Stripe payments, every kind of request, dying workers | `CompletedMeansSeated`, `LinksAgree`, `NoFreeSeat`, with webhooks, return page, refund, cancellation, the expiring GET and the gate all racing |
| `booking_settles` | 2 sessions and 2 payments on 1 seat, Stripe, fair | `CapturedSettles`: a captured payment is accepted in the end, or its session was marked expired, or its seat is sold |
| `direct_booking` | 1 session, 3 reservations, 2 seats, mock | `CheckoutUnharmed` while orders and reservations take seats from under the sessions; `ProvisionalNeverBoards`, `DirectStaysCanceled`, `PassengersKept` |
| `tokens` | 3 pairs, 2 calls of the application, 2 server requests | `RotationBounded`: the exchange takes no lock, so a token may get several successors, one for each request that read it before the first commit, and is revoked for good; `PhoneHoldsUsable`: the application is never left with a revoked pair unless a call is about to replace it or it was closed on the way |
| `accounts` | 2 accounts, addresses and passwords, 3 links, production | `EveryoneCanVerify`: a row is committed only after its mail has left (the theorem adds development; staging is a claim below); `UsedLinkIsDead` although links are drawn, mailed, stored and cleared by requests that overlap; `PrefsKept` against the defaults of a racing first read |
| `staff` | the seeded administrator and one more user, 1 staff role, 2 requests | `PermissionsAsAsked`: two edits never mix, because the baseline permission both insert makes the second fail; `SuperadminIntact` although an edit looks at the role when it loads and writes later; everybody's role exists (`StaffTypeOK`) |
| `tickets` | 1 booking, 1 passenger, 2 accounts, 2 files, 1 passport column, 2 requests | `ClaimsBounded`, `FilesBeforeRows`; `TripsStayListed`: no list loses a trip that is ahead, but to a claim of it under way, and to a request to hide it from before a webhook or a later departure brought it back |
| `reminders` | 1 reservation, both jobs with two kinds each, 1 death, 1 move, pushes that fail | `PushedOnce` but for deaths and moves; `MarkedHasRow`: no mark stands for a reminder without an in-app row, stored or on its way, unless a run died; `SteadyReminded`: urgent reminders go first, and still who was there in time finds every reminder that counts from the flight in the application |
| `flight_status` | 2 overlapping runs, 1 request, 1 change of the status, 1 edit of the flight; 1 user, or 1 stream and 1 death; fair | `ToldForward`: what is told as new was asked for no earlier than what is told as old; `ToldIsStored`; `StreamSettles`: the stream comes to show the status of the flight as it is and keeps to it |
| `trips` | 1 trip: packing list, timeline in two languages, map; 2 requests | `AnswersFit`, `FeedbackBounded`, `DeletedStays`, and `FallbackPasses`: defaults served from the cache give way once the model is back; tips and plans take the steps of a timeline |
| `claim_RefundedOnce` | 1 session, mock, 2 workers | a counterexample, below |

Every run that has a type invariant checks it too (`BookingInv` contains
`TypeOK`).

Two workers are enough for every race in these handlers: each property
concerns what one request read and what another committed in between, and the
second request may be followed by any number of others. Where a property counts
the racers (`RotationBounded`, `ClaimsBounded`, `FeedbackBounded`) the bound is
the number of workers. Two sessions and two payments are the least with which
a seat is contended, a session is paid twice, and a second reservation could
point at the first one's payment. Three pairs and three links are the least with
which one is exchanged or drawn twice and a further one is left. One change and
one edit are enough for a stale copy and for a stale row, and the theorems
`ToldForwardHolds` and `ToldIsStoredHolds` are about any number. One passport
column is enough in `tickets`: `FilesBeforeRows` is about each column alone.

`Booking_mock.cfg` is one more instance of `MCBooking`: two sessions on one
seat with the mock provider, whose webhooks may contradict each other.

### What documents, comments and tests promise and the code does not do

Each of these configurations checks one statement of the repository, and TLC
shows a behaviour of the code that breaks it. `claim_RefundedOnce` is a
run of the project; the others are run by hand, as in section 7.

| Configuration | The statement | The behaviour |
|---|---|---|
| `Claim_RefundedOnce` | `tests/test_reservation_cancel_refund.py:176`: the second cancellation answers 400 | Two concurrent cancellations both find the payment completed and both refund (`reservation_cancel_service.py:116`). |
| `Claim_HiddenWasOver` (`MCTickets`) | `reservations.py:292`: "Hide a canceled or past reservation from the user's trip list." | A request finds the booking canceled, a repeated webhook makes it paid again (`payments.py:109`), and the request hides it (`reservations.py:315`); a later departure (`flights.py:317`) does the same to a past one. Nothing lists it again. |
| `Claim_EveryoneCanVerify` (`MCAccounts`) | `auth.py:133`: "Registration successful. Please verify your email." | With `ENVIRONMENT` `staging` (`config.py:22`) a mail that fails neither undoes the registration (`auth.py:115`: production only) nor puts the link into the answer (`auth.py:130`: development only). |
| `Claim_HoldsDisjoint` | `checkout_session_service.py:1`: "seat hold" | Two requests find a seat free, both open a session that holds it (line 147). |
| `Claim_AvailableSeatIsFree` | `tests/test_seat_availability.py:91`: a canceled seat is among the available ones | The unique keys still count it, so every booking of it fails, after the customer has paid. |
| `Claim_RefundedStaysCanceled` | `payments.py:375`: "Refund a completed payment and cancel the reservation." | A completed webhook, or a return-page check, after a refund: the reservation is paid again and its ticket valid (line 109). |
| `Claim_RefundedMeansMoneyBack` | `reservation_cancel_service.py:85`: "has been refunded in full" | With Stripe, cancelling marks the payment refunded and asks the mock provider (line 21), so no money goes back. |
| `Claim_PassengerOncePerFlight` | `passenger_duplicate.py:1`: "Detect duplicate passenger (passport) bookings on a flight." | Two sessions name one passport before either is paid; both become reservations, and later bookings that name it meet `MultipleResultsFound`. |
| `Claim_SeatSoldOnce` (`MCDirect`) | `orders.py:108`: "Seat already taken on this flight" | An order's seat has no seat row: a booking that has it as its second seat and the order are both inserted (`orders.py:93`). |
| `Claim_AdmittedOnce` (`MCTickets`) | `tickets.py:510`: "used→already_used" | Two gates read a valid ticket and both answer "validated"; and a repeated webhook makes a used ticket valid. |
| `Claim_MapShowsOwnGate` (`MCTrips`) | `docs/airport-indoor-map-issues.md:28`: "must all reference the **same gate** returned for that ticket" | A map asked for without a gate is cached under a key that names no flight (`trips.py:711`) and served to passengers of another. |

### Other behaviours seen while modelling

* A second payment of a session is completed without a reservation, so nobody
  refunds it; a retried create-session with the mock provider draws the same
  payment id and fails; the branch for a late "failed" of a paid reservation
  (`payments.py:130`) leaves the reservation as it is.
* The gate looks up tickets only, so the QR numbers of single passengers get a
  404; hiding a trip removes it from the lists of those who claimed it, too
  (`reservations.py:196`); passport columns may come from different images when
  two uploads overlap.
* Two calls of the application that are rejected together exchange one token;
  the one that is refused empties the storage the other has filled
  (`api_client.dart:100`).
* A changed e-mail address stays verified. A password that is changed while a
  reset is under way is overwritten by whichever commits last. A request with a
  lapsed link clears a newer link that was committed after it had loaded the row
  (`auth.py:345`).
* An account with a staff role that is given the travelers' role can still be
  edited as staff, which replaces the permissions of all travelers.
  `DELETE /users/admin/{id}` never succeeds, since every account has a profile.
* A reminder is pushed before its in-app row is committed
  (`notification_dispatcher.py:96`); a run that dies after the mark loses the
  row for good. A push that fails is logged (`fcm_service.py:100`), marked as
  sent and not tried again. A flight that is moved later lets the marks lapse,
  so reminders repeat.
* The poller also tells users whose reservation is canceled. A request's late
  copy may hide a change from the poller, which then tells nobody. It asks with
  the row it loaded when its run began (`flight_status_poller.py:92`): when the
  flight is edited meanwhile, and a request or another run stores the new status
  before the run reads the copy, users are told that the edit was taken back,
  and by the next run that it was made.
* Two feedbacks of one trip make every later look fail. Filling the todo list
  twice inserts everything twice. The Arabic and the English half of a packing
  list are merged by position. The docstring of the timeline says that it
  creates todo records (`trips.py:1196`); it does not.

### Fairness

* `booking_settles`: a handler that has started goes on to its end (weak
  fairness of a busy worker's steps: the event loop and the database do make
  progress); time passes (weak fairness of `Lapse`); and the provider repeats a
  webhook until it is accepted (Stripe retries for days what is answered with
  an error, which `payments.py` does when it refuses). The last is strong
  fairness because a model with two workers can have both busy whenever the
  webhook comes, while the server can always accept one more request. No
  customer is fair.
* `flight_status`: time passes, cron starts its runs, and a run or a request
  that has begun goes on (weak). The stream looks every ten seconds and every
  copy lives for minutes, so it sees each copy that lasts: strong fairness of
  `Stream`, because copies come and go. The code ends a stream after two hours;
  the property is about one that is open long enough. No status or row has to
  change, no request has to come, and runs may die.
* `trips`: keys lapse (weak fairness of `Lapse`, which is Redis). Nobody has to
  ask or to answer; `FallbackPasses` is conditional on a model that comes back
  to stay.

## 4. What is proved

All theorems are about every value of the constants; each rests on the named
assumption of its module only (`Null` is no key, times are positive, a run is
stopped before the next but one starts, worker sets are finite where they are
counted, and so on), but for `EveryoneCanVerifyHolds`, which says itself that
the environment is production or development.

| Module | Theorems | Properties |
|---|---|---|
| `BookingProofs`, of `Booking` | `Invariance`, `TypeCorrect`, `SeatSoldOnceHolds`, `OneReservationHolds`, `CompletedSeatedHolds`, `LinksHold`, `NoFreeSeatHolds`, `Refinement` | `BookingInv` and what follows from it, for both providers and any set of request kinds; `ImplementsSeatSale` |
| `BookingProofs`, of `DirectBooking` | `DirectInvariance`, `DirectTypeCorrect`, `ProvisionalHolds`, `CheckoutUnharmedHolds`, `DirectStaysCanceledHolds`, `PassengersKeptHolds` | `DirectInv` and what follows from it |
| `RemindersProofs` | `Invariance`, `RemindersTypeCorrect`, `PushedOnceHolds`, `MarkedHasRowHolds`, `SteadyRemindedHolds` | for any list of reminders and any deaths and moves |
| `TokensProofs` | `TokensTypeCorrect`, `RotationBoundedHolds`, `PhoneHoldsUsableHolds` | |
| `AccountsProofs` | `AccountsTypeCorrect`, `EveryoneCanVerifyHolds`, `UsedLinkIsDeadHolds`, `PrefsKeptHolds` | |
| `StaffProofs` | `StaffTypeCorrect`, `PermissionsAsAskedHolds`, `SuperadminIntactHolds` | |
| `TicketsProofs` | `TicketsTypeCorrect`, `ClaimsBoundedHolds`, `FilesBeforeRowsHolds`, `TripsStayListedHolds` | |
| `FlightStatusProofs` | `StatusTypeCorrect`, `ToldForwardHolds`, `ToldIsStoredHolds` | |
| `TripsProofs` | `TripsTypeCorrect`, `AnswersFitHolds`, `FeedbackBoundedHolds`, `DeletedStaysHolds` | |

Every property that a passing run checks is one of these theorems' conclusions,
but for the three of liveness. Hardly any is inductive: a request acts on what
it has loaded some steps ago, and the invariants say in which way that may be
stale.

**Booking.** A session never changes its seats, so a reservation carries
exactly the seats of its session (`ReservationRows`) and a request about to
insert one still has the right ones (`Fresh`, materialize). A payment never
changes its session, and its reservation is set once, so what a webhook has
`seen` is stale in one way only: it may have seen no reservation where there is
one by now (`SeenIsFresh`). A request about to record "completed" has found a
reservation in its session, and reservations stay (`Fresh`, record). One
reservation per session then needs no lock: two reservations of one session
would have the same seats, at least one, and the unique keys forbid that. The
refinement maps `asked` to the seats of a stored session and `buyer` to the
session of the reservation that has the seat, well-defined by `SeatSoldOnce`;
`CreateCommit` is `Ask`, `MaterializeCommit` is `Sell`, the rest stutters.

**Direct bookings.** `SeatSoldOnce` is false here (an order has no seat row), so
`DirectInv` keeps what the unique keys do give, `UniqueColumns`: in each of the
two seat columns a seat occurs once. That is enough: two reservations of one
session would have the same first seat. A payment is made for a session only,
so whatever a webhook revives is not direct; the last clauses of `Fresh` say that
the gate was shown no provisional ticket and that the passengers of a direct
booking did not find it paid. `DirectStaysCanceled` and `PassengersKept` follow
step by step from `StepKeeps`: numbered passengers are unique in a reservation,
so a commit inserts them only where none came since the load. The proofs about `Booking` are instances: in a
behaviour of `Spec` there is never a direct booking (`NoDirect`), and then
`DirectInv` comes to `BookingInv` (`BookingIsDirect`).

**Reminders.** `RunsOK`: a run serves each reservation once, with one departure,
and what it is going to push is not marked, since only one job has reminders of
that kind. `OnceInv` counts: each death and each move allows one push more, and
when all are spent the reminder is `Covered`, by a mark that outlives the
departure, by a mark about to be set, or by the departure being over. A run
that has loaded a departure from before a move has that move in hand, so it
needs one push less than the bound; a push that fails spends nothing.
`MarkedInv` follows a reminder from dispatch through `pending` into the rows.
`SteadyInv` is the argument behind "urgent first": while a
reminder of the flight is missing for somebody steady, the unmarked reminders
of its job are no more than the runs left before departure. Each run takes one
off both counts, because what is due and unmarked is sent, one a run
(`SomeChosen`), and a reminder that counts from the flight is due while the
count still suffices. It counts reminders without a row, not without a push, and
`AheadInv` says that what a run holds is of flights still ahead, so that rows
are committed when the flight leaves. `RemindersAssumption` has the arithmetic: the threshold of
such a reminder is at least the length of its job's list, in periods of the job
(6 hours against 4 reminders in `departure_alert.py:27`).

**Tokens.** `Fresh`: a request that is exchanging a token has issued no
successor of it yet. Whoever issues one revokes the token in the same
transaction, and only tokens not revoked are loaded, so two successors have two
issuers. `PhoneInv` is about the application: the pair it has stored is revoked,
or `AtRisk` of it, only while a call is exchanging that very pair or brings its
successor, and a pair that has been answered and not stored yet is `Unseen` by
all other calls, so it is whole when it is stored. `AtRisk` is needed because the
server commits an exchange whose call has given up; `OwnRequest` ties a request
to the call that waits for it.

**Accounts.** `LinksInv`: a link that has not been used is in one place, a row
or the request that draws it; a request that resets has it from its own row.
So when the link is spent no other row has it, and the row's own is cleared, be
it the same one or a later one. `RegisterInv`: an account that is being
registered is stored by nobody else, and once the request has passed the mail,
the link has gone out, or the environment is `staging`, which `InvitedInv`
excepts.

**Staff.** `StaffInv` adds that no edit under way is about the superadmin's
role and that every edit inserts the baseline. Rows of another edit contain the
baseline as well, so an insert on top of them meets the key of the pair.

**Tickets.** `TicketsInv`: the file of an upload under way is on the disk
already, only the row is missing; and the row of a claim can be found.
`ClaimsBounded` adds up two counts, the accounts told and the claims under way:
a commit moves one from the second to the first. `WasOver`: a trip that a request
is about to hide is canceled or past, or has been `again` ahead since, which is
the exception `TripsStayListed` makes; the rest of it follows step by step from
what claims and sales may change.

**FlightStatus.** `Forward`: what a run has read from Redis was asked for no
later than what it has asked for itself. The order read, ask, set is what the
theorem rests on; asking before reading would break it. It is about the moment
of asking, not about the row that is asked with: rows are loaded earlier and do
go back. `Pushed` and `StatusInv` give
`ToldIsStored`.

**Trips.** `KeyFits`: two questions share a key only when their answers are
about the same, and a map without a gate shares it with no other kind. With
`SetsFit` (what is about to be stored fits) it carries `AnswersFit` over every
store. `FeedbackBounded` is itself inductive: a commit moves one request from
one summand to the other.

**Layout.** Each proof has an `InitInv`, lemmas for groups of steps that change
the same part (`RequestStep` and `RowStep` in `AccountsProofs`, `TurnStep` in
`TripsProofs`, `AccountStep` in `StaffProofs`, `FreshStays` in `BookingProofs`),
a `StepInv` or `NextInv` with one case per action, and the temporal theorems.

**Only model-checked.** The liveness properties: `CapturedSettles`,
`StreamSettles`, `FallbackPasses`; fairness is out of the prover's reach.

## 5. What is left

1. `FlightRows`: find-or-create of a flight row under concurrent bookings.
2. An abstract specification of `Tickets` (who owns a ticket, who was admitted)
   and of `Reminders` (each reminder at most once but for faults), as `SeatSale`
   is of `Booking`.
3. Pure functions over bounded inputs: `calculate_refund`, the seat map of
   `seat_availability`, the polyline decoder, the retry of `base_client`.
4. E-mail and device tokens of the dispatcher, and a Redis that fails.
5. A run of `Trips` with plans, tips and two trips that share a destination: the
   theorems cover them, the run's state space is at its limit without them.

## 6. Not modelled

* Flight identity (`flight_identity.py`): the models have one flight whose row
  exists; the loser of the race for it gets an error and nothing is stored.
* Admin analytics: read-only aggregates.
* Indoor maps (`istanbul_indoor_*.py`, `overpass_indoor_service.py`): geometry
  and static data, no state.
* Web application: a client; its pages call the API in orders the models allow.
* Migrations, containers, seeds and load tests: read for the isolation level,
  the unique keys and the number of server processes.
* Within modelled parts: the rate limiter and cryptography of authentication,
  the texts of notifications, the e-mail and device-token paths of the
  dispatcher, the list of notifications, distances and countdowns of dashboard
  and location check, prompts and what models answer.

## 7. Running

    tlc -workers 2 -config Booking_race.cfg MCBooking
    tlc -workers 2 -config Trips.cfg MCTrips
    tlc -workers 2 -config Claim_HoldsDisjoint.cfg MCBooking
    tlapm AccountsProofs.tla

`Booking_*` and `Claim_*` belong to `MCBooking` unless the table names another
module; every other configuration belongs to the `MC` module of its name.

Deadlock is not checked: customers may stop coming, and every table of a model
is full at some point.
