------------------------------- MODULE Booking -------------------------------
(***************************************************************************)
(* The booking core of the API: checkout sessions that hold seats for a    *)
(* while, payments, the reservation a paid session turns into, its ticket, *)
(* refund, cancellation and the check of the ticket at the gate, all on    *)
(* one flight.                                                             *)
(*                                                                         *)
(* A row of the database is an element of a function; status "absent"      *)
(* means that the row has not been inserted.  A request is served by a     *)
(* worker in several steps: PostgreSQL runs at READ COMMITTED and no       *)
(* handler locks what it reads, so what another request commits between    *)
(* two steps is seen by the later one only.  A request keeps, in req[w],   *)
(* the columns it has loaded and still uses.                               *)
(***************************************************************************)
EXTENDS FiniteSets, Naturals

CONSTANTS Sessions, Payments, Reservations,  \* primary keys of the tables
          Seats, Passports,                  \* seats of the flight, travellers
          Workers,                           \* requests served at a time
          Null,                              \* SQL NULL
          Provider,                          \* PAYMENT_PROVIDER
          Ops,                               \* kinds of request that arrive
          MaxRefund                          \* bound on the money given back

(* Money is counted in halves of the price, so a full refund is two units. *)
Full == 2
Half == 1

ASSUME BookingAssumption ==
    /\ Provider \in {"mock", "stripe"}
    /\ Null \notin Sessions \cup Payments \cup Reservations \cup Seats
    /\ MaxRefund \in Nat /\ MaxRefund >= Full

VARIABLES sess,    \* checkout_sessions
          pay,     \* payments
          resv,    \* reservations, with their seats, passengers and ticket
          charge,  \* what the payment provider knows of each payment
          req      \* the request each worker is serving

db == <<sess, pay, resv>>
vars == <<sess, pay, resv, charge, req>>

-----------------------------------------------------------------------------
(* Rows and requests.                                                      *)

Key(S) == S \cup {Null}
SessionStatus == {"open", "consumed", "expired"}
PaymentStatus == {"pending", "completed", "failed", "refunded"}
ReservationStatus == {"booked", "paid", "canceled"}
TicketStatus == {"pending_passenger", "valid", "used", "canceled"}
Verdict == {"pending", "completed", "failed"}

SessionRow == [status: SessionStatus \cup {"absent"}, seats: SUBSET Seats,
               first: Key(Seats), pax: SUBSET Passports, lapsed: BOOLEAN,
               resv: Key(Reservations)]
PaymentRow == [status: PaymentStatus \cup {"absent"}, sess: Key(Sessions),
               resv: Key(Reservations)]
ReservationRow == [status: ReservationStatus \cup {"absent"},
                   sess: Key(Sessions), first: Key(Seats), rows: SUBSET Seats,
                   pax: SUBSET Passports, ticket: TicketStatus \cup {"absent"}]
Charge == [state: {"none", "open", "unpaid", "paid", "expired"},
           event: {"none", "completed", "failed"}, refunded: 0..MaxRefund]

Idle == [op |-> "idle"]
Request ==
    {Idle}
    \cup [op: {"create"}, seats: SUBSET Seats, first: Seats]
    \cup [op: {"expire", "pay"}, s: Sessions]
    \cup [op: {"submit"}, s: Sessions, pax: SUBSET Passports]
    \cup [op: {"verify"}, p: Payments, seen: PaymentRow]
    \cup [op: {"apply"}, p: Payments, seen: PaymentRow, verdict: Verdict]
    \cup [op: {"materialize"}, p: Payments, s: Sessions, row: SessionRow]
    \cup [op: {"record"}, p: Payments, verdict: Verdict, close: BOOLEAN]
    \cup [op: {"revive"}, p: Payments, r: Reservations, row: ReservationRow]
    \cup [op: {"refund"}, p: Payments, r: Key(Reservations)]
    \cup [op: {"refunded"}, p: Payments, r: {Null}, row: {Null}]
    \cup [op: {"refunded"}, p: Payments, r: Reservations, row: ReservationRow]
    \cup [op: {"cancel"}, r: Reservations, row: ReservationRow]
    \cup [op: {"canceled"}, r: Reservations, p: Key(Payments),
          row: ReservationRow]
    \cup [op: {"validate"}, r: Reservations]

TypeOK ==
    /\ sess \in [Sessions -> SessionRow]
    /\ pay \in [Payments -> PaymentRow]
    /\ resv \in [Reservations -> ReservationRow]
    /\ charge \in [Payments -> Charge]
    /\ req \in [Workers -> Request]

Init ==
    /\ sess = [s \in Sessions |->
                 [status |-> "absent", seats |-> {}, first |-> Null,
                  pax |-> {}, lapsed |-> FALSE, resv |-> Null]]
    /\ pay = [p \in Payments |->
                 [status |-> "absent", sess |-> Null, resv |-> Null]]
    /\ resv = [r \in Reservations |->
                 [status |-> "absent", sess |-> Null, first |-> Null,
                  rows |-> {}, pax |-> {}, ticket |-> "absent"]]
    /\ charge = [p \in Payments |->
                 [state |-> "none", event |-> "none", refunded |-> 0]]
    /\ req = [w \in Workers |-> Idle]

-----------------------------------------------------------------------------
(* What the handlers compute from the rows.                                *)

Begin(w, kind, r) == kind \in Ops /\ req[w] = Idle /\ req' = [req EXCEPT ![w] = r]
Continue(w, r) == req' = [req EXCEPT ![w] = r]
Finish(w) == req' = [req EXCEPT ![w] = Idle]

(* The ORM writes a column only when its value differs from the loaded one. *)
Flushed(loaded, assigned, stored) == IF assigned = loaded THEN stored ELSE assigned

(* A bound of the model: a request that will insert a row starts only when *)
(* the finite table has a row left for it.                                 *)
RowLeft(kind, table) ==
    Cardinality({w \in Workers : req[w].op = kind})
      < Cardinality({k \in DOMAIN table : table[k].status = "absent"})

Active(s) == sess[s].status = "open" /\ ~sess[s].lapsed
Stored == {r \in Reservations : resv[r].status # "absent"}
Live == {r \in Stored : resv[r].status # "canceled"}

TakenSeats(except) ==
    (UNION {resv[r].rows \cup {resv[r].first} : r \in Live})
    \cup (UNION {sess[s].seats : s \in {t \in Sessions \ except : Active(t)}})

(* GET /flights/available-seats: on the seat map and not taken.            *)
Available == Seats \ TakenSeats({})

(* Fault: only the first seat is unique.                                   *)
SeatConflictFirst(first, rows) == \E r \in Stored : resv[r].first = first

(* The unique indexes on (flight, seat) of the two seat columns.           *)
SeatConflict(first, rows) ==
    \E r \in Stored : resv[r].first = first \/ resv[r].rows \cap rows # {}

PassengerOnFlight(passport) == \E r \in Live : passport \in resv[r].pax

-----------------------------------------------------------------------------
(* Checkout sessions.                                                      *)

(* POST /checkout-sessions: the taken seats are read here, the row is      *)
(* inserted by the next step.                                              *)
CreateLoad(w, S, first) ==
    /\ first \in S
    /\ S \cap TakenSeats({}) = {}
    /\ RowLeft("create", sess)
    /\ Begin(w, "create", [op |-> "create", seats |-> S, first |-> first])
    /\ UNCHANGED <<db, charge>>

CreateCommit(w, s) ==
    /\ req[w].op = "create"
    /\ sess[s].status = "absent"
    /\ sess' = [sess EXCEPT ![s] =
                  [status |-> "open", seats |-> req[w].seats,
                   first |-> req[w].first, pax |-> {}, lapsed |-> FALSE,
                   resv |-> Null]]
    /\ Finish(w)
    /\ UNCHANGED <<pay, resv, charge>>

(* CHECKOUT_TTL_MINUTES go by.  Nothing in the database changes.           *)
Lapse(s) ==
    /\ Active(s)
    /\ sess' = [sess EXCEPT ![s].lapsed = TRUE]
    /\ UNCHANGED <<pay, resv, charge, req>>

(* GET /checkout-sessions/{id}, which expires an open session that lapsed. *)
ExpireLoad(w, s) ==
    /\ sess[s].status = "open" /\ sess[s].lapsed
    /\ Begin(w, "read", [op |-> "expire", s |-> s])
    /\ UNCHANGED <<db, charge>>

ExpireCommit(w) ==
    /\ req[w].op = "expire"
    /\ sess' = [sess EXCEPT ![req[w].s].status = "expired"]
    /\ Finish(w)
    /\ UNCHANGED <<pay, resv, charge>>

(* POST .../{id}/passenger-details, one traveller for each seat.           *)
SubmitLoad(w, s, pax) ==
    /\ Active(s)
    /\ sess[s].pax = {}
    /\ Cardinality(pax) = Cardinality(sess[s].seats)
    /\ \A passport \in pax : ~PassengerOnFlight(passport)
    /\ Begin(w, "submit", [op |-> "submit", s |-> s, pax |-> pax])
    /\ UNCHANGED <<db, charge>>

SubmitCommit(w) ==
    /\ req[w].op = "submit"
    /\ sess' = [sess EXCEPT ![req[w].s].pax = req[w].pax]
    /\ Finish(w)
    /\ UNCHANGED <<pay, resv, charge>>

-----------------------------------------------------------------------------
(* Payments: creation, and the provider's side of them.                    *)

PayLoad(w, s) ==
    /\ Active(s)
    /\ sess[s].pax # {}
    /\ RowLeft("pay", pay)
    /\ Begin(w, "pay", [op |-> "pay", s |-> s])
    /\ UNCHANGED <<db, charge>>

(* provider_payment_id is unique, and the mock provider derives it from    *)
(* the session: a session can have one payment only when it is in use.     *)
IdTaken(s) == Provider = "mock" /\ \E q \in Payments : pay[q].sess = s

PayCommit(w, p) ==
    /\ req[w].op = "pay"
    /\ pay[p].status = "absent"
    /\ ~IdTaken(req[w].s)
    /\ pay' = [pay EXCEPT ![p] =
                 [status |-> "pending", sess |-> req[w].s, resv |-> Null]]
    /\ charge' = [charge EXCEPT ![p].state = "open"]
    /\ Finish(w)
    /\ UNCHANGED <<sess, resv>>

(* The provider call fails (502) or the commit meets the unique index.     *)
PayAbort(w) ==
    /\ req[w].op = "pay"
    /\ Finish(w)
    /\ UNCHANGED <<db, charge>>

(* A hosted Stripe page: the customer pays, or leaves a delayed payment     *)
(* that may arrive later, or the page expires.  The completion event        *)
(* carries the payment status of that moment and is the only one handled.  *)
CustomerPays(p) ==
    /\ Provider = "stripe"
    /\ charge[p].state \in {"open", "unpaid"}
    /\ charge' = [charge EXCEPT ![p].state = "paid",
                                ![p].event = IF @ = "none" THEN "completed" ELSE @]
    /\ UNCHANGED <<db, req>>

CustomerDefers(p) ==
    /\ Provider = "stripe"
    /\ charge[p].state = "open"
    /\ charge' = [charge EXCEPT ![p].state = "unpaid", ![p].event = "failed"]
    /\ UNCHANGED <<db, req>>

ChargeExpires(p) ==
    /\ Provider = "stripe"
    /\ charge[p].state = "open"
    /\ charge' = [charge EXCEPT ![p].state = "expired"]
    /\ UNCHANGED <<db, req>>

-----------------------------------------------------------------------------
(* Payment results: a webhook, delivered any number of times at any time,  *)
(* or the page the customer returns to asking the provider itself.         *)

WebhookVerdicts(p) ==
    IF Provider = "mock" THEN {"completed", "failed"} ELSE {charge[p].event} \ {"none"}

(* Fault: a page left with a delayed payment counts as paid.               *)
RetrievedComplete(p) ==
    CASE charge[p].state = "expired" -> "failed"
      [] charge[p].state \in {"paid", "unpaid"} -> "completed"
      [] OTHER -> "pending"

RetrievedStatus(p) ==
    CASE charge[p].state = "expired" -> "failed"
      [] charge[p].state = "paid" -> "completed"
      [] OTHER -> "pending"

WebhookLoad(w, p, verdict) ==
    /\ pay[p].status \notin {"absent", verdict}
    /\ verdict \in WebhookVerdicts(p)
    /\ Begin(w, "webhook", [op |-> "apply", p |-> p, seen |-> pay[p], verdict |-> verdict])
    /\ UNCHANGED <<db, charge>>

VerifyLoad(w, p) ==
    /\ Provider = "stripe"
    /\ pay[p].status # "absent"
    /\ Begin(w, "verify", [op |-> "verify", p |-> p, seen |-> pay[p]])
    /\ UNCHANGED <<db, charge>>

VerifyRetrieve(w) ==
    /\ req[w].op = "verify"
    /\ LET verdict == RetrievedStatus(req[w].p)
       IN  Continue(w, IF verdict = req[w].seen.status THEN Idle
                       ELSE [op |-> "apply", p |-> req[w].p,
                             seen |-> req[w].seen, verdict |-> verdict])
    /\ UNCHANGED <<db, charge>>

(* _apply_payment_status, completed, no reservation linked to the payment. *)
Materializing(w) ==
    req[w].op = "apply" /\ req[w].verdict = "completed" /\ req[w].seen.resv = Null

Consumed(s) == sess[s].status = "consumed" /\ sess[s].resv # Null
(* Fault: a session whose time has run out is not accepted any more.       *)
AcceptableActive(s) ==
    /\ Active(s)
    /\ sess[s].pax # {}
    /\ sess[s].seats \cap TakenSeats({s}) = {}

Acceptable(s) ==
    /\ sess[s].status = "open"
    /\ sess[s].pax # {}
    /\ sess[s].seats \cap TakenSeats({s}) = {}

ApplyToConsumed(w) ==
    /\ Materializing(w)
    /\ Consumed(req[w].seen.sess)
    /\ Continue(w, [op |-> "record", p |-> req[w].p, verdict |-> "completed", close |-> FALSE])
    /\ UNCHANGED <<db, charge>>

ApplyToOpen(w) ==
    /\ Materializing(w)
    /\ Acceptable(req[w].seen.sess)
    /\ Continue(w, [op |-> "materialize", p |-> req[w].p, s |-> req[w].seen.sess,
                    row |-> sess[req[w].seen.sess]])
    /\ UNCHANGED <<db, charge>>

(* Fault: the refusal is swallowed and the payment recorded all the same.  *)
RefusedRecords(w) ==
    /\ Materializing(w)
    /\ ~Consumed(req[w].seen.sess) /\ ~Acceptable(req[w].seen.sess)
    /\ Continue(w, [op |-> "record", p |-> req[w].p, verdict |-> "completed", close |-> FALSE])
    /\ UNCHANGED <<db, charge>>

(* 400 or 409: the payment stays as it was.                                *)
ApplyRefused(w) ==
    /\ Materializing(w)
    /\ ~Consumed(req[w].seen.sess) /\ ~Acceptable(req[w].seen.sess)
    /\ Finish(w)
    /\ UNCHANGED <<db, charge>>

(* _apply_payment_status, completed, a reservation is linked already.      *)
ApplyToLinked(w) ==
    /\ req[w].op = "apply" /\ req[w].verdict = "completed" /\ req[w].seen.resv # Null
    /\ Continue(w, [op |-> "revive", p |-> req[w].p, r |-> req[w].seen.resv,
                    row |-> resv[req[w].seen.resv]])
    /\ UNCHANGED <<db, charge>>

(* _apply_payment_status, any other status.                                *)
ApplyUnpaid(w) ==
    /\ req[w].op = "apply" /\ req[w].verdict # "completed"
    /\ Continue(w, [op |-> "record", p |-> req[w].p, verdict |-> req[w].verdict,
                    close |-> /\ req[w].verdict = "failed"
                              /\ sess[req[w].seen.sess].status = "open"])
    /\ UNCHANGED <<db, charge>>

(* Fault: every completed payment is linked to the reservation.            *)
RecordLinks(w) ==
    /\ req[w].op = "record"
    /\ LET q == req[w]
           r == IF q.verdict = "completed" THEN sess[pay[q.p].sess].resv ELSE pay[q.p].resv
       IN  pay' = [pay EXCEPT ![q.p].status = q.verdict, ![q.p].resv = r]
    /\ Finish(w)
    /\ UNCHANGED <<sess, resv, charge>>

RecordCommit(w) ==
    /\ req[w].op = "record"
    /\ LET q == req[w]
       IN  /\ pay' = [pay EXCEPT ![q.p].status = q.verdict]
           /\ sess' = IF q.close
                      THEN [sess EXCEPT ![pay[q.p].sess].status = "expired"]
                      ELSE sess
    /\ Finish(w)
    /\ UNCHANGED <<resv, charge>>

(* What the transaction inserts for a paid session.                        *)
Booked(q) == [status |-> "paid", sess |-> q.s, first |-> q.row.first,
              rows |-> q.row.seats, pax |-> q.row.pax, ticket |-> "valid"]

(* Faults: no unique seats; the session is not told of its reservation.    *)
MaterializeUnchecked(w, r) ==
    /\ req[w].op = "materialize"
    /\ resv[r].status = "absent"
    /\ resv' = [resv EXCEPT ![r] = Booked(req[w])]
    /\ sess' = [sess EXCEPT ![req[w].s].status = "consumed", ![req[w].s].resv = r]
    /\ pay' = [pay EXCEPT ![req[w].p].status = "completed", ![req[w].p].resv = r]
    /\ Finish(w)
    /\ UNCHANGED charge
MaterializeUnlinked(w, r) ==
    /\ req[w].op = "materialize"
    /\ resv[r].status = "absent"
    /\ ~SeatConflict(req[w].row.first, req[w].row.seats)
    /\ resv' = [resv EXCEPT ![r] = Booked(req[w])]
    /\ sess' = [sess EXCEPT ![req[w].s].status = "consumed"]
    /\ pay' = [pay EXCEPT ![req[w].p].status = "completed", ![req[w].p].resv = r]
    /\ Finish(w)
    /\ UNCHANGED charge

(* Reservation, seats, passengers and a valid ticket, in one transaction.  *)
MaterializeCommit(w, r) ==
    /\ req[w].op = "materialize"
    /\ resv[r].status = "absent"
    /\ ~SeatConflict(req[w].row.first, req[w].row.seats)
    /\ resv' = [resv EXCEPT ![r] = Booked(req[w])]
    /\ sess' = [sess EXCEPT ![req[w].s].status = "consumed", ![req[w].s].resv = r]
    /\ pay' = [pay EXCEPT ![req[w].p].status = "completed", ![req[w].p].resv = r]
    /\ Finish(w)
    /\ UNCHANGED charge

(* IntegrityError: the transaction is rolled back.                         *)
MaterializeAbort(w) ==
    /\ req[w].op = "materialize"
    /\ SeatConflict(req[w].row.first, req[w].row.seats)
    /\ Finish(w)
    /\ UNCHANGED <<db, charge>>

ReviveCommit(w) ==
    /\ req[w].op = "revive"
    /\ LET q == req[w]
       IN  /\ pay' = [pay EXCEPT ![q.p].status = "completed"]
           /\ resv' = [resv EXCEPT
                         ![q.r].status = Flushed(q.row.status, "paid", @),
                         ![q.r].ticket = Flushed(q.row.ticket, "valid", @)]
    /\ Finish(w)
    /\ UNCHANGED <<sess, charge>>

-----------------------------------------------------------------------------
(* Giving the money back.                                                  *)

(* More than three days before departure the price, later half of it.      *)
RefundAmounts == {Half, Full}

(* Stripe refuses to refund a charge twice; the mock provider never does.  *)
Refundable(p, amount) ==
    /\ Provider = "stripe" => charge[p].refunded = 0
    /\ charge[p].refunded + amount <= MaxRefund

CancelRow(r, row) ==
    resv' = [resv EXCEPT ![r].status = Flushed(row.status, "canceled", @),
                         ![r].ticket = Flushed(row.ticket, "canceled", @)]

(* POST /payments/{id}/refund.                                             *)
RefundLoad(w, p) ==
    /\ pay[p].status = "completed"
    /\ Begin(w, "refund", [op |-> "refund", p |-> p, r |-> pay[p].resv])
    /\ UNCHANGED <<db, charge>>

RefundCharge(w) ==
    /\ req[w].op = "refund"
    /\ Refundable(req[w].p, Full)
    /\ charge' = [charge EXCEPT ![req[w].p].refunded = @ + Full]
    /\ Continue(w, [op |-> "refunded", p |-> req[w].p, r |-> req[w].r,
                    row |-> IF req[w].r = Null THEN Null ELSE resv[req[w].r]])
    /\ UNCHANGED db

RefundRejected(w) ==
    /\ req[w].op = "refund"
    /\ Provider = "stripe" /\ charge[req[w].p].refunded > 0
    /\ Finish(w)
    /\ UNCHANGED <<db, charge>>

RefundCommit(w) ==
    /\ req[w].op = "refunded"
    /\ pay' = [pay EXCEPT ![req[w].p].status = "refunded"]
    /\ IF req[w].r = Null THEN UNCHANGED resv ELSE CancelRow(req[w].r, req[w].row)
    /\ Finish(w)
    /\ UNCHANGED <<sess, charge>>

(* POST /reservations/{id}/cancel.  The departure date, which decides      *)
(* between a full and a half refund, is left open.  The refund goes to the *)
(* mock provider whatever PAYMENT_PROVIDER is.                             *)
CancelLoad(w, r) ==
    /\ r \in Live
    /\ Begin(w, "cancel", [op |-> "cancel", r |-> r, row |-> resv[r]])
    /\ UNCHANGED <<db, charge>>

PaidBy(r) == {p \in Payments : pay[p].resv = r /\ pay[p].status = "completed"}

CancelWithRefund(w, p, amount) ==
    /\ req[w].op = "cancel" /\ req[w].row.status = "paid"
    /\ PaidBy(req[w].r) = {p}
    /\ Provider = "mock" => Refundable(p, amount)
    /\ charge' = IF Provider = "mock"
                 THEN [charge EXCEPT ![p].refunded = @ + amount] ELSE charge
    /\ Continue(w, [op |-> "canceled", r |-> req[w].r, p |-> p,
                    row |-> [req[w].row EXCEPT !.ticket = resv[req[w].r].ticket]])
    /\ UNCHANGED db

CancelWithoutRefund(w) ==
    /\ req[w].op = "cancel"
    /\ req[w].row.status = "booked" \/ PaidBy(req[w].r) = {}
    /\ Continue(w, [op |-> "canceled", r |-> req[w].r, p |-> Null,
                    row |-> [req[w].row EXCEPT !.ticket = resv[req[w].r].ticket]])
    /\ UNCHANGED <<db, charge>>

CancelCommit(w) ==
    /\ req[w].op = "canceled"
    /\ CancelRow(req[w].r, req[w].row)
    /\ pay' = IF req[w].p = Null THEN pay
              ELSE [pay EXCEPT ![req[w].p].status = "refunded"]
    /\ Finish(w)
    /\ UNCHANGED <<sess, charge>>

-----------------------------------------------------------------------------
(* POST /tickets/{number}/validate at the gate.                            *)

ValidateLoad(w, r) ==
    /\ r \in Stored /\ resv[r].ticket = "valid"
    /\ Begin(w, "validate", [op |-> "validate", r |-> r])
    /\ UNCHANGED <<db, charge>>

ValidateCommit(w) ==
    /\ req[w].op = "validate"
    /\ resv' = [resv EXCEPT ![req[w].r].ticket = "used"]
    /\ Finish(w)
    /\ UNCHANGED <<sess, pay, charge>>

(* A worker dies or a later call of the handler raises: nothing that is    *)
(* not committed survives.                                                 *)
Drop(w) ==
    /\ "drop" \in Ops
    /\ req[w] # Idle
    /\ Finish(w)
    /\ UNCHANGED <<db, charge>>

-----------------------------------------------------------------------------
CheckoutStep(w) ==
    \/ \E S \in SUBSET Seats, first \in Seats : CreateLoad(w, S, first)
    \/ \E s \in Sessions : CreateCommit(w, s) \/ ExpireLoad(w, s) \/ PayLoad(w, s)
    \/ \E s \in Sessions, pax \in SUBSET Passports : SubmitLoad(w, s, pax)
    \/ ExpireCommit(w) \/ SubmitCommit(w)
    \/ \E p \in Payments : PayCommit(w, p)
    \/ PayAbort(w)

PaymentStep(w) ==
    \/ \E p \in Payments, verdict \in Verdict : WebhookLoad(w, p, verdict)
    \/ \E p \in Payments : VerifyLoad(w, p)
    \/ VerifyRetrieve(w)
    \/ ApplyToConsumed(w) \/ ApplyToOpen(w) \/ ApplyRefused(w)
    \/ ApplyToLinked(w) \/ ApplyUnpaid(w)
    \/ RecordCommit(w) \/ ReviveCommit(w) \/ MaterializeAbort(w)
    \/ \E r \in Reservations : MaterializeCommit(w, r)

CancelStep(w) ==
    \/ \E p \in Payments : RefundLoad(w, p)
    \/ RefundCharge(w) \/ RefundRejected(w) \/ RefundCommit(w)
    \/ \E r \in Reservations : CancelLoad(w, r) \/ ValidateLoad(w, r)
    \/ \E p \in Payments, amount \in RefundAmounts : CancelWithRefund(w, p, amount)
    \/ CancelWithoutRefund(w) \/ CancelCommit(w)
    \/ ValidateCommit(w)

Environment ==
    \/ \E s \in Sessions : Lapse(s)
    \/ \E p \in Payments : CustomerPays(p) \/ CustomerDefers(p) \/ ChargeExpires(p)

Next ==
    \/ Environment
    \/ \E w \in Workers : CheckoutStep(w) \/ PaymentStep(w) \/ CancelStep(w) \/ Drop(w)

Spec == Init /\ [][Next]_vars

-----------------------------------------------------------------------------
(* Fairness.  A handler that has started goes on; a session's time runs    *)
(* out; and the provider repeats a webhook until it is accepted.  The last *)
(* is strong fairness because the server always accepts another request,   *)
(* while the model has only a few workers.                                 *)

Step(w) == CheckoutStep(w) \/ PaymentStep(w) \/ CancelStep(w)

Fairness ==
    /\ \A w \in Workers : WF_vars(req[w] # Idle /\ Step(w))
    /\ \A s \in Sessions : WF_vars(Lapse(s))
    /\ \A p \in Payments :
          SF_vars(\E w \in Workers, verdict \in Verdict : WebhookLoad(w, p, verdict))

FairSpec == Spec /\ Fairness

-----------------------------------------------------------------------------
(* Properties.                                                             *)

(* However the webhook, the return page and their repetitions interleave,  *)
(* a checkout session turns into at most one reservation                   *)
(* (materialize_paid_reservation has no lock; the unique seats decide).    *)
OneReservationPerSession ==
    \A r1, r2 \in Stored : resv[r1].sess # Null /\ resv[r1].sess = resv[r2].sess => r1 = r2

(* No seat is sold twice, whether as the first seat of a booking or as one *)
(* of its seat rows; cancelling does not bring it back.                    *)
SeatSoldOnce ==
    \A r1, r2 \in Stored :
       r1 # r2 => ({resv[r1].first} \cup resv[r1].rows) \cap ({resv[r2].first} \cup resv[r2].rows) = {}

(* A payment recorded as completed belongs to a session that has become a  *)
(* reservation: no "payment successful" without a booking.                 *)
CompletedMeansSeated ==
    \A p \in Payments : pay[p].status = "completed" => sess[pay[p].sess].resv \in Stored

(* The three foreign keys agree: a payment's reservation is the one of its *)
(* session, and no second payment points to it, so the scalar_one_or_none  *)
(* of cancel_reservation_with_refund never meets two rows.                 *)
LinksAgree ==
    \A p \in Payments : pay[p].resv # Null =>
       /\ pay[p].resv \in Stored
       /\ resv[pay[p].resv].sess = pay[p].sess
       /\ sess[pay[p].sess].resv = pay[p].resv
       /\ \A q \in Payments : pay[q].resv = pay[p].resv => q = p

(* A reservation made by checkout has been paid for: the payment linked to *)
(* it was captured by the provider.                                        *)
NoFreeSeat ==
    \A r \in Stored : \E p \in Payments :
       pay[p].resv = r /\ (Provider = "stripe" => charge[p].state = "paid")

(* The seats of the flight as SeatSale sees them.                          *)
Buyer(x) ==
    LET sold == {r \in Stored : x \in {resv[r].first} \cup resv[r].rows}
    IN  IF sold = {} THEN Null ELSE resv[CHOOSE r \in sold : TRUE].sess

Asked(s) == IF sess[s].status = "absent" THEN {} ELSE sess[s].seats

Sale == INSTANCE SeatSale WITH asked <- [s \in Sessions |-> Asked(s)],
                               buyer <- [x \in Seats |-> Buyer(x)]

(* The handlers sell as SeatSale does: the seats a session asked for, all  *)
(* of them in one step, once, and for good.                                *)
ImplementsSeatSale == Sale!Spec

(* A captured payment is accepted in the end, unless its session has been  *)
(* marked expired or one of its seats has a reservation already: nothing   *)
(* else keeps the customer's money without a booking.                      *)
Stranded(p) ==
    \E s \in Sessions :
       /\ pay[p].sess = s
       /\ sess[s].status = "expired" \/ SeatConflict(sess[s].first, sess[s].seats)

CapturedSettles ==
    \A p \in Payments :
       charge[p].event = "completed" ~> pay[p].status = "completed" \/ Stranded(p)

-----------------------------------------------------------------------------
(* What documents, comments and tests of the repository say, and the code  *)
(* does not ensure.                                                        *)

(* A checkout session is a seat hold: no two active sessions hold a seat.  *)
HoldsDisjoint ==
    \A s, t \in Sessions :
       s # t /\ Active(s) /\ Active(t) => sess[s].seats \cap sess[t].seats = {}

(* A seat reported as available can be booked.                             *)
AvailableSeatIsFree == \A x \in Available : ~SeatConflict(x, {x})

(* A reservation whose payment was refunded stays canceled.                *)
RefundedStaysCanceled ==
    [][\A r \in Stored : \A p \in Payments :
         pay[p].resv = r /\ pay[p].status = "refunded" /\ resv[r].status = "canceled"
           => resv'[r].status = "canceled"]_vars

(* A second cancellation is rejected: the price is given back once.        *)
RefundedOnce == \A p \in Payments : charge[p].refunded <= Full

(* A payment recorded as refunded has been refunded by the provider.       *)
RefundedMeansMoneyBack ==
    \A p \in Payments : pay[p].status = "refunded" => charge[p].refunded > 0

(* A passport is on a flight once.                                         *)
PassengerOncePerFlight ==
    \A r1, r2 \in Live : resv[r1].pax \cap resv[r2].pax # {} => r1 = r2

=============================================================================
