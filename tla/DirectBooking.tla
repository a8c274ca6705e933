---------------------------- MODULE DirectBooking ----------------------------
(***************************************************************************)
(* The older ways to book, composed with the checkout of Booking over the  *)
(* same tables: POST /orders and POST /reservations insert a reservation   *)
(* without a session or a payment, and the passengers of the latter come   *)
(* afterwards.  Both look at no hold and no taken seat: the unique seats   *)
(* decide.                                                                 *)
(***************************************************************************)
EXTENDS Booking

DetailsRequest == [op: {"details"}, r: Reservations, pax: SUBSET Passports,
                   row: ReservationRow]
DirectRequest == Request \cup DetailsRequest

(* Rows and requests keep their types.                                     *)
DirectTypeOK ==
    /\ sess \in [Sessions -> SessionRow]
    /\ pay \in [Payments -> PaymentRow]
    /\ resv \in [Reservations -> ReservationRow]
    /\ charge \in [Payments -> Charge]
    /\ req \in [Workers -> DirectRequest]

Direct == {r \in Stored : resv[r].sess = Null}

(* A bound of the model: direct bookings leave a row for each session.     *)
SpareRow == Cardinality(Sessions) < Cardinality(Reservations \ Stored)

-----------------------------------------------------------------------------
(* POST /orders: one seat, no row in reservation_seats, a valid ticket.    *)
Order(r, x) ==
    /\ "order" \in Ops /\ SpareRow
    /\ resv[r].status = "absent"
    /\ ~SeatConflict(x, {})
    /\ resv' = [resv EXCEPT ![r] = [status |-> "booked", sess |-> Null, first |-> x,
                                    rows |-> {}, pax |-> {}, ticket |-> "valid"]]
    /\ UNCHANGED <<sess, pay, charge, req>>

(* Faults: the ticket takes the status of the reservation; the provisional *)
(* ticket is issued as a valid one.                                        *)
ReserveMislabels(r, S, x) ==
    /\ "reserve" \in Ops /\ SpareRow
    /\ x \in S
    /\ resv[r].status = "absent"
    /\ ~SeatConflict(x, S)
    /\ resv' = [resv EXCEPT ![r] = [status |-> "booked", sess |-> Null, first |-> x,
                                    rows |-> S, pax |-> {}, ticket |-> "booked"]]
    /\ UNCHANGED <<sess, pay, charge, req>>
ReserveIssues(r, S, x) ==
    /\ "reserve" \in Ops /\ SpareRow
    /\ x \in S
    /\ resv[r].status = "absent"
    /\ ~SeatConflict(x, S)
    /\ resv' = [resv EXCEPT ![r] = [status |-> "booked", sess |-> Null, first |-> x,
                                    rows |-> S, pax |-> {}, ticket |-> "valid"]]
    /\ UNCHANGED <<sess, pay, charge, req>>

(* POST /reservations: seats, and a ticket that waits for the passengers.  *)
Reserve(r, S, x) ==
    /\ "reserve" \in Ops /\ SpareRow
    /\ x \in S
    /\ resv[r].status = "absent"
    /\ ~SeatConflict(x, S)
    /\ resv' = [resv EXCEPT ![r] = [status |-> "booked", sess |-> Null, first |-> x,
                                    rows |-> S, pax |-> {}, ticket |-> "pending_passenger"]]
    /\ UNCHANGED <<sess, pay, charge, req>>

(* POST /reservations/{id}/passenger-details.  An order has one passenger, *)
(* on its only seat.                                                       *)
DetailsLoad(w, r, pax) ==
    /\ r \in Live
    /\ resv[r].pax = {}
    /\ Cardinality(pax) = Cardinality({resv[r].first} \cup resv[r].rows)
    /\ \A passport \in pax : ~PassengerOnFlight(passport)
    /\ Begin(w, "details", [op |-> "details", r |-> r, pax |-> pax, row |-> resv[r]])
    /\ UNCHANGED <<db, charge>>

(* Faults: the status is written back with the passengers; a second        *)
(* submission replaces the first.                                          *)
DetailsRebook(w) ==
    /\ req[w].op = "details"
    /\ resv[req[w].r].pax = {}
    /\ resv' = [resv EXCEPT ![req[w].r].pax = req[w].pax,
                            ![req[w].r].status = req[w].row.status]
    /\ Finish(w)
    /\ UNCHANGED <<sess, pay, charge>>
DetailsReplace(w) ==
    /\ req[w].op = "details"
    /\ resv' = [resv EXCEPT ![req[w].r].pax = req[w].pax]
    /\ Finish(w)
    /\ UNCHANGED <<sess, pay, charge>>

(* The passengers are numbered, and the numbers unique in a reservation:   *)
(* the second of two submissions meets the key and is rolled back.         *)
DetailsCommit(w) ==
    /\ req[w].op = "details"
    /\ resv[req[w].r].pax = {}
    /\ resv' = [resv EXCEPT
                  ![req[w].r].pax = req[w].pax,
                  ![req[w].r].ticket = IF req[w].row.status = "paid"
                                       THEN Flushed(req[w].row.ticket, "valid", @) ELSE @]
    /\ Finish(w)
    /\ UNCHANGED <<sess, pay, charge>>

DetailsAbort(w) ==
    /\ req[w].op = "details"
    /\ resv[req[w].r].pax # {}
    /\ Finish(w)
    /\ UNCHANGED <<db, charge>>

DirectStep ==
    \/ \E r \in Reservations, x \in Seats :
          Order(r, x) \/ \E S \in SUBSET Seats : Reserve(r, S, x)
    \/ \E w \in Workers :
          \/ \E r \in Reservations, pax \in SUBSET Passports : DetailsLoad(w, r, pax)
          \/ DetailsCommit(w) \/ DetailsAbort(w)

DirectNext == Next \/ DirectStep

DirectSpec == Init /\ [][DirectNext]_vars

-----------------------------------------------------------------------------
(* Properties.                                                             *)

(* Payments are made for sessions only, so a reservation that was made     *)
(* without one is never paid, nor its provisional ticket ever activated:   *)
(* it can only be canceled.                                                *)
ProvisionalNeverBoards ==
    \A r \in Direct :
       /\ resv[r].status \in {"booked", "canceled"}
       /\ resv[r].rows # {} => resv[r].ticket \in {"pending_passenger", "canceled"}

(* No request in progress brings a canceled direct booking back: what the  *)
(* refund of a checkout booking does not achieve, a cancellation of a      *)
(* direct one does.                                                        *)
DirectStaysCanceled ==
    [][\A r \in Direct : resv[r].status = "canceled" => resv'[r].status = "canceled"]_vars

(* Passengers, once accepted, are not replaced by those of a request that  *)
(* was loaded before them.                                                 *)
PassengersKept ==
    [][\A r \in Stored : resv[r].pax # {} => resv'[r].pax = resv[r].pax]_vars

(* With direct bookings taking seats from under the sessions, the links of *)
(* payments, sessions and reservations still agree, a completed payment    *)
(* still has its booking, and a session still becomes one reservation.     *)
CheckoutUnharmed == LinksAgree /\ CompletedMeansSeated /\ OneReservationPerSession

=============================================================================
