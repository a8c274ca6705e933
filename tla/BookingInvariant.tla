--------------------------- MODULE BookingInvariant --------------------------
(***************************************************************************)
(* The inductive invariants behind the theorems of BookingProofs: one of   *)
(* DirectBooking, and what it comes to when there are no direct bookings.  *)
(* A request acts on rows it loaded some steps ago, so most of them says   *)
(* what remains true of those while others commit.                         *)
(***************************************************************************)
EXTENDS DirectBooking

Opened == {s \in Sessions : sess[s].status # "absent"}
Issued == {p \in Payments : pay[p].status # "absent"}

SessionRows ==
    \A s \in Opened :
       /\ sess[s].first \in sess[s].seats
       /\ sess[s].resv # Null => /\ sess[s].resv \in Stored
                                 /\ resv[sess[s].resv].sess = s

PaymentRows ==
    \A p \in Payments :
       /\ p \in Issued => pay[p].sess \in Opened
       /\ p \notin Issued => pay[p].resv = Null

(* What a session has been turned into has the session's seats.            *)
ReservationRows ==
    \A r \in Stored \ Direct :
       /\ resv[r].sess \in Opened
       /\ resv[r].rows = sess[resv[r].sess].seats
       /\ resv[r].first = sess[resv[r].sess].first

(* The unique indexes: in each of the two seat columns a seat occurs once. *)
UniqueColumns ==
    \A r1, r2 \in Stored : r1 # r2 =>
       /\ resv[r1].first # resv[r2].first
       /\ resv[r1].rows \cap resv[r2].rows = {}

(* A payment linked to a reservation has been captured, and so has one     *)
(* whose completion event says so.                                         *)
Captured(p) == Provider = "stripe" => charge[p].state = "paid"
ChargeRows ==
    \A p \in Payments :
       /\ p \notin Issued => charge[p].state = "none" /\ charge[p].event = "none"
       /\ charge[p].event = "completed" => charge[p].state = "paid"
       /\ pay[p].resv # Null => Captured(p)

CheckoutPaid ==
    \A r \in Stored \ Direct : \E p \in Payments : pay[p].resv = r /\ Captured(p)

(* What a request has loaded is still so in these columns.                 *)
SeenIsFresh(q) ==
    /\ q.p \in Issued
    /\ q.seen.sess = pay[q.p].sess
    /\ q.seen.resv # Null => q.seen.resv = pay[q.p].resv

(* The last two clauses: the gate was shown no provisional ticket, and the *)
(* passengers of a direct booking do not find it paid.                     *)
Fresh(q) ==
    /\ q.op = "create" => q.first \in q.seats
    /\ q.op \in {"expire", "submit", "pay"} => q.s \in Opened
    /\ q.op = "verify" => SeenIsFresh(q)
    /\ q.op = "apply" => SeenIsFresh(q) /\ (q.verdict = "completed" => Captured(q.p))
    /\ q.op = "materialize" =>
          /\ q.p \in Issued /\ Captured(q.p)
          /\ q.s = pay[q.p].sess
          /\ q.row.seats = sess[q.s].seats /\ q.row.first = sess[q.s].first
    /\ q.op = "record" =>
          /\ q.p \in Issued
          /\ q.verdict = "completed" => sess[pay[q.p].sess].resv \in Stored
    /\ q.op = "revive" => q.p \in Issued /\ q.r = pay[q.p].resv
    /\ q.op \in {"refund", "refunded"} => q.p \in Issued /\ (q.r # Null => q.r \in Stored)
    /\ q.op \in {"cancel", "canceled", "validate", "details"} => q.r \in Stored
    /\ q.op = "canceled" => (q.p # Null => q.p \in Issued)
    /\ q.op = "validate" => (q.r \in Direct => resv[q.r].rows = {})
    /\ q.op = "details" => (q.r \in Direct => q.row.status # "paid")

FreshRequests == \A w \in Workers : Fresh(req[w])

(* The invariant itself: what is claimed, and what keeps it true.          *)
DirectInv ==
    /\ DirectTypeOK
    /\ SessionRows /\ PaymentRows /\ ReservationRows /\ ChargeRows
    /\ FreshRequests
    /\ UniqueColumns /\ CompletedMeansSeated /\ LinksAgree /\ CheckoutPaid
    /\ ProvisionalNeverBoards

(* In Booking alone every reservation comes from a session, and the seat   *)
(* columns hold the same seats.                                            *)
BookingInv ==
    /\ TypeOK
    /\ Direct = {}
    /\ SessionRows /\ PaymentRows /\ ReservationRows /\ ChargeRows
    /\ FreshRequests
    /\ SeatSoldOnce /\ CompletedMeansSeated /\ LinksAgree /\ NoFreeSeat

=============================================================================
