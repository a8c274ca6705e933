---------------------------- MODULE BookingProofs ----------------------------
(***************************************************************************)
(* Theorems about Booking, and about Booking with the older ways to book,  *)
(* for every number of sessions, payments, seats, workers, kinds of        *)
(* request and both providers.  One inductive invariant, DirectInv, serves *)
(* both: Booking is DirectBooking before anybody books directly.           *)
(***************************************************************************)
EXTENDS BookingInvariant, TLAPS

-----------------------------------------------------------------------------
(* Requests.                                                               *)

(* The fields of a request, by kind.                                       *)
LEMMA RequestFields ==
    ASSUME NEW q \in DirectRequest
    PROVE  /\ q.op = "create" => q.seats \in SUBSET Seats /\ q.first \in Seats
           /\ q.op \in {"expire", "submit", "pay"} => q.s \in Sessions
           /\ q.op = "submit" => q.pax \in SUBSET Passports
           /\ q.op \in {"verify", "apply"} => q.p \in Payments /\ q.seen \in PaymentRow
           /\ q.op = "apply" => q.verdict \in Verdict
           /\ q.op = "materialize" => q.p \in Payments /\ q.s \in Sessions /\ q.row \in SessionRow
           /\ q.op = "record" => q.p \in Payments /\ q.verdict \in Verdict /\ q.close \in BOOLEAN
           /\ q.op = "revive" => q.p \in Payments /\ q.r \in Reservations /\ q.row \in ReservationRow
           /\ q.op = "refund" => q.p \in Payments /\ q.r \in Key(Reservations)
           /\ q.op = "refunded" => /\ q.p \in Payments /\ q.r \in Key(Reservations)
                                   /\ q.r # Null => q.row \in ReservationRow
           /\ q.op \in {"cancel", "canceled"} => q.r \in Reservations /\ q.row \in ReservationRow
           /\ q.op = "canceled" => q.p \in Key(Payments)
           /\ q.op = "validate" => q.r \in Reservations
           /\ q.op = "details" => /\ q.r \in Reservations /\ q.pax \in SUBSET Passports
                                  /\ q.row \in ReservationRow
  BY DEF DirectRequest, DetailsRequest, Request, Idle, Key

(* An idle worker has nothing to be stale.                                 *)
LEMMA IdleIsRequest == Idle \in DirectRequest /\ Fresh(Idle)
  BY DEF DirectRequest, Request, Idle, Fresh

(* What a commit may do to the rows other requests have loaded: rows stay, *)
(* and the columns that requests rely on keep their values.                *)
Grows ==
    /\ \A s \in Opened :
          /\ s \in Opened'
          /\ sess'[s].seats = sess[s].seats
          /\ sess'[s].first = sess[s].first
          /\ sess[s].resv \in Stored => sess'[s].resv \in Stored'
    /\ \A p \in Issued :
          /\ p \in Issued'
          /\ pay'[p].sess = pay[p].sess
          /\ pay[p].resv # Null => pay'[p].resv = pay[p].resv
          /\ Captured(p) => Captured(p)'
    /\ \A r \in Stored :
          /\ r \in Stored'
          /\ resv'[r].sess = resv[r].sess
          /\ resv'[r].rows = resv[r].rows

(* What a request has loaded stays fresh while sessions keep their seats   *)
(* and their reservation, payments their session and reservation,          *)
(* reservations stay stored and captured charges captured.                 *)
LEMMA FreshStays ==
    ASSUME BookingAssumption, DirectTypeOK, PaymentRows, Grows,
           NEW q \in DirectRequest, Fresh(q)
    PROVE  Fresh(q)'
<1>1. /\ q.op = "create" => (q.first \in q.seats)
      /\ q.op \in {"expire", "submit", "pay"} => q.s \in Opened'
  BY DEF Fresh, Grows
<1>2. SeenIsFresh(q) => SeenIsFresh(q)'
  BY DEF SeenIsFresh, Grows
<1>3. q.op = "apply" => SeenIsFresh(q)' /\ (q.verdict = "completed" => Captured(q.p)')
  <2>1. CASE q.op = "apply"
    <3>1. SeenIsFresh(q) /\ q.p \in Issued
      BY <2>1 DEF Fresh, SeenIsFresh
    <3>2. q.verdict = "completed" => Captured(q.p)'
      BY <2>1, <3>1 DEF Fresh, Grows
    <3>. QED  BY <1>2, <3>1, <3>2
  <2>. QED  BY <2>1
<1>4. q.op = "materialize" =>
          /\ q.p \in Issued' /\ Captured(q.p)'
          /\ q.s = pay'[q.p].sess
          /\ q.row.seats = sess'[q.s].seats /\ q.row.first = sess'[q.s].first
  BY RequestFields DEF Fresh, Grows, PaymentRows
<1>5. q.op = "record" =>
          /\ q.p \in Issued'
          /\ q.verdict = "completed" => sess'[pay'[q.p].sess].resv \in Stored'
  BY RequestFields DEF Fresh, Grows, PaymentRows, Issued
<1>6. q.op = "revive" => q.p \in Issued' /\ q.r = pay'[q.p].resv
  BY RequestFields DEF Fresh, Grows, BookingAssumption
<1>7. /\ q.op \in {"refund", "refunded"} => q.p \in Issued' /\ (q.r # Null => q.r \in Stored')
      /\ q.op \in {"cancel", "canceled", "validate", "details"} => q.r \in Stored'
      /\ q.op = "canceled" => (q.p # Null => q.p \in Issued')
  BY DEF Fresh, Grows
<1>9. /\ q.op = "validate" => (q.r \in Direct' => resv'[q.r].rows = {})
      /\ q.op = "details" => (q.r \in Direct' => q.row.status # "paid")
  BY DEF Fresh, Grows, Direct
<1>8. q.op = "verify" => SeenIsFresh(q)'
  BY <1>2 DEF Fresh
<1>. QED
  BY <1>1, <1>3, <1>4, <1>5, <1>6, <1>7, <1>8, <1>9 DEF Fresh

(* A fresh request is fresh read from the worker that serves it.           *)
LEMMA FreshAfter ==
    ASSUME NEW v \in Workers, NEW q \in DirectRequest, req'[v] = q, Fresh(q)'
    PROVE  Fresh(req[v])'
  BY DEF Fresh, SeenIsFresh, Captured, Opened, Issued, Stored, Direct

(* A step that only advances a request to one whose loaded columns are     *)
(* fresh keeps the invariant: every load, refusal and rollback.            *)
LEMMA RequestStep ==
    ASSUME DirectInv, NEW w \in Workers, NEW q \in DirectRequest, Fresh(q),
           Continue(w, q), UNCHANGED <<db, charge>>
    PROVE  DirectInv'
<1>. USE DEF db
<1>1. DirectTypeOK'
  BY DEF DirectInv, DirectTypeOK, Continue
<1>2. FreshRequests'
  <2>1. SUFFICES ASSUME NEW v \in Workers PROVE Fresh(req[v])'
    BY DEF FreshRequests
  <2>2. PICK k \in DirectRequest : k = req'[v] /\ Fresh(k)
    BY DEF DirectInv, FreshRequests, DirectTypeOK, Continue
  <2>3. Fresh(k)'
    BY <2>2 DEF Fresh, SeenIsFresh, Captured, Opened, Issued, Stored, Direct
  <2>. QED
    BY <2>2, <2>3, FreshAfter
<1>3. (SessionRows /\ PaymentRows /\ ReservationRows /\ ChargeRows)'
  BY DEF DirectInv, SessionRows, PaymentRows, ReservationRows, ChargeRows,
         Captured, Opened, Issued, Stored, Direct
<1>4. (UniqueColumns /\ CompletedMeansSeated /\ LinksAgree /\ CheckoutPaid)'
  BY DEF DirectInv, UniqueColumns, CompletedMeansSeated, LinksAgree, CheckoutPaid, Captured, Stored,
         Direct
<1>5. ProvisionalNeverBoards'
  BY DEF DirectInv, ProvisionalNeverBoards, Direct, Stored
<1>. QED
  BY <1>1, <1>2, <1>3, <1>4, <1>5 DEF DirectInv

(* A step that only ends a request preserves the invariant.                *)
LEMMA RequestEnds ==
    ASSUME DirectInv, NEW w \in Workers, Finish(w), UNCHANGED <<db, charge>>
    PROVE  DirectInv'
  BY RequestStep, IdleIsRequest DEF Finish, Continue

(* The requests in progress stay fresh when the tables grow, and at most   *)
(* one of them goes on with columns that are fresh.                        *)
OneGoesOn == \E w \in Workers, q \in DirectRequest : Fresh(q) /\ Continue(w, q)

(* Requests stay fresh while the tables grow and at most one goes on.      *)
LEMMA RequestsStay ==
    ASSUME BookingAssumption, DirectInv, Grows, OneGoesOn \/ UNCHANGED req
    PROVE  FreshRequests'
<1>1. SUFFICES ASSUME NEW v \in Workers PROVE Fresh(req[v])'
  BY DEF FreshRequests
<1>2. PICK k \in DirectRequest : k = req'[v] /\ Fresh(k)
  BY DEF DirectInv, FreshRequests, DirectTypeOK, Continue, OneGoesOn
<1>3. Fresh(k)'
  BY <1>2, FreshStays DEF DirectInv
<1>. QED
  BY <1>2, <1>3, FreshAfter

(* A commit that keeps keys, links and the provider's account of the       *)
(* payments changes statuses only; it may not complete a payment whose     *)
(* session has no reservation.                                             *)
SameLinks ==
    /\ \A s \in Sessions :
          /\ (sess'[s].status = "absent") <=> (sess[s].status = "absent")
          /\ sess'[s].seats = sess[s].seats
          /\ sess'[s].first = sess[s].first
          /\ sess'[s].resv = sess[s].resv
    /\ \A p \in Payments :
          /\ (pay'[p].status = "absent") <=> (pay[p].status = "absent")
          /\ pay'[p].sess = pay[p].sess
          /\ pay'[p].resv = pay[p].resv
          /\ charge'[p].state = charge[p].state
          /\ charge'[p].event = charge[p].event
          /\ pay'[p].status = "completed" =>
                pay[p].status = "completed" \/ sess[pay[p].sess].resv \in Stored
    /\ \A r \in Reservations :
          /\ (resv'[r].status = "absent") <=> (resv[r].status = "absent")
          /\ resv'[r].sess = resv[r].sess
          /\ resv'[r].first = resv[r].first
          /\ resv'[r].rows = resv[r].rows

(* A step that only cancels direct bookings keeps their tickets shut.      *)
LEMMA ProvisionalStays ==
    ASSUME DirectInv,
           \A x \in Reservations :
              /\ (resv'[x].status = "absent") <=> (resv[x].status = "absent")
              /\ resv'[x].sess = resv[x].sess
              /\ resv'[x].rows = resv[x].rows
              /\ x \in Direct =>
                    /\ resv'[x].status \in {resv[x].status, "canceled"}
                    /\ resv[x].rows # {} => resv'[x].ticket \in {resv[x].ticket, "canceled"}
    PROVE  ProvisionalNeverBoards'
  BY DEF DirectInv, ProvisionalNeverBoards, Direct, Stored

(* A step that changes statuses only, and no column the invariant relates, *)
(* preserves it.                                                           *)
LEMMA StatusStep ==
    ASSUME BookingAssumption, DirectInv, SameLinks, DirectTypeOK',
           UNCHANGED resv \/ ProvisionalNeverBoards',
           OneGoesOn \/ UNCHANGED req
    PROVE  DirectInv'
<1>1. /\ Opened' = Opened
      /\ Issued' = Issued
      /\ Stored' = Stored
      /\ Direct' = Direct
  BY DEF SameLinks, Opened, Issued, Stored, Direct
<1>2. SessionRows'
  BY <1>1 DEF DirectInv, SessionRows, SameLinks, Opened, Stored
<1>3. PaymentRows'
  BY <1>1 DEF DirectInv, PaymentRows, SameLinks
<1>4. ReservationRows'
  BY <1>1 DEF DirectInv, ReservationRows, SameLinks, Stored, Opened
<1>5. ChargeRows'
  BY <1>1 DEF DirectInv, ChargeRows, SameLinks, Captured
<1>6. UniqueColumns'
  BY <1>1 DEF DirectInv, UniqueColumns, SameLinks, Stored
<1>7. CompletedMeansSeated'
  <2>1. SUFFICES ASSUME NEW p \in Payments, pay'[p].status = "completed"
                 PROVE  sess'[pay'[p].sess].resv \in Stored'
    BY DEF CompletedMeansSeated
  <2>2. p \in Issued /\ pay[p].sess \in Sessions
    BY <2>1 DEF SameLinks, Issued, DirectInv, PaymentRows, Opened
  <2>3. sess[pay[p].sess].resv \in Stored
    BY <2>1 DEF SameLinks, DirectInv, CompletedMeansSeated
  <2>. QED
    BY <1>1, <2>2, <2>3 DEF SameLinks
<1>8. LinksAgree'
  BY <1>1 DEF DirectInv, LinksAgree, SameLinks, PaymentRows, Stored, Issued, Opened
<1>9. CheckoutPaid'
  BY <1>1 DEF DirectInv, CheckoutPaid, SameLinks, Captured
<1>11. ProvisionalNeverBoards'
  BY <1>1 DEF DirectInv, ProvisionalNeverBoards
<1>10. FreshRequests'
  <2>1. Grows
    BY <1>1 DEF Grows, SameLinks, Opened, Issued, Captured, Stored
  <2>. QED
    BY <2>1, RequestsStay
<1>. QED
  BY <1>2, <1>3, <1>4, <1>5, <1>6, <1>7, <1>8, <1>9, <1>10, <1>11 DEF DirectInv

-----------------------------------------------------------------------------
(* The steps that load, refuse or roll back.                               *)

(* Checkout requests that only read.                                       *)
LEMMA CheckoutLoads ==
    ASSUME DirectInv, NEW w \in Workers
    PROVE  /\ \A S \in SUBSET Seats, first \in Seats : CreateLoad(w, S, first) => DirectInv'
           /\ \A s \in Sessions : ExpireLoad(w, s) \/ PayLoad(w, s) => DirectInv'
           /\ \A s \in Sessions, pax \in SUBSET Passports : SubmitLoad(w, s, pax) => DirectInv'
           /\ PayAbort(w) => DirectInv'
<1>1. ASSUME NEW S \in SUBSET Seats, NEW first \in Seats, CreateLoad(w, S, first)
      PROVE  DirectInv'
  <2>. DEFINE q == [op |-> "create", seats |-> S, first |-> first]
  <2>1. q \in DirectRequest /\ Fresh(q)
    BY <1>1 DEF DirectRequest, Request, Fresh, CreateLoad
  <2>. QED
    BY <1>1, <2>1, RequestStep DEF CreateLoad, Begin, Continue
<1>2. ASSUME NEW s \in Sessions, NEW kind \in {"expire", "pay"}, s \in Opened,
             Continue(w, [op |-> kind, s |-> s]), UNCHANGED <<db, charge>>
      PROVE  DirectInv'
  <2>. DEFINE q == [op |-> kind, s |-> s]
  <2>1. q \in DirectRequest /\ Fresh(q)
    BY <1>2 DEF DirectRequest, Request, Fresh
  <2>. QED
    BY <1>2, <2>1, RequestStep
<1>3. ASSUME NEW s \in Sessions, ExpireLoad(w, s) \/ PayLoad(w, s)
      PROVE  DirectInv'
  BY <1>2, <1>3 DEF ExpireLoad, PayLoad, Begin, Continue, Opened, Active
<1>4. ASSUME NEW s \in Sessions, NEW pax \in SUBSET Passports, SubmitLoad(w, s, pax)
      PROVE  DirectInv'
  <2>. DEFINE q == [op |-> "submit", s |-> s, pax |-> pax]
  <2>1. q \in DirectRequest /\ Fresh(q)
    BY <1>4 DEF DirectRequest, Request, Fresh, SubmitLoad, Opened, Active
  <2>. QED
    BY <1>4, <2>1, RequestStep DEF SubmitLoad, Begin, Continue
<1>5. PayAbort(w) => DirectInv'
  BY RequestEnds DEF PayAbort
<1>. QED
  BY <1>1, <1>3, <1>4, <1>5

(* Webhook and return page up to what they load.                           *)
LEMMA PaymentLoads ==
    ASSUME DirectInv, NEW w \in Workers
    PROVE  /\ \A p \in Payments, verdict \in Verdict : WebhookLoad(w, p, verdict) => DirectInv'
           /\ \A p \in Payments : VerifyLoad(w, p) => DirectInv'
           /\ VerifyRetrieve(w) => DirectInv'
<1>1. ASSUME NEW p \in Payments, NEW verdict \in Verdict, WebhookLoad(w, p, verdict)
      PROVE  DirectInv'
  <2>. DEFINE q == [op |-> "apply", p |-> p, seen |-> pay[p], verdict |-> verdict]
  <2>1. q \in DirectRequest
    BY DEF DirectRequest, Request, DirectInv, DirectTypeOK
  <2>2. verdict = "completed" => Captured(p)
    BY <1>1 DEF WebhookLoad, WebhookVerdicts, Captured, DirectInv, ChargeRows
  <2>3. Fresh(q)
    BY <1>1, <2>2 DEF Fresh, SeenIsFresh, WebhookLoad, Issued
  <2>. QED
    BY <1>1, <2>1, <2>3, RequestStep DEF WebhookLoad, Begin, Continue
<1>2. ASSUME NEW p \in Payments, VerifyLoad(w, p)
      PROVE  DirectInv'
  <2>. DEFINE q == [op |-> "verify", p |-> p, seen |-> pay[p]]
  <2>1. q \in DirectRequest
    BY DEF DirectRequest, Request, DirectInv, DirectTypeOK
  <2>2. Fresh(q)
    BY <1>2 DEF Fresh, SeenIsFresh, VerifyLoad, Issued
  <2>. QED
    BY <1>2, <2>1, <2>2, RequestStep DEF VerifyLoad, Begin, Continue
<1>3. ASSUME VerifyRetrieve(w)
      PROVE  DirectInv'
  <2>. DEFINE old == req[w]
              verdict == RetrievedStatus(old.p)
              q == [op |-> "apply", p |-> old.p, seen |-> old.seen, verdict |-> verdict]
  <2>1. old \in DirectRequest /\ Fresh(old) /\ old.op = "verify"
    BY <1>3 DEF VerifyRetrieve, DirectInv, DirectTypeOK, FreshRequests
  <2>2. old.p \in Payments /\ old.seen \in PaymentRow
    BY <2>1, RequestFields
  <2>3. verdict \in Verdict /\ (verdict = "completed" => Captured(old.p))
    BY DEF RetrievedStatus, Verdict, Captured
  <2>4. q \in DirectRequest
    BY <2>2, <2>3 DEF DirectRequest, Request
  <2>5. Fresh(q)
    BY <2>1, <2>3 DEF Fresh, SeenIsFresh
  <2>6. CASE verdict = old.seen.status
    BY <1>3, <2>6, RequestEnds DEF VerifyRetrieve, Continue, Finish
  <2>7. CASE verdict # old.seen.status
    BY <1>3, <2>4, <2>5, <2>7, RequestStep DEF VerifyRetrieve
  <2>. QED
    BY <2>6, <2>7
<1>. QED
  BY <1>1, <1>2, <1>3

(* _apply_payment_status up to its commit.                                 *)
LEMMA ApplySteps ==
    ASSUME BookingAssumption, DirectInv, NEW w \in Workers,
           \/ ApplyToConsumed(w) \/ ApplyToOpen(w) \/ ApplyRefused(w)
           \/ ApplyToLinked(w) \/ ApplyUnpaid(w) \/ MaterializeAbort(w)
    PROVE  DirectInv'
<1>. DEFINE old == req[w]
            s == old.seen.sess
<1>1. old \in DirectRequest /\ Fresh(old)
  BY DEF DirectInv, DirectTypeOK, FreshRequests
<1>2. CASE ApplyRefused(w) \/ MaterializeAbort(w)
  BY <1>2, RequestEnds DEF ApplyRefused, MaterializeAbort
<1>3. ASSUME old.op = "apply"
      PROVE  /\ old.p \in Issued /\ old.p \in Payments /\ old.seen \in PaymentRow
             /\ old.verdict \in Verdict
             /\ s = pay[old.p].sess /\ s \in Opened /\ s \in Sessions
             /\ old.seen.resv # Null => old.seen.resv = pay[old.p].resv
             /\ old.verdict = "completed" => Captured(old.p)
  <2>1. SeenIsFresh(old) /\ (old.verdict = "completed" => Captured(old.p))
    BY <1>1, <1>3 DEF Fresh
  <2>2. old.p \in Payments /\ old.seen \in PaymentRow /\ old.verdict \in Verdict
    BY <1>1, <1>3, RequestFields
  <2>. QED
    BY <2>1, <2>2 DEF SeenIsFresh, DirectInv, PaymentRows, Opened
<1>4. CASE ApplyToConsumed(w)
  <2>. DEFINE q == [op |-> "record", p |-> old.p, verdict |-> "completed", close |-> FALSE]
  <2>1. q \in DirectRequest
    BY <1>3, <1>4 DEF DirectRequest, Request, Verdict, ApplyToConsumed, Materializing
  <2>2. Fresh(q)
    BY <1>3, <1>4 DEF Fresh, ApplyToConsumed, Materializing, Consumed, DirectInv, SessionRows
  <2>. QED
    BY <1>4, <2>1, <2>2, RequestStep DEF ApplyToConsumed
<1>5. CASE ApplyToOpen(w)
  <2>. DEFINE q == [op |-> "materialize", p |-> old.p, s |-> s, row |-> sess[s]]
  <2>1. q \in DirectRequest
    BY <1>3, <1>5 DEF DirectRequest, Request, ApplyToOpen, Materializing, DirectInv, DirectTypeOK
  <2>2. Fresh(q)
    BY <1>3, <1>5 DEF Fresh, ApplyToOpen, Materializing
  <2>. QED
    BY <1>5, <2>1, <2>2, RequestStep DEF ApplyToOpen
<1>6. CASE ApplyToLinked(w)
  <2>. DEFINE r == old.seen.resv
              q == [op |-> "revive", p |-> old.p, r |-> r, row |-> resv[r]]
  <2>1. r \in Reservations /\ r = pay[old.p].resv
    BY <1>3, <1>6 DEF ApplyToLinked, PaymentRow, Key
  <2>2. q \in DirectRequest
    BY <1>3, <1>6, <2>1 DEF DirectRequest, Request, ApplyToLinked, DirectInv, DirectTypeOK
  <2>3. Fresh(q)
    BY <1>3, <1>6, <2>1 DEF Fresh, ApplyToLinked
  <2>. QED
    BY <1>6, <2>2, <2>3, RequestStep DEF ApplyToLinked
<1>7. CASE ApplyUnpaid(w)
  <2>. DEFINE shut == old.verdict = "failed" /\ sess[s].status = "open"
              q == [op |-> "record", p |-> old.p, verdict |-> old.verdict, close |-> shut]
  <2>1. q \in DirectRequest
    <3>. HIDE DEF shut
    <3>1. shut \in BOOLEAN
      BY DEF shut
    <3>. QED
      BY <1>3, <1>7, <3>1 DEF DirectRequest, Request, ApplyUnpaid
  <2>2. Fresh(q)
    BY <1>3, <1>7 DEF Fresh, ApplyUnpaid
  <2>. QED
    BY <1>7, <2>1, <2>2, RequestStep DEF ApplyUnpaid
<1>. QED
  BY <1>2, <1>4, <1>5, <1>6, <1>7

-----------------------------------------------------------------------------
(* The steps that change statuses only.                                    *)

(* Time goes by.                                                           *)
LEMMA LapseSteps ==
    ASSUME BookingAssumption, DirectInv, NEW s \in Sessions, Lapse(s)
    PROVE  DirectInv'
<1>1. DirectTypeOK'
  <2>. DEFINE row == [sess[s] EXCEPT !.lapsed = TRUE]
  <2>1. row \in SessionRow
    <3>1. sess[s] \in SessionRow
      BY DEF DirectInv, DirectTypeOK
    <3>. QED
      BY <3>1, Zenon DEF SessionRow
  <2>2. sess' = [sess EXCEPT ![s] = row]
    BY DEF Lapse
  <2>. QED
    BY <2>1, <2>2 DEF Lapse, DirectInv, DirectTypeOK
<1>2. SameLinks
  BY DEF Lapse, DirectInv, DirectTypeOK, SessionRow, SameLinks
<1>. QED
  BY <1>1, <1>2, StatusStep DEF Lapse

(* The commits of an expiring GET and of submitted passengers.             *)
LEMMA CheckoutUpdates ==
    ASSUME BookingAssumption, DirectInv, NEW w \in Workers, ExpireCommit(w) \/ SubmitCommit(w)
    PROVE  DirectInv'
<1>. DEFINE q == req[w]
<1>1. /\ q \in DirectRequest /\ q.s \in Sessions /\ sess[q.s].status # "absent"
      /\ q.op = "submit" => q.pax \in SUBSET Passports
  <2>1. q \in DirectRequest /\ Fresh(q) /\ q.op \in {"expire", "submit"}
    BY DEF DirectInv, DirectTypeOK, FreshRequests, ExpireCommit, SubmitCommit
  <2>. QED
    BY <2>1, RequestFields DEF Fresh, Opened
<1>2. DirectTypeOK'
  <2>1. sess' \in [Sessions -> SessionRow]
    <3>1. CASE ExpireCommit(w)
      BY <1>1, <3>1 DEF ExpireCommit, DirectInv, DirectTypeOK, SessionRow, SessionStatus
    <3>2. CASE SubmitCommit(w)
      BY <1>1, <3>2 DEF SubmitCommit, DirectInv, DirectTypeOK, SessionRow
    <3>. QED
      BY <3>1, <3>2
  <2>. QED
    BY <2>1, IdleIsRequest DEF ExpireCommit, SubmitCommit, Finish, DirectInv, DirectTypeOK
<1>3. SameLinks
  BY <1>1 DEF ExpireCommit, SubmitCommit, DirectInv, DirectTypeOK, SessionRow, SameLinks
<1>. QED
  BY <1>2, <1>3, StatusStep, IdleIsRequest DEF ExpireCommit, SubmitCommit, Finish, Continue, OneGoesOn

(* The commit of a payment's status without a reservation.                 *)
LEMMA RecordUpdates ==
    ASSUME BookingAssumption, DirectInv, NEW w \in Workers, RecordCommit(w)
    PROVE  DirectInv'
<1>. DEFINE q == req[w]
            s == pay[q.p].sess
<1>1. /\ q \in DirectRequest /\ q.p \in Payments /\ q.verdict \in Verdict /\ q.p \in Issued
      /\ s \in Sessions /\ s \in Opened
      /\ q.verdict = "completed" => sess[s].resv \in Stored
  <2>1. q \in DirectRequest /\ Fresh(q) /\ q.op = "record"
    BY DEF DirectInv, DirectTypeOK, FreshRequests, RecordCommit
  <2>. QED
    BY <2>1, RequestFields DEF Fresh, Opened, DirectInv, PaymentRows
<1>2. pay' = [pay EXCEPT ![q.p].status = q.verdict] /\ pay' \in [Payments -> PaymentRow]
  BY <1>1 DEF RecordCommit, DirectInv, DirectTypeOK, PaymentRow, PaymentStatus, Verdict
<1>3. /\ sess' = sess \/ sess' = [sess EXCEPT ![s].status = "expired"]
      /\ sess' \in [Sessions -> SessionRow]
  <2>. DEFINE closed == [sess EXCEPT ![s].status = "expired"]
  <2>1. sess' = sess \/ sess' = closed
    BY Zenon DEF RecordCommit
  <2>2. closed \in [Sessions -> SessionRow] /\ sess \in [Sessions -> SessionRow]
    BY <1>1 DEF DirectInv, DirectTypeOK, SessionRow, SessionStatus
  <2>. QED
    BY <2>1, <2>2, Zenon
<1>4. DirectTypeOK'
  BY <1>2, <1>3, IdleIsRequest DEF RecordCommit, Finish, DirectInv, DirectTypeOK
<1>5. \A t \in Sessions :
         /\ (sess'[t].status = "absent") <=> (sess[t].status = "absent")
         /\ sess'[t].seats = sess[t].seats
         /\ sess'[t].first = sess[t].first
         /\ sess'[t].resv = sess[t].resv
  BY <1>1, <1>3 DEF DirectInv, DirectTypeOK, SessionRow, Opened
<1>6. \A p \in Payments :
         /\ (pay'[p].status = "absent") <=> (pay[p].status = "absent")
         /\ pay'[p].sess = pay[p].sess
         /\ pay'[p].resv = pay[p].resv
         /\ pay'[p].status = "completed" =>
               pay[p].status = "completed" \/ sess[pay[p].sess].resv \in Stored
  BY <1>1, <1>2 DEF DirectInv, DirectTypeOK, PaymentRow, Issued, Verdict
<1>7. SameLinks
  BY <1>5, <1>6 DEF SameLinks, RecordCommit
<1>. QED
  BY <1>4, <1>7, StatusStep, IdleIsRequest DEF RecordCommit, Finish, Continue, OneGoesOn

(* The ORM flushes a status and a ticket that were assigned to a row.      *)
Flush(r, row, status, ticket) ==
    resv' = [resv EXCEPT ![r].status = Flushed(row.status, status, @),
                         ![r].ticket = Flushed(row.ticket, ticket, @)]

(* What the ORM flushes into a stored reservation: its status and its      *)
(* ticket, of the type they have.                                          *)
LEMMA FlushedReservation ==
    ASSUME DirectTypeOK, NEW r \in Reservations, NEW row \in ReservationRow,
           NEW status \in ReservationStatus, NEW ticket \in TicketStatus, r \in Stored,
           Flush(r, row, status, ticket)
    PROVE  /\ resv' \in [Reservations -> ReservationRow]
           /\ \A x \in Reservations :
                 /\ (resv'[x].status = "absent") <=> (resv[x].status = "absent")
                 /\ resv'[x].sess = resv[x].sess
                 /\ resv'[x].first = resv[x].first
                 /\ resv'[x].rows = resv[x].rows
                 /\ resv'[x].pax = resv[x].pax
                 /\ resv'[x].status \in {resv[x].status, status}
                 /\ resv'[x].ticket \in {resv[x].ticket, ticket}
                 /\ x # r => resv'[x] = resv[x]
<1>. DEFINE news == Flushed(row.status, status, resv[r].status)
            newt == Flushed(row.ticket, ticket, resv[r].ticket)
            new == [resv[r] EXCEPT !.status = news, !.ticket = newt]
<1>1. /\ news \in ReservationStatus
      /\ newt \in TicketStatus \cup {"absent"}
      /\ news \in {resv[r].status, status} /\ newt \in {resv[r].ticket, ticket}
  BY DEF Flushed, DirectTypeOK, ReservationRow, Stored
<1>2. resv' = [resv EXCEPT ![r] = new]
  BY DEF DirectTypeOK, Flush
<1>. HIDE DEF news, newt
<1>3. new \in ReservationRow
  BY <1>1 DEF DirectTypeOK, ReservationRow
<1>4. /\ new.status # "absent" /\ resv[r].status # "absent"
      /\ new.sess = resv[r].sess /\ new.first = resv[r].first /\ new.rows = resv[r].rows
      /\ new.pax = resv[r].pax
      /\ new.status = news /\ new.ticket = newt
  BY <1>1 DEF DirectTypeOK, ReservationRow, ReservationStatus, Stored
<1>. HIDE DEF new
<1>. QED
  BY <1>1, <1>2, <1>3, <1>4 DEF DirectTypeOK

(* The flush of a cancellation shuts tickets and opens none.               *)
LEMMA CanceledReservation ==
    ASSUME DirectInv, NEW r \in Reservations, NEW row \in ReservationRow, r \in Stored,
           CancelRow(r, row)
    PROVE  /\ resv' \in [Reservations -> ReservationRow]
           /\ \A x \in Reservations :
                 /\ (resv'[x].status = "absent") <=> (resv[x].status = "absent")
                 /\ resv'[x].sess = resv[x].sess
                 /\ resv'[x].first = resv[x].first
                 /\ resv'[x].rows = resv[x].rows
                 /\ resv'[x].pax = resv[x].pax
                 /\ resv'[x].status \in {resv[x].status, "canceled"}
           /\ ProvisionalNeverBoards'
<1>1. "canceled" \in ReservationStatus /\ "canceled" \in TicketStatus /\ DirectTypeOK
  BY DEF ReservationStatus, TicketStatus, DirectInv
<1>2. Flush(r, row, "canceled", "canceled")
  BY DEF CancelRow, Flush
<1>3. /\ resv' \in [Reservations -> ReservationRow]
      /\ \A x \in Reservations :
            /\ (resv'[x].status = "absent") <=> (resv[x].status = "absent")
            /\ resv'[x].sess = resv[x].sess
            /\ resv'[x].first = resv[x].first
            /\ resv'[x].rows = resv[x].rows
            /\ resv'[x].pax = resv[x].pax
            /\ resv'[x].status \in {resv[x].status, "canceled"}
            /\ resv'[x].ticket \in {resv[x].ticket, "canceled"}
  BY <1>1, <1>2, FlushedReservation
<1>. QED
  BY <1>3, ProvisionalStays

(* A payment that exists takes another status.                             *)
LEMMA PaymentMarked ==
    ASSUME DirectInv, NEW p \in Issued, NEW status \in {"completed", "refunded"},
           status = "completed" => sess[pay[p].sess].resv \in Stored,
           pay' = [pay EXCEPT ![p].status = status]
    PROVE  /\ pay' \in [Payments -> PaymentRow]
           /\ \A q \in Payments :
                 /\ (pay'[q].status = "absent") <=> (pay[q].status = "absent")
                 /\ pay'[q].sess = pay[q].sess
                 /\ pay'[q].resv = pay[q].resv
                 /\ pay'[q].status = "completed" =>
                       pay[q].status = "completed" \/ sess[pay[q].sess].resv \in Stored
  BY DEF DirectInv, DirectTypeOK, PaymentRow, PaymentStatus, Issued

(* A revived reservation is one of a session: it was paid for.             *)
LEMMA RevivedReservation ==
    ASSUME BookingAssumption, DirectInv, NEW w \in Workers, ReviveCommit(w)
    PROVE  /\ req[w].p \in Issued /\ req[w].r \in Stored \ Direct
           /\ sess[pay[req[w].p].sess].resv \in Stored
           /\ resv' \in [Reservations -> ReservationRow]
           /\ \A x \in Reservations :
                 /\ (resv'[x].status = "absent") <=> (resv[x].status = "absent")
                 /\ resv'[x].sess = resv[x].sess
                 /\ resv'[x].first = resv[x].first
                 /\ resv'[x].rows = resv[x].rows
                 /\ resv'[x].pax = resv[x].pax
                 /\ x # req[w].r => resv'[x] = resv[x]
<1>. DEFINE q == req[w]
<1>1. /\ q \in DirectRequest /\ Fresh(q) /\ q.op = "revive"
      /\ q.p \in Payments /\ q.r \in Reservations /\ q.row \in ReservationRow
  <2>1. q \in DirectRequest /\ Fresh(q) /\ q.op = "revive"
    BY DEF DirectInv, DirectTypeOK, FreshRequests, ReviveCommit
  <2>. QED
    BY <2>1, RequestFields
<1>2. /\ q.p \in Issued /\ q.r = pay[q.p].resv /\ q.r \in Stored
      /\ sess[pay[q.p].sess].resv \in Stored
  BY <1>1 DEF Fresh, DirectInv, LinksAgree, BookingAssumption
<1>3. Flush(q.r, q.row, "paid", "valid")
  BY DEF ReviveCommit, Flush
<1>4. "paid" \in ReservationStatus /\ "valid" \in TicketStatus /\ DirectTypeOK
  BY DEF ReservationStatus, TicketStatus, DirectInv
<1>5. q.r \notin Direct
  BY <1>1, <1>2 DEF Direct, DirectInv, LinksAgree, PaymentRows, Opened, BookingAssumption
<1>. HIDE DEF q
<1>6. /\ resv' \in [Reservations -> ReservationRow]
      /\ \A x \in Reservations :
            /\ (resv'[x].status = "absent") <=> (resv[x].status = "absent")
            /\ resv'[x].sess = resv[x].sess
            /\ resv'[x].first = resv[x].first
            /\ resv'[x].rows = resv[x].rows
            /\ resv'[x].pax = resv[x].pax
            /\ x # q.r => resv'[x] = resv[x]
  BY <1>1, <1>2, <1>3, <1>4, FlushedReservation
<1>. QED
  BY <1>2, <1>5, <1>6 DEF q

(* The commit of 'completed' for a payment with a reservation.             *)
LEMMA ReviveUpdates ==
    ASSUME BookingAssumption, DirectInv, NEW w \in Workers, ReviveCommit(w)
    PROVE  DirectInv'
<1>1. pay' = [pay EXCEPT ![req[w].p].status = "completed"]
  BY DEF ReviveCommit
<1>2. DirectTypeOK'
  BY <1>1, RevivedReservation, PaymentMarked, IdleIsRequest
     DEF ReviveCommit, Finish, DirectInv, DirectTypeOK
<1>3. SameLinks
  BY <1>1, RevivedReservation, PaymentMarked DEF SameLinks, ReviveCommit
<1>4. ProvisionalNeverBoards'
  BY RevivedReservation, ProvisionalStays
<1>. QED
  BY <1>2, <1>3, <1>4, StatusStep, IdleIsRequest DEF ReviveCommit, Finish, Continue, OneGoesOn

(* The provider gives money back: only the amount refunded changes.        *)
LEMMA ChargeRefunded ==
    ASSUME DirectTypeOK, BookingAssumption, NEW p \in Payments, NEW amount \in RefundAmounts,
           charge[p].refunded + amount <= MaxRefund,
           charge' = [charge EXCEPT ![p].refunded = @ + amount]
    PROVE  /\ charge' \in [Payments -> Charge]
           /\ \A q \in Payments : /\ charge'[q].state = charge[q].state
                                  /\ charge'[q].event = charge[q].event
<1>. DEFINE new == [charge[p] EXCEPT !.refunded = @ + amount]
<1>1. charge[p] \in Charge
  BY DEF DirectTypeOK
<1>2. charge[p].refunded + amount \in 0..MaxRefund
  BY <1>1 DEF Charge, BookingAssumption, RefundAmounts, Half, Full
<1>3. new \in Charge
  BY <1>1, <1>2 DEF Charge
<1>4. new.state = charge[p].state /\ new.event = charge[p].event
  BY <1>1 DEF Charge
<1>. QED
  BY <1>3, <1>4 DEF DirectTypeOK

(* A request goes on while nothing changes but the money given back.       *)
LEMMA MoneyBack ==
    ASSUME BookingAssumption, DirectInv, NEW w \in Workers, NEW q \in DirectRequest, Fresh(q),
           Continue(w, q), NEW p \in Payments, NEW amount \in RefundAmounts,
           charge[p].refunded + amount <= MaxRefund,
           charge' = [charge EXCEPT ![p].refunded = @ + amount],
           UNCHANGED db
    PROVE  DirectInv'
<1>1. DirectTypeOK'
  BY ChargeRefunded DEF DirectInv, DirectTypeOK, Continue, db
<1>2. SameLinks
  BY ChargeRefunded DEF DirectInv, SameLinks, db
<1>. QED
  BY <1>1, <1>2, StatusStep DEF OneGoesOn, db

(* A refund from its load to its commit.                                   *)
LEMMA RefundSteps ==
    ASSUME BookingAssumption, DirectInv, NEW w \in Workers
    PROVE  /\ \A p \in Payments : RefundLoad(w, p) => DirectInv'
           /\ RefundCharge(w) => DirectInv'
           /\ RefundRejected(w) => DirectInv'
           /\ RefundCommit(w) => DirectInv'
<1>. DEFINE old == req[w]
<1>1. ASSUME NEW p \in Payments, RefundLoad(w, p)
      PROVE  DirectInv'
  <2>. DEFINE q == [op |-> "refund", p |-> p, r |-> pay[p].resv]
  <2>1. q \in DirectRequest
    BY DEF DirectRequest, Request, DirectInv, DirectTypeOK, PaymentRow
  <2>2. Fresh(q)
    BY <1>1 DEF Fresh, RefundLoad, Issued, DirectInv, LinksAgree
  <2>. QED
    BY <1>1, <2>1, <2>2, RequestStep DEF RefundLoad, Begin, Continue
<1>2. ASSUME old.op \in {"refund", "refunded"}
      PROVE  /\ old \in DirectRequest /\ old.p \in Payments /\ old.p \in Issued
             /\ old.r \in Key(Reservations) /\ (old.r # Null => old.r \in Stored)
             /\ old.op = "refunded" /\ old.r # Null => old.row \in ReservationRow
  <2>1. old \in DirectRequest /\ Fresh(old)
    BY DEF DirectInv, DirectTypeOK, FreshRequests
  <2>. QED
    BY <1>2, <2>1, RequestFields DEF Fresh
<1>3. ASSUME RefundCharge(w)
      PROVE  DirectInv'
  <2>. DEFINE row == IF old.r = Null THEN Null ELSE resv[old.r]
              q == [op |-> "refunded", p |-> old.p, r |-> old.r, row |-> row]
  <2>1. old.op = "refund" /\ Continue(w, q) /\ UNCHANGED db
    BY <1>3 DEF RefundCharge
  <2>2. \/ old.r \in Reservations /\ row \in ReservationRow
        \/ old.r = Null /\ row = Null
    BY <1>2, <2>1 DEF DirectInv, DirectTypeOK, Key
  <2>3. q \in DirectRequest
    <3>. HIDE DEF row
    <3>. QED
      BY <1>2, <2>1, <2>2 DEF DirectRequest, Request
  <2>4. Fresh(q)
    BY <1>2, <2>1 DEF Fresh
  <2>. QED
    BY <1>2, <1>3, <2>1, <2>3, <2>4, MoneyBack DEF RefundCharge, Refundable, RefundAmounts
<1>4. RefundRejected(w) => DirectInv'
  BY RequestEnds DEF RefundRejected
<1>5. ASSUME RefundCommit(w)
      PROVE  DirectInv'
  <2>1. old.op = "refunded" /\ pay' = [pay EXCEPT ![old.p].status = "refunded"]
    BY <1>5 DEF RefundCommit
  <2>2. /\ pay' \in [Payments -> PaymentRow]
        /\ \A p \in Payments :
              /\ (pay'[p].status = "absent") <=> (pay[p].status = "absent")
              /\ pay'[p].sess = pay[p].sess
              /\ pay'[p].resv = pay[p].resv
              /\ pay'[p].status = "completed" =>
                    pay[p].status = "completed" \/ sess[pay[p].sess].resv \in Stored
    BY <1>2, <2>1, PaymentMarked
  <2>3. CASE old.r = Null
    <3>1. UNCHANGED <<sess, resv, charge>>
      BY <1>5, <2>3 DEF RefundCommit
    <3>2. DirectTypeOK' /\ SameLinks
      BY <1>5, <2>2, <3>1, IdleIsRequest DEF RefundCommit, Finish, DirectInv, DirectTypeOK, SameLinks
    <3>. QED
      BY <1>5, <3>1, <3>2, StatusStep, IdleIsRequest DEF RefundCommit, Finish, Continue, OneGoesOn
  <2>4. CASE old.r # Null
    <3>1. old.r \in Reservations /\ old.r \in Stored /\ old.row \in ReservationRow
      BY <1>2, <2>1, <2>4 DEF Stored
    <3>2. /\ resv' \in [Reservations -> ReservationRow]
          /\ \A x \in Reservations :
                /\ (resv'[x].status = "absent") <=> (resv[x].status = "absent")
                /\ resv'[x].sess = resv[x].sess
                /\ resv'[x].first = resv[x].first
                /\ resv'[x].rows = resv[x].rows
          /\ ProvisionalNeverBoards'
      BY <1>5, <2>4, <3>1, CanceledReservation DEF RefundCommit
    <3>3. DirectTypeOK' /\ SameLinks
      BY <1>5, <2>2, <3>2, IdleIsRequest DEF RefundCommit, Finish, DirectInv, DirectTypeOK, SameLinks
    <3>. QED
      BY <1>5, <3>2, <3>3, StatusStep, IdleIsRequest DEF RefundCommit, Finish, Continue, OneGoesOn
  <2>. QED
    BY <2>3, <2>4
<1>. QED
  BY <1>1, <1>3, <1>4, <1>5

(* A cancellation from its load to its commit.                             *)
LEMMA CancelSteps ==
    ASSUME BookingAssumption, DirectInv, NEW w \in Workers
    PROVE  /\ \A r \in Reservations : CancelLoad(w, r) => DirectInv'
           /\ \A p \in Payments, amount \in RefundAmounts :
                 CancelWithRefund(w, p, amount) => DirectInv'
           /\ CancelWithoutRefund(w) => DirectInv'
           /\ CancelCommit(w) => DirectInv'
<1>. DEFINE old == req[w]
<1>1. ASSUME NEW r \in Reservations, CancelLoad(w, r)
      PROVE  DirectInv'
  <2>. DEFINE q == [op |-> "cancel", r |-> r, row |-> resv[r]]
  <2>1. q \in DirectRequest /\ Fresh(q)
    BY <1>1 DEF DirectRequest, Request, DirectInv, DirectTypeOK, Fresh, CancelLoad, Live
  <2>. QED
    BY <1>1, <2>1, RequestStep DEF CancelLoad, Begin, Continue
<1>2. ASSUME old.op \in {"cancel", "canceled"}
      PROVE  /\ old \in DirectRequest /\ old.r \in Reservations /\ old.r \in Stored
             /\ old.row \in ReservationRow
             /\ old.op = "canceled" => old.p \in Key(Payments) /\ (old.p # Null => old.p \in Issued)
  <2>1. old \in DirectRequest /\ Fresh(old)
    BY DEF DirectInv, DirectTypeOK, FreshRequests
  <2>. QED
    BY <1>2, <2>1, RequestFields DEF Fresh
<1>3. ASSUME old.op = "cancel", NEW p \in Key(Payments), p # Null => p \in Issued
      PROVE  LET q == [op |-> "canceled", r |-> old.r, p |-> p,
                       row |-> [old.row EXCEPT !.ticket = resv[old.r].ticket]]
             IN  q \in DirectRequest /\ Fresh(q)
  <2>. DEFINE row == [old.row EXCEPT !.ticket = resv[old.r].ticket]
  <2>1. row \in ReservationRow
    BY <1>2, <1>3 DEF ReservationRow, DirectInv, DirectTypeOK
  <2>. HIDE DEF row
  <2>2. [op |-> "canceled", r |-> old.r, p |-> p, row |-> row] \in DirectRequest
    BY <1>2, <1>3, <2>1 DEF DirectRequest, Request
  <2>3. Fresh([op |-> "canceled", r |-> old.r, p |-> p, row |-> row])
    BY <1>2, <1>3 DEF Fresh
  <2>. QED
    BY <2>2, <2>3 DEF row
<1>4. ASSUME NEW p \in Payments, NEW amount \in RefundAmounts, CancelWithRefund(w, p, amount)
      PROVE  DirectInv'
  <2>. DEFINE q == [op |-> "canceled", r |-> old.r, p |-> p,
                    row |-> [old.row EXCEPT !.ticket = resv[old.r].ticket]]
  <2>1. old.op = "cancel" /\ p \in Issued /\ Continue(w, q) /\ UNCHANGED db
    BY <1>4 DEF CancelWithRefund, PaidBy, Issued
  <2>2. q \in DirectRequest /\ Fresh(q)
    BY <1>3, <2>1 DEF Key
  <2>. HIDE DEF q
  <2>3. CASE Provider = "mock"
    <3>1. /\ charge[p].refunded + amount <= MaxRefund
          /\ charge' = [charge EXCEPT ![p].refunded = @ + amount]
      BY <1>4, <2>3 DEF CancelWithRefund, Refundable
    <3>. QED
      BY <2>1, <2>2, <3>1, MoneyBack
  <2>4. CASE Provider # "mock"
    BY <1>4, <2>1, <2>2, <2>4, RequestStep DEF CancelWithRefund
  <2>. QED
    BY <2>3, <2>4
<1>5. ASSUME CancelWithoutRefund(w)
      PROVE  DirectInv'
  <2>. DEFINE q == [op |-> "canceled", r |-> old.r, p |-> Null,
                    row |-> [old.row EXCEPT !.ticket = resv[old.r].ticket]]
  <2>1. old.op = "cancel" /\ Continue(w, q) /\ UNCHANGED <<db, charge>>
    BY <1>5 DEF CancelWithoutRefund
  <2>2. q \in DirectRequest /\ Fresh(q)
    BY <1>3, <2>1 DEF Key
  <2>. HIDE DEF q
  <2>. QED
    BY <2>1, <2>2, RequestStep
<1>6. ASSUME CancelCommit(w)
      PROVE  DirectInv'
  <2>1. old.op = "canceled" /\ old.r \in Reservations /\ old.r \in Stored /\ old.row \in ReservationRow
    BY <1>2, <1>6 DEF CancelCommit
  <2>2. /\ resv' \in [Reservations -> ReservationRow]
        /\ \A x \in Reservations :
              /\ (resv'[x].status = "absent") <=> (resv[x].status = "absent")
              /\ resv'[x].sess = resv[x].sess
              /\ resv'[x].first = resv[x].first
              /\ resv'[x].rows = resv[x].rows
        /\ ProvisionalNeverBoards'
    BY <1>6, <2>1, CanceledReservation DEF CancelCommit
  <2>3. /\ pay' \in [Payments -> PaymentRow]
        /\ \A p \in Payments :
              /\ (pay'[p].status = "absent") <=> (pay[p].status = "absent")
              /\ pay'[p].sess = pay[p].sess
              /\ pay'[p].resv = pay[p].resv
              /\ pay'[p].status = "completed" =>
                    pay[p].status = "completed" \/ sess[pay[p].sess].resv \in Stored
    <3>1. CASE old.p = Null
      BY <1>6, <3>1 DEF CancelCommit, DirectInv, DirectTypeOK
    <3>2. CASE old.p # Null
      <4>1. old.p \in Issued /\ pay' = [pay EXCEPT ![old.p].status = "refunded"]
        BY <1>2, <1>6, <2>1, <3>2 DEF CancelCommit
      <4>. QED
        BY <4>1, PaymentMarked
    <3>. QED
      BY <3>1, <3>2
  <2>4. DirectTypeOK'
    BY <1>6, <2>2, <2>3, IdleIsRequest DEF CancelCommit, Finish, DirectInv, DirectTypeOK
  <2>5. SameLinks
    BY <1>6, <2>2, <2>3 DEF CancelCommit, SameLinks
  <2>. QED
    BY <1>6, <2>2, <2>4, <2>5, StatusStep, IdleIsRequest DEF CancelCommit, Finish, Continue, OneGoesOn
<1>. QED
  BY <1>1, <1>4, <1>5, <1>6

(* The gate.                                                               *)
LEMMA ValidateSteps ==
    ASSUME BookingAssumption, DirectInv, NEW w \in Workers
    PROVE  /\ \A r \in Reservations : ValidateLoad(w, r) => DirectInv'
           /\ ValidateCommit(w) => DirectInv'
           /\ Drop(w) => DirectInv'
<1>1. ASSUME NEW r \in Reservations, ValidateLoad(w, r)
      PROVE  DirectInv'
  <2>. DEFINE q == [op |-> "validate", r |-> r]
  <2>1. r \in Stored /\ (r \in Direct => resv[r].rows = {})
    BY <1>1 DEF ValidateLoad, DirectInv, ProvisionalNeverBoards
  <2>2. q \in DirectRequest /\ Fresh(q)
    BY <2>1 DEF DirectRequest, Request, Fresh
  <2>. QED
    BY <1>1, <2>2, RequestStep DEF ValidateLoad, Begin, Continue
<1>2. ASSUME ValidateCommit(w)
      PROVE  DirectInv'
  <2>. DEFINE r == req[w].r
  <2>1. r \in Reservations /\ r \in Stored /\ (r \in Direct => resv[r].rows = {})
    <3>1. req[w] \in DirectRequest /\ Fresh(req[w]) /\ req[w].op = "validate"
      BY <1>2 DEF ValidateCommit, DirectInv, DirectTypeOK, FreshRequests
    <3>. QED
      BY <3>1, RequestFields DEF Fresh
  <2>2. resv' \in [Reservations -> ReservationRow]
    BY <1>2, <2>1 DEF ValidateCommit, DirectInv, DirectTypeOK, ReservationRow, TicketStatus
  <2>3. DirectTypeOK'
    BY <1>2, <2>2, IdleIsRequest DEF ValidateCommit, Finish, DirectInv, DirectTypeOK
  <2>4. SameLinks
    BY <1>2, <2>1 DEF ValidateCommit, DirectInv, DirectTypeOK, ReservationRow, SameLinks
  <2>5. ProvisionalNeverBoards'
    <3>1. \A x \in Reservations :
             /\ resv'[x].status = resv[x].status
             /\ resv'[x].sess = resv[x].sess
             /\ resv'[x].rows = resv[x].rows
             /\ x # r => resv'[x].ticket = resv[x].ticket
      BY <1>2, <2>1 DEF ValidateCommit, DirectInv, DirectTypeOK, ReservationRow
    <3>. QED
      BY <2>1, <3>1, ProvisionalStays
  <2>. QED
    BY <1>2, <2>3, <2>4, <2>5, StatusStep, IdleIsRequest DEF ValidateCommit, Finish, Continue, OneGoesOn
<1>3. Drop(w) => DirectInv'
  BY RequestEnds DEF Drop
<1>. QED
  BY <1>1, <1>2, <1>3

-----------------------------------------------------------------------------
(* The steps that insert rows or move money in.                            *)

(* A session is inserted.                                                  *)
LEMMA CreateCommits ==
    ASSUME BookingAssumption, DirectInv, NEW w \in Workers, NEW s \in Sessions, CreateCommit(w, s)
    PROVE  DirectInv'
<1>. DEFINE q == req[w]
            row == [status |-> "open", seats |-> q.seats, first |-> q.first,
                    pax |-> {}, lapsed |-> FALSE, resv |-> Null]
<1>1. q.seats \in SUBSET Seats /\ q.first \in Seats /\ q.first \in q.seats
  <2>1. q \in DirectRequest /\ Fresh(q) /\ q.op = "create"
    BY DEF CreateCommit, DirectInv, DirectTypeOK, FreshRequests
  <2>. QED
    BY <2>1, RequestFields DEF Fresh
<1>2. /\ sess' = [sess EXCEPT ![s] = row]
      /\ UNCHANGED <<pay, resv, charge>>
      /\ s \notin Opened
  BY DEF CreateCommit, Opened
<1>3. row \in SessionRow
  BY <1>1 DEF SessionRow, SessionStatus, Key
<1>4. row.status # "absent" /\ row.first \in row.seats /\ row.resv = Null
  BY <1>1
<1>. HIDE DEF row
<1>5. DirectTypeOK'
  BY <1>2, <1>3, IdleIsRequest DEF CreateCommit, Finish, DirectInv, DirectTypeOK
<1>6. /\ Opened' = Opened \cup {s}
      /\ Issued' = Issued
      /\ Stored' = Stored
      /\ Direct' = Direct
      /\ \A t \in Opened : sess'[t] = sess[t]
      /\ sess'[s] = row
  BY <1>2, <1>4 DEF Opened, Issued, Stored, Direct, DirectInv, DirectTypeOK
<1>. USE <1>2
<1>7. SessionRows'
  BY <1>4, <1>6 DEF DirectInv, SessionRows
<1>8. PaymentRows' /\ ReservationRows' /\ ChargeRows'
  BY <1>6 DEF DirectInv, PaymentRows, ReservationRows, ChargeRows, Captured
<1>9. UniqueColumns' /\ CheckoutPaid' /\ ProvisionalNeverBoards'
  BY <1>6 DEF DirectInv, UniqueColumns, CheckoutPaid, Captured, ProvisionalNeverBoards
<1>10. CompletedMeansSeated' /\ LinksAgree'
  BY <1>6 DEF DirectInv, CompletedMeansSeated, LinksAgree, PaymentRows, Issued
<1>11. Grows
  BY <1>6 DEF Grows, Captured
<1>12. FreshRequests'
  BY <1>11, RequestsStay, IdleIsRequest DEF CreateCommit, Finish, Continue, OneGoesOn
<1>. QED
  BY <1>5, <1>7, <1>8, <1>9, <1>10, <1>12 DEF DirectInv

(* A payment is inserted.                                                  *)
LEMMA PayCommits ==
    ASSUME BookingAssumption, DirectInv, NEW w \in Workers, NEW p \in Payments, PayCommit(w, p)
    PROVE  DirectInv'
<1>. DEFINE q == req[w]
            row == [status |-> "pending", sess |-> q.s, resv |-> Null]
<1>1. q.s \in Sessions /\ q.s \in Opened
  <2>1. q \in DirectRequest /\ Fresh(q) /\ q.op = "pay"
    BY DEF PayCommit, DirectInv, DirectTypeOK, FreshRequests
  <2>. QED
    BY <2>1, RequestFields DEF Fresh
<1>2. /\ pay' = [pay EXCEPT ![p] = row]
      /\ charge' = [charge EXCEPT ![p].state = "open"]
      /\ UNCHANGED <<sess, resv>>
      /\ p \notin Issued
  BY DEF PayCommit, Issued
<1>3. row \in PaymentRow /\ charge' \in [Payments -> Charge]
  BY <1>1, <1>2 DEF PaymentRow, PaymentStatus, Key, DirectInv, DirectTypeOK, Charge
<1>4. row.status = "pending" /\ row.resv = Null /\ row.sess = q.s
  OBVIOUS
<1>. HIDE DEF row
<1>5. DirectTypeOK'
  BY <1>2, <1>3, IdleIsRequest DEF PayCommit, Finish, DirectInv, DirectTypeOK
<1>6. /\ Opened' = Opened
      /\ Issued' = Issued \cup {p}
      /\ Stored' = Stored
      /\ Direct' = Direct
      /\ \A x \in Payments \ {p} : pay'[x] = pay[x] /\ charge'[x] = charge[x]
      /\ pay'[p] = row
      /\ charge'[p].state = "open" /\ charge'[p].event = charge[p].event
  BY <1>2, <1>4 DEF Opened, Issued, Stored, Direct, DirectInv, DirectTypeOK, Charge
<1>7. pay[p].resv = Null /\ charge[p].event = "none"
  BY <1>2 DEF DirectInv, PaymentRows, ChargeRows
<1>8. SessionRows' /\ ReservationRows' /\ UniqueColumns' /\ ProvisionalNeverBoards'
  BY <1>2, <1>6 DEF DirectInv, SessionRows, ReservationRows, UniqueColumns, ProvisionalNeverBoards
<1>9. PaymentRows'
  BY <1>1, <1>4, <1>6 DEF DirectInv, PaymentRows
<1>10. ChargeRows'
  BY <1>4, <1>6, <1>7 DEF DirectInv, ChargeRows, Captured
<1>11. CompletedMeansSeated'
  BY <1>2, <1>4, <1>6 DEF DirectInv, CompletedMeansSeated
<1>12. LinksAgree'
  BY <1>2, <1>4, <1>6 DEF DirectInv, LinksAgree
<1>13. CheckoutPaid'
  <2>1. SUFFICES ASSUME NEW r \in Stored \ Direct
                 PROVE  \E x \in Payments : /\ pay'[x].resv = r
                                            /\ Provider = "stripe" => charge'[x].state = "paid"
    BY <1>6 DEF CheckoutPaid, Captured
  <2>2. PICK x \in Payments : pay[x].resv = r /\ (Provider = "stripe" => charge[x].state = "paid")
    BY DEF DirectInv, CheckoutPaid, Captured
  <2>3. x # p
    BY <1>7, <2>2 DEF Stored, BookingAssumption
  <2>. QED
    BY <1>6, <2>2, <2>3
<1>14. Grows
  BY <1>2, <1>6 DEF Grows, Captured, Issued
<1>15. FreshRequests'
  BY <1>14, RequestsStay, IdleIsRequest DEF PayCommit, Finish, Continue, OneGoesOn
<1>. QED
  BY <1>5, <1>8, <1>9, <1>10, <1>11, <1>12, <1>13, <1>15 DEF DirectInv

(* The customer on the hosted page.                                        *)
LEMMA CustomerSteps ==
    ASSUME BookingAssumption, DirectInv, NEW p \in Payments,
           CustomerPays(p) \/ CustomerDefers(p) \/ ChargeExpires(p)
    PROVE  DirectInv'
<1>1. UNCHANGED <<db, req>>
  BY DEF CustomerPays, CustomerDefers, ChargeExpires
<1>2. /\ charge[p] \in Charge
      /\ p \in Issued
      /\ charge[p].state \in {"open", "unpaid"}
  BY DEF CustomerPays, CustomerDefers, ChargeExpires, DirectInv, ChargeRows, DirectTypeOK
<1>3. /\ charge' \in [Payments -> Charge]
      /\ \A x \in Payments \ {p} : charge'[x] = charge[x]
      /\ charge'[p].state \in {"paid", "unpaid", "expired"}
      /\ charge'[p].event = "completed" => charge'[p].state = "paid"
  <2>1. charge[p].event # "completed"
    BY <1>2 DEF DirectInv, ChargeRows
  <2>2. CASE CustomerPays(p)
    <3>. DEFINE event == IF charge[p].event = "none" THEN "completed" ELSE charge[p].event
                new == [charge[p] EXCEPT !.state = "paid", !.event = event]
    <3>1. charge' = [charge EXCEPT ![p] = new]
      BY <2>2 DEF CustomerPays, DirectInv, DirectTypeOK
    <3>2. event \in {"none", "completed", "failed"}
      BY <1>2 DEF Charge
    <3>. HIDE DEF event
    <3>3. new \in Charge /\ new.state = "paid"
      BY <1>2, <3>2 DEF Charge
    <3>. QED
      BY <3>1, <3>3 DEF DirectInv, DirectTypeOK
  <2>3. CASE CustomerDefers(p)
    BY <1>2, <2>3 DEF CustomerDefers, DirectInv, DirectTypeOK, Charge
  <2>4. CASE ChargeExpires(p)
    BY <1>2, <2>1, <2>4 DEF ChargeExpires, DirectInv, DirectTypeOK, Charge
  <2>. QED
    BY <2>2, <2>3, <2>4
<1>4. \A x \in Payments : Provider = "stripe" /\ charge[x].state = "paid" => charge'[x].state = "paid"
  BY <1>2, <1>3
<1>5. DirectTypeOK'
  BY <1>1, <1>3 DEF DirectInv, DirectTypeOK, db
<1>6. /\ Opened' = Opened
      /\ Issued' = Issued
      /\ Stored' = Stored
      /\ Direct' = Direct
  BY <1>1 DEF Opened, Issued, Stored, Direct, db
<1>7. (SessionRows /\ PaymentRows /\ ReservationRows)'
  BY <1>1, <1>6 DEF DirectInv, SessionRows, PaymentRows, ReservationRows, db
<1>8. (UniqueColumns /\ CompletedMeansSeated /\ LinksAgree /\ ProvisionalNeverBoards)'
  BY <1>1, <1>6 DEF DirectInv, UniqueColumns, CompletedMeansSeated, LinksAgree,
                    ProvisionalNeverBoards, db
<1>9. ChargeRows'
  BY <1>1, <1>2, <1>3, <1>4, <1>6 DEF DirectInv, ChargeRows, Captured, db
<1>10. CheckoutPaid'
  BY <1>1, <1>4, <1>6 DEF DirectInv, CheckoutPaid, Captured, db
<1>11. FreshRequests'
  <2>1. Grows
    BY <1>1, <1>4, <1>6 DEF Grows, Captured, db, Issued
  <2>. QED
    BY <1>1, <2>1, RequestsStay
<1>. QED
  BY <1>5, <1>7, <1>8, <1>9, <1>10, <1>11 DEF DirectInv

(* The unique seat columns are what keeps a session from turning into two  *)
(* reservations: one that exists already has the seats of its session.     *)
LEMMA NoReservationYet ==
    ASSUME BookingAssumption, DirectInv, NEW s \in Opened, ~SeatConflict(sess[s].first, sess[s].seats)
    PROVE  /\ \A r \in Stored : resv[r].sess # s
           /\ sess[s].resv = Null
           /\ \A p \in Issued : pay[p].sess = s => pay[p].resv = Null
<1>1. s \in Sessions
  BY DEF Opened
<1>2. \A r \in Stored : resv[r].sess # s
  BY <1>1 DEF DirectInv, ReservationRows, SeatConflict, Direct, BookingAssumption
<1>3. sess[s].resv = Null
  BY <1>2 DEF DirectInv, SessionRows
<1>4. ASSUME NEW p \in Issued, pay[p].sess = s, pay[p].resv # Null
      PROVE  FALSE
  BY <1>2, <1>4 DEF DirectInv, LinksAgree, Issued
<1>. QED
  BY <1>2, <1>3, <1>4

(* A reservation is inserted: the unique seats make it the only one of its *)
(* session.                                                                *)
LEMMA MaterializeCommits ==
    ASSUME BookingAssumption, DirectInv, NEW w \in Workers, NEW r \in Reservations,
           MaterializeCommit(w, r)
    PROVE  DirectInv'
<1>. DEFINE q == req[w]
            p == q.p
            s == q.s
            booked == Booked(q)
<1>1. /\ p \in Payments /\ p \in Issued /\ Captured(p)
      /\ s \in Sessions /\ s \in Opened /\ s = pay[p].sess
      /\ q.row \in SessionRow
      /\ q.row.seats = sess[s].seats /\ q.row.first = sess[s].first
  <2>1. q \in DirectRequest /\ Fresh(q) /\ q.op = "materialize"
    BY DEF MaterializeCommit, DirectInv, DirectTypeOK, FreshRequests
  <2>2. p \in Payments /\ s \in Sessions /\ q.row \in SessionRow
    BY <2>1, RequestFields
  <2>. QED
    BY <2>1, <2>2 DEF Fresh, DirectInv, PaymentRows
<1>2. /\ resv' = [resv EXCEPT ![r] = booked]
      /\ sess' = [sess EXCEPT ![s].status = "consumed", ![s].resv = r]
      /\ pay' = [pay EXCEPT ![p].status = "completed", ![p].resv = r]
      /\ charge' = charge
      /\ r \notin Stored
      /\ ~SeatConflict(sess[s].first, sess[s].seats)
  BY <1>1 DEF MaterializeCommit, Stored
<1>3. booked \in ReservationRow
  <2>1. /\ q.row.first \in Key(Seats)
        /\ q.row.seats \in SUBSET Seats
        /\ q.row.pax \in SUBSET Passports
    BY <1>1 DEF SessionRow
  <2>. QED
    BY <1>1, <2>1 DEF Booked, ReservationRow, ReservationStatus, TicketStatus, Key
<1>4. /\ booked.status = "paid" /\ booked.sess = s
      /\ booked.rows = sess[s].seats /\ booked.first = sess[s].first
  BY <1>1 DEF Booked
<1>. HIDE DEF booked
<1>5. /\ sess' \in [Sessions -> SessionRow]
      /\ \A t \in Sessions \ {s} : sess'[t] = sess[t]
      /\ sess'[s].status = "consumed" /\ sess'[s].resv = r
      /\ sess'[s].seats = sess[s].seats /\ sess'[s].first = sess[s].first
  <2>. DEFINE row == [sess[s] EXCEPT !.status = "consumed", !.resv = r]
  <2>1. sess[s] \in SessionRow /\ sess' = [sess EXCEPT ![s] = row]
    BY <1>1, <1>2 DEF DirectInv, DirectTypeOK
  <2>2. /\ row \in SessionRow
        /\ row.status = "consumed" /\ row.resv = r
        /\ row.seats = sess[s].seats /\ row.first = sess[s].first
    BY <2>1 DEF SessionRow, SessionStatus, Key
  <2>. HIDE DEF row
  <2>. QED
    BY <1>1, <2>1, <2>2 DEF DirectInv, DirectTypeOK
<1>6. /\ pay' \in [Payments -> PaymentRow]
      /\ \A x \in Payments \ {p} : pay'[x] = pay[x]
      /\ pay'[p].status = "completed" /\ pay'[p].resv = r /\ pay'[p].sess = s
  <2>. DEFINE row == [pay[p] EXCEPT !.status = "completed", !.resv = r]
  <2>1. pay[p] \in PaymentRow /\ pay' = [pay EXCEPT ![p] = row]
    BY <1>1, <1>2 DEF DirectInv, DirectTypeOK
  <2>2. /\ row \in PaymentRow
        /\ row.status = "completed" /\ row.resv = r /\ row.sess = s
    BY <1>1, <2>1 DEF PaymentRow, PaymentStatus, Key
  <2>. HIDE DEF row
  <2>. QED
    BY <1>1, <2>1, <2>2 DEF DirectInv, DirectTypeOK
<1>7. DirectTypeOK'
  BY <1>2, <1>3, <1>5, <1>6, IdleIsRequest DEF MaterializeCommit, Finish, DirectInv, DirectTypeOK
<1>8. /\ Opened' = Opened
      /\ Issued' = Issued
      /\ Stored' = Stored \cup {r}
      /\ Direct' = Direct
      /\ \A x \in Stored : resv'[x] = resv[x]
      /\ resv'[r] = booked
  <2>1. Opened' = Opened
    BY <1>1, <1>5 DEF Opened
  <2>2. Issued' = Issued
    BY <1>1, <1>6 DEF Issued
  <2>3. resv'[r] = booked /\ \A x \in Reservations \ {r} : resv'[x] = resv[x]
    BY <1>2 DEF DirectInv, DirectTypeOK
  <2>4. Stored' = Stored \cup {r}
    BY <1>4, <2>3 DEF Stored
  <2>5. Direct' = Direct
    <3>1. s # Null /\ r \notin Stored
      BY <1>1, <1>2 DEF BookingAssumption
    <3>2. \A x \in Stored : resv'[x] = resv[x]
      BY <2>3, <3>1 DEF Stored
    <3>3. resv'[r].sess # Null
      BY <1>4, <2>3, <3>1
    <3>. QED
      BY <2>4, <3>1, <3>2, <3>3 DEF Direct
  <2>. QED
    BY <1>2, <2>1, <2>2, <2>3, <2>4, <2>5 DEF Stored
<1>9. /\ \A x \in Stored : resv[x].sess # s
      /\ sess[s].resv = Null
      /\ \A x \in Issued : pay[x].sess = s => pay[x].resv = Null
  BY <1>1, <1>2, NoReservationYet
<1>10. \A x \in Payments : pay'[x].sess = pay[x].sess /\ (x # p => pay'[x].resv # r)
  <2>1. ASSUME NEW x \in Payments, x # p, pay'[x].resv = r
        PROVE  FALSE
    BY <1>2, <1>6, <2>1 DEF DirectInv, LinksAgree, BookingAssumption
  <2>. QED
    BY <1>1, <1>6, <2>1
<1>11. SessionRows'
  <2>1. SUFFICES ASSUME NEW t \in Opened
                 PROVE  /\ sess'[t].first \in sess'[t].seats
                        /\ sess'[t].resv # Null => /\ sess'[t].resv \in Stored'
                                                   /\ resv'[sess'[t].resv].sess = t
    BY <1>8 DEF SessionRows
  <2>2. CASE t = s
    BY <1>1, <1>4, <1>5, <1>8, <2>2 DEF DirectInv, SessionRows
  <2>3. CASE t # s
    BY <1>5, <1>8, <2>3 DEF DirectInv, SessionRows, Opened
  <2>. QED
    BY <2>2, <2>3
<1>12. PaymentRows'
  BY <1>1, <1>6, <1>8, <1>10 DEF DirectInv, PaymentRows
<1>13. ReservationRows'
  <2>1. SUFFICES ASSUME NEW x \in Stored', x \notin Direct
                 PROVE  /\ resv'[x].sess \in Opened'
                        /\ resv'[x].rows = sess'[resv'[x].sess].seats
                        /\ resv'[x].first = sess'[resv'[x].sess].first
    BY <1>8 DEF ReservationRows
  <2>2. CASE x = r
    BY <1>1, <1>4, <1>5, <1>8, <2>2
  <2>3. CASE x \in Stored
    BY <1>5, <1>8, <1>9, <2>1, <2>3 DEF DirectInv, ReservationRows, Opened
  <2>. QED
    BY <1>8, <2>1, <2>2, <2>3
<1>14. ChargeRows'
  BY <1>1, <1>2, <1>6, <1>8 DEF DirectInv, ChargeRows, Captured
<1>15. UniqueColumns'
  <2>1. ASSUME NEW x \in Stored
        PROVE  booked.first # resv[x].first /\ booked.rows \cap resv[x].rows = {}
    BY <1>2, <1>4 DEF SeatConflict
  <2>. QED
    BY <1>8, <2>1 DEF DirectInv, UniqueColumns
<1>16. CompletedMeansSeated'
  <2>1. SUFFICES ASSUME NEW x \in Payments, pay'[x].status = "completed"
                 PROVE  sess'[pay[x].sess].resv \in Stored'
    BY <1>10 DEF CompletedMeansSeated
  <2>2. CASE pay[x].sess = s
    BY <1>5, <1>8, <2>2
  <2>3. CASE pay[x].sess # s
    <3>1. x # p /\ pay[x].status = "completed"
      BY <1>1, <1>6, <2>1, <2>3
    <3>2. pay[x].sess \in Sessions
      BY <3>1 DEF DirectInv, PaymentRows, Issued, Opened
    <3>. QED
      BY <1>5, <1>8, <2>3, <3>1, <3>2 DEF DirectInv, CompletedMeansSeated
  <2>. QED
    BY <2>2, <2>3
<1>17. LinksAgree'
  <2>1. SUFFICES ASSUME NEW x \in Payments, pay'[x].resv # Null
                 PROVE  /\ pay'[x].resv \in Stored'
                        /\ resv'[pay'[x].resv].sess = pay'[x].sess
                        /\ sess'[pay'[x].sess].resv = pay'[x].resv
                        /\ \A y \in Payments : pay'[y].resv = pay'[x].resv => y = x
    BY DEF LinksAgree
  <2>2. CASE x = p
    BY <1>4, <1>5, <1>6, <1>8, <1>10, <2>2
  <2>3. CASE x # p
    <3>1. pay'[x] = pay[x] /\ pay[x].resv # Null /\ pay[x].resv # r
      BY <1>6, <1>10, <2>1, <2>3
    <3>2. x \in Issued /\ pay[x].sess \in Sessions /\ pay[x].sess # s
      BY <1>9, <3>1 DEF DirectInv, PaymentRows, Issued, Opened
    <3>3. /\ pay[x].resv \in Stored
          /\ resv[pay[x].resv].sess = pay[x].sess
          /\ sess[pay[x].sess].resv = pay[x].resv
          /\ \A y \in Payments : pay[y].resv = pay[x].resv => y = x
      BY <3>1 DEF DirectInv, LinksAgree
    <3>. QED
      BY <1>5, <1>6, <1>8, <3>1, <3>2, <3>3
  <2>. QED
    BY <2>2, <2>3
<1>18. CheckoutPaid'
  <2>1. SUFFICES ASSUME NEW x \in Stored', x \notin Direct
                 PROVE  \E y \in Payments : /\ pay'[y].resv = x
                                            /\ Provider = "stripe" => charge[y].state = "paid"
    <3>1. \A y : Captured(y)' <=> (Provider = "stripe" => charge[y].state = "paid")
      BY <1>2 DEF Captured
    <3>. QED
      BY <1>8, <3>1 DEF CheckoutPaid
  <2>2. CASE x = r
    BY <1>1, <1>6, <2>2 DEF Captured
  <2>3. CASE x \in Stored
    <3>1. PICK y \in Payments : pay[y].resv = x /\ (Provider = "stripe" => charge[y].state = "paid")
      BY <2>1, <2>3 DEF DirectInv, CheckoutPaid, Captured
    <3>2. y # p
      BY <1>1, <1>9, <2>3, <3>1 DEF Stored, BookingAssumption
    <3>. QED
      BY <1>6, <3>1, <3>2
  <2>. QED
    BY <1>8, <2>1, <2>2, <2>3
<1>19. Grows
  <2>1. \A t \in Opened : /\ t \in Opened'
                          /\ sess'[t].seats = sess[t].seats
                          /\ sess'[t].first = sess[t].first
                          /\ sess[t].resv \in Stored => sess'[t].resv \in Stored'
    BY <1>5, <1>8 DEF Opened
  <2>2. \A x \in Issued : /\ x \in Issued'
                          /\ pay'[x].sess = pay[x].sess
                          /\ pay[x].resv # Null => pay'[x].resv = pay[x].resv
                          /\ Captured(x) => Captured(x)'
    <3>1. ASSUME NEW x \in Issued
          PROVE  pay[x].resv # Null => pay'[x].resv = pay[x].resv
      BY <1>1, <1>6, <1>9 DEF Issued
    <3>2. ASSUME NEW x \in Issued
          PROVE  Captured(x) => Captured(x)'
      BY <1>2 DEF Captured
    <3>3. ASSUME NEW x \in Issued
          PROVE  pay'[x].sess = pay[x].sess
      BY <1>10 DEF Issued
    <3>. QED
      BY <1>8, <3>1, <3>2, <3>3
  <2>. QED
    BY <1>8, <2>1, <2>2 DEF Grows
<1>21. ProvisionalNeverBoards'
  BY <1>8 DEF DirectInv, ProvisionalNeverBoards, Direct
<1>20. FreshRequests'
  BY <1>19, RequestsStay, IdleIsRequest DEF MaterializeCommit, Finish, Continue, OneGoesOn
<1>. QED
  BY <1>7, <1>11, <1>12, <1>13, <1>14, <1>15, <1>16, <1>17, <1>18, <1>20, <1>21 DEF DirectInv

-----------------------------------------------------------------------------
(* The older ways to book.                                                 *)

(* A reservation without a session is inserted.                            *)
LEMMA DirectInserts ==
    ASSUME BookingAssumption, DirectInv, NEW r \in Reservations, NEW row \in ReservationRow,
           r \notin Stored, row.status = "booked", row.sess = Null,
           row.rows # {} => row.ticket = "pending_passenger",
           ~SeatConflict(row.first, row.rows),
           resv' = [resv EXCEPT ![r] = row],
           UNCHANGED <<sess, pay, charge, req>>
    PROVE  DirectInv'
<1>1. DirectTypeOK'
  BY DEF DirectInv, DirectTypeOK
<1>2. /\ Opened' = Opened
      /\ Issued' = Issued
      /\ resv'[r] = row
      /\ \A x \in Stored : resv'[x] = resv[x]
  BY DEF Opened, Issued, Stored, DirectInv, DirectTypeOK
<1>3. Stored' = Stored \cup {r} /\ Direct' = Direct \cup {r}
  <2>1. \A x \in Reservations \ {r} : resv'[x] = resv[x]
    BY DEF DirectInv, DirectTypeOK
  <2>2. Stored' = Stored \cup {r}
    BY <1>2, <2>1 DEF Stored
  <2>. QED
    BY <1>2, <2>2 DEF Direct
<1>4. Stored' \ Direct' = Stored \ Direct
  BY <1>3 DEF Direct
<1>5. SessionRows' /\ PaymentRows' /\ ChargeRows'
  BY <1>2, <1>3 DEF DirectInv, SessionRows, PaymentRows, ChargeRows, Captured
<1>6. ReservationRows'
  BY <1>2, <1>4 DEF DirectInv, ReservationRows
<1>7. UniqueColumns'
  <2>1. ASSUME NEW x \in Stored
        PROVE  row.first # resv[x].first /\ row.rows \cap resv[x].rows = {}
    BY DEF SeatConflict
  <2>. QED
    BY <1>2, <1>3, <2>1 DEF DirectInv, UniqueColumns
<1>8. CompletedMeansSeated' /\ LinksAgree'
  BY <1>2, <1>3 DEF DirectInv, CompletedMeansSeated, LinksAgree
<1>9. CheckoutPaid'
  BY <1>4 DEF DirectInv, CheckoutPaid, Captured
<1>10. ProvisionalNeverBoards'
  BY <1>2, <1>3 DEF DirectInv, ProvisionalNeverBoards, Direct
<1>11. Grows
  BY <1>2, <1>3 DEF Grows, Captured
<1>12. FreshRequests'
  BY <1>11, RequestsStay
<1>. QED
  BY <1>1, <1>5, <1>6, <1>7, <1>8, <1>9, <1>10, <1>12 DEF DirectInv

(* POST /orders and POST /reservations.                                    *)
LEMMA DirectBookings ==
    ASSUME BookingAssumption, DirectInv, NEW r \in Reservations, NEW x \in Seats
    PROVE  /\ Order(r, x) => DirectInv'
           /\ \A S \in SUBSET Seats : Reserve(r, S, x) => DirectInv'
<1>1. ASSUME Order(r, x)
      PROVE  DirectInv'
  <2>. DEFINE row == [status |-> "booked", sess |-> Null, first |-> x,
                      rows |-> {}, pax |-> {}, ticket |-> "valid"]
  <2>1. row \in ReservationRow
    BY DEF ReservationRow, ReservationStatus, TicketStatus, Key
  <2>2. r \notin Stored /\ resv' = [resv EXCEPT ![r] = row] /\ ~SeatConflict(row.first, row.rows)
    BY <1>1 DEF Order, Stored
  <2>3. row.status = "booked" /\ row.sess = Null /\ row.rows = {}
    OBVIOUS
  <2>. HIDE DEF row
  <2>. QED
    BY <1>1, <2>1, <2>2, <2>3, DirectInserts DEF Order
<1>2. ASSUME NEW S \in SUBSET Seats, Reserve(r, S, x)
      PROVE  DirectInv'
  <2>. DEFINE row == [status |-> "booked", sess |-> Null, first |-> x,
                      rows |-> S, pax |-> {}, ticket |-> "pending_passenger"]
  <2>1. row \in ReservationRow
    BY DEF ReservationRow, ReservationStatus, TicketStatus, Key
  <2>2. r \notin Stored /\ resv' = [resv EXCEPT ![r] = row] /\ ~SeatConflict(row.first, row.rows)
    BY <1>2 DEF Reserve, Stored
  <2>3. row.status = "booked" /\ row.sess = Null /\ row.ticket = "pending_passenger"
    OBVIOUS
  <2>. HIDE DEF row
  <2>. QED
    BY <1>2, <2>1, <2>2, <2>3, DirectInserts DEF Reserve
<1>. QED
  BY <1>1, <1>2

(* What the commit of passengers changes in the reservations.              *)
LEMMA DetailsWritten ==
    ASSUME DirectInv, NEW w \in Workers, DetailsCommit(w)
    PROVE  /\ resv' \in [Reservations -> ReservationRow]
           /\ \A x \in Reservations :
                 /\ resv'[x].status = resv[x].status
                 /\ resv'[x].sess = resv[x].sess
                 /\ resv'[x].first = resv[x].first
                 /\ resv'[x].rows = resv[x].rows
                 /\ resv[x].pax # {} => resv'[x].pax = resv[x].pax
                 /\ x \in Direct => resv'[x].ticket = resv[x].ticket
<1>. DEFINE q == req[w]
            ticket == IF q.row.status = "paid"
                      THEN Flushed(q.row.ticket, "valid", resv[q.r].ticket) ELSE resv[q.r].ticket
            new == [resv[q.r] EXCEPT !.pax = q.pax, !.ticket = ticket]
<1>1. /\ q.r \in Reservations /\ q.pax \in SUBSET Passports /\ q.row \in ReservationRow
      /\ q.r \in Direct => q.row.status # "paid"
      /\ resv[q.r].pax = {}
  <2>1. q \in DirectRequest /\ Fresh(q) /\ q.op = "details"
    BY DEF DetailsCommit, DirectInv, DirectTypeOK, FreshRequests
  <2>2. resv[q.r].pax = {}
    BY DEF DetailsCommit
  <2>. QED
    BY <2>1, <2>2, RequestFields DEF Fresh
<1>2. resv' = [resv EXCEPT ![q.r] = new]
  BY <1>1 DEF DetailsCommit, DirectInv, DirectTypeOK
<1>3. /\ resv[q.r] \in ReservationRow /\ ticket \in TicketStatus \cup {"absent"}
      /\ q.r \in Direct => ticket = resv[q.r].ticket
  BY <1>1 DEF Flushed, DirectInv, DirectTypeOK, ReservationRow, TicketStatus
<1>. HIDE DEF ticket
<1>4. /\ new \in ReservationRow
      /\ new.status = resv[q.r].status /\ new.sess = resv[q.r].sess
      /\ new.first = resv[q.r].first /\ new.rows = resv[q.r].rows /\ new.ticket = ticket
  BY <1>1, <1>3 DEF ReservationRow
<1>. HIDE DEF new
<1>. QED
  BY <1>1, <1>2, <1>3, <1>4 DEF DirectInv, DirectTypeOK

(* Passengers of a reservation, from their load to their commit.           *)
LEMMA DetailsSteps ==
    ASSUME BookingAssumption, DirectInv, NEW w \in Workers
    PROVE  /\ \A r \in Reservations, pax \in SUBSET Passports : DetailsLoad(w, r, pax) => DirectInv'
           /\ DetailsCommit(w) => DirectInv'
           /\ DetailsAbort(w) => DirectInv'
<1>1. ASSUME NEW r \in Reservations, NEW pax \in SUBSET Passports, DetailsLoad(w, r, pax)
      PROVE  DirectInv'
  <2>. DEFINE q == [op |-> "details", r |-> r, pax |-> pax, row |-> resv[r]]
  <2>1. q \in DirectRequest
    BY DEF DirectRequest, DetailsRequest, DirectInv, DirectTypeOK
  <2>2. r \in Stored /\ (r \in Direct => resv[r].status # "paid")
    BY <1>1 DEF DetailsLoad, Live, DirectInv, ProvisionalNeverBoards
  <2>3. Fresh(q)
    BY <2>2 DEF Fresh
  <2>. QED
    BY <1>1, <2>1, <2>3, RequestStep DEF DetailsLoad, Begin, Continue
<1>2. ASSUME DetailsCommit(w)
      PROVE  DirectInv'
  <2>1. DirectTypeOK'
    BY <1>2, DetailsWritten, IdleIsRequest DEF DetailsCommit, Finish, DirectInv, DirectTypeOK
  <2>2. SameLinks
    BY <1>2, DetailsWritten DEF DetailsCommit, SameLinks
  <2>3. ProvisionalNeverBoards'
    BY <1>2, DetailsWritten, ProvisionalStays
  <2>. QED
    BY <1>2, <2>1, <2>2, <2>3, StatusStep, IdleIsRequest
       DEF DetailsCommit, Finish, Continue, OneGoesOn
<1>3. DetailsAbort(w) => DirectInv'
  BY RequestEnds DEF DetailsAbort
<1>. QED
  BY <1>1, <1>2, <1>3

-----------------------------------------------------------------------------
(* The theorems.                                                           *)

(* The invariant holds at first.                                           *)
LEMMA InitInv == BookingAssumption /\ Init => DirectInv
<1>. SUFFICES ASSUME BookingAssumption, Init PROVE DirectInv
  OBVIOUS
<1>1. DirectTypeOK
  BY IdleIsRequest
     DEF Init, DirectTypeOK, SessionRow, PaymentRow, ReservationRow, Charge, Key, BookingAssumption, Full
<1>2. Opened = {} /\ Issued = {} /\ Stored = {} /\ Direct = {}
  BY DEF Init, Opened, Issued, Stored, Direct
<1>3. SessionRows /\ PaymentRows /\ ReservationRows /\ ChargeRows
  BY <1>2 DEF Init, SessionRows, PaymentRows, ReservationRows, ChargeRows
<1>4. FreshRequests
  BY IdleIsRequest DEF Init, FreshRequests
<1>5. /\ UniqueColumns /\ CompletedMeansSeated /\ LinksAgree /\ CheckoutPaid
      /\ ProvisionalNeverBoards
  BY <1>2 DEF Init, UniqueColumns, CompletedMeansSeated, LinksAgree, CheckoutPaid,
              ProvisionalNeverBoards
<1>. QED
  BY <1>1, <1>3, <1>4, <1>5 DEF DirectInv

(* Stuttering preserves the invariant.                                     *)
LEMMA UnchangedInv == DirectInv /\ UNCHANGED vars => DirectInv'
<1>. SUFFICES ASSUME DirectInv, UNCHANGED vars PROVE DirectInv'
  OBVIOUS
<1>. USE DEF vars, db
<1>1. DirectTypeOK'
  BY DEF DirectInv, DirectTypeOK
<1>2. FreshRequests'
  BY DEF DirectInv, FreshRequests, Fresh, SeenIsFresh, Captured, Opened, Issued, Stored, Direct
<1>3. (SessionRows /\ PaymentRows /\ ReservationRows /\ ChargeRows)'
  BY DEF DirectInv, SessionRows, PaymentRows, ReservationRows, ChargeRows,
         Captured, Opened, Issued, Stored, Direct
<1>4. (UniqueColumns /\ CompletedMeansSeated /\ LinksAgree /\ CheckoutPaid)'
  BY DEF DirectInv, UniqueColumns, CompletedMeansSeated, LinksAgree, CheckoutPaid, Captured, Stored,
         Direct
<1>5. ProvisionalNeverBoards'
  BY DEF DirectInv, ProvisionalNeverBoards, Direct, Stored
<1>. QED
  BY <1>1, <1>2, <1>3, <1>4, <1>5 DEF DirectInv

(* Every step preserves the invariant.                                     *)
LEMMA NextInv == BookingAssumption /\ DirectInv /\ [Next]_vars => DirectInv'
<1>. SUFFICES ASSUME BookingAssumption, DirectInv, [Next]_vars PROVE DirectInv'
  OBVIOUS
<1>1. CASE Environment
  <2>1. ASSUME NEW s \in Sessions, Lapse(s)
        PROVE  DirectInv'
    BY <2>1, LapseSteps
  <2>. QED
    BY <1>1, <2>1, CustomerSteps DEF Environment
<1>2. ASSUME NEW w \in Workers, CheckoutStep(w)
      PROVE  DirectInv'
  BY <1>2, CheckoutLoads, CheckoutUpdates, CreateCommits, PayCommits DEF CheckoutStep
<1>3. ASSUME NEW w \in Workers, PaymentStep(w)
      PROVE  DirectInv'
  BY <1>3, PaymentLoads, ApplySteps, RecordUpdates, ReviveUpdates, MaterializeCommits DEF PaymentStep
<1>4. ASSUME NEW w \in Workers, CancelStep(w)
      PROVE  DirectInv'
  BY <1>4, RefundSteps, CancelSteps, ValidateSteps DEF CancelStep
<1>5. ASSUME NEW w \in Workers, Drop(w)
      PROVE  DirectInv'
  BY <1>5, ValidateSteps
<1>. QED
  BY <1>1, <1>2, <1>3, <1>4, <1>5, UnchangedInv DEF Next

(* So does every step of the older ways to book.                           *)
LEMMA DirectNextInv == BookingAssumption /\ DirectInv /\ [DirectNext]_vars => DirectInv'
<1>. SUFFICES ASSUME BookingAssumption, DirectInv, [DirectNext]_vars PROVE DirectInv'
  OBVIOUS
<1>1. CASE [Next]_vars
  BY <1>1, NextInv
<1>2. CASE DirectStep
  BY <1>2, DirectBookings, DetailsSteps DEF DirectStep
<1>. QED
  BY <1>1, <1>2 DEF DirectNext

-----------------------------------------------------------------------------
(* What a step does to the reservations there are.                         *)

(* A step after which they have the seats and the passengers they had, and *)
(* a direct booking is as it was or canceled.                              *)
SameSeats ==
    \A r \in Reservations :
       /\ (resv'[r].status = "absent") <=> (resv[r].status = "absent")
       /\ resv'[r].sess = resv[r].sess
       /\ resv'[r].first = resv[r].first
       /\ resv'[r].rows = resv[r].rows
       /\ resv'[r].pax = resv[r].pax
       /\ r \in Direct => resv'[r].status \in {resv[r].status, "canceled"}

(* What each step of the handlers may do to sessions and reservations.     *)
LEMMA StepKinds ==
    ASSUME [Next]_vars
    PROVE  \/ UNCHANGED <<sess, resv>>
           \/ UNCHANGED resv /\ \E s \in Sessions : Lapse(s)
           \/ \E w \in Workers :
                 \/ UNCHANGED resv /\ \E s \in Sessions : CreateCommit(w, s)
                 \/ UNCHANGED resv /\ (ExpireCommit(w) \/ SubmitCommit(w) \/ RecordCommit(w))
                 \/ \E r \in Reservations : MaterializeCommit(w, r)
                 \/ /\ UNCHANGED sess
                    /\ ReviveCommit(w) \/ RefundCommit(w) \/ CancelCommit(w) \/ ValidateCommit(w)
<1>. USE DEF db
<1>1. CASE UNCHANGED vars
  BY <1>1 DEF vars
<1>2. CASE Environment
  BY <1>2 DEF Environment, Lapse, CustomerPays, CustomerDefers, ChargeExpires
<1>3. ASSUME NEW w \in Workers, CheckoutStep(w)
      PROVE  \/ UNCHANGED <<sess, resv>>
             \/ UNCHANGED resv /\ \E s \in Sessions : CreateCommit(w, s)
             \/ UNCHANGED resv /\ (ExpireCommit(w) \/ SubmitCommit(w))
  BY <1>3 DEF CheckoutStep, CreateLoad, CreateCommit, ExpireLoad, PayLoad, SubmitLoad,
              ExpireCommit, SubmitCommit, PayCommit, PayAbort
<1>4. ASSUME NEW w \in Workers, PaymentStep(w)
      PROVE  \/ UNCHANGED <<sess, resv>>
             \/ UNCHANGED resv /\ RecordCommit(w)
             \/ \E r \in Reservations : MaterializeCommit(w, r)
             \/ UNCHANGED sess /\ ReviveCommit(w)
  BY <1>4 DEF PaymentStep, WebhookLoad, VerifyLoad, VerifyRetrieve, ApplyToConsumed, ApplyToOpen,
              ApplyRefused, ApplyToLinked, ApplyUnpaid, RecordCommit, ReviveCommit, MaterializeAbort
<1>5. ASSUME NEW w \in Workers, CancelStep(w)
      PROVE  \/ UNCHANGED <<sess, resv>>
             \/ /\ UNCHANGED sess
                /\ RefundCommit(w) \/ CancelCommit(w) \/ ValidateCommit(w)
  BY <1>5 DEF CancelStep, RefundLoad, RefundCharge, RefundRejected, RefundCommit, CancelLoad,
              ValidateLoad, CancelWithRefund, CancelWithoutRefund, CancelCommit, ValidateCommit
<1>6. ASSUME NEW w \in Workers, Drop(w)
      PROVE  UNCHANGED <<sess, resv>>
  BY <1>6 DEF Drop
<1>. QED
  BY <1>1, <1>2, <1>3, <1>4, <1>5, <1>6 DEF Next

(* The commits that update a stored reservation keep its seats.            *)
LEMMA SeatsStay ==
    ASSUME BookingAssumption, DirectInv, NEW w \in Workers,
           ReviveCommit(w) \/ RefundCommit(w) \/ CancelCommit(w) \/ ValidateCommit(w)
    PROVE  SameSeats
<1>. DEFINE q == req[w]
<1>1. q \in DirectRequest /\ Fresh(q)
  BY DEF DirectInv, DirectTypeOK, FreshRequests
<1>2. CASE ReviveCommit(w)
  BY <1>2, RevivedReservation DEF SameSeats
<1>3. ASSUME NEW r \in Reservations, NEW row \in ReservationRow, r \in Stored, CancelRow(r, row)
      PROVE  SameSeats
  BY <1>3, CanceledReservation DEF SameSeats
<1>4. CASE RefundCommit(w)
  <2>1. CASE q.r = Null
    BY <1>4, <2>1 DEF RefundCommit, SameSeats
  <2>2. CASE q.r # Null
    <3>1. q.r \in Reservations /\ q.r \in Stored /\ q.row \in ReservationRow
      BY <1>1, <1>4, <2>2, RequestFields DEF RefundCommit, Fresh, Stored
    <3>. QED
      BY <1>3, <1>4, <2>2, <3>1 DEF RefundCommit
  <2>. QED
    BY <2>1, <2>2
<1>5. CASE CancelCommit(w)
  <2>1. q.r \in Reservations /\ q.r \in Stored /\ q.row \in ReservationRow
    BY <1>1, <1>5, RequestFields DEF CancelCommit, Fresh
  <2>. QED
    BY <1>3, <1>5, <2>1 DEF CancelCommit
<1>6. CASE ValidateCommit(w)
  BY <1>6 DEF ValidateCommit, DirectInv, DirectTypeOK, ReservationRow, SameSeats
<1>. QED
  BY <1>2, <1>4, <1>5, <1>6

(* What any step leaves of a stored reservation: its session, passengers   *)
(* once there are some, and for a direct booking the choice between what   *)
(* it was and canceled.                                                    *)
Keeps ==
    \A r \in Stored :
       /\ resv'[r].sess = resv[r].sess
       /\ resv[r].pax # {} => resv'[r].pax = resv[r].pax
       /\ r \in Direct => resv'[r].status \in {resv[r].status, "canceled"}

(* An insertion leaves the other rows alone.                               *)
LEMMA InsertKeeps ==
    ASSUME DirectInv, NEW r \in Reservations, NEW row, resv[r].status = "absent",
           resv' = [resv EXCEPT ![r] = row]
    PROVE  Keeps
  BY DEF Keeps, Stored, DirectInv, DirectTypeOK

(* Every step leaves that much of the reservations.                        *)
LEMMA StepKeeps == BookingAssumption /\ DirectInv /\ [DirectNext]_vars => Keeps
<1>. SUFFICES ASSUME BookingAssumption, DirectInv, [DirectNext]_vars PROVE Keeps
  OBVIOUS
<1>1. UNCHANGED resv => Keeps
  BY DEF Keeps
<1>2. SameSeats => Keeps
  BY DEF Keeps, SameSeats, Stored
<1>3. ASSUME NEW w \in Workers, NEW r \in Reservations, MaterializeCommit(w, r)
      PROVE  Keeps
  BY <1>3, InsertKeeps DEF MaterializeCommit
<1>4. CASE [Next]_vars
  BY <1>1, <1>2, <1>3, <1>4, StepKinds, SeatsStay
<1>5. CASE DirectStep
  <2>1. ASSUME NEW r \in Reservations, NEW x \in Seats, Order(r, x)
        PROVE  Keeps
    BY <2>1, InsertKeeps DEF Order
  <2>2. ASSUME NEW r \in Reservations, NEW x \in Seats, NEW S \in SUBSET Seats, Reserve(r, S, x)
        PROVE  Keeps
    BY <2>2, InsertKeeps DEF Reserve
  <2>3. ASSUME NEW w \in Workers, NEW r \in Reservations, NEW pax \in SUBSET Passports,
               DetailsLoad(w, r, pax)
        PROVE  Keeps
    BY <1>1, <2>3 DEF DetailsLoad, db
  <2>4. ASSUME NEW w \in Workers, DetailsCommit(w)
        PROVE  Keeps
    BY <2>4, DetailsWritten DEF Keeps, Stored
  <2>5. ASSUME NEW w \in Workers, DetailsAbort(w)
        PROVE  Keeps
    BY <1>1, <2>5 DEF DetailsAbort, db
  <2>. QED
    BY <1>5, <2>1, <2>2, <2>3, <2>4, <2>5 DEF DirectStep
<1>. QED
  BY <1>4, <1>5 DEF DirectNext

-----------------------------------------------------------------------------
(* The theorems of DirectBooking.                                          *)

(* The invariant holds in every reachable state of checkout and the older  *)
(* ways to book together, whatever the numbers of rows and workers.        *)
THEOREM DirectInvariance == DirectSpec => []DirectInv
<1>1. BookingAssumption
  BY BookingAssumption
<1>. QED
  BY <1>1, InitInv, DirectNextInv, PTL DEF DirectSpec

(* Rows and requests keep their types.                                     *)
THEOREM DirectTypeCorrect == DirectSpec => []DirectTypeOK
<1>1. DirectInv => DirectTypeOK
  BY DEF DirectInv
<1>. QED
  BY <1>1, DirectInvariance, PTL

(* A direct booking is never paid, nor its provisional ticket activated.   *)
THEOREM ProvisionalHolds == DirectSpec => []ProvisionalNeverBoards
<1>1. DirectInv => ProvisionalNeverBoards
  BY DEF DirectInv
<1>. QED
  BY <1>1, DirectInvariance, PTL

(* The first seats are unique, so a session has one reservation.           *)
LEMMA OneReservation == BookingAssumption /\ DirectInv => OneReservationPerSession
<1>1. SUFFICES ASSUME BookingAssumption, DirectInv, NEW r1 \in Stored, NEW r2 \in Stored,
                      resv[r1].sess # Null, resv[r1].sess = resv[r2].sess
               PROVE  r1 = r2
  BY DEF OneReservationPerSession
<1>2. resv[r1].first = resv[r2].first
  BY <1>1 DEF DirectInv, ReservationRows, Direct
<1>. QED
  BY <1>1, <1>2 DEF DirectInv, UniqueColumns

(* Direct bookings that take seats from under the sessions leave the links *)
(* of the checkout, its completed payments and its one reservation for a   *)
(* session as they are without them.                                       *)
THEOREM CheckoutUnharmedHolds == DirectSpec => []CheckoutUnharmed
<1>1. BookingAssumption
  BY BookingAssumption
<1>2. BookingAssumption /\ DirectInv => CheckoutUnharmed
  BY OneReservation DEF DirectInv, CheckoutUnharmed
<1>. QED
  BY <1>1, <1>2, DirectInvariance, PTL

(* No step brings a canceled direct booking back.                          *)
THEOREM DirectStaysCanceledHolds == DirectSpec => DirectStaysCanceled
<1>1. BookingAssumption
  BY BookingAssumption
<1>2. BookingAssumption /\ DirectInv /\ [DirectNext]_vars =>
         \A r \in Direct : resv[r].status = "canceled" => resv'[r].status = "canceled"
  BY StepKeeps DEF Keeps, Direct
<1>. QED
  BY <1>1, <1>2, DirectInvariance, PTL DEF DirectSpec, DirectStaysCanceled

(* No step replaces passengers that were accepted.                         *)
THEOREM PassengersKeptHolds == DirectSpec => PassengersKept
<1>1. BookingAssumption
  BY BookingAssumption
<1>2. BookingAssumption /\ DirectInv /\ [DirectNext]_vars =>
         \A r \in Stored : resv[r].pax # {} => resv'[r].pax = resv[r].pax
  BY StepKeeps DEF Keeps
<1>. QED
  BY <1>1, <1>2, DirectInvariance, PTL DEF DirectSpec, PassengersKept

-----------------------------------------------------------------------------
(* The theorems of Booking, where every reservation comes from a session.  *)

CheckoutOnly ==
    /\ Direct = {}
    /\ \A w \in Workers : req[w].op # "details"

(* The invariant of Booking is the one of DirectBooking without direct     *)
(* bookings.                                                               *)
LEMMA BookingIsDirect ==
    ASSUME BookingAssumption
    PROVE  BookingInv <=> DirectInv /\ CheckoutOnly
<1>1. ASSUME BookingInv
      PROVE  DirectInv /\ CheckoutOnly
  <2>1. DirectTypeOK
    BY <1>1 DEF BookingInv, TypeOK, DirectTypeOK, DirectRequest
  <2>2. CheckoutOnly
    BY <1>1 DEF BookingInv, TypeOK, CheckoutOnly, Request, Idle
  <2>3. UniqueColumns
    BY <1>1 DEF BookingInv, SeatSoldOnce, UniqueColumns
  <2>4. CheckoutPaid /\ ProvisionalNeverBoards
    BY <1>1 DEF BookingInv, NoFreeSeat, CheckoutPaid, Captured, ProvisionalNeverBoards
  <2>. QED
    BY <1>1, <2>1, <2>2, <2>3, <2>4 DEF BookingInv, DirectInv
<1>2. ASSUME DirectInv, CheckoutOnly
      PROVE  BookingInv
  <2>1. TypeOK
    <3>1. ASSUME NEW w \in Workers
          PROVE  req[w] \in Request
      BY <1>2 DEF DirectInv, DirectTypeOK, DirectRequest, DetailsRequest, CheckoutOnly
    <3>. QED
      BY <1>2, <3>1 DEF DirectInv, DirectTypeOK, TypeOK
  <2>2. SeatSoldOnce
    <3>1. \A r \in Stored : resv[r].first \in resv[r].rows
      BY <1>2 DEF DirectInv, CheckoutOnly, ReservationRows, SessionRows
    <3>. QED
      BY <1>2, <3>1 DEF DirectInv, UniqueColumns, SeatSoldOnce
  <2>3. NoFreeSeat
    BY <1>2 DEF DirectInv, CheckoutOnly, CheckoutPaid, NoFreeSeat, Captured
  <2>. QED
    BY <1>2, <2>1, <2>2, <2>3 DEF DirectInv, CheckoutOnly, BookingInv
<1>. QED
  BY <1>1, <1>2

(* The same after a step.                                                  *)
LEMMA BookingIsDirectNext == DirectInv' /\ CheckoutOnly' => BookingInv'
<1>1. DirectInv /\ CheckoutOnly => BookingInv
  BY BookingAssumption, BookingIsDirect
<1>. QED
  BY <1>1, PTL

(* No step of Booking inserts a reservation without a session.             *)
LEMMA NoDirect == BookingAssumption /\ DirectInv /\ Direct = {} /\ [Next]_vars => Direct' = {}
<1>. SUFFICES ASSUME BookingAssumption, DirectInv, Direct = {}, [Next]_vars PROVE Direct' = {}
  OBVIOUS
<1>1. UNCHANGED resv => Direct' = {}
  BY DEF Direct, Stored
<1>2. SameSeats => Direct' = {}
  BY DEF Direct, Stored, SameSeats
<1>3. ASSUME NEW w \in Workers, NEW r \in Reservations, MaterializeCommit(w, r)
      PROVE  Direct' = {}
  <2>1. req[w].s \in Sessions
    BY <1>3, RequestFields DEF MaterializeCommit, DirectInv, DirectTypeOK
  <2>2. Booked(req[w]).sess # Null
    BY <2>1 DEF Booked, BookingAssumption
  <2>3. resv' = [resv EXCEPT ![r] = Booked(req[w])]
    BY <1>3 DEF MaterializeCommit
  <2>. QED
    BY <2>2, <2>3 DEF Direct, Stored, DirectInv, DirectTypeOK
<1>. QED
  BY <1>1, <1>2, <1>3, StepKinds, SeatsStay

(* No step of Booking starts a submission of passengers to a reservation.  *)
LEMMA NoDetails ==
    ASSUME DirectTypeOK, [Next]_vars, \A w \in Workers : req[w].op # "details"
    PROVE  \A w \in Workers : req'[w].op # "details"
<1>1. ASSUME NEW w \in Workers, NEW q, q.op # "details", Continue(w, q)
      PROVE  \A v \in Workers : req'[v].op # "details"
  BY <1>1 DEF Continue, DirectTypeOK
<1>2. ASSUME NEW w \in Workers, Finish(w)
      PROVE  \A v \in Workers : req'[v].op # "details"
  BY <1>2 DEF Finish, Idle, DirectTypeOK
<1>3. ASSUME UNCHANGED req
      PROVE  \A v \in Workers : req'[v].op # "details"
  BY <1>3
<1>4. CASE UNCHANGED vars
  BY <1>3, <1>4 DEF vars
<1>5. CASE Environment
  BY <1>3, <1>5 DEF Environment, Lapse, CustomerPays, CustomerDefers, ChargeExpires
<1>6. ASSUME NEW w \in Workers, CheckoutStep(w)
      PROVE  \A v \in Workers : req'[v].op # "details"
  BY <1>2, <1>6 DEF CheckoutStep, CreateLoad, CreateCommit, ExpireLoad, PayLoad, SubmitLoad,
              ExpireCommit, SubmitCommit, PayCommit, PayAbort, Begin, DirectTypeOK
<1>7. ASSUME NEW w \in Workers, PaymentStep(w)
      PROVE  \A v \in Workers : req'[v].op # "details"
  <2>1. ASSUME NEW p \in Payments, NEW verdict \in Verdict,
               WebhookLoad(w, p, verdict) \/ VerifyLoad(w, p)
        PROVE  \A v \in Workers : req'[v].op # "details"
    BY <2>1 DEF WebhookLoad, VerifyLoad, Begin, DirectTypeOK
  <2>2. ASSUME VerifyRetrieve(w)
        PROVE  \A v \in Workers : req'[v].op # "details"
    <3>1. PICK q : q.op # "details" /\ Continue(w, q)
      BY <2>2 DEF VerifyRetrieve, Idle
    <3>. QED
      BY <1>1, <3>1
  <2>3. ASSUME ApplyToConsumed(w) \/ ApplyToOpen(w) \/ ApplyToLinked(w) \/ ApplyUnpaid(w)
        PROVE  \A v \in Workers : req'[v].op # "details"
    BY <2>3 DEF ApplyToConsumed, ApplyToOpen, ApplyToLinked, ApplyUnpaid, Continue, DirectTypeOK
  <2>4. ASSUME \/ ApplyRefused(w) \/ RecordCommit(w) \/ ReviveCommit(w) \/ MaterializeAbort(w)
               \/ \E r \in Reservations : MaterializeCommit(w, r)
        PROVE  \A v \in Workers : req'[v].op # "details"
    BY <1>2, <2>4 DEF ApplyRefused, RecordCommit, ReviveCommit, MaterializeAbort, MaterializeCommit
  <2>5. Verdict # {}
    BY DEF Verdict
  <2>. QED
    BY <1>7, <2>1, <2>2, <2>3, <2>4, <2>5 DEF PaymentStep
<1>8. ASSUME NEW w \in Workers, CancelStep(w)
      PROVE  \A v \in Workers : req'[v].op # "details"
  BY <1>2, <1>8 DEF CancelStep, RefundLoad, RefundCharge, RefundRejected, RefundCommit, CancelLoad,
              ValidateLoad, CancelWithRefund, CancelWithoutRefund, CancelCommit, ValidateCommit,
              Begin, Continue, DirectTypeOK
<1>9. ASSUME NEW w \in Workers, Drop(w)
      PROVE  \A v \in Workers : req'[v].op # "details"
  BY <1>2, <1>9 DEF Drop
<1>. QED
  BY <1>4, <1>5, <1>6, <1>7, <1>8, <1>9 DEF Next

(* The invariant of Booking is inductive.                                  *)
LEMMA BookingInductive ==
    /\ BookingAssumption /\ Init => BookingInv
    /\ BookingAssumption /\ BookingInv /\ [Next]_vars => BookingInv'
<1>1. ASSUME BookingAssumption, Init
      PROVE  BookingInv
  <2>1. CheckoutOnly
    BY <1>1 DEF Init, CheckoutOnly, Direct, Stored, Idle
  <2>. QED
    BY <1>1, <2>1, InitInv, BookingIsDirect
<1>2. ASSUME BookingAssumption, BookingInv, [Next]_vars
      PROVE  BookingInv'
  <2>1. DirectInv /\ CheckoutOnly
    BY <1>2, BookingIsDirect
  <2>2. DirectInv'
    BY <1>2, <2>1, NextInv
  <2>3. CheckoutOnly'
    BY <1>2, <2>1, NoDirect, NoDetails DEF CheckoutOnly, DirectInv
  <2>. QED
    BY <1>2, <2>2, <2>3, BookingIsDirectNext
<1>. QED
  BY <1>1, <1>2

(* The strengthened invariant holds in every reachable state, whatever the *)
(* numbers of rows and workers.                                            *)
THEOREM Invariance == Spec => []BookingInv
<1>1. BookingAssumption
  BY BookingAssumption
<1>. QED
  BY <1>1, BookingInductive, PTL DEF Spec

(* Rows and requests keep their types.                                     *)
THEOREM TypeCorrect == Spec => []TypeOK
<1>1. BookingInv => TypeOK
  BY DEF BookingInv
<1>. QED
  BY <1>1, Invariance, PTL

(* No seat of the flight is ever sold twice.                               *)
THEOREM SeatSoldOnceHolds == Spec => []SeatSoldOnce
<1>1. BookingInv => SeatSoldOnce
  BY DEF BookingInv
<1>. QED
  BY <1>1, Invariance, PTL

(* A session turns into one reservation, however its payment results race. *)
THEOREM OneReservationHolds == Spec => []OneReservationPerSession
<1>1. BookingAssumption
  BY BookingAssumption
<1>2. BookingAssumption /\ BookingInv => OneReservationPerSession
  BY BookingIsDirect, OneReservation
<1>. QED
  BY <1>1, <1>2, Invariance, PTL

(* A completed payment has a booking.                                      *)
THEOREM CompletedSeatedHolds == Spec => []CompletedMeansSeated
<1>1. BookingInv => CompletedMeansSeated
  BY DEF BookingInv
<1>. QED
  BY <1>1, Invariance, PTL

(* The links between payments, sessions and reservations agree.            *)
THEOREM LinksHold == Spec => []LinksAgree
<1>1. BookingInv => LinksAgree
  BY DEF BookingInv
<1>. QED
  BY <1>1, Invariance, PTL

(* A booking made by checkout has been paid for.                           *)
THEOREM NoFreeSeatHolds == Spec => []NoFreeSeat
<1>1. BookingInv => NoFreeSeat
  BY DEF BookingInv
<1>. QED
  BY <1>1, Invariance, PTL

-----------------------------------------------------------------------------
(* Booking implements SeatSale: the transaction that inserts a checkout    *)
(* session is its Ask, the one that turns a paid session into a            *)
(* reservation is its Sell, and every other step leaves what was asked and *)
(* the buyers of the seats alone.                                          *)

Taken(r) == {resv[r].first} \cup resv[r].rows

(* The buyer of a seat is the session of the reservation that has it.      *)
LEMMA BuyerOf ==
    ASSUME BookingInv, NEW x \in Seats
    PROVE  /\ (\A r \in Stored : x \notin Taken(r)) => Buyer(x) = Null
           /\ \A r \in Stored : x \in Taken(r) => Buyer(x) = resv[r].sess
<1>. DEFINE sold == {r \in Stored : x \in Taken(r)}
<1>1. Buyer(x) = IF sold = {} THEN Null ELSE resv[CHOOSE r \in sold : TRUE].sess
  BY DEF Buyer, Taken
<1>2. \A r1, r2 \in sold : r1 = r2
  BY DEF BookingInv, SeatSoldOnce, Taken
<1>3. ASSUME NEW r \in Stored, x \in Taken(r)
      PROVE  Buyer(x) = resv[r].sess
  <2>1. r \in sold
    BY <1>3
  <2>2. (CHOOSE k \in sold : TRUE) \in sold
    BY <2>1
  <2>. HIDE DEF sold
  <2>. QED
    BY <1>1, <1>2, <2>1, <2>2
<1>4. (\A r \in Stored : x \notin Taken(r)) => Buyer(x) = Null
  BY <1>1
<1>. QED
  BY <1>3, <1>4

(* The same, as one formula that can be primed.                            *)
BuyersKnown ==
    \A x \in Seats :
       /\ (\A r \in Stored : x \notin Taken(r)) => Buyer(x) = Null
       /\ \A r \in Stored : x \in Taken(r) => Buyer(x) = resv[r].sess

(* BuyerOf for all seats, before and after a step of the invariant.        *)
LEMMA BuyersAreKnown == (BookingInv => BuyersKnown) /\ (BookingInv => BuyersKnown)'
<1>1. BookingInv => BuyersKnown
  BY BuyerOf DEF BuyersKnown
<1>. QED
  BY <1>1, PTL

(* The buyers change with the seats of the reservations only.              *)
LEMMA BuyersStay ==
    ASSUME BookingInv, BookingInv', SameSeats
    PROVE  UNCHANGED [x \in Seats |-> Buyer(x)]
<1>1. SUFFICES ASSUME NEW x \in Seats PROVE Buyer(x)' = Buyer(x)
  OBVIOUS
<1>2. /\ Stored' = Stored
      /\ \A r \in Stored : Taken(r)' = Taken(r) /\ resv'[r].sess = resv[r].sess
  BY DEF SameSeats, Stored, Taken
<1>. QED
  BY <1>2, BuyersAreKnown DEF BuyersKnown

(* The sale: the seats had no buyer, the session had bought none.          *)
LEMMA MaterializeSells ==
    ASSUME BookingAssumption, BookingInv, BookingInv', NEW w \in Workers, NEW r \in Reservations,
           MaterializeCommit(w, r)
    PROVE  Sale!Sell(req[w].s) /\ req[w].s \in Sessions
<1>. DEFINE q == req[w]
            s == q.s
            S == sess[s].seats
            booked == Booked(q)
<1>1. /\ s \in Sessions /\ s \in Opened
      /\ q.row.seats = S /\ q.row.first = sess[s].first
  <2>1. q \in Request /\ Fresh(q) /\ q.op = "materialize"
    BY DEF MaterializeCommit, BookingInv, TypeOK, FreshRequests
  <2>2. q.p \in Payments /\ s \in Sessions
    BY <2>1, RequestFields DEF DirectRequest
  <2>. QED
    BY <2>1, <2>2 DEF Fresh, BookingInv, PaymentRows
<1>2. /\ resv' = [resv EXCEPT ![r] = booked]
      /\ r \notin Stored
      /\ ~SeatConflict(sess[s].first, S)
  BY <1>1 DEF MaterializeCommit, Stored
<1>3. sess[s].first \in S /\ S \in SUBSET Seats
  BY <1>1 DEF BookingInv, SessionRows, TypeOK, SessionRow
<1>4. /\ booked.status = "paid" /\ booked.sess = s
      /\ {booked.first} \cup booked.rows = S
  BY <1>1, <1>3 DEF Booked
<1>. HIDE DEF booked
<1>5. /\ Stored' = Stored \cup {r}
      /\ resv'[r] = booked /\ Taken(r)' = S
      /\ \A k \in Stored : resv'[k] = resv[k] /\ Taken(k)' = Taken(k)
  <2>1. resv'[r] = booked /\ \A k \in Reservations \ {r} : resv'[k] = resv[k]
    BY <1>2 DEF BookingInv, TypeOK
  <2>. QED
    BY <1>2, <1>4, <2>1 DEF Stored, Taken
<1>6. \A k \in Stored : resv[k].sess # s /\ Taken(k) \cap S = {}
  <2>1. \A k \in Stored : resv[k].sess # s
    BY <1>1, <1>2, NoReservationYet, BookingIsDirect
  <2>2. \A k \in Stored : resv[k].first \in resv[k].rows
    BY DEF BookingInv, ReservationRows, SessionRows
  <2>3. \A k \in Stored : resv[k].rows \cap S = {}
    BY <1>2 DEF SeatConflict
  <2>. QED
    BY <2>1, <2>2, <2>3 DEF Taken
<1>7. \A x \in Seats : Buyer(x) # s
  <2>1. s # Null
    BY <1>1 DEF BookingAssumption
  <2>. QED
    BY <1>6, <2>1, BuyerOf
<1>8. \A x \in S : Buyer(x) = Null
  BY <1>3, <1>6, BuyerOf
<1>9. ASSUME NEW x \in Seats
      PROVE  Buyer(x)' = IF x \in S THEN s ELSE Buyer(x)
  BY <1>4, <1>5, <1>6, BuyersAreKnown DEF BuyersKnown
<1>10. Asked(s) = S /\ S # {}
  BY <1>1, <1>3 DEF Asked, Opened
<1>11. UNCHANGED [t \in Sessions |-> Asked(t)]
  BY <1>1 DEF MaterializeCommit, Asked, Opened, BookingInv, TypeOK, SessionRow
<1>12. [x \in Seats |-> Buyer(x)]' = [x \in Seats |-> IF x \in S THEN s ELSE [y \in Seats |-> Buyer(y)][x]]
  BY <1>9
<1>13. [t \in Sessions |-> Asked(t)][s] = S
  BY <1>1, <1>10
<1>. QED
  BY <1>1, <1>3, <1>7, <1>8, <1>10, <1>11, <1>12, <1>13 DEF Sale!Sell

(* A new session asks for its seats.                                       *)
LEMMA CreateAsks ==
    ASSUME BookingInv, NEW w \in Workers, NEW s \in Sessions, CreateCommit(w, s)
    PROVE  \E S \in SUBSET Seats : Sale!Ask(s, S)
<1>. DEFINE S == req[w].seats
            row == [status |-> "open", seats |-> S, first |-> req[w].first,
                    pax |-> {}, lapsed |-> FALSE, resv |-> Null]
<1>1. S \in SUBSET Seats /\ req[w].first \in S
  <2>1. req[w] \in Request /\ Fresh(req[w]) /\ req[w].op = "create"
    BY DEF CreateCommit, BookingInv, TypeOK, FreshRequests
  <2>. QED
    BY <2>1, RequestFields DEF DirectRequest, Fresh
<1>2. sess[s].status = "absent" /\ sess' = [sess EXCEPT ![s] = row] /\ UNCHANGED resv
  BY DEF CreateCommit
<1>3. row.status # "absent" /\ row.seats = S
  OBVIOUS
<1>. HIDE DEF row
<1>4. \A t \in Sessions : Asked(t)' = IF t = s THEN S ELSE Asked(t)
  BY <1>2, <1>3 DEF Asked, BookingInv, TypeOK
<1>5. [t \in Sessions |-> Asked(t)]' = [[t \in Sessions |-> Asked(t)] EXCEPT ![s] = S]
  BY <1>4
<1>6. UNCHANGED [x \in Seats |-> Buyer(x)]
  BY <1>2 DEF Buyer, Stored
<1>. QED
  BY <1>1, <1>2, <1>5, <1>6 DEF Sale!Ask, Asked

(* Every other step keeps the seats of the sessions.                       *)
LEMMA AskedStays ==
    ASSUME BookingInv, UNCHANGED sess \/ (\E s \in Sessions : Lapse(s))
              \/ (\E w \in Workers : ExpireCommit(w) \/ SubmitCommit(w) \/ RecordCommit(w))
    PROVE  UNCHANGED [s \in Sessions |-> Asked(s)]
<1>1. CASE UNCHANGED sess
  BY <1>1 DEF Asked
<1>2. CASE \E s \in Sessions : Lapse(s)
  BY <1>2 DEF Lapse, Asked, BookingInv, TypeOK, SessionRow
<1>3. ASSUME NEW w \in Workers, ExpireCommit(w) \/ SubmitCommit(w) \/ RecordCommit(w)
      PROVE  UNCHANGED [s \in Sessions |-> Asked(s)]
  <2>1. req[w] \in Request /\ Fresh(req[w])
    BY DEF BookingInv, TypeOK, FreshRequests
  <2>2. CASE ExpireCommit(w) \/ SubmitCommit(w)
    <3>1. req[w].s \in Opened
      BY <2>1, <2>2 DEF ExpireCommit, SubmitCommit, Fresh
    <3>. QED
      BY <2>2, <3>1 DEF ExpireCommit, SubmitCommit, Asked, Opened, BookingInv, TypeOK, SessionRow
  <2>3. CASE RecordCommit(w)
    <3>. DEFINE s == pay[req[w].p].sess
    <3>1. s \in Opened
      BY <2>1, <2>3 DEF RecordCommit, Fresh, BookingInv, PaymentRows, Issued
    <3>2. sess' = sess \/ sess' = [sess EXCEPT ![s].status = "expired"]
      BY <2>3, Zenon DEF RecordCommit
    <3>. QED
      BY <3>1, <3>2 DEF Asked, Opened, BookingInv, TypeOK, SessionRow
  <2>. QED
    BY <1>3, <2>2, <2>3
<1>. QED
  BY <1>1, <1>2, <1>3

(* Every step is a step of the seat sale or leaves it alone.               *)
LEMMA StepSells ==
    BookingAssumption /\ BookingInv /\ BookingInv' /\ [Next]_vars
       => [Sale!Next]_(<<[s \in Sessions |-> Asked(s)], [x \in Seats |-> Buyer(x)]>>)
<1>. SUFFICES ASSUME BookingAssumption, BookingInv, BookingInv', [Next]_vars
              PROVE  Sale!Next \/ (UNCHANGED [s \in Sessions |-> Asked(s)]
                                   /\ UNCHANGED [x \in Seats |-> Buyer(x)])
  OBVIOUS
<1>1. UNCHANGED resv => UNCHANGED [x \in Seats |-> Buyer(x)]
  BY DEF Buyer, Stored
<1>2. CASE UNCHANGED <<sess, resv>>
  BY <1>1, <1>2, AskedStays
<1>3. CASE UNCHANGED resv /\ \E s \in Sessions : Lapse(s)
  BY <1>1, <1>3, AskedStays
<1>4. ASSUME NEW w \in Workers, NEW s \in Sessions, CreateCommit(w, s)
      PROVE  Sale!Next
  BY <1>4, CreateAsks DEF Sale!Next
<1>5. ASSUME NEW w \in Workers, UNCHANGED resv, ExpireCommit(w) \/ SubmitCommit(w) \/ RecordCommit(w)
      PROVE  UNCHANGED [s \in Sessions |-> Asked(s)] /\ UNCHANGED [x \in Seats |-> Buyer(x)]
  BY <1>1, <1>5, AskedStays
<1>6. ASSUME NEW w \in Workers, NEW r \in Reservations, MaterializeCommit(w, r)
      PROVE  Sale!Next
  BY <1>6, MaterializeSells DEF Sale!Next
<1>7. ASSUME NEW w \in Workers, UNCHANGED sess,
             ReviveCommit(w) \/ RefundCommit(w) \/ CancelCommit(w) \/ ValidateCommit(w)
      PROVE  UNCHANGED [s \in Sessions |-> Asked(s)] /\ UNCHANGED [x \in Seats |-> Buyer(x)]
  BY <1>7, AskedStays, SeatsStay, BuyersStay, BookingIsDirect
<1>. QED
  BY <1>2, <1>3, <1>4, <1>5, <1>6, <1>7, StepKinds

(* The handlers implement the abstract seat sale: sessions ask, and get    *)
(* all the seats they asked for at once, once and for good, whatever the   *)
(* requests in progress and the provider do.                               *)
THEOREM Refinement == Spec => ImplementsSeatSale
<1>1. BookingAssumption
  BY BookingAssumption
<1>2. Init => Sale!Init
  BY DEF Init, Sale!Init, Buyer, Stored, Asked
<1>. QED
  BY <1>1, <1>2, StepSells, Invariance, PTL DEF ImplementsSeatSale, Spec, Sale!Spec

=============================================================================
