---------------------------- MODULE TicketsProofs ----------------------------
(***************************************************************************)
(* Claims, uploads and lists of trips, proved of Tickets for every number  *)
(* of bookings, travelers, accounts, files and requests: no more accounts  *)
(* are told that a row is theirs than there were requests, a stored path   *)
(* names a file that is there, and a list loses no trip that is ahead but  *)
(* to a claim that was under way, or to a request to hide it that found it *)
(* canceled or over before it was ahead again.                             *)
(***************************************************************************)
EXTENDS Tickets, FiniteSetTheorems, TLAPS

Uploading(w) == req[w].op \in {"image", "avatar", "passport"}

(* The requests that claim a row and have not committed.                   *)
Claimers(r) == {w \in Workers : req[w].op = "claim" /\ req[w].row = r}

(* What was found canceled or over is so still, or is ahead again.         *)
WasOver(b) ==
    /\ booking[b].status # "none"
    /\ booking[b].status = "canceled" \/ booking[b].past \/ booking[b].again

(* The file of an upload that is under way is on the disk already, only    *)
(* its name is missing in a row; the row of a claim can be found; and what *)
(* is being hidden was canceled or over.                                   *)
TicketsInv ==
    /\ TicketsTypeOK
    /\ ClaimsBounded
    /\ \A r \in Rows : IsFiniteSet(told[r])
    /\ FilesBeforeRows
    /\ \A w \in Workers :
          /\ Uploading(w) => req[w].file \in disk
          /\ req[w].op = "claim" => Found(req[w].row)
          /\ req[w].op = "hide" => WasOver(req[w].booking)

-----------------------------------------------------------------------------
(* At the start nothing is sold, stored or under way.                      *)
THEOREM InitInv == Init => TicketsInv
<1>1. Init => TicketsTypeOK /\ FilesBeforeRows
  BY TicketsAssumption
  DEF Init, TicketsTypeOK, FilesBeforeRows, BookingRow, TicketStatus, Profile, Request, Idle, Rows
<1>2. ASSUME Init, NEW r \in Rows
      PROVE  told[r] = {} /\ Claimers(r) = {}
  BY <1>2 DEF Init, Idle, Claimers
<1>3. Init => ClaimsBounded /\ \A r \in Rows : IsFiniteSet(told[r])
  <2> SUFFICES ASSUME Init, NEW r \in Rows
               PROVE  /\ told[r] = {} /\ IsFiniteSet(told[r])
                      /\ Cardinality(told[r]) + Cardinality(Claimers(r)) <= Cardinality(Workers)
    BY DEF ClaimsBounded, Claimers
  <2>1. Cardinality(Workers) \in Nat
    BY TicketsAssumption, FS_CardinalityType
  <2> QED BY <1>2, <2>1, FS_EmptySet
<1> QED BY <1>1, <1>3 DEF Init, TicketsInv, Uploading, Idle

(* A booking that was or becomes sold, and loses no numbers, may change    *)
(* otherwise.                                                              *)
LEMMA RowStep ==
  ASSUME TicketsTypeOK, NEW b \in Bookings, NEW row \in BookingRow,
         booking' = [booking EXCEPT ![b] = row],
         row.status # "none", booking[b].numbered => row.numbered,
         UNCHANGED <<claims, files>>, admitted' \in SUBSET Bookings,
         req' \in [Workers -> Request]
  PROVE  TicketsTypeOK'
  BY DEF TicketsTypeOK, claims, files, Rows

(* Every action keeps rows and requests in their types.                    *)
LEMMA TypeStep == TicketsInv /\ [Next]_vars => TicketsTypeOK'
<1> SUFFICES ASSUME TicketsInv, TicketsTypeOK, [Next]_vars PROVE TicketsTypeOK'
  BY DEF TicketsInv
<1> USE TicketsAssumption DEF TicketsTypeOK, claims, files
<1>1. ASSUME NEW b \in Bookings, NEW u \in Accounts,
             NEW kind \in {"checkout", "order", "reservation"}, Sell(b, u, kind)
      PROVE  TicketsTypeOK'
  <2> DEFINE row == [booking[b] EXCEPT !.owner = u,
                 !.status = IF kind = "checkout" THEN "paid" ELSE "booked",
                 !.ticket = IF kind = "reservation" THEN "pending_passenger" ELSE "valid",
                 !.numbered = kind = "checkout"]
  <2>0. booking[b] \in BookingRow
    OBVIOUS
  <2>1. row \in BookingRow /\ row.status # "none"
    BY <2>0 DEF BookingRow, TicketStatus
  <2>2. booking[b].status = "none"
    BY <1>1 DEF Sell
  <2>4. booking' = [booking EXCEPT ![b] = row]
    BY <1>1 DEF Sell
  <2>3. \A r \in Rows : r[1] = b => assigned[r] = Null
    BY <2>2
  <2> QED BY <1>1, <2>1, <2>2, <2>3, <2>4 DEF Sell, Rows
<1>2. ASSUME NEW b \in Bookings, Cancel(b) PROVE TicketsTypeOK'
  <2> DEFINE row == [booking[b] EXCEPT !.status = "canceled", !.ticket = "canceled"]
  <2>0. booking[b] \in BookingRow
    OBVIOUS
  <2>1. row \in BookingRow
    BY ONLY <2>0 DEF BookingRow, TicketStatus
  <2>2. booking' = [booking EXCEPT ![b] = row] /\ row.status # "none"
    BY <1>2, <2>1 DEF Cancel, BookingRow
  <2> QED BY <1>2, <2>1, <2>2, RowStep, ZenonT(40) DEF Cancel, BookingRow
<1>3. ASSUME NEW b \in Bookings, Redeliver(b) PROVE TicketsTypeOK'
  <2> DEFINE row == [booking[b] EXCEPT !.status = "paid", !.ticket = "valid",
                                       !.again = booking[b].again \/ booking[b].status = "canceled"]
  <2>0. booking[b] \in BookingRow
    OBVIOUS
  <2>1. row \in BookingRow
    BY ONLY <2>0 DEF BookingRow, TicketStatus
  <2>2. booking' = [booking EXCEPT ![b] = row]
    BY <1>3, Zenon DEF Redeliver
  <2>3. row.status # "none" /\ row.numbered = booking[b].numbered
    BY ONLY <2>0 DEF BookingRow
  <2>4. /\ UNCHANGED <<claims, files>> /\ admitted' \in SUBSET Bookings
        /\ req' \in [Workers -> Request]
    BY <1>3 DEF Redeliver
  <2> HIDE DEF row, TicketsTypeOK, claims, files
  <2> QED BY <2>1, <2>2, <2>3, <2>4, RowStep
<1>4. ASSUME NEW b \in Bookings, Depart(b) PROVE TicketsTypeOK'
  <2> DEFINE row == [booking[b] EXCEPT !.past = TRUE]
  <2>0. booking[b] \in BookingRow
    OBVIOUS
  <2>1. row \in BookingRow
    BY ONLY <2>0 DEF BookingRow, TicketStatus
  <2>2. booking' = [booking EXCEPT ![b] = row] /\ row.status # "none"
    BY <1>4, <2>1 DEF Depart, BookingRow
  <2> QED BY <1>4, <2>1, <2>2, RowStep DEF Depart, BookingRow
<1>5. ASSUME NEW b \in Bookings, Postpone(b) PROVE TicketsTypeOK'
  <2> DEFINE row == [booking[b] EXCEPT !.past = FALSE, !.again = TRUE]
  <2>0. booking[b] \in BookingRow
    OBVIOUS
  <2>1. row \in BookingRow
    BY ONLY <2>0 DEF BookingRow, TicketStatus
  <2>2. booking' = [booking EXCEPT ![b] = row] /\ row.status # "none"
    BY <1>5, <2>1 DEF Postpone, BookingRow
  <2> QED BY <1>5, <2>1, <2>2, RowStep DEF Postpone, BookingRow
<1>6. ASSUME NEW w \in Workers, NEW r \in Rows, NEW u \in Accounts, ClaimLoad(w, r, u)
      PROVE  TicketsTypeOK'
  BY <1>6 DEF ClaimLoad, Begin, Request
<1>7. ASSUME NEW w \in Workers, ClaimCommit(w) PROVE TicketsTypeOK'
  <2>1. req[w].row \in Rows /\ req[w].user \in Accounts /\ Found(req[w].row)
    BY <1>7 DEF ClaimCommit, Request, TicketsInv
  <2>2. assigned' \in [Rows -> Accounts \cup {Null}] /\ told' \in [Rows -> SUBSET Accounts]
    BY <1>7, <2>1 DEF ClaimCommit
  <2>3. req' \in [Workers -> Request]
    BY <1>7 DEF ClaimCommit, Finish, Request, Idle
  <2> QED BY <1>7, <2>1, <2>2, <2>3 DEF ClaimCommit, Found
<1>8. ASSUME NEW w \in Workers, NEW b \in Bookings, ValidateLoad(w, b) PROVE TicketsTypeOK'
  BY <1>8 DEF ValidateLoad, Begin, Request
<1>9. ASSUME NEW w \in Workers, ValidateCommit(w) PROVE TicketsTypeOK'
  <2> DEFINE b == req[w].booking
             row == [booking[b] EXCEPT !.ticket = "used"]
  <2>1. b \in Bookings
    BY <1>9 DEF ValidateCommit, Request
  <2>0. booking[b] \in BookingRow
    BY <2>1
  <2>2. row \in BookingRow
    BY ONLY <2>0 DEF BookingRow, TicketStatus
  <2>4. booking' = [booking EXCEPT ![b] = row]
    BY <1>9 DEF ValidateCommit
  <2>3. req' \in [Workers -> Request]
    BY <1>9 DEF ValidateCommit, Finish, Request, Idle
  <2> QED BY <1>9, <2>1, <2>2, <2>3, <2>4 DEF ValidateCommit, BookingRow, Rows
<1>10. ASSUME NEW w \in Workers, NEW b \in Bookings, NEW f \in Files, UploadImage(w, b, f)
       PROVE  TicketsTypeOK'
  BY <1>10 DEF UploadImage, Write, Begin, Request
<1>11. ASSUME NEW w \in Workers, NEW u \in Accounts, NEW f \in Files,
              NEW op \in {"avatar", "passport"}, UploadProfile(w, u, f, op)
       PROVE  TicketsTypeOK'
  BY <1>11 DEF UploadProfile, Write, Begin, Request
<1>12. ASSUME NEW w \in Workers, ImageCommit(w) PROVE TicketsTypeOK'
  BY <1>12 DEF ImageCommit, Finish, Request, Idle
<1>13. ASSUME NEW w \in Workers, AvatarCommit(w) PROVE TicketsTypeOK'
  <2> DEFINE row == [profile[req[w].user] EXCEPT !.avatar = req[w].file]
  <2>1. req[w].user \in Accounts /\ req[w].file \in Files
    BY <1>13 DEF AvatarCommit, Request
  <2>2. profile[req[w].user] \in Profile
    BY <2>1
  <2>3. row \in Profile
    BY ONLY <2>1, <2>2 DEF Profile
  <2>4. profile' = [profile EXCEPT ![req[w].user] = row]
    BY <1>13 DEF AvatarCommit
  <2>5. req' \in [Workers -> Request]
    BY <1>13 DEF AvatarCommit, Finish, Request, Idle
  <2>6. profile' \in [Accounts -> Profile]
    BY <2>3, <2>4
  <2> QED BY <1>13, <2>5, <2>6 DEF AvatarCommit
<1>14. ASSUME NEW w \in Workers, NEW C \in SUBSET Fields, PassportCommit(w, C)
       PROVE  TicketsTypeOK'
  <2> DEFINE old == profile[req[w].user]
             column == Extracted(req[w].user, req[w].file, C)
             row == [old EXCEPT !.passport = req[w].file, !.column = column]
  <2>1. req[w].user \in Accounts /\ req[w].file \in Files
    BY <1>14 DEF PassportCommit, Request
  <2>2. old \in Profile
    BY <2>1
  <2>3. column \in [Fields -> Files \cup {Null}]
    BY ONLY <2>1, <2>2 DEF Profile, Extracted
  <2>4. row \in Profile
    BY ONLY <2>1, <2>2, <2>3 DEF Profile
  <2>5. profile' = [profile EXCEPT ![req[w].user] = row]
    BY <1>14 DEF PassportCommit
  <2>6. req' \in [Workers -> Request]
    BY <1>14 DEF PassportCommit, Finish, Request, Idle
  <2>7. profile' \in [Accounts -> Profile]
    BY <2>4, <2>5
  <2> QED BY <1>14, <2>6, <2>7 DEF PassportCommit
<1>15. ASSUME NEW w \in Workers, Drop(w) PROVE TicketsTypeOK'
  BY <1>15 DEF Drop, Finish, Request, Idle
<1>16. ASSUME NEW w \in Workers, NEW b \in Bookings, HideLoad(w, b) PROVE TicketsTypeOK'
  BY <1>16 DEF HideLoad, Begin, Request
<1>17. ASSUME NEW w \in Workers, HideCommit(w) PROVE TicketsTypeOK'
  <2> DEFINE b == req[w].booking
             row == [booking[b] EXCEPT !.hidden = TRUE]
  <2>1. b \in Bookings /\ booking[b].status # "none"
    BY <1>17 DEF HideCommit, Request, TicketsInv, WasOver
  <2>0. booking[b] \in BookingRow
    BY <2>1
  <2>2. row \in BookingRow
    BY ONLY <2>0 DEF BookingRow, TicketStatus
  <2>4. booking' = [booking EXCEPT ![b] = row]
    BY <1>17 DEF HideCommit
  <2>3. req' \in [Workers -> Request]
    BY <1>17 DEF HideCommit, Finish, Request, Idle
  <2> QED BY <1>17, <2>1, <2>2, <2>3, <2>4 DEF HideCommit, BookingRow, Rows
<1>18. CASE UNCHANGED vars
  BY <1>18 DEF vars
<1> HIDE TicketsAssumption DEF TicketsTypeOK, claims, files
<1> QED
  BY <1>1, <1>2, <1>3, <1>4, <1>5, <1>6, <1>7, <1>8, <1>9, <1>10, <1>11, <1>12, <1>13, <1>14,
     <1>15, <1>16, <1>17, <1>18 DEF Next

(* Nothing takes a file from the disk or a number from a booking, and what *)
(* was canceled or over was so for good, so what the invariant says of the *)
(* requests of others stays true.                                          *)
LEMMA Monotone ==
  ASSUME TicketsInv, [Next]_vars
  PROVE  /\ disk \subseteq disk'
         /\ \A r \in Rows : Found(r) => Found(r)'
         /\ \A b \in Bookings : WasOver(b) => WasOver(b)'
<1> USE DEF TicketsInv, TicketsTypeOK, claims, files
<1>1. disk \subseteq disk'
  BY ZenonT(40) DEF Next, vars, Sell, Cancel, Redeliver, Depart, Postpone, HideLoad,
     HideCommit, ClaimLoad, ClaimCommit, ValidateLoad, ValidateCommit, UploadImage, UploadProfile,
     Write, ImageCommit, AvatarCommit, PassportCommit, Drop
<1> DEFINE RowsStay ==
             \A b \in Bookings : booking[b].status # "none" =>
                /\ booking'[b].status # "none"
                /\ booking[b].numbered => booking'[b].numbered
                /\ WasOver(b) => WasOver(b)'
<1>2. RowsStay
  <2>1. CASE booking' = booking
    BY <2>1 DEF WasOver
  <2>2. ASSUME NEW c \in Bookings, Cancel(c) PROVE RowsStay
    BY <2>2 DEF Cancel, BookingRow, WasOver
  <2>3. ASSUME NEW c \in Bookings, Depart(c) PROVE RowsStay
    BY <2>3 DEF Depart, BookingRow, WasOver
  <2>4. ASSUME NEW c \in Bookings, Postpone(c) PROVE RowsStay
    BY <2>4 DEF Postpone, BookingRow, WasOver
  <2>5. ASSUME NEW c \in Bookings, Redeliver(c) PROVE RowsStay
    <3> DEFINE row == [booking[c] EXCEPT !.status = "paid", !.ticket = "valid",
                         !.again = booking[c].again \/ booking[c].status = "canceled"]
    <3>0. booking[c] \in BookingRow
      OBVIOUS
    <3>1. /\ row.status = "paid" /\ row.numbered = booking[c].numbered
          /\ row.past = booking[c].past
          /\ row.again <=> booking[c].again \/ booking[c].status = "canceled"
      BY ONLY <3>0 DEF BookingRow
    <3>4. booking' = [booking EXCEPT ![c] = row]
      BY <2>5, Zenon DEF Redeliver
    <3>2. booking'[c] = row
      BY <3>4
    <3> HIDE DEF row
    <3>3. \A b \in Bookings : b # c => booking'[b] = booking[b]
      BY <2>5 DEF Redeliver
    <3> QED BY <3>1, <3>2, <3>3 DEF WasOver
  <2>6. ASSUME NEW b \in Bookings, NEW u \in Accounts,
               NEW kind \in {"checkout", "order", "reservation"}, Sell(b, u, kind)
        PROVE  RowsStay
    BY <2>6 DEF Sell, WasOver
  <2>7. ASSUME NEW w \in Workers, ValidateCommit(w) PROVE RowsStay
    BY <2>7 DEF ValidateCommit, BookingRow, WasOver
  <2>8. ASSUME NEW w \in Workers, HideCommit(w) PROVE RowsStay
    BY <2>8 DEF HideCommit, BookingRow, WasOver
  <2> QED
    BY <2>1, <2>2, <2>3, <2>4, <2>5, <2>6, <2>7, <2>8
       DEF Next, vars, ClaimLoad, ClaimCommit, ValidateLoad, HideLoad, UploadImage, UploadProfile, Write, ImageCommit, AvatarCommit, PassportCommit, Drop
<1>3. \A r \in Rows : r[1] \in Bookings
  BY DEF Rows
<1> QED BY <1>1, <1>2, <1>3 DEF Found, WasOver

(* A request that has begun in this step has written its file or found its *)
(* row; the others are as they were.                                       *)
LEMMA RequestStep ==
  ASSUME TicketsInv, [Next]_vars, NEW w \in Workers
  PROVE  /\ (Uploading(w) => req[w].file \in disk)'
         /\ (req[w].op = "claim" => Found(req[w].row))'
         /\ (req[w].op = "hide" => WasOver(req[w].booking))'
<1> USE DEF TicketsInv, TicketsTypeOK, claims, files
<1> DEFINE Goal == /\ (Uploading(w) => req[w].file \in disk)'
                   /\ (req[w].op = "claim" => Found(req[w].row))'
                   /\ (req[w].op = "hide" => WasOver(req[w].booking))'
<1>1. CASE req'[w] = req[w]
  <2>1. /\ req[w].op = "claim" => req[w].row \in Rows
        /\ req[w].op = "hide" => req[w].booking \in Bookings
    BY DEF Request
  <2> QED BY <1>1, <2>1, Monotone DEF Uploading
<1>2. CASE req'[w] = Idle
  BY <1>2 DEF Idle, Uploading
<1>3. ASSUME NEW r \in Rows, NEW u \in Accounts, ClaimLoad(w, r, u) PROVE Goal
  BY <1>3, Monotone DEF ClaimLoad, Begin, Uploading
<1>4. ASSUME NEW b \in Bookings, ValidateLoad(w, b) PROVE Goal
  BY <1>4 DEF ValidateLoad, Begin, Uploading
<1>5. ASSUME NEW b \in Bookings, NEW f \in Files, UploadImage(w, b, f) PROVE Goal
  BY <1>5 DEF UploadImage, Write, Begin, Uploading
<1>6. ASSUME NEW u \in Accounts, NEW f \in Files, NEW op \in {"avatar", "passport"},
             UploadProfile(w, u, f, op)
      PROVE  Goal
  BY <1>6 DEF UploadProfile, Write, Begin, Uploading
<1>7. ASSUME NEW b \in Bookings, Cancel(b) \/ Redeliver(b) \/ Depart(b) \/ Postpone(b)
      PROVE  Goal
  BY <1>7, <1>1 DEF Cancel, Redeliver, Depart, Postpone
<1>8. ASSUME NEW b \in Bookings, NEW u \in Accounts,
             NEW kind \in {"checkout", "order", "reservation"}, Sell(b, u, kind)
      PROVE  Goal
  BY <1>8, <1>1 DEF Sell
<1>9. ASSUME NEW v \in Workers, v # w, NEW x, req' = [req EXCEPT ![v] = x] PROVE Goal
  BY <1>9, <1>1
<1>10. ASSUME NEW v \in Workers, Finish(v) PROVE Goal
  BY <1>10, <1>2, <1>9 DEF Finish
<1>11. ASSUME NEW v \in Workers, v # w, NEW x, Begin(v, x) PROVE Goal
  BY <1>11, <1>9 DEF Begin
<1>12. ASSUME NEW v \in Workers, NEW r \in Rows, NEW u \in Accounts, ClaimLoad(v, r, u)
       PROVE  Goal
  <2>1. CASE v = w
    BY <1>12, <2>1, <1>3
  <2>2. CASE v # w
    BY <1>12, <2>2, <1>11 DEF ClaimLoad
  <2> QED BY <2>1, <2>2
<1>13. ASSUME NEW v \in Workers, NEW b \in Bookings, ValidateLoad(v, b) PROVE Goal
  <2>1. CASE v = w
    BY <1>13, <2>1, <1>4
  <2>2. CASE v # w
    BY <1>13, <2>2, <1>11 DEF ValidateLoad
  <2> QED BY <2>1, <2>2
<1>14. ASSUME NEW v \in Workers, NEW b \in Bookings, NEW f \in Files,
              UploadImage(v, b, f)
       PROVE  Goal
  <2>1. CASE v = w
    BY <1>14, <2>1, <1>5
  <2>2. CASE v # w
    BY <1>14, <2>2, <1>11 DEF UploadImage, Write
  <2> QED BY <2>1, <2>2
<1>15. ASSUME NEW v \in Workers, NEW u \in Accounts, NEW f \in Files,
              NEW op \in {"avatar", "passport"}, UploadProfile(v, u, f, op)
       PROVE  Goal
  <2>1. CASE v = w
    BY <1>15, <2>1, <1>6
  <2>2. CASE v # w
    BY <1>15, <2>2, <1>11 DEF UploadProfile, Write
  <2> QED BY <2>1, <2>2
<1>16. ASSUME NEW v \in Workers, NEW C \in SUBSET Fields, PassportCommit(v, C) PROVE Goal
  BY <1>16, <1>10 DEF PassportCommit
<1>17. ASSUME NEW v \in Workers,
              \/ ClaimCommit(v) \/ ValidateCommit(v) \/ HideCommit(v)
              \/ ImageCommit(v) \/ AvatarCommit(v) \/ Drop(v)
       PROVE  Goal
  BY <1>17, <1>10 DEF ClaimCommit, ValidateCommit, HideCommit, ImageCommit, AvatarCommit, Drop
<1>18. ASSUME UNCHANGED vars PROVE Goal
  BY <1>18, <1>1 DEF vars
<1>20. ASSUME NEW b \in Bookings, HideLoad(w, b) PROVE Goal
  <2>1. /\ WasOver(b) /\ req'[w] = [op |-> "hide", booking |-> b]
    BY <1>20 DEF HideLoad, Begin, WasOver
  <2> QED BY <2>1, Monotone DEF Uploading
<1>21. ASSUME NEW v \in Workers, NEW b \in Bookings, HideLoad(v, b) PROVE Goal
  <2>1. CASE v = w
    BY <1>21, <2>1, <1>20
  <2>2. CASE v # w
    BY <1>21, <2>2, <1>11 DEF HideLoad
  <2> QED BY <2>1, <2>2
<1> HIDE DEF Goal, TicketsInv, TicketsTypeOK
<1>19. Goal
  <2>1. ASSUME NEW b \in Bookings,
               \/ \E u \in Accounts, kind \in {"checkout", "order", "reservation"} :
                     Sell(b, u, kind)
               \/ Cancel(b) \/ Redeliver(b) \/ Depart(b) \/ Postpone(b)
        PROVE  Goal
    BY <2>1, <1>7, <1>8
  <2>2. ASSUME NEW v \in Workers,
               \/ \E r \in Rows, u \in Accounts : ClaimLoad(v, r, u)
               \/ \E b \in Bookings : HideLoad(v, b) \/ ValidateLoad(v, b)
               \/ \E b \in Bookings, f \in Files : UploadImage(v, b, f)
               \/ \E u \in Accounts, f \in Files, op \in {"avatar", "passport"} :
                     UploadProfile(v, u, f, op)
               \/ \E C \in SUBSET Fields : PassportCommit(v, C)
               \/ ClaimCommit(v) \/ ValidateCommit(v) \/ HideCommit(v)
               \/ ImageCommit(v) \/ AvatarCommit(v) \/ Drop(v)
        PROVE  Goal
    BY <2>2, <1>12, <1>13, <1>14, <1>15, <1>16, <1>17, <1>21
  <2>3. CASE Next
    BY <2>3, <2>1, <2>2, Zenon DEF Next
  <2>4. Next \/ UNCHANGED vars
    OBVIOUS
  <2> QED BY <2>3, <2>4, <1>18
<1> QED BY <1>19 DEF Goal

(* A step leaves a row and the claims of it alone, but for some that end;  *)
(* or it begins a claim of a row that nobody has; or it commits a claim.   *)
LEMMA ClaimStep ==
  ASSUME TicketsInv, [Next]_vars, NEW r \in Rows
  PROVE  \/ /\ told'[r] = told[r] /\ assigned'[r] = assigned[r]
            /\ Claimers(r)' \subseteq Claimers(r)
         \/ told'[r] = told[r] /\ assigned'[r] = assigned[r] /\ assigned[r] = Null
         \/ \E w \in Claimers(r) :
               /\ assigned'[r] = req[w].user /\ told'[r] = told[r] \cup {req[w].user}
               /\ Claimers(r)' = Claimers(r) \ {w}
<1> USE DEF TicketsInv, TicketsTypeOK, claims, files, Claimers
<1> DEFINE Ends == /\ told'[r] = told[r] /\ assigned'[r] = assigned[r]
                   /\ Claimers(r)' \subseteq Claimers(r)
           Begins == told'[r] = told[r] /\ assigned'[r] = assigned[r] /\ assigned[r] = Null
           Commits == \E w \in Claimers(r) :
                        /\ assigned'[r] = req[w].user /\ told'[r] = told[r] \cup {req[w].user}
                        /\ Claimers(r)' = Claimers(r) \ {w}
<1>1. ASSUME UNCHANGED <<claims, req>> PROVE Ends
  BY <1>1
<1>2. ASSUME NEW w \in Workers, NEW x, x.op # "claim", Begin(w, x), UNCHANGED claims
      PROVE  Ends
  BY <1>2 DEF Begin
<1>3. ASSUME NEW w \in Workers, Finish(w), UNCHANGED claims
      PROVE  Ends
  BY <1>3 DEF Finish, Idle
<1>4. ASSUME NEW w \in Workers, NEW q \in Rows, NEW u \in Accounts, ClaimLoad(w, q, u)
      PROVE  Ends \/ Begins
  BY <1>4 DEF ClaimLoad, Begin
<1>5. ASSUME NEW w \in Workers, ClaimCommit(w)
      PROVE  Ends \/ Commits
  <2>1. req[w].row \in Rows
    BY <1>5 DEF ClaimCommit, Request
  <2>2. CASE req[w].row = r
    BY <1>5, <2>1, <2>2 DEF ClaimCommit, Finish, Idle
  <2>3. CASE req[w].row # r
    <3>1. told'[r] = told[r] /\ assigned'[r] = assigned[r]
      BY <1>5, <2>1, <2>3 DEF ClaimCommit
    <3>2. \A v \in Workers : v # w => req'[v] = req[v]
      BY <1>5 DEF ClaimCommit, Finish
    <3>3. req'[w] = Idle
      BY <1>5 DEF ClaimCommit, Finish
    <3>4. Claimers(r)' \subseteq Claimers(r)
      BY <3>2, <3>3 DEF Idle
    <3> QED BY <3>1, <3>4
  <2> QED BY <2>2, <2>3
<1>6. ASSUME NEW b \in Bookings,
             \/ \E u \in Accounts, kind \in {"checkout", "order", "reservation"} : Sell(b, u, kind)
             \/ Cancel(b) \/ Redeliver(b) \/ Depart(b) \/ Postpone(b)
      PROVE  Ends
  BY <1>6, <1>1 DEF Sell, Cancel, Redeliver, Depart, Postpone
<1>7. ASSUME NEW w \in Workers,
             \/ \E b \in Bookings : HideLoad(w, b) \/ ValidateLoad(w, b)
             \/ \E b \in Bookings, f \in Files : UploadImage(w, b, f)
             \/ \E u \in Accounts, f \in Files, op \in {"avatar", "passport"} :
                   UploadProfile(w, u, f, op)
      PROVE  Ends
  BY <1>7, <1>2 DEF HideLoad, ValidateLoad, UploadImage, UploadProfile, Write
<1>8. ASSUME NEW w \in Workers,
             \/ \E C \in SUBSET Fields : PassportCommit(w, C)
             \/ ValidateCommit(w) \/ HideCommit(w) \/ ImageCommit(w) \/ AvatarCommit(w) \/ Drop(w)
      PROVE  Ends
  BY <1>8, <1>3 DEF PassportCommit, ValidateCommit, HideCommit, ImageCommit, AvatarCommit, Drop
<1>9. UNCHANGED vars => Ends
  BY <1>1 DEF vars
<1> HIDE DEF Ends, Begins, Commits, TicketsInv, TicketsTypeOK
<1>10. Ends \/ Begins \/ Commits
  BY <1>4, <1>5, <1>6, <1>7, <1>8, <1>9 DEF Next
<1> QED BY <1>10 DEF Ends, Begins, Commits

(* A set with one more element has at most one more.                       *)
LEMMA OneMore ==
  ASSUME NEW S, NEW x, NEW T, IsFiniteSet(S), T = S \cup {x}
  PROVE  IsFiniteSet(T) /\ Cardinality(T) <= Cardinality(S) + 1
<1>1. /\ IsFiniteSet(S \cup {x})
      /\ Cardinality(S \cup {x}) = IF x \in S THEN Cardinality(S) ELSE Cardinality(S) + 1
  BY FS_AddElement, Zenon
<1>2. Cardinality(S) \in Nat
  BY FS_CardinalityType
<1>3. CASE x \in S
  <2>1. IsFiniteSet(T) /\ Cardinality(T) = Cardinality(S)
    BY <1>1, <1>3, Zenon
  <2>2. Cardinality(S) <= Cardinality(S) + 1
    BY <1>2
  <2> QED BY <2>1, <2>2, Zenon
<1>4. CASE x \notin S
  <2>1. Cardinality(S \cup {x}) = Cardinality(S) + 1
    BY <1>1, <1>4, Zenon
  <2>2. IsFiniteSet(T) /\ Cardinality(T) = Cardinality(S) + 1
    BY <1>1, <2>1, Zenon
  <2>3. Cardinality(S) + 1 <= Cardinality(S) + 1
    BY <1>2
  <2> QED BY <2>2, <2>3, Zenon
<1> QED BY <1>3, <1>4

(* A commit takes one from the requests that claim a row and adds at most  *)
(* one to the accounts that were told; a claim begins for no row that an   *)
(* account was told is its own.                                            *)
LEMMA ClaimsStep ==
  ASSUME TicketsInv, TicketsTypeOK', [Next]_vars
  PROVE  ClaimsBounded' /\ \A r \in Rows : IsFiniteSet(told'[r])
<1> SUFFICES ASSUME NEW r \in Rows
             PROVE  /\ IsFiniteSet(told'[r])
                    /\ told'[r] # {} => assigned'[r] \in told'[r]
                    /\ Cardinality(told'[r]) + Cardinality(Claimers(r)') <= Cardinality(Workers)
  BY DEF ClaimsBounded, Claimers
<1>1. /\ IsFiniteSet(told[r]) /\ told[r] \in SUBSET Accounts
      /\ told[r] # {} => assigned[r] \in told[r]
      /\ Cardinality(told[r]) + Cardinality(Claimers(r)) <= Cardinality(Workers)
  BY DEF TicketsInv, TicketsTypeOK, ClaimsBounded, Claimers
<1>2. /\ Claimers(r) \in SUBSET Workers /\ Claimers(r)' \in SUBSET Workers
      /\ IsFiniteSet(Workers)
  BY TicketsAssumption DEF Claimers
<1>3. /\ IsFiniteSet(Claimers(r)) /\ Cardinality(Claimers(r)) \in Nat
      /\ IsFiniteSet(Claimers(r)') /\ Cardinality(Claimers(r)') \in Nat
      /\ Cardinality(Claimers(r)') <= Cardinality(Workers)
      /\ Cardinality(Workers) \in Nat /\ Cardinality(told[r]) \in Nat
  BY <1>1, <1>2, FS_Subset, FS_CardinalityType
<1>4. CASE /\ told'[r] = told[r] /\ assigned'[r] = assigned[r]
           /\ Claimers(r)' \subseteq Claimers(r)
  <2>1. Cardinality(Claimers(r)') <= Cardinality(Claimers(r))
    BY <1>3, <1>4, FS_Subset
  <2> QED BY <1>1, <1>3, <1>4, <2>1
<1>5. CASE told'[r] = told[r] /\ assigned'[r] = assigned[r] /\ assigned[r] = Null
  <2>1. told[r] = {} /\ Cardinality(told[r]) = 0
    BY <1>1, <1>5, TicketsAssumption, FS_EmptySet
  <2> QED BY <1>1, <1>3, <1>5, <2>1
<1>6. ASSUME NEW w \in Claimers(r), assigned'[r] = req[w].user,
             told'[r] = told[r] \cup {req[w].user}, Claimers(r)' = Claimers(r) \ {w}
      PROVE  /\ IsFiniteSet(told'[r])
             /\ told'[r] # {} => assigned'[r] \in told'[r]
             /\ Cardinality(told'[r]) + Cardinality(Claimers(r)') <= Cardinality(Workers)
  <2>1. Cardinality(Claimers(r)') = Cardinality(Claimers(r)) - 1
    BY <1>3, <1>6, FS_RemoveElement
  <2>2. IsFiniteSet(told'[r]) /\ Cardinality(told'[r]) <= Cardinality(told[r]) + 1
    BY <1>1, <1>6, OneMore
  <2>3. Cardinality(told'[r]) \in Nat
    BY <2>2, FS_CardinalityType
  <2> QED BY <1>1, <1>3, <1>6, <2>1, <2>2, <2>3
<1> QED BY <1>4, <1>5, <1>6, ClaimStep

(* A path enters a row only from an upload that has written its file.      *)
LEMMA FilesStep ==
  ASSUME TicketsInv, TicketsTypeOK', [Next]_vars
  PROVE  FilesBeforeRows'
<1> USE DEF TicketsInv, TicketsTypeOK, FilesBeforeRows, claims, files
<1>1. CASE UNCHANGED <<image, profile>>
  BY <1>1, Monotone
<1>2. ASSUME NEW w \in Workers, ImageCommit(w) PROVE FilesBeforeRows'
  <2>1. req[w].file \in disk
    BY <1>2 DEF ImageCommit, Uploading
  <2> QED BY <1>2, <2>1 DEF ImageCommit
<1>3. ASSUME NEW w \in Workers, AvatarCommit(w) PROVE FilesBeforeRows'
  <2>1. req[w].file \in disk /\ req[w].user \in Accounts
    BY <1>3 DEF AvatarCommit, Uploading, Request
  <2> QED BY <1>3, <2>1 DEF AvatarCommit, Profile
<1>4. ASSUME NEW w \in Workers, NEW C \in SUBSET Fields, PassportCommit(w, C)
      PROVE  FilesBeforeRows'
  <2>1. req[w].file \in disk /\ req[w].user \in Accounts
    BY <1>4 DEF PassportCommit, Uploading, Request
  <2> DEFINE u == req[w].user
             new == [profile[u] EXCEPT !.passport = req[w].file,
                                       !.column = Extracted(u, req[w].file, C)]
  <2>2. profile' = [profile EXCEPT ![u] = new] /\ disk' = disk /\ image' = image
    BY <1>4 DEF PassportCommit
  <2>3. profile[u] \in Profile
    BY <2>1
  <2>4. /\ new.avatar = profile[u].avatar /\ new.passport = req[w].file
        /\ new.column = Extracted(u, req[w].file, C)
    BY ONLY <2>3 DEF Profile
  <2>5. \A c \in Fields : Extracted(u, req[w].file, C)[c] \in disk \cup {Null}
    BY <2>1 DEF Extracted
  <2> QED BY <2>1, <2>2, <2>4, <2>5
<1> QED
  BY <1>1, <1>2, <1>3, <1>4 DEF Next, vars, Sell, Cancel, Redeliver, Depart, Postpone, HideLoad,
     HideCommit, ClaimLoad, ClaimCommit, ValidateLoad, ValidateCommit, UploadImage, UploadProfile, Write, Drop

(* The invariant is inductive.                                             *)
THEOREM StepInv == TicketsInv /\ [Next]_vars => TicketsInv'
  BY TypeStep, ClaimsStep, FilesStep, RequestStep DEF TicketsInv

THEOREM Invariance == Spec => []TicketsInv
  BY InitInv, StepInv, PTL DEF Spec

(* Rows and requests keep their types, and what is assigned was sold.      *)
THEOREM TicketsTypeCorrect == Spec => []TicketsTypeOK
<1>1. TicketsInv => TicketsTypeOK
  BY DEF TicketsInv
<1> QED BY <1>1, Invariance, PTL

(* Of one row no more accounts are told that it is theirs than requests    *)
(* claimed it at once, and the account it is assigned to is one of them.   *)
THEOREM ClaimsBoundedHolds == Spec => []ClaimsBounded
<1>1. TicketsInv => ClaimsBounded
  BY DEF TicketsInv
<1> QED BY <1>1, Invariance, PTL

(* A stored path names a file that is there.                               *)
THEOREM FilesBeforeRowsHolds == Spec => []FilesBeforeRows
<1>1. TicketsInv => FilesBeforeRows
  BY DEF TicketsInv
<1> QED BY <1>1, Invariance, PTL

-----------------------------------------------------------------------------
(* What makes an account list a booking.                                   *)
Mine(b, u) ==
    /\ booking[b].status # "none" /\ ~booking[b].hidden
    /\ booking[b].owner = u \/ \E r \in Rows : r[1] = b /\ assigned[r] = u

(* The owner is shown the ticket; others the same passenger for as long as *)
(* the assignments within the booking are the same.                        *)
LEMMA SameRow ==
  ASSUME NEW b \in Bookings, NEW u, booking'[b].owner = booking[b].owner,
         booking[b].owner = u \/ \A n \in Travelers : assigned'[<<b, n>>] = assigned[<<b, n>>]
  PROVE  ShownRow(b, u)' = ShownRow(b, u)
<1>1. ASSUME booking[b].owner = u PROVE ShownRow(b, u)' = ShownRow(b, u)
  BY <1>1 DEF ShownRow
<1>2. ASSUME \A n \in Travelers : assigned'[<<b, n>>] = assigned[<<b, n>>]
      PROVE  ShownRow(b, u)' = ShownRow(b, u)
  <2>1. {n \in Travelers : assigned'[<<b, n>>] = u} = {n \in Travelers : assigned[<<b, n>>] = u}
    BY <1>2
  <2> DEFINE Row(o, S) == IF o = u \/ S = {} THEN <<b, "ticket">>
                          ELSE <<b, CHOOSE n \in S : TRUE>>
  <2>2. ShownRow(b, u) = Row(booking[b].owner, {n \in Travelers : assigned[<<b, n>>] = u})
    BY ZenonT(40) DEF ShownRow
  <2>3. ShownRow(b, u)' = Row(booking'[b].owner, {n \in Travelers : assigned'[<<b, n>>] = u})
    BY ZenonT(40) DEF ShownRow
  <2> HIDE DEF Row
  <2> QED BY <2>1, <2>2, <2>3, Zenon
<1> QED BY <1>1, <1>2, Zenon

(* Of a booking that is ahead only its state changes, and that it is       *)
(* hidden by a request that found it otherwise.                            *)
LEMMA BookingStep ==
  ASSUME TicketsInv, [Next]_vars, NEW b \in Bookings, booking[b].status # "none",
         booking[b].status # "canceled", ~booking[b].past
  PROVE  /\ booking'[b].status # "none"
         /\ booking'[b].hidden = booking[b].hidden \/ (booking[b].again /\ Hiding(b))
         /\ booking'[b].owner = booking[b].owner
<1> USE DEF TicketsInv, TicketsTypeOK
<1> DEFINE Same == /\ booking'[b].status # "none"
                   /\ booking'[b].hidden = booking[b].hidden \/ (booking[b].again /\ Hiding(b))
                   /\ booking'[b].owner = booking[b].owner
<1>1. CASE booking' = booking
  BY <1>1
<1>2. ASSUME NEW c \in Bookings, Cancel(c) \/ Redeliver(c) \/ Depart(c) \/ Postpone(c)
      PROVE  Same
  <2>1. CASE Cancel(c)
    BY <2>1 DEF Cancel, BookingRow
  <2>2. CASE Redeliver(c)
    BY <2>2 DEF Redeliver, BookingRow
  <2>3. CASE Depart(c)
    BY <2>3 DEF Depart, BookingRow
  <2>4. CASE Postpone(c)
    BY <2>4 DEF Postpone, BookingRow
  <2> QED BY <1>2, <2>1, <2>2, <2>3, <2>4
<1>3. ASSUME NEW c \in Bookings, NEW u \in Accounts,
             NEW kind \in {"checkout", "order", "reservation"}, Sell(c, u, kind)
      PROVE  Same
  BY <1>3 DEF Sell
<1>4. ASSUME NEW w \in Workers, ValidateCommit(w) PROVE Same
  <2> DEFINE row == [booking[b] EXCEPT !.ticket = "used"]
  <2>1. row.status = booking[b].status /\ row.hidden = booking[b].hidden
        /\ row.owner = booking[b].owner
    BY DEF BookingRow
  <2>2. booking'[b] = row \/ booking'[b] = booking[b]
    BY <1>4 DEF ValidateCommit
  <2> HIDE DEF row
  <2> QED BY <2>1, <2>2
<1>5. ASSUME NEW w \in Workers, HideCommit(w) PROVE Same
  <2>1. CASE req[w].booking = b
    <3>1. WasOver(b) /\ Hiding(b)
      BY <1>5, <2>1 DEF HideCommit, Hiding
    <3>2. booking[b].again
      BY <3>1 DEF WasOver
    <3> QED BY <1>5, <2>1, <3>1, <3>2 DEF HideCommit, BookingRow
  <2>2. CASE req[w].booking # b
    BY <1>5, <2>2 DEF HideCommit
  <2> QED BY <2>1, <2>2
<1> QED
  BY <1>1, <1>2, <1>3, <1>4, <1>5 DEF Next, vars, ClaimLoad, ClaimCommit, ValidateLoad, HideLoad,
     UploadImage, UploadProfile, Write, ImageCommit, AvatarCommit, PassportCommit, Drop

(* Assignments within a booking change by a claim in it, and none is taken *)
(* from a booking as a whole.                                              *)
LEMMA AssignedStep ==
  ASSUME TicketsInv, [Next]_vars, NEW b \in Bookings,
         ~ \E w \in Workers : req[w].op = "claim" /\ req[w].row[1] = b
  PROVE  \A r \in Rows : r[1] = b => assigned'[r] = assigned[r]
<1>1. CASE assigned' = assigned
  BY <1>1
<1>2. ASSUME NEW w \in Workers, ClaimCommit(w)
      PROVE  \A r \in Rows : r[1] = b => assigned'[r] = assigned[r]
  BY <1>2 DEF ClaimCommit, TicketsInv, TicketsTypeOK
<1> QED
  BY <1>1, <1>2 DEF Next, vars, claims, Sell, Cancel, Redeliver, Depart, Postpone, HideLoad,
     HideCommit, ClaimLoad, ValidateLoad, ValidateCommit, UploadImage, UploadProfile, Write, ImageCommit, AvatarCommit,
     PassportCommit, Drop

(* A trip leaves a list when it is over, or for a claim or a request to    *)
(* hide it that was under way.                                             *)
LEMMA ListStep ==
  ASSUME TicketsInv, [Next]_vars, NEW u \in Accounts, NEW r \in Listed(u)
  PROVE  \/ r \in Listed(u)'
         \/ booking[r[1]].status = "canceled" \/ booking[r[1]].past
         \/ booking[r[1]].again /\ Hiding(r[1])
         \/ /\ booking[r[1]].owner # u
            /\ \E w \in Workers : req[w].op = "claim" /\ req[w].row[1] = r[1]
<1>1. PICK b \in Bookings : Mine(b, u) /\ r = ShownRow(b, u)
  BY DEF Listed, Mine
<1>2. r[1] = b
  BY <1>1 DEF ShownRow
<1> DEFINE Ahead == booking[b].status # "canceled" /\ ~booking[b].past
           Claimed == \E w \in Workers : req[w].op = "claim" /\ req[w].row[1] = b
<1>3. ASSUME Ahead, ~(booking[b].again /\ Hiding(b)), booking[b].owner = u \/ ~Claimed
      PROVE  r \in Listed(u)'
  <2>1. /\ booking'[b].status # "none" /\ booking'[b].hidden = booking[b].hidden
        /\ booking'[b].owner = booking[b].owner
    BY <1>1, <1>3, BookingStep DEF Mine
  <2>2. ~Claimed => \A q \in Rows : q[1] = b => assigned'[q] = assigned[q]
    BY AssignedStep
  <2>3. \A n \in Travelers : <<b, n>> \in Rows /\ <<b, n>>[1] = b
    BY DEF Rows
  <2>4. ~Claimed => \A n \in Travelers : assigned'[<<b, n>>] = assigned[<<b, n>>]
    BY <2>2, <2>3
  <2>5. ShownRow(b, u)' = r
    BY <1>1, <1>3, <2>1, <2>4, SameRow
  <2>6. Mine(b, u)'
    BY <1>1, <1>3, <2>1, <2>2 DEF Mine
  <2> QED BY <2>5, <2>6 DEF Listed, Mine
<1> QED BY <1>2, <1>3

(* A trip stays in every list it is in, with its number, until it is       *)
(* canceled or over, unless a claim of the same booking was under way, or, *)
(* of a trip that is ahead again, a request to hide it.                    *)
THEOREM TripsStayListedHolds == Spec => TripsStayListed
<1>1. TicketsInv /\ [Next]_vars =>
        [\A u \in Accounts : \A r \in Listed(u) :
            \/ r \in Listed(u)'
            \/ booking[r[1]].status = "canceled" \/ booking[r[1]].past
            \/ booking[r[1]].again /\ Hiding(r[1])
            \/ /\ booking[r[1]].owner # u
               /\ \E w \in Workers : req[w].op = "claim" /\ req[w].row[1] = r[1]]_vars
  BY ListStep
<1> QED BY <1>1, Invariance, PTL DEF Spec, TripsStayListed

=============================================================================
