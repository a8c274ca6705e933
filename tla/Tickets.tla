------------------------------- MODULE Tickets -------------------------------
(***************************************************************************)
(* A ticket after the sale (tickets.py, the list of reservations.py, and   *)
(* the uploads of users.py): it is linked to an account, shown at a gate,  *)
(* canceled, revived by a repeated webhook, hidden, and files are attached *)
(* to it and to profiles.  Sale, cancellation and webhook are single steps *)
(* here; Booking and DirectBooking have their parts.  A request to hide    *)
(* looks, awaits and commits without a second look, so what it has found   *)
(* canceled or over may be ahead again when it is hidden.                  *)
(***************************************************************************)
EXTENDS Naturals, FiniteSets

CONSTANTS
    Bookings,
    Travelers,      \* sequence numbers of the passengers of a booking
    Accounts,
    Files,          \* names that uploads draw
    Fields,         \* columns of a profile that a passport fills
    Workers, Null

ASSUME TicketsAssumption ==
    /\ Null \notin Accounts \cup Files \cup Bookings
    /\ "ticket" \notin Travelers
    /\ IsFiniteSet(Workers)

VARIABLES
    booking,    \* the reservation with the status of its ticket
    assigned,   \* assigned_to_user_id of tickets and passengers
    told,       \* the accounts that were answered "claimed" for a row
    admitted,   \* the tickets for which a gate was answered "validated"
    disk,       \* the files that are stored
    image,      \* ticket_images: the booking of a file
    profile,    \* paths and passport columns of each account
    req         \* each request under way, with what it has loaded

vars == <<booking, assigned, told, admitted, disk, image, profile, req>>

-----------------------------------------------------------------------------
(* A number leads to a ticket or to one of its passengers; each has an     *)
(* account of its own that it is assigned to.                              *)
Rows == Bookings \X ({"ticket"} \cup Travelers)

TicketStatus == {"pending_passenger", "valid", "used", "canceled"}

(* again is stored nowhere: it remembers that a trip which was canceled or *)
(* over has come to be ahead again.                                        *)
BookingRow == [status: {"none", "booked", "paid", "canceled"}, owner: Accounts \cup {Null},
               ticket: TicketStatus, numbered: BOOLEAN, past: BOOLEAN, hidden: BOOLEAN,
               again: BOOLEAN]

(* For each column the image it was read from.                             *)
Profile == [avatar: Files \cup {Null}, passport: Files \cup {Null},
            column: [Fields -> Files \cup {Null}]]

Request == [op: {"idle"}]
    \cup [op: {"claim"}, row: Rows, user: Accounts]
    \cup [op: {"validate", "hide"}, booking: Bookings]
    \cup [op: {"image"}, booking: Bookings, file: Files]
    \cup [op: {"avatar", "passport"}, user: Accounts, file: Files]

Idle == [op |-> "idle"]

(* Every row keeps its type; only what was sold is hidden or assigned, and *)
(* passengers are assigned only once they have a number to be found by.    *)
TicketsTypeOK ==
    /\ booking \in [Bookings -> BookingRow]
    /\ \A b \in Bookings : booking[b].status = "none" => ~booking[b].hidden
    /\ assigned \in [Rows -> Accounts \cup {Null}]
    /\ \A r \in Rows : assigned[r] # Null =>
          booking[r[1]].status # "none" /\ (r[2] # "ticket" => booking[r[1]].numbered)
    /\ told \in [Rows -> SUBSET Accounts]
    /\ admitted \subseteq Bookings
    /\ disk \subseteq Files
    /\ image \in [Files -> Bookings \cup {Null}]
    /\ profile \in [Accounts -> Profile]
    /\ req \in [Workers -> Request]

Init ==
    /\ booking = [b \in Bookings |->
                    [status |-> "none", owner |-> Null, ticket |-> "pending_passenger",
                     numbered |-> FALSE, past |-> FALSE, hidden |-> FALSE,
                     again |-> FALSE]]
    /\ assigned = [r \in Rows |-> Null]
    /\ told = [r \in Rows |-> {}]
    /\ admitted = {}
    /\ disk = {}
    /\ image = [f \in Files |-> Null]
    /\ profile = [u \in Accounts |->
                    [avatar |-> Null, passport |-> Null, column |-> [c \in Fields |-> Null]]]
    /\ req = [w \in Workers |-> Idle]

Begin(w, r) == /\ req[w] = Idle
               /\ req' = [req EXCEPT ![w] = r]
Finish(w) == req' = [req EXCEPT ![w] = Idle]

claims == <<assigned, told>>
files == <<disk, image, profile>>

(* Fault: passengers are found before they have a number.                  *)
FoundAny(r) == booking[r[1]].status # "none"

(* A booking that has been paid for has passengers with numbers; an order  *)
(* or reservation without a payment is found by its ticket only.           *)
Found(r) == /\ booking[r[1]].status # "none"
            /\ r[2] = "ticket" \/ booking[r[1]].numbered

(* The row whose number and QR code a trip is listed with: the owner gets  *)
(* the ticket, an account that passengers are assigned to the first of     *)
(* them.                                                                   *)
ShownRow(b, u) ==
    LET claimed == {n \in Travelers : assigned[<<b, n>>] = u}
    IN IF booking[b].owner = u \/ claimed = {} THEN <<b, "ticket">>
       ELSE <<b, CHOOSE n \in claimed : TRUE>>

(* GET /reservations/me: an account's own trips and those it has claimed.  *)
Listed(u) ==
    {ShownRow(b, u) : b \in {b \in Bookings :
        /\ booking[b].status # "none" /\ ~booking[b].hidden
        /\ booking[b].owner = u \/ \E r \in Rows : r[1] = b /\ assigned[r] = u}}

-----------------------------------------------------------------------------
(* A paid checkout, an order, and a reservation whose details are missing. *)
Sell(b, u, kind) ==
    /\ booking[b].status = "none"
    /\ booking' = [booking EXCEPT ![b] =
                     [@ EXCEPT !.owner = u,
                               !.status = IF kind = "checkout" THEN "paid" ELSE "booked",
                               !.ticket = IF kind = "reservation" THEN "pending_passenger"
                                          ELSE "valid",
                               !.numbered = kind = "checkout"]]
    /\ UNCHANGED <<claims, admitted, files, req>>

(* Cancellation, on or before the day of the flight.                       *)
Cancel(b) ==
    /\ booking[b].status \in {"booked", "paid"} /\ ~booking[b].past
    /\ booking' = [booking EXCEPT ![b].status = "canceled", ![b].ticket = "canceled"]
    /\ UNCHANGED <<claims, admitted, files, req>>

(* A webhook that reports the payment once more: the booking is paid and   *)
(* its ticket valid, whatever they have become.                            *)
Redeliver(b) ==
    /\ booking[b].numbered
    /\ booking' = [booking EXCEPT ![b] =
                     [@ EXCEPT !.status = "paid", !.ticket = "valid",
                               !.again = booking[b].again \/ booking[b].status = "canceled"]]
    /\ UNCHANGED <<claims, admitted, files, req>>

(* The day of the flight is over.                                          *)
Depart(b) ==
    /\ booking[b].status # "none" /\ ~booking[b].past
    /\ booking' = [booking EXCEPT ![b].past = TRUE]
    /\ UNCHANGED <<claims, admitted, files, req>>

(* PATCH /flights/{id} gives a flight that has left a later departure.     *)
Postpone(b) ==
    /\ booking[b].status # "none" /\ booking[b].past
    /\ booking' = [booking EXCEPT ![b].past = FALSE, ![b].again = TRUE]
    /\ UNCHANGED <<claims, admitted, files, req>>

(* Fault: a trip that is still ahead can be hidden.                        *)
HideLoadAny(w, b) ==
    /\ booking[b].status # "none" /\ ~booking[b].hidden
    /\ Begin(w, [op |-> "hide", booking |-> b])
    /\ UNCHANGED <<booking, claims, admitted, files>>

(* POST /reservations/{id}/hide takes a booking that it loads as canceled  *)
(* or over from every list, its owner's and those of the accounts it is    *)
(* assigned to.  One that is hidden is answered without a change.          *)
HideLoad(w, b) ==
    /\ booking[b].status # "none" /\ ~booking[b].hidden
    /\ booking[b].status = "canceled" \/ booking[b].past
    /\ Begin(w, [op |-> "hide", booking |-> b])
    /\ UNCHANGED <<booking, claims, admitted, files>>

(* The commit writes hidden_at whatever the booking has become.            *)
HideCommit(w) ==
    /\ req[w].op = "hide"
    /\ booking' = [booking EXCEPT ![req[w].booking].hidden = TRUE]
    /\ Finish(w)
    /\ UNCHANGED <<claims, admitted, files>>

-----------------------------------------------------------------------------
(* Fault: an assignment is looked at when it is loaded, and not at all.    *)
ClaimLoadAny(w, r, u) ==
    /\ Found(r)
    /\ Begin(w, [op |-> "claim", row |-> r, user |-> u])
    /\ UNCHANGED <<booking, claims, admitted, files>>

(* POST /tickets/claim: a row that is assigned is refused, or answered     *)
(* without a change to the account that has it.                            *)
ClaimLoad(w, r, u) ==
    /\ Found(r) /\ assigned[r] = Null
    /\ Begin(w, [op |-> "claim", row |-> r, user |-> u])
    /\ UNCHANGED <<booking, claims, admitted, files>>

ClaimCommit(w) ==
    /\ req[w].op = "claim"
    /\ assigned' = [assigned EXCEPT ![req[w].row] = req[w].user]
    /\ told' = [told EXCEPT ![req[w].row] = @ \cup {req[w].user}]
    /\ Finish(w)
    /\ UNCHANGED <<booking, admitted, files>>

(* The gate finds tickets, not passengers, and looks at nothing but their  *)
(* status; other statuses are answered without a change.                   *)
ValidateLoad(w, b) ==
    /\ booking[b].status # "none" /\ booking[b].ticket = "valid"
    /\ Begin(w, [op |-> "validate", booking |-> b])
    /\ UNCHANGED <<booking, claims, admitted, files>>

ValidateCommit(w) ==
    /\ req[w].op = "validate"
    /\ booking' = [booking EXCEPT ![req[w].booking].ticket = "used"]
    /\ admitted' = admitted \cup {req[w].booking}
    /\ Finish(w)
    /\ UNCHANGED <<claims, files>>

-----------------------------------------------------------------------------
(* Fault: the file is left to a task that runs later.                      *)
WriteLater(w, f, r) ==
    /\ f \notin disk
    /\ Begin(w, r)
    /\ UNCHANGED <<booking, claims, admitted, disk, image, profile>>

(* An upload draws a name and writes the file, and names it in a row       *)
(* after that.                                                             *)
Write(w, f, r) ==
    /\ f \notin disk
    /\ disk' = disk \cup {f}
    /\ Begin(w, r)
    /\ UNCHANGED <<booking, claims, admitted, image, profile>>

(* POST /tickets/{id}/upload, by the owner.                                *)
UploadImage(w, b, f) ==
    /\ booking[b].status # "none"
    /\ Write(w, f, [op |-> "image", booking |-> b, file |-> f])

(* POST /users/me/avatar and /users/me/passport.                           *)
UploadProfile(w, u, f, op) == Write(w, f, [op |-> op, user |-> u, file |-> f])

ImageCommit(w) ==
    /\ req[w].op = "image"
    /\ image' = [image EXCEPT ![req[w].file] = req[w].booking]
    /\ Finish(w)
    /\ UNCHANGED <<booking, claims, admitted, disk, profile>>

AvatarCommit(w) ==
    /\ req[w].op = "avatar"
    /\ profile' = [profile EXCEPT ![req[w].user].avatar = req[w].file]
    /\ Finish(w)
    /\ UNCHANGED <<booking, claims, admitted, disk, image>>

(* Whatever columns the analyzer has read are replaced, the others stay.   *)
Extracted(u, f, C) == [c \in Fields |-> IF c \in C THEN f ELSE profile[u].column[c]]

PassportCommit(w, C) ==
    /\ req[w].op = "passport"
    /\ profile' = [profile EXCEPT ![req[w].user] =
                     [@ EXCEPT !.passport = req[w].file,
                               !.column = Extracted(req[w].user, req[w].file, C)]]
    /\ Finish(w)
    /\ UNCHANGED <<booking, claims, admitted, disk, image>>

(* The process dies, or the commit fails; what is on disk stays.           *)
Drop(w) == /\ req[w] # Idle
           /\ Finish(w)
           /\ UNCHANGED <<booking, claims, admitted, files>>

-----------------------------------------------------------------------------
Next ==
    \/ \E b \in Bookings :
          \/ \E u \in Accounts, kind \in {"checkout", "order", "reservation"} : Sell(b, u, kind)
          \/ Cancel(b) \/ Redeliver(b) \/ Depart(b) \/ Postpone(b)
    \/ \E w \in Workers :
          \/ \E r \in Rows, u \in Accounts : ClaimLoad(w, r, u)
          \/ \E b \in Bookings : HideLoad(w, b) \/ ValidateLoad(w, b)
          \/ \E b \in Bookings, f \in Files : UploadImage(w, b, f)
          \/ \E u \in Accounts, f \in Files, op \in {"avatar", "passport"} :
                UploadProfile(w, u, f, op)
          \/ \E C \in SUBSET Fields : PassportCommit(w, C)
          \/ ClaimCommit(w) \/ ValidateCommit(w) \/ HideCommit(w)
          \/ ImageCommit(w) \/ AvatarCommit(w) \/ Drop(w)

Spec == Init /\ [][Next]_vars

-----------------------------------------------------------------------------
(* Properties.                                                             *)

(* Nothing locks a row between the look at its account and the commit, so  *)
(* several accounts may be told that it is theirs: not more than there     *)
(* were requests under way, and a claim that starts after the first of     *)
(* them was told changes nothing.                                          *)
ClaimsBounded ==
    \A r \in Rows :
       /\ told[r] # {} => assigned[r] \in told[r]
       /\ Cardinality(told[r]) + Cardinality({w \in Workers : req[w].op = "claim" /\ req[w].row = r})
             <= Cardinality(Workers)

(* However an upload ends, and whatever runs beside it, a path that is     *)
(* stored names a file that is there.                                      *)
FilesBeforeRows ==
    /\ \A f \in Files : image[f] # Null => f \in disk
    /\ \A u \in Accounts :
          {profile[u].avatar, profile[u].passport} \cup {profile[u].column[c] : c \in Fields}
             \subseteq disk \cup {Null}

Hiding(b) == \E w \in Workers : req[w].op = "hide" /\ req[w].booking = b

(* A trip stays in every list it is in, with the number it is shown with,  *)
(* until it is canceled or over.  One that was, and is ahead again, may be *)
(* lost to a request to hide it that is still under way; and accounts it   *)
(* was claimed by, never its owner, lose it to a claim of the same booking *)
(* that was under way.                                                     *)
TripsStayListed ==
    [][\A u \in Accounts : \A r \in Listed(u) :
          \/ r \in Listed(u)'
          \/ booking[r[1]].status = "canceled" \/ booking[r[1]].past
          \/ booking[r[1]].again /\ Hiding(r[1])
          \/ /\ booking[r[1]].owner # u
             /\ \E w \in Workers : req[w].op = "claim" /\ req[w].row[1] = r[1]]_vars

(* reservations.py: "Hide a canceled or past reservation from the user's   *)
(* trip list": what is being hidden is canceled or past.                   *)
HiddenWasOver ==
    [][\A b \in Bookings : ~booking[b].hidden /\ booking'[b].hidden =>
          booking[b].status = "canceled" \/ booking[b].past]_vars

(* tickets.py: "valid -> used; used -> already_used; canceled -> invalid", *)
(* so a gate is never answered twice that a ticket is validated.           *)
AdmittedOnce ==
    [][\A w \in Workers : ValidateCommit(w) => req[w].booking \notin admitted]_vars

=============================================================================
