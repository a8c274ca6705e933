------------------------------ MODULE MCBooking ------------------------------
(* Small instances of Booking for TLC.                                     *)
EXTENDS BookingInvariant, TLC

(* Rows of a table and workers are interchangeable.  Not used by the runs  *)
(* that check liveness.                                                    *)
Interchangeable ==
    Permutations(Sessions) \cup Permutations(Payments)
    \cup Permutations(Reservations) \cup Permutations(Seats)
    \cup Permutations(Passports) \cup Permutations(Workers)

=============================================================================
