------------------------------- MODULE MCDirect ------------------------------
(* Small instances of DirectBooking for TLC.                               *)
EXTENDS DirectBooking, TLC

Interchangeable ==
    Permutations(Sessions) \cup Permutations(Payments)
    \cup Permutations(Reservations) \cup Permutations(Seats)
    \cup Permutations(Passports) \cup Permutations(Workers)

=============================================================================
