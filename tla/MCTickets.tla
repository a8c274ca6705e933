------------------------------ MODULE MCTickets ------------------------------
(* A small instance of Tickets for TLC.                                    *)
EXTENDS Tickets, TLC

Interchangeable ==
    Permutations(Accounts) \cup Permutations(Files) \cup Permutations(Fields)
    \cup Permutations(Workers)

=============================================================================
