----------------------------- MODULE MCAccounts ------------------------------
(* A small instance of Accounts for TLC.                                   *)
EXTENDS Accounts, TLC

Interchangeable ==
    Permutations(Users) \cup Permutations(Emails) \cup Permutations(Passwords)
    \cup Permutations(Links) \cup Permutations(Workers)

=============================================================================
