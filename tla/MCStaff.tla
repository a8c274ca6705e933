------------------------------- MODULE MCStaff -------------------------------
(* A small instance of Staff for TLC.                                      *)
EXTENDS Staff, TLC

Interchangeable ==
    Permutations(Users \ {Chief}) \cup Permutations(StaffRoles) \cup Permutations(Workers)

=============================================================================
