----------------------------- MODULE MCReminders -----------------------------
(* A small instance of Reminders for TLC: a period stands for the time     *)
(* between two thresholds.                                                 *)
EXTENDS Reminders

MCJobs == {"alerts", "todos"}
MCFirst == {"alerts"}
MCKinds == [alerts |-> << [name |-> "critical", at |-> 1, from |-> "leave"],
                          [name |-> "6h", at |-> 2, from |-> "flight"] >>,
            todos |-> << [name |-> "1d", at |-> 3, from |-> "flight"],
                         [name |-> "3h", at |-> 1, from |-> "leave"] >>]
MCWindow == [alerts |-> 3, todos |-> 4]

=============================================================================
