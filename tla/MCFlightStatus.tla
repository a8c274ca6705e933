--------------------------- MODULE MCFlightStatus ---------------------------
(* A small instance of FlightStatus for TLC.  One unit of time is the time *)
(* from one run to the next; a run and a copy last as long, so that a run  *)
(* meets the next one, and the copy it has stored.                         *)
EXTENDS FlightStatus

(* The half of the instance with a customer has neither a stream nor a run *)
(* that dies: ToldIsStored speaks of runs that live, a run that dies tells *)
(* nobody more, and a stream changes nothing.  Without a customer nothing  *)
(* is left out, and nothing makes one book: StreamSettles is about that    *)
(* half.                                                                   *)
ToldOrShown == holders # {} => deaths = 0 /\ \A s \in Streams : shown[s] = {}

=============================================================================
