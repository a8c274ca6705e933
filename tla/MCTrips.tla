------------------------------- MODULE MCTrips -------------------------------
(* Small instances of Trips for TLC: one trip with its packing list, its   *)
(* timeline in two languages and its map (tips and plans take the steps of *)
(* a timeline); or the maps of two trips, from two gates.                  *)
EXTENDS Trips

MCDestination == [t \in Trips |-> "LHR"]
MCGate == [t \in Trips |-> t]
MCAsked == {q \in Question : q.kind \in {"packing", "timeline", "map"}}
MCMaps == {q \in Question : q.kind = "map"}

=============================================================================
