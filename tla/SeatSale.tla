------------------------------ MODULE SeatSale -------------------------------
(***************************************************************************)
(* What the booking core promises about the seats of a flight, without     *)
(* its tables and requests: a session asks for seats once; a sale gives    *)
(* exactly the seats it asked for to it, in one step; a session buys once, *)
(* and a seat that has been sold keeps its buyer.                          *)
(***************************************************************************)
CONSTANTS Seats, Sessions, Null

VARIABLES asked,  \* the seats each session has asked for
          buyer   \* the session each seat has been sold to

Init == asked = [s \in Sessions |-> {}] /\ buyer = [x \in Seats |-> Null]

Ask(s, S) ==
    /\ asked[s] = {} /\ S # {}
    /\ asked' = [asked EXCEPT ![s] = S]
    /\ UNCHANGED buyer

Sell(s) ==
    /\ asked[s] # {}
    /\ \A x \in Seats : buyer[x] # s
    /\ \A x \in asked[s] : buyer[x] = Null
    /\ buyer' = [x \in Seats |-> IF x \in asked[s] THEN s ELSE buyer[x]]
    /\ UNCHANGED asked

Next == \E s \in Sessions : Sell(s) \/ \E S \in SUBSET Seats : Ask(s, S)

Spec == Init /\ [][Next]_<<asked, buyer>>

=============================================================================
