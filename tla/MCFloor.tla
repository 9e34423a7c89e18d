------------------------------ MODULE MCFloor -------------------------------
(* Small branches for TLC. Prices are in a unit that makes a half visible.   *)
EXTENDS Floor, TLC

Plain     == [price |-> 2, station |-> NoStation]
AtStation == {[price |-> 2, station |-> st] : st \in Stations}
MCMenu    == IF Stations = {} THEN {Plain} ELSE AtStation

\* One product at the smallest price, where no share of it matters.
Cheap == {[price |-> 1, station |-> NoStation]}

Half == {[kind |-> "PERCENTAGE", value |-> 50]}

\* Tables are interchangeable: no property tells them apart.
Interchangeable == Permutations(Tables)
=============================================================================
