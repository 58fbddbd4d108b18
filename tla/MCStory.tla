------------------------------ MODULE MCStory ------------------------------
(* The course of a campaign with two sessions and two requests at a time. *)
EXTENDS Story, TLC

CONSTANTS monday, friday, r1, r2, gate, throne, betrayal, keep, cellar

Tables == {monday, friday}
Open2 == {r1, r2}
Plot == {gate, throne}
Hidden == {betrayal}
Lands == {keep, cellar}
Given == <<keep>>
Swaps == Permutations(Tables) \union Permutations(Open2) \union Permutations(Plot)

=============================================================================
