---------------------------- MODULE MCCampaigns -----------------------------
(* Campaigns with an owner, a player and two requests at a time. *)
EXTENDS Campaigns, TLC

CONSTANTS keep, cellar, code, spare, elara, ann, bob, r1, r2

Lands == {keep, cellar}
Codes2 == {code, spare}
Party == {elara}
People == {ann, bob}
Open2 == {r1, r2}
Swaps == Permutations(Lands) \union Permutations(Codes2) \union Permutations(People)
             \union Permutations(Open2)

=============================================================================
