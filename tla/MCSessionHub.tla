---------------------------- MODULE MCSessionHub ----------------------------
(* SessionHub with two players, of whom one has a character. *)
EXTENDS SessionHub

CONSTANTS ann, bob, tab1, tab2, hero

TwoUsers == {ann, bob}
TwoConns == {tab1, tab2}
OneChar == {hero}
\* The other two ways to give two connections users are these with the connections
\* exchanged, or have no player with a character.
FirstIsAnn == user[tab1] = ann
OwnerOf == [ch \in OneChar |-> ann]

=============================================================================
