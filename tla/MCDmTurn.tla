------------------------------ MODULE MCDmTurn ------------------------------
(* DmTurn with model values for the turns: the session's auto-greeting and a *)
(* player's turn.                                                            *)
EXTENDS DmTurn

CONSTANTS greet, t1

OneTurn == {t1}
TwoTurns == {greet, t1}
Greeting == {greet}
Nobody == {}

=============================================================================
