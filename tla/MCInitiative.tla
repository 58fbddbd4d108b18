---------------------------- MODULE MCInitiative ----------------------------
(* Four participants whose rolls may tie. *)
EXTENDS Initiative

FourParticipants == 1..4
TwoScores == 3..4

=============================================================================
