------------------------------- MODULE MCFlux -------------------------------
(* The image service in ticks of five seconds. *)
EXTENDS Flux

FiveFifteenFortyFive == <<1, 3, 9>>

=============================================================================
