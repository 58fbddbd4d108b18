------------------------------ MODULE MCMemory ------------------------------
(* Memory with one session in depth, or two. *)
EXTENDS Memory

CONSTANTS first, second

OneSession == {first}
TwoSessions == {first, second}

=============================================================================
