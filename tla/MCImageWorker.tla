--------------------------- MODULE MCImageWorker ---------------------------
(* ImageWorker with model values for subjects and prompts. *)
EXTENDS ImageWorker

CONSTANTS pc1, npc1, bust, profile, scene

OnePc == {pc1}
OneNpc == {npc1}
TwoPortraits == {bust, profile}
OneScene == {scene}

=============================================================================
