---------------------------- MODULE MCDemoEngine ----------------------------
(* Model values for DemoEngine: two bundled profiles with different scores. *)
EXTENDS DemoEngine, TLC

CONSTANTS p1, p2

MCProfiles == <<[id |-> p1, score |-> 96], [id |-> p2, score |-> 12]>>

=============================================================================
