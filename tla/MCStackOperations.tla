------------------------- MODULE MCStackOperations -------------------------
(* Two endpoints tell the exclusion by terminal name from one by project. The *)
(* two requests may come through one of them or through both, and their slots *)
(* are used again, so a project sees any number of operations.                *)
EXTENDS StackOperations

CONSTANTS r1, r2, e1, e2

MCRequest == {r1, r2}
MCEndpoint == {e1, e2}
=============================================================================
