----------------------- MODULE MCContainerOperations -----------------------
(* One container outside Compose and a service, three ports, so that the two  *)
(* compete for the free one, and a spare name to rename to; two requests at a *)
(* time, so that every pair of operations overlaps; three requests or         *)
(* commands in all, enough for a change, a rename or stop, and a rollback.    *)
(* One failure is what a restoration has to survive; with two cache           *)
(* directories a clean-up may fail half-way or find another one than shown.   *)
EXTENDS ContainerOperations

CONSTANTS a, b, web, p1, p2, p3, r1, r2, d1, d2

MCStandalone == {a}
MCService == {web}
MCName == {a, b, web}
MCPort == {p1, p2, p3}
MCId == 1..8
MCReq == {r1, r2}
MCCacheDir == {d1, d2}
MCSymmetry == Permutations(MCPort) \union Permutations(MCReq) \union Permutations(MCCacheDir)
=============================================================================
