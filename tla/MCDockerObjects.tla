-------------------------- MODULE MCDockerObjects --------------------------
(***************************************************************************)
(* Two dialogs on a network, a volume and two images, with one container   *)
(* that may use them.  The one change of docker's state from outside, and   *)
(* what the other dialog removes, disconnects and pulls, come between the   *)
(* preview, the looks and the command of a request.                         *)
(***************************************************************************)
EXTENDS DockerObjects, TLC

CONSTANTS n, v, i1, i2, ref, c1, d1, d2

MCNetwork == {n}
MCVolume == {v}
MCImage == {i1, i2}
MCRef == {ref}
MCContainer == {c1}
MCDialog == {d1, d2}

\* Nothing in DockerObjects tells the dialogs or the images apart.
MCSymmetry == Permutations(MCDialog) \union Permutations(MCImage)
=============================================================================
