------------------------ MODULE MCComposeRepository ------------------------
(***************************************************************************)
(* Three files in two directories, two of them of one inferred name, a page *)
(* of one, a limit of two files; two queries, of which the second joins the *)
(* scan of the first or finds its index in the cache or starts a new one;   *)
(* one change, and one failing call in each scan.                           *)
(***************************************************************************)
EXTENDS ComposeRepository, TLC

CONSTANTS s1, s2

MCFile == 1..3
MCDirectoryOf == <<1, 1, 2>>
MCProjectOf == <<1, 2, 2>>
MCScan == {s1, s2}

\* Nothing in ComposeRepository tells the scans apart.
MCSymmetry == Permutations(MCScan)
=============================================================================
