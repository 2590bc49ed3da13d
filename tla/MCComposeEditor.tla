--------------------------- MODULE MCComposeEditor ---------------------------
(* Two editors of one project; two texts for compose.yaml and one for .env,   *)
(* so that both files can change, appear and disappear.  The editors, and the *)
(* texts, are interchangeable.                                                *)
EXTENDS ComposeEditor, TLC

CONSTANTS ann, bob, y1, y2, e1

MCEditor == {ann, bob}
MCYaml == {y1, y2}
MCEnv == {e1}
MCSymmetry == Permutations(MCEditor) \union Permutations(MCYaml)
=============================================================================
