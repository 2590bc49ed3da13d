--------------------------- MODULE MCSystemRestore ---------------------------
(* Two files of the manifest, so that one can be replaced and one not yet,    *)
(* and the two sidecars of the database.                                      *)
EXTENDS SystemRestore
=============================================================================
