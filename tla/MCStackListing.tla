--------------------------- MODULE MCStackListing ---------------------------
(***************************************************************************)
(* One stack, one browser, three refreshes, one change and one failure: a  *)
(* first refresh fills the cache, one from the cache begins before another *)
(* full one and ends after it, and the change comes before or between.     *)
(* The services of a project have one state: a list older than what it     *)
(* shows then has a status for a project that is gone, or none for one     *)
(* that is there.                                                          *)
(***************************************************************************)
EXTENDS StackListing

CONSTANTS web, b1

MCStack == {web}
MCBrowser == {b1}
MCStates == {{"exited", "running"}}
=============================================================================
