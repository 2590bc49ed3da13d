--------------------------- MODULE MCAgentManager ---------------------------
(* One browser with two handlers in progress and three connections, so that a *)
(* connection is replaced while another handler still has the old one; two    *)
(* changes of the row allow adding, removing and adding again.  The managers  *)
(* of several browsers share the row only, and no property relates two of     *)
(* them.                                                                      *)
EXTENDS AgentManager

CONSTANTS s1, c1, c2, c3, t1, t2

MCSocket == {s1}
MCClient == {c1, c2, c3}
MCTask == {t1, t2}
=============================================================================
