-------------------------- MODULE MCConsoleSessions --------------------------
(* A limit of one with two names and two sessions, so that the limit and the   *)
(* reuse of a name both bite; two sockets and two users, so that a socket can  *)
(* change hands.                                                              *)
EXTENDS ConsoleSessions

CONSTANTS x1, x2, n1, n2, s1, s2, u1, u2

MCSession == {x1, x2}
MCName == {n1, n2}
MCSocket == {s1, s2}
MCUser == {u1, u2}
=============================================================================
