----------------------------- MODULE MCAccounts -----------------------------
(* Two users may each be the other's last administrator; two sockets, of one  *)
(* user or of both; two requests at a time, their slots used again. One new    *)
(* password tells a session from its account.                                  *)
EXTENDS Accounts, TLC

CONSTANTS u1, u2, s1, s2, r1, r2

MCName == {u1, u2}
MCSocket == {s1, s2}
MCRequest == {r1, r2}
MCRole == {"viewer", "admin"}

Symmetry == Permutations(MCName) \union Permutations(MCSocket)
            \union Permutations(MCRequest)

\* What a socket that is gone keeps matters only to a request that uses it, and
\* what a request brought no longer matters once it has taken effect.
Kept(s) == s \in connected \/ \E r \in Request : request[r].socket = s
Effective(r) == request[r].phase \in {"answer", "timer"}
View == <<user, passwords, connected, transaction,
          [s \in Socket |-> IF Kept(s) THEN session[s] ELSE LoggedOut],
          [r \in Request |->
             IF Effective(r)
             THEN [request[r] EXCEPT !.role = "admin", !.active = TRUE,
                                     !.password = 0]
             ELSE request[r]]>>
=============================================================================
