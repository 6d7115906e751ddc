--------------------------- MODULE MCAuthSessions ---------------------------
(***************************************************************************)
(* Instances of AuthSessions for TLC: one user with two or three logins,   *)
(* the first of which can be refreshed.                                    *)
(***************************************************************************)
EXTENDS AuthSessions

CONSTANTS f1, f2, f3, t1, t2, t3, s1, s2, u1, r1, r2

MCFamilyOf ==
    [t \in Tokens |-> CASE t \in {t1, t2, t3} -> f1 [] t \in {s1, s2} -> f2 [] t = u1 -> f3]
=============================================================================
