----------------------------- MODULE MCAuthClient -----------------------------
EXTENDS AuthClient, TLC

CONSTANTS t1, t2, q1, q2, q3

MCTabs == {t1, t2}
MCCalls == {q1, q2, q3}
MCTabOf == (q1 :> t1) @@ (q2 :> t1) @@ (q3 :> t2)
MCRequests == MCTabs \cup {LoginForm}
=============================================================================
