------------------------------ MODULE MCAdvance ------------------------------
(* The worker on small instances: what the threads and the sessions are    *)
(* called does not matter.                                                 *)
EXTENDS AdvanceWorker, TLC

CONSTANTS s1, s2, t1, t2

OneSession == {s1}
TwoSessions == {s1, s2}
OneThread == {t1}
TwoThreads == {t1, t2}

Symmetry == Permutations({s1, s2}) \cup Permutations({t1, t2})
=============================================================================
