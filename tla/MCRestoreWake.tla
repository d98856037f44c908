--------------------------- MODULE MCRestoreWake ---------------------------
(* The restore wake on small instances: two windows, one of them announced. *)
EXTENDS RestoreWake, TLC

CONSTANTS p1, p2, k1, k2, s1, s2

TwoPages == {p1, p2}
OneSession == {s1}
TwoSessions == {s1, s2}
TwoKeys == {k1, k2}
OwnKeys == [p \in Page |-> IF p = p1 THEN k1 ELSE k2]
NotTheDefault == Page \ {p2}

\* The sessions are alike: no definition tells one from another.
SessionSymmetry == Permutations(TwoSessions)
============================================================================
