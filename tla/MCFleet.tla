------------------------------- MODULE MCFleet -------------------------------
(* The fleet's file on small instances.                                    *)
EXTENDS FleetStore

CONSTANTS s1, s2, t1, t2

OneSession == {s1}
TwoSessions == {s1, s2}
OneThread == {t1}
TwoThreads == {t1, t2}
=============================================================================
