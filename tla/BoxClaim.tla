------------------------------ MODULE BoxClaim ------------------------------
(***************************************************************************)
(* What the delivery gate of a session promises, with no tags and no       *)
(* clock: the ownership of ONE input box.  An operation (a prompt          *)
(* delivery, the mail button's box clear, the fork fill) claims the box    *)
(* before it types and releases it when it is done.  A claim may lapse     *)
(* while its owner is starved or dead, and only a lapsed claim may be      *)
(* taken over; an owner that comes back before that renews it.  Replacing  *)
(* the session's record (`epoch`) drops whatever claim it carried.         *)
(***************************************************************************)
EXTENDS Naturals

CONSTANTS
    Op,     \* the operations that may own the box
    None    \* nobody

VARIABLES
    owner,  \* the operation the box belongs to, or None
    lapsed, \* the owner's claim may be taken over
    active, \* the operations that were granted the box and have not ended
    epoch   \* how often the session's record was replaced

vars == <<owner, lapsed, active, epoch>>

Init == owner = None /\ lapsed = FALSE /\ active = {} /\ epoch = 0

(* The box is granted only when it is free or its owner's claim lapsed.    *)
Claim(o) ==
    /\ o \notin active
    /\ owner = None \/ lapsed
    /\ owner' = o
    /\ lapsed' = FALSE
    /\ active' = active \cup {o}
    /\ UNCHANGED epoch

(* Only the operation that still owns the box can renew its claim.         *)
Renew(o) ==
    /\ o \in active
    /\ owner = o
    /\ lapsed' = FALSE
    /\ UNCHANGED <<owner, active, epoch>>

(* An operation that ends frees the box if it is still its own, and never  *)
(* another operation's.                                                    *)
Release(o) ==
    /\ o \in active
    /\ active' = active \ {o}
    /\ IF owner = o
       THEN owner' = None /\ lapsed' = FALSE
       ELSE UNCHANGED <<owner, lapsed>>
    /\ UNCHANGED epoch

(* An operation dies without releasing anything.                           *)
Die(o) ==
    /\ o \in active
    /\ active' = active \ {o}
    /\ UNCHANGED <<owner, lapsed, epoch>>

(* Time passes, or the clock is set back.                                  *)
TurnOfClock ==
    /\ owner # None
    /\ lapsed' = ~lapsed
    /\ UNCHANGED <<owner, active, epoch>>

Replaced ==
    /\ owner' = None
    /\ lapsed' = FALSE
    /\ epoch' = epoch + 1
    /\ UNCHANGED active

Next ==
    \/ \E o \in Op : Claim(o) \/ Renew(o) \/ Release(o) \/ Die(o)
    \/ TurnOfClock
    \/ Replaced

Spec == Init /\ [][Next]_vars
=============================================================================
