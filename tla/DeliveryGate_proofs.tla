------------------------- MODULE DeliveryGate_proofs -------------------------
(***************************************************************************)
(* For any number of submissions, prompts and reserved operations, any     *)
(* lifetime of the gate and any bounds: the gate's types, that no          *)
(* operation adopts another one's claim, and that the gate implements the  *)
(* ownership of the box (BoxClaim).                                        *)
(*                                                                         *)
(* NoAdoption is not inductive: that a standing tag equal to one's own is  *)
(* one's own claim rests on who the tag is from (HolderTag) and on the     *)
(* nonces: stamped once, never reused, and 0 only before the stamp.        *)
(***************************************************************************)
EXTENDS DeliveryGate, TLAPS

NonceFresh ==
    \A a \in Attempt : /\ nonce[a] <= submitSeq
                       /\ pc[a] # "idle" => nonce[a] # 0

NonceOwn ==
    \A a, b \in Attempt : nonce[a] # 0 /\ nonce[a] = nonce[b] => a = b

HolderTag ==
    /\ gateTag = NoTag <=> holder = None
    /\ holder # None => gateTag = TagOf(holder)
    /\ holder \in Attempt => nonce[holder] # 0 /\ pc[holder] \notin {"idle", "stamped"}

IInv == TypeOK /\ NonceFresh /\ NonceOwn /\ HolderTag

-----------------------------------------------------------------------------
(* The tags of two operations differ once the attempts among them are      *)
(* stamped.                                                                *)
LEMMA TagsDiffer ==
    ASSUME TypeOK, NonceOwn,
           NEW o \in Op, NEW h \in Op,
           o \in Attempt => nonce[o] # 0,
           h \in Attempt => nonce[h] # 0,
           TagOf(o) = TagOf(h)
    PROVE  o = h
<1>1. CASE o \in Attempt /\ h \in Attempt
  BY <1>1 DEF TagOf, NonceOwn
<1>2. CASE o \in Attempt /\ h \notin Attempt
  BY <1>2 DEF TagOf
<1>3. CASE o \notin Attempt /\ h \in Attempt
  BY <1>3 DEF TagOf
<1>4. CASE o \notin Attempt /\ h \notin Attempt
  BY <1>4 DEF TagOf
<1> QED BY <1>1, <1>2, <1>3, <1>4

(* The nonce is what NoAdoption needs: a stamped tag names its operation.  *)
LEMMA AdoptionFree == IInv => NoAdoption
<1> SUFFICES ASSUME IInv, NEW o \in Active, gateTag = TagOf(o)
             PROVE  holder = o
  BY DEF NoAdoption
<1>1. o \in Op /\ pc[o] # "idle"
  BY DEF Active
<1>2. o \in Attempt => nonce[o] # 0
  BY <1>1 DEF IInv, NonceFresh
<1>3. TagOf(o) # NoTag
  BY <1>1, ClientAssumption DEF TagOf, IInv, TypeOK, Op
<1>4. holder # None /\ gateTag = TagOf(holder)
  BY <1>3 DEF IInv, HolderTag
<1>5. holder \in Op
  BY <1>4 DEF IInv, TypeOK
<1> QED
  BY <1>1, <1>2, <1>4, <1>5, TagsDiffer DEF IInv, HolderTag

-----------------------------------------------------------------------------
LEMMA InitInv == Init => IInv
<1> SUFFICES ASSUME Init PROVE IInv
  OBVIOUS
<1>1. TypeOK
  BY BoundAssumption DEF Init, TypeOK
<1>2. NonceFresh /\ NonceOwn
  BY DEF Init, NonceFresh, NonceOwn, Op
<1>3. HolderTag
  BY ClientAssumption DEF Init, HolderTag, Op
<1> QED BY <1>1, <1>2, <1>3 DEF IInv

LEMMA TypeStep == TypeOK /\ [Next]_vars => TypeOK'
<1> SUFFICES ASSUME TypeOK, [Next]_vars PROVE TypeOK'
  OBVIOUS
<1> USE ClientAssumption, BoundAssumption DEF TypeOK, Op
<1>1. ASSUME NEW a \in Attempt, Stamp(a) PROVE TypeOK'
  BY <1>1 DEF Stamp
<1>2. ASSUME NEW o \in Op, Decline(o) PROVE TypeOK'
  BY <1>2 DEF Decline
<1>3. ASSUME NEW a \in Attempt, Accept(a) PROVE TypeOK'
  BY <1>3 DEF Accept
<1>4. ASSUME NEW a \in Attempt, TopGuard(a) PROVE TypeOK'
  BY <1>4 DEF TopGuard, Revalidate
<1>5. ASSUME NEW o \in Op, TryOpen(o) PROVE TypeOK'
  <2>1. TagOf(o) \in (Prompt \X Nat) \cup (Reserved \X {0})
    BY <1>5 DEF TagOf
  <2> QED BY <1>5, <2>1 DEF TryOpen
<1>6. ASSUME NEW o \in Op, Recheck(o) PROVE TypeOK'
  BY <1>6 DEF Recheck, Revalidate
<1>7. ASSUME NEW o \in Op, End(o) PROVE TypeOK'
  BY <1>7 DEF End, Close
<1>8. ASSUME NEW o \in Op, Vanish(o) PROVE TypeOK'
  BY <1>8 DEF Vanish
<1>9. CASE Upsert
  BY <1>9 DEF Upsert
<1>10. CASE Tick
  BY <1>10 DEF Tick
<1>11. CASE SetClockBack
  BY <1>11 DEF SetClockBack
<1>12. CASE UNCHANGED vars
  BY <1>12 DEF vars
<1> QED
  BY <1>1, <1>2, <1>3, <1>4, <1>5, <1>6, <1>7, <1>8, <1>9, <1>10, <1>11, <1>12
  DEF Next

(* Only Stamp touches a nonce, and the one it hands out is new.            *)
LEMMA NonceStep == IInv /\ [Next]_vars => NonceFresh' /\ NonceOwn'
<1> SUFFICES ASSUME IInv, [Next]_vars PROVE NonceFresh' /\ NonceOwn'
  OBVIOUS
<1> USE DEF IInv, TypeOK, NonceFresh, NonceOwn
<1>1. ASSUME NEW a \in Attempt, Stamp(a) PROVE NonceFresh' /\ NonceOwn'
  <2>1. NonceFresh'
    BY <1>1 DEF Stamp, Op
  <2>2. NonceOwn'
    BY <1>1 DEF Stamp
  <2> QED BY <2>1, <2>2
<1>2. ASSUME UNCHANGED <<submitSeq, nonce>>,
             \A a \in Attempt : pc'[a] # "idle" => pc[a] # "idle"
      PROVE  NonceFresh' /\ NonceOwn'
  BY <1>2
<1>3. ASSUME NEW o \in Op, Decline(o) \/ TryOpen(o) \/ Recheck(o) \/ End(o) \/ Vanish(o)
      PROVE  NonceFresh' /\ NonceOwn'
  <2>1. UNCHANGED <<submitSeq, nonce>>
    BY <1>3 DEF Decline, TryOpen, Recheck, Revalidate, End, Close, Vanish
  <2>2. \A a \in Attempt : pc'[a] # "idle" => pc[a] # "idle"
    BY <1>3 DEF Decline, TryOpen, Recheck, Revalidate, End, Close, Vanish, Op, Active
  <2> QED BY <2>1, <2>2, <1>2
<1>4. ASSUME NEW a \in Attempt, Accept(a) \/ TopGuard(a)
      PROVE  NonceFresh' /\ NonceOwn'
  BY <1>2, <1>4 DEF Accept, TopGuard, Revalidate, Op
<1>5. CASE Upsert \/ Tick \/ SetClockBack \/ UNCHANGED vars
  BY <1>2, <1>5 DEF Upsert, Tick, SetClockBack, vars
<1> QED
  BY <1>1, <1>3, <1>4, <1>5 DEF Next

(* The tag and its holder are set and cleared together, and a holder's tag *)
(* stays what it was: its nonce is never stamped again.                    *)
LEMMA HolderStep == IInv /\ [Next]_vars => HolderTag'
<1> SUFFICES ASSUME IInv, [Next]_vars PROVE HolderTag'
  OBVIOUS
<1>a. TypeOK /\ NonceFresh /\ NonceOwn /\ HolderTag /\ NoAdoption
  BY AdoptionFree DEF IInv
<1> USE <1>a, ClientAssumption
<1>1. ASSUME UNCHANGED <<gateTag, holder, nonce>>,
             \A a \in Attempt :
                 pc[a] \notin {"idle", "stamped"} => pc'[a] \notin {"idle", "stamped"}
      PROVE  HolderTag'
  BY <1>1 DEF HolderTag, TagOf
<1>2. ASSUME gateTag' = NoTag, holder' = None
      PROVE  HolderTag'
  BY <1>2 DEF HolderTag, Op
<1>3. ASSUME NEW a \in Attempt, Stamp(a) PROVE HolderTag'
  <2>1. holder # a
    BY <1>3 DEF Stamp, HolderTag
  <2>2. holder \in Attempt => nonce'[holder] = nonce[holder] /\ pc'[holder] = pc[holder]
    BY <1>3, <2>1 DEF Stamp, TypeOK, Op
  <2> QED BY <1>3, <2>2 DEF Stamp, HolderTag, TagOf
<1>4. ASSUME NEW o \in Op, TryOpen(o) PROVE HolderTag'
  <2>1. TagOf(o) # NoTag
    BY <1>4 DEF TagOf, TypeOK, Op
  <2>2. o # None
    OBVIOUS
  <2>3. o \in Attempt => nonce'[o] # 0 /\ pc'[o] \notin {"idle", "stamped"}
    BY <1>4 DEF TryOpen, NonceFresh, TypeOK, Op
  <2> QED BY <1>4, <2>1, <2>2, <2>3 DEF TryOpen, HolderTag, TagOf
<1>5. ASSUME NEW o \in Op, End(o) PROVE HolderTag'
  <2>1. CASE gateTag = TagOf(o)
    BY <1>5, <2>1, <1>2 DEF End, Close
  <2>2. CASE gateTag # TagOf(o)
    BY <1>5, <2>2, <1>1 DEF End, Close, TypeOK, Op
  <2> QED BY <2>1, <2>2
<1>6. ASSUME NEW o \in Op, Decline(o) PROVE HolderTag'
  BY <1>6, <1>1 DEF Decline, TypeOK, Op
<1>7. ASSUME NEW o \in Op, Recheck(o) \/ Vanish(o) PROVE HolderTag'
  BY <1>7, <1>1 DEF Recheck, Revalidate, Vanish, TypeOK, Op
<1>8. ASSUME NEW a \in Attempt, Accept(a) \/ TopGuard(a) PROVE HolderTag'
  BY <1>8, <1>1 DEF Accept, TopGuard, Revalidate, TypeOK, Op
<1>9. CASE Upsert
  BY <1>9, <1>2 DEF Upsert
<1>10. CASE Tick \/ SetClockBack \/ UNCHANGED vars
  BY <1>10, <1>1 DEF Tick, SetClockBack, vars
<1> QED
  BY <1>3, <1>4, <1>5, <1>6, <1>7, <1>8, <1>9, <1>10 DEF Next

LEMMA Invariance == Spec => []IInv
<1>1. IInv /\ [Next]_vars => IInv'
  BY TypeStep, NonceStep, HolderStep DEF IInv
<1> QED
  BY InitInv, <1>1, PTL DEF Spec

-----------------------------------------------------------------------------
(* The gate's fields keep their types and stay within their bounds.        *)
THEOREM TypeCorrect == Spec => []TypeOK
<1>1. IInv => TypeOK
  BY DEF IInv
<1> QED BY <1>1, Invariance, PTL

(* A delivery that waited out its gate never takes the claim of a resend   *)
(* of its prompt, or of any other operation, for its own: whatever number  *)
(* of submissions of one prompt there are.                                 *)
THEOREM NeverAdopts == Spec => []NoAdoption
<1> QED BY AdoptionFree, Invariance, PTL

-----------------------------------------------------------------------------
lapsed == holder # None /\ ~GateOpen

(* The five kinds of step that change who owns the box, and the steps that *)
(* change only how old the claim is.                                       *)
LEMMA ClaimStep ==
    ASSUME IInv, NEW o \in Op, TryOpen(o) PROVE Claims!Claim(o)
<1>1. o \notin Active /\ Active' = Active \cup {o}
  BY DEF TryOpen, Active, IInv, TypeOK, Op
<1>2. holder = None \/ lapsed
  BY DEF TryOpen, lapsed
<1>3. holder' = o /\ ~lapsed'
  <2>1. TagOf(o) # NoTag
    BY ClientAssumption DEF TagOf, IInv, TypeOK, Op
  <2> QED BY <2>1, BoundAssumption DEF TryOpen, lapsed, GateOpen
<1> QED
  BY <1>1, <1>2, <1>3 DEF Claims!Claim, TryOpen, lapsed

LEMMA RenewStep ==
    ASSUME IInv, NEW o \in Active, Revalidate(o), Active' = Active
    PROVE  Claims!Renew(o)
<1>1. holder = o
  BY AdoptionFree DEF Revalidate, NoAdoption
<1>2. o \in Op
  BY DEF Active
<1>3. gateTag' # NoTag /\ holder' = holder
  BY <1>1, <1>2, ClientAssumption DEF IInv, HolderTag, Revalidate
<1>4. ~lapsed'
  BY <1>3, BoundAssumption DEF Revalidate, lapsed, GateOpen
<1> QED
  BY <1>1, <1>3, <1>4 DEF Claims!Renew, Revalidate, lapsed

LEMMA ReleaseStep ==
    ASSUME IInv, NEW o \in Op, End(o) PROVE Claims!Release(o)
<1>1. o \in Active /\ Active' = Active \ {o}
  BY DEF End, Active, IInv, TypeOK
<1>2. CASE gateTag = TagOf(o)
  <2>1. holder = o
    BY <1>1, <1>2, AdoptionFree DEF NoAdoption
  <2>2. holder' = None /\ ~lapsed'
    BY <1>2 DEF End, Close, lapsed
  <2> QED BY <1>1, <2>1, <2>2 DEF Claims!Release, End, Close, lapsed
<1>3. CASE gateTag # TagOf(o)
  <2>1. holder # o
    BY <1>3, ClientAssumption DEF IInv, HolderTag
  <2>2. UNCHANGED <<holder, gateTag, heldFor>>
    BY <1>3 DEF End, Close
  <2> QED BY <1>1, <2>1, <2>2 DEF Claims!Release, End, Close, lapsed, GateOpen
<1> QED BY <1>2, <1>3

LEMMA DieStep ==
    ASSUME IInv, NEW o \in Op, Vanish(o) PROVE Claims!Die(o)
<1>1. o \in Active /\ Active' = Active \ {o}
  BY DEF Vanish, Active, IInv, TypeOK
<1> QED BY <1>1 DEF Claims!Die, Vanish, lapsed, GateOpen

LEMMA ReplacedStep == Upsert => Claims!Replaced
BY DEF Upsert, Claims!Replaced, lapsed, Active

LEMMA AgeStep ==
    ASSUME IInv, Tick \/ SetClockBack
    PROVE  [Claims!Next]_(Claims!vars)
<1>1. holder # None /\ UNCHANGED <<holder, epoch, Active>>
  BY DEF Tick, SetClockBack, IInv, HolderTag, Active
<1>2. lapsed' \in BOOLEAN /\ lapsed \in BOOLEAN
  BY DEF lapsed
<1>3. CASE lapsed' = lapsed
  BY <1>1, <1>3 DEF Claims!vars, lapsed
<1>4. CASE lapsed' # lapsed
  BY <1>1, <1>2, <1>4 DEF Claims!Next, Claims!TurnOfClock, lapsed
<1> QED BY <1>3, <1>4

(* The remaining steps move an operation along and touch no claim.         *)
LEMMA QuietStep ==
    ASSUME IInv,
           NEW o \in Op,
           \/ o \in Attempt /\ (Stamp(o) \/ Accept(o))
           \/ Decline(o)
    PROVE  UNCHANGED Claims!vars
<1>1. Active' = Active
  BY DEF Stamp, Accept, Decline, Active, IInv, TypeOK, Op
<1> QED
  BY <1>1 DEF Claims!vars, Stamp, Accept, Decline, lapsed, GateOpen

LEMMA StepRefines == IInv /\ [Next]_vars => [Claims!Next]_(Claims!vars)
<1> SUFFICES ASSUME IInv, [Next]_vars PROVE [Claims!Next]_(Claims!vars)
  OBVIOUS
<1>1. ASSUME NEW a \in Attempt, Stamp(a) \/ Accept(a)
      PROVE  [Claims!Next]_(Claims!vars)
  BY <1>1, QuietStep DEF Op
<1>2. ASSUME NEW a \in Attempt, TopGuard(a) PROVE [Claims!Next]_(Claims!vars)
  <2>1. a \in Active /\ Active' = Active
    BY <1>2 DEF TopGuard, Active, IInv, TypeOK, Op
  <2>2. Claims!Renew(a)
    BY <1>2, <2>1, RenewStep DEF TopGuard
  <2> QED BY <2>2 DEF Claims!Next, Op
<1>3. ASSUME NEW o \in Op, TryOpen(o) PROVE [Claims!Next]_(Claims!vars)
  BY <1>3, ClaimStep DEF Claims!Next
<1>4. ASSUME NEW o \in Op, Decline(o) PROVE [Claims!Next]_(Claims!vars)
  BY <1>4, QuietStep
<1>5. ASSUME NEW o \in Op, Recheck(o) PROVE [Claims!Next]_(Claims!vars)
  <2>1. o \in Active /\ Active' = Active
    BY <1>5 DEF Recheck, Active
  <2>2. Claims!Renew(o)
    BY <1>5, <2>1, RenewStep DEF Recheck
  <2> QED BY <2>2 DEF Claims!Next
<1>6. ASSUME NEW o \in Op, End(o) PROVE [Claims!Next]_(Claims!vars)
  BY <1>6, ReleaseStep DEF Claims!Next
<1>7. ASSUME NEW o \in Op, Vanish(o) PROVE [Claims!Next]_(Claims!vars)
  BY <1>7, DieStep DEF Claims!Next
<1>8. CASE Upsert
  BY <1>8, ReplacedStep DEF Claims!Next
<1>9. CASE Tick \/ SetClockBack
  BY <1>9, AgeStep
<1>10. CASE UNCHANGED vars
  BY <1>10 DEF vars, Claims!vars, GateOpen, Active
<1> QED
  BY <1>1, <1>2, <1>3, <1>4, <1>5, <1>6, <1>7, <1>8, <1>9, <1>10 DEF Next

(* The delivery gate implements the ownership of the input box: a claim is *)
(* granted only while the box is free or its owner's claim has lapsed, and *)
(* no operation's end, renewal or death touches another one's claim.       *)
THEOREM GateImplementsBoxClaim == Spec => ImplementsBoxClaim
<1>1. Init => Claims!Init
  BY DEF Init, Claims!Init, Active
<1>2. IInv /\ [Next]_vars => [Claims!Next]_(Claims!vars)
  BY StepRefines
<1> QED
  BY <1>1, <1>2, Invariance, PTL DEF Spec, ImplementsBoxClaim, Claims!Spec
=============================================================================
