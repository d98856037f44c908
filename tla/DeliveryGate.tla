---------------------------- MODULE DeliveryGate ----------------------------
(***************************************************************************)
(* The delivery gate of one session (SessionRegistry, SessionModels.h):    *)
(* two fields of the session's record, `deliveryPromptId` (the tag of the  *)
(* operation that owns the input box) and `deliveryOpenedUnixMs`, read     *)
(* through DeliveryGateOpen and changed by TryOpenDeliveryGate,            *)
(* RevalidateDeliveryGate, CloseDeliveryGate and an Upsert of the record.  *)
(*                                                                         *)
(* The clients are the calls of SubmitPrompt (`Attempt`, each with the     *)
(* prompt it carries) and the operations that claim the box under a        *)
(* reserved tag (`Reserved`: the mail button's clear, the fork fill).  The *)
(* box latch of the hosting window admits one operation of a reserved tag  *)
(* at a time, so each reserved tag is one client that may run again.       *)
(*                                                                         *)
(* Time is `heldFor`, DeliveryGateOpen's heldForMs: wall clock now minus   *)
(* the stamp.  It saturates at Timeout, where the gate reads closed for    *)
(* good, and a clock set back may make it negative.                        *)
(***************************************************************************)
EXTENDS Integers

CONSTANTS
    Attempt,    \* calls of SubmitPrompt
    Reserved,   \* operations with a reserved gate tag
    Prompt,     \* prompts
    PromptOf,   \* the prompt of each attempt
    NoTag,      \* the empty tag: the gate is closed
    None,       \* nobody
    Timeout,    \* kDeliveryGateTimeoutMs, in ticks
    MaxBack,    \* bound: the furthest a stamp may lie in the future
    MaxSteps,   \* bound: how often the clock is set back
    MaxEpoch    \* bound: how often the record is replaced

Op == Attempt \cup Reserved

ASSUME ClientAssumption ==
    /\ Attempt \cap Reserved = {}
    /\ PromptOf \in [Attempt -> Prompt]
    /\ None \notin Op
    /\ NoTag \notin (Prompt \X Nat) \cup (Reserved \X Nat)

ASSUME BoundAssumption ==
    /\ Timeout \in Nat \ {0}
    /\ MaxBack \in Nat
    /\ MaxSteps \in Nat
    /\ MaxEpoch \in Nat

VARIABLES
    gateTag,    \* SessionInfo::deliveryPromptId
    heldFor,    \* now - SessionInfo::deliveryOpenedUnixMs
    submitSeq,  \* SessionRegistry::_submitSeq
    nonce,      \* PromptSubmission::submitNonce of each attempt (0: not stamped)
    pc,         \* where each operation is
    epoch,      \* how often the session's record was replaced
    steps,      \* how often the clock was set back
    holder      \* history: the operation whose TryOpen the standing tag is from

vars == <<gateTag, heldFor, submitSeq, nonce, pc, epoch, steps, holder>>

(* Mutated forms of TagOf: the tag per prompt the code had before nonces,  *)
(* and a reserved tag that takes the nonce counter too.                    *)
TagOfWithoutNonce(o) == IF o \in Attempt THEN <<PromptOf[o], 0>> ELSE <<o, 0>>
TagOfCounted(o) ==
    IF o \in Attempt THEN <<PromptOf[o], nonce[o]>> ELSE <<o, submitSeq>>

(* DeliveryGateTagFor: the prompt id with the attempt's nonce as suffix; a *)
(* reserved operation's tag is a constant.                                 *)
TagOf(o) == IF o \in Attempt THEN <<PromptOf[o], nonce[o]>> ELSE <<o, 0>>

(* Mutated form of GateOpen: no expiry belt.                               *)
GateOpenForEver == gateTag # NoTag /\ heldFor >= 0

(* DeliveryGateOpen: a gate past its lifetime, or stamped in the future,   *)
(* reads closed.                                                           *)
GateOpen == gateTag # NoTag /\ heldFor >= 0 /\ heldFor < Timeout

Active == {o \in Op : pc[o] \in {"opened", "queued", "typing"}}

Init ==
    /\ gateTag = NoTag
    /\ heldFor = 0
    /\ submitSeq = 0
    /\ nonce = [a \in Attempt |-> 0]
    /\ pc = [o \in Op |-> "idle"]
    /\ epoch = 0
    /\ steps = 0
    /\ holder = None

-----------------------------------------------------------------------------
(* SubmitPrompt stamps the nonce under one hold of the registry's lock ... *)
Stamp(a) ==
    /\ pc[a] = "idle"
    /\ submitSeq' = submitSeq + 1
    /\ nonce' = [nonce EXCEPT ![a] = submitSeq + 1]
    /\ pc' = [pc EXCEPT ![a] = "stamped"]
    /\ UNCHANGED <<gateTag, heldFor, epoch, steps, holder>>

(* ... and opens the gate under another: TryOpenDeliveryGate.  An expired  *)
(* or future-stamped tag is overwritten.                                   *)
TryOpen(o) ==
    /\ pc[o] = IF o \in Attempt THEN "stamped" ELSE "idle"
    /\ ~GateOpen
    /\ gateTag' = TagOf(o)
    /\ heldFor' = 0
    /\ holder' = o
    /\ pc' = [pc EXCEPT ![o] = IF o \in Attempt THEN "opened" ELSE "typing"]
    /\ UNCHANGED <<submitSeq, nonce, epoch, steps>>

(* A held gate declines: the submit's caller rolls the prompt back, the    *)
(* clear or the fill leaves the box alone.                                 *)
Decline(o) ==
    /\ pc[o] = IF o \in Attempt THEN "stamped" ELSE "idle"
    /\ GateOpen
    /\ pc' = [pc EXCEPT ![o] = IF o \in Attempt THEN "done" ELSE "idle"]
    /\ UNCHANGED <<gateTag, heldFor, submitSeq, nonce, epoch, steps, holder>>

(* The window's submitter took the delivery and hops to its UI thread.     *)
Accept(a) ==
    /\ pc[a] = "opened"
    /\ pc' = [pc EXCEPT ![a] = "queued"]
    /\ UNCHANGED <<gateTag, heldFor, submitSeq, nonce, epoch, steps, holder>>

(* RevalidateDeliveryGate: only the tag that still stands is re-stamped,   *)
(* an expired one too.                                                     *)
Revalidate(o) ==
    /\ gateTag = TagOf(o)
    /\ heldFor' = 0
    /\ UNCHANGED <<gateTag, submitSeq, nonce, epoch, steps, holder>>

(* The stale-delivery guard at the top of the delivery ...                 *)
TopGuard(a) ==
    /\ pc[a] = "queued"
    /\ Revalidate(a)
    /\ pc' = [pc EXCEPT ![a] = "typing"]

(* ... and the checks of the verified fill and of each piece of the fork   *)
(* fill.                                                                   *)
Recheck(o) ==
    /\ pc[o] = "typing"
    /\ Revalidate(o)
    /\ UNCHANGED pc

(* Mutated form of Close: the owner is not checked.                        *)
CloseAnyTag(o) ==
    /\ gateTag' = NoTag /\ heldFor' = 0 /\ holder' = None
    /\ UNCHANGED <<submitSeq, nonce, epoch, steps>>

(* CloseDeliveryGate: only the owner's tag is cleared.                     *)
Close(o) ==
    /\ IF gateTag = TagOf(o)
       THEN gateTag' = NoTag /\ heldFor' = 0 /\ holder' = None
       ELSE UNCHANGED <<gateTag, heldFor, holder>>
    /\ UNCHANGED <<submitSeq, nonce, epoch, steps>>

(* Every exit closes: the submitter refused, threw or was never bound      *)
(* ("opened"), the stale guard aborted ("queued"), the operation is done,  *)
(* gave up or noticed that it lost the gate ("typing").                    *)
End(o) ==
    /\ o \in Active
    /\ Close(o)
    /\ pc' = [pc EXCEPT ![o] = IF o \in Attempt THEN "done" ELSE "idle"]

(* The hosting page is torn down under the operation: nothing closes.      *)
Vanish(o) ==
    /\ pc[o] \in {"queued", "typing"}
    /\ pc' = [pc EXCEPT ![o] = IF o \in Attempt THEN "done" ELSE "idle"]
    /\ UNCHANGED <<gateTag, heldFor, submitSeq, nonce, epoch, steps, holder>>

(* Upsert replaces the record and wipes its transient fields.              *)
Upsert ==
    /\ epoch < MaxEpoch
    /\ epoch' = epoch + 1
    /\ gateTag' = NoTag
    /\ heldFor' = 0
    /\ holder' = None
    /\ UNCHANGED <<submitSeq, nonce, pc, steps>>

Tick ==
    /\ gateTag # NoTag
    /\ heldFor < Timeout
    /\ heldFor' = heldFor + 1
    /\ UNCHANGED <<gateTag, submitSeq, nonce, pc, epoch, steps, holder>>

(* The wall clock is set back: the stamp may come to lie in the future,    *)
(* and an expired gate may read open again.                                *)
SetClockBack ==
    /\ gateTag # NoTag
    /\ steps < MaxSteps
    /\ steps' = steps + 1
    /\ heldFor' \in (-MaxBack)..(heldFor - 1)
    /\ UNCHANGED <<gateTag, submitSeq, nonce, pc, epoch, holder>>

Next ==
    \/ \E a \in Attempt : Stamp(a) \/ Accept(a) \/ TopGuard(a)
    \/ \E o \in Op : TryOpen(o) \/ Decline(o) \/ Recheck(o) \/ End(o) \/ Vanish(o)
    \/ Upsert
    \/ Tick
    \/ SetClockBack

(* Time passes; nothing else is promised to happen.                        *)
Spec == Init /\ [][Next]_vars /\ WF_vars(Tick)

-----------------------------------------------------------------------------
TypeOK ==
    /\ gateTag \in (Prompt \X Nat) \cup (Reserved \X {0}) \cup {NoTag}
    /\ heldFor \in (-MaxBack)..Timeout
    /\ submitSeq \in Nat
    /\ nonce \in [Attempt -> Nat]
    /\ pc \in [Op -> {"idle", "stamped", "opened", "queued", "typing", "done"}]
    /\ epoch \in 0..MaxEpoch
    /\ steps \in 0..MaxSteps
    /\ holder \in Op \cup {None}

(* No operation can mistake another one's claim for its own: whenever the  *)
(* standing tag is the one a running operation would revalidate or close,  *)
(* that operation is the one that opened it.  This is what the per-attempt *)
(* nonce of SubmitPrompt is for: a delivery that waited out its gate must  *)
(* not adopt the claim of the resend of the same prompt.                   *)
NoAdoption == \A o \in Active : gateTag = TagOf(o) => holder = o

(* The gate implements the ownership of the box: a claim is granted only   *)
(* on a free or lapsed box, only its owner renews or releases it, and the  *)
(* end of an operation never frees a younger one's claim.                  *)
Claims == INSTANCE BoxClaim WITH
    owner <- holder,
    lapsed <- holder # None /\ ~GateOpen,
    active <- Active

ImplementsBoxClaim == Claims!Spec

(* The expiry belt: a gate whose holder died without closing it reads      *)
(* closed in the end, so a leaked gate cannot keep the box for ever.       *)
LeakedGateExpires == (holder # None /\ holder \notin Active) ~> ~GateOpen
=============================================================================
