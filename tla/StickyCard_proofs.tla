------------------------- MODULE StickyCard_proofs -------------------------
(***************************************************************************)
(* Proofs about StickyCard: its types, whatever coincidences happen; that a  *)
(* post is under way when the record waits for one, that the topic shows one *)
(* card and that no tap is let go before its work is done, with any of the   *)
(* overtakings of one edit by another; and without those, that no message    *)
(* shows an older text again.                                               *)
(***************************************************************************)
EXTENDS StickyCard, FiniteSetTheorems, SequenceTheorems, WellFoundedInduction, TLAPS

----------------------------------------------------------------------------
(***************************************************************************)
(* Types.                                                                   *)
(***************************************************************************)

Prios == {"final", "card"}
ItemSet == [kind : Kinds, session : Nat, msg : Nat, version : Version, prio : Prios,
            holds : SUBSET Tap, form : Forms, keyed : BOOLEAN, flying : BOOLEAN]
LookSet == [session : Nat, msg : Nat \cup {InFlight}, hash : 0..MaxVersion, late : BOOLEAN,
            version : Version, repost : BOOLEAN, taps : SUBSET Tap]
TapSet == [state : {"none", "open", "done", "limit"}, asked : 0..MaxVersion]

Scalars ==
    /\ want \in Version
    /\ rec \in [session : Nat, msg : Nat \cup {InFlight}, hash : 0..MaxVersion, refused : BOOLEAN]
    /\ card \in [seq : Nat, wanted : BOOLEAN, holds : SUBSET Tap]
    /\ look \in [Thread -> LookSet \cup {None}]
    /\ handler \in Tap \cup {None}
    /\ steps \subseteq Updating
    /\ parked \subseteq Kinds /\ pictures \in BOOLEAN
    /\ taps \in [Tap -> TapSet]
    /\ tried \in 0..MaxVersion
    /\ trouble \in Nat

\* A box: an item in each of its places in the order, up to a last one.
IsBox(box) ==
    /\ \E b \in Nat : DOMAIN box \subseteq 1..b
    /\ \A i \in DOMAIN box : box[i] \in ItemSet

\* Every message that an update or a record names was posted.
Named ==
    /\ rec.msg \in DOMAIN chat \cup {InFlight, NoCard}
    /\ \A th \in Thread : look[th] # None => look[th].msg \in DOMAIN chat \cup {InFlight, NoCard}
    /\ \A s \in steps : /\ s.msg \in DOMAIN chat \cup {NoCard}
                        /\ s.kind = "edit" => s.msg # NoCard
ItemsNamed ==
    \A i \in DOMAIN outbox : outbox[i].kind \in {"edit", "del"} => outbox[i].msg \in DOMAIN chat

OneFlies == \A i, j \in DOMAIN outbox : outbox[i].flying /\ outbox[j].flying => i = j

Types ==
    /\ Scalars
    /\ IsBox(outbox)
    /\ chat \in Seq((-MaxVersion)..MaxVersion)
    /\ Named /\ ItemsNamed
    /\ OneFlies

----------------------------------------------------------------------------
(***************************************************************************)
(* The course of an update.                                                 *)
(***************************************************************************)

\* One refresh runs at a time; what it read is still so, or the card is gone.
LookIsFresh ==
    /\ \A th, other \in Thread : look[th] # None /\ look[other] # None => th = other
    /\ look["tick"] # None => look["tick"].taps = {}
    /\ look["poll"] # None => handler # None /\ look["poll"].taps = {handler}
    /\ \A th \in Thread : look[th] # None =>
          /\ look[th].session = rec.session
          /\ rec.msg = InFlight => look[th].msg = InFlight
          /\ \/ look[th].msg \in {InFlight, rec.msg}
             \/ rec.msg = NoCard /\ ~Shows(look[th].msg)

\* Every update with a picture has a number of its own, none above the card's.
StepsInOrder ==
    /\ ~pictures => steps = {}
    /\ \A s \in steps : s.session < rec.session \/ (s.session = rec.session /\ s.seq <= card.seq)
    /\ \A s, r \in steps : s.session = r.session /\ s.seq = r.seq => s = r
ItemsOfSession == \A i \in DOMAIN outbox : outbox[i].session <= rec.session

\* One post is under way when the record says so, and none otherwise.
OnePost ==
    /\ PostIsUnderWay
    /\ \A i \in DOMAIN outbox : outbox[i].kind = "post" => rec.msg = InFlight
    /\ \A i, j \in DOMAIN outbox : outbox[i].kind = "post" /\ outbox[j].kind = "post" => i = j
    /\ \A s \in steps : s.kind = "post" /\ Current(s) =>
          rec.msg = InFlight /\ \A i \in DOMAIN outbox : outbox[i].kind # "post"

\* One delete per session is under way; none before its post is queued.
OneDelete ==
    /\ \A i, j \in DOMAIN outbox :
          /\ outbox[i].kind = "del" /\ outbox[j].kind = "del"
          /\ outbox[i].session = outbox[j].session
          => i = j
    /\ \A s \in steps : s.kind = "post" /\ Current(s) => ~Deleting

\* What is decided later, or stands later in the order, is not older.
Bounds(v) == \A i \in DOMAIN outbox : outbox[i].version <= v
VersionsGrow ==
    /\ Bounds(want)
    /\ \A s \in steps : s.version <= want /\ (Current(s) => Bounds(s.version))
    /\ \A th \in Thread : look[th] # None =>
          /\ look[th].version <= want
          /\ Bounds(look[th].version)
          /\ \A s \in steps : s.version <= look[th].version
    /\ \A i, j \in DOMAIN outbox : i < j => outbox[i].version <= outbox[j].version

\* Of two items with one key the earlier one is on its way.
KeysApart ==
    \A i, j \in DOMAIN outbox : i < j /\ SameKey(outbox[i], outbox[j]) => outbox[i].flying

\* A tap that waits is held by an update that shows what it asked for, or will be.
TapsKnown ==
    /\ \A t \in Tap : taps[t].asked <= want
    /\ \A t \in card.holds : taps[t].state # "none"
    /\ \A th \in Thread : look[th] # None =>
          \A t \in card.holds \cup look[th].taps : taps[t].asked <= look[th].version
Carries(u, t) == t \in u.holds /\ u.version >= taps[t].asked
Carried(t) ==
    \/ handler = t
    \/ t \in card.holds
    \/ \E s \in steps : Carries(s, t)
    \/ \E i \in DOMAIN outbox : outbox[i].kind # "del" /\ Carries(outbox[i], t)
TapsCarried ==
    \A t \in Tap \ excused :
        /\ taps[t].state = "done" => tried >= taps[t].asked
        /\ taps[t].state = "open" => tried >= taps[t].asked \/ Carried(t)

Course ==
    /\ LookIsFresh /\ StepsInOrder /\ ItemsOfSession /\ OnePost /\ OneDelete /\ OneCard
    /\ VersionsGrow /\ KeysApart /\ TapsKnown /\ TapsCarried

----------------------------------------------------------------------------
(***************************************************************************)
(* The order of the edits.                                                  *)
(***************************************************************************)

IsEdit(i) == outbox[i].kind = "edit"

\* An edit at a card's own priority is the session's, and still has its key.
PlainEdits ==
    \A i \in DOMAIN outbox : IsEdit(i) /\ outbox[i].prio = "card" =>
        outbox[i].keyed /\ (outbox[i].flying \/ outbox[i].session = rec.session)
\* An answer's edit comes before an earlier one only while that one is on its way.
NoneOvertaken ==
    \A i, j \in DOMAIN outbox :
        IsEdit(i) /\ IsEdit(j) /\ i < j /\ outbox[i].prio = "card" /\ outbox[j].prio = "final" =>
            outbox[i].flying /\ outbox[j].keyed
FirstFlies ==
    \A i, j \in DOMAIN outbox : IsEdit(i) /\ IsEdit(j) /\ outbox[i].flying => i <= j
SessionsGrow == \A i, j \in DOMAIN outbox : i < j => outbox[i].session <= outbox[j].session

\* No message shows what is newer than an update that may still change it.
ShownBefore(v) == \A m \in DOMAIN chat : chat[m] <= v
ShownGrows ==
    /\ ShownBefore(want)
    /\ \A th \in Thread : look[th] # None => ShownBefore(look[th].version)
    /\ \A s \in steps : Current(s) => ShownBefore(s.version)
    /\ \A i \in DOMAIN outbox : IsEdit(i) => chat[outbox[i].msg] <= outbox[i].version

EditOrder == PlainEdits /\ NoneOvertaken /\ FirstFlies /\ SessionsGrow /\ ShownGrows

----------------------------------------------------------------------------
(***************************************************************************)
(* The outbox's operators.                                                  *)
(***************************************************************************)

\* A set of naturals that is not empty has a least element.
LEMMA LeastNat ==
    ASSUME NEW T, T \subseteq Nat, T # {}
    PROVE  \E x \in T : \A y \in T : x <= y
<1> DEFINE R == {ss \in Nat \X Nat : ss[1] < ss[2]}
<1>1. OpToRel(<, Nat) = {ss \in Nat \X Nat : ss[1] < ss[2]}
  BY DEF OpToRel
<1>2. IsWellFoundedOn(R, Nat)
  BY <1>1, NatLessThanWellFounded
<1>3. \E x \in T : \A y \in T : ~(<<y, x>> \in R)
  <2> HIDE DEF R
  <2> QED BY <1>2, WFMin
<1>4. PICK x \in T : \A y \in T : ~(<<y, x>> \in R)
  BY <1>3
<1>5. ASSUME NEW y \in T PROVE x <= y
  <2>1. ~(<<y, x>> \in R)
    BY <1>4
  <2>2. y \in Nat /\ x \in Nat
    OBVIOUS
  <2>3. CASE y < x
    <3>1. <<y, x>> \in R
      BY <2>2, <2>3, Z3
    <3> QED BY <2>1, <3>1
  <2> QED BY <2>2, <2>3
<1> QED BY <1>5

\* Max of a bounded set of naturals is its greatest element.
LEMMA MaxIs ==
    ASSUME NEW S, S \subseteq Nat, S # {}, NEW b \in Nat, \A x \in S : x <= b
    PROVE  Max(S) \in S /\ \A x \in S : x <= Max(S)
<1> DEFINE U == {u \in Nat : \A m \in S : m <= u}
<1>1. U # {}
  BY b \in U
<1>2. PICK u \in U : \A v \in U : u <= v
  BY <1>1, LeastNat
<1>3. u \in Nat /\ \A m \in S : m <= u
  BY <1>2
<1>4. u \in S
  <2> SUFFICES ASSUME u \notin S PROVE FALSE
    OBVIOUS
  <2>1. PICK x \in S : TRUE
    OBVIOUS
  <2>2. u - 1 \in Nat
    BY <1>3, <2>1
  <2>3. \A m \in S : m <= u - 1
    BY <1>3, <2>2
  <2>4. u - 1 \in U
    BY <2>2, <2>3
  <2>5. u <= u - 1
    BY <1>2, <2>4
  <2> QED BY <1>3, <2>5
<1>5. \E x \in S : \A y \in S : x >= y
  BY <1>3, <1>4
<1>6. Max(S) \in S /\ \A y \in S : Max(S) >= y
  BY <1>5 DEF Max
<1> QED BY <1>6

\* An added item comes after all that the box has.
LEMMA AddedIs ==
    ASSUME NEW box, IsBox(box), NEW item \in ItemSet
    PROVE  /\ IsBox(Added(box, item))
           /\ \E n \in Ids : /\ \A i \in DOMAIN box : i < n
                             /\ DOMAIN Added(box, item) = DOMAIN box \cup {n}
                             /\ Added(box, item)[n] = item
                             /\ \A i \in DOMAIN box : Added(box, item)[i] = box[i]
<1> DEFINE S == {0} \cup DOMAIN box
           n == Max(S) + 1
<1>0. PICK b \in Nat : DOMAIN box \subseteq 1..b
  BY DEF IsBox
<1>1. S \subseteq Nat /\ S # {} /\ \A x \in S : x <= b
  BY <1>0
<1>2. Max(S) \in S /\ \A x \in S : x <= Max(S)
  <2> HIDE DEF S
  <2> QED BY <1>0, <1>1, MaxIs
<1>3. n \in Ids /\ \A i \in DOMAIN box : i < n
  <2> HIDE DEF S
  <2>1. Max(S) \in Nat
    BY <1>1, <1>2
  <2>2. \A i \in DOMAIN box : i \in S /\ i \in Nat
    BY <1>1 DEF S
  <2> QED BY <1>2, <2>1, <2>2 DEF Ids
<1>4. Added(box, item) = [i \in DOMAIN box \cup {n} |-> IF i = n THEN item ELSE box[i]]
  BY DEF Added
<1> HIDE DEF n
<1>5. /\ DOMAIN Added(box, item) = DOMAIN box \cup {n}
      /\ Added(box, item)[n] = item
      /\ \A i \in DOMAIN box : Added(box, item)[i] = box[i]
  <2>1. \A i \in DOMAIN box : i # n
    BY <1>0, <1>3 DEF Ids
  <2> QED BY <1>4, <2>1
<1>6. IsBox(Added(box, item))
  <2>1. DOMAIN box \cup {n} \subseteq 1..n
    BY <1>0, <1>3 DEF Ids
  <2> QED BY <1>3, <1>5, <2>1 DEF IsBox, Ids
<1> QED BY <1>3, <1>5, <1>6

\* Without some of its items a box has the others in their places.
LEMMA WithoutIs ==
    ASSUME NEW box, IsBox(box), NEW gone
    PROVE  /\ IsBox(Without(box, gone))
           /\ DOMAIN Without(box, gone) = DOMAIN box \ gone
           /\ \A i \in DOMAIN box \ gone : Without(box, gone)[i] = box[i]
<1>1. /\ DOMAIN Without(box, gone) = DOMAIN box \ gone
      /\ \A i \in DOMAIN box \ gone : Without(box, gone)[i] = box[i]
  BY DEF Without
<1> QED BY <1>1 DEF IsBox

\* An item that stands for the update u.
IsFor(x, kind, u) ==
    /\ x.kind = kind /\ x.session = u.session /\ x.msg = u.msg /\ x.version = u.version
    /\ x.prio = u.prio /\ x.keyed /\ ~x.flying /\ u.holds \subseteq x.holds

\* An item with all that another has, and maybe more holds.
IsLike(x, new) ==
    /\ x.kind = new.kind /\ x.session = new.session /\ x.msg = new.msg /\ x.version = new.version
    /\ x.prio = new.prio /\ x.keyed = new.keyed /\ x.flying = new.flying
    /\ new.holds \subseteq x.holds

\* What an enqueued item leaves of the box, and what it takes over.
LEMMA EnqueuedIs ==
    ASSUME NEW box, IsBox(box), NEW new \in ItemSet
    PROVE  LET next == Enqueued(box, new)
               old == DOMAIN box \ OlderOf(box, new)
           IN  /\ IsBox(next)
               /\ \E n \in Ids :
                     /\ \A i \in old : i < n
                     /\ DOMAIN next = old \cup {n}
                     /\ \A i \in old : next[i] = box[i]
                     /\ \A i \in DOMAIN box \ old : box[i].holds \subseteq next[n].holds
                     /\ IsLike(next[n], new)
<1> DEFINE old == DOMAIN box \ OlderOf(box, new)
           H == new.holds \cup UNION {box[i].holds : i \in OlderOf(box, new)}
           item == [new EXCEPT !.holds = H]
           rest == Without(box, OlderOf(box, new))
<1>1. Enqueued(box, new) = Added(rest, item)
  BY DEF Enqueued
<1>2. IsBox(rest) /\ DOMAIN rest = old /\ \A i \in old : rest[i] = box[i]
  BY WithoutIs
<1>3. H \in SUBSET Tap
  <2>1. \A i \in OlderOf(box, new) : box[i].holds \subseteq Tap
    BY DEF IsBox, OlderOf, ItemSet
  <2> QED BY <2>1 DEF ItemSet
<1>4. \A i \in DOMAIN box \ old : box[i].holds \subseteq H
  OBVIOUS
<1> HIDE DEF H, rest
<1>5. item \in ItemSet /\ item.holds = H
  BY <1>3 DEF ItemSet
<1>6. IsLike(item, new)
  <2>1. new.holds \subseteq H
    BY DEF H
  <2> QED BY <2>1 DEF IsLike, ItemSet
<1> HIDE DEF item
<1>7. PICK n \in Ids : /\ \A i \in DOMAIN rest : i < n
                       /\ DOMAIN Added(rest, item) = DOMAIN rest \cup {n}
                       /\ Added(rest, item)[n] = item
                       /\ \A i \in DOMAIN rest : Added(rest, item)[i] = rest[i]
  BY <1>2, <1>5, AddedIs
<1>8. IsBox(Added(rest, item))
  BY <1>2, <1>5, AddedIs
<1> HIDE DEF old
<1>10. /\ \A i \in old : i < n
       /\ DOMAIN Enqueued(box, new) = old \cup {n}
       /\ \A i \in old : Enqueued(box, new)[i] = box[i]
       /\ \A i \in DOMAIN box \ old : box[i].holds \subseteq Enqueued(box, new)[n].holds
       /\ IsLike(Enqueued(box, new)[n], new)
  BY <1>1, <1>2, <1>4, <1>5, <1>6, <1>7
<1> QED BY <1>1, <1>8, <1>10 DEF old

\* The box after an update u was queued: the items at `old` stay, the update is
\* at n and, unless d = n, the delete of the old card is before it at d.
Joins(box, next, u, old, d, n) ==
    /\ old \subseteq DOMAIN box /\ d \in Ids /\ n \in Ids /\ d <= n
    /\ DOMAIN next = old \cup {d, n}
    /\ \A i \in old : i < d /\ next[i] = box[i]
    /\ IsFor(next[n], u.kind, u)
    /\ d # n => u.kind = "post" /\ u.msg # NoCard /\ IsFor(next[d], "del", u)
    /\ u.kind = "post" /\ u.msg # NoCard => d # n
    /\ \A i \in DOMAIN box \ old :
          /\ box[i].session = u.session /\ ~box[i].flying
          /\ \/ box[i].kind = u.kind /\ box[i].holds \subseteq next[n].holds
             \/ box[i].kind = "del" /\ d # n
    /\ \A i \in old : ~(box[i].keyed /\ ~box[i].flying /\ box[i].kind = u.kind /\ box[i].session = u.session)

\* The item that is made of an update.
LEMMA ItemIs ==
    ASSUME NEW u \in Updating, NEW kind \in Kinds, NEW form \in Forms
    PROVE  Item(kind, u, form) \in ItemSet /\ IsFor(Item(kind, u, form), kind, u)
  BY DEF Item, ItemSet, Updating, IsFor, Ids, NoCard, Prios

\* What a queued update leaves of the box.
LEMMA QueuedIs ==
    ASSUME IsBox(outbox), NEW u \in Updating, NEW form \in Forms, Queues(u, form)
    PROVE  /\ IsBox(outbox')
           /\ \E old, d, n : Joins(outbox, outbox', u, old, d, n)
<1> DEFINE last == Item(u.kind, u, form)
           del == Item("del", u, "classic")
<1>0. u.kind \in Kinds /\ "del" \in Kinds /\ "classic" \in Forms
  BY DEF Updating, Kinds, Forms
<1>1. last \in ItemSet /\ IsFor(last, u.kind, u) /\ del \in ItemSet /\ IsFor(del, "del", u)
  BY <1>0, ItemIs
<1>2. CASE u.kind = "post" /\ u.msg # NoCard
  <2> DEFINE mid == Enqueued(outbox, del)
             old1 == DOMAIN outbox \ OlderOf(outbox, del)
             old2 == DOMAIN mid \ OlderOf(mid, last)
  <2>1. outbox' = Enqueued(mid, last)
    BY <1>2 DEF Queues, CardDeleted
  <2>2. IsBox(mid)
    BY <1>1, EnqueuedIs
  <2>3. PICK d \in Ids :
          /\ \A i \in old1 : i < d
          /\ DOMAIN mid = old1 \cup {d}
          /\ \A i \in old1 : mid[i] = outbox[i]
          /\ IsLike(mid[d], del)
    <3> HIDE DEF del
    <3> QED BY <1>1, EnqueuedIs
  <2>4. IsFor(mid[d], "del", u)
    BY <1>1, <2>3 DEF IsLike, IsFor
  <2>5. IsBox(outbox')
    BY <1>1, <2>1, <2>2, EnqueuedIs
  <2>6. PICK n \in Ids :
          /\ \A i \in old2 : i < n
          /\ DOMAIN outbox' = old2 \cup {n}
          /\ \A i \in old2 : outbox'[i] = mid[i]
          /\ \A i \in DOMAIN mid \ old2 : mid[i].holds \subseteq outbox'[n].holds
          /\ IsLike(outbox'[n], last)
    <3> HIDE DEF mid, last
    <3> QED BY <1>1, <2>1, <2>2, EnqueuedIs
  <2>7. IsFor(outbox'[n], u.kind, u)
    <3> HIDE DEF last
    <3> QED BY <1>1, <2>6 DEF IsLike, IsFor
  <2>8. \A i \in OlderOf(outbox, del) : /\ outbox[i].session = u.session /\ ~outbox[i].flying
                                     /\ outbox[i].kind = "del"
    BY <1>1 DEF OlderOf, Replaced, SameKey, IsFor
  <2>9. /\ OlderOf(mid, last) \subseteq DOMAIN mid
        /\ \A i \in DOMAIN mid : i \in OlderOf(mid, last) <=>
              mid[i].keyed /\ ~mid[i].flying /\ mid[i].kind = u.kind /\ mid[i].session = u.session
    BY <1>1, <1>2 DEF OlderOf, Replaced, SameKey, IsFor
  <2> DEFINE old == old2 \ {d}
  <2>10. d \in old2 /\ d < n /\ d # n
    BY <1>2, <2>3, <2>4, <2>6, <2>9 DEF IsFor, Ids
  <2>11. old \subseteq old1 /\ DOMAIN outbox' = old \cup {d, n}
    BY <2>3, <2>6, <2>10
  <2> HIDE DEF mid, last, del
  <2>12. /\ \A i \in old : i < d /\ outbox'[i] = outbox[i]
         /\ outbox'[d] = mid[d] /\ old \subseteq DOMAIN outbox
    BY <2>3, <2>6, <2>10, <2>11
  <2>13. ASSUME NEW i \in DOMAIN outbox \ old
         PROVE  /\ outbox[i].session = u.session /\ ~outbox[i].flying
                /\ \/ outbox[i].kind = u.kind /\ outbox[i].holds \subseteq outbox'[n].holds
                   \/ outbox[i].kind = "del"
    <3>1. CASE i \in OlderOf(outbox, del)
      BY <2>8, <3>1
    <3>2. CASE i \notin OlderOf(outbox, del)
      <4>1. i \in old1 /\ mid[i] = outbox[i] /\ i \in DOMAIN mid
        BY <2>3, <3>2
      <4>2. i # d
        BY <2>3, <4>1 DEF Ids
      <4>3. i \in OlderOf(mid, last)
        BY <4>1, <4>2
      <4> QED BY <2>6, <2>9, <4>1, <4>3
    <3> QED BY <3>1, <3>2
  <2>14. \A i \in old : ~(outbox[i].keyed /\ ~outbox[i].flying /\ outbox[i].kind = u.kind /\ outbox[i].session = u.session)
    BY <2>3, <2>9, <2>11
  <2>15. d <= n /\ n \in Ids /\ d \in Ids
    BY <2>10, <2>3, <2>6 DEF Ids
  <2> HIDE DEF old, old1, old2
  <2>16. Joins(outbox, outbox', u, old, d, n)
    BY <1>2, <2>4, <2>7, <2>10, <2>11, <2>12, <2>13, <2>14, <2>15 DEF Joins
  <2> QED BY <2>5, <2>16
<1>3. CASE ~(u.kind = "post" /\ u.msg # NoCard)
  <2> DEFINE old == DOMAIN outbox \ OlderOf(outbox, last)
  <2>1. outbox' = Enqueued(outbox, last)
    BY <1>3 DEF Queues, CardDeleted
  <2>2. IsBox(outbox')
    BY <1>1, <2>1, EnqueuedIs
  <2>3. PICK n \in Ids :
          /\ \A i \in old : i < n
          /\ DOMAIN outbox' = old \cup {n}
          /\ \A i \in old : outbox'[i] = outbox[i]
          /\ \A i \in DOMAIN outbox \ old : outbox[i].holds \subseteq outbox'[n].holds
          /\ IsLike(outbox'[n], last)
    <3> HIDE DEF last
    <3> QED BY <1>1, <2>1, EnqueuedIs
  <2>4. IsFor(outbox'[n], u.kind, u)
    <3> HIDE DEF last
    <3> QED BY <1>1, <2>3 DEF IsLike, IsFor
  <2>5. \A i \in DOMAIN outbox : i \in OlderOf(outbox, last) <=>
           outbox[i].keyed /\ ~outbox[i].flying /\ outbox[i].kind = u.kind /\ outbox[i].session = u.session
    BY <1>1 DEF OlderOf, Replaced, SameKey, IsFor
  <2>6. n <= n
    BY DEF Ids
  <2> HIDE DEF last
  <2>7. Joins(outbox, outbox', u, old, n, n)
    BY <1>3, <2>3, <2>4, <2>5, <2>6 DEF Joins
  <2> QED BY <2>2, <2>7
<1> QED BY <1>2, <1>3

\* What no step changes of an item in the outbox.
Alike(x, y) ==
    /\ x.kind = y.kind /\ x.session = y.session /\ x.msg = y.msg
    /\ x.version = y.version /\ x.prio = y.prio

\* An item in its place is on its way (1) or is not (0).
Marked(box, i, b) == [box EXCEPT ![i].flying = (b = 1)]
LEMMA MarkedIs ==
    ASSUME NEW box, IsBox(box), NEW i \in DOMAIN box, NEW b \in {0, 1},
           NEW next, next = Marked(box, i, b)
    PROVE  /\ IsBox(next)
           /\ DOMAIN next = DOMAIN box
           /\ \A j \in DOMAIN box \ {i} : next[j] = box[j]
           /\ Alike(next[i], box[i]) /\ (next[i].flying <=> b = 1)
           /\ next[i].keyed = box[i].keyed /\ next[i].holds = box[i].holds
<1> DEFINE x == box[i]
           y == [x EXCEPT !.flying = (b = 1)]
<1>0. next = [box EXCEPT ![i] = y]
  BY DEF Marked
<1>1. x \in ItemSet
  BY DEF IsBox
<1> HIDE DEF x
<1>2. y \in ItemSet /\ Alike(y, x) /\ y.keyed = x.keyed /\ y.holds = x.holds
  BY <1>1 DEF ItemSet, Alike
<1>3. y.flying <=> b = 1
  BY <1>1 DEF ItemSet
<1> HIDE DEF y
<1>4. DOMAIN next = DOMAIN box /\ next[i] = y /\ \A j \in DOMAIN box \ {i} : next[j] = box[j]
  BY <1>0
<1>5. IsBox(next)
  BY <1>2, <1>4 DEF IsBox
<1> QED BY <1>2, <1>3, <1>4, <1>5 DEF x

\* A put-back item is in its place again, or the newer one with its key has its
\* holds.
IsPutBack(box, next, i) ==
    \/ /\ \A j \in DOMAIN box : j # i => ~SameKey(box[i], box[j])
       /\ DOMAIN next = DOMAIN box
       /\ \A j \in DOMAIN box \ {i} : next[j] = box[j]
       /\ Alike(next[i], box[i]) /\ ~next[i].flying
       /\ next[i].keyed = box[i].keyed /\ next[i].holds = box[i].holds
    \/ \E j \in DOMAIN box :
          /\ j # i /\ SameKey(box[i], box[j])
          /\ DOMAIN next = DOMAIN box \ {i}
          /\ \A k \in DOMAIN next : k # j => next[k] = box[k]
          /\ Alike(next[j], box[j]) /\ next[j].flying = box[j].flying
          /\ next[j].keyed = box[j].keyed
          /\ next[j].holds = box[j].holds \cup box[i].holds

LEMMA PutBackIs ==
    ASSUME IsBox(outbox), NEW i \in DOMAIN outbox
    PROVE  IsBox(PutBack(i)) /\ IsPutBack(outbox, PutBack(i), i)
<1> DEFINE newer == {j \in DOMAIN outbox : j # i /\ SameKey(outbox[i], outbox[j])}
<1>1. CASE newer = {}
  <2>1. PutBack(i) = [outbox EXCEPT ![i].flying = FALSE]
    BY <1>1 DEF PutBack
  <2>2. \A j \in DOMAIN outbox : j # i => ~SameKey(outbox[i], outbox[j])
    BY <1>1
  <2> DEFINE next == PutBack(i)
  <2>3. next = Marked(outbox, i, 0)
    <3>1. (0 = 1) = FALSE
      OBVIOUS
    <3> QED BY <2>1, <3>1, Zenon DEF Marked
  <2> HIDE DEF newer, next
  <2>4. /\ IsBox(next)
        /\ DOMAIN next = DOMAIN outbox
        /\ Alike(next[i], outbox[i]) /\ ~next[i].flying
        /\ next[i].keyed = outbox[i].keyed /\ next[i].holds = outbox[i].holds
    BY <2>3, MarkedIs
  <2>5. ASSUME NEW j \in DOMAIN outbox \ {i} PROVE next[j] = outbox[j]
    BY <2>3, MarkedIs
  <2>6. IsBox(next) /\ IsPutBack(outbox, next, i)
    BY <2>2, <2>4, <2>5 DEF IsPutBack
  <2> QED BY <2>6 DEF next
<1>2. CASE newer # {}
  <2> DEFINE j == CHOOSE k \in newer : TRUE
  <2>1. j \in newer
    BY <1>2
  <2>2. PutBack(i) = Without([outbox EXCEPT ![j].holds = @ \cup outbox[i].holds], {i})
    BY <1>2 DEF PutBack
  <2>3. j \in DOMAIN outbox /\ j # i /\ SameKey(outbox[i], outbox[j])
    BY <2>1
  <2> HIDE DEF j, newer
  <2> DEFINE x == outbox[j]
             h == x.holds \cup outbox[i].holds
             y == [x EXCEPT !.holds = h]
             mid == [outbox EXCEPT ![j] = y]
  <2>4. x \in ItemSet /\ h \in SUBSET Tap
    BY <2>3 DEF IsBox, ItemSet
  <2>5. mid = [outbox EXCEPT ![j].holds = @ \cup outbox[i].holds]
    OBVIOUS
  <2> HIDE DEF x, h
  <2>6. y \in ItemSet /\ Alike(y, x) /\ y.keyed = x.keyed /\ y.flying = x.flying /\ y.holds = h
    BY <2>4 DEF ItemSet, Alike
  <2> HIDE DEF y
  <2>7. DOMAIN mid = DOMAIN outbox /\ mid[j] = y /\ \A k \in DOMAIN outbox : k # j => mid[k] = outbox[k]
    BY <2>3
  <2> HIDE DEF mid
  <2>8. IsBox(mid)
    BY <2>6, <2>7 DEF IsBox
  <2>9. /\ IsBox(Without(mid, {i}))
        /\ DOMAIN Without(mid, {i}) = DOMAIN mid \ {i}
        /\ \A k \in DOMAIN mid \ {i} : Without(mid, {i})[k] = mid[k]
    BY <2>8, WithoutIs, Zenon
  <2>10. IsPutBack(outbox, Without(mid, {i}), i)
    BY <2>3, <2>6, <2>7, <2>9 DEF IsPutBack, x, h
  <2> QED BY <2>2, <2>5, <2>9, <2>10
<1> QED BY <1>1, <1>2

\* A refused item is in its place, plainer and without its key.
Plainer(box, i, form) ==
    [box EXCEPT ![i] = [box[i] EXCEPT !.flying = FALSE, !.keyed = FALSE, !.form = form]]
LEMMA PlainerIs ==
    ASSUME NEW box, IsBox(box), NEW i \in DOMAIN box, NEW form \in Forms, NEW next,
           next = Plainer(box, i, form)
    PROVE  /\ IsBox(next)
           /\ DOMAIN next = DOMAIN box
           /\ \A j \in DOMAIN box \ {i} : next[j] = box[j]
           /\ Alike(next[i], box[i]) /\ ~next[i].flying
           /\ ~next[i].keyed /\ next[i].holds = box[i].holds
<1> DEFINE x == box[i]
           y == [x EXCEPT !.flying = FALSE, !.keyed = FALSE, !.form = form]
<1>0. next = [box EXCEPT ![i] = y]
  BY DEF Plainer
<1>1. x \in ItemSet
  BY DEF IsBox
<1> HIDE DEF x
<1>2. y \in ItemSet /\ Alike(y, x) /\ ~y.keyed /\ ~y.flying /\ y.holds = x.holds
  BY <1>1 DEF ItemSet, Alike
<1> HIDE DEF y
<1>3. DOMAIN next = DOMAIN box /\ next[i] = y /\ \A j \in DOMAIN box \ {i} : next[j] = box[j]
  BY <1>0
<1>4. IsBox(next)
  BY <1>2, <1>3 DEF IsBox
<1> QED BY <1>2, <1>3, <1>4 DEF x

----------------------------------------------------------------------------
(***************************************************************************)
(* Types, step by step.                                                     *)
(***************************************************************************)

LEMMA TypesInit == Init => Types
<1> SUFFICES ASSUME Init PROVE Types
  OBVIOUS
<1>1. Scalars
  BY CardAssumption DEF Init, Scalars, NewCard, Version, NoCard, InFlight, Thread, TapSet
<1>2. outbox = << >> /\ chat = << >> /\ steps = {} /\ rec.msg = NoCard /\ \A th \in Thread : look[th] = None
  BY DEF Init
<1>3. IsBox(outbox)
  BY <1>2 DEF IsBox
<1>4. chat \in Seq((-MaxVersion)..MaxVersion) /\ Named /\ ItemsNamed /\ OneFlies
  BY <1>2 DEF Named, ItemsNamed, OneFlies
<1> QED BY <1>1, <1>3, <1>4 DEF Types

\* A queued update keeps the box's invariants.
LEMMA TypesQueued ==
    ASSUME Types, NEW u \in Updating, NEW form \in Forms, Queues(u, form),
           u.msg \in DOMAIN chat \cup {NoCard}, u.kind = "edit" => u.msg # NoCard, UNCHANGED chat
    PROVE  IsBox(outbox)' /\ ItemsNamed' /\ OneFlies'
<1>1. IsBox(outbox)'
  BY QueuedIs DEF Types
<1>2. PICK old, d, n : Joins(outbox, outbox', u, old, d, n)
  BY QueuedIs DEF Types
<1>3. ASSUME NEW i \in DOMAIN outbox'
      PROVE  /\ outbox'[i].kind \in {"edit", "del"} => outbox'[i].msg \in DOMAIN chat
             /\ outbox'[i].flying => i \in old
  <2>1. CASE i \in old
    BY <1>2, <2>1 DEF Joins, Types, ItemsNamed
  <2>2. CASE i = n
    <3>1. u.kind \in {"post", "edit"}
      BY DEF Updating
    <3> QED BY <1>2, <2>2, <3>1 DEF Joins, IsFor
  <2>3. CASE i = d /\ d # n
    BY <1>2, <2>3 DEF Joins, IsFor
  <2> QED BY <1>2, <2>1, <2>2, <2>3 DEF Joins
<1>4. ItemsNamed'
  BY <1>3 DEF ItemsNamed
<1>5. OneFlies'
  BY <1>2, <1>3 DEF OneFlies, Joins, Types
<1> QED BY <1>1, <1>4, <1>5

\* What an update that a look leads to consists of.
LEMMA UpdateIs ==
    ASSUME Scalars, NEW kind \in {"post", "edit"}, NEW th \in Thread, look[th] # None,
           look[th].msg # InFlight
    PROVE  /\ Update(kind, look[th]) \in Updating
           /\ Update(kind, look[th]).kind = kind
           /\ Update(kind, look[th]).session = look[th].session
           /\ Update(kind, look[th]).msg = look[th].msg
           /\ Update(kind, look[th]).version = look[th].version
           /\ Update(kind, look[th]).seq = card.seq + 1
           /\ Update(kind, look[th]).holds = (look[th].taps \cup card.holds) \cap Open
           /\ Update(kind, look[th]).prio = "card" => card.holds = {} /\ look[th].taps = {}
<1> DEFINE l == look[th]
<1>1. l \in LookSet /\ card.seq + 1 \in Nat /\ l.msg # InFlight /\ Open \subseteq Tap
  BY DEF Scalars, Open
<1> HIDE DEF l
<1>2. l.session \in Nat /\ l.version \in Version /\ l.msg \in Ids \cup {NoCard}
  BY <1>1 DEF LookSet, Ids, NoCard, InFlight
<1>3. (l.taps \cup card.holds) \cap Open \in SUBSET Tap
  BY <1>1
<1>4. /\ Update(kind, l) \in Updating
      /\ Update(kind, l).kind = kind
      /\ Update(kind, l).session = l.session
      /\ Update(kind, l).msg = l.msg
      /\ Update(kind, l).version = l.version
      /\ Update(kind, l).seq = card.seq + 1
      /\ Update(kind, l).holds = (l.taps \cup card.holds) \cap Open
      /\ Update(kind, l).prio = "card" => card.holds = {} /\ l.taps = {}
  BY <1>1, <1>2, <1>3 DEF Update, Updating
<1> QED BY <1>4 DEF l

\* The two ways of an update: it waits for its picture, or it is queued.
LEMMA UpdatesIs ==
    ASSUME NEW u, NEW reads \in BOOLEAN, Updates(u, reads)
    PROVE  \/ pictures /\ steps' = steps \cup {u} /\ UNCHANGED outbox
           \/ /\ UNCHANGED steps
              /\ \E form \in Forms : Queues(u, form)
  BY DEF Updates, Forms

LEMMA TypesLooks ==
    ASSUME Types, NEW th \in Thread, Looks(th)
    PROVE  Types'
<1>1. UNCHANGED <<want, rec, handler, steps, outbox, parked, pictures, chat, taps, tried, excused, stray, trouble>>
  BY DEF Looks
<1>2. look' = [look EXCEPT ![th] = LookedAt(th)] /\ card' = [card EXCEPT !.holds = @ \cap Open]
  BY DEF Looks
<1>3. LookedAt(th) \in LookSet /\ LookedAt(th).msg = rec.msg
  <2>1. th = "poll" => {handler} \in SUBSET Tap
    BY DEF Looks, Types, Scalars
  <2>2. rec.session \in Nat /\ rec.msg \in Nat \cup {InFlight} /\ rec.hash \in 0..MaxVersion
        /\ rec.refused \in BOOLEAN /\ want \in Version /\ card.wanted \in BOOLEAN
    BY DEF Types, Scalars
  <2> QED BY <2>1, <2>2 DEF LookedAt, LookSet
<1>4. Scalars'
  <2>1. look' \in [Thread -> LookSet \cup {None}]
    BY <1>2, <1>3 DEF Types, Scalars
  <2>2. card' \in [seq : Nat, wanted : BOOLEAN, holds : SUBSET Tap]
    BY <1>2 DEF Types, Scalars
  <2> QED BY <1>1, <2>1, <2>2 DEF Types, Scalars
<1>5. Named'
  <2>1. \A other \in Thread : other # th => look'[other] = look[other]
    BY <1>2 DEF Types, Scalars
  <2>2. look'[th] = LookedAt(th)
    BY <1>2 DEF Types, Scalars
  <2> QED BY <1>1, <1>3, <2>1, <2>2 DEF Types, Named
<1> QED BY <1>1, <1>4, <1>5 DEF Types, ItemsNamed, OneFlies, IsBox

\* A decision: the look is over, and so is a tap's handler.
LEMMA TypesEnds ==
    ASSUME Scalars, NEW th \in Thread, Ends(th)
    PROVE  /\ look' \in [Thread -> LookSet \cup {None}] /\ handler' \in Tap \cup {None}
           /\ look'[th] = None /\ \A other \in Thread : other # th => look'[other] = look[other]
  BY DEF Ends, Scalars

\* The names that a decision leaves are named still.
LEMMA NamedEnds ==
    ASSUME Types, NEW th \in Thread, Ends(th), UNCHANGED chat, rec'.msg \in {rec.msg, InFlight},
           \A s \in steps' \ steps :
              s.msg \in DOMAIN chat \cup {NoCard} /\ (s.kind = "edit" => s.msg # NoCard)
    PROVE  Named'
<1>1. look'[th] = None /\ \A other \in Thread : other # th => look'[other] = look[other]
  BY TypesEnds DEF Types
<1>2. rec'.msg \in DOMAIN chat \cup {InFlight, NoCard}
  BY DEF Types, Named
<1>3. ASSUME NEW other \in Thread, look'[other] # None
      PROVE  look'[other].msg \in DOMAIN chat \cup {InFlight, NoCard}
  BY <1>1, <1>3 DEF Types, Named
<1>4. ASSUME NEW s \in steps' PROVE s.msg \in DOMAIN chat \cup {NoCard} /\ (s.kind = "edit" => s.msg # NoCard)
  BY DEF Types, Named
<1> QED BY <1>2, <1>3, <1>4 DEF Named

LEMMA TypesWaits ==
    ASSUME Types, NEW th \in Thread, Waits(th) \/ Leaves(th)
    PROVE  Types'
<1>1. UNCHANGED <<want, rec, steps, outbox, parked, pictures, chat, taps, tried, stray, trouble>> /\ Ends(th)
  BY DEF Waits, Leaves
<1>2. card' \in [seq : Nat, wanted : BOOLEAN, holds : SUBSET Tap]
  <2>1. CASE Waits(th)
    <3>1. card.holds \cup (look[th].taps \cap Open) \in SUBSET Tap
      BY DEF Types, Scalars, Open
    <3>2. card' = [card EXCEPT !.holds = @ \cup (look[th].taps \cap Open)]
      BY <2>1 DEF Waits
    <3> QED BY <3>1, <3>2 DEF Types, Scalars
  <2>2. CASE Leaves(th)
    BY <2>2 DEF Leaves, Types, Scalars
  <2> QED BY <2>1, <2>2
<1>3. Scalars'
  BY <1>1, <1>2, TypesEnds DEF Types, Scalars
<1>4. Named'
  BY <1>1, NamedEnds
<1> QED BY <1>1, <1>3, <1>4 DEF Types, ItemsNamed, OneFlies, IsBox

LEMMA TypesDecides ==
    ASSUME Types, NEW th \in Thread, Posts(th) \/ Edits(th)
    PROVE  Types'
<1>1. UNCHANGED <<want, parked, pictures, chat, taps, tried, stray, trouble>> /\ Ends(th) /\ look[th] # None
  BY DEF Posts, Edits
<1>2. look[th] \in LookSet /\ look[th].msg \in DOMAIN chat \cup {InFlight, NoCard}
  BY <1>1 DEF Types, Scalars, Named
<1>3. look[th].msg # InFlight
  BY DEF Posts, Edits, MustPost, MustEdit, MustWait
<1>4. PICK kind \in {"post", "edit"}, reads \in BOOLEAN :
        Updates(Update(kind, look[th]), reads) /\ (kind = "edit" => look[th].msg # NoCard)
  BY DEF Posts, Edits, MustEdit, MustPost, MustWait
<1> DEFINE u == Update(kind, look[th])
<1>5. /\ u \in Updating /\ u.msg \in DOMAIN chat \cup {NoCard}
      /\ u.kind = "edit" => u.msg # NoCard
  BY <1>1, <1>2, <1>3, <1>4, UpdateIs DEF Types
<1> HIDE DEF u
<1>6. /\ steps' = steps \cup {u} \/ steps' = steps
      /\ IsBox(outbox)' /\ ItemsNamed' /\ OneFlies'
  <2>1. CASE steps' = steps \cup {u} /\ UNCHANGED outbox
    BY <1>1, <2>1 DEF Types, ItemsNamed, OneFlies, IsBox
  <2>2. CASE UNCHANGED steps /\ \E form \in Forms : Queues(u, form)
    BY <1>1, <1>5, <2>2, TypesQueued
  <2>3. \/ pictures /\ steps' = steps \cup {u} /\ UNCHANGED outbox
        \/ UNCHANGED steps /\ \E form \in Forms : Queues(u, form)
    BY <1>4, UpdatesIs DEF u
  <2> QED BY <2>1, <2>2, <2>3
<1>7. /\ rec' \in [session : Nat, msg : Nat \cup {InFlight}, hash : 0..MaxVersion, refused : BOOLEAN]
      /\ rec'.msg \in {rec.msg, InFlight}
  <2>1. look[th].version \in 0..MaxVersion
    BY <1>2, CardAssumption DEF LookSet, Version
  <2>2. \/ rec' = [rec EXCEPT !.msg = InFlight, !.hash = look[th].version]
        \/ rec' = [rec EXCEPT !.hash = look[th].version]
    BY DEF Posts, Edits
  <2> QED BY <2>1, <2>2 DEF Types, Scalars
<1>8. card' \in [seq : Nat, wanted : BOOLEAN, holds : SUBSET Tap]
  <2> DEFINE q == IF pictures THEN card.seq + 1 ELSE card.seq
  <2>1. q \in Nat
    BY DEF Types, Scalars
  <2>2. card' = [card EXCEPT !.wanted = FALSE, !.holds = {}, !.seq = q] \/ card' = [card EXCEPT !.holds = {}, !.seq = q]
    BY DEF Posts, Edits
  <2> HIDE DEF q
  <2> QED BY <2>1, <2>2 DEF Types, Scalars
<1>9. Scalars'
  BY <1>1, <1>5, <1>6, <1>7, <1>8, TypesEnds DEF Types, Scalars
<1>10. Named'
  BY <1>1, <1>5, <1>6, <1>7, NamedEnds
<1> QED BY <1>1, <1>6, <1>9, <1>10 DEF Types

LEMMA TypesSettles ==
    ASSUME Types, NEW s \in steps, Settles(s)
    PROVE  Types'
<1>1. UNCHANGED <<want, card, look, handler, parked, pictures, chat, taps, tried, stray, trouble>>
      /\ steps' = steps \ {s}
  BY DEF Settles
<1>2. s \in Updating /\ s.msg \in DOMAIN chat \cup {NoCard} /\ (s.kind = "edit" => s.msg # NoCard)
  BY DEF Types, Scalars, Named
<1>3. /\ rec' \in [session : Nat, msg : Nat \cup {InFlight}, hash : 0..MaxVersion, refused : BOOLEAN]
      /\ rec'.msg \in {rec.msg, InFlight}
  <2>1. s.version \in 0..MaxVersion
    BY <1>2, CardAssumption DEF Updating, Version
  <2>2. rec' = [rec EXCEPT !.msg = InFlight, !.hash = s.version] \/ rec' = rec
    BY DEF Settles
  <2> QED BY <2>1, <2>2 DEF Types, Scalars
<1>4. IsBox(outbox)' /\ ItemsNamed' /\ OneFlies'
  <2>1. CASE Current(s)
    <3> DEFINE u == [s EXCEPT !.holds = @ \cap Open]
    <3>1. Queues(u, "pictured") /\ "pictured" \in Forms
      BY <2>1 DEF Settles, Forms
    <3>2. u \in Updating /\ u.msg = s.msg /\ u.kind = s.kind
      BY <1>2 DEF Updating
    <3> HIDE DEF u
    <3> QED BY <1>1, <1>2, <3>1, <3>2, TypesQueued
  <2>2. CASE ~Current(s)
    BY <1>1, <2>2 DEF Settles, Types, ItemsNamed, OneFlies, IsBox
  <2> QED BY <2>1, <2>2
<1>5. Scalars'
  BY <1>1, <1>3 DEF Types, Scalars
<1>6. Named'
  BY <1>1, <1>3 DEF Types, Named
<1> QED BY <1>1, <1>4, <1>5, <1>6 DEF Types

\* What the send loop's items may become.
Rests(next) ==
    /\ DOMAIN next \subseteq DOMAIN outbox
    /\ \A i \in DOMAIN next : Alike(next[i], outbox[i]) /\ (next[i].flying => outbox[i].flying)

LEMMA TypesRests ==
    ASSUME Types, IsBox(outbox'), Rests(outbox'), DOMAIN chat \subseteq DOMAIN chat'
    PROVE  ItemsNamed' /\ OneFlies'
  BY DEF Types, Rests, Alike, ItemsNamed, OneFlies

LEMMA TypesTakes ==
    ASSUME Types, Takes
    PROVE  Types'
<1>1. PICK i \in Ready : outbox' = [outbox EXCEPT ![i].flying = TRUE]
  BY DEF Takes
<1>2. outbox' = Marked(outbox, i, 1)
  <2>1. (1 = 1) = TRUE
    OBVIOUS
  <2> QED BY <1>1, <2>1, Zenon DEF Marked
<1>3. i \in DOMAIN outbox /\ 1 \in {0, 1} /\ IsBox(outbox)
  BY DEF Ready, Types
<1>4. /\ IsBox(outbox)' /\ DOMAIN outbox' = DOMAIN outbox /\ Alike(outbox'[i], outbox[i])
      /\ \A j \in DOMAIN outbox \ {i} : outbox'[j] = outbox[j]
  BY <1>2, <1>3, MarkedIs
<1>5. \A j \in DOMAIN outbox : ~outbox[j].flying
  BY DEF Takes, Flying
<1>6. UNCHANGED <<want, rec, card, look, handler, steps, parked, pictures, chat, taps, tried, excused, stray, trouble>>
  BY DEF Takes
<1>7. ItemsNamed'
  BY <1>4, <1>6 DEF Types, ItemsNamed, Alike
<1>8. OneFlies'
  BY <1>4, <1>5 DEF OneFlies
<1> QED BY <1>4, <1>6, <1>7, <1>8 DEF Types, Scalars, Named

\* What remains of the outbox after an answer.
LEMMA AnsweredIs ==
    ASSUME IsBox(outbox), NEW i \in DOMAIN outbox, Taken(i) \/ Failed(i) \/ Refused(i) \/ Parked(i)
    PROVE  IsBox(outbox)' /\ Rests(outbox')
<1>1. ASSUME outbox' = Without(outbox, {i})
      PROVE  IsBox(outbox)' /\ Rests(outbox')
  <2>1. /\ IsBox(outbox') /\ DOMAIN outbox' = DOMAIN outbox \ {i}
        /\ \A j \in DOMAIN outbox \ {i} : outbox'[j] = outbox[j]
    BY <1>1, WithoutIs, Zenon
  <2> QED BY <2>1 DEF Rests, Alike
<1>2. ASSUME Refused(i)
      PROVE  IsBox(outbox)' /\ Rests(outbox')
  <2> DEFINE form == IF outbox[i].form = "pictured" THEN "rich" ELSE "classic"
  <2>1. form \in Forms
    BY DEF Forms
  <2>2. outbox' = Plainer(outbox, i, form)
    BY <1>2 DEF Refused, Plainer
  <2> HIDE DEF form
  <2>3. /\ IsBox(outbox') /\ DOMAIN outbox' = DOMAIN outbox
        /\ \A j \in DOMAIN outbox \ {i} : outbox'[j] = outbox[j]
        /\ Alike(outbox'[i], outbox[i]) /\ ~outbox'[i].flying
    BY <2>1, <2>2, PlainerIs
  <2> QED BY <2>3 DEF Rests, Alike
<1>3. ASSUME Parked(i)
      PROVE  IsBox(outbox)' /\ Rests(outbox')
  <2>1. IsBox(outbox') /\ IsPutBack(outbox, outbox', i)
    BY <1>3, PutBackIs DEF Parked
  <2> QED BY <2>1 DEF IsPutBack, Rests, Alike
<1> QED BY <1>1, <1>2, <1>3 DEF Taken, Failed

LEMMA TypesAnswers ==
    ASSUME Types, Answers
    PROVE  Types'
<1>1. PICK i \in Flying : Taken(i) \/ Failed(i) \/ Refused(i) \/ Parked(i)
  BY DEF Answers
<1>2. i \in DOMAIN outbox /\ IsBox(outbox) /\ outbox[i] \in ItemSet
  BY DEF Flying, Types, IsBox
<1>3. UNCHANGED <<want, card, look, handler, steps, pictures, taps, excused, stray>>
  BY DEF Answers
<1>4. IsBox(outbox)' /\ Rests(outbox')
  BY <1>1, <1>2, AnsweredIs
<1>5. /\ chat' \in Seq((-MaxVersion)..MaxVersion) /\ DOMAIN chat \subseteq DOMAIN chat'
      /\ rec' \in [session : Nat, msg : Nat \cup {InFlight}, hash : 0..MaxVersion, refused : BOOLEAN]
      /\ rec'.msg \in DOMAIN chat' \cup {InFlight, NoCard}
  <2> DEFINE u == outbox[i]
  <2>0. /\ u.version \in (-MaxVersion)..MaxVersion /\ 0 \in (-MaxVersion)..MaxVersion
        /\ rec \in [session : Nat, msg : Nat \cup {InFlight}, hash : 0..MaxVersion, refused : BOOLEAN]
        /\ chat \in Seq((-MaxVersion)..MaxVersion)
        /\ rec.msg \in DOMAIN chat \cup {InFlight, NoCard}
    BY <1>2, CardAssumption DEF Types, Scalars, Named, ItemSet, Version
  <2> HIDE DEF u
  <2>1. ASSUME NEW v \in (-MaxVersion)..MaxVersion, NEW m
        PROVE  /\ [chat EXCEPT ![m] = v] \in Seq((-MaxVersion)..MaxVersion)
               /\ DOMAIN [chat EXCEPT ![m] = v] = DOMAIN chat
    <3> DEFINE V == (-MaxVersion)..MaxVersion
               next == [chat EXCEPT ![m] = v]
    <3>1. chat \in Seq(V) /\ v \in V
      BY <2>0
    <3> HIDE DEF V
    <3>2. chat \in [1..Len(chat) -> V] /\ Len(chat) \in Nat
      BY <3>1
    <3>3. next \in [1..Len(chat) -> V]
      BY <3>1, <3>2
    <3>4. next \in Seq(V) /\ DOMAIN next = DOMAIN chat
      <4> HIDE DEF next
      <4> QED BY <3>2, <3>3, SeqDef
    <3> QED BY <3>4 DEF V
  <2>2. /\ Append(chat, u.version) \in Seq((-MaxVersion)..MaxVersion)
        /\ DOMAIN Append(chat, u.version) = 1..(Len(chat) + 1)
        /\ DOMAIN chat = 1..Len(chat) /\ Len(chat) \in Nat
    <3> DEFINE V == (-MaxVersion)..MaxVersion
               v == u.version
    <3>1. chat \in Seq(V) /\ v \in V
      BY <2>0
    <3> HIDE DEF V, v
    <3>2. /\ Append(chat, v) \in Seq(V)
          /\ DOMAIN Append(chat, v) = 1..(Len(chat) + 1)
          /\ DOMAIN chat = 1..Len(chat) /\ Len(chat) \in Nat
      BY <3>1
    <3> QED BY <3>2 DEF V, v
  <2>3. ASSUME NEW msg \in Nat, NEW late \in BOOLEAN
        PROVE  /\ Posted(u, msg, late) \in [session : Nat, msg : Nat \cup {InFlight}, hash : 0..MaxVersion, refused : BOOLEAN]
               /\ Posted(u, msg, late).msg = msg
    BY <2>0 DEF Posted
  <2>4. /\ NotFound(u) \in [session : Nat, msg : Nat \cup {InFlight}, hash : 0..MaxVersion, refused : BOOLEAN]
        /\ NotFound(u).msg \in {rec.msg, NoCard}
    <3>1. 0 \in 0..MaxVersion /\ NoCard \in Nat
      BY CardAssumption DEF NoCard
    <3>2. CASE rec.msg = u.msg
      <4>1. NotFound(u) = [rec EXCEPT !.msg = NoCard, !.hash = 0, !.refused = FALSE]
        BY <3>2 DEF NotFound
      <4> QED BY <2>0, <3>1, <4>1
    <3>3. CASE rec.msg # u.msg
      BY <2>0, <3>3 DEF NotFound
    <3> QED BY <3>2, <3>3
  <2>5. NoCard \in Nat /\ Len(chat) + 1 \in Nat /\ TRUE \in BOOLEAN /\ FALSE \in BOOLEAN
    BY <2>2 DEF NoCard
  <2>6. \/ chat' = chat \/ chat' = Append(chat, u.version)
        \/ chat' = [chat EXCEPT ![u.msg] = u.version] \/ chat' = [chat EXCEPT ![u.msg] = 0]
    BY <1>1 DEF Taken, Failed, Refused, Parked, u
  <2>7. \/ rec' = rec \/ rec' = NotFound(u) \/ rec' = Posted(u, NoCard, TRUE)
        \/ rec' = Posted(u, Len(chat) + 1, FALSE) /\ chat' = Append(chat, u.version)
    BY <1>1 DEF Taken, Failed, Refused, Parked, u
  <2>8. chat' \in Seq((-MaxVersion)..MaxVersion) /\ DOMAIN chat \subseteq DOMAIN chat'
    BY <2>0, <2>1, <2>2, <2>6
  <2>9. CASE rec' = rec \/ rec' = NotFound(u)
    BY <2>0, <2>4, <2>8, <2>9
  <2>10. CASE rec' = Posted(u, NoCard, TRUE)
    BY <2>3, <2>5, <2>8, <2>10
  <2>11. CASE rec' = Posted(u, Len(chat) + 1, FALSE) /\ chat' = Append(chat, u.version)
    <3>1. rec' \in [session : Nat, msg : Nat \cup {InFlight}, hash : 0..MaxVersion, refused : BOOLEAN]
          /\ rec'.msg = Len(chat) + 1
      BY <2>3, <2>5, <2>11
    <3>2. Len(chat) + 1 \in DOMAIN chat'
      BY <2>2, <2>11
    <3> QED BY <2>8, <3>1, <3>2
  <2> QED BY <2>7, <2>9, <2>10, <2>11
<1>6. tried' \in 0..MaxVersion
  <2>1. outbox[i].version \in 0..MaxVersion
    BY <1>2, CardAssumption DEF ItemSet, Version
  <2>2. tried' \in {tried, outbox[i].version}
    BY <1>1 DEF Taken, Failed, Refused, Parked
  <2> QED BY <2>1, <2>2 DEF Types, Scalars
<1>7. parked' \subseteq Kinds /\ trouble' \in Nat
  <2>1. outbox[i].kind \in Kinds
    BY <1>2 DEF ItemSet
  <2>2. parked' \in {parked, {outbox[i].kind}, Kinds}
    BY <1>1 DEF Taken, Failed, Refused, Parked
  <2>3. trouble' \in {trouble, trouble + 1}
    BY <1>1 DEF Taken, Failed, Refused, Parked, Goes
  <2> QED BY <2>1, <2>2, <2>3 DEF Types, Scalars
<1>8. Scalars'
  BY <1>3, <1>5, <1>6, <1>7 DEF Types, Scalars
<1>9. Named'
  BY <1>3, <1>5 DEF Types, Named
<1>10. ItemsNamed' /\ OneFlies'
  BY <1>4, <1>5, TypesRests
<1> QED BY <1>4, <1>5, <1>8, <1>9, <1>10 DEF Types

\* The steps that leave the card, the looks and the outbox alone.
LEMMA TypesQuiet ==
    ASSUME Types,
           Unparks \/ Retries \/ Changes \/ Pushed \/ Switches \/ \E t \in Tap : TapFlips(t) \/ TapDone(t) \/ TapLimit(t)
    PROVE  Types'
<1>1. UNCHANGED <<look, steps, outbox, chat, tried>> /\ rec'.msg = rec.msg
  BY DEF Unparks, Retries, Changes, Pushed, Switches, TapFlips, TapDone, TapLimit, Types, Scalars
<1>2. want' \in Version
  BY CardAssumption DEF Unparks, Retries, Changes, Pushed, Switches, TapFlips, TapDone, TapLimit, Types, Scalars, Version
<1>3. rec' \in [session : Nat, msg : Nat \cup {InFlight}, hash : 0..MaxVersion, refused : BOOLEAN]
  BY DEF Unparks, Retries, Changes, Pushed, Switches, TapFlips, TapDone, TapLimit, Types, Scalars
<1>4. card' \in [seq : Nat, wanted : BOOLEAN, holds : SUBSET Tap]
  BY DEF Unparks, Retries, Changes, Pushed, Switches, TapFlips, TapDone, TapLimit, Types, Scalars
<1>5. handler' \in Tap \cup {None} /\ parked' \subseteq Kinds
  BY DEF Unparks, Retries, Changes, Pushed, Switches, TapFlips, TapDone, TapLimit, Types, Scalars
<1>6. pictures' \in BOOLEAN
  BY DEF Unparks, Retries, Changes, Pushed, Switches, TapFlips, TapDone, TapLimit, Types, Scalars
<1>7. trouble' \in Nat
  BY DEF Unparks, Retries, Changes, Pushed, Switches, TapFlips, TapDone, TapLimit, Types, Scalars, Goes
<1>8. taps' \in [Tap -> TapSet]
  <2>1. CASE UNCHANGED taps
    BY <2>1 DEF Types, Scalars
  <2>2. ASSUME NEW t \in Tap, TapFlips(t) PROVE taps' \in [Tap -> TapSet]
    <3>1. want + 1 \in 0..MaxVersion
      BY <2>2, CardAssumption DEF TapFlips, Types, Scalars, Version
    <3>2. [state |-> "open", asked |-> want + 1] \in TapSet
      BY <3>1 DEF TapSet
    <3>3. taps' = [taps EXCEPT ![t] = [state |-> "open", asked |-> want + 1]]
      BY <2>2 DEF TapFlips
    <3> QED BY <3>2, <3>3 DEF Types, Scalars
  <2>3. ASSUME NEW t \in Tap, TapDone(t) \/ TapLimit(t) PROVE taps' \in [Tap -> TapSet]
    <3>1. taps \in [Tap -> TapSet]
      BY DEF Types, Scalars
    <3>2. PICK state \in {"done", "limit"} : taps' = [taps EXCEPT ![t].state = state]
      BY <2>3 DEF TapDone, TapLimit
    <3>3. [taps[t] EXCEPT !.state = state] \in TapSet
      BY <3>1 DEF TapSet
    <3>4. taps' = [taps EXCEPT ![t] = [taps[t] EXCEPT !.state = state]]
      BY <3>2
    <3> DEFINE x == [taps[t] EXCEPT !.state = state]
    <3> HIDE DEF x
    <3>5. taps' = [taps EXCEPT ![t] = x] /\ x \in TapSet
      BY <3>3, <3>4 DEF x
    <3> QED BY <3>1, <3>5
  <2> QED BY <2>1, <2>2, <2>3 DEF Unparks, Retries, Changes, Pushed, Switches
<1>9. Scalars'
  BY <1>1, <1>2, <1>3, <1>4, <1>5, <1>6, <1>7, <1>8 DEF Types, Scalars
<1>10. Named'
  BY <1>1 DEF Types, Named
<1> QED BY <1>1, <1>9, <1>10 DEF Types, IsBox, ItemsNamed, OneFlies

LEMMA TypesDeletes ==
    ASSUME Types, Deletes
    PROVE  Types'
<1>1. UNCHANGED <<want, rec, card, look, handler, steps, outbox, parked, pictures, taps, tried, excused, stray>>
      /\ rec.msg \in DOMAIN chat /\ chat' = [chat EXCEPT ![rec.msg] = -chat[rec.msg]]
  BY DEF Deletes, Shows
<1>2. chat' \in Seq((-MaxVersion)..MaxVersion) /\ DOMAIN chat' = DOMAIN chat
  <2> DEFINE V == (-MaxVersion)..MaxVersion
             m == rec.msg
  <2>1. chat \in Seq(V)
    BY DEF Types
  <2>2. \A v \in V : -v \in V
    BY CardAssumption
  <2> HIDE DEF V, m
  <2>3. chat \in [1..Len(chat) -> V] /\ Len(chat) \in Nat
    BY <2>1
  <2>4. m \in DOMAIN chat /\ chat' = [chat EXCEPT ![m] = -chat[m]]
    BY <1>1 DEF m
  <2>5. -chat[m] \in V
    BY <2>2, <2>3, <2>4
  <2>6. chat' \in [1..Len(chat) -> V]
    BY <2>3, <2>4, <2>5
  <2>7. chat' \in Seq(V) /\ DOMAIN chat' = DOMAIN chat
    BY <2>3, <2>6, SeqDef
  <2> QED BY <2>7 DEF V
<1>3. trouble' \in Nat
  BY DEF Deletes, Goes, Types, Scalars
<1> QED BY <1>1, <1>2, <1>3 DEF Types, Scalars, Named, IsBox, ItemsNamed, OneFlies

LEMMA NewCardIs == NewCard \in [seq : Nat, wanted : BOOLEAN, holds : SUBSET Tap] /\ NewCard.holds = {} /\ NewCard.seq = 0
  BY DEF NewCard

LEMMA TypesRekeys ==
    ASSUME Types, Rekeys
    PROVE  Types'
<1>1. UNCHANGED <<handler, steps, parked, pictures, chat, taps, tried, stray>>
  BY DEF Rekeys
<1>2. IsBox(outbox)' /\ Rests(outbox')
  <2>1. outbox' = Without(outbox, Dropped) /\ IsBox(outbox)
    BY DEF Rekeys, Types
  <2>2. /\ IsBox(outbox') /\ DOMAIN outbox' = DOMAIN outbox \ Dropped
        /\ \A j \in DOMAIN outbox \ Dropped : outbox'[j] = outbox[j]
    BY <2>1, WithoutIs, Zenon
  <2> QED BY <2>2 DEF Rests, Alike
<1>3. rec' \in [session : Nat, msg : Nat \cup {InFlight}, hash : 0..MaxVersion, refused : BOOLEAN]
      /\ rec'.msg = rec.msg
  <2> DEFINE n == rec.session + 1
             V == 0..MaxVersion
  <2>1. rec' = [rec EXCEPT !.session = n, !.hash = 0]
    BY DEF Rekeys
  <2>2. rec \in [session : Nat, msg : Nat \cup {InFlight}, hash : V, refused : BOOLEAN] /\ 0 \in V /\ n \in Nat
    BY CardAssumption DEF Types, Scalars
  <2> HIDE DEF n, V
  <2>3. rec' \in [session : Nat, msg : Nat \cup {InFlight}, hash : V, refused : BOOLEAN] /\ rec'.msg = rec.msg
    BY <2>1, <2>2
  <2> QED BY <2>3 DEF V
<1>4. want' \in Version /\ trouble' \in Nat
  BY CardAssumption DEF Rekeys, Goes, Types, Scalars, Version
<1>5. PICK l : /\ look' = [look EXCEPT !["tick"] = l] /\ l \in LookSet /\ l.msg = rec.msg
  <2> DEFINE l == [session |-> rec.session + 1, msg |-> rec.msg, hash |-> 0, late |-> rec.refused,
                   version |-> want + 1, repost |-> FALSE, taps |-> {}]
  <2>1. look' = [look EXCEPT !["tick"] = l]
    BY DEF Rekeys
  <2>2. /\ rec.session + 1 \in Nat /\ rec.msg \in Nat \cup {InFlight} /\ 0 \in 0..MaxVersion
        /\ rec.refused \in BOOLEAN /\ want + 1 \in Version
    BY CardAssumption DEF Rekeys, Types, Scalars, Version
  <2>3. l \in LookSet /\ l.msg = rec.msg
    BY <2>2 DEF LookSet
  <2> HIDE DEF l
  <2> QED BY <2>1, <2>3
<1>6. /\ look' \in [Thread -> LookSet \cup {None}] /\ look'["tick"].msg = rec.msg
      /\ \A th \in Thread : th # "tick" => look'[th] = look[th]
  BY <1>5 DEF Types, Scalars, Thread
<1>7. card' \in [seq : Nat, wanted : BOOLEAN, holds : SUBSET Tap]
  BY NewCardIs DEF Rekeys
<1>8. Scalars'
  BY <1>1, <1>3, <1>4, <1>6, <1>7 DEF Types, Scalars
<1>9. Named'
  BY <1>1, <1>3, <1>6 DEF Types, Named
<1>10. ItemsNamed' /\ OneFlies'
  BY <1>1, <1>2, TypesRests
<1> QED BY <1>1, <1>2, <1>8, <1>9, <1>10 DEF Types

LEMMA TypesRestarts ==
    ASSUME Types, Restarts
    PROVE  Types'
<1>1. UNCHANGED <<want, look, handler, steps, parked, pictures, chat, taps, tried>> /\ outbox' = << >>
  BY DEF Restarts
<1>2. IsBox(outbox)' /\ ItemsNamed' /\ OneFlies'
  BY <1>1 DEF IsBox, ItemsNamed, OneFlies
<1>3. rec' \in [session : Nat, msg : Nat \cup {InFlight}, hash : 0..MaxVersion, refused : BOOLEAN]
      /\ rec'.msg \in {rec.msg, NoCard}
  <2>1. rec' = [rec EXCEPT !.msg = NoCard] \/ rec' = [rec EXCEPT !.msg = rec.msg]
    BY DEF Restarts
  <2> QED BY <2>1 DEF Types, Scalars, NoCard
<1>4. card' \in [seq : Nat, wanted : BOOLEAN, holds : SUBSET Tap] /\ trouble' \in Nat
  BY NewCardIs DEF Restarts, Goes, Types, Scalars
<1>5. Scalars'
  BY <1>1, <1>3, <1>4 DEF Types, Scalars
<1>6. Named'
  BY <1>1, <1>3 DEF Types, Named
<1> QED BY <1>1, <1>2, <1>5, <1>6 DEF Types

LEMMA TypesNext == Types /\ [Next]_vars => Types'
<1> SUFFICES ASSUME Types, [Next]_vars PROVE Types'
  OBVIOUS
<1>1. ASSUME NEW th \in Thread, Looks(th) PROVE Types'
  BY <1>1, TypesLooks
<1>2. ASSUME NEW th \in Thread, Decides(th) PROVE Types'
  BY <1>2, TypesWaits, TypesDecides DEF Decides
<1>3. ASSUME NEW s \in steps, Settles(s) PROVE Types'
  BY <1>3, TypesSettles
<1>4. CASE Takes
  BY <1>4, TypesTakes
<1>5. CASE Answers
  BY <1>5, TypesAnswers
<1>6. CASE Unparks \/ Retries \/ Changes \/ Pushed \/ Switches
  BY <1>6, TypesQuiet
<1>7. ASSUME NEW t \in Tap, TapFlips(t) \/ TapDone(t) \/ TapLimit(t) PROVE Types'
  BY <1>7, TypesQuiet
<1>8. CASE Deletes
  BY <1>8, TypesDeletes
<1>9. CASE Rekeys
  BY <1>9, TypesRekeys
<1>10. CASE Restarts
  BY <1>10, TypesRestarts
<1>11. CASE UNCHANGED vars
  BY <1>11 DEF vars, Types, Scalars, Named, IsBox, ItemsNamed, OneFlies
<1> QED BY <1>1, <1>2, <1>3, <1>4, <1>5, <1>6, <1>7, <1>8, <1>9, <1>10, <1>11 DEF Next

\* The types hold, whatever coincidences happen: every message that an edit or a
\* delete names was posted, and one call at a time is on its way.
THEOREM TypeCorrect == Spec => []TypeOK
<1>1. Types => TypeOK
  <2> SUFFICES ASSUME Types PROVE TypeOK
    OBVIOUS
  <2>1. Cardinality(Flying) <= 1
    <3>1. CASE Flying = {}
      BY <3>1, FS_EmptySet
    <3>2. CASE Flying # {}
      <4>1. PICK i \in Flying : TRUE
        BY <3>2
      <4>2. Flying = {i}
        BY <4>1 DEF Types, OneFlies, Flying
      <4> QED BY <4>2, FS_Singleton
    <3> QED BY <3>1, <3>2
  <2>2. rec \in [session : Nat, msg : Ids \cup {InFlight, NoCard}, hash : 0..MaxVersion, refused : BOOLEAN]
    BY DEF Types, Scalars, Ids, NoCard
  <2>3. \A i \in DOMAIN outbox :
          /\ outbox[i].kind \in Kinds /\ outbox[i].form \in Forms /\ outbox[i].holds \subseteq Tap
          /\ outbox[i].version \in Version
          /\ outbox[i].kind \in {"edit", "del"} => outbox[i].msg \in DOMAIN chat
    BY DEF Types, IsBox, ItemSet, ItemsNamed
  <2>4. \A m \in DOMAIN chat : chat[m] \in (-MaxVersion)..MaxVersion
    <3> DEFINE V == (-MaxVersion)..MaxVersion
    <3>1. chat \in Seq(V)
      BY DEF Types
    <3> HIDE DEF V
    <3>2. \A m \in DOMAIN chat : chat[m] \in V
      BY <3>1
    <3> QED BY <3>2 DEF V
  <2>5. \A t \in Tap : taps[t].state \in {"none", "open", "done", "limit"} /\ taps[t].asked \in 0..MaxVersion
    BY DEF Types, Scalars, TapSet
  <2> QED BY <2>1, <2>2, <2>3, <2>4, <2>5 DEF Types, Scalars, TypeOK
<1> QED BY <1>1, TypesInit, TypesNext, PTL DEF Spec

----------------------------------------------------------------------------
(***************************************************************************)
(* The course of an update, step by step.                                   *)
(***************************************************************************)

Numbers ==
    /\ want \in Nat /\ rec.session \in Nat /\ card.seq \in Nat /\ tried \in Nat
    /\ \A th \in Thread : look[th] # None => look[th].version \in Nat
    /\ \A s \in steps : s.version \in Nat /\ s.session \in Nat /\ s.seq \in Nat
    /\ \A i \in DOMAIN outbox : i \in Nat /\ outbox[i].version \in Nat /\ outbox[i].session \in Nat
    /\ \A t \in Tap : taps[t].asked \in Nat
    /\ InFlight \notin DOMAIN chat /\ NoCard \notin DOMAIN chat /\ InFlight # NoCard
    /\ \A m \in DOMAIN chat : chat[m] \in Int

LEMMA NumbersAre == Types => Numbers
<1> SUFFICES ASSUME Types PROVE Numbers
  OBVIOUS
<1>1. Version \subseteq Nat /\ 0..MaxVersion \subseteq Nat
  BY CardAssumption DEF Version
<1>2. want \in Nat /\ rec.session \in Nat /\ card.seq \in Nat /\ tried \in Nat
  BY <1>1 DEF Types, Scalars
<1>3. \A th \in Thread : look[th] # None => look[th].version \in Nat
  BY <1>1 DEF Types, Scalars, LookSet
<1>4. \A s \in steps : s.version \in Nat /\ s.session \in Nat /\ s.seq \in Nat
  BY <1>1 DEF Types, Scalars, Updating
<1>5. \A i \in DOMAIN outbox : i \in Nat /\ outbox[i].version \in Nat /\ outbox[i].session \in Nat
  <2>1. PICK b \in Nat : DOMAIN outbox \subseteq 1..b
    BY DEF Types, IsBox
  <2>2. \A i \in DOMAIN outbox : outbox[i] \in ItemSet
    BY DEF Types, IsBox
  <2>3. \A x \in ItemSet : x.version \in Nat /\ x.session \in Nat
    BY <1>1 DEF ItemSet
  <2> QED BY <2>1, <2>2, <2>3
<1>6. \A t \in Tap : taps[t].asked \in Nat
  BY <1>1 DEF Types, Scalars, TapSet
<1>7. /\ InFlight \notin DOMAIN chat /\ NoCard \notin DOMAIN chat /\ InFlight # NoCard
      /\ \A m \in DOMAIN chat : chat[m] \in Int
  <2> DEFINE V == (-MaxVersion)..MaxVersion
  <2>1. chat \in Seq(V) /\ V \subseteq Int
    BY DEF Types
  <2> HIDE DEF V
  <2>2. DOMAIN chat = 1..Len(chat) /\ Len(chat) \in Nat /\ \A m \in DOMAIN chat : chat[m] \in V
    BY <2>1
  <2>3. \A m \in DOMAIN chat : chat[m] \in Int
    BY <2>1, <2>2
  <2>4. InFlight \notin DOMAIN chat /\ NoCard \notin DOMAIN chat /\ InFlight # NoCard
    BY <2>2 DEF InFlight, NoCard
  <2> QED BY <2>3, <2>4
<1> QED BY <1>2, <1>3, <1>4, <1>5, <1>6, <1>7 DEF Numbers

LEMMA NumbersAfter == Types' => Numbers'
  BY NumbersAre, PTL

LEMMA CourseInit == Init => Course
<1> SUFFICES ASSUME Init PROVE Course
  OBVIOUS
<1>1. /\ outbox = << >> /\ chat = << >> /\ steps = {} /\ rec.msg = NoCard /\ rec.session = 0
      /\ \A th \in Thread : look[th] = None
      /\ card.holds = {} /\ \A t \in Tap : taps[t].state = "none" /\ taps[t].asked = 0
      /\ want = 1
  BY NewCardIs DEF Init
<1>2. DOMAIN outbox = {} /\ DOMAIN chat = {} /\ InFlight # NoCard
  BY <1>1 DEF InFlight, NoCard
<1>3. LookIsFresh
  BY <1>1 DEF LookIsFresh, Thread
<1>4. StepsInOrder /\ ItemsOfSession /\ OnePost /\ OneDelete /\ OneCard /\ VersionsGrow /\ KeysApart
  BY <1>1, <1>2 DEF StepsInOrder, ItemsOfSession, OnePost, PostIsUnderWay, OneDelete, OneCard,
                    VersionsGrow, Bounds, KeysApart
<1>5. TapsKnown /\ TapsCarried
  BY <1>1 DEF TapsKnown, TapsCarried
<1> QED BY <1>3, <1>4, <1>5 DEF Course

\* The steps that leave looks, steps, the outbox and the chat alone.
LEMMA CourseQuiet ==
    ASSUME Types, Types', Course, Races \subseteq {"overtake"},
           Unparks \/ Retries \/ Changes \/ Pushed \/ Switches
    PROVE  Course'
<1>1. UNCHANGED <<look, handler, steps, outbox, chat, taps, tried, excused, stray>>
  BY DEF Unparks, Retries, Changes, Pushed, Switches
<1>2. rec'.session = rec.session /\ rec'.msg = rec.msg
  BY DEF Unparks, Retries, Changes, Pushed, Switches, Types, Scalars
<1>3. card'.seq = card.seq /\ card'.holds = card.holds
  BY DEF Unparks, Retries, Changes, Pushed, Switches, Types, Scalars
<1>4. want <= want'
  BY NumbersAre DEF Unparks, Retries, Changes, Pushed, Switches, Numbers
<1>5. ~pictures' => steps = {}
  BY DEF Unparks, Retries, Changes, Pushed, Switches, Course, StepsInOrder
<1>6. Numbers /\ Numbers'
  BY NumbersAre, NumbersAfter
<1>7. (LookIsFresh /\ StepsInOrder /\ ItemsOfSession)'
  BY <1>1, <1>2, <1>3, <1>5 DEF Course, LookIsFresh, Shows, StepsInOrder, ItemsOfSession
<1>8. (OnePost /\ OneDelete /\ OneCard /\ KeysApart)'
  BY <1>1, <1>2, <1>3 DEF Course, OnePost, PostIsUnderWay, Current, OneDelete, Deleting, OneCard, Shows, KeysApart
<1>9. VersionsGrow'
  BY <1>1, <1>2, <1>3, <1>4, <1>6 DEF Course, VersionsGrow, Bounds, Current, Numbers
<1>10. TapsKnown'
  BY <1>1, <1>3, <1>4, <1>6 DEF Course, TapsKnown, Numbers
<1>11. TapsCarried'
  BY <1>1, <1>3 DEF Course, TapsCarried, Carried, Carries
<1> QED BY <1>7, <1>8, <1>9, <1>10, <1>11 DEF Course

\* The taps' own steps.
LEMMA TapIs ==
    ASSUME Types, NEW t \in Tap, TapFlips(t) \/ TapDone(t) \/ TapLimit(t)
    PROVE  /\ \A r \in Tap : r # t => taps'[r] = taps[r]
           /\ TapFlips(t) => taps'[t].state = "open" /\ taps'[t].asked = want + 1
           /\ TapDone(t) => taps'[t].state = "done" /\ taps'[t].asked = taps[t].asked
           /\ TapLimit(t) => taps'[t].state = "limit" /\ taps'[t].asked = taps[t].asked
<1>1. taps \in [Tap -> TapSet]
  BY DEF Types, Scalars
<1>2. ASSUME TapFlips(t)
      PROVE  taps'[t].state = "open" /\ taps'[t].asked = want + 1 /\ \A r \in Tap : r # t => taps'[r] = taps[r]
  <2>1. taps' = [taps EXCEPT ![t] = [state |-> "open", asked |-> want + 1]] /\ taps[t].state = "none"
    BY <1>2 DEF TapFlips
  <2> QED BY <1>1, <2>1
<1>3. ASSUME NEW state, taps' = [taps EXCEPT ![t].state = state]
      PROVE  taps'[t].state = state /\ taps'[t].asked = taps[t].asked /\ \A r \in Tap : r # t => taps'[r] = taps[r]
  <2> DEFINE x == [taps[t] EXCEPT !.state = state]
  <2>1. taps[t] \in TapSet
    BY <1>1
  <2>2. x.state = state /\ x.asked = taps[t].asked
    BY <2>1 DEF TapSet
  <2>3. taps' = [taps EXCEPT ![t] = x]
    BY <1>3
  <2> HIDE DEF x
  <2> QED BY <1>1, <2>2, <2>3
<1>4. ASSUME TapDone(t)
      PROVE  taps'[t].state = "done" /\ taps'[t].asked = taps[t].asked /\ \A r \in Tap : r # t => taps'[r] = taps[r]
  <2>1. taps' = [taps EXCEPT ![t].state = "done"] /\ taps[t].state = "open"
    BY <1>4 DEF TapDone, Open
  <2>2. taps'[t].state = "done" /\ taps'[t].asked = taps[t].asked /\ \A r \in Tap : r # t => taps'[r] = taps[r]
    BY <1>3, <2>1
  <2> QED BY <2>2
<1>5. ASSUME TapLimit(t)
      PROVE  taps'[t].state = "limit" /\ taps'[t].asked = taps[t].asked /\ \A r \in Tap : r # t => taps'[r] = taps[r]
  <2>1. taps' = [taps EXCEPT ![t].state = "limit"] /\ taps[t].state = "open"
    BY <1>5 DEF TapLimit, Open
  <2>2. taps'[t].state = "limit" /\ taps'[t].asked = taps[t].asked /\ \A r \in Tap : r # t => taps'[r] = taps[r]
    BY <1>3, <2>1
  <2> QED BY <2>2
<1> QED BY <1>2, <1>4, <1>5

LEMMA CourseTaps ==
    ASSUME Types, Types', Course, NEW t \in Tap, TapFlips(t) \/ TapDone(t) \/ TapLimit(t)
    PROVE  Course'
<1>1. UNCHANGED <<rec, card, look, steps, outbox, pictures, chat, tried, excused, stray>>
  BY DEF TapFlips, TapDone, TapLimit
<1>2. /\ TapFlips(t) => handler = None /\ handler' = t /\ want' = want + 1 /\ taps[t].state = "none"
      /\ ~TapFlips(t) => handler' = handler /\ want' = want
  BY DEF TapFlips, TapDone, TapLimit
<1>3. Numbers /\ Numbers'
  BY NumbersAre, NumbersAfter
<1>4. want <= want'
  BY <1>2, <1>3 DEF Numbers
<1>5. LookIsFresh'
  BY <1>1, <1>2 DEF Course, LookIsFresh, Shows
<1>6. (StepsInOrder /\ ItemsOfSession)'
  BY <1>1 DEF Course, StepsInOrder, ItemsOfSession
<1>7. (OnePost /\ OneDelete /\ OneCard /\ KeysApart)'
  BY <1>1 DEF Course, OnePost, PostIsUnderWay, Current, OneDelete, Deleting, OneCard, Shows, KeysApart
<1>8. VersionsGrow'
  BY <1>1, <1>3, <1>4 DEF Course, VersionsGrow, Bounds, Current, Numbers
<1>9. TapsKnown'
  <2>1. \A r \in Tap : taps'[r].asked <= want'
    BY <1>2, <1>3, <1>4, TapIs DEF Course, TapsKnown, Numbers
  <2>2. \A r \in card.holds : taps'[r].state # "none"
    <3>1. card.holds \subseteq Tap
      BY DEF Types, Scalars
    <3> QED BY <3>1, TapIs DEF Course, TapsKnown
  <2>3. ASSUME NEW th \in Thread, look[th] # None, NEW r \in card.holds \cup look[th].taps
        PROVE  taps'[r].asked <= look[th].version
    <3>1. r \in Tap
      BY <2>3 DEF Types, Scalars, LookSet
    <3>2. TapFlips(t) => r # t
      <4>1. TapFlips(t) => t \notin card.holds
        BY <1>2 DEF Course, TapsKnown
      <4>2. TapFlips(t) => look[th].taps = {}
        BY <1>2, <2>3 DEF Course, LookIsFresh, Thread
      <4> QED BY <2>3, <4>1, <4>2
    <3>3. taps'[r].asked = taps[r].asked
      BY <3>1, <3>2, TapIs
    <3> QED BY <2>3, <3>3 DEF Course, TapsKnown
  <2> QED BY <1>1, <2>1, <2>2, <2>3 DEF TapsKnown
<1>10. TapsCarried'
  <2> SUFFICES ASSUME NEW r \in Tap \ excused
               PROVE  /\ taps'[r].state = "done" => tried >= taps'[r].asked
                      /\ taps'[r].state = "open" => tried >= taps'[r].asked \/ Carried(r)'
    BY <1>1 DEF TapsCarried
  <2>1. CASE r # t
    <3>1. taps'[r] = taps[r]
      BY <2>1, TapIs
    <3>2. Carried(r) => Carried(r)'
      <4>1. handler = r => handler' = r
        BY <1>2, CardAssumption
      <4> QED BY <1>1, <3>1, <4>1 DEF Carried, Carries
    <3> QED BY <3>1, <3>2 DEF Course, TapsCarried
  <2>2. CASE r = t /\ TapFlips(t)
    BY <1>2, <2>2, TapIs DEF Carried
  <2>3. CASE r = t /\ TapDone(t)
    <3>1. taps[t].state = "open" /\ t \notin Held
      BY <2>3 DEF TapDone, Open
    <3>2. ~Carried(t)
      BY <3>1, CardAssumption DEF Held, Carried, Carries
    <3>3. taps'[t].state = "done" /\ taps'[t].asked = taps[t].asked
      BY <2>3, TapIs
    <3>4. tried >= taps[t].asked
      BY <2>3, <3>1, <3>2 DEF Course, TapsCarried
    <3> QED BY <2>3, <3>3, <3>4
  <2>4. CASE r = t /\ TapLimit(t)
    BY <2>4, TapIs
  <2> QED BY <2>1, <2>2, <2>3, <2>4
<1> QED BY <1>5, <1>6, <1>7, <1>8, <1>9, <1>10 DEF Course

LEMMA CourseDeletes ==
    ASSUME Types, Types', Course, Deletes
    PROVE  Course'
<1>1. UNCHANGED <<want, rec, card, look, handler, steps, outbox, pictures, taps, tried, excused, stray>>
      /\ rec.msg \in DOMAIN chat /\ chat' = [chat EXCEPT ![rec.msg] = -chat[rec.msg]] /\ chat[rec.msg] > 0
  BY DEF Deletes, Shows
<1>2. DOMAIN chat' = DOMAIN chat /\ \A m : Shows(m)' => Shows(m)
  <2>1. DOMAIN chat' = DOMAIN chat /\ \A m \in DOMAIN chat : m # rec.msg => chat'[m] = chat[m]
    BY <1>1
  <2> QED BY <1>1, <2>1 DEF Shows
<1>3. LookIsFresh'
  BY <1>1, <1>2 DEF Course, LookIsFresh
<1>4. (StepsInOrder /\ ItemsOfSession)'
  BY <1>1 DEF Course, StepsInOrder, ItemsOfSession
<1>5. (OnePost /\ OneDelete /\ OneCard /\ KeysApart)'
  BY <1>1, <1>2 DEF Course, OnePost, PostIsUnderWay, Current, OneDelete, Deleting, OneCard, KeysApart
<1>6. VersionsGrow'
  BY <1>1 DEF Course, VersionsGrow, Bounds, Current
<1>7. (TapsKnown /\ TapsCarried)'
  BY <1>1 DEF Course, TapsKnown, TapsCarried, Carried, Carries
<1> QED BY <1>3, <1>4, <1>5, <1>6, <1>7 DEF Course

\* What a look reads.
LEMMA LooksIs ==
    ASSUME Types, NEW th \in Thread, Looks(th)
    PROVE  /\ look'[th].session = rec.session /\ look'[th].msg = rec.msg /\ look'[th].version = want
           /\ look'[th].taps = IF th = "poll" THEN {handler} ELSE {}
           /\ \A other \in Thread : other # th => look'[other] = look[other]
           /\ card'.seq = card.seq /\ card'.holds = card.holds \cap Open
<1>1. look' = [look EXCEPT ![th] = LookedAt(th)] /\ card' = [card EXCEPT !.holds = @ \cap Open]
  BY DEF Looks
<1>2. look'[th] = LookedAt(th) /\ \A other \in Thread : other # th => look'[other] = look[other]
  BY <1>1 DEF Types, Scalars
<1>3. card'.seq = card.seq /\ card'.holds = card.holds \cap Open
  BY <1>1 DEF Types, Scalars
<1>4. /\ LookedAt(th).session = rec.session /\ LookedAt(th).msg = rec.msg /\ LookedAt(th).version = want
      /\ LookedAt(th).taps = IF th = "poll" THEN {handler} ELSE {}
  BY DEF LookedAt
<1> QED BY <1>2, <1>3, <1>4

LEMMA CourseLooks ==
    ASSUME Types, Types', Course, Races \subseteq {"overtake"}, NEW th \in Thread, Looks(th)
    PROVE  Course'
<1>1. UNCHANGED <<want, rec, handler, steps, outbox, pictures, chat, taps, tried, excused, stray>>
  BY DEF Looks
<1>2. \A other \in Thread : look[other] = None
  BY DEF Looks, Alone
<1>3. \A other \in Thread : look'[other] # None => other = th
  BY <1>2, LooksIs
<1>4. th = "poll" => handler # None
  BY DEF Looks
<1>5. LookIsFresh'
  BY <1>1, <1>3, <1>4, LooksIs DEF LookIsFresh, Thread
<1>6. (StepsInOrder /\ ItemsOfSession)'
  BY <1>1, LooksIs DEF Course, StepsInOrder, ItemsOfSession
<1>7. (OnePost /\ OneDelete /\ OneCard /\ KeysApart)'
  BY <1>1, LooksIs DEF Course, OnePost, PostIsUnderWay, Current, OneDelete, Deleting, OneCard, Shows, KeysApart
<1>8. VersionsGrow'
  <2>1. Numbers /\ Numbers'
    BY NumbersAre, NumbersAfter
  <2> QED BY <1>1, <1>3, <2>1, LooksIs DEF Course, VersionsGrow, Bounds, Current, Numbers
<1>9. TapsKnown'
  <2>1. \A r \in card'.holds \cup look'[th].taps : r \in Tap
    BY <1>1, <1>4, LooksIs DEF Types, Scalars
  <2> QED BY <1>1, <1>3, <2>1, LooksIs DEF Course, TapsKnown
<1>10. TapsCarried'
  <2>1. \A t \in Tap : taps[t].state = "open" /\ Carried(t) => Carried(t)'
    BY <1>1, LooksIs DEF Carried, Carries, Open
  <2> QED BY <1>1, <2>1 DEF Course, TapsCarried
<1> QED BY <1>5, <1>6, <1>7, <1>8, <1>9, <1>10 DEF Course

\* No look is left when one ends; its taps are the handler's.
LEMMA EndsIs ==
    ASSUME Types, Course, NEW th \in Thread, look[th] # None, Ends(th)
    PROVE  /\ \A other \in Thread : look'[other] = None
           /\ \A t \in Tap : handler = t => handler' = t \/ t \in look[th].taps
           /\ look[th].session = rec.session
           /\ rec.msg = InFlight => look[th].msg = InFlight
           /\ look[th].msg \in {InFlight, rec.msg} \/ (rec.msg = NoCard /\ ~Shows(look[th].msg))
<1>1. look'[th] = None /\ \A other \in Thread : other # th => look'[other] = look[other]
  BY TypesEnds DEF Types
<1>2. \A other \in Thread : look[other] # None => other = th
  BY DEF Course, LookIsFresh
<1>3. \A t \in Tap : handler = t => handler' = t \/ t \in look[th].taps
  BY DEF Ends, Course, LookIsFresh, Thread
<1> QED BY <1>1, <1>2, <1>3 DEF Course, LookIsFresh

LEMMA CourseWaits ==
    ASSUME Types, Types', Course, NEW th \in Thread, Waits(th) \/ Leaves(th)
    PROVE  Course'
<1>1. UNCHANGED <<want, rec, steps, outbox, pictures, chat, taps, tried, stray>> /\ Ends(th) /\ look[th] # None
  BY DEF Waits, Leaves
<1>2. /\ card'.seq = card.seq /\ card.holds \subseteq card'.holds /\ card'.holds \subseteq card.holds \cup Open
      /\ excused \subseteq excused'
      /\ look[th].taps \cap Open \subseteq card'.holds \/ look[th].taps \subseteq excused'
  <2>1. CASE Waits(th)
    <3>1. card' = [card EXCEPT !.holds = card.holds \cup (look[th].taps \cap Open)] /\ excused' = excused
      BY <2>1 DEF Waits
    <3>2. card'.seq = card.seq /\ card'.holds = card.holds \cup (look[th].taps \cap Open)
      BY <3>1 DEF Types, Scalars
    <3> QED BY <3>1, <3>2
  <2>2. CASE Leaves(th)
    BY <2>2 DEF Leaves
  <2> QED BY <1>1, <2>1, <2>2
<1>3. \A other \in Thread : look'[other] = None
  BY <1>1, EndsIs
<1>4. LookIsFresh'
  BY <1>3 DEF LookIsFresh, Thread
<1>5. (StepsInOrder /\ ItemsOfSession)'
  BY <1>1, <1>2 DEF Course, StepsInOrder, ItemsOfSession
<1>6. (OnePost /\ OneDelete /\ OneCard /\ KeysApart)'
  BY <1>1, <1>2 DEF Course, OnePost, PostIsUnderWay, Current, OneDelete, Deleting, OneCard, Shows, KeysApart
<1>7. VersionsGrow'
  BY <1>1, <1>2, <1>3 DEF Course, VersionsGrow, Bounds, Current
<1>8. TapsKnown'
  <2>1. \A t \in card'.holds : taps[t].state # "none"
    BY <1>2 DEF Course, TapsKnown, Open
  <2> QED BY <1>1, <1>3, <2>1 DEF Course, TapsKnown
<1>9. TapsCarried'
  <2>1. \A t \in Tap \ excused' : taps[t].state = "open" /\ Carried(t) => Carried(t)'
    BY <1>1, <1>2, EndsIs DEF Carried, Carries, Open
  <2> QED BY <1>1, <1>2, <2>1 DEF Course, TapsCarried
<1> QED BY <1>4, <1>5, <1>6, <1>7, <1>8, <1>9 DEF Course

\* What the outbox is after an update was queued.
AfterQueued(u) ==
    /\ (ItemsOfSession /\ KeysApart)'
    /\ \A i, j \in DOMAIN outbox' : outbox'[i].kind = "post" /\ outbox'[j].kind = "post" => i = j
    /\ \A i, j \in DOMAIN outbox' :
          outbox'[i].kind = "del" /\ outbox'[j].kind = "del" /\ outbox'[i].session = outbox'[j].session => i = j
    /\ \A i \in DOMAIN outbox' : outbox'[i].version <= u.version
    /\ \A i, j \in DOMAIN outbox' : i < j => outbox'[i].version <= outbox'[j].version
    /\ \A i \in DOMAIN outbox : outbox[i].kind # u.kind => i \in DOMAIN outbox' /\ outbox'[i] = outbox[i]
    /\ \A i \in DOMAIN outbox' : outbox'[i].kind # u.kind /\ u.kind # "post" =>
          i \in DOMAIN outbox /\ outbox'[i] = outbox[i]
    /\ \A t : \A i \in DOMAIN outbox : outbox[i].kind # "del" /\ Carries(outbox[i], t) =>
          \E j \in DOMAIN outbox' : outbox'[j].kind # "del" /\ Carries(outbox'[j], t)
    /\ \E n \in DOMAIN outbox' :
          outbox'[n].kind = u.kind /\ outbox'[n].version = u.version /\ u.holds \subseteq outbox'[n].holds
    /\ u.kind = "post" /\ u.msg # NoCard =>
          \E d \in DOMAIN outbox' : outbox'[d].kind = "del" /\ outbox'[d].msg = u.msg

LEMMA CourseQueued ==
    ASSUME Types, Course, NEW u \in Updating, NEW form \in Forms, Queues(u, form),
           rec'.session = rec.session, u.session = rec.session, Bounds(u.version),
           u.kind = "post" => ~Deleting /\ \A i \in DOMAIN outbox : outbox[i].kind # "post"
    PROVE  AfterQueued(u)
<1>1. PICK old, d, n : Joins(outbox, outbox', u, old, d, n)
  BY QueuedIs DEF Types
<1>2. /\ old \subseteq DOMAIN outbox /\ d \in Nat /\ n \in Nat /\ d <= n
      /\ DOMAIN outbox' = old \cup {d, n}
      /\ \A i \in old : i < d /\ outbox'[i] = outbox[i]
      /\ outbox'[n].kind = u.kind /\ outbox'[n].session = u.session /\ outbox'[n].version = u.version
      /\ ~outbox'[n].flying /\ u.holds \subseteq outbox'[n].holds
      /\ d # n => /\ u.kind = "post" /\ u.msg # NoCard
                  /\ outbox'[d].kind = "del" /\ outbox'[d].session = u.session /\ outbox'[d].version = u.version
                  /\ outbox'[d].msg = u.msg
      /\ u.kind = "post" /\ u.msg # NoCard => d # n
      /\ u.kind \in {"post", "edit"}
  BY <1>1 DEF Joins, IsFor, Ids, Updating
<1>3. ASSUME NEW i \in DOMAIN outbox \ old
      PROVE  outbox[i].kind = u.kind /\ outbox[i].holds \subseteq outbox'[n].holds /\ ~(u.kind = "post")
  BY <1>1, <1>2 DEF Joins, Deleting
<1>4. \A i \in old : ~(outbox[i].keyed /\ ~outbox[i].flying /\ outbox[i].kind = u.kind /\ outbox[i].session = u.session)
  BY <1>1 DEF Joins
<1>5. Numbers /\ u.version \in Nat /\ \A i \in old : i \in Nat
  <2>1. u.version \in Nat
    BY CardAssumption DEF Updating, Version
  <2> QED BY <1>2, <2>1, NumbersAre DEF Numbers
<1>6. ItemsOfSession'
  <2>1. \A i \in DOMAIN outbox' : outbox'[i].session <= rec.session
    BY <1>2, <1>5 DEF Course, ItemsOfSession, Numbers
  <2> QED BY <2>1 DEF ItemsOfSession
<1>7. KeysApart'
  <2> SUFFICES ASSUME NEW i \in DOMAIN outbox', NEW j \in DOMAIN outbox', i < j,
                      SameKey(outbox'[i], outbox'[j])
               PROVE  outbox'[i].flying
    BY DEF KeysApart
  <2>1. i \in old
    <3>1. CASE i = n
      BY <1>2, <1>5, <3>1
    <3>2. CASE i = d /\ d # n
      <4>1. j = n
        BY <1>2, <1>5, <3>2
      <4> QED BY <1>2, <3>2, <4>1 DEF SameKey
    <3> QED BY <1>2, <3>1, <3>2
  <2>2. CASE j \in old
    BY <1>2, <2>1, <2>2 DEF Course, KeysApart
  <2>3. CASE j = n
    BY <1>2, <1>4, <2>1, <2>3 DEF SameKey
  <2>4. CASE j = d /\ d # n
    BY <1>2, <2>1, <2>4 DEF SameKey, Deleting
  <2> QED BY <1>2, <2>2, <2>3, <2>4
<1>8. \A i, j \in DOMAIN outbox' : outbox'[i].kind = "post" /\ outbox'[j].kind = "post" => i = j
  BY <1>2 DEF Course, OnePost
<1>9. \A i, j \in DOMAIN outbox' :
          outbox'[i].kind = "del" /\ outbox'[j].kind = "del" /\ outbox'[i].session = outbox'[j].session => i = j
  BY <1>2 DEF Course, OneDelete, Deleting
<1>10. \A i \in DOMAIN outbox' : outbox'[i].version <= u.version
  BY <1>2, <1>5 DEF Bounds
<1>11. \A i, j \in DOMAIN outbox' : i < j => outbox'[i].version <= outbox'[j].version
  <2> SUFFICES ASSUME NEW i \in DOMAIN outbox', NEW j \in DOMAIN outbox', i < j
               PROVE  outbox'[i].version <= outbox'[j].version
    OBVIOUS
  <2>1. CASE j \in old
    <3>1. i \in old
      BY <1>2, <1>5, <2>1
    <3> QED BY <1>2, <2>1, <3>1 DEF Course, VersionsGrow
  <2>2. CASE j \in {d, n}
    BY <1>2, <1>10, <2>2
  <2> QED BY <1>2, <2>1, <2>2
<1>12. \A i \in DOMAIN outbox : outbox[i].kind # u.kind => i \in DOMAIN outbox' /\ outbox'[i] = outbox[i]
  BY <1>2, <1>3
<1>13. \A i \in DOMAIN outbox' : outbox'[i].kind # u.kind /\ u.kind # "post" =>
          i \in DOMAIN outbox /\ outbox'[i] = outbox[i]
  BY <1>2
<1>14. ASSUME NEW t, NEW i \in DOMAIN outbox, outbox[i].kind # "del", t \in outbox[i].holds,
              outbox[i].version >= taps[t].asked, taps[t].asked \in Nat
       PROVE  \E j \in DOMAIN outbox' : outbox'[j].kind # "del" /\ Carries(outbox'[j], t)
  <2>1. CASE i \in old
    BY <1>2, <1>14, <2>1 DEF Carries
  <2>2. CASE i \notin old
    <3>1. outbox[i].version <= u.version /\ outbox[i].version \in Nat
      BY <1>5 DEF Bounds, Numbers
    <3>2. t \in outbox'[n].holds /\ outbox'[n].version >= taps[t].asked
      BY <1>2, <1>3, <1>5, <1>14, <2>2, <3>1
    <3> QED BY <1>2, <3>2 DEF Carries
  <2> QED BY <2>1, <2>2
<1>15. \A t : \A i \in DOMAIN outbox : outbox[i].kind # "del" /\ Carries(outbox[i], t) =>
          \E j \in DOMAIN outbox' : outbox'[j].kind # "del" /\ Carries(outbox'[j], t)
  <2>1. \A i \in DOMAIN outbox : outbox[i].holds \subseteq Tap
    BY DEF Types, IsBox, ItemSet
  <2> QED BY <1>5, <1>14, <2>1 DEF Carries, Numbers
<1>16. \E k \in DOMAIN outbox' :
          outbox'[k].kind = u.kind /\ outbox'[k].version = u.version /\ u.holds \subseteq outbox'[k].holds
  BY <1>2
<1>17. u.kind = "post" /\ u.msg # NoCard =>
          \E k \in DOMAIN outbox' : outbox'[k].kind = "del" /\ outbox'[k].msg = u.msg
  BY <1>2
<1> QED BY <1>6, <1>7, <1>8, <1>9, <1>10, <1>11, <1>12, <1>13, <1>15, <1>16, <1>17 DEF AfterQueued

\* What a decision is: an update of what the look read, made while no post is
\* under way.
Decided(th, u) ==
    /\ u.session = rec.session /\ u.msg = look[th].msg /\ u.version = look[th].version
    /\ u.holds = (look[th].taps \cup card.holds) \cap Open /\ u.seq = card.seq + 1
    /\ rec.msg # InFlight /\ look[th].msg # InFlight
    /\ u.msg = rec.msg \/ (rec.msg = NoCard /\ ~Shows(u.msg))
    /\ u.kind = "post" => ~Deleting /\ rec'.msg = InFlight
    /\ u.kind = "edit" => u.msg # NoCard /\ rec'.msg = rec.msg
    /\ rec'.session = rec.session
    /\ card'.holds = {} /\ card'.seq = IF pictures THEN card.seq + 1 ELSE card.seq
    /\ \/ pictures /\ steps' = steps \cup {u} /\ UNCHANGED outbox
       \/ UNCHANGED steps /\ \E form \in Forms : Queues(u, form)

LEMMA DecidesIs ==
    ASSUME Types, Course, Races \subseteq {"overtake"}, NEW th \in Thread, Posts(th) \/ Edits(th)
    PROVE  \E u \in Updating : Decided(th, u)
<1>1. Ends(th) /\ look[th] # None
  BY DEF Posts, Edits
<1>2. look[th].msg # InFlight
  BY DEF Posts, Edits, MustPost, MustEdit, MustWait
<1>3. /\ look[th].session = rec.session
      /\ rec.msg = InFlight => look[th].msg = InFlight
      /\ look[th].msg \in {InFlight, rec.msg} \/ (rec.msg = NoCard /\ ~Shows(look[th].msg))
  BY <1>1, EndsIs
<1>4. card'.holds = {} /\ card'.seq = IF pictures THEN card.seq + 1 ELSE card.seq
  BY DEF Posts, Edits, Types, Scalars
<1>5. rec'.session = rec.session
  BY DEF Posts, Edits, Types, Scalars
<1>6. ASSUME NEW kind \in {"post", "edit"}, NEW reads \in BOOLEAN, Updates(Update(kind, look[th]), reads),
             kind = "post" => ~Deleting /\ rec'.msg = InFlight,
             kind = "edit" => look[th].msg # NoCard /\ rec'.msg = rec.msg
      PROVE  \E u \in Updating : Decided(th, u)
  <2> DEFINE u == Update(kind, look[th])
  <2>1. /\ u \in Updating /\ u.kind = kind /\ u.session = look[th].session /\ u.msg = look[th].msg
        /\ u.version = look[th].version /\ u.seq = card.seq + 1
        /\ u.holds = (look[th].taps \cup card.holds) \cap Open
    BY <1>1, <1>2, UpdateIs DEF Types
  <2>2. \/ pictures /\ steps' = steps \cup {u} /\ UNCHANGED outbox
        \/ UNCHANGED steps /\ \E form \in Forms : Queues(u, form)
    BY <1>6, UpdatesIs
  <2> HIDE DEF u
  <2>3. Decided(th, u)
    BY <1>2, <1>3, <1>4, <1>5, <1>6, <2>1, <2>2 DEF Decided
  <2> QED BY <2>1, <2>3
<1>7. CASE Posts(th)
  <2>1. ~Deleting /\ Updates(Update("post", look[th]), TRUE)
    BY <1>7 DEF Posts
  <2>2. rec'.msg = InFlight
    BY <1>7 DEF Posts, Types, Scalars
  <2> QED BY <1>6, <2>1, <2>2
<1>8. CASE Edits(th)
  <2>1. (\E reads \in BOOLEAN : Updates(Update("edit", look[th]), reads)) /\ look[th].msg # NoCard
    BY <1>8 DEF Edits, MustEdit, MustPost, MustWait
  <2>2. rec'.msg = rec.msg
    BY <1>8 DEF Edits, Types, Scalars
  <2> QED BY <1>6, <2>1, <2>2
<1> QED BY <1>7, <1>8

\* Before a decision nothing posts, and what the look read bounds the outbox.
LEMMA BeforeDecision ==
    ASSUME Types, Course, NEW th \in Thread, look[th] # None, NEW u \in Updating, Decided(th, u)
    PROVE  /\ \A i \in DOMAIN outbox : outbox[i].kind # "post"
           /\ \A s \in steps : ~(s.kind = "post" /\ Current(s))
           /\ Bounds(u.version) /\ u.version <= want /\ \A s \in steps : s.version <= u.version
           /\ \A t \in card.holds \cup look[th].taps : taps[t].asked <= u.version
  BY DEF Course, OnePost, VersionsGrow, TapsKnown, Decided

LEMMA CourseDecides ==
    ASSUME Types, Types', Course, Races \subseteq {"overtake"}, NEW th \in Thread, Posts(th) \/ Edits(th)
    PROVE  Course'
<1>1. UNCHANGED <<want, parked, pictures, chat, taps, tried, excused, stray, trouble>>
      /\ Ends(th) /\ look[th] # None
  BY DEF Posts, Edits
<1>2. PICK u \in Updating : Decided(th, u)
  BY DecidesIs
<1>3. /\ u.session = rec.session /\ u.version = look[th].version
      /\ u.holds = (look[th].taps \cup card.holds) \cap Open /\ u.seq = card.seq + 1
      /\ u.msg = rec.msg \/ (rec.msg = NoCard /\ ~Shows(u.msg))
      /\ u.kind = "post" => ~Deleting /\ rec'.msg = InFlight
      /\ u.kind = "edit" => rec'.msg = rec.msg
      /\ rec.msg # InFlight /\ rec'.session = rec.session
      /\ card'.holds = {} /\ card'.seq = IF pictures THEN card.seq + 1 ELSE card.seq
      /\ u.kind \in {"post", "edit"}
  BY <1>2 DEF Decided, Updating
<1>4. /\ \A i \in DOMAIN outbox : outbox[i].kind # "post"
      /\ \A s \in steps : ~(s.kind = "post" /\ Current(s))
      /\ Bounds(u.version) /\ u.version <= want /\ \A s \in steps : s.version <= u.version
      /\ \A t \in card.holds \cup look[th].taps : taps[t].asked <= u.version
  BY <1>1, <1>2, BeforeDecision
<1>5. Numbers /\ Numbers' /\ u.version \in Nat
  <2>1. u.version \in Nat
    BY CardAssumption DEF Updating, Version
  <2> QED BY <2>1, NumbersAre, NumbersAfter
<1>6. \A other \in Thread : look'[other] = None
  BY <1>1, EndsIs
<1>7. LookIsFresh'
  BY <1>6 DEF LookIsFresh, Thread
<1>8. TapsKnown'
  BY <1>1, <1>3, <1>6 DEF Course, TapsKnown
<1>9. (\A s \in steps : ~Current(s)') /\ (steps' # steps => pictures)
  <2>1. CASE pictures
    BY <1>3, <1>5, <2>1 DEF Course, StepsInOrder, Current, Numbers
  <2>2. CASE ~pictures
    BY <1>2, <2>2 DEF Course, StepsInOrder, Decided
  <2> QED BY <2>1, <2>2
<1>10. ASSUME NEW t \in Tap \ excused, taps[t].state = "open", ~(tried >= taps[t].asked)
       PROVE  \/ handler' = t \/ Carries(u, t) \/ \E s \in steps : Carries(s, t)
              \/ \E i \in DOMAIN outbox : outbox[i].kind # "del" /\ Carries(outbox[i], t)
  <2>1. Carried(t)
    BY <1>10 DEF Course, TapsCarried
  <2>2. handler = t => handler' = t \/ t \in look[th].taps
    BY <1>1, EndsIs
  <2>3. ASSUME t \in card.holds \cup look[th].taps PROVE Carries(u, t)
    <3>1. taps[t].asked <= u.version /\ taps[t].asked \in Nat
      BY <1>4, <1>5, <2>3 DEF Numbers
    <3>2. t \in u.holds
      BY <1>3, <1>10, <2>3 DEF Open
    <3> QED BY <1>5, <3>1, <3>2 DEF Carries
  <2> QED BY <2>1, <2>2, <2>3 DEF Carried
<1>11. CASE pictures /\ steps' = steps \cup {u} /\ UNCHANGED outbox
  <2>1. Current(u)' /\ u \notin steps
    BY <1>3, <1>5, <1>11 DEF Course, StepsInOrder, Current, Numbers
  <2>2. (StepsInOrder /\ ItemsOfSession)'
    <3>1. ASSUME NEW s \in steps
          PROVE  s.session < rec'.session \/ (s.session = rec'.session /\ s.seq <= card'.seq)
      BY <1>3, <1>5, <1>11 DEF Course, StepsInOrder, Numbers
    <3>2. u.session = rec'.session /\ u.seq = card'.seq
      BY <1>3, <1>11
    <3>3. \A s \in steps : ~(s.session = u.session /\ s.seq = u.seq)
      BY <1>3, <1>5 DEF Course, StepsInOrder, Numbers
    <3>4. \A s \in steps' : s.session < rec'.session \/ (s.session = rec'.session /\ s.seq <= card'.seq)
      BY <1>5, <1>11, <3>1, <3>2 DEF Numbers
    <3>5. \A s, r \in steps' : s.session = r.session /\ s.seq = r.seq => s = r
      BY <1>11, <3>3 DEF Course, StepsInOrder
    <3> QED BY <1>1, <1>3, <1>11, <3>4, <3>5 DEF Course, StepsInOrder, ItemsOfSession
  <2>3. OnePost'
    BY <1>3, <1>4, <1>9, <1>11, <2>1 DEF OnePost, PostIsUnderWay
  <2>4. OneDelete'
    BY <1>3, <1>9, <1>11, <2>1 DEF Course, OneDelete, Deleting
  <2>5. OneCard'
    <3> SUFFICES ASSUME NEW m \in DOMAIN chat, Shows(m), m # rec'.msg, m \notin stray
                 PROVE  \/ \E i \in DOMAIN outbox : outbox[i].kind = "del" /\ outbox[i].msg = m
                        \/ u.kind = "post" /\ u.msg = m
      BY <1>1, <1>11, <2>1 DEF OneCard, Shows
    <3>1. CASE m = rec.msg
      BY <1>3, <1>5, <3>1 DEF Numbers
    <3>2. CASE m # rec.msg
      BY <1>4, <3>2 DEF Course, OneCard
    <3> QED BY <3>1, <3>2
  <2>6. VersionsGrow'
    BY <1>1, <1>4, <1>6, <1>9, <1>11 DEF Course, VersionsGrow, Bounds
  <2>7. KeysApart'
    BY <1>11 DEF Course, KeysApart
  <2>8. TapsCarried'
    BY <1>1, <1>10, <1>11 DEF Course, TapsCarried, Carried, Carries
  <2> QED BY <1>7, <1>8, <2>2, <2>3, <2>4, <2>5, <2>6, <2>7, <2>8 DEF Course
<1>12. ASSUME UNCHANGED steps, NEW form \in Forms, Queues(u, form)
       PROVE  Course'
  <2>1. AfterQueued(u)
    BY <1>3, <1>4, <1>12, CourseQueued
  <2>2. (StepsInOrder /\ ItemsOfSession)'
    <3>1. ASSUME NEW s \in steps
          PROVE  s.session < rec'.session \/ (s.session = rec'.session /\ s.seq <= card'.seq)
      BY <1>3, <1>5 DEF Course, StepsInOrder, Numbers
    <3> QED BY <1>1, <1>12, <2>1, <3>1 DEF Course, StepsInOrder, AfterQueued
  <2>3. OnePost'
    BY <1>3, <1>4, <1>9, <1>12, <2>1 DEF OnePost, PostIsUnderWay, AfterQueued
  <2>4. OneDelete'
    BY <1>9, <1>12, <2>1 DEF OneDelete, AfterQueued
  <2>5. OneCard'
    <3> SUFFICES ASSUME NEW m \in DOMAIN chat, Shows(m), m # rec'.msg, m \notin stray
                 PROVE  \E i \in DOMAIN outbox' : outbox'[i].kind = "del" /\ outbox'[i].msg = m
      BY <1>1 DEF OneCard, Shows
    <3>1. CASE m = rec.msg
      BY <1>3, <1>5, <2>1, <3>1 DEF Numbers, AfterQueued
    <3>2. CASE m # rec.msg
      <4>1. PICK i \in DOMAIN outbox : outbox[i].kind = "del" /\ outbox[i].msg = m
        BY <1>4, <3>2 DEF Course, OneCard
      <4>2. i \in DOMAIN outbox' /\ outbox'[i] = outbox[i]
        BY <1>3, <2>1, <4>1 DEF AfterQueued
      <4> QED BY <4>1, <4>2
    <3> QED BY <3>1, <3>2
  <2>6. VersionsGrow'
    <3>1. Bounds(want)'
      BY <1>1, <1>4, <1>5, <2>1 DEF Bounds, AfterQueued, Numbers
    <3> QED BY <1>1, <1>6, <1>9, <1>12, <2>1, <3>1 DEF Course, VersionsGrow, AfterQueued
  <2>7. TapsCarried'
    <3>1. ASSUME NEW t \in Tap \ excused, taps[t].state = "open", ~(tried >= taps[t].asked)
          PROVE  Carried(t)'
      <4>1. Carries(u, t) => \E n \in DOMAIN outbox' : outbox'[n].kind # "del" /\ Carries(outbox'[n], t)
        BY <1>3, <2>1 DEF AfterQueued, Carries
      <4>2. (\E i \in DOMAIN outbox : outbox[i].kind # "del" /\ Carries(outbox[i], t))
              => \E n \in DOMAIN outbox' : outbox'[n].kind # "del" /\ Carries(outbox'[n], t)
        BY <2>1 DEF AfterQueued
      <4>3. \A x : Carries(x, t)' <=> Carries(x, t)
        BY <1>1 DEF Carries
      <4> QED BY <1>10, <1>12, <3>1, <4>1, <4>2, <4>3 DEF Carried, Carries
    <3> QED BY <1>1, <3>1 DEF Course, TapsCarried
  <2> QED BY <1>7, <1>8, <2>1, <2>2, <2>3, <2>4, <2>5, <2>6, <2>7 DEF Course, AfterQueued
<1> QED BY <1>2, <1>11, <1>12 DEF Decided

LEMMA CourseSettles ==
    ASSUME Types, Types', Course, NEW s \in steps, Settles(s)
    PROVE  Course'
<1>1. UNCHANGED <<want, card, look, handler, parked, pictures, chat, taps, tried, stray, trouble>>
      /\ steps' = steps \ {s}
  BY DEF Settles
<1>2. Numbers /\ Numbers'
  BY NumbersAre, NumbersAfter
<1>3. s \in Updating
  BY DEF Types, Scalars
<1>4. /\ rec'.session = rec.session /\ rec'.msg = rec.msg
      /\ s.kind = "post" /\ Current(s) => rec.msg = InFlight
  <2>1. s.kind = "post" /\ Current(s) => rec.msg = InFlight
    BY DEF Course, OnePost
  <2>2. CASE s.kind = "post" /\ Current(s)
    <3>1. rec' = [rec EXCEPT !.msg = InFlight, !.hash = s.version]
      BY <2>2 DEF Settles
    <3> QED BY <2>1, <2>2, <3>1 DEF Types, Scalars
  <2>3. CASE ~(s.kind = "post" /\ Current(s))
    BY <2>3 DEF Settles
  <2> QED BY <2>1, <2>2, <2>3
<1>5. LookIsFresh'
  BY <1>1, <1>4 DEF Course, LookIsFresh, Shows
<1>6. StepsInOrder'
  BY <1>1, <1>4 DEF Course, StepsInOrder
<1>7. TapsKnown'
  BY <1>1 DEF Course, TapsKnown
<1>8. CASE ~Current(s)
  <2>1. UNCHANGED outbox /\ excused' = excused \cup s.holds
    BY <1>8 DEF Settles
  <2>2. (ItemsOfSession /\ OneDelete /\ KeysApart)'
    BY <1>1, <1>4, <2>1 DEF Course, ItemsOfSession, OneDelete, Deleting, Current, KeysApart
  <2>3. (OnePost /\ OneCard)'
    BY <1>1, <1>4, <1>8, <2>1 DEF Course, OnePost, PostIsUnderWay, OneCard, Shows, Current
  <2>4. VersionsGrow'
    BY <1>1, <1>4, <2>1 DEF Course, VersionsGrow, Bounds, Current
  <2>5. TapsCarried'
    BY <1>1, <2>1 DEF Course, TapsCarried, Carried, Carries
  <2> QED BY <1>5, <1>6, <1>7, <2>2, <2>3, <2>4, <2>5 DEF Course
<1>9. CASE Current(s)
  <2> DEFINE u == [s EXCEPT !.holds = @ \cap Open]
  <2>1. Queues(u, "pictured") /\ "pictured" \in Forms /\ excused' = excused
    BY <1>9 DEF Settles, Forms
  <2>2. /\ u \in Updating /\ u.msg = s.msg /\ u.kind = s.kind /\ u.session = s.session
        /\ u.version = s.version /\ u.holds = s.holds \cap Open
    BY <1>3 DEF Updating
  <2> HIDE DEF u
  <2>3. \A r \in steps : r # s => ~Current(r) /\ ~Current(r)'
    BY <1>1, <1>4, <1>9 DEF Course, StepsInOrder, Current
  <2>4. /\ u.session = rec.session /\ Bounds(u.version) /\ u.version <= want
        /\ u.kind = "post" => ~Deleting /\ \A i \in DOMAIN outbox : outbox[i].kind # "post"
        /\ \A th \in Thread : look[th] # None => u.version <= look[th].version
        /\ u.version \in Nat /\ u.kind \in {"post", "edit"}
    BY <1>2, <1>3, <1>9, <2>2 DEF Course, Current, VersionsGrow, OnePost, OneDelete, Numbers, Updating
  <2>5. AfterQueued(u)
    BY <1>4, <2>1, <2>2, <2>4, CourseQueued
  <2>6. OnePost'
    <3>1. rec.msg = InFlight => \E i \in DOMAIN outbox' : outbox'[i].kind = "post"
      <4>1. CASE u.kind = "post"
        BY <2>5, <4>1 DEF AfterQueued
      <4>2. CASE u.kind # "post"
        <5>1. rec.msg = InFlight => \E i \in DOMAIN outbox : outbox[i].kind = "post"
          BY <1>9, <2>2, <2>3, <4>2 DEF Course, OnePost, PostIsUnderWay
        <5> QED BY <2>4, <2>5, <4>2, <5>1 DEF AfterQueued
      <4> QED BY <4>1, <4>2
    <3>2. \A i \in DOMAIN outbox' : outbox'[i].kind = "post" => rec.msg = InFlight
      <4>1. CASE u.kind = "post"
        BY <1>4, <1>9, <2>2, <4>1
      <4>2. CASE u.kind # "post"
        BY <2>5, <4>2 DEF AfterQueued, Course, OnePost
      <4> QED BY <4>1, <4>2
    <3> QED BY <1>1, <1>4, <2>3, <2>5, <3>1, <3>2 DEF OnePost, PostIsUnderWay, AfterQueued
  <2>7. OneDelete'
    BY <1>1, <2>3, <2>5 DEF OneDelete, AfterQueued
  <2>8. OneCard'
    <3> SUFFICES ASSUME NEW m \in DOMAIN chat, Shows(m), m # rec.msg, m \notin stray
                 PROVE  \E i \in DOMAIN outbox' : outbox'[i].kind = "del" /\ outbox'[i].msg = m
      BY <1>1, <1>4 DEF OneCard, Shows
    <3>1. CASE \E i \in DOMAIN outbox : outbox[i].kind = "del" /\ outbox[i].msg = m
      BY <2>4, <2>5, <3>1 DEF AfterQueued
    <3>2. CASE s.kind = "post" /\ s.msg = m
      BY <1>2, <2>2, <2>5, <3>2 DEF AfterQueued, Numbers
    <3> QED BY <2>3, <3>1, <3>2 DEF Course, OneCard
  <2>9. VersionsGrow'
    <3>1. Bounds(want)' /\ \A th \in Thread : look[th] # None => Bounds(look[th].version)'
      BY <1>1, <1>2, <2>4, <2>5 DEF Bounds, AfterQueued, Numbers
    <3> QED BY <1>1, <2>3, <2>5, <3>1 DEF Course, VersionsGrow, AfterQueued
  <2>10. TapsCarried'
    <3>1. ASSUME NEW t \in Tap \ excused, taps[t].state = "open", ~(tried >= taps[t].asked)
          PROVE  Carried(t)'
      <4>1. Carries(s, t) => \E n \in DOMAIN outbox' : outbox'[n].kind # "del" /\ Carries(outbox'[n], t)
        BY <2>2, <2>4, <2>5, <3>1 DEF AfterQueued, Carries, Open
      <4>2. (\E i \in DOMAIN outbox : outbox[i].kind # "del" /\ Carries(outbox[i], t))
              => \E n \in DOMAIN outbox' : outbox'[n].kind # "del" /\ Carries(outbox'[n], t)
        BY <2>5 DEF AfterQueued
      <4>3. \A x : Carries(x, t)' <=> Carries(x, t)
        BY <1>1 DEF Carries
      <4>4. Carried(t)
        BY <3>1 DEF Course, TapsCarried
      <4> QED BY <1>1, <4>1, <4>2, <4>3, <4>4 DEF Carried, Carries
    <3> QED BY <1>1, <2>1, <3>1 DEF Course, TapsCarried
  <2> QED BY <1>5, <1>6, <1>7, <2>5, <2>6, <2>7, <2>8, <2>9, <2>10 DEF Course, AfterQueued
<1> QED BY <1>8, <1>9

\* The outbox has nothing new, and of two items with one key the earlier one
\* still is on its way.
Kept ==
    /\ DOMAIN outbox' \subseteq DOMAIN outbox
    /\ \A i \in DOMAIN outbox' : Alike(outbox'[i], outbox[i])
    /\ KeysApart'

LEMMA KeptIs ==
    ASSUME Types, Course, Kept, rec'.session \in {rec.session, rec.session + 1}
    PROVE  /\ ItemsOfSession'
           /\ \A v : Bounds(v) => Bounds(v)'
           /\ \A i, j \in DOMAIN outbox' : i < j => outbox'[i].version <= outbox'[j].version
           /\ \A i, j \in DOMAIN outbox' : outbox'[i].kind = "post" /\ outbox'[j].kind = "post" => i = j
           /\ \A i, j \in DOMAIN outbox' :
                 outbox'[i].kind = "del" /\ outbox'[j].kind = "del" /\ outbox'[i].session = outbox'[j].session => i = j
<1>1. \A i \in DOMAIN outbox' : i \in DOMAIN outbox /\ Alike(outbox'[i], outbox[i])
  BY DEF Kept
<1>2. ItemsOfSession'
  <2>1. \A i \in DOMAIN outbox : outbox[i].session <= rec'.session
    BY NumbersAre DEF Course, ItemsOfSession, Numbers
  <2> QED BY <1>1, <2>1 DEF ItemsOfSession, Alike
<1>3. \A v : Bounds(v) => Bounds(v)'
  BY <1>1 DEF Bounds, Alike
<1>4. \A i, j \in DOMAIN outbox' : i < j => outbox'[i].version <= outbox'[j].version
  BY <1>1 DEF Course, VersionsGrow, Alike
<1>5. \A i, j \in DOMAIN outbox' : outbox'[i].kind = "post" /\ outbox'[j].kind = "post" => i = j
  BY <1>1 DEF Course, OnePost, Alike
<1>6. \A i, j \in DOMAIN outbox' :
         outbox'[i].kind = "del" /\ outbox'[j].kind = "del" /\ outbox'[i].session = outbox'[j].session => i = j
  BY <1>1 DEF Course, OneDelete, Alike
<1> QED BY <1>2, <1>3, <1>4, <1>5, <1>6

\* A step of the send loop that finishes no call: posts, deletes and holds stay.
LEMMA CourseKept ==
    ASSUME Types, Types', Course, Kept,
           UNCHANGED <<want, rec, card, look, handler, steps, pictures, chat, taps, tried, excused, stray>>,
           \A i \in DOMAIN outbox : outbox[i].kind \in {"post", "del"} => i \in DOMAIN outbox',
           \A t : \A i \in DOMAIN outbox : outbox[i].kind # "del" /\ Carries(outbox[i], t) =>
               \E j \in DOMAIN outbox' : outbox'[j].kind # "del" /\ Carries(outbox'[j], t)
    PROVE  Course'
<1>1. \A i \in DOMAIN outbox' : i \in DOMAIN outbox /\ Alike(outbox'[i], outbox[i])
  BY DEF Kept
<1>2. /\ ItemsOfSession'
      /\ \A v : Bounds(v) => Bounds(v)'
      /\ \A i, j \in DOMAIN outbox' : i < j => outbox'[i].version <= outbox'[j].version
      /\ \A i, j \in DOMAIN outbox' : outbox'[i].kind = "post" /\ outbox'[j].kind = "post" => i = j
      /\ \A i, j \in DOMAIN outbox' :
            outbox'[i].kind = "del" /\ outbox'[j].kind = "del" /\ outbox'[i].session = outbox'[j].session => i = j
  BY KeptIs
<1>3. (LookIsFresh /\ StepsInOrder /\ TapsKnown)'
  BY DEF Course, LookIsFresh, Shows, StepsInOrder, TapsKnown
<1>4. OnePost'
  BY <1>1, <1>2 DEF Course, OnePost, PostIsUnderWay, Current, Alike
<1>5. OneDelete'
  BY <1>1, <1>2 DEF Course, OneDelete, Deleting, Current, Alike
<1>6. OneCard'
  <2> SUFFICES ASSUME NEW m \in DOMAIN chat, Shows(m), m # rec.msg, m \notin stray
               PROVE  \/ \E i \in DOMAIN outbox' : outbox'[i].kind = "del" /\ outbox'[i].msg = m
                      \/ \E s \in steps : s.kind = "post" /\ s.msg = m /\ Current(s)
    BY DEF OneCard, Shows, Current
  <2>1. CASE \E i \in DOMAIN outbox : outbox[i].kind = "del" /\ outbox[i].msg = m
    BY <1>1, <2>1 DEF Alike
  <2> QED BY <2>1 DEF Course, OneCard
<1>7. VersionsGrow'
  BY <1>2 DEF Course, VersionsGrow, Current
<1>8. TapsCarried'
  <2>1. \A x : \A t : Carries(x, t)' <=> Carries(x, t)
    BY DEF Carries
  <2>2. \A t : Carried(t) => Carried(t)'
    BY <2>1 DEF Carried
  <2> QED BY <2>2 DEF Course, TapsCarried
<1>9. KeysApart'
  BY DEF Kept
<1> QED BY <1>2, <1>3, <1>4, <1>5, <1>6, <1>7, <1>8, <1>9 DEF Course

LEMMA CourseTakes ==
    ASSUME Types, Types', Course, Takes
    PROVE  Course'
<1>1. PICK i \in Ready : outbox' = [outbox EXCEPT ![i].flying = TRUE]
  BY DEF Takes
<1>2. outbox' = Marked(outbox, i, 1)
  <2>1. (1 = 1) = TRUE
    OBVIOUS
  <2> QED BY <1>1, <2>1, Zenon DEF Marked
<1>3. i \in DOMAIN outbox /\ 1 \in {0, 1} /\ IsBox(outbox)
  BY DEF Ready, Types
<1>4. /\ DOMAIN outbox' = DOMAIN outbox /\ Alike(outbox'[i], outbox[i]) /\ outbox'[i].flying
      /\ \A j \in DOMAIN outbox \ {i} : outbox'[j] = outbox[j]
      /\ outbox'[i].keyed = outbox[i].keyed /\ outbox'[i].holds = outbox[i].holds
  BY <1>2, <1>3, MarkedIs
<1>5. UNCHANGED <<want, rec, card, look, handler, steps, pictures, chat, taps, tried, excused, stray>>
  BY DEF Takes
<1>6. \A j \in DOMAIN outbox' : /\ Alike(outbox'[j], outbox[j])
                                /\ outbox'[j].keyed = outbox[j].keyed /\ outbox'[j].holds = outbox[j].holds
                                /\ outbox[j].flying => outbox'[j].flying
  BY <1>4 DEF Alike
<1>7. Kept
  BY <1>4, <1>6 DEF Kept, Course, KeysApart, SameKey, Alike
<1>8. \A t : \A j \in DOMAIN outbox : outbox[j].kind # "del" /\ Carries(outbox[j], t) =>
               \E k \in DOMAIN outbox' : outbox'[k].kind # "del" /\ Carries(outbox'[k], t)
  BY <1>4, <1>6 DEF Carries, Alike
<1> QED BY <1>4, <1>5, <1>7, <1>8, CourseKept

LEMMA CourseRefused ==
    ASSUME Types, Types', Course, NEW i \in Flying, Refused(i),
           UNCHANGED <<want, card, look, handler, steps, pictures, taps, excused, stray>>
    PROVE  Course'
<1> DEFINE form == IF outbox[i].form = "pictured" THEN "rich" ELSE "classic"
<1>1. form \in Forms /\ i \in DOMAIN outbox /\ IsBox(outbox)
  BY DEF Forms, Flying, Types
<1>2. outbox' = Plainer(outbox, i, form)
  BY DEF Refused, Plainer
<1> HIDE DEF form
<1>3. /\ DOMAIN outbox' = DOMAIN outbox
      /\ \A j \in DOMAIN outbox \ {i} : outbox'[j] = outbox[j]
      /\ Alike(outbox'[i], outbox[i]) /\ ~outbox'[i].keyed /\ outbox'[i].holds = outbox[i].holds
  BY <1>1, <1>2, PlainerIs
<1>4. UNCHANGED <<rec, chat, tried>>
  BY DEF Refused
<1>5. Kept
  BY <1>3 DEF Kept, Course, KeysApart, SameKey, Alike
<1>6. \A t : \A j \in DOMAIN outbox : outbox[j].kind # "del" /\ Carries(outbox[j], t) =>
               \E k \in DOMAIN outbox' : outbox'[k].kind # "del" /\ Carries(outbox'[k], t)
  BY <1>3 DEF Carries, Alike
<1> QED BY <1>3, <1>4, <1>5, <1>6, CourseKept

LEMMA CourseParked ==
    ASSUME Types, Types', Course, NEW i \in Flying, Parked(i),
           UNCHANGED <<want, card, look, handler, steps, pictures, taps, excused, stray>>
    PROVE  Course'
<1>1. i \in DOMAIN outbox /\ outbox[i].flying /\ IsBox(outbox) /\ UNCHANGED <<rec, chat, tried>>
  BY DEF Flying, Types, Parked
<1>2. IsPutBack(outbox, outbox', i)
  BY <1>1, PutBackIs DEF Parked
<1>3. CASE /\ \A j \in DOMAIN outbox : j # i => ~SameKey(outbox[i], outbox[j])
           /\ DOMAIN outbox' = DOMAIN outbox
           /\ \A j \in DOMAIN outbox \ {i} : outbox'[j] = outbox[j]
           /\ Alike(outbox'[i], outbox[i]) /\ ~outbox'[i].flying
           /\ outbox'[i].keyed = outbox[i].keyed /\ outbox'[i].holds = outbox[i].holds
  <2>1. Kept
    <3>1. ASSUME NEW a \in DOMAIN outbox', NEW b \in DOMAIN outbox', a < b, SameKey(outbox'[a], outbox'[b])
          PROVE  outbox'[a].flying
      <4>1. SameKey(outbox[a], outbox[b]) /\ SameKey(outbox[b], outbox[a]) /\ a # b
        BY <1>3, <3>1, NumbersAre DEF SameKey, Alike, Numbers
      <4>2. a # i /\ b # i
        BY <1>3, <3>1, <4>1
      <4> QED BY <1>3, <3>1, <4>1, <4>2 DEF Course, KeysApart
    <3>2. \A a \in DOMAIN outbox' : Alike(outbox'[a], outbox[a])
      BY <1>3 DEF Alike
    <3> QED BY <1>3, <3>1, <3>2 DEF Kept, KeysApart
  <2>2. \A t : \A j \in DOMAIN outbox : outbox[j].kind # "del" /\ Carries(outbox[j], t) =>
                 \E k \in DOMAIN outbox' : outbox'[k].kind # "del" /\ Carries(outbox'[k], t)
    BY <1>1, <1>3 DEF Carries, Alike
  <2> QED BY <1>1, <1>3, <2>1, <2>2, CourseKept
<1>4. ASSUME NEW j \in DOMAIN outbox, j # i, SameKey(outbox[i], outbox[j]), DOMAIN outbox' = DOMAIN outbox \ {i},
             \A k \in DOMAIN outbox' : k # j => outbox'[k] = outbox[k],
             Alike(outbox'[j], outbox[j]), outbox'[j].flying = outbox[j].flying,
             outbox'[j].keyed = outbox[j].keyed, outbox'[j].holds = outbox[j].holds \cup outbox[i].holds
      PROVE  Course'
  <2>1. Numbers
    BY NumbersAre
  <2>2. i < j
    <3>1. j < i => outbox[j].flying
      BY <1>1, <1>4 DEF Course, KeysApart, SameKey
    <3>2. ~outbox[j].flying
      BY <1>1, <1>4 DEF Types, OneFlies
    <3> QED BY <1>1, <1>4, <2>1, <3>1, <3>2 DEF Numbers
  <2>3. outbox[i].version <= outbox[j].version /\ outbox[i].kind = outbox[j].kind
    BY <1>1, <1>4, <2>2 DEF Course, VersionsGrow, SameKey
  <2>4. Kept
    BY <1>1, <1>4 DEF Kept, Course, KeysApart, SameKey, Alike
  <2>5. \A k \in DOMAIN outbox : outbox[k].kind \in {"post", "del"} => k \in DOMAIN outbox'
    <3>1. outbox[i].kind # "post"
      BY <1>1, <1>4, <2>3 DEF Course, OnePost
    <3>2. outbox[i].kind # "del"
      BY <1>1, <1>4, <2>3 DEF Course, OneDelete, SameKey
    <3> QED BY <1>4, <3>1, <3>2
  <2>6. ASSUME NEW t, NEW k \in DOMAIN outbox, outbox[k].kind # "del", Carries(outbox[k], t), t \in Tap
        PROVE  \E l \in DOMAIN outbox' : outbox'[l].kind # "del" /\ Carries(outbox'[l], t)
    <3>1. CASE k \in {i, j}
      <4>1. t \in outbox'[j].holds
        BY <1>4, <2>6, <3>1 DEF Carries
      <4>2. outbox[j].version >= taps[t].asked
        BY <1>1, <1>4, <2>1, <2>3, <2>6, <3>1 DEF Carries, Numbers
      <4>3. outbox'[j].version = outbox[j].version /\ outbox'[j].kind # "del" /\ j \in DOMAIN outbox'
        BY <1>4, <2>3, <2>6, <3>1 DEF Alike
      <4> QED BY <4>1, <4>2, <4>3 DEF Carries
    <3>2. CASE k \notin {i, j}
      BY <1>4, <2>6, <3>2
    <3> QED BY <3>1, <3>2
  <2>7. \A k \in DOMAIN outbox : outbox[k].holds \subseteq Tap
    BY <1>1 DEF IsBox, ItemSet
  <2>8. \A t : \A k \in DOMAIN outbox : outbox[k].kind # "del" /\ Carries(outbox[k], t) =>
                 \E l \in DOMAIN outbox' : outbox'[l].kind # "del" /\ Carries(outbox'[l], t)
    BY <2>6, <2>7 DEF Carries
  <2> QED BY <1>1, <2>4, <2>5, <2>8, CourseKept
<1> QED BY <1>2, <1>3, <1>4 DEF IsPutBack

\* A call that is over: its item is gone, and its outcome is in the chat and in
\* the record.
Finished(i) ==
    /\ DOMAIN outbox' = DOMAIN outbox \ {i} /\ \A j \in DOMAIN outbox' : outbox'[j] = outbox[j]
    /\ rec'.session = rec.session
    /\ tried <= tried' /\ (outbox[i].kind # "del" => outbox[i].version <= tried')
    /\ DOMAIN chat \subseteq DOMAIN chat'
    /\ \A m \in DOMAIN chat : Shows(m)' => Shows(m)
    /\ outbox[i].kind = "post" => rec'.msg # InFlight /\ \A m \in DOMAIN chat' \ DOMAIN chat : m = rec'.msg
    /\ outbox[i].kind # "post" => DOMAIN chat' = DOMAIN chat
    /\ outbox[i].kind = "edit" =>
          \/ rec'.msg = rec.msg
          \/ rec'.msg = NoCard /\ rec.msg = outbox[i].msg /\ ~Shows(outbox[i].msg)
    /\ outbox[i].kind = "del" => rec'.msg = rec.msg /\ \A m : m = outbox[i].msg => ~Shows(m)'

\* What the chat is after a message was posted, and after one was changed.
LEMMA ChatIs ==
    ASSUME Types
    PROVE  /\ DOMAIN chat = 1..Len(chat) /\ Len(chat) \in Nat
           /\ \A v : /\ DOMAIN Append(chat, v) = DOMAIN chat \cup {Len(chat) + 1}
                     /\ Append(chat, v)[Len(chat) + 1] = v
                     /\ \A m \in DOMAIN chat : Append(chat, v)[m] = chat[m]
<1> DEFINE V == (-MaxVersion)..MaxVersion
<1>1. chat \in Seq(V)
  BY DEF Types
<1> HIDE DEF V
<1>2. DOMAIN chat = 1..Len(chat) /\ Len(chat) \in Nat
  BY <1>1
<1>3. ASSUME NEW v
      PROVE  /\ DOMAIN Append(chat, v) = DOMAIN chat \cup {Len(chat) + 1}
             /\ Append(chat, v)[Len(chat) + 1] = v
             /\ \A m \in DOMAIN chat : Append(chat, v)[m] = chat[m]
  <2>1. chat \in Seq(V \cup {v}) /\ v \in V \cup {v}
    BY <1>1
  <2>2. /\ DOMAIN Append(chat, v) = 1..(Len(chat) + 1)
        /\ Append(chat, v)[Len(chat) + 1] = v
        /\ \A m \in 1..Len(chat) : Append(chat, v)[m] = chat[m]
    BY <2>1
  <2>3. 1..(Len(chat) + 1) = 1..Len(chat) \cup {Len(chat) + 1}
    BY <1>2
  <2> QED BY <1>2, <2>2, <2>3
<1> QED BY <1>2, <1>3

LEMMA FinishedIs ==
    ASSUME Types, NEW i \in Flying, Taken(i) \/ Failed(i)
    PROVE  Finished(i)
<1> DEFINE u == outbox[i]
<1>1. i \in DOMAIN outbox /\ IsBox(outbox) /\ outbox' = Without(outbox, {i})
  BY DEF Flying, Types, Taken, Failed
<1>2. DOMAIN outbox' = DOMAIN outbox \ {i} /\ \A j \in DOMAIN outbox' : outbox'[j] = outbox[j]
  <2>1. /\ DOMAIN outbox' = DOMAIN outbox \ {i}
        /\ \A j \in DOMAIN outbox \ {i} : outbox'[j] = outbox[j]
    BY <1>1, WithoutIs, Zenon
  <2> QED BY <2>1
<1>3. /\ u \in ItemSet /\ u.version \in Nat /\ u.version > 0
      /\ u.kind \in {"edit", "del"} => u.msg \in DOMAIN chat
      /\ u.kind \in {"post", "edit", "del"}
  BY <1>1, CardAssumption DEF Types, IsBox, ItemsNamed, ItemSet, Version, Kinds
<1>4. Numbers /\ rec \in [session : Nat, msg : Nat \cup {InFlight}, hash : 0..MaxVersion, refused : BOOLEAN]
  BY NumbersAre DEF Types, Scalars
<1>5. tried <= tried' /\ (u.kind # "del" => u.version <= tried')
  <2> DEFINE v == u.version
  <2>1. v \in Nat /\ tried \in Nat
    BY <1>3, <1>4 DEF Numbers
  <2>2. \/ u.kind = "del" /\ tried' = tried
        \/ tried' = IF v > tried THEN v ELSE tried
    BY DEF Taken, Failed
  <2> HIDE DEF v
  <2>3. tried <= tried' /\ (u.kind # "del" => v <= tried')
    BY <2>1, <2>2
  <2> QED BY <2>3 DEF v
<1> HIDE DEF u
<1>6. ASSUME NEW msg \in Nat, NEW late \in BOOLEAN
      PROVE  Posted(u, msg, late).session = rec.session /\ Posted(u, msg, late).msg = msg
  BY <1>4 DEF Posted
<1>7. CASE Taken(i) /\ u.kind = "post"
  <2>1. chat' = Append(chat, u.version) /\ rec' = Posted(u, Len(chat) + 1, FALSE)
    BY <1>7 DEF Taken, u
  <2>2. /\ DOMAIN chat' = DOMAIN chat \cup {Len(chat) + 1}
        /\ \A m \in DOMAIN chat : chat'[m] = chat[m]
    BY <2>1, ChatIs
  <2>3. rec'.session = rec.session /\ rec'.msg = Len(chat) + 1 /\ rec'.msg # InFlight
    <3>1. Len(chat) + 1 \in Nat /\ Len(chat) + 1 # InFlight
      BY ChatIs DEF InFlight
    <3> QED BY <1>6, <2>1, <3>1
  <2> QED BY <1>2, <1>5, <1>7, <2>2, <2>3 DEF Finished, Shows, u
<1>8. CASE Failed(i)
  <2>1. UNCHANGED chat /\ u.kind = "post" /\ rec' = Posted(u, NoCard, TRUE)
    BY <1>8 DEF Failed, u
  <2>2. rec'.session = rec.session /\ rec'.msg = NoCard /\ NoCard # InFlight
    <3>1. NoCard \in Nat /\ NoCard # InFlight
      BY DEF InFlight, NoCard
    <3> QED BY <1>6, <2>1, <3>1
  <2> QED BY <1>2, <1>5, <2>1, <2>2 DEF Finished, Shows, u
<1>9. CASE Taken(i) /\ u.kind = "edit" /\ Shows(u.msg)
  <2>1. chat' = [chat EXCEPT ![u.msg] = u.version] /\ rec' = rec
    BY <1>9 DEF Taken, u
  <2>2. DOMAIN chat' = DOMAIN chat /\ \A m \in DOMAIN chat : m # u.msg => chat'[m] = chat[m]
    BY <2>1
  <2> QED BY <1>2, <1>5, <1>9, <2>1, <2>2 DEF Finished, Shows, u
<1>10. CASE Taken(i) /\ u.kind = "edit" /\ ~Shows(u.msg)
  <2>1. chat' = chat /\ rec' = NotFound(u)
    BY <1>10 DEF Taken, u
  <2>2. rec'.session = rec.session /\ (rec'.msg = rec.msg \/ (rec'.msg = NoCard /\ rec.msg = u.msg))
    <3>1. CASE rec.msg = u.msg
      <4>1. NotFound(u) = [rec EXCEPT !.msg = NoCard, !.hash = 0, !.refused = FALSE]
        BY <3>1 DEF NotFound
      <4> QED BY <1>4, <2>1, <3>1, <4>1
    <3>2. CASE rec.msg # u.msg
      BY <2>1, <3>2 DEF NotFound
    <3> QED BY <3>1, <3>2
  <2> QED BY <1>2, <1>5, <1>10, <2>1, <2>2 DEF Finished, Shows, u
<1>11. CASE Taken(i) /\ u.kind = "del"
  <2>1. chat' = [chat EXCEPT ![u.msg] = 0] /\ rec' = rec
    BY <1>11 DEF Taken, u
  <2>2. /\ DOMAIN chat' = DOMAIN chat /\ \A m \in DOMAIN chat : m # u.msg => chat'[m] = chat[m]
        /\ chat'[u.msg] = 0
    BY <1>3, <1>11, <2>1
  <2>3. (\A m : m = u.msg => ~Shows(m)') /\ \A m \in DOMAIN chat : Shows(m)' => Shows(m)
    BY <2>2 DEF Shows
  <2>4. rec'.session = rec.session /\ rec'.msg = rec.msg /\ u.kind # "post" /\ u.kind # "edit"
    BY <1>11, <2>1
  <2> QED BY <1>2, <1>5, <2>2, <2>3, <2>4 DEF Finished, u
<1> QED BY <1>3, <1>7, <1>8, <1>9, <1>10, <1>11

LEMMA CourseFinished ==
    ASSUME Types, Types', Course, NEW i \in DOMAIN outbox, Finished(i),
           UNCHANGED <<want, card, look, handler, steps, pictures, taps, excused, stray>>
    PROVE  Course'
<1> DEFINE u == outbox[i]
<1>1. /\ DOMAIN outbox' = DOMAIN outbox \ {i} /\ \A j \in DOMAIN outbox' : outbox'[j] = outbox[j]
      /\ rec'.session = rec.session
      /\ tried <= tried' /\ (u.kind # "del" => u.version <= tried')
      /\ DOMAIN chat \subseteq DOMAIN chat'
      /\ \A m \in DOMAIN chat : Shows(m)' => Shows(m)
      /\ u.kind = "post" => rec'.msg # InFlight /\ \A m \in DOMAIN chat' \ DOMAIN chat : m = rec'.msg
      /\ u.kind # "post" => DOMAIN chat' = DOMAIN chat
      /\ u.kind = "edit" => \/ rec'.msg = rec.msg
                            \/ rec'.msg = NoCard /\ rec.msg = u.msg /\ ~Shows(u.msg)
      /\ u.kind = "del" => rec'.msg = rec.msg /\ \A m : m = u.msg => ~Shows(m)'
  BY DEF Finished
<1>2. Numbers /\ Numbers' /\ u.kind \in {"post", "edit", "del"}
      /\ (u.kind \in {"edit", "del"} => u.msg \in DOMAIN chat)
  BY NumbersAre, NumbersAfter DEF Types, IsBox, ItemsNamed, ItemSet, Kinds
<1>3. /\ u.kind = "post" => /\ rec.msg = InFlight
                            /\ \A j \in DOMAIN outbox' : outbox'[j].kind # "post"
                            /\ \A s \in steps : ~(s.kind = "post" /\ Current(s))
      /\ u.kind # "post" => \A j \in DOMAIN outbox : outbox[j].kind = "post" => j \in DOMAIN outbox'
  BY <1>1 DEF Course, OnePost
<1> HIDE DEF u
<1>4. Kept
  BY <1>1 DEF Kept, Alike, Course, KeysApart
<1>5. /\ ItemsOfSession' /\ KeysApart'
      /\ \A v : Bounds(v) => Bounds(v)'
      /\ \A k, j \in DOMAIN outbox' : k < j => outbox'[k].version <= outbox'[j].version
      /\ \A k, j \in DOMAIN outbox' : outbox'[k].kind = "post" /\ outbox'[j].kind = "post" => k = j
      /\ \A k, j \in DOMAIN outbox' :
            outbox'[k].kind = "del" /\ outbox'[j].kind = "del" /\ outbox'[k].session = outbox'[j].session => k = j
  BY <1>1, <1>4, KeptIs DEF Kept
<1>6. (StepsInOrder /\ TapsKnown)'
  BY <1>1 DEF Course, StepsInOrder, TapsKnown
<1>7. LookIsFresh'
  <2> SUFFICES ASSUME NEW th \in Thread, look[th] # None
               PROVE  /\ rec'.msg = InFlight => look[th].msg = InFlight
                      /\ \/ look[th].msg \in {InFlight, rec'.msg}
                         \/ rec'.msg = NoCard /\ ~Shows(look[th].msg)'
    BY <1>1 DEF Course, LookIsFresh
  <2>1. /\ rec.msg = InFlight => look[th].msg = InFlight
        /\ \/ look[th].msg \in {InFlight, rec.msg}
           \/ rec.msg = NoCard /\ ~Shows(look[th].msg)
    BY DEF Course, LookIsFresh
  <2>2. look[th].msg \in DOMAIN chat \cup {InFlight, NoCard}
    BY DEF Types, Named
  <2>3. ~Shows(look[th].msg) => look[th].msg = InFlight \/ ~Shows(look[th].msg)'
    BY <1>1, <1>2, <2>2 DEF Shows, Numbers
  <2>4. CASE u.kind = "post"
    BY <1>3, <2>1, <2>4
  <2>5. CASE u.kind = "edit"
    BY <1>1, <1>2, <2>1, <2>3, <2>5 DEF Numbers
  <2>6. CASE u.kind = "del"
    BY <1>1, <2>1, <2>3, <2>6
  <2> QED BY <1>2, <2>4, <2>5, <2>6
<1>8. OnePost'
  <2>1. CASE u.kind = "post"
    BY <1>1, <1>3, <2>1 DEF OnePost, PostIsUnderWay, Current
  <2>2. CASE u.kind # "post" /\ rec'.msg = rec.msg
    BY <1>1, <1>3, <1>5, <2>2 DEF Course, OnePost, PostIsUnderWay, Current
  <2>3. CASE u.kind # "post" /\ rec'.msg = NoCard /\ rec.msg = u.msg
    <3>1. rec.msg # InFlight /\ rec'.msg # InFlight
      BY <1>1, <1>2, <2>3 DEF Numbers
    <3> QED BY <1>1, <1>5, <2>3, <3>1 DEF Course, OnePost, PostIsUnderWay, Current
  <2> QED BY <1>1, <1>2, <2>1, <2>2, <2>3
<1>9. OneDelete'
  BY <1>1, <1>5 DEF Course, OneDelete, Deleting, Current
<1>10. OneCard'
  <2> SUFFICES ASSUME NEW m \in DOMAIN chat', Shows(m)', m # rec'.msg, m \notin stray
               PROVE  \/ \E j \in DOMAIN outbox' : outbox'[j].kind = "del" /\ outbox'[j].msg = m
                      \/ \E s \in steps : s.kind = "post" /\ s.msg = m /\ Current(s)
    BY <1>1 DEF OneCard, Current
  <2>1. m \in DOMAIN chat /\ Shows(m)
    BY <1>1
  <2>2. m # rec.msg
    <3>1. CASE u.kind = "post"
      BY <1>2, <1>3, <2>1, <3>1 DEF Numbers
    <3>2. CASE u.kind # "post"
      BY <1>1, <1>2, <2>1, <3>2
    <3> QED BY <3>1, <3>2
  <2>3. CASE \E j \in DOMAIN outbox : outbox[j].kind = "del" /\ outbox[j].msg = m
    <3>1. PICK j \in DOMAIN outbox : outbox[j].kind = "del" /\ outbox[j].msg = m
      BY <2>3
    <3>2. j # i
      BY <1>1, <3>1 DEF u, Shows
    <3> QED BY <1>1, <3>1, <3>2
  <2> QED BY <2>1, <2>2, <2>3 DEF Course, OneCard
<1>11. VersionsGrow'
  BY <1>1, <1>5 DEF Course, VersionsGrow, Current
<1>12. TapsCarried'
  <2> SUFFICES ASSUME NEW t \in Tap \ excused
               PROVE  /\ taps[t].state = "done" => tried' >= taps[t].asked
                      /\ taps[t].state = "open" => tried' >= taps[t].asked \/ Carried(t)'
    BY DEF TapsCarried
  <2>1. tried >= taps[t].asked => tried' >= taps[t].asked
    BY <1>1, <1>2 DEF Numbers
  <2>2. Carried(t) => tried' >= taps[t].asked \/ Carried(t)'
    <3>1. ASSUME NEW j \in DOMAIN outbox, outbox[j].kind # "del", Carries(outbox[j], t)
          PROVE  tried' >= taps[t].asked \/ Carried(t)'
      <4>1. CASE j = i
        <5>1. u.version >= taps[t].asked /\ u.version <= tried' /\ u.version \in Nat /\ tried' \in Nat /\ taps[t].asked \in Nat
          BY <1>1, <1>2, <3>1, <4>1 DEF Numbers, Carries, u
        <5> QED BY <5>1
      <4>2. CASE j # i
        BY <1>1, <3>1, <4>2 DEF Carried, Carries
      <4> QED BY <4>1, <4>2
    <3> QED BY <3>1 DEF Carried, Carries
  <2> QED BY <2>1, <2>2 DEF Course, TapsCarried
<1> QED BY <1>5, <1>6, <1>7, <1>8, <1>9, <1>10, <1>11, <1>12 DEF Course

LEMMA CourseAnswers ==
    ASSUME Types, Types', Course, Answers
    PROVE  Course'
<1>1. PICK i \in Flying : Taken(i) \/ Failed(i) \/ Refused(i) \/ Parked(i)
  BY DEF Answers
<1>2. UNCHANGED <<want, card, look, handler, steps, pictures, taps, excused, stray>> /\ i \in DOMAIN outbox
  BY DEF Answers, Flying
<1>3. CASE Taken(i) \/ Failed(i)
  BY <1>2, <1>3, FinishedIs, CourseFinished
<1>4. CASE Refused(i)
  BY <1>2, <1>4, CourseRefused
<1>5. CASE Parked(i)
  BY <1>2, <1>5, CourseParked
<1> QED BY <1>1, <1>3, <1>4, <1>5

\* What the outbox and the record are when the topic passes to another session.
LEMMA RekeysIs ==
    ASSUME Types, Rekeys
    PROVE  /\ DOMAIN outbox' = DOMAIN outbox \ Dropped /\ \A i \in DOMAIN outbox' : outbox'[i] = outbox[i]
           /\ \A i \in Dropped : outbox[i].kind = "edit"
           /\ rec'.session = rec.session + 1 /\ rec'.msg = rec.msg
           /\ card'.holds = {} /\ card'.seq = 0 /\ want' = want + 1
           /\ look'["tick"].session = rec.session + 1 /\ look'["tick"].msg = rec.msg
           /\ look'["tick"].version = want + 1 /\ look'["tick"].taps = {}
           /\ \A th \in Thread : th # "tick" => look'[th] = look[th]
<1>1. outbox' = Without(outbox, Dropped) /\ IsBox(outbox) /\ card' = NewCard /\ want' = want + 1
  BY DEF Rekeys, Types
<1>2. /\ DOMAIN outbox' = DOMAIN outbox \ Dropped
      /\ \A j \in DOMAIN outbox \ Dropped : outbox'[j] = outbox[j]
  BY <1>1, WithoutIs, Zenon
<1>3. \A i \in Dropped : outbox[i].kind = "edit"
  BY DEF Dropped
<1>4. rec'.session = rec.session + 1 /\ rec'.msg = rec.msg
  BY DEF Rekeys, Types, Scalars
<1> DEFINE l == [session |-> rec.session + 1, msg |-> rec.msg, hash |-> 0, late |-> rec.refused,
                 version |-> want + 1, repost |-> FALSE, taps |-> {}]
<1>5. l.session = rec.session + 1 /\ l.msg = rec.msg /\ l.version = want + 1 /\ l.taps = {}
  OBVIOUS
<1>6. look' = [look EXCEPT !["tick"] = l] /\ look \in [Thread -> LookSet \cup {None}]
  BY DEF Rekeys, Types, Scalars
<1> HIDE DEF l
<1>7. look'["tick"] = l /\ \A th \in Thread : th # "tick" => look'[th] = look[th]
  BY <1>6 DEF Thread
<1> QED BY <1>1, <1>2, <1>3, <1>4, <1>5, <1>7, NewCardIs

LEMMA CourseRekeys ==
    ASSUME Types, Types', Course, Races \subseteq {"overtake"}, Rekeys
    PROVE  Course'
<1>1. UNCHANGED <<handler, steps, pictures, chat, taps, tried, stray>>
      /\ excused' = excused \cup card.holds \cup UNION {outbox[i].holds : i \in Dropped}
  BY DEF Rekeys
<1>2. (\A th \in Thread : look[th] = None) /\ \A s \in steps : ~(s.kind = "post" /\ Current(s))
  BY DEF Rekeys, Alone
<1>3. Numbers /\ Numbers'
  BY NumbersAre, NumbersAfter
<1>4. /\ DOMAIN outbox' = DOMAIN outbox \ Dropped /\ \A i \in DOMAIN outbox' : outbox'[i] = outbox[i]
      /\ \A i \in Dropped : outbox[i].kind = "edit"
      /\ rec'.session = rec.session + 1 /\ rec'.msg = rec.msg
      /\ card'.holds = {} /\ card'.seq = 0 /\ want' = want + 1
  BY RekeysIs
<1>5. /\ look'["tick"].session = rec.session + 1 /\ look'["tick"].msg = rec.msg
      /\ look'["tick"].version = want + 1 /\ look'["tick"].taps = {}
      /\ \A th \in Thread : look'[th] # None => th = "tick"
  BY <1>2, RekeysIs
<1>6. Kept
  BY <1>4 DEF Kept, Alike, Course, KeysApart
<1>7. /\ ItemsOfSession' /\ KeysApart'
      /\ \A v : Bounds(v) => Bounds(v)'
      /\ \A k, j \in DOMAIN outbox' : k < j => outbox'[k].version <= outbox'[j].version
      /\ \A k, j \in DOMAIN outbox' : outbox'[k].kind = "post" /\ outbox'[j].kind = "post" => k = j
      /\ \A k, j \in DOMAIN outbox' :
            outbox'[k].kind = "del" /\ outbox'[j].kind = "del" /\ outbox'[k].session = outbox'[j].session => k = j
  BY <1>4, <1>6, KeptIs DEF Kept
<1>8. \A s \in steps : ~Current(s)' /\ s.session < rec'.session
  BY <1>3, <1>4 DEF Course, StepsInOrder, Current, Numbers
<1>9. LookIsFresh'
  BY <1>4, <1>5 DEF LookIsFresh, Thread
<1>10. StepsInOrder'
  BY <1>1, <1>8 DEF Course, StepsInOrder
<1>11. OnePost'
  BY <1>1, <1>2, <1>4, <1>7, <1>8 DEF Course, OnePost, PostIsUnderWay
<1>12. OneDelete'
  BY <1>1, <1>7, <1>8 DEF OneDelete
<1>13. OneCard'
  BY <1>1, <1>2, <1>4 DEF Course, OneCard, Shows
<1>14. VersionsGrow'
  <2>1. Bounds(want)'
    BY <1>3, <1>4 DEF Course, VersionsGrow, Bounds, Numbers
  <2>2. \A s \in steps : s.version <= want'
    BY <1>3, <1>4 DEF Course, VersionsGrow, Numbers
  <2>3. \A th \in Thread : look'[th] # None => look'[th].version = want'
    BY <1>4, <1>5
  <2> QED BY <1>1, <1>3, <1>7, <1>8, <2>1, <2>2, <2>3 DEF VersionsGrow, Bounds, Numbers
<1>15. TapsKnown'
  BY <1>1, <1>3, <1>4, <1>5 DEF Course, TapsKnown, Numbers
<1>16. TapsCarried'
  <2>1. \A t \in Tap \ excused' : Carried(t) => Carried(t)'
    BY <1>1, <1>4 DEF Carried, Carries
  <2> QED BY <1>1, <2>1 DEF Course, TapsCarried
<1> QED BY <1>7, <1>9, <1>10, <1>11, <1>12, <1>13, <1>14, <1>15, <1>16 DEF Course

LEMMA CourseRestarts ==
    ASSUME Types, Types', Course, Races \subseteq {"overtake"}, Restarts
    PROVE  Course'
<1>1. /\ UNCHANGED <<want, look, handler, steps, pictures, chat, taps, tried>> /\ outbox' = << >> /\ steps = {}
      /\ \A th \in Thread : look[th] = None
      /\ excused' = excused \cup Held /\ stray' = stray \cup {m \in DOMAIN chat : m # rec.msg}
  BY DEF Restarts
<1>2. DOMAIN outbox' = {} /\ card'.holds = {}
  BY <1>1, NewCardIs DEF Restarts
<1>3. rec'.msg = (IF rec.msg = InFlight THEN NoCard ELSE rec.msg) /\ rec'.msg # InFlight
  BY DEF Restarts, Types, Scalars, InFlight, NoCard
<1>4. LookIsFresh'
  BY <1>1 DEF LookIsFresh, Thread
<1>5. (StepsInOrder /\ ItemsOfSession /\ OnePost /\ OneDelete /\ KeysApart)'
  BY <1>1, <1>2, <1>3 DEF StepsInOrder, ItemsOfSession, OnePost, PostIsUnderWay, OneDelete, KeysApart
<1>6. OneCard'
  BY <1>1, <1>3, NumbersAre DEF OneCard, Shows, Numbers
<1>7. (VersionsGrow /\ TapsKnown)'
  BY <1>1, <1>2 DEF Course, VersionsGrow, Bounds, TapsKnown
<1>8. TapsCarried'
  <2>1. \A t \in Tap : Carried(t) => t \in Held
    BY CardAssumption DEF Carried, Carries, Held
  <2> QED BY <1>1, <2>1 DEF Course, TapsCarried
<1> QED BY <1>4, <1>5, <1>6, <1>7, <1>8 DEF Course

LEMMA CourseNext ==
    ASSUME Types, Types', Course, Races \subseteq {"overtake"}, [Next]_vars
    PROVE  Course'
<1>1. ASSUME NEW th \in Thread, Looks(th) PROVE Course'
  BY <1>1, CourseLooks
<1>2. ASSUME NEW th \in Thread, Decides(th) PROVE Course'
  BY <1>2, CourseWaits, CourseDecides DEF Decides
<1>3. ASSUME NEW s \in steps, Settles(s) PROVE Course'
  BY <1>3, CourseSettles
<1>4. CASE Takes
  BY <1>4, CourseTakes
<1>5. CASE Answers
  BY <1>5, CourseAnswers
<1>6. CASE Unparks \/ Retries \/ Changes \/ Pushed \/ Switches
  BY <1>6, CourseQuiet
<1>7. ASSUME NEW t \in Tap, TapFlips(t) \/ TapDone(t) \/ TapLimit(t) PROVE Course'
  BY <1>7, CourseTaps
<1>8. CASE Deletes
  BY <1>8, CourseDeletes
<1>9. CASE Rekeys
  BY <1>9, CourseRekeys
<1>10. CASE Restarts
  BY <1>10, CourseRestarts
<1>11. CASE UNCHANGED vars
  <2>1. (LookIsFresh /\ StepsInOrder /\ ItemsOfSession)'
    BY <1>11 DEF vars, Course, LookIsFresh, Shows, StepsInOrder, ItemsOfSession
  <2>2. (OnePost /\ OneDelete /\ OneCard /\ KeysApart)'
    BY <1>11 DEF vars, Course, OnePost, PostIsUnderWay, Current, OneDelete, Deleting, OneCard, Shows, KeysApart
  <2>3. (VersionsGrow /\ TapsKnown /\ TapsCarried)'
    BY <1>11 DEF vars, Course, VersionsGrow, Bounds, Current, TapsKnown, TapsCarried, Carried, Carries
  <2> QED BY <2>1, <2>2, <2>3 DEF Course
<1> QED BY <1>1, <1>2, <1>3, <1>4, <1>5, <1>6, <1>7, <1>8, <1>9, <1>10, <1>11 DEF Next

\* Without the coincidences that break it, an update keeps its course.
LEMMA CourseAlways ==
    ASSUME Races \subseteq {"overtake"}
    PROVE  Spec => [](Types /\ Course)
<1>1. Init => Types /\ Course
  BY TypesInit, CourseInit
<1>2. Types /\ Course /\ [Next]_vars => (Types /\ Course)'
  <2> SUFFICES ASSUME Types, Course, [Next]_vars PROVE Types' /\ Course'
    OBVIOUS
  <2>1. Types'
    BY TypesNext
  <2> QED BY <2>1, CourseNext
<1> QED BY <1>1, <1>2, PTL DEF Spec

\* A record that waits for the answer of a post has a post under way: the topic
\* never waits for ever and without a card.
THEOREM PostUnderWay ==
    ASSUME Races \subseteq {"overtake"}
    PROVE  Spec => []PostIsUnderWay
<1>1. Course => PostIsUnderWay
  BY DEF Course, OnePost
<1> QED BY <1>1, CourseAlways, PTL

\* The topic shows one card, or any other one is about to be deleted: a repost
\* leaves no second card behind, whatever the post and the delete run into.
THEOREM OnlyOneCard ==
    ASSUME Races \subseteq {"overtake"}
    PROVE  Spec => []OneCard
<1>1. Course => OneCard
  BY DEF Course
<1> QED BY <1>1, CourseAlways, PTL

\* A tap that its work let go was answered after Telegram answered an update as
\* new as what the tap asked for: the hold is never lost on its way from the
\* card to the update, its picture, the outbox, a newer item, a plainer form.
THEOREM TapsWaitForWork ==
    ASSUME Races \subseteq {"overtake"}
    PROVE  Spec => []AnswerWaitsForWork
<1>1. Course => AnswerWaitsForWork
  BY DEF Course, TapsCarried, AnswerWaitsForWork
<1> QED BY <1>1, CourseAlways, PTL

----------------------------------------------------------------------------
(***************************************************************************)
(* The order of the edits, step by step.                                    *)
(***************************************************************************)

LEMMA EditOrderInit == Init => EditOrder
<1> SUFFICES ASSUME Init PROVE EditOrder
  OBVIOUS
<1>1. DOMAIN outbox = {} /\ DOMAIN chat = {} /\ steps = {} /\ \A th \in Thread : look[th] = None
  BY DEF Init
<1> QED BY <1>1 DEF EditOrder, PlainEdits, NoneOvertaken, FirstFlies, SessionsGrow, ShownGrows, ShownBefore

\* The steps that leave the outbox, the chat and the updates alone.
LEMMA EditsRest ==
    ASSUME Types, Types', EditOrder, UNCHANGED <<outbox, chat>>, rec'.session = rec.session, want <= want',
           \A s \in steps' : s \in steps /\ (Current(s)' => Current(s)),
           \A th \in Thread : look'[th] # None => look'[th] = look[th] \/ look'[th].version = want
    PROVE  EditOrder'
<1>1. Numbers /\ Numbers'
  BY NumbersAre, NumbersAfter
<1>2. (PlainEdits /\ NoneOvertaken /\ FirstFlies /\ SessionsGrow)'
  BY DEF EditOrder, PlainEdits, NoneOvertaken, FirstFlies, SessionsGrow, IsEdit
<1>3. ShownGrows'
  <2>1. ShownBefore(want) /\ ShownBefore(want)'
    BY <1>1 DEF EditOrder, ShownGrows, ShownBefore, Numbers
  <2>2. \A th \in Thread : look'[th] # None => ShownBefore(look[th].version) \/ look'[th].version = want
    BY DEF EditOrder, ShownGrows
  <2>3. ASSUME NEW th \in Thread, look'[th] # None PROVE \A m \in DOMAIN chat' : chat'[m] <= look'[th].version
    BY <2>1, <2>3 DEF EditOrder, ShownGrows, ShownBefore
  <2>4. \A s \in steps' : Current(s)' => \A m \in DOMAIN chat' : chat'[m] <= s.version
    BY DEF EditOrder, ShownGrows, ShownBefore
  <2>5. \A i \in DOMAIN outbox' : IsEdit(i)' => chat'[outbox'[i].msg] <= outbox'[i].version
    BY DEF EditOrder, ShownGrows, IsEdit
  <2> QED BY <2>1, <2>3, <2>4, <2>5 DEF ShownGrows, ShownBefore
<1> QED BY <1>2, <1>3 DEF EditOrder

LEMMA EditsQuiet ==
    ASSUME Types, Types', Course, EditOrder,
           \/ Unparks \/ Retries \/ Changes \/ Pushed \/ Switches
           \/ \E t \in Tap : TapFlips(t) \/ TapDone(t) \/ TapLimit(t)
           \/ \E th \in Thread : Looks(th) \/ Waits(th) \/ Leaves(th)
    PROVE  EditOrder'
<1>1. CASE \/ Unparks \/ Retries \/ Changes \/ Pushed \/ Switches
           \/ \E t \in Tap : TapFlips(t) \/ TapDone(t) \/ TapLimit(t)
  <2>1. UNCHANGED <<look, steps, outbox, chat>>
    BY <1>1 DEF Unparks, Retries, Changes, Pushed, Switches, TapFlips, TapDone, TapLimit
  <2>2. rec'.session = rec.session
    BY <1>1 DEF Unparks, Retries, Changes, Pushed, Switches, TapFlips, TapDone, TapLimit, Types, Scalars
  <2>3. card'.seq = card.seq
    BY <1>1 DEF Unparks, Retries, Changes, Pushed, Switches, TapFlips, TapDone, TapLimit, Types, Scalars
  <2>4. want <= want'
    BY <1>1, NumbersAre DEF Unparks, Retries, Changes, Pushed, Switches, TapFlips, TapDone, TapLimit, Numbers
  <2>5. \A s \in steps' : s \in steps /\ (Current(s)' => Current(s))
    BY <2>1, <2>2, <2>3 DEF Current
  <2> QED BY <2>1, <2>2, <2>4, <2>5, EditsRest
<1>2. ASSUME NEW th \in Thread, Looks(th) PROVE EditOrder'
  <2>1. UNCHANGED <<want, rec, steps, outbox, chat>>
    BY <1>2 DEF Looks
  <2>2. \A s \in steps' : s \in steps /\ (Current(s)' => Current(s))
    BY <1>2, <2>1, LooksIs DEF Current
  <2>3. \A other \in Thread : look'[other] # None => look'[other] = look[other] \/ look'[other].version = want
    BY <1>2, LooksIs
  <2>4. want <= want' /\ rec'.session = rec.session
    BY <2>1, NumbersAre DEF Numbers
  <2> QED BY <2>1, <2>2, <2>3, <2>4, EditsRest
<1>3. ASSUME NEW th \in Thread, Waits(th) \/ Leaves(th) PROVE EditOrder'
  <2>1. UNCHANGED <<want, rec, steps, outbox, chat>> /\ Ends(th) /\ look[th] # None
    BY <1>3 DEF Waits, Leaves
  <2>2. card'.seq = card.seq
    BY <1>3 DEF Waits, Leaves, Types, Scalars
  <2>3. \A s \in steps' : s \in steps /\ (Current(s)' => Current(s))
    BY <2>1, <2>2 DEF Current
  <2>4. \A other \in Thread : look'[other] # None => look'[other] = look[other] \/ look'[other].version = want
    BY <2>1, EndsIs
  <2>5. want <= want' /\ rec'.session = rec.session
    BY <2>1, NumbersAre DEF Numbers
  <2> QED BY <2>1, <2>3, <2>4, <2>5, EditsRest
<1> QED BY <1>1, <1>2, <1>3

\* What a queued update leaves of the order of the edits.
EditsAfterQueued ==
    /\ (PlainEdits /\ NoneOvertaken /\ FirstFlies /\ SessionsGrow)'
    /\ \A i \in DOMAIN outbox' : IsEdit(i)' => chat'[outbox'[i].msg] <= outbox'[i].version

LEMMA EditsQueued ==
    ASSUME Types, Course, EditOrder, NEW u \in Updating, NEW form \in Forms, Queues(u, form),
           rec'.session = rec.session, u.session = rec.session, UNCHANGED chat,
           u.kind = "edit" => u.msg \in DOMAIN chat /\ ShownBefore(u.version)
    PROVE  EditsAfterQueued
<1>1. PICK old, d, n : Joins(outbox, outbox', u, old, d, n)
  BY QueuedIs DEF Types
<1>2. /\ old \subseteq DOMAIN outbox /\ d \in Nat /\ n \in Nat /\ d <= n
      /\ DOMAIN outbox' = old \cup {d, n}
      /\ \A i \in old : i < d /\ outbox'[i] = outbox[i]
      /\ outbox'[n].kind = u.kind /\ outbox'[n].session = u.session /\ outbox'[n].version = u.version
      /\ outbox'[n].msg = u.msg /\ outbox'[n].keyed /\ ~outbox'[n].flying
      /\ d # n => outbox'[d].kind = "del" /\ outbox'[d].session = u.session
  BY <1>1 DEF Joins, IsFor, Ids
<1>3. \A i \in old : ~(outbox[i].keyed /\ ~outbox[i].flying /\ outbox[i].kind = u.kind /\ outbox[i].session = u.session)
  BY <1>1 DEF Joins
<1>4. Numbers /\ \A i \in old : i \in Nat
  BY <1>2, NumbersAre DEF Numbers
<1>5. PlainEdits'
  BY <1>2 DEF EditOrder, PlainEdits, IsEdit
<1>6. NoneOvertaken'
  <2> SUFFICES ASSUME NEW i \in DOMAIN outbox', NEW j \in DOMAIN outbox',
                      outbox'[i].kind = "edit", outbox'[j].kind = "edit", i < j,
                      outbox'[i].prio = "card", outbox'[j].prio = "final"
               PROVE  outbox'[i].flying /\ outbox'[j].keyed
    BY DEF NoneOvertaken, IsEdit
  <2>1. i \in old
    BY <1>2, <1>4
  <2>2. CASE j \in old
    BY <1>2, <2>1, <2>2 DEF EditOrder, NoneOvertaken, IsEdit
  <2>3. CASE j = n
    <3>1. outbox[i].kind = "edit" /\ outbox[i].prio = "card" /\ u.kind = "edit" /\ outbox'[i] = outbox[i]
      BY <1>2, <2>1, <2>3
    <3>2. outbox[i].keyed /\ (outbox[i].flying \/ outbox[i].session = rec.session)
      BY <1>2, <2>1, <3>1 DEF EditOrder, PlainEdits, IsEdit
    <3>3. outbox[i].flying
      BY <1>3, <2>1, <3>1, <3>2
    <3> QED BY <1>2, <2>3, <3>1, <3>3
  <2> QED BY <1>2, <2>2, <2>3
<1>7. FirstFlies'
  <2> SUFFICES ASSUME NEW i \in DOMAIN outbox', NEW j \in DOMAIN outbox',
                      outbox'[i].kind = "edit", outbox'[j].kind = "edit", outbox'[i].flying
               PROVE  i <= j
    BY DEF FirstFlies, IsEdit
  <2>1. i \in old
    BY <1>2
  <2>2. CASE j \in old
    BY <1>2, <2>1, <2>2 DEF EditOrder, FirstFlies, IsEdit
  <2> QED BY <1>2, <1>4, <2>1, <2>2
<1>8. SessionsGrow'
  <2> SUFFICES ASSUME NEW i \in DOMAIN outbox', NEW j \in DOMAIN outbox', i < j
               PROVE  outbox'[i].session <= outbox'[j].session
    BY DEF SessionsGrow
  <2>1. CASE j \in old
    <3>1. i \in old
      BY <1>2, <1>4, <2>1
    <3> QED BY <1>2, <2>1, <3>1 DEF EditOrder, SessionsGrow
  <2>2. CASE j \in {d, n}
    <3>1. outbox'[j].session = rec.session /\ rec.session \in Nat
      BY <1>2, <1>4, <2>2 DEF Numbers
    <3>2. outbox'[i].session <= rec.session
      BY <1>2, <1>4 DEF Course, ItemsOfSession, Numbers
    <3> QED BY <3>1, <3>2
  <2> QED BY <1>2, <2>1, <2>2
<1>9. \A i \in DOMAIN outbox' : IsEdit(i)' => chat'[outbox'[i].msg] <= outbox'[i].version
  BY <1>2 DEF EditOrder, ShownGrows, ShownBefore, IsEdit
<1> QED BY <1>5, <1>6, <1>7, <1>8, <1>9 DEF EditsAfterQueued

LEMMA EditsDecides ==
    ASSUME Types, Types', Course, EditOrder, Races \subseteq {"overtake"}, NEW th \in Thread, Posts(th) \/ Edits(th)
    PROVE  EditOrder'
<1>1. UNCHANGED <<want, chat>> /\ Ends(th) /\ look[th] # None
  BY DEF Posts, Edits
<1>2. PICK u \in Updating : Decided(th, u)
  BY DecidesIs
<1>3. /\ u.session = rec.session /\ u.seq = card.seq + 1 /\ rec'.session = rec.session
      /\ u.version = look[th].version /\ u.msg = look[th].msg /\ look[th].msg # InFlight
      /\ u.kind = "edit" => u.msg # NoCard
      /\ card'.seq = IF pictures THEN card.seq + 1 ELSE card.seq
      /\ \/ pictures /\ steps' = steps \cup {u} /\ UNCHANGED outbox
         \/ UNCHANGED steps /\ \E form \in Forms : Queues(u, form)
  BY <1>2 DEF Decided
<1>4. ShownBefore(u.version)
  BY <1>1, <1>3 DEF EditOrder, ShownGrows
<1>5. u.kind = "edit" => u.msg \in DOMAIN chat
  BY <1>1, <1>3 DEF Types, Named
<1>6. \A other \in Thread : look'[other] = None
  BY <1>1, EndsIs
<1>7. \A s \in steps : ~Current(s)'
  <2>1. CASE pictures
    BY <1>3, <2>1, NumbersAre DEF Course, StepsInOrder, Current, Numbers
  <2>2. CASE ~pictures
    BY <2>2 DEF Course, StepsInOrder
  <2> QED BY <2>1, <2>2
<1>8. CASE pictures /\ steps' = steps \cup {u} /\ UNCHANGED outbox
  <2>1. (PlainEdits /\ NoneOvertaken /\ FirstFlies /\ SessionsGrow)'
    BY <1>3, <1>8 DEF EditOrder, PlainEdits, NoneOvertaken, FirstFlies, SessionsGrow, IsEdit
  <2>2. ShownGrows'
    BY <1>1, <1>4, <1>6, <1>7, <1>8 DEF EditOrder, ShownGrows, ShownBefore, IsEdit
  <2> QED BY <2>1, <2>2 DEF EditOrder
<1>9. ASSUME UNCHANGED steps, NEW form \in Forms, Queues(u, form) PROVE EditOrder'
  <2>1. EditsAfterQueued
    BY <1>1, <1>3, <1>4, <1>5, <1>9, EditsQueued
  <2>2. ShownGrows'
    BY <1>1, <1>6, <1>7, <1>9, <2>1 DEF EditOrder, ShownGrows, ShownBefore, EditsAfterQueued
  <2> QED BY <2>1, <2>2 DEF EditOrder, EditsAfterQueued
<1> QED BY <1>3, <1>8, <1>9

LEMMA EditsSettles ==
    ASSUME Types, Types', Course, EditOrder, NEW s \in steps, Settles(s)
    PROVE  EditOrder'
<1>1. UNCHANGED <<want, card, look, chat>> /\ steps' = steps \ {s}
  BY DEF Settles
<1>2. s \in Updating /\ rec'.session = rec.session /\ Numbers
  BY NumbersAre DEF Settles, Types, Scalars
<1>3. CASE ~Current(s)
  <2>1. UNCHANGED outbox
    BY <1>3 DEF Settles
  <2>2. \A r \in steps' : r \in steps /\ (Current(r)' => Current(r))
    BY <1>1, <1>2 DEF Current
  <2>3. want <= want'
    BY <1>1, <1>2 DEF Numbers
  <2> QED BY <1>1, <1>2, <2>1, <2>2, <2>3, EditsRest
<1>4. CASE Current(s)
  <2> DEFINE u == [s EXCEPT !.holds = @ \cap Open]
  <2>1. Queues(u, "pictured") /\ "pictured" \in Forms
    BY <1>4 DEF Settles, Forms
  <2>2. u \in Updating /\ u.msg = s.msg /\ u.kind = s.kind /\ u.session = s.session /\ u.version = s.version
    BY <1>2 DEF Updating
  <2> HIDE DEF u
  <2>3. u.session = rec.session
    BY <1>4, <2>2 DEF Current
  <2>4. u.kind = "edit" => u.msg \in DOMAIN chat /\ ShownBefore(u.version)
    BY <1>4, <2>2 DEF Types, Named, EditOrder, ShownGrows
  <2>5. EditsAfterQueued
    BY <1>1, <1>2, <2>1, <2>2, <2>3, <2>4, EditsQueued
  <2>6. \A r \in steps' : ~Current(r)'
    BY <1>1, <1>2, <1>4 DEF Course, StepsInOrder, Current
  <2>7. ShownGrows'
    BY <1>1, <2>5, <2>6 DEF EditOrder, ShownGrows, ShownBefore, EditsAfterQueued
  <2> QED BY <2>5, <2>7 DEF EditOrder, EditsAfterQueued
<1> QED BY <1>3, <1>4

\* What removed items, or one that changes in its place, leave alone.
LEMMA EditsKept ==
    ASSUME Types, Types', Course, EditOrder, Kept,
           UNCHANGED <<want, look, steps, chat>>, card'.seq = card.seq, rec'.session = rec.session
    PROVE  SessionsGrow' /\ ShownGrows'
<1>1. \A i \in DOMAIN outbox' : i \in DOMAIN outbox /\ Alike(outbox'[i], outbox[i])
  BY DEF Kept
<1>2. SessionsGrow'
  BY <1>1 DEF EditOrder, SessionsGrow, Alike
<1>3. ShownGrows'
  <2>1. \A i \in DOMAIN outbox' : IsEdit(i)' => chat'[outbox'[i].msg] <= outbox'[i].version
    BY <1>1 DEF EditOrder, ShownGrows, IsEdit, Alike
  <2> QED BY <2>1 DEF EditOrder, ShownGrows, ShownBefore, Current
<1> QED BY <1>2, <1>3

\* Of the ready items the first in the order is taken: no edit is before it.
LEMMA EditsTakes ==
    ASSUME Types, Types', Course, EditOrder, Takes
    PROVE  EditOrder'
<1>1. PICK i \in Ready : (\A j \in Ready : Before(i, j)) /\ outbox' = [outbox EXCEPT ![i].flying = TRUE]
  BY DEF Takes
<1>2. outbox' = Marked(outbox, i, 1)
  <2>1. (1 = 1) = TRUE
    OBVIOUS
  <2> QED BY <1>1, <2>1, Zenon DEF Marked
<1>3. i \in DOMAIN outbox /\ 1 \in {0, 1} /\ IsBox(outbox) /\ Numbers
  BY NumbersAre DEF Ready, Types
<1>4. /\ DOMAIN outbox' = DOMAIN outbox /\ Alike(outbox'[i], outbox[i]) /\ outbox'[i].flying
      /\ \A j \in DOMAIN outbox \ {i} : outbox'[j] = outbox[j]
      /\ outbox'[i].keyed = outbox[i].keyed
  BY <1>2, <1>3, MarkedIs
<1>5. /\ UNCHANGED <<want, rec, card, look, steps, chat>>
      /\ \A j \in DOMAIN outbox : ~outbox[j].flying
  BY DEF Takes, Flying
<1>6. \A j \in DOMAIN outbox' : /\ Alike(outbox'[j], outbox[j])
                                /\ outbox'[j].keyed = outbox[j].keyed
                                /\ outbox[j].flying => outbox'[j].flying
                                /\ outbox'[j].flying => j = i
  BY <1>4, <1>5 DEF Alike
<1>7. Kept
  BY <1>4, <1>6 DEF Kept, Course, KeysApart, SameKey, Alike
<1>8. SessionsGrow' /\ ShownGrows'
  BY <1>5, <1>7, EditsKept
<1>9. (PlainEdits /\ NoneOvertaken)'
  BY <1>4, <1>5, <1>6 DEF EditOrder, PlainEdits, NoneOvertaken, IsEdit, Alike
<1>10. FirstFlies'
  <2> SUFFICES ASSUME outbox[i].kind = "edit", NEW j \in DOMAIN outbox, outbox[j].kind = "edit"
               PROVE  i <= j
    BY <1>4, <1>6 DEF FirstFlies, IsEdit, Alike
  <2>1. j \in Ready
    BY <1>1 DEF Ready
  <2>2. i \in Nat /\ j \in Nat
    BY <1>3 DEF Numbers
  <2>3. CASE outbox[i].prio = "final" /\ outbox[j].prio = "card"
    <3>1. ~(j < i)
      BY <1>3, <1>5, <2>3 DEF EditOrder, NoneOvertaken, IsEdit
    <3> QED BY <2>2, <3>1
  <2>4. CASE outbox[i].prio = outbox[j].prio /\ i <= j
    BY <2>4
  <2> QED BY <1>1, <2>1, <2>3, <2>4 DEF Before
<1> QED BY <1>8, <1>9, <1>10 DEF EditOrder

\* A refused edit goes again without its key; no earlier one can be overtaken.
LEMMA EditsRefused ==
    ASSUME Types, Types', Course, EditOrder, Races = {}, NEW i \in Flying, Refused(i),
           UNCHANGED <<want, card, look, handler, steps, pictures, taps, excused, stray>>
    PROVE  EditOrder'
<1> DEFINE form == IF outbox[i].form = "pictured" THEN "rich" ELSE "classic"
<1>1. form \in Forms /\ i \in DOMAIN outbox /\ IsBox(outbox) /\ outbox[i].flying
  BY DEF Forms, Flying, Types
<1>2. outbox' = Plainer(outbox, i, form)
  BY DEF Refused, Plainer
<1> HIDE DEF form
<1>3. /\ DOMAIN outbox' = DOMAIN outbox
      /\ \A j \in DOMAIN outbox \ {i} : outbox'[j] = outbox[j]
      /\ Alike(outbox'[i], outbox[i]) /\ ~outbox'[i].keyed /\ ~outbox'[i].flying
  BY <1>1, <1>2, PlainerIs
<1>4. UNCHANGED <<rec, chat>> /\ (outbox[i].kind = "edit" => outbox[i].prio # "card")
  <2>1. outbox[i].kind = "post" \/ outbox[i].prio = "final"
    BY DEF Refused
  <2> QED BY <2>1 DEF Refused
<1>5. Kept
  BY <1>3 DEF Kept, Course, KeysApart, SameKey, Alike
<1>6. SessionsGrow' /\ ShownGrows'
  BY <1>4, <1>5, EditsKept
<1>7. PlainEdits'
  BY <1>3, <1>4 DEF EditOrder, PlainEdits, IsEdit, Alike
<1>8. NoneOvertaken'
  <2> SUFFICES ASSUME NEW k \in DOMAIN outbox', NEW j \in DOMAIN outbox',
                      outbox'[k].kind = "edit", outbox'[j].kind = "edit", k < j,
                      outbox'[k].prio = "card", outbox'[j].prio = "final"
               PROVE  outbox'[k].flying /\ outbox'[j].keyed
    BY DEF NoneOvertaken, IsEdit
  <2>1. k # i /\ outbox'[k] = outbox[k]
    BY <1>3, <1>4 DEF Alike
  <2>2. outbox[j].kind = "edit" /\ outbox[j].prio = "final"
    BY <1>3 DEF Alike
  <2>3. outbox[k].flying
    BY <1>3, <2>1, <2>2 DEF EditOrder, NoneOvertaken, IsEdit
  <2>4. k = i
    BY <1>1, <1>3, <2>3 DEF Types, OneFlies
  <2> QED BY <2>1, <2>4
<1>9. FirstFlies'
  BY <1>3 DEF EditOrder, FirstFlies, IsEdit, Alike
<1> QED BY <1>6, <1>7, <1>8, <1>9 DEF EditOrder

\* A put-back edit stands before no newer one that an answer's priority would
\* let overtake it: such a one has its key, and takes its place.
LEMMA EditsParked ==
    ASSUME Types, Types', Course, EditOrder, Races = {}, NEW i \in Flying, Parked(i),
           UNCHANGED <<want, card, look, handler, steps, pictures, taps, excused, stray>>
    PROVE  EditOrder'
<1>1. i \in DOMAIN outbox /\ outbox[i].flying /\ IsBox(outbox) /\ UNCHANGED <<rec, chat>> /\ Numbers
  BY NumbersAre DEF Flying, Types, Parked
<1>2. IsPutBack(outbox, outbox', i)
  BY <1>1, PutBackIs DEF Parked
<1>3. outbox[i].kind = "edit" /\ outbox[i].prio = "card" => outbox[i].session = rec.session
  BY DEF Parked
<1>4. \A j \in DOMAIN outbox : j # i => ~outbox[j].flying
  BY <1>1 DEF Types, OneFlies
<1>5. CASE /\ \A j \in DOMAIN outbox : j # i => ~SameKey(outbox[i], outbox[j])
           /\ DOMAIN outbox' = DOMAIN outbox
           /\ \A j \in DOMAIN outbox \ {i} : outbox'[j] = outbox[j]
           /\ Alike(outbox'[i], outbox[i]) /\ ~outbox'[i].flying
           /\ outbox'[i].keyed = outbox[i].keyed /\ outbox'[i].holds = outbox[i].holds
  <2>1. \A j \in DOMAIN outbox' : Alike(outbox'[j], outbox[j]) /\ outbox'[j].keyed = outbox[j].keyed /\ ~outbox'[j].flying
    BY <1>4, <1>5 DEF Alike
  <2>2. KeysApart'
    <3>1. ASSUME NEW a \in DOMAIN outbox', NEW b \in DOMAIN outbox', a < b, SameKey(outbox'[a], outbox'[b])
          PROVE  FALSE
      <4>1. SameKey(outbox[a], outbox[b]) /\ SameKey(outbox[b], outbox[a]) /\ a # b
        BY <1>1, <1>5, <2>1, <3>1 DEF SameKey, Alike, Numbers
      <4>2. a # i /\ b # i
        BY <1>5, <3>1, <4>1
      <4> QED BY <1>4, <1>5, <3>1, <4>1, <4>2 DEF Course, KeysApart
    <3> QED BY <3>1 DEF KeysApart
  <2>3. SessionsGrow' /\ ShownGrows'
    <3>1. Kept
      BY <1>5, <2>1, <2>2 DEF Kept
    <3> QED BY <1>1, <3>1, EditsKept
  <2>4. PlainEdits'
    BY <1>1, <1>3, <1>4, <1>5, <2>1 DEF EditOrder, PlainEdits, IsEdit, Alike
  <2>5. NoneOvertaken'
    <3> SUFFICES ASSUME NEW k \in DOMAIN outbox, NEW j \in DOMAIN outbox,
                        outbox[k].kind = "edit", outbox[j].kind = "edit", k < j,
                        outbox[k].prio = "card", outbox[j].prio = "final"
                 PROVE  FALSE
      BY <1>5, <2>1 DEF NoneOvertaken, IsEdit, Alike
    <3>1. outbox[k].flying /\ outbox[j].keyed
      BY DEF EditOrder, NoneOvertaken, IsEdit
    <3>2. k = i /\ j # i
      BY <1>1, <1>4, <3>1 DEF Numbers
    <3>3. outbox[i].keyed /\ outbox[i].session = rec.session
      BY <1>3, <3>2 DEF EditOrder, PlainEdits, IsEdit
    <3>4. outbox[j].session = rec.session
      <4>1. outbox[i].session <= outbox[j].session /\ outbox[j].session <= rec.session
        BY <3>2 DEF EditOrder, SessionsGrow, Course, ItemsOfSession
      <4>2. rec.session \in Nat /\ outbox[j].session \in Nat
        BY <1>1 DEF Numbers
      <4> QED BY <3>3, <4>1, <4>2
    <3>5. SameKey(outbox[i], outbox[j])
      BY <3>1, <3>2, <3>3, <3>4 DEF SameKey
    <3> QED BY <1>5, <3>2, <3>5
  <2>6. FirstFlies'
    BY <2>1 DEF FirstFlies
  <2> QED BY <2>3, <2>4, <2>5, <2>6 DEF EditOrder
<1>6. ASSUME NEW j \in DOMAIN outbox, j # i, SameKey(outbox[i], outbox[j]), DOMAIN outbox' = DOMAIN outbox \ {i},
             \A k \in DOMAIN outbox' : k # j => outbox'[k] = outbox[k],
             Alike(outbox'[j], outbox[j]), outbox'[j].flying = outbox[j].flying,
             outbox'[j].keyed = outbox[j].keyed, outbox'[j].holds = outbox[j].holds \cup outbox[i].holds
      PROVE  EditOrder'
  <2>1. \A k \in DOMAIN outbox' : /\ k \in DOMAIN outbox /\ Alike(outbox'[k], outbox[k])
                                  /\ outbox'[k].keyed = outbox[k].keyed /\ outbox'[k].flying = outbox[k].flying
    BY <1>6 DEF Alike
  <2>2. Kept
    BY <1>6, <2>1 DEF Kept, Course, KeysApart, SameKey, Alike
  <2>3. SessionsGrow' /\ ShownGrows'
    BY <1>1, <2>2, EditsKept
  <2>4. (PlainEdits /\ NoneOvertaken /\ FirstFlies)'
    BY <1>1, <2>1 DEF EditOrder, PlainEdits, NoneOvertaken, FirstFlies, IsEdit, Alike
  <2> QED BY <2>3, <2>4 DEF EditOrder
<1> QED BY <1>2, <1>5, <1>6 DEF IsPutBack

LEMMA EditsRekeys ==
    ASSUME Types, Types', Course, EditOrder, Races = {}, Rekeys
    PROVE  EditOrder'
<1>1. /\ DOMAIN outbox' = DOMAIN outbox \ Dropped /\ \A i \in DOMAIN outbox' : outbox'[i] = outbox[i]
      /\ rec'.session = rec.session + 1 /\ want' = want + 1
      /\ look'["tick"].version = want + 1
      /\ \A th \in Thread : th # "tick" => look'[th] = look[th]
  BY RekeysIs
<1>2. UNCHANGED <<steps, chat>> /\ \A th \in Thread : look[th] = None
  BY DEF Rekeys, Alone
<1>3. Numbers /\ Numbers'
  BY NumbersAre, NumbersAfter
<1>4. PlainEdits'
  BY <1>1 DEF EditOrder, PlainEdits, IsEdit, Dropped
<1>5. (NoneOvertaken /\ FirstFlies /\ SessionsGrow)'
  BY <1>1 DEF EditOrder, NoneOvertaken, FirstFlies, SessionsGrow, IsEdit
<1>6. ShownGrows'
  <2>1. \A s \in steps : ~Current(s)'
    BY <1>1, <1>3 DEF Course, StepsInOrder, Current, Numbers
  <2>2. \A m \in DOMAIN chat : chat[m] <= want + 1
    BY <1>3 DEF EditOrder, ShownGrows, ShownBefore, Numbers
  <2>3. \A th \in Thread : look'[th] # None => look'[th].version = want + 1
    BY <1>1, <1>2
  <2> QED BY <1>1, <1>2, <2>1, <2>2, <2>3 DEF EditOrder, ShownGrows, ShownBefore, IsEdit
<1> QED BY <1>4, <1>5, <1>6 DEF EditOrder

LEMMA EditsRestarts ==
    ASSUME Types, Types', Course, EditOrder, Races = {}, Restarts
    PROVE  EditOrder'
<1>1. UNCHANGED <<want, look, chat>> /\ steps' = {} /\ DOMAIN outbox' = {} /\ \A th \in Thread : look[th] = None
  BY DEF Restarts
<1> QED BY <1>1 DEF EditOrder, PlainEdits, NoneOvertaken, FirstFlies, SessionsGrow, ShownGrows, ShownBefore, IsEdit

\* What a finished call leaves in the chat.
ShownAfter(i) ==
    \A m \in DOMAIN chat' :
        \/ m \in DOMAIN chat /\ chat'[m] = chat[m]
        \/ m \in DOMAIN chat /\ chat'[m] = 0
        \/ /\ chat'[m] = outbox[i].version
           /\ \/ outbox[i].kind = "post" /\ m \notin DOMAIN chat
              \/ outbox[i].kind = "edit" /\ m = outbox[i].msg

LEMMA ShownIs ==
    ASSUME Types, NEW i \in Flying, Taken(i) \/ Failed(i)
    PROVE  ShownAfter(i)
<1> DEFINE u == outbox[i]
<1>1. u.kind \in {"edit", "del"} => u.msg \in DOMAIN chat
  BY DEF Flying, Types, ItemsNamed
<1>2. \/ chat' = chat
      \/ u.kind = "post" /\ chat' = Append(chat, u.version)
      \/ u.kind = "edit" /\ chat' = [chat EXCEPT ![u.msg] = u.version]
      \/ u.kind = "del" /\ chat' = [chat EXCEPT ![u.msg] = 0]
  BY DEF Taken, Failed
<1> HIDE DEF u
<1>3. CASE chat' = chat
  BY <1>3 DEF ShownAfter
<1>4. CASE u.kind = "post" /\ chat' = Append(chat, u.version)
  <2>1. /\ DOMAIN chat' = DOMAIN chat \cup {Len(chat) + 1} /\ chat'[Len(chat) + 1] = u.version
        /\ \A m \in DOMAIN chat : chat'[m] = chat[m]
    BY <1>4, ChatIs
  <2>2. Len(chat) + 1 \notin DOMAIN chat
    BY ChatIs
  <2> QED BY <1>4, <2>1, <2>2 DEF ShownAfter, u
<1>5. CASE u.kind = "edit" /\ chat' = [chat EXCEPT ![u.msg] = u.version]
  BY <1>1, <1>5 DEF ShownAfter, u
<1>6. CASE u.kind = "del" /\ chat' = [chat EXCEPT ![u.msg] = 0]
  BY <1>1, <1>6 DEF ShownAfter
<1> QED BY <1>2, <1>3, <1>4, <1>5, <1>6

LEMMA EditsFinished ==
    ASSUME Types, Types', Course, EditOrder, NEW i \in Flying, Finished(i), ShownAfter(i),
           UNCHANGED <<want, card, look, handler, steps, pictures, taps, excused, stray>>
    PROVE  EditOrder'
<1> DEFINE u == outbox[i]
<1>1. /\ i \in DOMAIN outbox /\ u.flying /\ Numbers /\ Numbers'
      /\ DOMAIN outbox' = DOMAIN outbox \ {i} /\ \A j \in DOMAIN outbox' : outbox'[j] = outbox[j]
      /\ rec'.session = rec.session
  BY NumbersAre, NumbersAfter DEF Flying, Finished
<1>2. (PlainEdits /\ NoneOvertaken /\ FirstFlies /\ SessionsGrow)'
  BY <1>1 DEF EditOrder, PlainEdits, NoneOvertaken, FirstFlies, SessionsGrow, IsEdit
<1>3. ASSUME NEW v \in Nat, ShownBefore(v), u.version <= v
      PROVE  \A m \in DOMAIN chat' : chat'[m] <= v
  BY <1>3 DEF ShownAfter, ShownBefore
<1>4. ASSUME NEW j \in DOMAIN outbox', outbox[j].kind = "edit"
      PROVE  chat'[outbox[j].msg] <= outbox[j].version
  <2>1. j \in DOMAIN outbox /\ j # i /\ outbox[j].msg \in DOMAIN chat /\ outbox[j].version \in Nat
    BY <1>1, <1>4 DEF Types, ItemsNamed, Numbers
  <2>2. chat[outbox[j].msg] <= outbox[j].version
    BY <1>4, <2>1 DEF EditOrder, ShownGrows, IsEdit
  <2>3. u.kind = "edit" => u.version <= outbox[j].version
    <3>1. u.kind = "edit" => i <= j
      BY <1>1, <1>4, <2>1 DEF EditOrder, FirstFlies, IsEdit
    <3>2. i \in Nat /\ j \in Nat
      BY <1>1, <2>1 DEF Numbers
    <3>3. u.kind = "edit" => i < j
      BY <2>1, <3>1, <3>2
    <3> QED BY <1>1, <2>1, <3>3 DEF Course, VersionsGrow
  <2>4. outbox[j].msg \in DOMAIN chat'
    BY <2>1 DEF Finished
  <2> QED BY <2>1, <2>2, <2>3, <2>4 DEF ShownAfter
<1>5. ShownGrows'
  <2>1. u.version <= want /\ want \in Nat /\ ShownBefore(want)
    BY <1>1 DEF Course, VersionsGrow, Bounds, Numbers, EditOrder, ShownGrows
  <2>2. \A th \in Thread : look[th] # None =>
           u.version <= look[th].version /\ look[th].version \in Nat /\ ShownBefore(look[th].version)
    BY <1>1 DEF Course, VersionsGrow, Bounds, Numbers, EditOrder, ShownGrows
  <2>3. \A s \in steps : Current(s) => u.version <= s.version /\ s.version \in Nat /\ ShownBefore(s.version)
    BY <1>1 DEF Course, VersionsGrow, Bounds, Numbers, EditOrder, ShownGrows
  <2>4. \A m \in DOMAIN chat' : chat'[m] <= want
    BY <1>3, <2>1
  <2>5. ASSUME NEW th \in Thread, look[th] # None PROVE \A m \in DOMAIN chat' : chat'[m] <= look[th].version
    BY <1>3, <2>2, <2>5
  <2>6. ASSUME NEW s \in steps, Current(s) PROVE \A m \in DOMAIN chat' : chat'[m] <= s.version
    BY <1>3, <2>3, <2>6
  <2>7. \A s \in steps : Current(s)' => Current(s)
    BY <1>1 DEF Current
  <2>8. \A j \in DOMAIN outbox' : IsEdit(j)' => chat'[outbox'[j].msg] <= outbox'[j].version
    BY <1>1, <1>4 DEF IsEdit
  <2> QED BY <2>4, <2>5, <2>6, <2>7, <2>8 DEF ShownGrows, ShownBefore
<1> QED BY <1>2, <1>5 DEF EditOrder

LEMMA EditsAnswers ==
    ASSUME Types, Types', Course, EditOrder, Races = {}, Answers
    PROVE  EditOrder'
<1>1. PICK i \in Flying : Taken(i) \/ Failed(i) \/ Refused(i) \/ Parked(i)
  BY DEF Answers
<1>2. UNCHANGED <<want, card, look, handler, steps, pictures, taps, excused, stray>>
  BY DEF Answers
<1>3. CASE Taken(i) \/ Failed(i)
  BY <1>2, <1>3, FinishedIs, ShownIs, EditsFinished
<1>4. CASE Refused(i)
  BY <1>2, <1>4, EditsRefused
<1>5. CASE Parked(i)
  BY <1>2, <1>5, EditsParked
<1> QED BY <1>1, <1>3, <1>4, <1>5

\* What the user's deletion leaves in the chat.
LEMMA DeletesIs ==
    ASSUME Types, Deletes
    PROVE  /\ UNCHANGED <<want, rec, card, look, steps, outbox>>
           /\ DOMAIN chat' = DOMAIN chat
           /\ \A m \in DOMAIN chat : chat'[m] = chat[m] \/ (chat'[m] \in Int /\ chat'[m] < 0 /\ chat'[m] <= chat[m])
<1>1. /\ UNCHANGED <<want, rec, card, look, steps, outbox>>
      /\ rec.msg \in DOMAIN chat /\ chat' = [chat EXCEPT ![rec.msg] = -chat[rec.msg]] /\ chat[rec.msg] > 0
  BY DEF Deletes, Shows
<1>2. DOMAIN chat' = DOMAIN chat /\ \A m \in DOMAIN chat : m # rec.msg => chat'[m] = chat[m]
  BY <1>1
<1>3. chat[rec.msg] \in Int
  BY <1>1, NumbersAre DEF Numbers
<1>4. chat'[rec.msg] = -chat[rec.msg]
  BY <1>1
<1>5. chat'[rec.msg] \in Int /\ chat'[rec.msg] < 0 /\ chat'[rec.msg] <= chat[rec.msg]
  BY <1>1, <1>3, <1>4
<1> QED BY <1>1, <1>2, <1>5

LEMMA EditsDeletes ==
    ASSUME Types, Types', EditOrder, Deletes
    PROVE  EditOrder'
<1>1. /\ UNCHANGED <<want, rec, card, look, steps, outbox>> /\ DOMAIN chat' = DOMAIN chat
      /\ \A m \in DOMAIN chat : chat'[m] <= chat[m] /\ chat[m] \in Int /\ chat'[m] \in Int
  BY DeletesIs, NumbersAre, NumbersAfter DEF Numbers
<1>2. (PlainEdits /\ NoneOvertaken /\ FirstFlies /\ SessionsGrow)'
  BY <1>1 DEF EditOrder, PlainEdits, NoneOvertaken, FirstFlies, SessionsGrow, IsEdit
<1>3. ASSUME NEW v \in Nat, ShownBefore(v) PROVE \A m \in DOMAIN chat' : chat'[m] <= v
  BY <1>1, <1>3 DEF ShownBefore
<1>4. ASSUME NEW i \in DOMAIN outbox, IsEdit(i) PROVE chat'[outbox[i].msg] <= outbox[i].version
  <2>1. outbox[i].msg \in DOMAIN chat /\ outbox[i].version \in Nat
    BY <1>4, NumbersAre DEF Types, ItemsNamed, IsEdit, Numbers
  <2>2. chat[outbox[i].msg] <= outbox[i].version
    BY <1>4 DEF EditOrder, ShownGrows
  <2> QED BY <1>1, <2>1, <2>2
<1>5. ShownGrows'
  <2>1. \A th \in Thread : look[th] # None => look[th].version \in Nat
    BY NumbersAre DEF Numbers
  <2>2. want \in Nat /\ \A s \in steps : s.version \in Nat
    BY NumbersAre DEF Numbers
  <2>3. \A m \in DOMAIN chat' : chat'[m] <= want
    BY <1>3, <2>2 DEF EditOrder, ShownGrows
  <2>4. \A th \in Thread : look[th] # None => \A m \in DOMAIN chat' : chat'[m] <= look[th].version
    BY <1>3, <2>1 DEF EditOrder, ShownGrows
  <2>5. \A s \in steps : Current(s) => \A m \in DOMAIN chat' : chat'[m] <= s.version
    BY <1>3, <2>2 DEF EditOrder, ShownGrows
  <2> QED BY <1>1, <1>4, <2>3, <2>4, <2>5 DEF ShownGrows, ShownBefore, Current, IsEdit
<1> QED BY <1>2, <1>5 DEF EditOrder

LEMMA EditsNext ==
    ASSUME Types, Types', Course, EditOrder, Races = {}, [Next]_vars
    PROVE  EditOrder'
<1>0. Races \subseteq {"overtake"}
  OBVIOUS
<1>1. ASSUME NEW th \in Thread, Looks(th) PROVE EditOrder'
  BY <1>1, EditsQuiet
<1>2. ASSUME NEW th \in Thread, Decides(th) PROVE EditOrder'
  <2>1. CASE Waits(th) \/ Leaves(th)
    BY <2>1, EditsQuiet
  <2>2. CASE Posts(th) \/ Edits(th)
    BY <1>0, <2>2, EditsDecides
  <2> QED BY <1>2, <2>1, <2>2 DEF Decides
<1>3. ASSUME NEW s \in steps, Settles(s) PROVE EditOrder'
  BY <1>3, EditsSettles
<1>4. CASE Takes
  BY <1>4, EditsTakes
<1>5. CASE Answers
  BY <1>5, EditsAnswers
<1>6. CASE Unparks \/ Retries \/ Changes \/ Pushed \/ Switches
  BY <1>6, EditsQuiet
<1>7. ASSUME NEW t \in Tap, TapFlips(t) \/ TapDone(t) \/ TapLimit(t) PROVE EditOrder'
  BY <1>7, EditsQuiet
<1>8. CASE Deletes
  BY <1>8, EditsDeletes
<1>9. CASE Rekeys
  BY <1>9, EditsRekeys
<1>10. CASE Restarts
  BY <1>10, EditsRestarts
<1>11. CASE UNCHANGED vars
  BY <1>11 DEF vars, EditOrder, PlainEdits, NoneOvertaken, FirstFlies, SessionsGrow, ShownGrows, ShownBefore,
               Current, IsEdit
<1> QED BY <1>1, <1>2, <1>3, <1>4, <1>5, <1>6, <1>7, <1>8, <1>9, <1>10, <1>11 DEF Next

\* A step shows in no message what is older than what that message showed.
LEMMA NothingOlder ==
    ASSUME Types, Course, EditOrder, [Next]_vars
    PROVE  \A m \in DOMAIN chat : chat'[m] > 0 => chat'[m] >= chat[m]
<1>1. \A m \in DOMAIN chat : chat[m] \in Int
  BY NumbersAre DEF Numbers
<1>2. CASE UNCHANGED chat
  BY <1>1, <1>2
<1>3. CASE Deletes
  BY <1>1, <1>3, DeletesIs
<1>4. ASSUME NEW i \in Flying, Taken(i) \/ Failed(i)
      PROVE  \A m \in DOMAIN chat : chat'[m] > 0 => chat'[m] >= chat[m]
  <2> SUFFICES ASSUME NEW m \in DOMAIN chat, chat'[m] > 0 PROVE chat'[m] >= chat[m]
    OBVIOUS
  <2>1. ShownAfter(i) /\ Finished(i)
    BY <1>4, ShownIs, FinishedIs
  <2>2. m \in DOMAIN chat' /\ i \in DOMAIN outbox /\ outbox[i].version \in Nat
    BY <2>1, NumbersAre DEF Finished, Flying, Numbers
  <2>3. CASE chat'[m] = chat[m]
    BY <1>1, <2>3
  <2>4. CASE chat'[m] = outbox[i].version /\ outbox[i].kind = "edit" /\ m = outbox[i].msg
    <3>1. chat[m] <= outbox[i].version
      BY <2>2, <2>4 DEF EditOrder, ShownGrows, IsEdit
    <3> QED BY <1>1, <2>2, <2>4, <3>1
  <2>5. CASE chat'[m] = 0
    BY <2>5
  <2> QED BY <2>1, <2>2, <2>3, <2>4, <2>5 DEF ShownAfter
<1>5. CASE Answers
  <2>1. PICK i \in Flying : Taken(i) \/ Failed(i) \/ Refused(i) \/ Parked(i)
    BY <1>5 DEF Answers
  <2>2. CASE Refused(i) \/ Parked(i)
    BY <1>2, <2>2 DEF Refused, Parked
  <2> QED BY <1>4, <2>1, <2>2
<1>6. ASSUME NEW th \in Thread, Looks(th) \/ Decides(th) PROVE UNCHANGED chat
  BY <1>6 DEF Looks, Decides, Waits, Leaves, Posts, Edits
<1>7. ASSUME NEW s \in steps, Settles(s) PROVE UNCHANGED chat
  BY <1>7 DEF Settles
<1>8. ASSUME NEW t \in Tap, TapFlips(t) \/ TapDone(t) \/ TapLimit(t) PROVE UNCHANGED chat
  BY <1>8 DEF TapFlips, TapDone, TapLimit
<1>9. CASE \/ Takes \/ Unparks \/ Retries \/ Changes \/ Pushed \/ Switches \/ Rekeys \/ Restarts \/ UNCHANGED vars
  BY <1>2, <1>9 DEF Takes, Unparks, Retries, Changes, Pushed, Switches, Rekeys, Restarts, vars
<1> QED BY <1>2, <1>3, <1>5, <1>6, <1>7, <1>8, <1>9 DEF Next

\* An older text is never put back in a message: neither by a picture that is
\* settled last, nor by an edit that goes again after a refusal or a long 429.
THEOREM NothingOldAgain ==
    ASSUME Races = {}
    PROVE  Spec => NoOldText
<1>1. Spec => [](Types /\ Course)
  BY CourseAlways
<1>2. Types /\ Course /\ Init => EditOrder
  BY EditOrderInit
<1>3. Types /\ Types' /\ Course /\ EditOrder /\ [Next]_vars => EditOrder'
  BY EditsNext
<1>4. Types /\ Course /\ EditOrder /\ [Next]_vars => [\A m \in DOMAIN chat : chat'[m] > 0 => chat'[m] >= chat[m]]_vars
  BY NothingOlder
<1> QED BY <1>1, <1>2, <1>3, <1>4, PTL DEF Spec, NoOldText
==============================================================================
