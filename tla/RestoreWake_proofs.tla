------------------------- MODULE RestoreWake_proofs -------------------------
(***************************************************************************)
(* For any number of windows and tabs: the pace of the wakes, that no entry  *)
(* of the barrier outlives its window, and (when no two windows restore one  *)
(* record) that windows are released together.                              *)
(***************************************************************************)
EXTENDS RestoreWake, FunctionTheorems, FiniteSetTheorems, WellFoundedInduction, TLAPS

-----------------------------------------------------------------------------
(***************************************************************************)
(* The pace.  Every recent wake has the age of a slot, no two wakes have     *)
(* the same, and the slots keep the pace.                                   *)
(***************************************************************************)
Young(taken) == {age \in taken : age < BatchPeriod}

Pace ==
    /\ slots \subseteq 0..BatchPeriod
    /\ \A a, b \in Young(slots) : a < b => b - a >= Spacing
    /\ Cardinality(Young(slots)) <= BatchSize
    /\ woken \in [Session -> Ages(BatchPeriod)]
    /\ \A s \in Recent : woken[s] \in slots
    /\ \A s, t \in Recent : woken[s] = woken[t] => s = t

LEMMA OlderIs ==
    ASSUME NEW cap \in Nat, NEW age \in Ages(cap)
    PROVE  /\ Older(age, cap) \in Ages(cap)
           /\ age # Never => Older(age, cap) \in 0..cap
           /\ age \in 0..cap - 1 => Older(age, cap) = age + 1
           /\ Older(age, cap) \in 0..cap - 1 => age \in 0..cap - 1
  BY DEF Older, Ages, Never

LEMMA YoungIsFinite ==
    ASSUME NEW taken \in SUBSET (0..BatchPeriod)
    PROVE  IsFiniteSet(Young(taken)) /\ Cardinality(Young(taken)) \in Nat
<1>1. IsFiniteSet(0..BatchPeriod)
  BY WakeAssumption, FS_Interval
<1>2. Young(taken) \in SUBSET (0..BatchPeriod)
  BY DEF Young
<1> QED BY <1>1, <1>2, FS_Subset, FS_CardinalityType

(* Growing older loses slots and gains none.                               *)
LEMMA YoungGrowOlder ==
    ASSUME NEW taken \in SUBSET (0..BatchPeriod)
    PROVE  Cardinality(Young({Older(age, BatchPeriod) : age \in taken}))
               <= Cardinality(Young(taken))
<1> DEFINE aged == {Older(age, BatchPeriod) : age \in taken}
           back == [b \in Young(aged) |-> b - 1]
<1>1. ASSUME NEW b \in Young(aged)
      PROVE  b \in Int /\ b - 1 \in Young(taken)
  <2>1. PICK age \in taken : b = Older(age, BatchPeriod)
    BY DEF Young
  <2>2. b < BatchPeriod /\ age \in 0..BatchPeriod /\ BatchPeriod \in Nat
    BY WakeAssumption DEF Young
  <2> QED BY <2>1, <2>2 DEF Young, Older, Never
<1>2. back \in Injection(Young(aged), Young(taken))
  BY <1>1 DEF Injection, IsInjective
<1> QED BY <1>2, YoungIsFinite, FS_Injection

LEMMA PaceInit == Init => Pace
<1> SUFFICES ASSUME Init PROVE Pace
  OBVIOUS
<1>1. Young(slots) = {} /\ Recent = {}
  BY WakeAssumption DEF Init, Young, Recent, Never
<1>2. Cardinality(Young(slots)) <= BatchSize
  BY <1>1, FS_EmptySet, WakeAssumption
<1>3. slots = {} /\ woken \in [Session -> Ages(BatchPeriod)]
  BY DEF Init, Ages
<1> QED BY <1>1, <1>2, <1>3 DEF Pace

LEMMA RecentIsYoung ==
    ASSUME Pace, NEW s \in Recent
    PROVE  woken[s] \in Young(slots) /\ woken[s] \in 0..BatchPeriod - 1
<1>1. woken[s] \in slots /\ woken[s] \in 0..BatchPeriod - 1 /\ BatchPeriod \in Nat
  BY WakeAssumption DEF Pace, Recent
<1> QED BY <1>1 DEF Young

(* A tab is started, or not, on a slot.                                    *)
LEMMA PaceQueue ==
    ASSUME Pace, NEW p \in Page, NEW queue, StepQueue(p, queue)
    PROVE  Pace'
<1> DEFINE now == Young(slots)
<1>0. /\ IsFiniteSet(now) /\ now \subseteq 0..BatchPeriod /\ Young(now) = now
      /\ Cardinality(now) \in Nat
  BY YoungIsFinite DEF Pace, Young
<1>1. CASE UNCHANGED <<slots, woken>>
  BY <1>1 DEF Pace, Recent, Young
<1>2. CASE slots' = now /\ UNCHANGED woken
  <2>1. \A s \in Recent : woken[s] \in now
    BY RecentIsYoung
  <2> QED BY <1>0, <1>2, <2>1 DEF Pace, Recent
<1>3. CASE /\ PacerAllows(now) /\ slots' = now \cup {0}
           /\ \E x : woken' = [woken EXCEPT ![x] = 0]
  <2>1. PICK x : woken' = [woken EXCEPT ![x] = 0]
    BY <1>3
  <2>2. /\ \A age \in now : age >= Spacing
        /\ Cardinality(now) < BatchSize
    BY <1>0, <1>3 DEF PacerAllows, Young
  <2>3. /\ BatchSize \in Nat /\ Spacing \in Nat \ {0} /\ BatchPeriod \in Nat
        /\ Spacing <= BatchPeriod
    BY WakeAssumption
  <2>4. Young(slots') = now \cup {0}
    BY <1>0, <1>3, <2>3 DEF Young
  <2>5. Cardinality(Young(slots')) <= BatchSize
    BY <1>0, <2>2, <2>3, <2>4, FS_AddElement
  <2>6. /\ slots' \subseteq 0..BatchPeriod
        /\ \A a, b \in Young(slots') : a < b => b - a >= Spacing
    BY <1>0, <1>3, <2>2, <2>3, <2>4 DEF Pace
  <2>7. woken' \in [Session -> Ages(BatchPeriod)]
    <3>1. 0 \in Ages(BatchPeriod)
      BY <2>3 DEF Ages
    <3> QED BY <2>1, <3>1 DEF Pace
  <2>8. \A s \in Session : woken'[s] = IF s = x THEN 0 ELSE woken[s]
    BY <2>1 DEF Pace
  <2>9. \A s \in Recent : woken[s] \in now /\ woken[s] # 0
    <3> SUFFICES ASSUME NEW s \in Recent PROVE woken[s] \in now /\ woken[s] # 0
      OBVIOUS
    <3>1. woken[s] \in now
      BY RecentIsYoung
    <3> QED BY <2>2, <2>3, <3>1
  <2>10. /\ \A s \in Recent' : woken'[s] \in slots'
         /\ \A s, t \in Recent' : woken'[s] = woken'[t] => s = t
    BY <1>3, <2>8, <2>9 DEF Pace, Recent
  <2> QED BY <2>5, <2>6, <2>7, <2>10 DEF Pace
<1> QED BY <1>1, <1>2, <1>3 DEF StepQueue, Young

LEMMA PaceClock ==
    ASSUME Pace, Clock
    PROVE  Pace'
<1>1. /\ BatchPeriod \in Nat /\ BatchSize \in Nat /\ Spacing \in Nat
  BY WakeAssumption
<1>2. /\ slots' = {Older(age, BatchPeriod) : age \in slots}
      /\ woken' = [s \in Session |-> Older(woken[s], BatchPeriod)]
  BY DEF Clock
<1>3. /\ slots' \subseteq 0..BatchPeriod
      /\ \A b \in Young(slots') : b \in Int /\ b - 1 \in Young(slots)
  <2>1. ASSUME NEW b \in slots'
        PROVE  b \in 0..BatchPeriod /\ (b < BatchPeriod => b - 1 \in Young(slots))
    <3>1. PICK age \in slots : b = Older(age, BatchPeriod)
      BY <1>2
    <3> QED BY <1>1, <3>1 DEF Pace, Older, Young, Never
  <2> QED BY <2>1 DEF Young
<1>4. \A a, b \in Young(slots') : a < b => b - a >= Spacing
  <2> SUFFICES ASSUME NEW a \in Young(slots'), NEW b \in Young(slots'), a < b
               PROVE  b - a >= Spacing
    OBVIOUS
  <2>1. (b - 1) - (a - 1) >= Spacing
    BY <1>3 DEF Pace
  <2> QED BY <1>1, <1>3, <2>1
<1>5. Cardinality(Young(slots')) <= BatchSize
  BY <1>1, <1>2, <1>3, YoungGrowOlder, YoungIsFinite DEF Pace
<1>6. woken' \in [Session -> Ages(BatchPeriod)]
  BY <1>1, <1>2, OlderIs DEF Pace
<1>7. ASSUME NEW s \in Recent'
      PROVE  s \in Recent /\ woken'[s] = woken[s] + 1 /\ woken[s] \in Int
  BY <1>1, <1>2, OlderIs DEF Pace, Recent, Ages
<1>8. \A s \in Recent' : woken'[s] \in slots'
  <2> SUFFICES ASSUME NEW s \in Recent' PROVE woken'[s] \in slots'
    OBVIOUS
  <2>1. woken[s] \in slots /\ woken'[s] = Older(woken[s], BatchPeriod)
    BY <1>2, <1>7 DEF Pace, Recent
  <2> QED BY <1>2, <2>1
<1>9. \A s, t \in Recent' : woken'[s] = woken'[t] => s = t
  BY <1>7 DEF Pace
<1> QED BY <1>3, <1>4, <1>5, <1>6, <1>8, <1>9 DEF Pace

LEMMA PaceStep == Pace /\ [Next]_vars => Pace'
<1> SUFFICES ASSUME Pace, [Next]_vars PROVE Pace'
  OBVIOUS
<1>1. CASE UNCHANGED <<slots, woken>>
  BY <1>1 DEF Pace, Recent, Young
<1>2. CASE Clock
  BY <1>2, PaceClock
<1>3. ASSUME NEW p \in Page, Tick(p)
      PROVE  Pace'
  <2>1. CASE UNCHANGED <<slots, woken>>
    BY <1>1, <2>1
  <2>2. ASSUME NEW queue, StepQueue(p, queue)
        PROVE  Pace'
    BY <2>2, PaceQueue
  <2> QED BY <1>3, <2>1, <2>2 DEF Tick, TickWaking, TickLaunching, TickNothingBusy, TickLaunched
<1>4. CASE Windows \/ Tabs \/ UNCHANGED vars
  BY <1>1, <1>4 DEF Windows, Tabs, Create, Rehome, RestoreNothing, Close, Destroy,
                    NotWanted, CloseTab, Move, vars
<1> QED BY <1>2, <1>3, <1>4 DEF Next

(* A recent wake takes a slot of its own: as many slots, as many wakes.    *)
LEMMA PaceIsOnePace == Pace => OnePace
<1> SUFFICES ASSUME Pace PROVE OnePace
  OBVIOUS
<1> DEFINE slotOf == [s \in Recent |-> woken[s]]
<1>1. /\ BatchPeriod \in Nat /\ BatchSize \in Nat /\ Spacing \in Nat
  BY WakeAssumption
<1>2. \A s \in Recent : woken[s] \in Young(slots)
  BY RecentIsYoung
<1>3. slotOf \in Injection(Recent, Young(slots))
  BY <1>2 DEF Pace, Injection, IsInjective
<1>4. IsFiniteSet(Young(slots)) /\ Cardinality(Young(slots)) \in Nat
  BY YoungIsFinite DEF Pace
<1>5. Cardinality(Recent) <= Cardinality(Young(slots)) /\ IsFiniteSet(Recent)
  BY <1>3, <1>4, FS_Injection
<1>6. Cardinality(Recent) \in Nat
  BY <1>5, FS_CardinalityType
<1>7. Cardinality(Recent) <= BatchSize
  BY <1>1, <1>4, <1>5, <1>6 DEF Pace
<1>8. ASSUME NEW s \in Recent, NEW t \in Recent, s # t
      PROVE  woken[s] - woken[t] >= Spacing \/ woken[t] - woken[s] >= Spacing
  <2>1. woken[s] # woken[t] /\ woken[s] \in Int /\ woken[t] \in Int
    BY <1>8, <1>1 DEF Pace, Recent
  <2> QED BY <1>2, <1>1, <2>1 DEF Pace
<1> QED BY <1>7, <1>8 DEF OnePace

(* All windows together start at most BatchSize tabs in any period, and     *)
(* never two closer than the spacing, however many windows drain at once.   *)
THEOREM KeepsOnePace == Spec => []OnePace
BY PaceInit, PaceStep, PaceIsOnePace, PTL DEF Spec
-----------------------------------------------------------------------------
(***************************************************************************)
(* The barrier.                                                             *)
(***************************************************************************)
Jobs(todo) == [phase: {"absent", "created", "waiting", "waking", "done", "gone"},
               open: BOOLEAN, key: Key \cup {None}, todo: {todo},
               restored: 0..ForegroundCap, seen: Ages(HooklessSettle),
               launched: BOOLEAN, released: Ages(IdleWaitCap)]
Entries == [key: Key, age: 0..BarrierCap, joined: BOOLEAN, launched: BOOLEAN,
            released: BOOLEAN]

(* A window's job, its life and its key.                                   *)
JobInv(p) ==
    /\ page[p] \in Jobs(page[p].todo)
    /\ page[p].key \in {None, KeyOf[p]}
    /\ page[p].phase \in {"absent", "gone"} => page[p].key = None /\ ~page[p].open
    /\ page[p].phase \in {"absent", "created"} => ~page[p].launched
    /\ page[p].phase = "waiting" => page[p].key = KeyOf[p]
    /\ page[p].phase = "waking" => page[p].key = None

JobsInv ==
    /\ page = [p \in Page |-> page[p]]
    /\ \A p \in Page : JobInv(p)

Kept == barrier \subseteq Entries /\ NoDeadEntry

LEMMA EntryIs ==
    ASSUME NEW k \in Key, NEW j \in BOOLEAN
    PROVE  /\ Entry(k, j) \in Entries
           /\ Entry(k, j).key = k /\ Entry(k, j).age = 0
           /\ ~Entry(k, j).launched /\ ~Entry(k, j).released
  BY WakeAssumption DEF Entry, Entries

(* Whether it releases or not, the evaluation changes nothing else.        *)
LEMMA EvaluatedIs ==
    ASSUME NEW b \in SUBSET Entries
    PROVE  /\ Evaluated(b) \subseteq Entries
           /\ \A e \in Evaluated(b) : \E d \in b :
                 e.key = d.key /\ e.launched = d.launched /\ e.age = d.age
                 /\ (d.released => e.released)
           /\ \A d \in b : \E e \in Evaluated(b) : e.key = d.key
           /\ \/ Evaluated(b) = b
              \/ AllLaunched(b) \/ CapExpired(b)
<1> DEFINE freeing(e) == [e EXCEPT !.released = TRUE]
           all == {freeing(e) : e \in b}
<1>1. ASSUME NEW e \in b
      PROVE  /\ freeing(e) \in Entries
             /\ freeing(e).key = e.key /\ freeing(e).launched = e.launched
             /\ freeing(e).age = e.age /\ freeing(e).released
  BY <1>1 DEF Entries
<1>2. /\ all \subseteq Entries
      /\ \A e \in all : \E d \in b :
            e.key = d.key /\ e.launched = d.launched /\ e.age = d.age /\ e.released
      /\ \A d \in b : \E e \in all : e.key = d.key
  BY <1>1
<1>3. Evaluated(b) = IF AllLaunched(b) \/ CapExpired(b) THEN all ELSE b
  BY DEF Evaluated
<1> HIDE DEF all
<1> QED BY <1>2, <1>3

(* The entry of a key, marked as joined or as launched.                    *)
Entering(b, k) == {IF e.key = k THEN [e EXCEPT !.joined = TRUE] ELSE e : e \in b}
Telling(b, k) == {IF e.key = k THEN [e EXCEPT !.launched = TRUE] ELSE e : e \in b}

LEMMA MarkedIs ==
    ASSUME NEW b \in SUBSET Entries, NEW k
    PROVE  /\ Entering(b, k) \subseteq Entries
           /\ \A e \in Entering(b, k) : \E d \in b :
                 e.key = d.key /\ e.launched = d.launched /\ e.age = d.age /\ e.released = d.released
           /\ \A d \in b : \E e \in Entering(b, k) : e.key = d.key
           /\ Telling(b, k) \subseteq Entries
           /\ \A e \in Telling(b, k) : \E d \in b :
                 /\ e.key = d.key /\ e.age = d.age /\ e.released = d.released
                 /\ e.launched => d.launched \/ e.key = k
           /\ \A d \in b : \E e \in Telling(b, k) : e.key = d.key
<1>1. ASSUME NEW e \in b
      PROVE  /\ [e EXCEPT !.joined = TRUE] \in Entries
             /\ [e EXCEPT !.joined = TRUE].key = e.key
             /\ [e EXCEPT !.joined = TRUE].launched = e.launched
             /\ [e EXCEPT !.joined = TRUE].age = e.age
             /\ [e EXCEPT !.joined = TRUE].released = e.released
             /\ [e EXCEPT !.launched = TRUE] \in Entries
             /\ [e EXCEPT !.launched = TRUE].key = e.key
             /\ [e EXCEPT !.launched = TRUE].launched
             /\ [e EXCEPT !.launched = TRUE].age = e.age
             /\ [e EXCEPT !.launched = TRUE].released = e.released
             /\ e \in Entries
  BY <1>1 DEF Entries
<1> DEFINE joined == {IF e.key = k THEN [e EXCEPT !.joined = TRUE] ELSE e : e \in b}
           told == {IF e.key = k THEN [e EXCEPT !.launched = TRUE] ELSE e : e \in b}
<1>2. ASSUME NEW d \in b
      PROVE  /\ \E e \in joined : e.key = d.key
             /\ \E e \in told : e.key = d.key
  <2>1. /\ (IF d.key = k THEN [d EXCEPT !.joined = TRUE] ELSE d) \in joined
        /\ (IF d.key = k THEN [d EXCEPT !.launched = TRUE] ELSE d) \in told
    OBVIOUS
  <2> QED BY <1>1, <2>1
<1>3. ASSUME NEW e \in joined
      PROVE  /\ e \in Entries
             /\ \E d \in b :
                   e.key = d.key /\ e.launched = d.launched /\ e.age = d.age /\ e.released = d.released
  <2>1. PICK d \in b : e = IF d.key = k THEN [d EXCEPT !.joined = TRUE] ELSE d
    BY <1>3
  <2> QED BY <1>1, <2>1
<1>4. ASSUME NEW e \in told
      PROVE  /\ e \in Entries
             /\ \E d \in b :
                   /\ e.key = d.key /\ e.age = d.age /\ e.released = d.released
                   /\ e.launched => d.launched \/ e.key = k
  <2>1. PICK d \in b : e = IF d.key = k THEN [d EXCEPT !.launched = TRUE] ELSE d
    BY <1>4
  <2>2. d.launched \in BOOLEAN
    BY DEF Entries
  <2> QED BY <1>1, <2>1, <2>2
<1> QED BY <1>2, <1>3, <1>4 DEF Entering, Telling

-----------------------------------------------------------------------------
(***************************************************************************)
(* No entry outlives its window: the barrier only ever has the keys that it  *)
(* had, and that of the window that enters it.                              *)
(***************************************************************************)
HasKeysOf(b, c) == b \subseteq Entries /\ \A e \in b : \E d \in c : d.key = e.key

LEMMA KeysStay ==
    ASSUME NEW c, NEW b \in SUBSET Entries, HasKeysOf(b, c), NEW k
    PROVE  /\ HasKeysOf(Evaluated(b), c) /\ HasKeysOf(Launched(b, k), c)
           /\ HasKeysOf(Leaving(b, k), c)
           /\ k # None => \A e \in Leaving(b, k) : e.key # k
<1>1. ASSUME NEW x \in SUBSET Entries, HasKeysOf(x, c)
      PROVE  HasKeysOf(Evaluated(x), c)
  BY <1>1, EvaluatedIs DEF HasKeysOf
<1>2. HasKeysOf(Launched(b, k), c)
  <2>1. Telling(b, k) \in SUBSET Entries /\ HasKeysOf(Telling(b, k), c)
    BY MarkedIs DEF HasKeysOf
  <2>2. Launched(b, k) = Evaluated(Telling(b, k))
    BY DEF Launched, Telling
  <2> QED BY <1>1, <2>1, <2>2
<1>3. HasKeysOf(Leaving(b, k), c) /\ (k # None => \A e \in Leaving(b, k) : e.key # k)
  <2> DEFINE rest == b \ Find(b, k)
  <2>1. rest \in SUBSET Entries /\ HasKeysOf(rest, c) /\ \A e \in rest : e.key # k
    BY DEF HasKeysOf, Find
  <2>2. Leaving(b, k) = IF k = None THEN b ELSE Evaluated(rest)
    BY DEF Leaving, Left
  <2> HIDE DEF rest
  <2>3. \A e \in Evaluated(rest) : e.key # k
    BY <2>1, EvaluatedIs
  <2> QED BY <1>1, <2>1, <2>2, <2>3
<1> QED BY <1>1, <1>2, <1>3

(* A window that enters.                                                   *)
LEMMA EntersIs ==
    ASSUME NEW b \in SUBSET Entries, NEW k \in Key
    PROVE  /\ HasKeysOf(Announcing(b, k), b \cup {Entry(k, FALSE)})
           /\ HasKeysOf(Joined(b, k), b \cup {Entry(k, FALSE)})
<1>1. Entry(k, FALSE) \in Entries /\ Entry(k, TRUE) \in Entries
      /\ Entry(k, FALSE).key = k /\ Entry(k, TRUE).key = k
  BY EntryIs
<1>2. HasKeysOf(Announcing(b, k), b \cup {Entry(k, FALSE)})
  BY <1>1 DEF HasKeysOf, Announcing
<1> DEFINE new == IF Find(b, k) = {} THEN b \cup {Entry(k, TRUE)} ELSE Entering(b, k)
<1>3. /\ Entering(b, k) \subseteq Entries
      /\ \A e \in Entering(b, k) : \E d \in b : e.key = d.key
  BY MarkedIs
<1>4. Joined(b, k) = Evaluated(new)
  BY DEF Joined, Entering
<1>5. new \in SUBSET Entries /\ HasKeysOf(new, b \cup {Entry(k, FALSE)})
  BY <1>1, <1>3 DEF HasKeysOf
<1> HIDE DEF new
<1> QED BY <1>2, <1>4, <1>5, KeysStay

(* What a window's job becomes.                                            *)
LEMMA NoJobIs == NoJob \in Jobs(<<>>)
<1>1. /\ 0 \in 0..ForegroundCap
      /\ Never \in Ages(HooklessSettle) /\ Never \in Ages(IdleWaitCap)
  BY WakeAssumption DEF Ages
<1> QED BY <1>1 DEF NoJob, Jobs

LEMMA JobIs ==
    ASSUME NEW open \in BOOLEAN, NEW todo
    PROVE  /\ [NoJob EXCEPT !.phase = "done", !.open = open] \in Jobs(<<>>)
           /\ [NoJob EXCEPT !.phase = "gone"] \in Jobs(<<>>)
           /\ [NoJob EXCEPT !.phase = "waking", !.open = open, !.todo = todo] \in Jobs(todo)
<1>1. NoJob \in Jobs(<<>>)
  BY NoJobIs
<1> QED BY <1>1 DEF Jobs

(* A window that is out of the barrier: its job has no key any more.       *)
Out(p) ==
    \E job : /\ page' = [page EXCEPT ![p] = job]
             /\ job \in Jobs(job.todo) /\ job.key = None
             /\ job.phase \in {"waking", "done", "gone"}
             /\ job.open = page[p].open /\ (job.phase = "gone" => ~job.open)

LEMMA DoneIsOut ==
    ASSUME JobsInv, NEW p \in Page, page' = [page EXCEPT ![p] = Done(p)]
    PROVE  Out(p)
<1>1. page[p].open \in BOOLEAN
  BY DEF JobsInv, JobInv, Jobs
<1>2. /\ Done(p) \in Jobs(<<>>) /\ Done(p).todo = <<>> /\ Done(p).key = None
      /\ Done(p).phase = "done" /\ Done(p).open = page[p].open
  BY <1>1, JobIs DEF Done, NoJob
<1> QED BY <1>2 DEF Out

LEMMA QueueIsOut ==
    ASSUME JobsInv, NEW p \in Page, NEW queue, StepQueue(p, queue)
    PROVE  Out(p)
<1>1. page[p].open \in BOOLEAN
  BY DEF JobsInv, JobInv, Jobs
<1> DEFINE To(q) == [NoJob EXCEPT !.phase = "waking", !.open = page[p].open, !.todo = q]
<1>2. ASSUME NEW q
      PROVE  /\ To(q) \in Jobs(To(q).todo) /\ To(q).key = None
             /\ To(q).phase = "waking" /\ To(q).open = page[p].open
  BY <1>1, JobIs DEF NoJob
<1>3. page' = [page EXCEPT ![p] = Done(p)] \/ \E q : page' = [page EXCEPT ![p] = To(q)]
  BY DEF StepQueue
<1> HIDE DEF To
<1> QED BY <1>2, <1>3, DoneIsOut DEF Out

(* The actor's job before and after, and the others'.                      *)
LEMMA JobsChange ==
    ASSUME JobsInv, NEW p \in Page, NEW job, page' = [page EXCEPT ![p] = job],
           job \in Jobs(job.todo), job.key \in {None, KeyOf[p]},
           job.phase \in {"absent", "gone"} => job.key = None /\ ~job.open,
           job.phase \in {"absent", "created"} => ~job.launched,
           job.phase = "waiting" => job.key = KeyOf[p],
           job.phase = "waking" => job.key = None
    PROVE  /\ JobsInv' /\ page'[p] = job
           /\ \A q \in Page : q # p => page'[q] = page[q]
<1>1. page'[p] = job /\ \A q \in Page : q # p => page'[q] = page[q]
  BY DEF JobsInv
<1>2. page' = [q \in Page |-> page'[q]]
  BY DEF JobsInv
<1>3. \A q \in Page : JobInv(q)'
  BY <1>1 DEF JobsInv, JobInv, Jobs
<1> QED BY <1>1, <1>2, <1>3 DEF JobsInv

LEMMA OutIs ==
    ASSUME JobsInv, NEW p \in Page, Out(p)
    PROVE  /\ JobsInv' /\ page'[p].key = None
           /\ \A q \in Page : q # p => page'[q] = page[q]
<1>1. PICK job : /\ page' = [page EXCEPT ![p] = job]
                 /\ job \in Jobs(job.todo) /\ job.key = None
                 /\ job.phase \in {"waking", "done", "gone"}
                 /\ job.phase = "gone" => ~job.open
  BY DEF Out
<1> QED BY <1>1, JobsChange

(* A window is created, or its tabs are here.                              *)
LEMMA CreateIs ==
    ASSUME JobsInv, NEW p \in Page, Create(p)
    PROVE  /\ JobsInv' /\ \A q \in Page : q # p => page'[q] = page[q]
           /\ page[p].key = None /\ ~page'[p].launched
           /\ page'[p].key = IF p \in Announced THEN KeyOf[p] ELSE None
<1> DEFINE job == [page[p] EXCEPT !.phase = "created", !.open = TRUE,
                                  !.key = IF p \in Announced THEN KeyOf[p] ELSE None]
<1>1. page[p] \in Jobs(page[p].todo) /\ page[p].phase = "absent" /\ page[p].key = None
  BY DEF JobsInv, JobInv, Create
<1>2. KeyOf[p] \in Key
  BY WakeAssumption
<1>3. page' = [page EXCEPT ![p] = [page[p] EXCEPT !.phase = "created", !.open = TRUE,
                      !.key = IF p \in Announced THEN KeyOf[p] ELSE None]]
  BY DEF Create, JobsInv
<1>4. /\ job \in Jobs(job.todo) /\ job.phase = "created" /\ job.launched = page[p].launched
      /\ job.key = IF p \in Announced THEN KeyOf[p] ELSE None
  BY <1>1, <1>2 DEF Jobs
<1>5. page' = [page EXCEPT ![p] = job]
  BY <1>3
<1> HIDE DEF job
<1>6. ~page[p].launched
  BY DEF JobsInv, JobInv, Create
<1>7. JobsInv' /\ page'[p] = job /\ \A q \in Page : q # p => page'[q] = page[q]
  BY <1>4, <1>5, <1>6, JobsChange
<1> QED BY <1>1, <1>4, <1>6, <1>7

LEMMA RehomeIs ==
    ASSUME JobsInv, NEW p \in Page, Rehome(p)
    PROVE  /\ JobsInv' /\ \A q \in Page : q # p => page'[q] = page[q]
           /\ page'[p].key = KeyOf[p] /\ ~page'[p].launched
<1>1. PICK todo : page' = [page EXCEPT ![p] = [NoJob EXCEPT !.phase = "waiting", !.open = TRUE,
                              !.key = KeyOf[p], !.todo = todo]]
  BY DEF Rehome
<1>2. KeyOf[p] \in Key /\ NoJob \in Jobs(<<>>)
  BY WakeAssumption, NoJobIs
<1> DEFINE job == [NoJob EXCEPT !.phase = "waiting", !.open = TRUE, !.key = KeyOf[p], !.todo = todo]
<1>3. /\ job \in Jobs(job.todo) /\ job.phase = "waiting" /\ job.key = KeyOf[p]
      /\ job.launched = FALSE
  BY <1>2 DEF Jobs, NoJob
<1>4. page' = [page EXCEPT ![p] = job]
  BY <1>1
<1> HIDE DEF job
<1> QED BY <1>3, <1>4, JobsChange

(* A window stays in the barrier on a tick, or closes: its key stays.      *)
Stays(p) ==
    /\ JobsInv' /\ \A q \in Page : q # p => page'[q] = page[q]
    /\ page'[p].key = page[p].key

LEMMA StaysIs ==
    ASSUME JobsInv, NEW p \in Page
    PROVE  /\ Close(p) => Stays(p) /\ ~page'[p].open
           /\ \A f : TickLaunching(p, f) => Stays(p) /\ page'[p].launched = page[p].launched
                        /\ page'[p].open = page[p].open
           /\ \A seen \in Ages(IdleWaitCap) :
                 page' = [page EXCEPT ![p].launched = TRUE, ![p].released = seen,
                                      ![p].restored = 0, ![p].seen = Never]
                 /\ page[p].phase = "waiting"
                    => Stays(p) /\ page'[p].launched /\ page'[p].open = page[p].open
<1>0. page[p] \in Jobs(page[p].todo) /\ JobInv(p)
  BY DEF JobsInv, JobInv
<1>1. ASSUME Close(p)
      PROVE  Stays(p) /\ ~page'[p].open
  <2> DEFINE job == [page[p] EXCEPT !.open = FALSE]
  <2>1. /\ job \in Jobs(job.todo) /\ job.phase = page[p].phase /\ job.key = page[p].key
        /\ job.launched = page[p].launched /\ job.open = FALSE
    BY <1>0 DEF Jobs
  <2>2. page' = [page EXCEPT ![p] = job]
    BY <1>1 DEF Close, JobsInv
  <2> HIDE DEF job
  <2>3. /\ job.key \in {None, KeyOf[p]}
        /\ job.phase \in {"absent", "gone"} => job.key = None /\ ~job.open
        /\ job.phase \in {"absent", "created"} => ~job.launched
        /\ job.phase = "waiting" => job.key = KeyOf[p]
        /\ job.phase = "waking" => job.key = None
    BY <1>0, <2>1 DEF JobInv
  <2>4. JobsInv' /\ page'[p] = job /\ \A q \in Page : q # p => page'[q] = page[q]
    BY <2>1, <2>2, <2>3, JobsChange
  <2> QED BY <2>1, <2>4 DEF Stays
<1>2. ASSUME NEW f, TickLaunching(p, f)
      PROVE  Stays(p) /\ page'[p].launched = page[p].launched /\ page'[p].open = page[p].open
  <2> DEFINE job == [page[p] EXCEPT !.seen = NotedStart(p, f)]
  <2>0. NotedStart(p, f) \in Ages(HooklessSettle)
    BY <1>0, WakeAssumption DEF NotedStart, Jobs, Ages
  <2>1. /\ job \in Jobs(job.todo) /\ job.phase = page[p].phase /\ job.key = page[p].key
        /\ job.launched = page[p].launched /\ job.open = page[p].open
    BY <1>0, <2>0 DEF Jobs
  <2>2. page' = [page EXCEPT ![p] = job]
    BY <1>2 DEF TickLaunching, JobsInv
  <2> HIDE DEF job
  <2>3. /\ job.key \in {None, KeyOf[p]}
        /\ job.phase \in {"absent", "gone"} => job.key = None /\ ~job.open
        /\ job.phase \in {"absent", "created"} => ~job.launched
        /\ job.phase = "waiting" => job.key = KeyOf[p]
        /\ job.phase = "waking" => job.key = None
    BY <1>0, <2>1 DEF JobInv
  <2>4. JobsInv' /\ page'[p] = job /\ \A q \in Page : q # p => page'[q] = page[q]
    BY <2>1, <2>2, <2>3, JobsChange
  <2> QED BY <2>1, <2>4 DEF Stays
<1>3. ASSUME NEW seen \in Ages(IdleWaitCap),
             page' = [page EXCEPT ![p].launched = TRUE, ![p].released = seen,
                                  ![p].restored = 0, ![p].seen = Never],
             page[p].phase = "waiting"
      PROVE  Stays(p) /\ page'[p].launched /\ page'[p].open = page[p].open
  <2> DEFINE job == [page[p] EXCEPT !.launched = TRUE, !.released = seen,
                                    !.restored = 0, !.seen = Never]
  <2>0. 0 \in 0..ForegroundCap /\ Never \in Ages(HooklessSettle)
    BY WakeAssumption DEF Ages
  <2>1. /\ job \in Jobs(job.todo) /\ job.phase = page[p].phase /\ job.key = page[p].key
        /\ job.launched = TRUE /\ job.open = page[p].open
    BY <1>0, <1>3, <2>0 DEF Jobs
  <2>2. page' = [page EXCEPT ![p] = job]
    BY <1>3 DEF JobsInv
  <2> HIDE DEF job
  <2>3. /\ job.key \in {None, KeyOf[p]}
        /\ job.phase \in {"absent", "gone"} => job.key = None /\ ~job.open
        /\ job.phase \in {"absent", "created"} => ~job.launched
        /\ job.phase = "waiting" => job.key = KeyOf[p]
        /\ job.phase = "waking" => job.key = None
    BY <1>0, <2>1, <1>3 DEF JobInv
  <2>4. JobsInv' /\ page'[p] = job /\ \A q \in Page : q # p => page'[q] = page[q]
    BY <2>1, <2>2, <2>3, JobsChange
  <2> QED BY <2>1, <2>4 DEF Stays
<1> QED BY <1>1, <1>2, <1>3

LEMMA ClockIs ==
    ASSUME JobsInv, Clock
    PROVE  /\ JobsInv'
           /\ \A p \in Page : /\ page'[p].key = page[p].key /\ page'[p].open = page[p].open
                              /\ page'[p].launched = page[p].launched
<1>1. ASSUME NEW p \in Page
      PROVE  /\ page'[p] \in Jobs(page'[p].todo) /\ page'[p].phase = page[p].phase
             /\ page'[p].key = page[p].key /\ page'[p].open = page[p].open
             /\ page'[p].launched = page[p].launched
  <2> DEFINE r == IF page[p].phase = "waiting" /\ ~page[p].launched
                  THEN Older(page[p].restored, ForegroundCap) ELSE page[p].restored
             j == [page[p] EXCEPT !.restored = r, !.seen = Older(page[p].seen, HooklessSettle),
                                  !.released = Older(page[p].released, IdleWaitCap)]
  <2>1. page[p] \in Jobs(page[p].todo)
    BY DEF JobsInv, JobInv
  <2>2. page'[p] = j
    BY <2>1 DEF Clock, Jobs
  <2>3. /\ r \in 0..ForegroundCap
        /\ Older(page[p].seen, HooklessSettle) \in Ages(HooklessSettle)
        /\ Older(page[p].released, IdleWaitCap) \in Ages(IdleWaitCap)
    BY <2>1, OlderIs, WakeAssumption DEF Jobs, Ages, Never
  <2> HIDE DEF r
  <2> QED BY <2>1, <2>2, <2>3 DEF Jobs
<1>2. page' = [p \in Page |-> page'[p]]
  BY DEF Clock
<1> QED BY <1>1, <1>2 DEF JobsInv, JobInv

(* A window leaves the barrier with its entry, or stays with its key.      *)
LEMMA KeptIs ==
    ASSUME JobsInv, JobsInv', Kept, HasKeysOf(barrier', barrier),
           NEW p \in Page, \A q \in Page : q # p => page'[q] = page[q],
           \/ page'[p].key = page[p].key
           \/ page[p].key # None => \A e \in barrier' : e.key # page[p].key
    PROVE  Kept'
<1>1. barrier' \subseteq Entries
  BY DEF HasKeysOf
<1>2. ASSUME NEW e \in barrier'
      PROVE  \E q \in Page : page'[q].phase # "gone" /\ page'[q].key = e.key
  <2>1. PICK d \in barrier : d.key = e.key
    BY DEF HasKeysOf
  <2>2. PICK q \in Page : page[q].phase # "gone" /\ page[q].key = e.key
    BY <2>1 DEF Kept, NoDeadEntry
  <2>3. e.key # None
    BY <1>1, WakeAssumption DEF Entries
  <2>4. page'[q].key = e.key
    BY <2>2, <2>3
  <2> QED BY <2>3, <2>4 DEF JobsInv, JobInv
<1> QED BY <1>1, <1>2 DEF Kept, NoDeadEntry

(* A window enters with its own key.                                       *)
LEMMA KeptOnEntry ==
    ASSUME JobsInv, JobsInv', Kept, NEW p \in Page,
           HasKeysOf(barrier', barrier \cup {Entry(KeyOf[p], FALSE)}),
           \A q \in Page : q # p => page'[q] = page[q],
           page'[p].key = KeyOf[p]
    PROVE  Kept'
<1>0. KeyOf[p] \in Key /\ None \notin Key
  BY WakeAssumption
<1>1. barrier' \subseteq Entries
  BY DEF HasKeysOf
<1>2. ASSUME NEW e \in barrier'
      PROVE  \E q \in Page : page'[q].phase # "gone" /\ page'[q].key = e.key
  <2>1. PICK d \in barrier \cup {Entry(KeyOf[p], FALSE)} : d.key = e.key
    BY DEF HasKeysOf
  <2>2. e.key # None
    BY <1>0, <1>1 DEF Entries
  <2>3. CASE e.key = KeyOf[p]
    BY <2>2, <2>3 DEF JobsInv, JobInv
  <2>4. CASE e.key # KeyOf[p]
    <3>1. d \in barrier
      BY <1>0, <2>1, <2>4, EntryIs
    <3>2. PICK q \in Page : page[q].phase # "gone" /\ page[q].key = e.key
      BY <2>1, <3>1 DEF Kept, NoDeadEntry
    <3>3. q # p
      BY <2>2, <2>4, <3>2 DEF JobsInv, JobInv
    <3> QED BY <3>2, <3>3
  <2> QED BY <2>3, <2>4
<1> QED BY <1>1, <1>2 DEF Kept, NoDeadEntry

LEMMA SameIs == ASSUME NEW b \in SUBSET Entries PROVE HasKeysOf(b, b)
  BY DEF HasKeysOf

(* What the tick of a window that has launched makes of the barrier.       *)
ToldOf(p) == IF page[p].launched THEN Evaluated(barrier) ELSE Launched(barrier, page[p].key)

LEMMA ToldIs ==
    ASSUME Kept, NEW p \in Page
    PROVE  ToldOf(p) \in SUBSET Entries /\ HasKeysOf(ToldOf(p), barrier)
<1>1. barrier \in SUBSET Entries /\ HasKeysOf(barrier, barrier)
  BY SameIs DEF Kept
<1>2. /\ HasKeysOf(Evaluated(barrier), barrier)
      /\ HasKeysOf(Launched(barrier, page[p].key), barrier)
  BY <1>1, KeysStay
<1> QED BY <1>2 DEF ToldOf, HasKeysOf

LEMMA TickLaunchedIs ==
    ASSUME JobsInv, NEW p \in Page, NEW f, NEW idle, TickLaunched(p, f, idle)
    PROVE  /\ page[p].phase = "waiting"
           /\ \/ /\ Stays(p) /\ page'[p].launched /\ page'[p].open = page[p].open
                 /\ SetBarrier(ToldOf(p))
              \/ /\ Out(p) /\ SetBarrier(Leaving(ToldOf(p), page[p].key))
                 /\ IsReleased(ToldOf(p), page[p].key)
<1> DEFINE free == IsReleased(ToldOf(p), page[p].key)
           seen == IF free /\ page[p].released = Never THEN 0 ELSE page[p].released
           wakes == free /\ (idle \/ seen >= IdleWaitCap)
<1>1. page[p].phase = "waiting"
  BY DEF TickLaunched
<1>2. \/ /\ page' = [page EXCEPT ![p].launched = TRUE, ![p].released = seen,
                                 ![p].restored = 0, ![p].seen = Never]
         /\ SetBarrier(ToldOf(p))
      \/ /\ wakes /\ StepQueue(p, StillWanted(p))
         /\ SetBarrier(Leaving(ToldOf(p), page[p].key))
  BY DEF TickLaunched, ToldOf
<1>3. seen \in Ages(IdleWaitCap)
  <2>1. 0 \in Ages(IdleWaitCap)
    BY WakeAssumption DEF Ages
  <2>2. page[p].released \in Ages(IdleWaitCap)
    BY DEF JobsInv, JobInv, Jobs
  <2> QED BY <2>1, <2>2
<1>4. wakes => free
  OBVIOUS
<1> HIDE DEF seen, wakes
<1> QED BY <1>1, <1>2, <1>3, <1>4, StaysIs, QueueIsOut

LEMMA KeptInit == Init => JobsInv /\ Kept
<1>1. NoJob \in Jobs(<<>>) /\ NoJob.todo = <<>> /\ NoJob.key = None
      /\ NoJob.phase = "absent" /\ ~NoJob.open /\ ~NoJob.launched
  BY NoJobIs DEF NoJob
<1> QED BY <1>1 DEF Init, JobsInv, JobInv, Kept, NoDeadEntry

LEMMA KeptStep == JobsInv /\ Kept /\ [Next]_vars => JobsInv' /\ Kept'
<1> SUFFICES ASSUME JobsInv, Kept, [Next]_vars PROVE JobsInv' /\ Kept'
  OBVIOUS
<1>0. barrier \in SUBSET Entries /\ HasKeysOf(barrier, barrier)
  BY SameIs DEF Kept
<1>1. CASE UNCHANGED <<page, barrier>>
  BY <1>1 DEF JobsInv, JobInv, Kept, NoDeadEntry
<1>2. ASSUME NEW p \in Page, Create(p)
      PROVE  JobsInv' /\ Kept'
  <2>1. /\ JobsInv' /\ \A q \in Page : q # p => page'[q] = page[q]
        /\ page[p].key = None
        /\ page'[p].key = IF p \in Announced THEN KeyOf[p] ELSE None
    BY <1>2, CreateIs
  <2>2. CASE p \in Announced
    <3>1. HasKeysOf(barrier', barrier \cup {Entry(KeyOf[p], FALSE)})
      BY <1>0, <1>2, <2>2, EntersIs, WakeAssumption DEF Create, SetBarrier
    <3> QED BY <2>1, <2>2, <3>1, KeptOnEntry
  <2>3. CASE p \notin Announced
    <3>1. HasKeysOf(barrier', barrier)
      BY <1>0, <1>2, <2>3 DEF Create
    <3> QED BY <2>1, <2>3, <3>1, KeptIs
  <2> QED BY <2>2, <2>3
<1>3. ASSUME NEW p \in Page, Rehome(p)
      PROVE  JobsInv' /\ Kept'
  <2>1. /\ JobsInv' /\ \A q \in Page : q # p => page'[q] = page[q]
        /\ page'[p].key = KeyOf[p]
    BY <1>3, RehomeIs
  <2>2. HasKeysOf(barrier', barrier \cup {Entry(KeyOf[p], FALSE)})
    BY <1>0, <1>3, EntersIs, WakeAssumption DEF Rehome, SetBarrier
  <2> QED BY <2>1, <2>2, KeptOnEntry
<1>4. ASSUME NEW p \in Page, Out(p), NEW b \in SUBSET Entries, HasKeysOf(b, barrier),
             SetBarrier(Leaving(b, page[p].key))
      PROVE  JobsInv' /\ Kept'
  <2>1. /\ JobsInv' /\ \A q \in Page : q # p => page'[q] = page[q]
    BY <1>4, OutIs
  <2>2. /\ HasKeysOf(barrier', barrier)
        /\ page[p].key # None => \A e \in barrier' : e.key # page[p].key
    BY <1>4, KeysStay DEF SetBarrier
  <2> QED BY <2>1, <2>2, KeptIs
<1>5. ASSUME NEW p \in Page, Stays(p), HasKeysOf(barrier', barrier)
      PROVE  JobsInv' /\ Kept'
  BY <1>5, KeptIs DEF Stays
<1>6. ASSUME NEW p \in Page, RestoreNothing(p) \/ Destroy(p)
      PROVE  JobsInv' /\ Kept'
  <2>1. RestoreNothing(p) => Out(p)
    BY DoneIsOut DEF RestoreNothing
  <2>2. ASSUME Destroy(p) PROVE Out(p)
    <3> DEFINE gone == [NoJob EXCEPT !.phase = "gone"]
    <3>1. page' = [page EXCEPT ![p] = gone] /\ ~page[p].open /\ page[p].open \in BOOLEAN
      BY <2>2 DEF Destroy, JobsInv, JobInv, Jobs
    <3>2. /\ gone \in Jobs(<<>>) /\ gone.todo = <<>> /\ gone.key = None
          /\ gone.phase = "gone" /\ gone.open = FALSE
      BY JobIs DEF NoJob
    <3> HIDE DEF gone
    <3> QED BY <3>1, <3>2 DEF Out
  <2>3. SetBarrier(Leaving(barrier, page[p].key))
    BY <1>6 DEF RestoreNothing, Destroy
  <2> QED BY <1>0, <1>4, <1>6, <2>1, <2>2, <2>3
<1>7. ASSUME NEW p \in Page, Close(p)
      PROVE  JobsInv' /\ Kept'
  BY <1>0, <1>5, <1>7, StaysIs DEF Close
<1>8. ASSUME NEW p \in Page, Tick(p)
      PROVE  JobsInv' /\ Kept'
  <2>1. ASSUME TickWaking(p) PROVE JobsInv' /\ Kept'
    <3>1. Out(p) /\ barrier' = barrier
      BY <2>1, QueueIsOut DEF TickWaking
    <3>2. page[p].key = None
      BY <2>1 DEF TickWaking, JobsInv, JobInv
    <3>3. JobsInv' /\ page'[p].key = None /\ \A q \in Page : q # p => page'[q] = page[q]
      BY <3>1, OutIs
    <3> QED BY <1>0, <3>1, <3>2, <3>3, KeptIs
  <2>2. ASSUME NEW f, TickLaunching(p, f) PROVE JobsInv' /\ Kept'
    BY <1>0, <1>5, <2>2, StaysIs DEF TickLaunching
  <2>3. ASSUME NEW f, TickNothingBusy(p, f) PROVE JobsInv' /\ Kept'
    <3>1. Out(p)
      BY <2>3, DoneIsOut DEF TickNothingBusy
    <3>2. /\ Launched(barrier, page[p].key) \in SUBSET Entries
          /\ HasKeysOf(Launched(barrier, page[p].key), barrier)
      <4>1. HasKeysOf(Launched(barrier, page[p].key), barrier)
        BY <1>0, KeysStay
      <4> QED BY <4>1 DEF HasKeysOf
    <3>3. SetBarrier(Leaving(Launched(barrier, page[p].key), page[p].key))
      BY <2>3 DEF TickNothingBusy
    <3> QED BY <1>4, <3>1, <3>2, <3>3
  <2>4. ASSUME NEW f, NEW idle, TickLaunched(p, f, idle) PROVE JobsInv' /\ Kept'
    <3>1. ToldOf(p) \in SUBSET Entries /\ HasKeysOf(ToldOf(p), barrier)
      BY ToldIs
    <3>2. CASE Stays(p) /\ SetBarrier(ToldOf(p))
      BY <1>5, <3>1, <3>2 DEF SetBarrier
    <3>3. CASE Out(p) /\ SetBarrier(Leaving(ToldOf(p), page[p].key))
      BY <1>4, <3>1, <3>3
    <3> QED BY <2>4, <3>2, <3>3, TickLaunchedIs
  <2> QED BY <1>8, <2>1, <2>2, <2>3, <2>4 DEF Tick
<1>9. CASE Clock
  <2>1. JobsInv' /\ \A p \in Page : page'[p].key = page[p].key
    BY <1>9, ClockIs
  <2>2. barrier' = {[e EXCEPT !.age = Older(@, BarrierCap)] : e \in barrier}
    BY <1>9 DEF Clock
  <2>3. ASSUME NEW e \in barrier
        PROVE  /\ [e EXCEPT !.age = Older(@, BarrierCap)] \in Entries
               /\ [e EXCEPT !.age = Older(@, BarrierCap)].key = e.key
    <3>1. e \in Entries /\ e.age \in 0..BarrierCap /\ BarrierCap \in Nat
      BY <1>0, WakeAssumption DEF Entries
    <3>2. Older(e.age, BarrierCap) \in 0..BarrierCap
      BY <3>1, OlderIs DEF Ages, Never
    <3> QED BY <3>1, <3>2 DEF Entries
  <2>4. barrier' \subseteq Entries /\ \A e \in barrier' : \E d \in barrier : d.key = e.key
    BY <2>2, <2>3
  <2>5. NoDeadEntry'
    <3> SUFFICES ASSUME NEW e \in barrier'
                 PROVE  \E p \in Page : page'[p].phase # "gone" /\ page'[p].key = e.key
      BY DEF NoDeadEntry
    <3>1. PICK p \in Page : page[p].key = e.key
      BY <2>4 DEF Kept, NoDeadEntry
    <3>2. e.key # None
      BY <2>4, WakeAssumption DEF Entries
    <3> QED BY <2>1, <3>1, <3>2 DEF JobsInv, JobInv
  <2> QED BY <2>1, <2>4, <2>5 DEF Kept
<1>10. CASE Tabs \/ UNCHANGED vars
  BY <1>1, <1>10 DEF Tabs, NotWanted, CloseTab, Move, vars
<1> QED BY <1>2, <1>3, <1>6, <1>7, <1>8, <1>9, <1>10 DEF Next, Windows

(* No entry of the barrier outlives the window it stands for, whichever way  *)
(* the window ends: it would hold all other windows up to the cap.          *)
THEOREM LeavesNoDeadEntry == Spec => []NoDeadEntry
<1>1. JobsInv /\ Kept => NoDeadEntry
  BY DEF Kept
<1> QED BY <1>1, KeptInit, KeptStep, PTL DEF Spec

-----------------------------------------------------------------------------
(***************************************************************************)
(* Windows are released together.  A window that is held back has an entry,  *)
(* which is not marked as launched before the window has launched; and when  *)
(* such an entry is already released, so are all others.                    *)
(***************************************************************************)
OwnKeys == \A p, q \in Page : KeyOf[p] = KeyOf[q] => p = q

Firm(b, q) ==
    /\ Find(b, page[q].key) # {}
    /\ \A d \in Find(b, page[q].key) : d.released \/ ~d.launched \/ page[q].launched
Whole(q) ==
    (\E d \in Find(barrier, page[q].key) : d.released) => \A d \in barrier : d.released
HeldInv == \A q \in Page : HeldBack(q) => Firm(barrier, q) /\ Whole(q)

(* An entry is released for the first time.                                *)
Frees(b) == \E e \in b : e.released /\ \A d \in Find(barrier, e.key) : ~d.released

ReleasesTogether ==
    Frees(barrier') =>
        \/ CapExpired(barrier)
        \/ \A p \in Page : HeldBack(p) => page'[p].launched \/ page'[p].key = None

(* What the methods of the barrier make of it, as the windows in others see  *)
(* it.                                                                      *)
Good(b, others) ==
    /\ HasKeysOf(b, barrier)
    /\ CapExpired(b) => CapExpired(barrier)
    /\ \A q \in others : HeldBack(q) => Firm(b, q)
    /\ Frees(b) => CapExpired(barrier) \/ \A q \in others : HeldBack(q) => page[q].launched

LEMMA GoodBarrier ==
    ASSUME Kept, HeldInv, NEW others \in SUBSET Page
    PROVE  Good(barrier, others)
<1>1. HasKeysOf(barrier, barrier)
  BY SameIs DEF Kept
<1>2. ~Frees(barrier)
  BY DEF Frees, Find
<1> QED BY <1>1, <1>2 DEF Good, HeldInv

(* An entry that is as it was, or is released now.                         *)
LEMMA FirmStays ==
    ASSUME NEW b, NEW c, NEW q \in Page, Firm(b, q),
           \E e \in c : e.key = page[q].key,
           \A e \in c : e.key = page[q].key =>
               \E d \in b : /\ e.key = d.key /\ (d.released => e.released)
                            /\ (e.launched => d.launched)
    PROVE  Firm(c, q)
  BY DEF Firm, Find

LEMMA GoodEvaluated ==
    ASSUME HeldInv, NEW others \in SUBSET Page, NEW b, Good(b, others)
    PROVE  Good(Evaluated(b), others)
<1>0. b \in SUBSET Entries
  BY DEF Good, HasKeysOf
<1>1. CASE Evaluated(b) = b
  BY <1>1
<1>2. CASE Evaluated(b) # b
  <2>1. AllLaunched(b) \/ CapExpired(b)
    BY <1>0, <1>2, EvaluatedIs
  <2>2. \A e \in Evaluated(b) : e.released
    <3>1. Evaluated(b) = {[e EXCEPT !.released = TRUE] : e \in b}
      BY <1>2 DEF Evaluated
    <3>2. \A e \in b : [e EXCEPT !.released = TRUE].released
      BY <1>0 DEF Entries
    <3> QED BY <3>1, <3>2
  <2>3. HasKeysOf(Evaluated(b), barrier)
    BY <1>0, KeysStay DEF Good
  <2>4. ~CapExpired(Evaluated(b))
    BY <2>2 DEF CapExpired, Waiting
  <2>5. ASSUME NEW q \in others, HeldBack(q)
        PROVE  Firm(Evaluated(b), q)
    <3>1. Firm(b, q)
      BY <2>5 DEF Good
    <3>2. PICK d \in b : d.key = page[q].key
      BY <3>1 DEF Firm, Find
    <3>3. \E e \in Evaluated(b) : e.key = page[q].key
      BY <1>0, <3>2, EvaluatedIs
    <3> QED BY <2>2, <3>3 DEF Firm, Find
  <2>6. ASSUME Frees(Evaluated(b)), ~CapExpired(barrier), NEW q \in others, HeldBack(q)
        PROVE  page[q].launched
    <3>1. AllLaunched(b)
      BY <2>1, <2>6 DEF Good
    <3>2. Firm(b, q)
      BY <2>6 DEF Good
    <3>3. PICK d \in b : d.key = page[q].key
      BY <3>2 DEF Firm, Find
    <3>4. CASE ~d.released
      BY <3>1, <3>2, <3>3, <3>4 DEF AllLaunched, Waiting, Firm, Find
    <3>5. CASE d.released /\ Frees(b)
      BY <2>6, <3>5 DEF Good
    <3>6. CASE d.released /\ ~Frees(b)
      <4>1. \E c \in Find(barrier, page[q].key) : c.released
        BY <3>3, <3>6 DEF Frees
      <4>2. \A c \in barrier : c.released
        BY <2>6, <4>1 DEF HeldInv, Whole
      <4>3. ~Frees(Evaluated(b))
        BY <2>3, <4>2 DEF Frees, HasKeysOf, Find
      <4> QED BY <2>6, <4>3
    <3> QED BY <3>4, <3>5, <3>6
  <2> QED BY <2>3, <2>4, <2>5, <2>6 DEF Good
<1> QED BY <1>1, <1>2

(* Marking or dropping the actor's entry shows the others nothing.         *)
LEMMA GoodOthers ==
    ASSUME OwnKeys, JobsInv, HeldInv, NEW p \in Page, NEW b,
           Good(b, Page \ {p})
    PROVE  /\ Good(Launched(b, page[p].key), Page \ {p})
           /\ Good(Leaving(b, page[p].key), Page \ {p})
<1> DEFINE k == page[p].key
           told == Telling(b, k)
           rest == b \ Find(b, k)
           others == Page \ {p}
<1>0. b \in SUBSET Entries /\ HasKeysOf(b, barrier)
  BY DEF Good, HasKeysOf
<1>1. ASSUME NEW q \in others, HeldBack(q) PROVE page[q].key # k
  BY <1>1 DEF HeldBack, JobsInv, JobInv, OwnKeys
<1>2. Good(told, others)
  <2>1. /\ told \subseteq Entries
        /\ \A e \in told : \E d \in b :
              /\ e.key = d.key /\ e.age = d.age /\ e.released = d.released
              /\ e.launched => d.launched \/ e.key = k
        /\ \A d \in b : \E e \in told : e.key = d.key
    <3> HIDE DEF k
    <3> QED BY <1>0, MarkedIs
  <2> HIDE DEF told, k
  <2>2. HasKeysOf(told, barrier)
    BY <1>0, <2>1 DEF HasKeysOf
  <2>3. CapExpired(told) => CapExpired(b)
    BY <2>1 DEF CapExpired, Waiting
  <2>4. Frees(told) => Frees(b)
    BY <2>1 DEF Frees
  <2>5. ASSUME NEW q \in others, HeldBack(q) PROVE Firm(told, q)
    <3>1. Firm(b, q) /\ page[q].key # k
      BY <1>1, <2>5 DEF Good
    <3>2. \E e \in told : e.key = page[q].key
      BY <2>1, <3>1 DEF Firm, Find
    <3> QED BY <2>1, <3>1, <3>2, FirmStays
  <2> QED BY <2>2, <2>3, <2>4, <2>5 DEF Good
<1>3. Good(rest, others)
  <2>1. rest \subseteq b /\ \A e \in b : e.key # k => e \in rest
    BY DEF Find
  <2> HIDE DEF rest, k
  <2>2. HasKeysOf(rest, barrier)
    BY <1>0, <2>1 DEF HasKeysOf
  <2>3. (CapExpired(rest) => CapExpired(b)) /\ (Frees(rest) => Frees(b))
    BY <2>1 DEF CapExpired, Waiting, Frees
  <2>4. ASSUME NEW q \in others, HeldBack(q) PROVE Firm(rest, q)
    <3>1. Firm(b, q) /\ page[q].key # k
      BY <1>1, <2>4 DEF Good
    <3> QED BY <2>1, <3>1 DEF Firm, Find
  <2> QED BY <2>2, <2>3, <2>4 DEF Good
<1>4. Launched(b, k) = Evaluated(told) /\ Leaving(b, k) = IF k = None THEN b ELSE Evaluated(rest)
  BY DEF Launched, Telling, Leaving, Left
<1> HIDE DEF told, rest, k
<1>5. Good(Launched(b, k), others) /\ Good(Leaving(b, k), others)
  BY <1>2, <1>3, <1>4, GoodEvaluated
<1> QED BY <1>5 DEF k

Held == HeldInv' /\ ReleasesTogether

(* A window that is told to the barrier or leaves it.                      *)
LEMMA HeldSet ==
    ASSUME OwnKeys, JobsInv, HeldInv, NEW p \in Page, SetBarrier(barrier'),
           Good(barrier', Page \ {p}),
           \A q \in Page : q # p => page'[q] = page[q],
           \/ page'[p].key = None
           \/ /\ page'[p].key = page[p].key /\ page'[p].open = page[p].open
              /\ page'[p].launched
              /\ \A d \in barrier : \E e \in barrier' : e.key = d.key
    PROVE  Held
<1>1. \A q \in Page : HeldBack(q)' => HeldBack(q) /\ page'[q].key = page[q].key
  <2>1. freed \subseteq freed'
    BY DEF SetBarrier
  <2> QED BY <2>1 DEF HeldBack
<1>2. ASSUME NEW q \in Page, HeldBack(q)'
      PROVE  \A d \in Find(barrier', page'[q].key) : ~d.released
  BY <1>1, <1>2 DEF SetBarrier, HeldBack, Find
<1>3. ASSUME NEW q \in Page, HeldBack(q)'
      PROVE  Firm(barrier, q)'
  <2>1. HeldBack(q) /\ page'[q].key = page[q].key
    BY <1>1, <1>3
  <2>2. CASE q # p
    <3>1. Firm(barrier', q)
      BY <2>1, <2>2 DEF Good
    <3> QED BY <2>2, <3>1 DEF Firm
  <2>3. CASE q = p
    <3>1. page'[p].launched /\ \A d \in barrier : \E e \in barrier' : e.key = d.key
      BY <1>3, <2>3 DEF HeldBack
    <3>2. Find(barrier, page[p].key) # {}
      BY <2>1, <2>3 DEF HeldInv, Firm
    <3> QED BY <2>1, <2>3, <3>1, <3>2 DEF Firm, Find
  <2> QED BY <2>2, <2>3
<1>4. HeldInv'
  BY <1>2, <1>3 DEF HeldInv, Whole
<1>5. ReleasesTogether
  BY DEF ReleasesTogether, Good
<1> QED BY <1>4, <1>5 DEF Held

(* The barrier is left as it is.                                           *)
LEMMA HeldSame ==
    ASSUME HeldInv, barrier' = barrier, freed' = freed,
           \A q \in Page : HeldBack(q)' => /\ page'[q].key = page[q].key
                                          /\ page'[q].open = page[q].open
                                          /\ page'[q].launched = page[q].launched
    PROVE  Held
<1>1. HeldInv'
  BY DEF HeldInv, HeldBack, Firm, Whole
<1>2. ReleasesTogether
  BY DEF ReleasesTogether, Frees, Find
<1> QED BY <1>1, <1>2 DEF Held

(* Without a key a window has no entry, nor has any other one for it.      *)
LEMMA NoEntry ==
    ASSUME OwnKeys, JobsInv, Kept, NEW p \in Page, page[p].key = None
    PROVE  \A e \in barrier : e.key # KeyOf[p]
<1> SUFFICES ASSUME NEW e \in barrier, e.key = KeyOf[p] PROVE FALSE
  OBVIOUS
<1>1. PICK q \in Page : page[q].key = KeyOf[p]
  BY DEF Kept, NoDeadEntry
<1>2. KeyOf[p] # None
  BY WakeAssumption
<1> QED BY <1>1, <1>2 DEF JobsInv, JobInv, OwnKeys

LEMMA HeldAnnounce ==
    ASSUME OwnKeys, JobsInv, Kept, HeldInv, NEW p \in Page, Create(p)
    PROVE  Held
<1>1. /\ \A q \in Page : q # p => page'[q] = page[q]
      /\ page[p].key = None /\ ~page'[p].launched
      /\ page'[p].key = IF p \in Announced THEN KeyOf[p] ELSE None
  BY CreateIs
<1>2. CASE p \notin Announced
  BY <1>1, <1>2, HeldSame DEF Create, HeldBack
<1>3. CASE p \in Announced
  <2> DEFINE new == Entry(KeyOf[p], FALSE)
  <2>1. new.key = KeyOf[p] /\ ~new.launched /\ ~new.released
    BY EntryIs, WakeAssumption
  <2>2. \A e \in barrier : e.key # KeyOf[p]
    BY <1>1, NoEntry
  <2>3. SetBarrier(barrier') /\ barrier' = barrier \cup {new}
    BY <1>3, <2>2 DEF Create, SetBarrier, Announcing, Find
  <2> HIDE DEF new
  <2>4. ReleasesTogether
    BY <2>1, <2>3 DEF ReleasesTogether, Frees, Find
  <2>5. ASSUME NEW q \in Page, q # p, HeldBack(q)'
        PROVE  Firm(barrier, q)' /\ Whole(q)'
    <3>1. HeldBack(q) /\ page'[q] = page[q] /\ page[q].key # KeyOf[p]
      BY <1>1, <2>3, <2>5 DEF HeldBack, SetBarrier, JobsInv, JobInv, OwnKeys
    <3>2. Firm(barrier, q)
      BY <3>1 DEF HeldInv
    <3>3. Firm(barrier', q)
      BY <2>1, <2>3, <3>1, <3>2 DEF Firm, Find
    <3>4. \A d \in Find(barrier', page[q].key) : ~d.released
      BY <2>3, <2>5, <3>1 DEF SetBarrier, HeldBack, Find
    <3> QED BY <3>1, <3>3, <3>4 DEF Firm, Whole
  <2>6. Firm(barrier, p)' /\ Whole(p)'
    <3>1. Find(barrier', KeyOf[p]) = {new}
      BY <2>1, <2>2, <2>3 DEF Find
    <3> QED BY <1>1, <1>3, <2>1, <3>1 DEF Firm, Whole
  <2> QED BY <2>4, <2>5, <2>6 DEF Held, HeldInv
<1> QED BY <1>2, <1>3

(* The fresh entry of a window that joins holds all others back.           *)
LEMMA HeldFresh ==
    ASSUME OwnKeys, JobsInv, Kept, HeldInv, NEW p \in Page, Rehome(p),
           Find(barrier, KeyOf[p]) = {}
    PROVE  Held
<1> DEFINE new == Entry(KeyOf[p], TRUE)
           b == barrier \cup {new}
<1>0. KeyOf[p] \in Key /\ BarrierCap \in Nat \ {0} /\ barrier \subseteq Entries
  BY WakeAssumption DEF Kept
<1>1. /\ new \in Entries /\ new.key = KeyOf[p] /\ new.age = 0
      /\ ~new.launched /\ ~new.released
  BY <1>0, EntryIs
<1>2. /\ \A q \in Page : q # p => page'[q] = page[q]
      /\ page'[p].key = KeyOf[p] /\ ~page'[p].launched
  BY RehomeIs
<1>3. SetBarrier(Evaluated(b)) /\ \A e \in barrier : e.key # KeyOf[p]
  BY DEF Rehome, Joined, Find
<1> HIDE DEF new
<1>4. b \in SUBSET Entries
  BY <1>0, <1>1
<1>5. /\ \A e \in Evaluated(b) : \E d \in b :
            e.key = d.key /\ e.launched = d.launched /\ e.age = d.age
            /\ (d.released => e.released)
      /\ \A d \in b : \E e \in Evaluated(b) : e.key = d.key
      /\ Evaluated(b) = b \/ AllLaunched(b) \/ CapExpired(b)
  BY <1>4, EvaluatedIs
<1>6. ~AllLaunched(b)
  BY <1>1 DEF AllLaunched, Waiting
<1>7. CapExpired(b) => CapExpired(barrier)
  <2>1. ~(new.age >= BarrierCap)
    BY <1>0, <1>1
  <2> QED BY <2>1 DEF CapExpired, Waiting
<1>8. Evaluated(b) = b \/ \A e \in Evaluated(b) : e.released
  <2>1. \A e \in b : [e EXCEPT !.released = TRUE].released
    BY <1>4 DEF Entries
  <2> QED BY <2>1 DEF Evaluated
<1>9. barrier' = Evaluated(b)
  BY <1>3 DEF SetBarrier
<1> HIDE DEF b
<1>10. ReleasesTogether
  <2>1. Evaluated(b) = b => ~Frees(barrier')
    BY <1>1, <1>9 DEF Frees, Find, b
  <2> QED BY <1>5, <1>6, <1>7, <2>1 DEF ReleasesTogether
<1>11. ASSUME NEW q \in Page, q # p, HeldBack(q)'
       PROVE  Firm(barrier, q)' /\ Whole(q)'
  <2>1. HeldBack(q) /\ page'[q] = page[q] /\ page[q].key # KeyOf[p]
    BY <1>2, <1>3, <1>11 DEF HeldBack, SetBarrier, JobsInv, JobInv, OwnKeys
  <2>2. Firm(barrier, q)
    BY <2>1 DEF HeldInv
  <2>3. Firm(b, q)
    BY <1>1, <2>1, <2>2 DEF Firm, Find, b
  <2>4. \E e \in Evaluated(b) : e.key = page[q].key
    BY <1>5, <2>3 DEF Firm, Find
  <2>5. Firm(Evaluated(b), q)
    BY <1>5, <2>3, <2>4, FirmStays
  <2>6. \A d \in Find(barrier', page[q].key) : ~d.released
    BY <1>3, <1>9, <1>11, <2>1 DEF SetBarrier, HeldBack, Find
  <2> QED BY <1>9, <2>1, <2>5, <2>6 DEF Firm, Whole
<1>12. Firm(barrier, p)' /\ Whole(p)'
  <2>1. \A e \in b : e.key = KeyOf[p] => e = new
    BY <1>3 DEF b
  <2>2. new \in b
    BY DEF b
  <2>3. \E e \in Evaluated(b) : e.key = KeyOf[p]
    BY <1>1, <1>5, <2>2
  <2>4. \A e \in Evaluated(b) : e.key = KeyOf[p] => ~e.launched
    BY <1>1, <1>5, <2>1
  <2>5. Evaluated(b) = b => \A e \in Evaluated(b) : e.key = KeyOf[p] => ~e.released
    BY <1>1, <2>1
  <2>6. Find(barrier', page'[p].key) = {e \in Evaluated(b) : e.key = KeyOf[p]}
    BY <1>2, <1>9 DEF Find
  <2>7. Firm(barrier, p)'
    BY <2>3, <2>4, <2>6 DEF Firm
  <2>8. Whole(p)'
    BY <1>8, <1>9, <2>5, <2>6 DEF Whole
  <2> QED BY <2>7, <2>8
<1> QED BY <1>10, <1>11, <1>12 DEF Held, HeldInv

(* A window that was announced is rehomed: it is still held back itself.   *)
LEMMA HeldJoin ==
    ASSUME OwnKeys, JobsInv, Kept, HeldInv, NEW p \in Page, Rehome(p),
           Find(barrier, KeyOf[p]) # {}
    PROVE  Held
<1> DEFINE k == KeyOf[p]
           b == Entering(barrier, k)
<1>0. barrier \in SUBSET Entries
  BY DEF Kept
<1>1. /\ \A q \in Page : q # p => page'[q] = page[q]
      /\ page'[p].key = k /\ ~page'[p].launched
  BY RehomeIs
<1>2. page[p].key = k /\ page[p].open /\ ~page[p].launched
  <2>1. page[p].key # None
    BY NoEntry DEF Find
  <2> QED BY <2>1 DEF JobsInv, JobInv, Rehome
<1>3. SetBarrier(Evaluated(b))
  BY DEF Rehome, Joined, Entering
<1>4. /\ b \subseteq Entries
      /\ \A e \in b : \E d \in barrier :
            e.key = d.key /\ e.launched = d.launched /\ e.age = d.age /\ e.released = d.released
      /\ \A d \in barrier : \E e \in b : e.key = d.key
  BY <1>0, MarkedIs
<1> HIDE DEF b, k
<1>5. Good(b, Page)
  <2>1. HasKeysOf(b, barrier)
    BY <1>4 DEF HasKeysOf
  <2>2. (CapExpired(b) => CapExpired(barrier)) /\ ~Frees(b)
    BY <1>4 DEF CapExpired, Waiting, Frees, Find
  <2>3. ASSUME NEW q \in Page, HeldBack(q) PROVE Firm(b, q)
    <3>1. Firm(barrier, q)
      BY <2>3 DEF HeldInv
    <3>2. \E e \in b : e.key = page[q].key
      BY <1>4, <3>1 DEF Firm, Find
    <3> QED BY <1>4, <3>1, <3>2, FirmStays
  <2> QED BY <2>1, <2>2, <2>3 DEF Good
<1>6. Good(Evaluated(b), Page)
  BY <1>5, GoodEvaluated
<1>7. barrier' = Evaluated(b)
  BY <1>3 DEF SetBarrier
<1>8. ReleasesTogether
  BY <1>1, <1>2, <1>6, <1>7 DEF ReleasesTogether, Good
<1>9. ASSUME NEW q \in Page, HeldBack(q)'
      PROVE  Firm(barrier, q)' /\ Whole(q)'
  <2>1. /\ HeldBack(q) /\ page'[q].key = page[q].key
        /\ page'[q].launched = page[q].launched \/ ~page[q].launched
    BY <1>1, <1>2, <1>3, <1>9 DEF HeldBack, SetBarrier
  <2>2. Firm(Evaluated(b), q)
    BY <1>6, <2>1 DEF Good
  <2>3. \A d \in Find(barrier', page[q].key) : ~d.released
    BY <1>3, <1>7, <1>9, <2>1 DEF SetBarrier, HeldBack, Find
  <2> QED BY <1>7, <2>1, <2>2, <2>3 DEF Firm, Whole
<1> QED BY <1>8, <1>9 DEF Held, HeldInv

LEMMA HeldClock ==
    ASSUME JobsInv, Kept, HeldInv, Clock
    PROVE  Held
<1> DEFINE aged(e) == [e EXCEPT !.age = Older(@, BarrierCap)]
<1>1. barrier' = {aged(e) : e \in barrier} /\ freed' = freed
  BY DEF Clock
<1>2. \A e \in barrier : /\ aged(e).key = e.key /\ aged(e).launched = e.launched
                         /\ aged(e).released = e.released
  BY DEF Kept, Entries
<1> HIDE DEF aged
<1>3. /\ \A e \in barrier' : \E d \in barrier :
            e.key = d.key /\ e.launched = d.launched /\ e.released = d.released
      /\ \A d \in barrier : \E e \in barrier' : e.key = d.key
  BY <1>1, <1>2
<1>4. \A q \in Page : /\ page'[q].key = page[q].key /\ page'[q].open = page[q].open
                      /\ page'[q].launched = page[q].launched
  BY ClockIs
<1>5. ReleasesTogether
  BY <1>3 DEF ReleasesTogether, Frees, Find
<1>6. ASSUME NEW q \in Page, HeldBack(q)'
      PROVE  Firm(barrier, q)' /\ Whole(q)'
  <2>1. HeldBack(q)
    BY <1>1, <1>4, <1>6 DEF HeldBack
  <2>2. Firm(barrier, q) /\ Whole(q)
    BY <2>1 DEF HeldInv
  <2>3. Firm(barrier', q)
    <3>1. \E e \in barrier' : e.key = page[q].key
      BY <1>3, <2>2 DEF Firm, Find
    <3> QED BY <1>3, <2>2, <3>1, FirmStays
  <2>4. Whole(q)'
    BY <1>3, <1>4, <2>2 DEF Whole, Find
  <2> QED BY <1>4, <2>3, <2>4 DEF Firm
<1> QED BY <1>5, <1>6 DEF Held, HeldInv

LEMMA HeldTick ==
    ASSUME OwnKeys, JobsInv, Kept, HeldInv, NEW p \in Page, Tick(p)
    PROVE  Held
<1>0. Good(barrier, Page \ {p})
  BY GoodBarrier
<1>1. ASSUME TickWaking(p) PROVE Held
  <2>1. Out(p) /\ barrier' = barrier /\ freed' = freed
    BY <1>1, QueueIsOut DEF TickWaking
  <2>2. page'[p].key = None /\ \A q \in Page : q # p => page'[q] = page[q]
    BY <2>1, OutIs
  <2> QED BY <2>1, <2>2, HeldSame DEF HeldBack
<1>2. ASSUME NEW f, TickLaunching(p, f) PROVE Held
  <2>1. /\ Stays(p) /\ page'[p].launched = page[p].launched
        /\ page'[p].open = page[p].open
    BY <1>2, StaysIs
  <2>2. barrier' = barrier /\ freed' = freed
    BY <1>2 DEF TickLaunching
  <2> QED BY <2>1, <2>2, HeldSame DEF Stays
<1>3. ASSUME NEW f, TickNothingBusy(p, f) PROVE Held
  <2>1. Out(p)
    BY <1>3, DoneIsOut DEF TickNothingBusy
  <2>2. page'[p].key = None /\ \A q \in Page : q # p => page'[q] = page[q]
    BY <2>1, OutIs
  <2>3. SetBarrier(barrier')
        /\ barrier' = Leaving(Launched(barrier, page[p].key), page[p].key)
    BY <1>3 DEF TickNothingBusy, SetBarrier
  <2>4. Good(barrier', Page \ {p})
    BY <1>0, <2>3, GoodOthers
  <2> QED BY <2>2, <2>3, <2>4, HeldSet
<1>4. ASSUME NEW f, NEW idle, TickLaunched(p, f, idle) PROVE Held
  <2>1. Good(ToldOf(p), Page \ {p})
    BY <1>0, GoodOthers, GoodEvaluated DEF ToldOf
  <2>2. CASE /\ Stays(p) /\ page'[p].launched /\ page'[p].open = page[p].open
             /\ SetBarrier(ToldOf(p))
    <3>1. barrier' = ToldOf(p)
      BY <2>2 DEF SetBarrier
    <3>2. \A d \in barrier : \E e \in ToldOf(p) : e.key = d.key
      <4>1. barrier \in SUBSET Entries
        BY DEF Kept
      <4>2. \A d \in barrier : \E e \in Evaluated(barrier) : e.key = d.key
        BY <4>1, EvaluatedIs
      <4>3. \A d \in barrier : \E e \in Launched(barrier, page[p].key) : e.key = d.key
        <5> DEFINE told == Telling(barrier, page[p].key)
        <5>1. told \in SUBSET Entries /\ \A d \in barrier : \E e \in told : e.key = d.key
          BY <4>1, MarkedIs
        <5>2. Launched(barrier, page[p].key) = Evaluated(told)
          BY DEF Launched, Telling
        <5> HIDE DEF told
        <5>3. \A d \in told : \E e \in Evaluated(told) : e.key = d.key
          BY <5>1, EvaluatedIs
        <5> QED BY <5>1, <5>2, <5>3
      <4> QED BY <4>2, <4>3 DEF ToldOf
    <3> QED BY <2>1, <2>2, <3>1, <3>2, HeldSet DEF Stays
  <2>3. CASE Out(p) /\ SetBarrier(Leaving(ToldOf(p), page[p].key))
    <3>1. page'[p].key = None /\ \A q \in Page : q # p => page'[q] = page[q]
      BY <2>3, OutIs
    <3>2. SetBarrier(barrier') /\ barrier' = Leaving(ToldOf(p), page[p].key)
      BY <2>3 DEF SetBarrier
    <3>3. Good(barrier', Page \ {p})
      BY <2>1, <3>2, GoodOthers
    <3> QED BY <3>1, <3>2, <3>3, HeldSet
  <2> QED BY <1>4, <2>2, <2>3, TickLaunchedIs
<1> QED BY <1>1, <1>2, <1>3, <1>4 DEF Tick

LEMMA HeldInit == Init => HeldInv
  BY NoJobIs DEF Init, HeldInv, HeldBack, NoJob

LEMMA HeldStep ==
    ASSUME OwnKeys, JobsInv, Kept, HeldInv, [Next]_vars
    PROVE  Held
<1>1. ASSUME NEW p \in Page, Rehome(p) PROVE Held
  BY <1>1, HeldFresh, HeldJoin
<1>2. ASSUME NEW p \in Page, RestoreNothing(p) \/ Destroy(p) PROVE Held
  <2>1. page'[p].key = None /\ \A q \in Page : q # p => page'[q] = page[q]
    <3>1. NoJob.key = None
      BY DEF NoJob
    <3>2. CASE RestoreNothing(p)
      BY <3>2, DoneIsOut, OutIs DEF RestoreNothing
    <3>3. CASE Destroy(p)
      BY <3>1, <3>3 DEF Destroy, JobsInv, NoJob
    <3> QED BY <1>2, <3>2, <3>3
  <2>2. SetBarrier(barrier') /\ barrier' = Leaving(barrier, page[p].key)
    BY <1>2 DEF RestoreNothing, Destroy, SetBarrier
  <2>3. Good(barrier', Page \ {p})
    BY <2>2, GoodBarrier, GoodOthers
  <2> QED BY <2>1, <2>2, <2>3, HeldSet
<1>3. ASSUME NEW p \in Page, Close(p) PROVE Held
  <2>1. Stays(p) /\ ~page'[p].open
    BY <1>3, StaysIs
  <2> QED BY <1>3, <2>1, HeldSame DEF Close, Stays, HeldBack
<1>4. CASE Tabs \/ UNCHANGED vars
  BY <1>4, HeldSame DEF Tabs, NotWanted, CloseTab, Move, vars
<1> QED BY <1>1, <1>2, <1>3, <1>4, HeldAnnounce, HeldClock, HeldTick DEF Next, Windows

(* No window wakes its busy tabs while another open one, which the barrier   *)
(* was told of, is still launching, unless the cap of an entry is over: for  *)
(* any number of windows, if no two of them restore the same record.        *)
THEOREM WakesTogether ==
    ASSUME OwnKeys
    PROVE  Spec => AllLaunchedFirst
<1> DEFINE Inv == JobsInv /\ Kept /\ HeldInv
<1>1. Init => Inv
  BY KeptInit, HeldInit
<1>2. Inv /\ [Next]_vars => Inv'
  BY KeptStep, HeldStep DEF Held
<1>3. Inv /\ [Next]_vars =>
         ((\E e \in barrier' : e.released /\ \A d \in Find(barrier, e.key) : ~d.released) =>
             \/ CapExpired(barrier)
             \/ \A p \in Page : HeldBack(p) => page'[p].launched \/ page'[p].key = None)
  BY HeldStep DEF Held, ReleasesTogether, Frees
<1> HIDE DEF Inv
<1> QED BY <1>1, <1>2, <1>3, PTL DEF Spec, AllLaunchedFirst

-----------------------------------------------------------------------------
(***************************************************************************)
(* The queues.                                                              *)
(***************************************************************************)

(* A set of naturals that is not empty has a least element.                *)
LEMMA LeastNat ==
    ASSUME NEW T, T \subseteq Nat, T # {}
    PROVE  \E x \in T : \A y \in T : x <= y
<1> DEFINE R == {ss \in Nat \X Nat : ss[1] < ss[2]}
<1>1. OpToRel(<, Nat) = {ss \in Nat \X Nat : ss[1] < ss[2]}
  BY DEF OpToRel
<1>2. IsWellFoundedOn(R, Nat)
  BY <1>1, NatLessThanWellFounded
<1>3. \E x \in T : \A y \in T : ~(<<y, x>> \in R)
  <2> HIDE DEF R
  <2> QED BY <1>2, WFMin
<1>4. PICK x \in T : \A y \in T : ~(<<y, x>> \in R)
  BY <1>3
<1>5. ASSUME NEW y \in T PROVE x <= y
  <2>1. ~(<<y, x>> \in R)
    BY <1>4
  <2>2. y \in Nat /\ x \in Nat
    OBVIOUS
  <2>3. CASE y < x
    <3>1. <<y, x>> \in R
      BY <2>2, <2>3, Z3
    <3> QED BY <2>1, <3>1
  <2> QED BY <2>2, <2>3
<1> QED BY <1>5

LEMMA EmptyIs == <<>> \in Queues /\ DOMAIN <<>> = {}
<1>1. <<>> \in [{} -> Session] /\ DOMAIN <<>> = {}
  OBVIOUS
<1> QED BY <1>1 DEF Queues

(* What is left of a queue is in its place.                                *)
LEMMA ThoseIs ==
    ASSUME NEW queue \in Queues, NEW places
    PROVE  /\ Those(queue, places) \in Queues
           /\ DOMAIN Those(queue, places) = DOMAIN queue \cap places
           /\ \A i \in DOMAIN queue \cap places : Those(queue, places)[i] = queue[i]
<1>1. PICK all \in SUBSET (1..Cardinality(Session)) : queue \in [all -> Session]
  BY DEF Queues
<1>2. /\ Those(queue, places) \in [all \cap places -> Session]
      /\ all \cap places \in SUBSET (1..Cardinality(Session))
  BY <1>1 DEF Those
<1> QED BY <1>1, <1>2 DEF Queues, Those

(* The tabs picked are in the window's queue, while it waits or wakes.     *)
QueueInv(p) ==
    /\ page[p].todo \in Queues
    /\ page[p].phase \notin {"waiting", "waking"} => Picked(p) = {}

(* What a step takes from the queue.                                       *)
Taken(p) ==
    \A s \in Picked(p) \ Picked(p)' :
        woken'[s] = 0 \/ ~WantedHere(p, s) \/ page'[p].phase = "gone"

(* A step of the queue drops what is not wanted, and wakes one tab.        *)
LEMMA QueueTaken ==
    ASSUME JobsInv, Pace, NEW p \in Page, NEW queue \in Queues, StepQueue(p, queue)
    PROVE  /\ page'[p].todo \in Queues
           /\ page'[p].phase # "waking" => Picked(p)' = {}
           /\ \A i \in DOMAIN queue :
                 queue[i] \in Picked(p)' \/ woken'[queue[i]] = 0 \/ ~WantedHere(p, queue[i])
<1> DEFINE wanted == {i \in DOMAIN queue : WantedHere(p, queue[i])}
           next == CHOOSE i \in wanted : \A j \in wanted : i <= j
           To(q) == [NoJob EXCEPT !.phase = "waking", !.open = page[p].open, !.todo = q]
<1>1. DOMAIN queue \subseteq Nat /\ \A i \in DOMAIN queue : queue[i] \in Session
  BY DEF Queues
<1>2. ASSUME wanted # {}
      PROVE  next \in wanted /\ \A j \in wanted : next <= j
  <2>1. \E i \in wanted : \A j \in wanted : i <= j
    BY <1>1, <1>2, LeastNat
  <2> QED BY <2>1
<1>3. ASSUME NEW q, page' = [page EXCEPT ![p] = To(q)]
      PROVE  page'[p].todo = q /\ page'[p].phase = "waking"
  BY <1>3 DEF JobsInv, NoJob
<1>4. ASSUME page' = [page EXCEPT ![p] = Done(p)]
      PROVE  page'[p].todo = <<>> /\ page'[p].phase = "done"
  BY <1>4 DEF JobsInv, NoJob, Done
<1>5. \/ wanted = {} /\ page' = [page EXCEPT ![p] = Done(p)]
      \/ wanted # {} /\ page' = [page EXCEPT ![p] = To(From(queue, next))]
      \/ /\ wanted # {} /\ page' = [page EXCEPT ![p] = To(From(queue, next + 1))]
         /\ woken' = [woken EXCEPT ![queue[next]] = 0]
  BY DEF StepQueue
<1> HIDE DEF next, To
<1>6. CASE wanted = {} /\ page' = [page EXCEPT ![p] = Done(p)]
  BY <1>4, <1>6, EmptyIs DEF Picked
<1>7. CASE wanted # {} /\ page' = [page EXCEPT ![p] = To(From(queue, next))]
  <2>1. page'[p].todo = From(queue, next) /\ page'[p].phase = "waking"
    BY <1>3, <1>7
  <2>2. \A i \in wanted : i \in {j \in DOMAIN queue : next <= j}
    BY <1>2, <1>7
  <2>3. /\ From(queue, next) \in Queues
        /\ \A i \in wanted : i \in DOMAIN From(queue, next) /\ From(queue, next)[i] = queue[i]
    BY <2>2, ThoseIs DEF From
  <2> QED BY <2>1, <2>3 DEF Picked
<1>8. CASE /\ wanted # {} /\ page' = [page EXCEPT ![p] = To(From(queue, next + 1))]
           /\ woken' = [woken EXCEPT ![queue[next]] = 0]
  <2>1. page'[p].todo = From(queue, next + 1) /\ page'[p].phase = "waking"
    BY <1>3, <1>8
  <2>2. \A i \in wanted : i # next => i \in {j \in DOMAIN queue : next + 1 <= j}
    BY <1>1, <1>2, <1>8
  <2>3. /\ From(queue, next + 1) \in Queues
        /\ \A i \in wanted : i # next =>
              i \in DOMAIN From(queue, next + 1) /\ From(queue, next + 1)[i] = queue[i]
    BY <2>2, ThoseIs DEF From
  <2>4. woken'[queue[next]] = 0
    BY <1>1, <1>2, <1>8 DEF Pace
  <2> QED BY <2>1, <2>3, <2>4 DEF Picked
<1> QED BY <1>5, <1>6, <1>7, <1>8

(* The tabs that a window restores are a queue.                            *)
LEMMA TabsAreQueue ==
    ASSUME NEW tabs, NEW some \in SUBSET Session, NEW n \in 0..Cardinality(some),
           tabs \in [1..n -> some]
    PROVE  BusyOf(tabs) \in Queues
<1>1. Cardinality(some) <= Cardinality(Session) /\ Cardinality(some) \in Nat
      /\ Cardinality(Session) \in Nat
  BY WakeAssumption, FS_Subset, FS_CardinalityType
<1>2. 1..n \in SUBSET (1..Cardinality(Session))
  BY <1>1
<1>3. tabs \in [1..n -> Session]
  OBVIOUS
<1>4. tabs \in Queues
  BY <1>2, <1>3 DEF Queues
<1> QED BY <1>4, ThoseIs DEF BusyOf

QueuesInv == \A p \in Page : QueueInv(p)

(* A window's own step, and what it takes from its queue.                  *)
LEMMA QueueTick ==
    ASSUME JobsInv, Pace, QueuesInv, NEW p \in Page, Tick(p)
    PROVE  QueueInv(p)' /\ Taken(p)
<1>0. QueueInv(p)
  BY DEF QueuesInv
<1>1. CASE TickWaking(p)
  <2>1. page[p].todo \in Queues /\ StepQueue(p, page[p].todo)
    BY <1>0, <1>1 DEF QueueInv, TickWaking
  <2>2. /\ page'[p].todo \in Queues
        /\ page'[p].phase # "waking" => Picked(p)' = {}
        /\ \A i \in DOMAIN page[p].todo :
              \/ page[p].todo[i] \in Picked(p)' \/ woken'[page[p].todo[i]] = 0
              \/ ~WantedHere(p, page[p].todo[i])
    BY <2>1, QueueTaken
  <2> QED BY <2>2 DEF QueueInv, Taken, Picked
<1>2. ASSUME NEW f, TickLaunching(p, f) PROVE QueueInv(p)' /\ Taken(p)
  <2>1. page'[p].todo = page[p].todo /\ page'[p].phase = page[p].phase
    BY <1>2 DEF TickLaunching, JobsInv, JobInv, Jobs
  <2> QED BY <1>0, <2>1 DEF QueueInv, Taken, Picked
<1>3. ASSUME NEW f, TickNothingBusy(p, f) PROVE QueueInv(p)' /\ Taken(p)
  <2>1. page'[p].todo = <<>> /\ page'[p].phase = "done" /\ page[p].todo = <<>>
    BY <1>3 DEF TickNothingBusy, JobsInv, Done, NoJob
  <2> QED BY <2>1, EmptyIs DEF QueueInv, Taken, Picked
<1>4. ASSUME NEW f, NEW idle, TickLaunched(p, f, idle) PROVE QueueInv(p)' /\ Taken(p)
  <2>1. CASE StepQueue(p, StillWanted(p))
    <3>1. /\ StillWanted(p) \in Queues
          /\ \A i \in DOMAIN page[p].todo : WantedHere(p, page[p].todo[i]) =>
                i \in DOMAIN StillWanted(p) /\ StillWanted(p)[i] = page[p].todo[i]
      <4> DEFINE todo == page[p].todo
                 places == {i \in DOMAIN todo : WantedHere(p, todo[i])}
      <4>1. \A i \in DOMAIN todo : WantedHere(p, todo[i]) => i \in DOMAIN todo \cap places
        OBVIOUS
      <4>2. StillWanted(p) = Those(todo, places) /\ todo \in Queues
        BY <1>0 DEF StillWanted, QueueInv
      <4> HIDE DEF places, todo
      <4>3. /\ StillWanted(p) \in Queues
            /\ \A i \in DOMAIN todo : WantedHere(p, todo[i]) =>
                  i \in DOMAIN StillWanted(p) /\ StillWanted(p)[i] = todo[i]
        <5>1. /\ Those(todo, places) \in Queues
              /\ DOMAIN Those(todo, places) = DOMAIN todo \cap places
              /\ \A i \in DOMAIN todo \cap places : Those(todo, places)[i] = todo[i]
          BY <4>2, ThoseIs, Zenon
        <5> QED BY <4>1, <4>2, <5>1
      <4> QED BY <4>3 DEF todo
    <3>2. /\ page'[p].todo \in Queues
          /\ page'[p].phase # "waking" => Picked(p)' = {}
          /\ \A i \in DOMAIN StillWanted(p) :
                \/ StillWanted(p)[i] \in Picked(p)' \/ woken'[StillWanted(p)[i]] = 0
                \/ ~WantedHere(p, StillWanted(p)[i])
      BY <2>1, <3>1, QueueTaken
    <3> QED BY <3>1, <3>2 DEF QueueInv, Taken, Picked
  <2>2. CASE \E seen : page' = [page EXCEPT ![p].launched = TRUE, ![p].released = seen,
                                            ![p].restored = 0, ![p].seen = Never]
    <3>1. page'[p].todo = page[p].todo /\ page'[p].phase = page[p].phase
      BY <2>2 DEF JobsInv, JobInv, Jobs
    <3> QED BY <1>0, <3>1 DEF QueueInv, Taken, Picked
  <2>3. \/ StepQueue(p, StillWanted(p))
        \/ \E seen : page' = [page EXCEPT ![p].launched = TRUE, ![p].released = seen,
                                          ![p].restored = 0, ![p].seen = Never]
    BY <1>4, Zenon DEF TickLaunched
  <2> QED BY <2>1, <2>2, <2>3
<1> QED BY <1>1, <1>2, <1>3, <1>4 DEF Tick

(* A window is created, restores its tabs, ends.                           *)
LEMMA QueueWindow ==
    ASSUME JobsInv, QueuesInv, NEW p \in Page,
           Create(p) \/ Rehome(p) \/ RestoreNothing(p) \/ Close(p) \/ Destroy(p)
    PROVE  QueueInv(p)' /\ Taken(p)
<1>0. QueueInv(p)
  BY DEF QueuesInv
<1>1. CASE Create(p) \/ Close(p)
  <2>1. page'[p].todo = page[p].todo /\ Picked(p)' = Picked(p)
    BY <1>1 DEF Create, Close, JobsInv, JobInv, Jobs, Picked
  <2>2. page[p].phase = page'[p].phase \/ page[p].phase = "absent"
    BY <1>1 DEF Create, Close, JobsInv, JobInv, Jobs
  <2> QED BY <1>0, <2>1, <2>2 DEF QueueInv, Taken
<1>2. CASE Rehome(p)
  <2> DEFINE unhosted == {s \in Session : host[s] = None}
             Job(q) == [NoJob EXCEPT !.phase = "waiting", !.open = TRUE, !.key = KeyOf[p], !.todo = q]
  <2>0. PICK n \in 0..Cardinality(unhosted) : \E tabs \in [1..n -> unhosted] :
               page' = [page EXCEPT ![p] = Job(BusyOf(tabs))]
    BY <1>2 DEF Rehome
  <2>1. PICK tabs \in [1..n -> unhosted] : page' = [page EXCEPT ![p] = Job(BusyOf(tabs))]
    BY <2>0
  <2>2. BusyOf(tabs) \in Queues
    BY <2>1, TabsAreQueue
  <2>3. page'[p].todo = BusyOf(tabs) /\ page'[p].phase = "waiting"
    BY <2>1 DEF JobsInv, NoJob
  <2>4. Picked(p) = {}
    BY <1>0, <1>2 DEF QueueInv, Rehome
  <2> QED BY <2>2, <2>3, <2>4 DEF QueueInv, Taken
<1>3. CASE RestoreNothing(p)
  <2>1. page'[p].todo = <<>>
    BY <1>3 DEF RestoreNothing, JobsInv, Done, NoJob
  <2>2. Picked(p) = {}
    BY <1>0, <1>3 DEF QueueInv, RestoreNothing
  <2> QED BY <2>1, <2>2, EmptyIs DEF QueueInv, Taken, Picked
<1>4. CASE Destroy(p)
  <2>1. page'[p].todo = <<>> /\ page'[p].phase = "gone"
    BY <1>4 DEF Destroy, JobsInv, NoJob
  <2> QED BY <2>1, EmptyIs DEF QueueInv, Taken, Picked
<1> QED BY <1>1, <1>2, <1>3, <1>4

LEMMA QueuesStep ==
    ASSUME JobsInv, Kept, Pace, QueuesInv, [Next]_vars
    PROVE  QueuesInv' /\ \A p \in Page : Taken(p)
<1>1. ASSUME NEW p \in Page, page'[p].todo = page[p].todo, page'[p].phase = page[p].phase
      PROVE  QueueInv(p)' /\ Taken(p)
  BY <1>1 DEF QueuesInv, QueueInv, Taken, Picked
<1>2. ASSUME NEW p \in Page, QueueInv(p)' /\ Taken(p),
             \A q \in Page : q # p => page'[q] = page[q]
      PROVE  QueuesInv' /\ \A q \in Page : Taken(q)
  BY <1>1, <1>2 DEF QueuesInv
<1>3. ASSUME NEW p \in Page, Windows \/ Tick(p),
             Create(p) \/ Rehome(p) \/ RestoreNothing(p) \/ Close(p) \/ Destroy(p) \/ Tick(p)
      PROVE  \A q \in Page : q # p => page'[q] = page[q]
  <2>1. \A q \in Page : q # p => \A job : [page EXCEPT ![p] = job][q] = page[q]
    BY DEF JobsInv
  <2>2. \E job : page' = [page EXCEPT ![p] = job]
    BY <1>3 DEF Create, Rehome, RestoreNothing, Close, Destroy, Tick, TickWaking, TickLaunching,
                TickNothingBusy, TickLaunched, StepQueue
  <2> QED BY <2>1, <2>2
<1>4. CASE Clock
  <2>1. \A p \in Page : page'[p].todo = page[p].todo /\ page'[p].phase = page[p].phase
    BY <1>4 DEF Clock, JobsInv, JobInv, Jobs
  <2> QED BY <1>1, <2>1 DEF QueuesInv
<1>5. CASE Tabs \/ UNCHANGED vars
  <2>1. page' = page
    BY <1>5 DEF Tabs, NotWanted, CloseTab, Move, vars
  <2> QED BY <1>1, <2>1 DEF QueuesInv
<1> QED BY <1>2, <1>3, <1>4, <1>5, QueueTick, QueueWindow DEF Next, Windows

LEMMA QueuesInit == Init => QueuesInv
<1> SUFFICES ASSUME Init, NEW p \in Page PROVE QueueInv(p)
  BY DEF QueuesInv
<1>1. page[p].todo = <<>>
  BY DEF Init, NoJob
<1> QED BY <1>1, EmptyIs DEF QueueInv, Picked

-----------------------------------------------------------------------------
(***************************************************************************)
(* The types: every window has one entry in the barrier.                    *)
(***************************************************************************)
OneEntry(b) == \A e, d \in b : e.key = d.key => e = d

LEMMA OneMarked ==
    ASSUME NEW b \in SUBSET Entries, OneEntry(b), NEW k
    PROVE  OneEntry(Entering(b, k)) /\ OneEntry(Telling(b, k))
<1> DEFINE enter(e) == IF e.key = k THEN [e EXCEPT !.joined = TRUE] ELSE e
           tell(e) == IF e.key = k THEN [e EXCEPT !.launched = TRUE] ELSE e
<1>1. ASSUME NEW e \in b PROVE enter(e).key = e.key /\ tell(e).key = e.key
  BY DEF Entries
<1>2. Entering(b, k) = {enter(e) : e \in b} /\ Telling(b, k) = {tell(e) : e \in b}
  BY DEF Entering, Telling
<1> HIDE DEF enter, tell
<1> QED BY <1>1, <1>2 DEF OneEntry

LEMMA OneEvaluated ==
    ASSUME NEW b \in SUBSET Entries, OneEntry(b)
    PROVE  OneEntry(Evaluated(b))
<1> DEFINE freeing(e) == [e EXCEPT !.released = TRUE]
<1>1. ASSUME NEW e \in b PROVE freeing(e).key = e.key
  BY DEF Entries
<1>2. Evaluated(b) = b \/ Evaluated(b) = {freeing(e) : e \in b}
  BY DEF Evaluated
<1> HIDE DEF freeing
<1> QED BY <1>1, <1>2 DEF OneEntry

(* Each of the barrier's methods keeps that.                               *)
LEMMA OneEntryStays ==
    ASSUME NEW b \in SUBSET Entries, OneEntry(b), NEW k \in Key \cup {None}
    PROVE  /\ OneEntry(Leaving(b, k)) /\ OneEntry(Launched(b, k))
           /\ k \in Key => OneEntry(Announcing(b, k)) /\ OneEntry(Joined(b, k))
<1>1. OneEntry(Leaving(b, k))
  <2>1. b \ Find(b, k) \in SUBSET Entries /\ OneEntry(b \ Find(b, k))
    BY DEF OneEntry
  <2> QED BY <2>1, OneEvaluated DEF Leaving, Left
<1>2. OneEntry(Launched(b, k))
  <2>1. Telling(b, k) \in SUBSET Entries /\ Launched(b, k) = Evaluated(Telling(b, k))
    BY MarkedIs DEF Launched, Telling
  <2> QED BY <2>1, OneMarked, OneEvaluated
<1>3. ASSUME k \in Key, NEW j \in BOOLEAN, Find(b, k) = {}
      PROVE  /\ b \cup {Entry(k, j)} \in SUBSET Entries
             /\ OneEntry(b \cup {Entry(k, j)})
  <2>1. Entry(k, j) \in Entries /\ Entry(k, j).key = k
    BY <1>3, EntryIs
  <2> QED BY <1>3, <2>1 DEF OneEntry, Find
<1>4. ASSUME k \in Key PROVE OneEntry(Announcing(b, k)) /\ OneEntry(Joined(b, k))
  <2>1. OneEntry(Announcing(b, k))
    BY <1>3, <1>4 DEF Announcing
  <2>2. CASE Find(b, k) = {}
    BY <1>3, <1>4, <2>2, <2>1, OneEvaluated DEF Joined
  <2>3. CASE Find(b, k) # {}
    <3>1. Entering(b, k) \in SUBSET Entries /\ Joined(b, k) = Evaluated(Entering(b, k))
      BY <2>3, MarkedIs DEF Joined, Entering
    <3> QED BY <2>1, <3>1, OneMarked, OneEvaluated
  <2> QED BY <2>2, <2>3
<1> QED BY <1>1, <1>2, <1>4

Rest ==
    /\ OneEntry(barrier)
    /\ busy \subseteq Session
    /\ host \in [Session -> Page \cup {None}]
    /\ freed \subseteq Page

LEMMA RestStep ==
    ASSUME JobsInv, Kept, Rest, [Next]_vars
    PROVE  Rest'
<1>0. barrier \in SUBSET Entries
  BY DEF Kept
<1>1. ASSUME NEW p \in Page PROVE page[p].key \in Key \cup {None} /\ KeyOf[p] \in Key
  BY WakeAssumption DEF JobsInv, JobInv, Jobs
<1>2. ASSUME NEW p \in Page
      PROVE  /\ ToldOf(p) \in SUBSET Entries /\ OneEntry(ToldOf(p))
             /\ Launched(barrier, page[p].key) \in SUBSET Entries
             /\ OneEntry(Launched(barrier, page[p].key))
  <2>1. Launched(barrier, page[p].key) \in SUBSET Entries
    BY <1>0, KeysStay DEF HasKeysOf
  <2>2. ToldOf(p) \in SUBSET Entries
    BY <1>0, ToldIs
  <2>3. OneEntry(Evaluated(barrier)) /\ OneEntry(Launched(barrier, page[p].key))
    BY <1>0, <1>1, OneEvaluated, OneEntryStays DEF Rest
  <2> QED BY <2>1, <2>2, <2>3 DEF ToldOf
<1>3. OneEntry(barrier')
  <2>1. CASE Clock
    <3> DEFINE age(e) == [e EXCEPT !.age = Older(@, BarrierCap)]
    <3>1. ASSUME NEW e \in barrier PROVE age(e).key = e.key
      BY <1>0 DEF Entries
    <3>2. barrier' = {age(e) : e \in barrier}
      BY <2>1 DEF Clock
    <3> HIDE DEF age
    <3> QED BY <3>1, <3>2 DEF OneEntry, Rest
  <2>2. CASE Tabs \/ UNCHANGED vars
    BY <2>2 DEF Tabs, NotWanted, CloseTab, Move, vars, Rest
  <2>3. ASSUME NEW p \in Page, Create(p) \/ Rehome(p) \/ RestoreNothing(p) \/ Close(p) \/ Destroy(p)
        PROVE  OneEntry(barrier')
    <3>1. \/ barrier' = barrier
          \/ \E k \in Key \cup {None} :
                \/ barrier' = Leaving(barrier, k)
                \/ k \in Key /\ (barrier' = Announcing(barrier, k) \/ barrier' = Joined(barrier, k))
      BY <1>1, <2>3 DEF Create, Rehome, RestoreNothing, Close, Destroy, SetBarrier
    <3> QED BY <1>0, <3>1, OneEntryStays DEF Rest
  <2>4. ASSUME NEW p \in Page, Tick(p) PROVE OneEntry(barrier')
    <3>1. \/ barrier' = barrier
          \/ barrier' = Leaving(Launched(barrier, page[p].key), page[p].key)
          \/ barrier' = ToldOf(p) \/ barrier' = Leaving(ToldOf(p), page[p].key)
      BY <2>4 DEF Tick, TickWaking, TickLaunching, TickNothingBusy, TickLaunched, SetBarrier, ToldOf
    <3> QED BY <1>0, <1>1, <1>2, <3>1, OneEntryStays DEF Rest
  <2> QED BY <2>1, <2>2, <2>3, <2>4 DEF Next, Windows
<1>4. freed' \subseteq Page
  <2>1. ASSUME NEW b, SetBarrier(b) PROVE freed' \subseteq Page
    <3> DEFINE out == {p \in Page : \E e \in b : e.key = page[p].key /\ e.released}
    <3>1. freed' = freed \cup out
      BY <2>1 DEF SetBarrier
    <3>2. out \subseteq Page
      OBVIOUS
    <3> HIDE DEF out
    <3> QED BY <3>1, <3>2 DEF Rest
  <2>2. CASE UNCHANGED freed
    BY <2>2 DEF Rest
  <2>3. UNCHANGED freed \/ \E b : SetBarrier(b)
    <3>1. CASE Clock \/ Tabs \/ UNCHANGED vars
      BY <3>1 DEF Clock, Tabs, NotWanted, CloseTab, Move, vars
    <3>2. ASSUME NEW p \in Page, Create(p) \/ Rehome(p) \/ RestoreNothing(p) \/ Close(p) \/ Destroy(p)
          PROVE  UNCHANGED freed \/ \E b : SetBarrier(b)
      <4>1. CASE Create(p) /\ p \in Announced
        BY <4>1 DEF Create
      <4>2. CASE Create(p) /\ p \notin Announced
        BY <4>2 DEF Create
      <4>3. CASE Rehome(p) \/ RestoreNothing(p) \/ Close(p) \/ Destroy(p)
        BY <4>3, Zenon DEF Rehome, RestoreNothing, Close, Destroy
      <4> QED BY <3>2, <4>1, <4>2, <4>3
    <3>3. ASSUME NEW p \in Page, Tick(p) PROVE UNCHANGED freed \/ \E b : SetBarrier(b)
      <4>1. CASE TickWaking(p)
        BY <4>1, Zenon DEF TickWaking
      <4>2. ASSUME NEW f, TickLaunching(p, f) \/ TickNothingBusy(p, f)
            PROVE  UNCHANGED freed \/ \E b : SetBarrier(b)
        BY <4>2, Zenon DEF TickLaunching, TickNothingBusy
      <4>3. ASSUME NEW f, NEW idle, TickLaunched(p, f, idle) PROVE \E b : SetBarrier(b)
        BY <4>3, Zenon DEF TickLaunched
      <4> QED BY <3>3, <4>1, <4>2, <4>3, Zenon DEF Tick
    <3> QED BY <3>1, <3>2, <3>3 DEF Next, Windows
  <2> QED BY <2>1, <2>2, <2>3
<1>5. busy' \subseteq Session /\ host' \in [Session -> Page \cup {None}]
  <2>1. ASSUME NEW p \in Page, NEW queue, StepQueue(p, queue) PROVE busy' \subseteq busy
    BY <2>1 DEF StepQueue
  <2>2. ASSUME NEW p \in Page, Tick(p) PROVE busy' \subseteq busy /\ host' = host
    <3>1. CASE TickWaking(p)
      BY <2>1, <3>1, Zenon DEF TickWaking
    <3>2. ASSUME NEW f, TickLaunching(p, f) \/ TickNothingBusy(p, f)
          PROVE  busy' = busy /\ host' = host
      BY <3>2, Zenon DEF TickLaunching, TickNothingBusy
    <3>3. ASSUME NEW f, NEW idle, TickLaunched(p, f, idle) PROVE busy' \subseteq busy /\ host' = host
      <4>1. busy' = busy \/ StepQueue(p, StillWanted(p))
        BY <3>3, Zenon DEF TickLaunched
      <4>2. host' = host
        BY <3>3, Zenon DEF TickLaunched
      <4>3. busy' \subseteq busy
        BY <2>1, <4>1
      <4> QED BY <4>2, <4>3
    <3> QED BY <2>2, <3>1, <3>2, <3>3, Zenon DEF Tick
  <2>3. ASSUME NEW p \in Page, Create(p) \/ Rehome(p) \/ RestoreNothing(p) \/ Close(p) \/ Destroy(p)
        PROVE  busy' = busy /\ host' \in [Session -> Page \cup {None}]
    <3>1. busy' = busy
      BY <2>3, Zenon DEF Create, Rehome, RestoreNothing, Close, Destroy
    <3>2. CASE Create(p) \/ RestoreNothing(p) \/ Destroy(p)
      <4>1. host' = host
        BY <3>2, Zenon DEF Create, RestoreNothing, Destroy
      <4> QED BY <3>1, <4>1 DEF Rest
    <3>3. CASE Close(p)
      <4>1. host' = [s \in Session |-> IF host[s] = p THEN None ELSE host[s]]
        BY <3>3, Zenon DEF Close
      <4> QED BY <3>1, <4>1 DEF Rest
    <3>4. CASE Rehome(p)
      <4> DEFINE unhosted == {s \in Session : host[s] = None}
                 Hosting(n, tabs) ==
                   host' = [s \in Session |-> IF \E i \in 1..n : tabs[i] = s THEN p ELSE host[s]]
      <4>1. \E n \in 0..Cardinality(unhosted) : \E tabs \in [1..n -> unhosted] : Hosting(n, tabs)
        BY <3>4, Zenon DEF Rehome
      <4>2. ASSUME NEW n, NEW tabs, Hosting(n, tabs) PROVE host' \in [Session -> Page \cup {None}]
        BY <4>2 DEF Rest
      <4> HIDE DEF Hosting, unhosted
      <4> QED BY <3>1, <4>1, <4>2, Zenon
    <3> QED BY <2>3, <3>2, <3>3, <3>4
  <2> QED BY <2>2, <2>3 DEF Rest, Next, Windows, Tabs, NotWanted, CloseTab, Move, Clock, vars
<1> QED BY <1>3, <1>4, <1>5 DEF Rest

LEMMA RestInit == Init => Rest
  BY DEF Init, Rest, OneEntry

WakeInv == JobsInv /\ Kept /\ Pace /\ QueuesInv /\ Rest

LEMMA WakeAlways == Spec => []WakeInv
<1>1. Init => WakeInv
  BY KeptInit, PaceInit, QueuesInit, RestInit DEF WakeInv
<1>2. WakeInv /\ [Next]_vars => WakeInv'
  BY KeptStep, PaceStep, QueuesStep, RestStep DEF WakeInv
<1> QED BY <1>1, <1>2, PTL DEF Spec

(* The types.  The queue of a window has its tabs in their places, and the   *)
(* barrier one entry for a key.                                             *)
THEOREM TypeCorrect == Spec => []TypeOK
<1>1. WakeInv => TypeOK
  <2> SUFFICES ASSUME WakeInv PROVE TypeOK
    OBVIOUS
  <2>1. ASSUME NEW p \in Page
        PROVE  page[p] \in [phase: {"absent", "created", "waiting", "waking", "done", "gone"},
                            open: BOOLEAN, key: Key \cup {None}, todo: Queues,
                            restored: 0..ForegroundCap, seen: Ages(HooklessSettle),
                            launched: BOOLEAN, released: Ages(IdleWaitCap)]
    BY DEF WakeInv, JobsInv, JobInv, Jobs, QueuesInv, QueueInv
  <2>2. page = [p \in Page |-> page[p]]
    BY DEF WakeInv, JobsInv
  <2> QED BY <2>1, <2>2 DEF WakeInv, TypeOK, Kept, Entries, Rest, OneEntry, Pace
<1> QED BY <1>1, WakeAlways, PTL

(* No tab that was picked is forgotten: its window lets go of it only when    *)
(* it was started, when it is not wanted any more or hosted elsewhere, or    *)
(* when the window itself is gone.                                          *)
THEOREM ForgetsNoTab == Spec => NoneForgotten
<1>1. WakeInv /\ [Next]_vars =>
         \A p \in Page : \A s \in Picked(p) \ Picked(p)' :
             woken'[s] = 0 \/ ~WantedHere(p, s) \/ page'[p].phase = "gone"
  BY QueuesStep DEF WakeInv, Taken
<1> QED BY <1>1, WakeAlways, PTL DEF Spec, NoneForgotten
=============================================================================
