---------------------------- MODULE RestoreWake ----------------------------
(***************************************************************************)
(* After a restart every tab of a reopened window is dormant.  The restore  *)
(* wake starts the ones whose session was in the middle of something: once  *)
(* every window reopened together has launched the tab it opens to (the     *)
(* barrier), once the window's thread is idle, and at one pace for the      *)
(* whole process (the pacer).                                               *)
(*                                                                          *)
(* Every wait of the code compares the clock with a stamp and a cap.  The   *)
(* model keeps the age of each stamp instead, up to its cap, so that time   *)
(* needs no bound.  What a window shows, and whether its thread has been     *)
(* idle for kRestoreWakeIdleTicks ticks, are inputs of each tick.           *)
(***************************************************************************)
EXTENDS Integers, FiniteSets

CONSTANTS
    Page, Session,
    Key, KeyOf,     \* the record id that each window restores
    None,
    Announced,      \* the windows that are announced when they are created
    HooklessSettle, \* kRestoreWakeHooklessSettleMs
    ForegroundCap,  \* kRestoreWakeForegroundCapMs
    BarrierCap,     \* kRestoreWakeBarrierCapMs
    IdleWaitCap,    \* kRestoreWakeIdleWaitCapMs
    Spacing,        \* kRestoreWakeSpacingMs
    BatchSize,      \* kRestoreWakeBatchSize
    BatchPeriod     \* kRestoreWakeBatchPeriodMs

ASSUME WakeAssumption ==
    /\ IsFiniteSet(Page) /\ IsFiniteSet(Session)
    /\ KeyOf \in [Page -> Key] /\ None \notin Key \cup Page
    /\ Announced \subseteq Page
    /\ {HooklessSettle, ForegroundCap, IdleWaitCap, BatchSize} \subseteq Nat
    /\ BarrierCap \in Nat \ {0}
    /\ Spacing \in Nat \ {0} /\ BatchPeriod \in Nat /\ Spacing <= BatchPeriod

VARIABLES
    page,    \* each window's job: RestoreWakeWindowJob and the window's life
    barrier, \* RestoreWakeBarrier: the entries, by key
    slots,   \* RestoreWakePacer: the ages of the slots taken
    busy,    \* the sessions whose record the wake wants started
    host,    \* the window that hosts the session's tab, or None
    freed,   \* history: windows whose entry the barrier has released
    woken    \* history: how long ago the wake started the session's tab

vars == <<page, barrier, slots, busy, host, freed, woken>>

Never == -1
Older(age, cap) == IF age = Never \/ age = cap THEN age ELSE age + 1

\* RestoreWakeWantsSession: the tab is dormant, its turn was in flight at the
\* restart, and nothing has shown since that it ended or runs elsewhere.
Wants(s) == s \in busy
WantedHere(p, s) == host[s] = p /\ Wants(s)

----------------------------------------------------------------------------
(***************************************************************************)
(* The barrier: each method under the barrier's own mutex.                  *)
(***************************************************************************)

Waiting(b) == {e \in b : ~e.released}

\* Mutant of AllLaunched: a window that was only announced does not count.
JoinedLaunched(b) == \A e \in Waiting(b) : e.joined => e.launched

\* RestoreWakeReleaseVerdict.
AllLaunched(b) == \A e \in Waiting(b) : e.joined /\ e.launched

\* Mutant of CapExpired: there is no cap.
NoCap(b) == FALSE

CapExpired(b) == \E e \in Waiting(b) : e.age >= BarrierCap

\* _EvaluateLocked: release every waiting entry, or none.
Evaluated(b) ==
    IF AllLaunched(b) \/ CapExpired(b) THEN {[e EXCEPT !.released = TRUE] : e \in b} ELSE b

Find(b, key) == {e \in b : e.key = key}
Entry(k, j) == [key |-> k, age |-> 0, joined |-> j, launched |-> FALSE, released |-> FALSE]

\* Announce, Join, NoteForegroundLaunched, IsReleased and Leave.
Announcing(b, key) == IF Find(b, key) = {} THEN b \cup {Entry(key, FALSE)} ELSE b

\* Mutant of Joined: the window that was announced is entered once more.
JoinedTwice(b, key) == Evaluated(b \cup {Entry(key, TRUE)})

Joined(b, key) ==
    Evaluated(IF Find(b, key) = {} THEN b \cup {Entry(key, TRUE)}
              ELSE {IF e.key = key THEN [e EXCEPT !.joined = TRUE] ELSE e : e \in b})
Launched(b, key) ==
    Evaluated({IF e.key = key THEN [e EXCEPT !.launched = TRUE] ELSE e : e \in b})
IsReleased(b, key) == \A e \in Find(b, key) : e.released
Left(b, key) == Evaluated(b \ Find(b, key))

SetBarrier(b) ==
    /\ barrier' = b
    /\ freed' = freed \cup {p \in Page : \E e \in b : e.key = page[p].key /\ e.released}

----------------------------------------------------------------------------
(***************************************************************************)
(* A window's life.                                                         *)
(***************************************************************************)

NoJob == [phase |-> "absent", open |-> FALSE, key |-> None, todo |-> <<>>, restored |-> 0,
          seen |-> Never, launched |-> FALSE, released |-> Never]

\* The window is created to restore a saved record: SetAgentmasterWindowId
\* announces it (not the default window, which takes a record later).
Create(p) ==
    /\ page[p].phase = "absent"
    /\ \A q \in Page : page[q].open => KeyOf[q] # KeyOf[p]
    /\ page' = [page EXCEPT ![p].phase = "created", ![p].open = TRUE,
                            ![p].key = IF p \in Announced THEN KeyOf[p] ELSE None]
    /\ IF p \in Announced THEN SetBarrier(Announcing(barrier, KeyOf[p]))
                          ELSE UNCHANGED <<barrier, freed>>
    /\ UNCHANGED <<slots, busy, host, woken>>

\* A queue has its sessions by their places in the strip: what is dropped from
\* it leaves its place empty, and only the order of the others matters.
Those(queue, places) == [i \in DOMAIN queue \cap places |-> queue[i]]

\* The busy ones of the restored tabs, and those of a queue that still are here.
BusyOf(tabs) == Those(tabs, {i \in DOMAIN tabs : Wants(tabs[i])})
StillWanted(p) == Those(page[p].todo, {i \in DOMAIN page[p].todo : WantedHere(p, page[p].todo[i])})

\* The end of _RestoreWindowTabs and _BeginRestoreWake: the tabs are here,
\* the ones that were busy are picked, in the strip's order.
Rehome(p) ==
    /\ page[p].phase = "created" /\ page[p].open
    /\ LET unhosted == {s \in Session : host[s] = None}
       IN  \E n \in 0..Cardinality(unhosted) : \E tabs \in [1..n -> unhosted] :
             /\ \A i, j \in 1..n : tabs[i] = tabs[j] => i = j
             /\ host' = [s \in Session |-> IF \E i \in 1..n : tabs[i] = s THEN p ELSE host[s]]
             /\ page' = [page EXCEPT ![p] = [NoJob EXCEPT !.phase = "waiting", !.open = TRUE,
                                                !.key = KeyOf[p], !.todo = BusyOf(tabs)]]
    /\ SetBarrier(Joined(barrier, KeyOf[p]))
    /\ UNCHANGED <<slots, busy, woken>>

\* Mutant of Leaving: the window is out, but not of the barrier.
StaysIn(b, key) == b

\* _LeaveRestoreWake: nothing to leave when the key is gone.
Leaving(b, key) == IF key = None THEN b ELSE Left(b, key)
Done(p) == [NoJob EXCEPT !.phase = "done", !.open = page[p].open]

\* The restore brought no tab back, or threw (the exit guard).
RestoreNothing(p) ==
    /\ page[p].phase = "created"
    /\ page' = [page EXCEPT ![p] = Done(p)]
    /\ SetBarrier(Leaving(barrier, page[p].key))
    /\ UNCHANGED <<slots, busy, host, woken>>

\* The window closes.  Its page may live on for a while, and its timer with it.
Close(p) ==
    /\ page[p].open
    /\ page' = [page EXCEPT ![p].open = FALSE]
    /\ host' = [s \in Session |-> IF host[s] = p THEN None ELSE host[s]]
    /\ UNCHANGED <<barrier, slots, busy, freed, woken>>

\* ~TerminalPage, on any thread.
Destroy(p) ==
    /\ page[p].phase \notin {"absent", "gone"} /\ ~page[p].open
    /\ page' = [page EXCEPT ![p] = [NoJob EXCEPT !.phase = "gone"]]
    /\ SetBarrier(Leaving(barrier, page[p].key))
    /\ UNCHANGED <<slots, busy, host, woken>>

----------------------------------------------------------------------------
(***************************************************************************)
(* The timer of a window's wait (_TickRestoreWake).                         *)
(***************************************************************************)

\* _ReadRestoreWakeForeground: what the window shows on a tick.  "ready" is
\* no terminal, a started one without a claude, or a claude that is up (a hook
\* newer than the restore); "silent" is a claude without such a hook.
Foregrounds == {"notStarted", "silent", "ready"}
NotedStart(p, f) ==
    IF f = "silent" /\ page[p].seen = Never THEN 0 ELSE page[p].seen

\* RestoreWakeForegroundStep.
Launches(p, f) ==
    \/ f = "ready"
    \/ f = "silent" /\ NotedStart(p, f) >= HooklessSettle
    \/ page[p].restored >= ForegroundCap

\* The tab that the window opens to is still launching.
TickLaunching(p, f) ==
    /\ page[p].phase = "waiting" /\ ~page[p].launched
    /\ ~Launches(p, f)
    /\ page' = [page EXCEPT ![p].seen = NotedStart(p, f)]
    /\ UNCHANGED <<barrier, slots, busy, host, freed, woken>>

\* It has launched on this tick, and nothing was busy here.
TickNothingBusy(p, f) ==
    /\ page[p].phase = "waiting" /\ ~page[p].launched
    /\ Launches(p, f) /\ page[p].todo = <<>>
    /\ page' = [page EXCEPT ![p] = Done(p)]
    /\ SetBarrier(Leaving(Launched(barrier, page[p].key), page[p].key))
    /\ UNCHANGED <<slots, busy, host, woken>>

\* Mutant of PacerAllows: the pace counts one slot too many.
OneMore(taken) ==
    /\ \A age \in taken : age >= Spacing
    /\ Cardinality({age \in taken : age < BatchPeriod}) <= BatchSize

\* RestoreWakePacerAllows.
PacerAllows(taken) ==
    /\ \A age \in taken : age >= Spacing
    /\ Cardinality({age \in taken : age < BatchPeriod}) < BatchSize

\* Mutant of From: the first one is taken out before the slot is.
AfterFirst(queue, i) == Those(queue, {j \in DOMAIN queue : i < j})

From(queue, i) == Those(queue, {j \in DOMAIN queue : i <= j})

\* _StepRestoreWakeQueue: what is not wanted any more is dropped, the first
\* one that is takes a slot (TryTake) and its dormant tab is started
\* (_ActivateDormantSession, which may fail).
StepQueue(p, queue) ==
    LET wanted == {i \in DOMAIN queue : WantedHere(p, queue[i])}
        next == CHOOSE i \in wanted : \A j \in wanted : i <= j
        now == {age \in slots : age < BatchPeriod}
        To(q) == [NoJob EXCEPT !.phase = "waking", !.open = page[p].open, !.todo = q]
    IN  \/ /\ wanted = {}
           /\ page' = [page EXCEPT ![p] = Done(p)]
           /\ UNCHANGED <<slots, busy, woken>>
        \/ /\ wanted # {} /\ ~PacerAllows(now)
           /\ page' = [page EXCEPT ![p] = To(From(queue, next))]
           /\ slots' = now
           /\ UNCHANGED <<busy, woken>>
        \/ /\ wanted # {} /\ PacerAllows(now)
           /\ page' = [page EXCEPT ![p] = To(From(queue, next + 1))]
           /\ slots' = now \cup {0}
           /\ \E starts \in BOOLEAN :
                 /\ busy' = IF starts THEN busy \ {queue[next]} ELSE busy
                 /\ woken' = [woken EXCEPT ![queue[next]] = 0]

\* It has launched, on this tick or before: the barrier is told and asked, and
\* either holds the window, or its busy tabs are woken: the window leaves and
\* drains its queue (RestoreWakeDecideWake, _WakeRestoredBusyTabs).  The stamps
\* of the launch are not read any more.
TickLaunched(p, f, idle) ==
    /\ page[p].phase = "waiting"
    /\ page[p].launched \/ (Launches(p, f) /\ page[p].todo # <<>>)
    /\ LET told == IF page[p].launched THEN Evaluated(barrier)
                                       ELSE Launched(barrier, page[p].key)
           free == IsReleased(told, page[p].key)
           seen == IF free /\ page[p].released = Never THEN 0 ELSE page[p].released
           wakes == free /\ (idle \/ seen >= IdleWaitCap)
       IN  \/ /\ ~wakes
              /\ page' = [page EXCEPT ![p].launched = TRUE, ![p].released = seen,
                                      ![p].restored = 0, ![p].seen = Never]
              /\ SetBarrier(told)
              /\ UNCHANGED <<slots, busy, woken>>
           \/ /\ wakes
              /\ StepQueue(p, StillWanted(p))
              /\ SetBarrier(Leaving(told, page[p].key))
    /\ UNCHANGED host

TickWaking(p) ==
    /\ page[p].phase = "waking"
    /\ StepQueue(p, page[p].todo)
    /\ UNCHANGED <<barrier, freed, host>>

Tick(p) ==
    \/ TickWaking(p)
    \/ \E f \in IF page[p].launched THEN {"ready"} ELSE Foregrounds :
          \/ TickLaunching(p, f)
          \/ TickNothingBusy(p, f)
          \/ \E idle \in BOOLEAN : TickLaunched(p, f, idle)

----------------------------------------------------------------------------
(***************************************************************************)
(* The sessions: the user opens, moves and closes tabs, the scanner refines *)
(* what was restored, and time goes by.                                     *)
(***************************************************************************)

\* The user opened the tab, the scanner saw that the turn had ended, or that
\* it runs in another process.
NotWanted(s) ==
    /\ s \in busy
    /\ busy' = busy \ {s}
    /\ UNCHANGED <<page, barrier, slots, host, freed, woken>>

Move(s, p) ==
    /\ host[s] \notin {None, p} /\ page[p].open /\ page[p].phase # "created"
    /\ host' = [host EXCEPT ![s] = p]
    /\ UNCHANGED <<page, barrier, slots, busy, freed, woken>>

CloseTab(s) ==
    /\ host[s] # None
    /\ host' = [host EXCEPT ![s] = None]
    /\ busy' = busy \ {s}
    /\ UNCHANGED <<page, barrier, slots, freed, woken>>

Clock ==
    /\ page' = [p \in Page |-> [page[p] EXCEPT
                  !.restored = IF page[p].phase = "waiting" /\ ~page[p].launched
                               THEN Older(@, ForegroundCap) ELSE @,
                  !.seen = Older(@, HooklessSettle),
                  !.released = Older(@, IdleWaitCap)]]
    /\ barrier' = {[e EXCEPT !.age = Older(@, BarrierCap)] : e \in barrier}
    /\ slots' = {Older(age, BatchPeriod) : age \in slots}
    /\ woken' = [s \in Session |-> Older(woken[s], BatchPeriod)]
    /\ UNCHANGED <<busy, host, freed>>

Init ==
    /\ page = [p \in Page |-> NoJob]
    /\ barrier = {}
    /\ slots = {}
    /\ busy \in SUBSET Session
    /\ host = [s \in Session |-> None]
    /\ freed = {}
    /\ woken = [s \in Session |-> Never]

Windows == \E p \in Page : Create(p) \/ Rehome(p) \/ RestoreNothing(p) \/ Close(p) \/ Destroy(p)
Tabs == \E s \in Session : NotWanted(s) \/ CloseTab(s) \/ \E p \in Page : Move(s, p)
Next == Windows \/ Tabs \/ Clock \/ \E p \in Page : Tick(p)

\* The timer of a window ticks while its page lives, and time goes by.
Fairness == WF_vars(Clock) /\ \A p \in Page : WF_vars(Tick(p))
Spec == Init /\ [][Next]_vars /\ Fairness

----------------------------------------------------------------------------
(***************************************************************************)
(* Properties.                                                              *)
(***************************************************************************)

Ages(cap) == {Never} \cup 0..cap

Queues == UNION {[places -> Session] : places \in SUBSET (1..Cardinality(Session))}

TypeOK ==
    /\ page \in [Page -> [phase: {"absent", "created", "waiting", "waking", "done", "gone"},
                          open: BOOLEAN, key: Key \cup {None}, todo: Queues,
                          restored: 0..ForegroundCap, seen: Ages(HooklessSettle),
                          launched: BOOLEAN, released: Ages(IdleWaitCap)]]
    /\ barrier \subseteq [key: Key, age: 0..BarrierCap, joined: BOOLEAN, launched: BOOLEAN,
                          released: BOOLEAN]
    /\ \A e, d \in barrier : e.key = d.key => e = d
    /\ slots \subseteq 0..BatchPeriod
    /\ busy \subseteq Session
    /\ host \in [Session -> Page \cup {None}]
    /\ freed \subseteq Page
    /\ woken \in [Session -> Ages(BatchPeriod)]

\* The barrier releases windows only when every open window that it was told
\* of has launched the tab it opens to, or when its cap has expired: no
\* window wakes its busy tabs while another one is still restoring.
HeldBack(p) == page[p].open /\ page[p].key # None /\ p \notin freed
AllLaunchedFirst ==
    [][(\E e \in barrier' : e.released /\ \A d \in Find(barrier, e.key) : ~d.released) =>
             \/ CapExpired(barrier)
             \/ \A p \in Page : HeldBack(p) => page'[p].launched \/ page'[p].key = None]_vars

\* All windows together start at most BatchSize tabs in a period, and never
\* two closer than the spacing.
Recent == {s \in Session : woken[s] \in 0..BatchPeriod - 1}
OnePace ==
    /\ Cardinality(Recent) <= BatchSize
    /\ \A s, t \in Recent : s # t => woken[s] - woken[t] >= Spacing \/ woken[t] - woken[s] >= Spacing

\* No entry outlives the window that it stands for: it would hold the other
\* windows for minutes.
NoDeadEntry ==
    \A e \in barrier : \E p \in Page : page[p].phase # "gone" /\ page[p].key = e.key

\* No tab is forgotten: one that was picked leaves the job only when it was
\* started (or its start failed), is not wanted any more, or moved away.
Picked(p) == {page[p].todo[i] : i \in DOMAIN page[p].todo}
NoneForgotten ==
    [][\A p \in Page : \A s \in Picked(p) \ Picked(p)' :
          woken'[s] = 0 \/ ~WantedHere(p, s) \/ page'[p].phase = "gone"]_vars

\* Every wait ends, even if other windows never come up.
EveryWaitEnds ==
    \A p \in Page : page[p].phase = "waiting" ~> page[p].phase \in {"done", "gone"}
============================================================================
