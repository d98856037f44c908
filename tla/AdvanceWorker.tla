---------------------------- MODULE AdvanceWorker ----------------------------
(***************************************************************************)
(* The Prompt Queue Runner's thread (Scheduler::_worker) and everybody who *)
(* asks it to look at a session: the registry's observer (OnObserved, on   *)
(* whichever thread changed the session), the Stop seam, the resume of the *)
(* global pause, a timed hold that ends.                                   *)
(*                                                                         *)
(* Three containers under one mutex carry the requests: `queue` (advances  *)
(* to decide), `deferred` (advances to decide later, after a timed hold)   *)
(* and `watch` (_pending: sessions whose last send is not picked up yet).  *)
(* A change of a session and its notification are two steps, so several    *)
(* notifications may be in flight and overtake one another; each carries   *)
(* what the snapshot said.                                                 *)
(*                                                                         *)
(* How a prompt gets into the input box is PromptDelivery's subject: here  *)
(* a delivery opens the gate and closes it again.  A session's queue is a  *)
(* count, and whether the first of it is remote (typed in the session's    *)
(* topic: the runner's own gates do not hold it).  The settle window and   *)
(* the send spacing are one timed `hold`; the box that shows no input, an  *)
(* open question, the send budget and a Manual gate are one other, `held`. *)
(* A send that is not picked up is resolved by the sweep's give-up or by   *)
(* the scanner's verdict, at any time.                                     *)
(*                                                                         *)
(* Two holds can end without a notification: the scanner finds the sent    *)
(* prompt in the transcript, and a leaked gate expires.  A history         *)
(* variable, `quiet`, records the sessions it happened to.                 *)
(***************************************************************************)
EXTENDS Naturals, Sequences, FiniteSets

CONSTANTS
    Session,   \* the sessions
    Thread,    \* threads that change sessions and notify
    None,      \* no notification, no session
    MaxWork,   \* bound: prompts queued in one session
    MaxRare    \* bound: pauses of all sessions, errors, holds of the box,
               \* lost hooks, leaked gates and stops

ASSUME SessionAssumption == IsFiniteSet(Session)
ASSUME WorkAssumption == MaxWork \in Nat /\ MaxRare \in Nat

(* What is modelled of a session's record, and of a snapshot that an       *)
(* observer is about to see.                                               *)
Record == [pending : 0..MaxWork,   \* prompts queued
           remote : BOOLEAN,       \* the first of them is remote
           sent : BOOLEAN,         \* one is sent and not yet seen as a message
           line : BOOLEAN,         \* ... but is one: its line waits for the scanner
           runs : BOOLEAN,         \* a turn is running whose start nobody told
           state : {"rest", "turn", "error"},
           busy : BOOLEAN,         \* a delivery has the gate
           hold : BOOLEAN, held : BOOLEAN,
           auto : BOOLEAN]         \* the runner's mode is not Off

(* What the observer works with: asks for an advance, has a send to watch, *)
(* is in Error while the runner is on; and whether the notifying thread    *)
(* asks for an advance itself afterwards.                                  *)
Notification == [s : Session, wants : BOOLEAN, awaits : BOOLEAN, fails : BOOLEAN,
                 seam : BOOLEAN]

ASSUME NoneAssumption == None \notin Session \cup Notification

VARIABLES
    plan,      \* the sessions' records
    note,      \* the notification each thread is about to deliver
    queue,     \* Scheduler::_queue
    watch,     \* Scheduler::_pending
    deferred,  \* Scheduler::_deferred: "none", "waiting" or "due"
    paused,    \* Scheduler::_globalPause
    resuming,  \* SetGlobalPause(false) is between its exchange and its requests
    worker,    \* the worker thread
    running,   \* Scheduler::_running
    stop,      \* Stop: "no", "stored" (_running is false), "joining"
    rare       \* the rare events so far

(* History, which no step reads: what last held a session up and ended     *)
(* without a word ("echo", "gate"); "no" once something is told of it.     *)
VARIABLE quiet

vars == <<plan, note, queue, watch, deferred, paused, resuming, worker,
          running, stop, rare, quiet>>

requestVars == <<queue, watch, deferred>>
pauseVars == <<paused, resuming>>
stopVars == <<running, stop>>

Idle == [pc |-> "top", s |-> None, kind |-> "idle", ids |-> {}, done |-> {}]

Init ==
    /\ plan = [s \in Session |->
                  [pending |-> 0, remote |-> FALSE, sent |-> FALSE, line |-> FALSE,
                   runs |-> FALSE, state |-> "rest", busy |-> FALSE, hold |-> FALSE,
                   held |-> FALSE, auto |-> TRUE]]
    /\ note = [t \in Thread |-> None]
    /\ queue = <<>> /\ watch = {} /\ deferred = [s \in Session |-> "none"]
    /\ paused = FALSE /\ resuming = FALSE
    /\ worker = Idle
    /\ running = TRUE /\ stop = "no"
    /\ rare = 0 /\ quiet = [s \in Session |-> "no"]

-----------------------------------------------------------------------------
(* What the scheduler reads off a session.                                 *)

AtRest(r) == r.state = "rest"

(* _wantsIdleStart: at rest, work queued, and the mode is not Off or the   *)
(* next prompt is remote.                                                  *)
WantsIdleStart(r) == AtRest(r) /\ (r.auto \/ r.remote) /\ r.pending > 0

(* DecideEnterRetry: at rest, no delivery in the box, and a send that      *)
(* nobody saw become a message.                                            *)
AwaitsPickup(r) == AtRest(r) /\ ~r.busy /\ r.sent

(* DecideAdvance, but for the timed holds.  A remote prompt is not held by *)
(* the global pause or the mode, and also goes into a session in Error.    *)
MayAdvance(r) ==
    /\ r.pending > 0
    /\ r.remote \/ (r.auto /\ ~paused)
    /\ AtRest(r) \/ (r.remote /\ r.state = "error")
    /\ ~r.busy /\ ~r.held /\ ~r.sent

(* The prompts that are queued or on their way.                            *)
Open(r) == IF r.sent THEN r.pending + 1 ELSE r.pending

(* A queue has a session, and has no session twice.                        *)
Has(q, s) == \E i \in DOMAIN q : q[i] = s
Distinct(q) == \A i, j \in DOMAIN q : q[i] = q[j] => i = j

Queued(s) == Has(queue, s)

(* Mutated form of Enqueue: a request for every change.                    *)
EnqueueAgain(q, s) == Append(q, s)

(* One request for a session is enough: the worker reads its latest state. *)
Enqueue(q, s) == IF Has(q, s) THEN q ELSE Append(q, s)

(* The orders in which a hash map may list some sessions.                  *)
Orders(S) ==
    {o \in [1..Cardinality(S) -> S] : Distinct(o) /\ \A s \in S : Has(o, s)}

(* cv.notify_one: a thread that is not in the wait misses it.              *)
Woken == IF worker.pc = "asleep" THEN [worker EXCEPT !.pc = "woken"] ELSE worker

(* The worker holds the mutex from its look at the wait's predicate until  *)
(* it is really in the wait.                                               *)
MutexFree == worker.pc # "blocking"

-----------------------------------------------------------------------------
(* A session changes and its thread carries the snapshot to the observers. *)

Snapshot(s, seam) ==
    [s |-> s, wants |-> WantsIdleStart(plan'[s]), awaits |-> AwaitsPickup(plan'[s]),
     fails |-> plan'[s].state = "error" /\ plan'[s].auto, seam |-> seam]

Told(t, s, n) ==
    /\ note[t] = None
    /\ note' = [note EXCEPT ![t] = n]
    /\ quiet' = [quiet EXCEPT ![s] = "no"]
    /\ UNCHANGED <<requestVars, pauseVars, worker, stopVars>>

Notifies(t, s, seam) == Told(t, s, Snapshot(s, seam))

Quietly == UNCHANGED <<note, requestVars, pauseVars, worker, stopVars>>

Become(s, r) == plan' = [plan EXCEPT ![s] = r]

Usual == UNCHANGED rare
Rare == rare < MaxRare /\ rare' = rare + 1

(* The record once its queue changed: any prompt may be the first now.     *)
Heads(r) == {[r EXCEPT !.remote = b] : b \in IF r.pending = 0 THEN {FALSE} ELSE BOOLEAN}

(* A prompt is queued; it has to settle first.  One from the phone is put  *)
(* before the runner's own, and the thread asks for an advance itself.     *)
QueuePrompt(t, s) ==
    /\ Usual
    /\ Open(plan[s]) < MaxWork
    /\ \E phone \in BOOLEAN :
          /\ Become(s, [plan[s] EXCEPT !.pending = @ + 1, !.hold = TRUE,
                                       !.remote = @ \/ phone])
          /\ Notifies(t, s, phone)

(* The row that is sent goes back into the queue.                          *)
Back(r) == Heads([r EXCEPT !.sent = FALSE, !.line = FALSE, !.pending = @ + 1])

(* The user sends a prompt at once: marked, announced, delivered.  (One    *)
(* that the gate declines is rolled back, which changes nothing here.)     *)
SendNow(t, s) ==
    /\ Usual
    /\ plan[s].pending > 0 /\ ~plan[s].sent /\ ~plan[s].busy
    /\ \E r \in Heads([plan[s] EXCEPT !.pending = @ - 1, !.sent = TRUE]) :
          /\ Become(s, [r EXCEPT !.busy = TRUE])
          /\ Told(t, s, [Snapshot(s, FALSE) EXCEPT !.awaits = AwaitsPickup(r)])

(* A delivery that could not type rolls its row back ...                   *)
RollBack(t, s) ==
    /\ Usual
    /\ plan[s].busy /\ plan[s].sent
    /\ \E r \in Back(plan[s]) : Become(s, r)
    /\ Notifies(t, s, FALSE)

(* ... and every delivery closes its gate, or leaks it: then it expires.   *)
CloseGate(t, s) ==
    /\ Usual
    /\ plan[s].busy
    /\ Become(s, [plan[s] EXCEPT !.busy = FALSE])
    /\ Notifies(t, s, FALSE)

GateExpires(s) ==
    /\ Rare
    /\ plan[s].busy
    /\ Become(s, [plan[s] EXCEPT !.busy = FALSE])
    /\ quiet' = [quiet EXCEPT ![s] = "gate"]
    /\ Quietly

(* claude takes the message, or the user submits one of his own, or the    *)
(* scanner sees a turn whose start it was not told.                        *)
TurnStarts(t, s) ==
    /\ Usual
    /\ plan[s].state # "turn"
    /\ Become(s, [plan[s] EXCEPT !.state = "turn", !.sent = FALSE, !.line = FALSE,
                                 !.runs = FALSE])
    /\ Notifies(t, s, FALSE)

(* The turn ends; a clean end asks for an advance (the Stop seam).         *)
TurnEnds(t, s) ==
    /\ Usual
    /\ plan[s].state = "turn"
    /\ Become(s, [plan[s] EXCEPT !.state = "rest", !.hold = TRUE])
    /\ Notifies(t, s, TRUE)

TurnFails(t, s) ==
    /\ Rare
    /\ plan[s].state = "turn"
    /\ Become(s, [plan[s] EXCEPT !.state = "error", !.hold = TRUE])
    /\ Notifies(t, s, FALSE)

(* claude takes the sent prompt and the hook of its start is lost: the     *)
(* session reads at rest.  The turn's end is told ...                      *)
UnseenTurn(s) ==
    /\ Rare
    /\ AtRest(plan[s]) /\ plan[s].sent /\ ~plan[s].line /\ ~plan[s].runs
    /\ worker.pc = "marked" => worker.s # s
    /\ Become(s, [plan[s] EXCEPT !.line = TRUE, !.runs = TRUE])
    /\ UNCHANGED quiet
    /\ Quietly

UnseenTurnEnds(t, s) ==
    /\ Usual
    /\ plan[s].runs
    /\ Become(s, [plan[s] EXCEPT !.runs = FALSE, !.hold = TRUE])
    /\ Notifies(t, s, TRUE)

(* ... and the scanner reads its line (NoteExternalPrompt): the prompt     *)
(* became a message.  That is noted in the row, and nobody is told.        *)
QuietEcho(s) ==
    /\ Usual
    /\ plan[s].line
    /\ Become(s, [plan[s] EXCEPT !.sent = FALSE, !.line = FALSE])
    /\ quiet' = [quiet EXCEPT ![s] = "echo"]
    /\ Quietly

(* The box shows no input, a question is open: noted without a             *)
(* notification.  The end of it is told.                                   *)
HeldUp(s) ==
    /\ Rare
    /\ ~plan[s].held
    /\ Become(s, [plan[s] EXCEPT !.held = TRUE])
    /\ UNCHANGED quiet
    /\ Quietly

Released(t, s) ==
    /\ Usual
    /\ plan[s].held
    /\ Become(s, [plan[s] EXCEPT !.held = FALSE])
    /\ Notifies(t, s, FALSE)

(* The user pauses or arms the session.                                    *)
SetMode(t, s) ==
    /\ Usual
    /\ Become(s, [plan[s] EXCEPT !.auto = ~@])
    /\ Notifies(t, s, FALSE)

(* A prompt that nobody took is failed, and the runner paused.             *)
Failed(r) == [r EXCEPT !.sent = FALSE, !.line = FALSE, !.auto = FALSE]

(* The scanner's verdict on a send that was not picked up.                 *)
Verdict(t, s) ==
    /\ Usual
    /\ AwaitsPickup(plan[s])
    /\ \E r \in Back(plan[s]) \cup {Failed(plan[s])} : Become(s, r)
    /\ Notifies(t, s, FALSE)

(* Time passes without a notification.                                     *)
HoldEnds(s) ==
    /\ plan[s].hold
    /\ Become(s, [plan[s] EXCEPT !.hold = FALSE])
    /\ UNCHANGED <<rare, quiet>>
    /\ Quietly

-----------------------------------------------------------------------------
(* OnObserved, with the Stop seam of a turn's end behind it.               *)

(* Mutated form of Observe: the worker is not signalled.                   *)
ObserveQuietly(t) ==
    LET n == note[t] IN
    /\ n # None /\ MutexFree /\ ~n.fails
    /\ note' = [note EXCEPT ![t] = None]
    /\ watch' = IF n.awaits THEN watch \cup {n.s} ELSE watch
    /\ queue' = IF n.wants \/ n.seam THEN Enqueue(queue, n.s) ELSE queue
    /\ UNCHANGED <<plan, deferred, pauseVars, worker, stopVars, rare, quiet>>

Observe(t) ==
    LET n == note[t] IN
    /\ n # None /\ MutexFree /\ ~n.fails
    /\ note' = [note EXCEPT ![t] = None]
    /\ watch' = IF n.awaits THEN watch \cup {n.s} ELSE watch
    /\ queue' = IF n.wants \/ n.seam THEN Enqueue(queue, n.s) ELSE queue
    /\ worker' = IF watch' # watch \/ queue' # queue THEN Woken ELSE worker
    /\ UNCHANGED <<plan, deferred, pauseVars, stopVars, rare, quiet>>

(* stopOnError: a session in Error is paused, which the same thread        *)
(* observes in its turn.                                                   *)
StopOnError(t) ==
    LET n == note[t] IN
    /\ n # None /\ n.fails
    /\ Become(n.s, [plan[n.s] EXCEPT !.auto = FALSE])
    /\ note' = [note EXCEPT ![t] = Snapshot(n.s, n.seam)]
    /\ quiet' = [quiet EXCEPT ![n.s] = "no"]
    /\ UNCHANGED <<requestVars, pauseVars, worker, stopVars, rare>>

-----------------------------------------------------------------------------
(* SetGlobalPause, by any window; resumes that overlap count as one.       *)

SetGlobalPause(p) ==
    /\ IF p THEN Rare ELSE Usual
    /\ paused # p
    /\ paused' = p
    /\ resuming' = (resuming \/ ~p)
    /\ UNCHANGED <<plan, note, requestVars, worker, stopVars, quiet>>

(* Mutated form of RequestHeldAdvances: the resume asks for nothing.       *)
RequestNothing ==
    /\ resuming /\ MutexFree
    /\ resuming' = FALSE
    /\ UNCHANGED <<plan, note, requestVars, paused, worker, stopVars, rare, quiet>>

(* _requestHeldAdvances: every session that wants an idle start.           *)
RequestHeldAdvances ==
    /\ resuming /\ MutexFree
    /\ resuming' = FALSE
    /\ \E order \in Orders({s \in Session : WantsIdleStart(plan[s]) /\ ~Queued(s)}) :
          queue' = queue \o order
    /\ worker' = IF queue' # queue THEN Woken ELSE worker
    /\ UNCHANGED <<plan, note, watch, deferred, paused, stopVars, rare, quiet>>

-----------------------------------------------------------------------------
(* The worker.                                                             *)

(* Having the mutex and something to do, or nothing left to wait for: the  *)
(* first request is taken; without one the watch is swept.                 *)
Take(q) ==
    /\ queue' = IF q = <<>> THEN q ELSE Tail(q)
    /\ worker' = IF q # <<>> THEN [Idle EXCEPT !.pc = "process", !.s = Head(q)]
                 ELSE [Idle EXCEPT !.pc = IF running THEN "sweep" ELSE "ended"]

(* Mutated form of Awake: the predicate of the timed wait for both.        *)
AwakeForAdvances(kind) == ~running \/ queue # <<>>

(* The predicates of the two waits: the idle one also looks at the watch   *)
(* and the deferrals.                                                      *)
Awake(kind) ==
    \/ ~running \/ queue # <<>>
    \/ kind = "idle" /\ (watch # {} \/ \E s \in Session : deferred[s] # "none")

(* Mutated form of Promoted: a due deferral is dropped.                    *)
PromotedNone(q) == {q}

(* The due deferrals move into the queue, in the map's order.              *)
Promoted(q) ==
    {q \o order : order \in Orders({s \in Session : deferred[s] = "due" /\ ~Queued(s)})}

(* The top of the loop: promote, then take a request, or choose a wait and *)
(* look at its predicate.                                                  *)
Top ==
    /\ worker.pc = "top"
    /\ deferred' = [s \in Session |-> IF deferred[s] = "due" THEN "none" ELSE deferred[s]]
    /\ \E q \in Promoted(queue) :
          IF q # <<>> \/ ~running
          THEN Take(q)
          ELSE /\ worker' = [worker EXCEPT !.pc = "blocking", !.kind =
                      IF watch # {} THEN "poll"
                      ELSE IF \E s \in Session : deferred[s] = "waiting" THEN "due"
                      ELSE "idle"]
               /\ queue' = q
    /\ UNCHANGED <<plan, note, watch, pauseVars, stopVars, rare, quiet>>

Block ==
    /\ worker.pc = "blocking"
    /\ worker' = [worker EXCEPT !.pc = "asleep"]
    /\ UNCHANGED <<plan, note, requestVars, pauseVars, stopVars, rare, quiet>>

(* Signalled: the predicate is looked at again.                            *)
Wake ==
    /\ worker.pc = "woken"
    /\ IF Awake(worker.kind)
       THEN Take(queue)
       ELSE worker' = [worker EXCEPT !.pc = "blocking"] /\ UNCHANGED queue
    /\ UNCHANGED <<plan, note, watch, deferred, pauseVars, stopVars, rare, quiet>>

(* The poll interval is over, or the earliest deferral is due.             *)
TimeOut ==
    /\ worker.pc = "asleep"
    /\ \/ worker.kind = "poll"
       \/ worker.kind = "due" /\ \E s \in Session : deferred[s] = "due"
    /\ Take(queue)
    /\ UNCHANGED <<plan, note, watch, deferred, pauseVars, stopVars, rare, quiet>>

DeferralDue(s) ==
    /\ deferred[s] = "waiting"
    /\ deferred' = [deferred EXCEPT ![s] = "due"]
    /\ UNCHANGED <<plan, note, queue, watch, pauseVars, worker, stopVars, rare, quiet>>

(* _process reads the session (again, after the throttle) and decides.  A  *)
(* timed hold is asked about later, any other is left to its own trigger.  *)
Decide ==
    LET s == worker.s IN
    /\ worker.pc = "process"
    /\ IF MayAdvance(plan[s]) /\ ~plan[s].hold
       THEN worker' = [worker EXCEPT !.pc = "decided"]
       ELSE worker' = [worker EXCEPT !.pc = "sweep", !.s = None]
    /\ deferred' = IF MayAdvance(plan[s]) /\ plan[s].hold /\ deferred[s] = "none"
                   THEN [deferred EXCEPT ![s] = "waiting"] ELSE deferred
    /\ UNCHANGED <<plan, note, queue, watch, pauseVars, stopVars, rare, quiet>>

(* A change the worker makes is observed on its own thread, a session in   *)
(* Error paused there.                                                     *)
ObservedHere(s) ==
    /\ watch' = IF AwaitsPickup(plan'[s]) THEN watch \cup {s} ELSE watch
    /\ queue' = IF WantsIdleStart(plan'[s]) THEN Enqueue(queue, s) ELSE queue
    /\ quiet' = [quiet EXCEPT ![s] = "no"]

Stopped(r) == [r EXCEPT !.auto = @ /\ r.state # "error"]

(* The decided row is marked, if it is still Pending.                      *)
Mark ==
    LET s == worker.s IN
    /\ worker.pc = "decided"
    /\ IF plan[s].pending > 0 /\ ~plan[s].sent
       THEN /\ \E r \in Heads([plan[s] EXCEPT !.pending = @ - 1, !.sent = TRUE, !.hold = TRUE]) :
                   Become(s, Stopped(r))
            /\ worker' = [worker EXCEPT !.pc = "marked"]
       ELSE /\ worker' = [worker EXCEPT !.pc = "sweep", !.s = None]
            /\ Become(s, Stopped(plan[s]))
    /\ ObservedHere(s)
    /\ UNCHANGED <<note, deferred, pauseVars, stopVars, rare>>

(* The submit is accepted, or declined and rolled back.                    *)
Submit ==
    LET s == worker.s IN
    /\ worker.pc = "marked"
    /\ worker' = [worker EXCEPT !.pc = "sweep", !.s = None]
    /\ IF ~plan[s].busy
       THEN /\ Become(s, [plan[s] EXCEPT !.busy = TRUE])
            /\ UNCHANGED <<queue, watch, quiet>>
       ELSE /\ IF plan[s].sent
               THEN \E r \in Back(plan[s]) : Become(s, Stopped(r))
               ELSE Become(s, Stopped(plan[s]))
            /\ ObservedHere(s)
    /\ UNCHANGED <<note, deferred, pauseVars, stopVars, rare>>

(* The sweep: the watch list is copied ...                                 *)
SweepStarts ==
    /\ worker.pc = "sweep"
    /\ worker' = IF watch = {} THEN Idle
                 ELSE [worker EXCEPT !.pc = "sweeping", !.ids = watch, !.done = {}]
    /\ UNCHANGED <<plan, note, requestVars, pauseVars, stopVars, rare, quiet>>

(* ... each session read afresh: one with nothing to pick up is done, the  *)
(* others are waited for, pressed again or given up ...                    *)
SweepOne(s) ==
    /\ worker.pc = "sweeping" /\ s \in worker.ids
    /\ \/ /\ AwaitsPickup(plan[s])
          /\ worker' = [worker EXCEPT !.ids = @ \ {s}]
          /\ UNCHANGED plan
          /\ ObservedHere(s) \/ UNCHANGED <<queue, watch, quiet>>
       \/ /\ ~AwaitsPickup(plan[s])
          /\ worker' = [worker EXCEPT !.ids = @ \ {s}, !.done = @ \cup {s}]
          /\ UNCHANGED <<plan, queue, watch, quiet>>
       \/ /\ AwaitsPickup(plan[s])
          /\ worker' = [worker EXCEPT !.ids = @ \ {s}, !.done = @ \cup {s}]
          /\ Become(s, Failed(plan[s]))
          /\ ObservedHere(s)
    /\ UNCHANGED <<note, deferred, pauseVars, stopVars, rare>>

(* ... and what is done leaves the list.                                   *)
SweepEnds ==
    /\ worker.pc = "sweeping" /\ worker.ids = {}
    /\ watch' = watch \ worker.done
    /\ worker' = Idle
    /\ UNCHANGED <<plan, note, queue, deferred, pauseVars, stopVars, rare, quiet>>

-----------------------------------------------------------------------------
(* Stop, which does not take the mutex.                                    *)

StopStores ==
    /\ Rare
    /\ running
    /\ running' = FALSE
    /\ stop' = "stored"
    /\ UNCHANGED <<plan, note, requestVars, pauseVars, worker, quiet>>

StopNotifies ==
    /\ stop = "stored"
    /\ stop' = "joining"
    /\ worker' = Woken
    /\ UNCHANGED <<plan, note, requestVars, pauseVars, running, rare, quiet>>

-----------------------------------------------------------------------------
Environment(t, s) ==
    \/ QueuePrompt(t, s) \/ SendNow(t, s) \/ RollBack(t, s) \/ CloseGate(t, s)
    \/ TurnStarts(t, s) \/ TurnEnds(t, s) \/ TurnFails(t, s) \/ UnseenTurnEnds(t, s)
    \/ Released(t, s) \/ SetMode(t, s) \/ Verdict(t, s)

(* What changes a session and tells nobody.                                *)
Unannounced(s) == GateExpires(s) \/ UnseenTurn(s) \/ QuietEcho(s) \/ HeldUp(s)

Time(s) == HoldEnds(s) \/ DeferralDue(s)

Worker ==
    \/ Top \/ Block \/ Wake \/ TimeOut \/ Decide \/ Mark \/ Submit
    \/ SweepStarts \/ SweepEnds \/ \E s \in Session : SweepOne(s)

Stopping == StopStores \/ StopNotifies

Next ==
    \/ \E t \in Thread : \/ Observe(t) \/ StopOnError(t)
                       \/ \E s \in Session : Environment(t, s)
    \/ \E s \in Session : Unannounced(s) \/ Time(s)
    \/ \E p \in BOOLEAN : SetGlobalPause(p)
    \/ RequestHeldAdvances
    \/ Worker
    \/ Stopping

(* Threads run: the worker, the notifying ones, the one in SetGlobalPause  *)
(* and the one in Stop.  Time passes.  Nobody has to change a session.     *)
Fairness ==
    /\ WF_vars(Worker)
    /\ \A t \in Thread : WF_vars(Observe(t) \/ StopOnError(t))
    /\ WF_vars(RequestHeldAdvances) /\ WF_vars(StopNotifies)
    /\ \A s \in Session : WF_vars(HoldEnds(s)) /\ WF_vars(DeferralDue(s))

Spec == Init /\ [][Next]_vars /\ Fairness

-----------------------------------------------------------------------------
WorkerState ==
    [pc : {"top", "blocking", "asleep", "woken", "process", "decided", "marked",
           "sweep", "sweeping", "ended"},
     s : Session \cup {None}, kind : {"idle", "poll", "due"},
     ids : SUBSET Session, done : SUBSET Session]

HistoryOK == rare \in 0..MaxRare /\ quiet \in [Session -> {"no", "echo", "gate"}]

TypeOK ==
    /\ plan \in [Session -> Record]
    /\ note \in [Thread -> Notification \cup {None}]
    /\ queue \in Seq(Session)
    /\ Distinct(queue)
    /\ watch \subseteq Session
    /\ deferred \in [Session -> {"none", "waiting", "due"}]
    /\ paused \in BOOLEAN /\ resuming \in BOOLEAN
    /\ worker \in WorkerState
    /\ running \in BOOLEAN /\ stop \in {"no", "stored", "joining"}
    /\ HistoryOK

(* What will still ask about a session.                                    *)
Triggered(s) ==
    \/ Queued(s)
    \/ deferred[s] # "none"
    \/ worker.pc \in {"process", "decided"} /\ worker.s = s
    \/ \E t \in Thread : note[t] # None /\ note[t].s = s /\ (note[t].wants \/ note[t].seam)
    \/ resuming

(* A session at rest whose next prompt nothing holds but time.             *)
Ready(s) == running /\ AtRest(plan[s]) /\ MayAdvance(plan[s])

(* No plan is forgotten: a session whose next prompt could be sent has     *)
(* something on its way that makes the worker look at it.  It may be       *)
(* without only while the last of its holds ended in silence (a prompt     *)
(* found in the transcript, a leaked gate that expired) and nothing was    *)
(* told of the session since.                                              *)
NoForgottenPlan ==
    \A s \in Session : Ready(s) /\ quiet[s] = "no" => Triggered(s)

(* The same for a prompt that was found in the transcript: once the turn   *)
(* it started is over, too, something asks about the next one.             *)
EchoAsksAgain ==
    \A s \in Session : Ready(s) /\ quiet[s] = "echo" /\ ~plan[s].runs => Triggered(s)

(* The worker does not sleep on work: when it is in a wait, no advance is  *)
(* queued, and in the untimed wait nothing is watched or deferred either.  *)
NoSleepOnWork ==
    worker.pc = "asleep" /\ running =>
        /\ queue = <<>>
        /\ worker.kind = "idle" => watch = {} /\ \A s \in Session : deferred[s] = "none"

(* A plan moves on: what can be sent is sent, or stops being sendable,     *)
(* unless its last hold ended in silence.                                  *)
PlanMovesOn ==
    \A s \in Session : (Ready(s) /\ quiet[s] = "no") ~> ~Ready(s)

(* A watched send is looked at: the sweep comes round to every session on  *)
(* the list.                                                               *)
WatchIsSwept ==
    \A s \in Session :
        (s \in watch /\ running) ~>
            (s \notin watch \/ ~running \/ (worker.pc = "sweeping" /\ s \in worker.ids))

(* A watched send is polled: the worker does not sleep towards a deferral  *)
(* while it is on the list.                                                *)
WatchIsPolled == worker.pc = "asleep" /\ watch # {} => worker.kind = "poll"
=============================================================================
