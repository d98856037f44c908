------------------------ MODULE AdvanceWorker_proofs ------------------------
(***************************************************************************)
(* For any sessions, any number of notifying threads and any number of     *)
(* queued prompts: the types of the worker's state, that no plan is        *)
(* forgotten, and that the worker does not sleep on work.                  *)
(***************************************************************************)
EXTENDS AdvanceWorker, SequenceTheorems, FiniteSetTheorems, TLAPS

-----------------------------------------------------------------------------
(* Queues.                                                                 *)

(* A request is in the queue once it was made, and no other is lost.       *)
LEMMA EnqueueFacts ==
    ASSUME NEW q \in Seq(Session), Distinct(q), NEW s \in Session
    PROVE  /\ Enqueue(q, s) \in Seq(Session)
           /\ Distinct(Enqueue(q, s))
           /\ Has(Enqueue(q, s), s)
           /\ \A r \in Session : Has(q, r) => Has(Enqueue(q, s), r)
<1>1. CASE Has(q, s)
  BY <1>1 DEF Enqueue
<1>2. CASE ~Has(q, s)
  <2>1. /\ Append(q, s) \in Seq(Session)
        /\ DOMAIN Append(q, s) = 1..(Len(q) + 1)
        /\ \A i \in 1..Len(q) : Append(q, s)[i] = q[i]
        /\ Append(q, s)[Len(q) + 1] = s
        /\ DOMAIN q = 1..Len(q) /\ Len(q) \in Nat
    OBVIOUS
  <2>2. \A i \in 1..Len(q) : q[i] # s
    BY <1>2, <2>1 DEF Has
  <2>3. Distinct(Append(q, s))
    BY <2>1, <2>2 DEF Distinct
  <2>4. Has(Append(q, s), s)
    BY <2>1 DEF Has
  <2>5. \A r \in Session : Has(q, r) => Has(Append(q, s), r)
    BY <2>1 DEF Has
  <2> QED BY <1>2, <2>1, <2>3, <2>4, <2>5 DEF Enqueue
<1> QED BY <1>1, <1>2

(* Taking the first request leaves the others.                             *)
LEMMA TailFacts ==
    ASSUME NEW q \in Seq(Session), Distinct(q), q # <<>>
    PROVE  /\ Tail(q) \in Seq(Session)
           /\ Distinct(Tail(q))
           /\ Head(q) \in Session
           /\ \A r \in Session : Has(q, r) => r = Head(q) \/ Has(Tail(q), r)
<1>1. /\ Tail(q) \in Seq(Session) /\ Head(q) \in Session /\ Head(q) = q[1]
      /\ Len(q) \in Nat \ {0} /\ DOMAIN q = 1..Len(q)
      /\ DOMAIN Tail(q) = 1..(Len(q) - 1)
      /\ \A i \in 1..(Len(q) - 1) : Tail(q)[i] = q[i + 1]
  OBVIOUS
<1>2. Distinct(Tail(q))
  BY <1>1 DEF Distinct
<1>3. ASSUME NEW r \in Session, Has(q, r), r # Head(q)
      PROVE  Has(Tail(q), r)
  <2>1. PICK i \in 1..Len(q) : q[i] = r
    BY <1>1, <1>3 DEF Has
  <2>2. i - 1 \in 1..(Len(q) - 1) /\ Tail(q)[i - 1] = r
    BY <1>1, <1>3, <2>1
  <2> QED BY <1>1, <2>2 DEF Has
<1> QED BY <1>1, <1>2, <1>3

(* Appending sessions that are not in the queue yet, each once.            *)
LEMMA OrdersFacts ==
    ASSUME NEW q \in Seq(Session), Distinct(q),
           NEW S \in SUBSET Session, \A s \in S : ~Has(q, s),
           NEW o \in Orders(S)
    PROVE  /\ q \o o \in Seq(Session)
           /\ Distinct(q \o o)
           /\ \A r \in Session : Has(q, r) \/ r \in S => Has(q \o o, r)
<1>1. Cardinality(S) \in Nat
  BY SessionAssumption, FS_Subset, FS_CardinalityType
<1>2. o \in Seq(S) /\ o \in Seq(Session) /\ Distinct(o) /\ \A s \in S : Has(o, s)
  BY <1>1 DEF Orders
<1>3. /\ q \o o \in Seq(Session)
      /\ DOMAIN q = 1..Len(q) /\ Len(q) \in Nat /\ DOMAIN o = 1..Len(o) /\ Len(o) \in Nat
      /\ DOMAIN (q \o o) = 1..(Len(q) + Len(o))
      /\ \A i \in 1..Len(q) : (q \o o)[i] = q[i]
      /\ \A i \in 1..Len(o) : (q \o o)[Len(q) + i] = o[i]
      /\ \A i \in 1..Len(o) : o[i] \in S
  BY <1>2
<1>4. Distinct(q \o o)
  <2> SUFFICES ASSUME NEW i \in 1..(Len(q) + Len(o)), NEW j \in 1..(Len(q) + Len(o)),
                      (q \o o)[i] = (q \o o)[j], i <= j
               PROVE  i = j
    BY <1>3 DEF Distinct
  <2>1. CASE j <= Len(q)
    BY <1>3, <2>1 DEF Distinct
  <2>2. CASE i > Len(q)
    <3>1. i - Len(q) \in 1..Len(o) /\ j - Len(q) \in 1..Len(o)
      BY <1>3, <2>2
    <3>2. (q \o o)[i] = o[i - Len(q)] /\ (q \o o)[j] = o[j - Len(q)]
      BY <1>3, <2>2, <3>1
    <3>3. i - Len(q) = j - Len(q)
      BY <1>2, <1>3, <3>1, <3>2 DEF Distinct
    <3> QED BY <1>3, <3>3
  <2>3. CASE i <= Len(q) /\ j > Len(q)
    <3>1. j - Len(q) \in 1..Len(o) /\ (q \o o)[j] = o[j - Len(q)]
      BY <1>3, <2>3
    <3>2. Has(q, (q \o o)[j])
      BY <1>3, <2>3 DEF Has
    <3> QED BY <1>3, <3>1, <3>2
  <2> QED BY <1>3, <2>1, <2>2, <2>3
<1>5. ASSUME NEW r \in Session, Has(q, r)
      PROVE  Has(q \o o, r)
  BY <1>3, <1>5 DEF Has
<1>6. ASSUME NEW r \in S
      PROVE  Has(q \o o, r)
  <2>1. PICK i \in 1..Len(o) : o[i] = r
    BY <1>2, <1>3, <1>6 DEF Has
  <2>2. Len(q) + i \in DOMAIN (q \o o) /\ (q \o o)[Len(q) + i] = r
    BY <1>3, <2>1
  <2> QED BY <2>2 DEF Has
<1> QED BY <1>3, <1>4, <1>5, <1>6

-----------------------------------------------------------------------------
(* The inductive invariant.                                                *)

OpenBound == \A s \in Session : Open(plan[s]) <= MaxWork

Holding == worker.pc \in {"process", "decided", "marked"} => worker.s \in Session

(* A wait that is chosen or slept in has nothing to do.  "blocking" is the *)
(* part of it before the worker is in the wait.                            *)
Waits ==
    worker.pc \in {"blocking", "asleep"} /\ running =>
        /\ queue = <<>>
        /\ worker.kind = "idle" => watch = {} /\ \A s \in Session : deferred[s] = "none"

Typed == TypeOK /\ OpenBound /\ Holding

IInv == Typed /\ Waits /\ NoForgottenPlan

-----------------------------------------------------------------------------
(* A row that is sent counts as one prompt more than are queued.           *)
LEMMA OpenFacts ==
    ASSUME NEW r \in Record
    PROVE  /\ r.pending \in Int /\ 0 <= r.pending /\ r.pending <= MaxWork
           /\ MaxWork \in Int
           /\ r.sent => Open(r) = r.pending + 1
           /\ ~r.sent => Open(r) = r.pending
BY WorkAssumption DEF Open, Record

(* Whichever prompt is the first now: nothing else of the record changed.  *)
LEMMA HeadFacts ==
    ASSUME NEW r \in Record, NEW x \in Heads(r)
    PROVE  /\ x \in Record /\ Open(x) = Open(r)
           /\ x.pending = r.pending /\ x.sent = r.sent /\ x.busy = r.busy
<1>1. PICK b \in BOOLEAN : x = [r EXCEPT !.remote = b]
  BY DEF Heads
<1> QED BY <1>1 DEF Record, Open

(* A row that goes back into the queue, and one that is failed.            *)
LEMMA BackFacts ==
    ASSUME NEW r \in Record, Open(r) <= MaxWork, r.sent, NEW x \in Back(r)
    PROVE  x \in Record /\ Open(x) <= MaxWork
<1> DEFINE b == [r EXCEPT !.sent = FALSE, !.line = FALSE, !.pending = @ + 1]
<1>1. Open(r) = r.pending + 1 /\ r.pending + 1 \in 0..MaxWork
  BY OpenFacts, WorkAssumption DEF Record
<1>2. b \in Record /\ b.sent = FALSE /\ b.pending = r.pending + 1
  BY <1>1 DEF Record
<1>3. x \in Heads(b)
  BY DEF Back
<1> HIDE DEF b
<1>4. Open(b) = b.pending
  BY <1>2 DEF Open
<1>5. x \in Record /\ Open(x) = Open(b)
  BY <1>2, <1>3, HeadFacts
<1> QED BY <1>1, <1>2, <1>4, <1>5

LEMMA FailedFacts ==
    ASSUME NEW r \in Record
    PROVE  Failed(r) \in Record /\ Open(Failed(r)) <= MaxWork
<1>1. Failed(r) \in Record /\ Failed(r).sent = FALSE /\ Failed(r).pending = r.pending
  BY DEF Record, Failed
<1> QED BY <1>1, OpenFacts

LEMMA StoppedFacts ==
    ASSUME NEW r \in Record
    PROVE  /\ Stopped(r) \in Record /\ Open(Stopped(r)) = Open(r)
           /\ Stopped(r).sent = r.sent
BY DEF Record, Open, Stopped

(* A record that is sent, marked or taken out.                             *)
LEMMA SentFacts ==
    ASSUME NEW r \in Record, r.pending > 0, Open(r) <= MaxWork,
           NEW x \in Record, x.sent = TRUE, x.pending = r.pending - 1
    PROVE  Open(x) <= MaxWork
<1>1. Open(x) = x.pending + 1 /\ r.pending <= MaxWork /\ r.pending \in Int
  BY OpenFacts
<1> QED BY <1>1

(* What a notification of a session's record says of it.                   *)
LEMMA SnapshotFacts ==
    ASSUME NEW s \in Session, plan'[s] \in Record, NEW seam \in BOOLEAN
    PROVE  /\ Snapshot(s, seam) \in Notification
           /\ Snapshot(s, seam).s = s
           /\ Snapshot(s, seam).wants = WantsIdleStart(plan'[s])
           /\ Snapshot(s, seam).seam = seam
BY DEF Snapshot, Notification, WantsIdleStart, AwaitsPickup, AtRest, Record

(* Whatever changes a session and notifies: its record keeps its type, and *)
(* the notification says whether the session wants an advance.             *)
LEMMA EnvironmentShape ==
    ASSUME Typed, NEW t \in Thread, NEW s \in Session, Environment(t, s)
    PROVE  /\ plan' \in [Session -> Record]
           /\ \A r \in Session : r # s => plan'[r] = plan[r]
           /\ Open(plan'[s]) <= MaxWork
           /\ note[t] = None
           /\ \E n \in Notification :
                 /\ note' = [note EXCEPT ![t] = n]
                 /\ n.s = s
                 /\ n.wants = WantsIdleStart(plan'[s])
           /\ quiet' = [quiet EXCEPT ![s] = "no"]
           /\ UNCHANGED <<requestVars, pauseVars, worker, stopVars>>
<1>1. /\ plan \in [Session -> Record] /\ note \in [Thread -> Notification \cup {None}]
      /\ plan[s] \in Record /\ Open(plan[s]) <= MaxWork /\ MaxWork \in Nat
  BY WorkAssumption DEF Typed, TypeOK, OpenBound
<1>a. ASSUME NEW r \in Record, Open(r) <= MaxWork, Become(s, r), NEW n \in Notification,
             n.s = s, n.wants = WantsIdleStart(plan'[s]), Told(t, s, n)
      PROVE  /\ plan' \in [Session -> Record]
             /\ \A q \in Session : q # s => plan'[q] = plan[q]
             /\ Open(plan'[s]) <= MaxWork
             /\ note[t] = None
             /\ \E m \in Notification :
                   /\ note' = [note EXCEPT ![t] = m]
                   /\ m.s = s
                   /\ m.wants = WantsIdleStart(plan'[s])
             /\ quiet' = [quiet EXCEPT ![s] = "no"]
             /\ UNCHANGED <<requestVars, pauseVars, worker, stopVars>>
  <2>1. plan' = [plan EXCEPT ![s] = r] /\ plan'[s] = r
    BY <1>1, <1>a DEF Become
  <2> QED BY <1>1, <1>a, <2>1 DEF Told
<1>2. ASSUME NEW r \in Record, Open(r) <= MaxWork, Become(s, r), NEW seam \in BOOLEAN,
             Notifies(t, s, seam)
      PROVE  /\ plan' \in [Session -> Record]
             /\ \A q \in Session : q # s => plan'[q] = plan[q]
             /\ Open(plan'[s]) <= MaxWork
             /\ note[t] = None
             /\ \E n \in Notification :
                   /\ note' = [note EXCEPT ![t] = n]
                   /\ n.s = s
                   /\ n.wants = WantsIdleStart(plan'[s])
             /\ quiet' = [quiet EXCEPT ![s] = "no"]
             /\ UNCHANGED <<requestVars, pauseVars, worker, stopVars>>
  <2>1. plan'[s] = r
    BY <1>1, <1>2 DEF Become
  <2>2. /\ Snapshot(s, seam) \in Notification /\ Snapshot(s, seam).s = s
        /\ Snapshot(s, seam).wants = WantsIdleStart(plan'[s])
    BY <1>2, <2>1, SnapshotFacts
  <2>3. Told(t, s, Snapshot(s, seam))
    BY <1>2 DEF Notifies
  <2> QED BY <1>2, <2>2, <2>3, <1>a
<1>3. CASE QueuePrompt(t, s)
  <2>1. PICK phone \in BOOLEAN :
           /\ Become(s, [plan[s] EXCEPT !.pending = @ + 1, !.hold = TRUE,
                                        !.remote = @ \/ phone])
           /\ Notifies(t, s, phone)
    BY <1>3 DEF QueuePrompt
  <2> DEFINE r == [plan[s] EXCEPT !.pending = @ + 1, !.hold = TRUE, !.remote = @ \/ phone]
  <2>2. Open(plan[s]) < MaxWork /\ Open(plan[s]) \in Int
    BY <1>1, <1>3, OpenFacts DEF QueuePrompt
  <2>3. plan[s].pending + 1 \in 0..MaxWork
    BY <1>1, <2>2, OpenFacts
  <2>4. r \in Record /\ r.pending = plan[s].pending + 1 /\ r.sent = plan[s].sent
    BY <1>1, <2>3 DEF Record
  <2> HIDE DEF r
  <2>5. Open(r) = Open(plan[s]) + 1
    BY <1>1, <2>4 DEF Open, Record
  <2>6. Open(r) <= MaxWork
    BY <1>1, <2>2, <2>5
  <2>7. Become(s, r)
    BY <2>1 DEF r
  <2> QED BY <2>1, <2>4, <2>6, <2>7, <1>2
<1>4. CASE SendNow(t, s)
  <2> DEFINE sending == [plan[s] EXCEPT !.pending = @ - 1, !.sent = TRUE]
  <2>1. PICK h \in Heads(sending) :
           /\ Become(s, [h EXCEPT !.busy = TRUE])
           /\ Told(t, s, [Snapshot(s, FALSE) EXCEPT !.awaits = AwaitsPickup(h)])
    BY <1>4 DEF SendNow
  <2>2. plan[s].pending - 1 \in 0..MaxWork /\ plan[s].pending > 0
    BY <1>1, <1>4, OpenFacts DEF SendNow
  <2>3. sending \in Record /\ sending.sent = TRUE /\ sending.pending = plan[s].pending - 1
    BY <1>1, <2>2 DEF Record
  <2> HIDE DEF sending
  <2>4. h \in Record /\ h.sent = TRUE /\ h.pending = plan[s].pending - 1
    BY <2>3, HeadFacts
  <2> DEFINE r == [h EXCEPT !.busy = TRUE]
             n == [Snapshot(s, FALSE) EXCEPT !.awaits = AwaitsPickup(h)]
  <2>5. r \in Record /\ r.sent = TRUE /\ r.pending = plan[s].pending - 1
    BY <2>4 DEF Record
  <2>6. Open(r) <= MaxWork
    BY <1>1, <2>2, <2>5, SentFacts
  <2>7. plan'[s] = r
    BY <1>1, <2>1 DEF Become
  <2>8. n \in Notification /\ n.s = s /\ n.wants = WantsIdleStart(plan'[s])
    <3>1. Snapshot(s, FALSE) \in Notification /\ Snapshot(s, FALSE).s = s
          /\ Snapshot(s, FALSE).wants = WantsIdleStart(plan'[s])
      BY <2>5, <2>7, SnapshotFacts
    <3>2. AwaitsPickup(h) \in BOOLEAN
      BY <2>4 DEF AwaitsPickup, AtRest, Record
    <3> QED BY <3>1, <3>2 DEF Notification
  <2>9. Become(s, r) /\ Told(t, s, n)
    BY <2>1
  <2> HIDE DEF r, n
  <2> QED BY <2>5, <2>6, <2>8, <2>9, <1>a
<1>5. CASE RollBack(t, s)
  <2>1. PICK r \in Back(plan[s]) : Become(s, r)
    BY <1>5 DEF RollBack
  <2>2. r \in Record /\ Open(r) <= MaxWork
    BY <1>1, <1>5, BackFacts DEF RollBack
  <2> QED BY <1>2, <1>5, <2>1, <2>2 DEF RollBack
<1>6. CASE CloseGate(t, s)
  <2> DEFINE r == [plan[s] EXCEPT !.busy = FALSE]
  <2>1. r \in Record /\ Open(r) <= MaxWork
    BY <1>1 DEF Record, Open
  <2> QED BY <1>2, <1>6, <2>1 DEF CloseGate
<1>7. CASE TurnStarts(t, s)
  <2> DEFINE r == [plan[s] EXCEPT !.state = "turn", !.sent = FALSE, !.line = FALSE,
                                  !.runs = FALSE]
  <2>1. r \in Record /\ r.sent = FALSE
    BY <1>1 DEF Record
  <2>2. Become(s, r) /\ Notifies(t, s, FALSE)
    BY <1>7 DEF TurnStarts
  <2> HIDE DEF r
  <2>3. Open(r) <= MaxWork
    BY <2>1, OpenFacts
  <2> QED BY <1>2, <2>1, <2>2, <2>3
<1>8. CASE TurnEnds(t, s) \/ TurnFails(t, s)
  <2>1. PICK st \in {"rest", "error"}, seam \in BOOLEAN :
           /\ Become(s, [plan[s] EXCEPT !.state = st, !.hold = TRUE])
           /\ Notifies(t, s, seam)
    BY <1>8 DEF TurnEnds, TurnFails
  <2> DEFINE r == [plan[s] EXCEPT !.state = st, !.hold = TRUE]
  <2>2. r \in Record /\ Open(r) <= MaxWork
    BY <1>1 DEF Record, Open
  <2> QED BY <1>2, <2>1, <2>2
<1>9. CASE SetMode(t, s)
  <2> DEFINE r == [plan[s] EXCEPT !.auto = ~@]
  <2>1. r \in Record /\ Open(r) <= MaxWork
    BY <1>1 DEF Record, Open
  <2> QED BY <1>2, <1>9, <2>1 DEF SetMode
<1>10. CASE Verdict(t, s)
  <2>1. PICK r \in Back(plan[s]) \cup {Failed(plan[s])} : Become(s, r)
    BY <1>10 DEF Verdict
  <2>2. r \in Record /\ Open(r) <= MaxWork
    BY <1>1, <1>10, BackFacts, FailedFacts DEF Verdict, AwaitsPickup
  <2> QED BY <1>2, <1>10, <2>1, <2>2 DEF Verdict
<1>11. CASE UnseenTurnEnds(t, s)
  <2> DEFINE r == [plan[s] EXCEPT !.runs = FALSE, !.hold = TRUE]
  <2>1. r \in Record /\ Open(r) <= MaxWork
    BY <1>1 DEF Record, Open
  <2> QED BY <1>2, <1>11, <2>1 DEF UnseenTurnEnds
<1>12. CASE Released(t, s)
  <2> DEFINE r == [plan[s] EXCEPT !.held = FALSE]
  <2>1. r \in Record /\ Open(r) <= MaxWork
    BY <1>1 DEF Record, Open
  <2> QED BY <1>2, <1>12, <2>1 DEF Released
<1> QED BY <1>3, <1>4, <1>5, <1>6, <1>7, <1>8, <1>9, <1>10, <1>11, <1>12 DEF Environment

(* What changes a session in silence makes no prompt of it sendable, or it *)
(* is noted.                                                               *)
LEMMA UnannouncedShape ==
    ASSUME Typed, NEW s \in Session, Unannounced(s) \/ HoldEnds(s)
    PROVE  /\ plan' \in [Session -> Record] /\ OpenBound'
           /\ \A r \in Session : r # s => plan'[r] = plan[r] /\ quiet'[r] = quiet[r]
           /\ MayAdvance(plan'[s]) => MayAdvance(plan[s]) \/ quiet'[s] # "no"
           /\ AtRest(plan'[s]) = AtRest(plan[s])
           /\ quiet'[s] = "no" => quiet[s] = "no"
           /\ UNCHANGED <<note, requestVars, pauseVars, worker, stopVars>>
<1>1. /\ plan \in [Session -> Record] /\ plan[s] \in Record /\ Open(plan[s]) <= MaxWork
      /\ quiet \in [Session -> {"no", "echo", "gate"}]
  BY DEF Typed, TypeOK, OpenBound, HistoryOK
<1>2. ASSUME NEW x \in Record, Open(x) <= MaxWork, Become(s, x),
             MayAdvance(x) => MayAdvance(plan[s]) \/ quiet'[s] # "no",
             x.state = plan[s].state, Quietly,
             \/ UNCHANGED quiet
             \/ \E w \in {"echo", "gate"} : quiet' = [quiet EXCEPT ![s] = w]
      PROVE  /\ plan' \in [Session -> Record] /\ OpenBound'
             /\ \A r \in Session : r # s => plan'[r] = plan[r] /\ quiet'[r] = quiet[r]
             /\ MayAdvance(plan'[s]) => MayAdvance(plan[s]) \/ quiet'[s] # "no"
             /\ AtRest(plan'[s]) = AtRest(plan[s])
             /\ quiet'[s] = "no" => quiet[s] = "no"
             /\ UNCHANGED <<note, requestVars, pauseVars, worker, stopVars>>
  <2>1. plan' \in [Session -> Record] /\ OpenBound' /\ plan'[s] = x
        /\ \A q \in Session : q # s => plan'[q] = plan[q]
    BY <1>2 DEF Become, Typed, TypeOK, OpenBound
  <2>2. /\ \A q \in Session : q # s => quiet'[q] = quiet[q]
        /\ quiet'[s] = "no" => quiet[s] = "no"
    BY <1>1, <1>2
  <2> QED BY <1>2, <2>1, <2>2 DEF Quietly, AtRest
<1>3. CASE GateExpires(s)
  <2> DEFINE x == [plan[s] EXCEPT !.busy = FALSE]
  <2>1. x \in Record /\ Open(x) <= MaxWork /\ x.state = plan[s].state
    BY <1>1 DEF Record, Open
  <2>2. quiet'[s] # "no"
    BY <1>1, <1>3 DEF GateExpires
  <2> QED BY <1>2, <1>3, <2>1, <2>2 DEF GateExpires
<1>4. CASE UnseenTurn(s)
  <2> DEFINE x == [plan[s] EXCEPT !.line = TRUE, !.runs = TRUE]
  <2>1. x \in Record /\ Open(x) <= MaxWork /\ x.state = plan[s].state /\ x.sent
    BY <1>1, <1>4 DEF Record, Open, UnseenTurn
  <2>2. ~MayAdvance(x)
    BY <2>1 DEF MayAdvance
  <2> QED BY <1>2, <1>4, <2>1, <2>2 DEF UnseenTurn
<1>5. CASE QuietEcho(s)
  <2> DEFINE x == [plan[s] EXCEPT !.sent = FALSE, !.line = FALSE]
  <2>1. x \in Record /\ x.sent = FALSE /\ x.state = plan[s].state
    BY <1>1 DEF Record
  <2>2. quiet'[s] # "no"
    BY <1>1, <1>5 DEF QuietEcho
  <2>3. Become(s, x) /\ Quietly /\ quiet' = [quiet EXCEPT ![s] = "echo"]
    BY <1>5 DEF QuietEcho
  <2> HIDE DEF x
  <2>4. Open(x) <= MaxWork
    BY <2>1, OpenFacts
  <2> QED BY <1>2, <2>1, <2>2, <2>3, <2>4
<1>6. CASE HeldUp(s)
  <2> DEFINE x == [plan[s] EXCEPT !.held = TRUE]
  <2>1. x \in Record /\ Open(x) <= MaxWork /\ x.state = plan[s].state /\ x.held
    BY <1>1 DEF Record, Open
  <2>2. ~MayAdvance(x)
    BY <2>1 DEF MayAdvance
  <2> QED BY <1>2, <1>6, <2>1, <2>2 DEF HeldUp
<1>7. CASE HoldEnds(s)
  <2> DEFINE x == [plan[s] EXCEPT !.hold = FALSE]
  <2>1. x \in Record /\ Open(x) <= MaxWork /\ x.state = plan[s].state
    BY <1>1 DEF Record, Open
  <2>2. MayAdvance(x) => MayAdvance(plan[s])
    BY <1>1 DEF MayAdvance, AtRest, Record
  <2> QED BY <1>2, <1>7, <2>1, <2>2 DEF HoldEnds
<1> QED BY <1>3, <1>4, <1>5, <1>6, <1>7 DEF Unannounced

-----------------------------------------------------------------------------
(* Taking a request, when it is known which requests there are.            *)
LEMMA TakeFacts ==
    ASSUME Typed, NEW q \in Seq(Session), Distinct(q), Take(q)
    PROVE  /\ queue' \in Seq(Session) /\ Distinct(queue')
           /\ worker'.pc \in {"process", "sweep", "ended"}
           /\ worker' \in [pc : {"process", "sweep", "ended"}, s : Session \cup {None},
                           kind : {"idle", "poll", "due"},
                           ids : SUBSET Session, done : SUBSET Session]
           /\ worker'.pc = "process" => worker'.s \in Session
           /\ \A r \in Session : Has(q, r) =>
                 Has(queue', r) \/ (worker'.pc = "process" /\ worker'.s = r)
<1>1. CASE q = <<>>
  <2>1. queue' = q /\ worker' = [Idle EXCEPT !.pc = IF running THEN "sweep" ELSE "ended"]
    BY <1>1 DEF Take
  <2>2. worker'.pc \in {"sweep", "ended"}
    BY <2>1 DEF Idle
  <2> QED BY <2>1, <2>2 DEF Idle
<1>2. CASE q # <<>>
  <2>1. queue' = Tail(q) /\ worker' = [Idle EXCEPT !.pc = "process", !.s = Head(q)]
    BY <1>2 DEF Take
  <2>2. worker'.pc = "process" /\ worker'.s = Head(q)
    BY <2>1 DEF Idle
  <2> QED BY <1>2, <2>1, <2>2, TailFacts DEF Idle
<1> QED BY <1>1, <1>2

(* What the worker observes of its own change.                             *)
LEMMA ObservedFacts ==
    ASSUME Typed, NEW s \in Session, ObservedHere(s)
    PROVE  /\ queue' \in Seq(Session) /\ Distinct(queue')
           /\ watch' \in SUBSET Session
           /\ WantsIdleStart(plan'[s]) => Has(queue', s)
           /\ \A r \in Session : Has(queue, r) => Has(queue', r)
BY EnqueueFacts DEF ObservedHere, Typed, TypeOK

(* A record that a step writes is a record, and leaves the others alone.   *)
LEMMA BecomeFacts ==
    ASSUME Typed, NEW s \in Session, NEW r \in Record, Open(r) <= MaxWork, Become(s, r)
    PROVE  /\ plan' \in [Session -> Record] /\ OpenBound'
           /\ plan'[s] = r
           /\ \A q \in Session : q # s => plan'[q] = plan[q]
BY DEF Become, Typed, TypeOK, OpenBound

(* The records that the worker writes: a row is marked, or goes back.      *)
LEMMA MarkRecord ==
    ASSUME NEW r \in Record, Open(r) <= MaxWork, r.pending > 0, ~r.sent,
           NEW x \in Heads([r EXCEPT !.pending = @ - 1, !.sent = TRUE, !.hold = TRUE])
    PROVE  /\ Stopped(x) \in Record /\ Open(Stopped(x)) <= MaxWork
           /\ Stopped(x).sent = TRUE
<1> DEFINE m == [r EXCEPT !.pending = @ - 1, !.sent = TRUE, !.hold = TRUE]
<1>1. r.pending - 1 \in 0..MaxWork
  BY OpenFacts, WorkAssumption DEF Record
<1>2. m \in Record /\ m.sent = TRUE /\ m.pending = r.pending - 1
  BY <1>1 DEF Record
<1>3. x \in Heads(m)
  OBVIOUS
<1> HIDE DEF m
<1>4. x \in Record /\ x.sent = TRUE /\ x.pending = r.pending - 1
  BY <1>2, <1>3, HeadFacts
<1>5. Open(x) <= MaxWork
  BY <1>4, SentFacts
<1> QED BY <1>4, <1>5, StoppedFacts

LEMMA BackRecord ==
    ASSUME NEW r \in Record, Open(r) <= MaxWork, r.sent, NEW x \in Back(r)
    PROVE  Stopped(x) \in Record /\ Open(Stopped(x)) <= MaxWork
BY BackFacts, StoppedFacts

-----------------------------------------------------------------------------
(* Every step keeps the history and the budget of rare events.             *)
LEMMA HistoryStep ==
    ASSUME Typed, [Next]_vars
    PROVE  HistoryOK'
<1>0. rare \in 0..MaxRare /\ MaxRare \in Nat /\ quiet \in [Session -> {"no", "echo", "gate"}]
  BY WorkAssumption DEF Typed, TypeOK, HistoryOK
<1>1. rare' \in 0..MaxRare /\ quiet' \in [Session -> {"no", "echo", "gate"}] => HistoryOK'
  BY DEF HistoryOK
<1>2. Usual \/ Rare => rare' \in 0..MaxRare
  BY <1>0 DEF Usual, Rare
<1>3. ASSUME NEW t \in Thread, NEW s \in Session, Environment(t, s)
      PROVE  HistoryOK'
  <2>1. quiet' = [quiet EXCEPT ![s] = "no"]
    BY <1>3, EnvironmentShape
  <2>2. Usual \/ Rare
    BY <1>3 DEF Environment, QueuePrompt, SendNow, RollBack, CloseGate, TurnStarts,
                TurnEnds, TurnFails, UnseenTurnEnds, Released, SetMode, Verdict
  <2> QED BY <1>0, <1>1, <1>2, <2>1, <2>2
<1>4. ASSUME NEW t \in Thread, Observe(t) \/ StopOnError(t)
      PROVE  HistoryOK'
  <2>1. UNCHANGED rare /\ (UNCHANGED quiet \/ \E s : quiet' = [quiet EXCEPT ![s] = "no"])
    BY <1>4 DEF Observe, StopOnError
  <2> QED BY <1>0, <1>1, <2>1
<1>5. ASSUME NEW s \in Session, Unannounced(s)
      PROVE  HistoryOK'
  <2>1. Usual \/ Rare
    BY <1>5 DEF Unannounced, GateExpires, UnseenTurn, QuietEcho, HeldUp
  <2>2. UNCHANGED quiet \/ \E w \in {"echo", "gate"} : quiet' = [quiet EXCEPT ![s] = w]
    BY <1>5 DEF Unannounced, GateExpires, UnseenTurn, QuietEcho, HeldUp
  <2> QED BY <1>0, <1>1, <1>2, <2>1, <2>2
<1>6. ASSUME NEW s \in Session, Time(s)
      PROVE  HistoryOK'
  BY <1>0, <1>1, <1>6 DEF Time, HoldEnds, DeferralDue
<1>7. ASSUME NEW p \in BOOLEAN, SetGlobalPause(p)
      PROVE  HistoryOK'
  BY <1>0, <1>1, <1>2, <1>7 DEF SetGlobalPause
<1>8. CASE Worker \/ RequestHeldAdvances \/ StopNotifies \/ StopStores
  <2>1. ASSUME NEW s, ObservedHere(s)
        PROVE  quiet' \in [Session -> {"no", "echo", "gate"}]
    BY <1>0, <2>1 DEF ObservedHere
  <2>2. ASSUME NEW s \in Session, SweepOne(s)
        PROVE  HistoryOK'
    BY <1>0, <1>1, <2>1, <2>2 DEF SweepOne
  <2>3. CASE Mark \/ Submit
    BY <1>0, <1>1, <2>1, <2>3 DEF Mark, Submit
  <2>4. CASE Top \/ Block \/ Wake \/ TimeOut \/ Decide \/ SweepStarts \/ SweepEnds
             \/ RequestHeldAdvances \/ StopNotifies
    BY <1>0, <1>1, <2>4 DEF Top, Block, Wake, TimeOut, Decide, SweepStarts, SweepEnds,
                            RequestHeldAdvances, StopNotifies
  <2>5. CASE StopStores
    BY <1>0, <1>1, <1>2, <2>5 DEF StopStores
  <2> QED BY <1>8, <2>2, <2>3, <2>4, <2>5 DEF Worker
<1>9. CASE UNCHANGED vars
  BY <1>0, <1>1, <1>9 DEF vars
<1> QED BY <1>3, <1>4, <1>5, <1>6, <1>7, <1>8, <1>9 DEF Next, Stopping

(* Every step keeps the types.                                             *)
LEMMA TypeStep ==
    ASSUME Typed, [Next]_vars
    PROVE  Typed'
<1>0. HistoryOK'
  BY HistoryStep
<1> USE <1>0
<1>1. ASSUME NEW t \in Thread, NEW s \in Session, Environment(t, s)
      PROVE  Typed'
  <2>1. /\ plan' \in [Session -> Record]
        /\ \A r \in Session : r # s => plan'[r] = plan[r]
        /\ Open(plan'[s]) <= MaxWork
        /\ UNCHANGED <<requestVars, pauseVars, worker, stopVars>>
    BY <1>1, EnvironmentShape
  <2>2. note' \in [Thread -> Notification \cup {None}]
    <3>1. PICK n \in Notification : note' = [note EXCEPT ![t] = n]
      BY <1>1, EnvironmentShape
    <3> QED BY <3>1 DEF Typed, TypeOK
  <2>3. OpenBound'
    BY <2>1 DEF Typed, OpenBound
  <2> QED BY <2>1, <2>2, <2>3
       DEF Typed, TypeOK, Holding, requestVars, pauseVars, stopVars
<1>2. ASSUME NEW t \in Thread, Observe(t)
      PROVE  Typed'
  <2>1. note[t] \in Notification /\ note[t].s \in Session
    BY <1>2 DEF Typed, TypeOK, Observe, Notification
  <2>2. queue' \in Seq(Session) /\ Distinct(queue')
    BY <1>2, <2>1, EnqueueFacts DEF Typed, TypeOK, Observe
  <2>3. watch' \subseteq Session /\ note' \in [Thread -> Notification \cup {None}]
    BY <1>2, <2>1 DEF Typed, TypeOK, Observe
  <2>4. worker' = worker \/ (worker.pc = "asleep" /\ worker' = [worker EXCEPT !.pc = "woken"])
    BY <1>2 DEF Observe, Woken
  <2> QED BY <1>2, <2>2, <2>3, <2>4
       DEF Typed, TypeOK, WorkerState, OpenBound, Holding, Observe, pauseVars, stopVars
<1>3. ASSUME NEW s \in Session, Unannounced(s) \/ HoldEnds(s)
      PROVE  Typed'
  <2>1. /\ plan' \in [Session -> Record] /\ OpenBound'
        /\ UNCHANGED <<note, requestVars, pauseVars, worker, stopVars>>
    BY <1>3, UnannouncedShape
  <2> QED BY <2>1 DEF Typed, TypeOK, Holding, requestVars, pauseVars, stopVars
<1>20. ASSUME NEW t \in Thread, StopOnError(t)
      PROVE  Typed'
  <2> DEFINE s == note[t].s
             x == [plan[s] EXCEPT !.auto = FALSE]
  <2>1. note[t] \in Notification /\ s \in Session /\ note[t].seam \in BOOLEAN
    BY <1>20 DEF Typed, TypeOK, StopOnError, Notification
  <2>a. plan[s] \in Record /\ Open(plan[s]) <= MaxWork
    BY <2>1 DEF Typed, TypeOK, OpenBound
  <2>2. x \in Record /\ Open(x) <= MaxWork
    <3> HIDE DEF s
    <3> QED BY <2>a DEF Record, Open
  <2>3. Become(s, x) /\ note' = [note EXCEPT ![t] = Snapshot(s, note[t].seam)]
    BY <1>20 DEF StopOnError
  <2> HIDE DEF x, s
  <2>4. plan' \in [Session -> Record] /\ OpenBound' /\ plan'[s] \in Record
    BY <2>1, <2>2, <2>3, BecomeFacts
  <2>5. note' \in [Thread -> Notification \cup {None}]
    BY <2>1, <2>3, <2>4, SnapshotFacts DEF Typed, TypeOK
  <2> QED BY <1>20, <2>4, <2>5
       DEF StopOnError, Typed, TypeOK, Holding, requestVars, pauseVars, stopVars
<1>4. ASSUME NEW s \in Session, DeferralDue(s)
      PROVE  Typed'
  BY <1>4 DEF DeferralDue, Typed, TypeOK, OpenBound, Holding, pauseVars, stopVars
<1>5. ASSUME NEW p \in BOOLEAN, SetGlobalPause(p)
      PROVE  Typed'
  BY <1>5 DEF SetGlobalPause, Typed, TypeOK, OpenBound, Holding, requestVars, stopVars
<1>6. CASE RequestHeldAdvances
  <2>1. queue' \in Seq(Session) /\ Distinct(queue')
    <3> DEFINE S == {s \in Session : WantsIdleStart(plan[s]) /\ ~Queued(s)}
    <3>1. PICK order \in Orders(S) : queue' = queue \o order
      BY <1>6 DEF RequestHeldAdvances
    <3>2. S \in SUBSET Session /\ \A s \in S : ~Has(queue, s)
      BY DEF Queued
    <3>3. queue \in Seq(Session) /\ Distinct(queue)
      BY DEF Typed, TypeOK
    <3> HIDE DEF S
    <3> QED BY <3>1, <3>2, <3>3, OrdersFacts
  <2>2. worker' = worker \/ (worker.pc = "asleep" /\ worker' = [worker EXCEPT !.pc = "woken"])
    BY <1>6 DEF RequestHeldAdvances, Woken
  <2> QED BY <1>6, <2>1, <2>2
       DEF RequestHeldAdvances, Typed, TypeOK, WorkerState, OpenBound, Holding, stopVars
<1>7. CASE Top
  <2>1. PICK q \in Promoted(queue) :
           IF q # <<>> \/ ~running
           THEN Take(q)
           ELSE /\ worker' = [worker EXCEPT !.pc = "blocking", !.kind =
                      IF watch # {} THEN "poll"
                      ELSE IF \E s \in Session : deferred[s] = "waiting" THEN "due"
                      ELSE "idle"]
                /\ queue' = q
    BY <1>7 DEF Top
  <2>2. q \in Seq(Session) /\ Distinct(q)
    <3> DEFINE S == {s \in Session : deferred[s] = "due" /\ ~Queued(s)}
    <3>1. PICK order \in Orders(S) : q = queue \o order
      BY DEF Promoted
    <3>2. S \in SUBSET Session /\ \A s \in S : ~Has(queue, s)
      BY DEF Queued
    <3>3. queue \in Seq(Session) /\ Distinct(queue)
      BY DEF Typed, TypeOK
    <3> HIDE DEF S
    <3> QED BY <3>1, <3>2, <3>3, OrdersFacts
  <2>3. deferred' \in [Session -> {"none", "waiting", "due"}]
    BY <1>7 DEF Top, Typed, TypeOK
  <2>4. UNCHANGED <<plan, note, watch, pauseVars, stopVars>>
    BY <1>7 DEF Top
  <2>5. CASE Take(q)
    BY <2>2, <2>3, <2>4, <2>5, TakeFacts
    DEF Typed, TypeOK, WorkerState, OpenBound, Holding, pauseVars, stopVars
  <2>6. CASE ~Take(q)
    <3>0. PICK k \in {"idle", "poll", "due"} :
             worker' = [worker EXCEPT !.pc = "blocking", !.kind = k]
      BY <2>1, <2>6
    <3>1. queue' = q /\ worker'.pc = "blocking" /\ worker' \in WorkerState
      BY <2>1, <2>6, <3>0 DEF Typed, TypeOK, WorkerState
    <3> QED BY <2>2, <2>3, <2>4, <3>1
         DEF Typed, TypeOK, OpenBound, Holding, pauseVars, stopVars
  <2> QED BY <2>5, <2>6
<1>8. CASE Block
  BY <1>8 DEF Block, Typed, TypeOK, WorkerState, OpenBound, Holding, requestVars, pauseVars, stopVars
<1>9. CASE Wake
  <2>1. CASE Take(queue)
    <3>1. queue \in Seq(Session) /\ Distinct(queue)
      BY DEF Typed, TypeOK
    <3> QED BY <1>9, <2>1, <3>1, TakeFacts
         DEF Wake, Typed, TypeOK, WorkerState, OpenBound, Holding, pauseVars, stopVars
  <2>2. CASE worker' = [worker EXCEPT !.pc = "blocking"] /\ UNCHANGED queue
    BY <1>9, <2>2 DEF Wake, Typed, TypeOK, WorkerState, OpenBound, Holding, pauseVars, stopVars
  <2> QED BY <1>9, <2>1, <2>2 DEF Wake
<1>10. CASE TimeOut
  <2>1. queue \in Seq(Session) /\ Distinct(queue) /\ Take(queue)
    BY <1>10 DEF TimeOut, Typed, TypeOK, WorkerState
  <2> QED BY <1>10, <2>1, TakeFacts
       DEF TimeOut, Typed, TypeOK, WorkerState, OpenBound, Holding, pauseVars, stopVars
<1>11. CASE Decide
  <2>1. worker' = [worker EXCEPT !.pc = "decided"]
        \/ worker' = [worker EXCEPT !.pc = "sweep", !.s = None]
    BY <1>11 DEF Decide
  <2>2. worker.s \in Session
    BY <1>11 DEF Decide, Typed, Holding
  <2>3. deferred' \in [Session -> {"none", "waiting", "due"}]
    BY <1>11 DEF Decide, Typed, TypeOK
  <2>4. worker' \in WorkerState /\ Holding'
    BY <2>1, <2>2 DEF Typed, TypeOK, WorkerState, Holding
  <2> QED BY <1>11, <2>3, <2>4 DEF Decide, Typed, TypeOK, OpenBound, pauseVars, stopVars
<1>12. CASE Mark
  <2>1. worker.s \in Session
    BY <1>12 DEF Mark, Typed, Holding
  <2>2. plan' \in [Session -> Record] /\ OpenBound'
    <3> DEFINE r == plan[worker.s]
    <3>0. r \in Record /\ Open(r) <= MaxWork
      BY <2>1 DEF Typed, TypeOK, OpenBound
    <3>1. CASE r.pending > 0 /\ ~r.sent
      <4>1. PICK x \in Heads([r EXCEPT !.pending = @ - 1, !.sent = TRUE, !.hold = TRUE]) :
               Become(worker.s, Stopped(x))
        BY <1>12, <3>1 DEF Mark
      <4>2. Stopped(x) \in Record /\ Open(Stopped(x)) <= MaxWork
        BY <3>0, <3>1, MarkRecord
      <4> QED BY <2>1, <4>1, <4>2, BecomeFacts
    <3>2. CASE ~(r.pending > 0 /\ ~r.sent)
      <4>1. Become(worker.s, Stopped(r))
        BY <1>12, <3>2 DEF Mark
      <4>2. Stopped(r) \in Record /\ Open(Stopped(r)) <= MaxWork
        BY <3>0, StoppedFacts
      <4> QED BY <2>1, <4>1, <4>2, BecomeFacts
    <3> QED BY <3>1, <3>2
  <2>3. queue' \in Seq(Session) /\ Distinct(queue') /\ watch' \in SUBSET Session
    BY <1>12, <2>1, ObservedFacts DEF Mark
  <2>4. worker' = [worker EXCEPT !.pc = "marked"]
        \/ worker' = [worker EXCEPT !.pc = "sweep", !.s = None]
    BY <1>12 DEF Mark
  <2>5. worker' \in WorkerState /\ Holding'
    BY <2>1, <2>4 DEF Typed, TypeOK, WorkerState, Holding
  <2> QED BY <1>12, <2>2, <2>3, <2>5 DEF Mark, Typed, TypeOK, pauseVars, stopVars
<1>13. CASE Submit
  <2>1. worker.s \in Session /\ plan[worker.s] \in Record /\ Open(plan[worker.s]) <= MaxWork
    BY <1>13 DEF Submit, Typed, TypeOK, OpenBound, Holding
  <2>2. plan' \in [Session -> Record] /\ OpenBound'
    <3>1. CASE ~plan[worker.s].busy
      <4> DEFINE r == [plan[worker.s] EXCEPT !.busy = TRUE]
      <4>1. r \in Record /\ Open(r) = Open(plan[worker.s])
        BY <2>1 DEF Record, Open
      <4>2. Become(worker.s, r)
        BY <1>13, <3>1 DEF Submit
      <4> HIDE DEF r
      <4> QED BY <2>1, <4>1, <4>2, BecomeFacts
    <3>2. CASE plan[worker.s].busy /\ plan[worker.s].sent
      <4>1. PICK r \in Back(plan[worker.s]) : Become(worker.s, Stopped(r))
        BY <1>13, <3>2 DEF Submit
      <4>2. Stopped(r) \in Record /\ Open(Stopped(r)) <= MaxWork
        BY <2>1, <3>2, BackRecord
      <4> QED BY <2>1, <4>1, <4>2, BecomeFacts
    <3>3. CASE plan[worker.s].busy /\ ~plan[worker.s].sent
      <4>1. Become(worker.s, Stopped(plan[worker.s]))
        BY <1>13, <3>3 DEF Submit
      <4>2. Stopped(plan[worker.s]) \in Record /\ Open(Stopped(plan[worker.s])) <= MaxWork
        BY <2>1, StoppedFacts
      <4> QED BY <2>1, <4>1, <4>2, BecomeFacts
    <3> QED BY <3>1, <3>2, <3>3
  <2>3. queue' \in Seq(Session) /\ Distinct(queue') /\ watch' \in SUBSET Session
    <3>1. CASE ObservedHere(worker.s)
      BY <2>1, <3>1, ObservedFacts
    <3>2. CASE UNCHANGED <<queue, watch>>
      BY <3>2 DEF Typed, TypeOK
    <3> QED BY <1>13, <3>1, <3>2 DEF Submit
  <2>4. worker' = [worker EXCEPT !.pc = "sweep", !.s = None]
    BY <1>13 DEF Submit
  <2>5. worker' \in WorkerState /\ Holding'
    BY <2>4 DEF Typed, TypeOK, WorkerState, Holding
  <2> QED BY <1>13, <2>2, <2>3, <2>5 DEF Submit, Typed, TypeOK, pauseVars, stopVars
<1>14. CASE SweepStarts
  <2>1. worker' = Idle \/ worker' = [worker EXCEPT !.pc = "sweeping", !.ids = watch, !.done = {}]
    BY <1>14 DEF SweepStarts
  <2> QED BY <1>14, <2>1
       DEF SweepStarts, Idle, Typed, TypeOK, WorkerState, OpenBound, Holding, requestVars, pauseVars, stopVars
<1>15. ASSUME NEW s \in Session, SweepOne(s)
      PROVE  Typed'
  <2>1. plan[s] \in Record /\ Open(plan[s]) <= MaxWork
    BY DEF Typed, TypeOK, OpenBound
  <2>2. plan' \in [Session -> Record] /\ OpenBound'
    <3>1. CASE UNCHANGED plan
      BY <3>1 DEF Typed, TypeOK, OpenBound
    <3>2. CASE Become(s, Failed(plan[s]))
      BY <2>1, <3>2, FailedFacts, BecomeFacts
    <3> QED BY <1>15, <3>1, <3>2 DEF SweepOne
  <2>3. queue' \in Seq(Session) /\ Distinct(queue') /\ watch' \in SUBSET Session
    <3>1. CASE ObservedHere(s)
      BY <3>1, ObservedFacts
    <3>2. CASE UNCHANGED <<queue, watch>>
      BY <3>2 DEF Typed, TypeOK
    <3> QED BY <1>15, <3>1, <3>2 DEF SweepOne
  <2>4. worker' = [worker EXCEPT !.ids = @ \ {s}]
        \/ worker' = [worker EXCEPT !.ids = @ \ {s}, !.done = @ \cup {s}]
    BY <1>15 DEF SweepOne
  <2>5. worker.pc = "sweeping"
    BY <1>15 DEF SweepOne
  <2>6. PICK ids \in SUBSET Session, done \in SUBSET Session :
           worker' = [worker EXCEPT !.ids = ids, !.done = done]
    <3>1. worker = [worker EXCEPT !.done = worker.done] /\ worker.done \in SUBSET Session
          /\ worker.ids \in SUBSET Session
      BY DEF Typed, TypeOK, WorkerState
    <3>2. CASE worker' = [worker EXCEPT !.ids = @ \ {s}]
      <4>1. worker' = [worker EXCEPT !.ids = worker.ids \ {s}, !.done = worker.done]
        BY <3>1, <3>2 DEF Typed, TypeOK, WorkerState
      <4> QED BY <3>1, <4>1
    <3>3. CASE worker' = [worker EXCEPT !.ids = @ \ {s}, !.done = @ \cup {s}]
      <4>1. worker' = [worker EXCEPT !.ids = worker.ids \ {s}, !.done = worker.done \cup {s}]
        BY <3>3
      <4>2. worker.ids \ {s} \in SUBSET Session /\ worker.done \cup {s} \in SUBSET Session
        BY <3>1
      <4> QED BY <4>1, <4>2
    <3> QED BY <2>4, <3>2, <3>3
  <2>7. worker' \in WorkerState /\ Holding'
    BY <2>5, <2>6 DEF Typed, TypeOK, WorkerState, Holding
  <2> QED BY <1>15, <2>2, <2>3, <2>7 DEF SweepOne, Typed, TypeOK, pauseVars, stopVars
<1>16. CASE SweepEnds
  BY <1>16 DEF SweepEnds, Idle, Typed, TypeOK, WorkerState, OpenBound, Holding, pauseVars, stopVars
<1>17. CASE StopStores
  BY <1>17 DEF StopStores, Typed, TypeOK, OpenBound, Holding, requestVars, pauseVars
<1>18. CASE StopNotifies
  <2>1. worker' = worker \/ (worker.pc = "asleep" /\ worker' = [worker EXCEPT !.pc = "woken"])
    BY <1>18 DEF StopNotifies, Woken
  <2> QED BY <1>18, <2>1
       DEF StopNotifies, Typed, TypeOK, WorkerState, OpenBound, Holding, requestVars, pauseVars
<1>19. CASE UNCHANGED vars
  BY <1>19 DEF vars, Typed, TypeOK, OpenBound, Holding
<1> QED BY <1>1, <1>2, <1>3, <1>4, <1>5, <1>6, <1>7, <1>8, <1>9, <1>10, <1>11, <1>12,
           <1>13, <1>14, <1>15, <1>16, <1>17, <1>18, <1>19, <1>20
     DEF Next, Time, Worker, Stopping

-----------------------------------------------------------------------------
(* A wait is chosen with nothing to do, and whoever brings something while *)
(* it lasts signals it.                                                    *)
LEMMA WaitStep ==
    ASSUME Typed, Waits, [Next]_vars
    PROVE  Waits'
<1>1. ASSUME NEW t \in Thread, NEW s \in Session, Environment(t, s)
      PROVE  Waits'
  <2>1. UNCHANGED <<requestVars, worker, stopVars>>
    BY <1>1, EnvironmentShape
  <2> QED BY <2>1 DEF Waits, requestVars, stopVars
<1>2. ASSUME NEW t \in Thread, Observe(t)
      PROVE  Waits'
  <2>1. CASE watch' # watch \/ queue' # queue
    <3>1. worker' = Woken /\ worker.pc # "blocking"
      BY <1>2, <2>1 DEF Observe, MutexFree
    <3>2. worker'.pc \notin {"blocking", "asleep"}
      BY <3>1 DEF Woken, Typed, TypeOK, WorkerState
    <3> QED BY <3>2 DEF Waits
  <2>2. CASE ~(watch' # watch \/ queue' # queue)
    <3>1. UNCHANGED <<worker, queue, watch, deferred, running>>
      BY <1>2, <2>2 DEF Observe, stopVars
    <3> QED BY <3>1 DEF Waits
  <2> QED BY <2>1, <2>2
<1>3. ASSUME NEW s \in Session, DeferralDue(s)
      PROVE  Waits'
  <2>1. deferred[s] # "none" /\ UNCHANGED <<worker, queue, watch, running>>
    BY <1>3 DEF DeferralDue, stopVars
  <2> QED BY <2>1 DEF Waits
<1>4. CASE RequestHeldAdvances
  <2>1. CASE queue' # queue
    <3>1. worker' = Woken /\ worker.pc # "blocking"
      BY <1>4, <2>1 DEF RequestHeldAdvances, MutexFree
    <3>2. worker'.pc \notin {"blocking", "asleep"}
      BY <3>1 DEF Woken, Typed, TypeOK, WorkerState
    <3> QED BY <3>2 DEF Waits
  <2>2. CASE queue' = queue
    BY <1>4, <2>2 DEF RequestHeldAdvances, stopVars, Waits
  <2> QED BY <2>1, <2>2
<1>5. CASE Top
  <2>1. PICK q \in Promoted(queue) :
           IF q # <<>> \/ ~running
           THEN Take(q)
           ELSE /\ worker' = [worker EXCEPT !.pc = "blocking", !.kind =
                      IF watch # {} THEN "poll"
                      ELSE IF \E s \in Session : deferred[s] = "waiting" THEN "due"
                      ELSE "idle"]
                /\ queue' = q
    BY <1>5 DEF Top
  <2>2. deferred' = [s \in Session |-> IF deferred[s] = "due" THEN "none" ELSE deferred[s]]
        /\ watch' = watch /\ running' = running
    BY <1>5 DEF Top, stopVars
  <2>3. CASE q # <<>> \/ ~running
    <3>1. worker'.pc \in {"process", "sweep", "ended"}
      BY <2>1, <2>3 DEF Take, Idle
    <3> QED BY <3>1 DEF Waits
  <2>4. CASE q = <<>> /\ running
    <3>1. worker'.kind = "idle" => watch = {} /\ ~\E s \in Session : deferred[s] = "waiting"
      BY <2>1, <2>4 DEF Typed, TypeOK, WorkerState
    <3>2. worker'.kind = "idle" => \A s \in Session : deferred'[s] = "none"
      BY <2>2, <3>1 DEF Typed, TypeOK
    <3> QED BY <2>1, <2>2, <2>4, <3>1, <3>2 DEF Waits
  <2> QED BY <2>3, <2>4
<1>6. CASE Block
  <2>1. worker.pc = "blocking" /\ worker'.kind = worker.kind
        /\ UNCHANGED <<queue, watch, deferred, running>>
    BY <1>6 DEF Block, requestVars, stopVars, Typed, TypeOK, WorkerState
  <2> QED BY <2>1 DEF Waits
<1>7. CASE Wake
  <2>1. CASE Awake(worker.kind)
    <3>1. worker'.pc \in {"process", "sweep", "ended"}
      BY <1>7, <2>1 DEF Wake, Take, Idle
    <3> QED BY <3>1 DEF Waits
  <2>2. CASE ~Awake(worker.kind)
    <3>1. worker'.kind = worker.kind /\ UNCHANGED <<queue, watch, deferred, running>>
      BY <1>7, <2>2 DEF Wake, stopVars, Typed, TypeOK, WorkerState
    <3> QED BY <2>2, <3>1 DEF Waits, Awake
  <2> QED BY <2>1, <2>2
<1>8. CASE TimeOut
  <2>1. worker'.pc \in {"process", "sweep", "ended"}
    BY <1>8 DEF TimeOut, Take, Idle
  <2> QED BY <2>1 DEF Waits
<1>9. CASE Decide \/ Mark \/ Submit \/ SweepStarts \/ SweepEnds \/ \E s \in Session : SweepOne(s)
  <2>0. worker \in WorkerState
    BY DEF Typed, TypeOK
  <2>1. CASE Decide \/ Mark \/ Submit
    <3>0. PICK u \in {"decided", "marked", "sweep"} :
             \/ worker' = [worker EXCEPT !.pc = u]
             \/ worker' = [worker EXCEPT !.pc = u, !.s = None]
      <4>1. CASE Decide
        BY <4>1, Zenon DEF Decide
      <4>2. CASE Mark
        BY <4>2, Zenon DEF Mark
      <4>3. CASE Submit
        BY <4>3, Zenon DEF Submit
      <4> QED BY <2>1, <4>1, <4>2, <4>3
    <3>1. worker'.pc = u
      <4>1. CASE worker' = [worker EXCEPT !.pc = u]
        BY <2>0, <4>1 DEF WorkerState
      <4>2. CASE worker' = [worker EXCEPT !.pc = u, !.s = None]
        BY <2>0, <4>2 DEF WorkerState
      <4> QED BY <3>0, <4>1, <4>2
    <3> QED BY <3>1 DEF Waits
  <2>2. CASE SweepStarts \/ SweepEnds
    <3>1. worker'.pc \in {"top", "sweeping"}
      <4>1. \/ worker' = Idle
            \/ worker' = [worker EXCEPT !.pc = "sweeping", !.ids = watch, !.done = {}]
        <5>1. CASE SweepStarts
          BY <5>1, Zenon DEF SweepStarts
        <5>2. CASE SweepEnds
          BY <5>2, Zenon DEF SweepEnds
        <5> QED BY <2>2, <5>1, <5>2
      <4>2. Idle.pc = "top"
        BY DEF Idle
      <4>3. [worker EXCEPT !.pc = "sweeping", !.ids = watch, !.done = {}].pc = "sweeping"
        BY <2>0 DEF WorkerState
      <4> QED BY <4>1, <4>2, <4>3
    <3> QED BY <3>1 DEF Waits
  <2>3. ASSUME NEW s \in Session, SweepOne(s)
        PROVE  Waits'
    <3>1. worker'.pc = "sweeping"
      BY <2>0, <2>3 DEF SweepOne, WorkerState
    <3> QED BY <3>1 DEF Waits
  <2> QED BY <1>9, <2>1, <2>2, <2>3
<1>10. CASE StopStores
  BY <1>10 DEF StopStores, Waits
<1>11. CASE StopNotifies
  <2>1. UNCHANGED <<queue, watch, deferred, running>>
    BY <1>11 DEF StopNotifies, requestVars
  <2>2. worker' = worker \/ worker'.pc \notin {"blocking", "asleep"}
    BY <1>11 DEF StopNotifies, Woken, Typed, TypeOK, WorkerState
  <2> QED BY <2>1, <2>2 DEF Waits
<1>12. CASE UNCHANGED vars \/ \E p \in BOOLEAN : SetGlobalPause(p)
  BY <1>12 DEF vars, SetGlobalPause, requestVars, stopVars, Waits
<1>13. ASSUME NEW s \in Session, Unannounced(s) \/ HoldEnds(s)
       PROVE  Waits'
  <2>1. UNCHANGED <<requestVars, worker, stopVars>>
    BY <1>13, UnannouncedShape
  <2> QED BY <2>1 DEF Waits, requestVars, stopVars
<1>14. ASSUME NEW t \in Thread, StopOnError(t)
       PROVE  Waits'
  BY <1>14 DEF StopOnError, Waits, requestVars, stopVars
<1> QED BY <1>1, <1>2, <1>3, <1>4, <1>5, <1>6, <1>7, <1>8, <1>9, <1>10, <1>11, <1>12,
           <1>13, <1>14
     DEF Next, Time, Worker, Stopping

-----------------------------------------------------------------------------
(* A session that is ready wants an idle start, and nothing of it is in    *)
(* the way of a prompt.                                                    *)
LEMMA ReadyFacts ==
    ASSUME NEW s \in Session, Ready(s)
    PROVE  /\ WantsIdleStart(plan[s]) /\ MayAdvance(plan[s]) /\ running
           /\ ~plan[s].sent /\ ~plan[s].busy
BY DEF Ready, MayAdvance, WantsIdleStart

(* Every step leaves something on its way for a plan that can move on:     *)
(* what makes a session's prompt sendable notifies or asks, and what takes *)
(* a request looks at the session.                                         *)
LEMMA PlanStep ==
    ASSUME Typed, Typed', NoForgottenPlan, [Next]_vars
    PROVE  NoForgottenPlan'
<1> SUFFICES ASSUME NEW s \in Session, Ready(s)', quiet'[s] = "no"
             PROVE  Triggered(s)'
  BY DEF NoForgottenPlan
<1> DEFINE Same == /\ plan'[s] = plan[s] /\ paused' = paused /\ running' = running
                   /\ quiet'[s] = quiet[s]
<1>0. /\ worker \in WorkerState /\ note \in [Thread -> Notification \cup {None}]
      /\ queue \in Seq(Session) /\ Distinct(queue)
      /\ deferred \in [Session -> {"none", "waiting", "due"}]
  BY DEF Typed, TypeOK
<1>a. Same => Triggered(s)
  BY DEF NoForgottenPlan, Ready, MayAdvance
<1>c. /\ WantsIdleStart(plan'[s]) /\ MayAdvance(plan[s])' /\ running'
      /\ ~plan'[s].sent /\ ~plan'[s].busy
  BY DEF Ready, MayAdvance, WantsIdleStart
<1>b. ASSUME \A r \in Session : Has(queue, r) => Has(queue', r),
             deferred' = deferred, note' = note, resuming' = resuming, Triggered(s),
             worker.pc \in {"process", "decided"} /\ worker.s = s => Triggered(s)'
      PROVE  Triggered(s)'
  BY <1>b DEF Triggered, Queued
<1>1. ASSUME NEW t \in Thread, NEW r \in Session, Environment(t, r)
      PROVE  Triggered(s)'
  <2>1. PICK n \in Notification :
           /\ note' = [note EXCEPT ![t] = n]
           /\ n.s = r
           /\ n.wants = WantsIdleStart(plan'[r])
    BY <1>1, EnvironmentShape
  <2>2. /\ r # s => plan'[s] = plan[s] /\ quiet'[s] = quiet[s]
        /\ note[t] = None
        /\ UNCHANGED <<requestVars, pauseVars, worker, stopVars>>
    <3>1. /\ r # s => plan'[s] = plan[s]
          /\ quiet' = [quiet EXCEPT ![r] = "no"]
          /\ note[t] = None
          /\ UNCHANGED <<requestVars, pauseVars, worker, stopVars>>
      BY <1>1, EnvironmentShape
    <3>2. quiet \in [Session -> {"no", "echo", "gate"}]
      BY DEF Typed, TypeOK, HistoryOK
    <3> QED BY <3>1, <3>2
  <2>3. CASE r = s
    <3>1. note'[t] = n /\ n # None /\ n.s = s /\ n.wants
      BY <1>0, <1>c, <2>1, <2>3, NoneAssumption
    <3> QED BY <3>1 DEF Triggered
  <2>4. CASE r # s
    <3>1. Triggered(s)
      BY <1>a, <2>2, <2>4 DEF pauseVars, stopVars
    <3>2. ASSUME NEW u \in Thread, note[u] # None
          PROVE  note'[u] = note[u]
      BY <1>0, <2>1, <2>2, <3>2
    <3> QED BY <2>2, <3>1, <3>2 DEF Triggered, Queued, requestVars, pauseVars
  <2> QED BY <2>3, <2>4
<1>2. ASSUME NEW t \in Thread, Observe(t)
      PROVE  Triggered(s)'
  <2>1. Triggered(s) /\ deferred' = deferred /\ resuming' = resuming
    BY <1>a, <1>2 DEF Observe, pauseVars, stopVars
  <2>2. note[t] \in Notification /\ note[t].s \in Session
    BY <1>0, <1>2 DEF Observe, Notification
  <2>3. /\ \A r \in Session : Has(queue, r) => Has(queue', r)
        /\ note[t].wants \/ note[t].seam => Has(queue', note[t].s)
    BY <1>0, <1>2, <2>2, EnqueueFacts DEF Observe
  <2>4. \A u \in Thread : u # t => note'[u] = note[u]
    BY <1>0, <1>2 DEF Observe
  <2>5. worker.pc \in {"process", "decided"} => worker' = worker
    BY <1>2 DEF Observe, Woken
  <2> QED BY <2>1, <2>3, <2>4, <2>5 DEF Triggered, Queued
<1>3. ASSUME NEW r \in Session, Unannounced(r) \/ HoldEnds(r)
      PROVE  Triggered(s)'
  <2>1. UNCHANGED <<note, requestVars, pauseVars, worker, stopVars>>
    BY <1>3, UnannouncedShape
  <2>2. Ready(s) /\ quiet[s] = "no"
    <3>1. CASE r = s
      <4>1. /\ MayAdvance(plan'[s]) => MayAdvance(plan[s]) \/ quiet'[s] # "no"
            /\ AtRest(plan'[s]) = AtRest(plan[s])
            /\ quiet'[s] = "no" => quiet[s] = "no"
        BY <1>3, <3>1, UnannouncedShape
      <4>2. AtRest(plan'[s]) /\ MayAdvance(plan'[s])
        BY <2>1 DEF Ready, MayAdvance, pauseVars
      <4> QED BY <2>1, <4>1, <4>2 DEF Ready, stopVars
    <3>2. CASE r # s
      <4>1. plan'[s] = plan[s] /\ quiet'[s] = quiet[s]
        BY <1>3, <3>2, UnannouncedShape
      <4> QED BY <2>1, <4>1 DEF Ready, MayAdvance, pauseVars, stopVars
    <3> QED BY <3>1, <3>2
  <2> QED BY <2>1, <2>2 DEF NoForgottenPlan, Triggered, Queued, requestVars, pauseVars
<1>4. ASSUME NEW r \in Session, DeferralDue(r)
      PROVE  Triggered(s)'
  <2>1. Triggered(s) /\ UNCHANGED <<note, queue, resuming, worker>>
    BY <1>a, <1>4 DEF DeferralDue, pauseVars, stopVars
  <2>2. deferred[s] # "none" => deferred'[s] # "none"
    BY <1>0, <1>4 DEF DeferralDue
  <2> QED BY <2>1, <2>2 DEF Triggered, Queued
<1>5. ASSUME NEW p \in BOOLEAN, SetGlobalPause(p)
      PROVE  Triggered(s)'
  <2>1. CASE p
    <3>1. /\ UNCHANGED <<plan, note, queue, deferred, worker, running, quiet>>
          /\ resuming' = resuming /\ ~paused
      BY <1>5, <2>1 DEF SetGlobalPause, requestVars, stopVars, Typed, TypeOK
    <3>2. Ready(s) /\ quiet[s] = "no"
      BY <3>1 DEF Ready, MayAdvance
    <3> QED BY <3>1, <3>2 DEF NoForgottenPlan, Triggered, Queued
  <2>2. CASE ~p
    BY <1>5, <2>2 DEF SetGlobalPause, Triggered
  <2> QED BY <2>1, <2>2
<1>16. ASSUME NEW t \in Thread, StopOnError(t)
       PROVE  Triggered(s)'
  <2> DEFINE r == note[t].s
  <2>1. /\ note[t] \in Notification /\ r \in Session /\ note[t].seam \in BOOLEAN
        /\ plan \in [Session -> Record]
    BY <1>0, <1>16 DEF StopOnError, Notification, Typed, TypeOK
  <2>2. /\ note' = [note EXCEPT ![t] = Snapshot(r, note[t].seam)]
        /\ Become(r, [plan[r] EXCEPT !.auto = FALSE])
        /\ quiet' = [quiet EXCEPT ![r] = "no"]
        /\ UNCHANGED <<queue, deferred, worker, resuming, paused, running>>
    BY <1>16 DEF StopOnError, requestVars, pauseVars, stopVars
  <2> HIDE DEF r
  <2>3. CASE r = s
    <3>1. Snapshot(s, note[t].seam) \in Notification /\ Snapshot(s, note[t].seam).s = s
          /\ Snapshot(s, note[t].seam).wants = WantsIdleStart(plan'[s])
      <4>1. plan'[s] \in Record
        BY DEF Typed, TypeOK
      <4> QED BY <2>1, <4>1, SnapshotFacts
    <3>2. note'[t] = Snapshot(s, note[t].seam) /\ note'[t] # None
      BY <1>0, <2>2, <2>3, <3>1, NoneAssumption
    <3> QED BY <1>c, <3>1, <3>2 DEF Triggered
  <2>4. CASE r # s
    <3>1. Triggered(s)
      BY <1>a, <2>2, <2>4 DEF Become
    <3>2. ASSUME NEW u \in Thread, note[u] # None, note[u].s = s
          PROVE  note'[u] = note[u]
      BY <1>0, <2>2, <2>4, <3>2 DEF r
    <3> QED BY <2>2, <3>1, <3>2 DEF Triggered, Queued
  <2> QED BY <2>3, <2>4
<1>6. CASE RequestHeldAdvances
  <2> DEFINE S == {r \in Session : WantsIdleStart(plan[r]) /\ ~Queued(r)}
  <2>1. PICK order \in Orders(S) : queue' = queue \o order
    BY <1>6 DEF RequestHeldAdvances
  <2>2. S \in SUBSET Session /\ \A r \in S : ~Has(queue, r)
    BY DEF Queued
  <2>3. Has(queue, s) \/ s \in S
    BY <1>6, <1>c DEF RequestHeldAdvances, Queued
  <2> HIDE DEF S
  <2>4. Has(queue', s)
    BY <1>0, <2>1, <2>2, <2>3, OrdersFacts
  <2> QED BY <2>4 DEF Triggered, Queued
<1>7. CASE Top
  <2>1. PICK q \in Promoted(queue) :
           IF q # <<>> \/ ~running
           THEN Take(q)
           ELSE /\ worker'.pc = "blocking"
                /\ queue' = q
    BY <1>0, <1>7 DEF Top, WorkerState
  <2>2. /\ q \in Seq(Session) /\ Distinct(q)
        /\ Has(queue, s) \/ deferred[s] = "due" => Has(q, s)
    <3> DEFINE S == {r \in Session : deferred[r] = "due" /\ ~Queued(r)}
    <3>1. PICK order \in Orders(S) : q = queue \o order
      BY DEF Promoted
    <3>2. S \in SUBSET Session /\ \A r \in S : ~Has(queue, r)
      BY DEF Queued
    <3>3. deferred[s] = "due" => Has(queue, s) \/ s \in S
      BY DEF Queued
    <3> HIDE DEF S
    <3> QED BY <1>0, <3>1, <3>2, <3>3, OrdersFacts
  <2>3. Triggered(s) /\ UNCHANGED <<note, resuming>> /\ worker.pc = "top"
    BY <1>a, <1>7 DEF Top, pauseVars, stopVars
  <2>4. deferred[s] = "waiting" => deferred'[s] = "waiting"
    BY <1>7 DEF Top
  <2>5. Has(q, s) => Has(queue', s) \/ (worker'.pc = "process" /\ worker'.s = s)
    BY <2>1, <2>2, TakeFacts
  <2> QED BY <1>0, <2>2, <2>3, <2>4, <2>5 DEF Triggered, Queued
<1>8. CASE Block \/ SweepStarts \/ SweepEnds \/ StopNotifies
  <2>1. UNCHANGED <<queue, deferred, note, resuming>> /\ Same
    BY <1>8 DEF Block, SweepStarts, SweepEnds, StopNotifies, requestVars, pauseVars, stopVars
  <2>2. worker.pc \in {"process", "decided"} => worker' = worker
    BY <1>8 DEF Block, SweepStarts, SweepEnds, StopNotifies, Woken
  <2> QED BY <1>a, <2>1, <2>2 DEF Triggered, Queued
<1>9. CASE Wake \/ TimeOut
  <2>1. UNCHANGED <<deferred, note, resuming>> /\ Same /\ worker.pc \in {"woken", "asleep"}
    BY <1>9 DEF Wake, TimeOut, pauseVars, stopVars
  <2>2. CASE Take(queue)
    <3>1. Has(queue, s) => Has(queue', s) \/ (worker'.pc = "process" /\ worker'.s = s)
      BY <1>0, <2>2, TakeFacts
    <3> QED BY <1>a, <2>1, <3>1 DEF Triggered, Queued
  <2>3. CASE UNCHANGED queue
    BY <1>a, <2>1, <2>3 DEF Triggered, Queued
  <2> QED BY <1>9, <2>2, <2>3 DEF Wake, TimeOut
<1>10. CASE Decide
  <2>1. UNCHANGED <<queue, note, resuming>> /\ Same
    BY <1>10 DEF Decide, pauseVars, stopVars
  <2>2. deferred[s] # "none" => deferred'[s] # "none"
    BY <1>0, <1>10 DEF Decide
  <2>3. CASE worker.s = s
    <3>1. MayAdvance(plan[s])
      BY <1>c, <2>1 DEF MayAdvance
    <3>2. CASE plan[s].hold
      <4>1. deferred'[s] # "none"
        BY <1>0, <1>10, <2>3, <3>1, <3>2 DEF Decide
      <4> QED BY <4>1 DEF Triggered
    <3>3. CASE ~plan[s].hold
      <4>1. worker' = [worker EXCEPT !.pc = "decided"]
        BY <1>10, <2>3, <3>1, <3>3 DEF Decide
      <4>2. worker'.pc = "decided" /\ worker'.s = s
        BY <1>0, <2>3, <4>1 DEF WorkerState
      <4> QED BY <4>2 DEF Triggered
    <3> QED BY <3>2, <3>3
  <2>4. CASE worker.s # s
    BY <1>a, <2>1, <2>2, <2>4 DEF Triggered, Queued
  <2> QED BY <2>3, <2>4
<1>11. CASE Mark
  <2>1. worker.s \in Session /\ ObservedHere(worker.s)
        /\ UNCHANGED <<deferred, note, resuming, paused, running>>
    BY <1>11 DEF Mark, Typed, Holding, pauseVars, stopVars
  <2>2. CASE worker.s = s
    <3>1. Has(queue', s)
      BY <1>c, <2>1, <2>2, ObservedFacts
    <3> QED BY <3>1 DEF Triggered, Queued
  <2>3. CASE worker.s # s
    <3>1. Same
      BY <1>11, <2>1, <2>3 DEF Mark, Become, ObservedHere, Typed, TypeOK, HistoryOK
    <3>2. \A r \in Session : Has(queue, r) => Has(queue', r)
      BY <2>1, ObservedFacts
    <3> QED BY <1>a, <1>b, <2>1, <2>3, <3>1, <3>2
  <2> QED BY <2>2, <2>3
<1>12. CASE Submit
  <2>1. worker.s \in Session /\ worker.pc = "marked"
        /\ UNCHANGED <<deferred, note, resuming, paused, running>>
    BY <1>12 DEF Submit, Typed, Holding, pauseVars, stopVars
  <2>2. \A r \in Session : Has(queue, r) => Has(queue', r)
    BY <1>12, <2>1, ObservedFacts DEF Submit
  <2>3. CASE worker.s = s
    <3>1. plan[s] \in Record /\ plan \in [Session -> Record]
      BY DEF Typed, TypeOK
    <3>2. CASE ~plan[s].busy
      <4>1. plan'[s] = [plan[s] EXCEPT !.busy = TRUE]
        BY <1>12, <2>3, <3>1, <3>2 DEF Submit, Become
      <4> QED BY <1>c, <3>1, <4>1 DEF Record
    <3>3. CASE plan[s].busy
      <4>1. Has(queue', s)
        BY <1>12, <1>c, <2>1, <2>3, <3>3, ObservedFacts DEF Submit
      <4> QED BY <4>1 DEF Triggered, Queued
    <3> QED BY <3>2, <3>3
  <2>4. CASE worker.s # s
    <3>1. Same
      BY <1>12, <2>1, <2>4 DEF Submit, Become, ObservedHere, Typed, TypeOK, HistoryOK
    <3> QED BY <1>a, <1>b, <2>1, <2>2, <3>1
  <2> QED BY <2>3, <2>4
<1>13. ASSUME NEW r \in Session, SweepOne(r)
       PROVE  Triggered(s)'
  <2>1. worker.pc = "sweeping" /\ UNCHANGED <<deferred, note, resuming, paused, running>>
    BY <1>13 DEF SweepOne, pauseVars, stopVars
  <2>2. \A q \in Session : Has(queue, q) => Has(queue', q)
    BY <1>13, ObservedFacts DEF SweepOne
  <2>3. CASE ObservedHere(r) /\ r = s
    <3>1. Has(queue', s)
      BY <1>c, <2>3, ObservedFacts
    <3> QED BY <3>1 DEF Triggered, Queued
  <2>4. CASE ~(ObservedHere(r) /\ r = s)
    <3>1. Same
      BY <1>13, <2>1, <2>4 DEF SweepOne, Become, ObservedHere, Typed, TypeOK, HistoryOK
    <3> QED BY <1>a, <1>b, <2>1, <2>2, <3>1
  <2> QED BY <2>3, <2>4
<1>14. CASE StopStores
  BY <1>14, <1>c DEF StopStores
<1>15. CASE UNCHANGED vars
  BY <1>a, <1>15 DEF vars, Triggered, Queued
<1> QED BY <1>1, <1>2, <1>3, <1>4, <1>5, <1>6, <1>7, <1>8, <1>9, <1>10, <1>11, <1>12,
           <1>13, <1>14, <1>15, <1>16
     DEF Next, Time, Worker, Stopping

-----------------------------------------------------------------------------
(* The initial state.                                                      *)
LEMMA InitInv == Init => IInv
<1> SUFFICES ASSUME Init PROVE IInv
  OBVIOUS
<1>1. MaxWork \in Nat /\ MaxRare \in Nat /\ <<>> \in Seq(Session)
  BY WorkAssumption
<1>2. \A s \in Session : plan[s] \in Record /\ Open(plan[s]) = 0 /\ plan[s].pending = 0
  BY <1>1 DEF Init, Record, Open
<1>3. plan \in [Session -> Record] /\ OpenBound
  BY <1>1, <1>2 DEF Init, OpenBound
<1>4. Typed
  <2>1. queue \in Seq(Session) /\ Distinct(queue)
    BY <1>1 DEF Init, Distinct
  <2>2. worker \in WorkerState /\ Holding
    BY DEF Init, Idle, WorkerState, Holding
  <2>3. /\ note \in [Thread -> Notification \cup {None}]
        /\ watch \subseteq Session
        /\ deferred \in [Session -> {"none", "waiting", "due"}]
        /\ paused \in BOOLEAN /\ resuming \in BOOLEAN
        /\ running \in BOOLEAN /\ stop \in {"no", "stored", "joining"}
    BY DEF Init
  <2>4. HistoryOK
    <3>1. rare \in 0..MaxRare /\ quiet = [s \in Session |-> "no"]
      BY <1>1 DEF Init
    <3> QED BY <3>1 DEF HistoryOK
  <2> QED BY <1>3, <2>1, <2>2, <2>3, <2>4 DEF Typed, TypeOK
<1>5. Waits
  BY DEF Init, Waits, Idle
<1>6. NoForgottenPlan
  BY <1>1, <1>2 DEF NoForgottenPlan, Ready, MayAdvance
<1> QED BY <1>4, <1>5, <1>6 DEF IInv

LEMMA Invariance == Spec => []IInv
<1>1. IInv /\ [Next]_vars => IInv'
  BY TypeStep, WaitStep, PlanStep DEF IInv
<1> QED BY <1>1, InitInv, PTL DEF Spec

(* The requests, the notifications and the worker's own state are always   *)
(* of their types, and no session is queued twice.                         *)
THEOREM TypeCorrect == Spec => []TypeOK
<1>1. IInv => TypeOK
  BY DEF IInv, Typed
<1> QED BY <1>1, Invariance, PTL

(* A session at rest whose next prompt could be sent always has something  *)
(* on its way that makes the worker look at it: Scheduler::OnObserved,     *)
(* _requestHeldAdvances and _scheduleDeferredAdvance between them leave no *)
(* gap, however notifications overtake one another.  The only gap is what  *)
(* ends in silence: a sent prompt that the scanner finds in the transcript *)
(* (NoteExternalPrompt) and a leaked gate that expires, until something is *)
(* told of that session again.                                             *)
THEOREM NoPlanForgotten == Spec => []NoForgottenPlan
<1>1. IInv => NoForgottenPlan
  BY DEF IInv
<1> QED BY <1>1, Invariance, PTL

(* The worker is not in a wait while an advance is queued: every request   *)
(* comes before its look at the queue or signals it.                       *)
THEOREM NeverSleepsOnWork == Spec => []NoSleepOnWork
<1>1. IInv => NoSleepOnWork
  BY DEF IInv, Waits, NoSleepOnWork
<1> QED BY <1>1, Invariance, PTL
=============================================================================
