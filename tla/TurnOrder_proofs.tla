-------------------------- MODULE TurnOrder_proofs --------------------------
(***************************************************************************)
(* For any thresholds that keep the order the code gives them, and any       *)
(* bounds: the types, and that the advance seam fires at rest only, but for  *)
(* the exceptions that CompletionAtRest names.                              *)
(*                                                                         *)
(* The argument.  A stop that a hook reports is refused when it was fired    *)
(* before the newest prompt, or less than the floor after it; so a stop that *)
(* is on its way while turns go on must be old in this sense (OldStop), be   *)
(* about to be absorbed by the count of the prompts typed ahead, or be a     *)
(* duplicate.  A stop that the scanner synthesizes is judged on the tail,    *)
(* the heartbeat and the record, each of which may be late: TailKnown,       *)
(* HeartKnown, SubmitKnown and CompactionKnown say by how much.              *)
(***************************************************************************)
EXTENDS TurnOrder, TLAPS

\* The stops on their way, and the prompts that opened the newest chain of
\* turns; a chain goes on, or has died of an error with stops behind it.
Stops == {m \in net : m.event = "Stop"}
Prompts == {m \in net : m.event = "UserPromptSubmit" /\ m.id \in unseen}
InTurns == claude.phase \in {"start", "run", "ask"}
Chain == InTurns \/ (claude.phase = "rest" /\ tail.kind = "error")

\* The types, with what bounds the numbers in them.
Bounds ==
    /\ TypeOK
    /\ claude.ahead <= used.inputs /\ claude.since <= now
    /\ 1 <= tail.write /\ tail.write <= now
    /\ \A m \in net : 1 <= m.ts /\ (Opens(m) => m.id <= used.inputs)
    /\ \A i \in unseen : i <= used.inputs
    /\ pass.at # "between" => pass.verdict \in Verdicts /\ 1 <= pass.write /\ pass.write <= tail.write

\* What the transcript's last line is, and when a start is overdue.
TailKnown ==
    /\ claude.phase \in {"run", "ask"} => tail.kind \in {"prompt", "open"}
    /\ claude.phase \notin {"run", "ask"} => tail.kind # "open"
    /\ claude.phase = "start" /\ ~claude.batch => tail.write < claude.since /\ now < claude.since + Grace
    /\ claude.phase = "start" /\ claude.batch =>
          \/ tail.kind = "prompt"
          \/ tail.kind = "end" /\ tail.write = claude.since /\ now <= claude.since + Landing
    /\ claude.phase = "compact" => tail.write < claude.since

\* A heartbeat that is wrong is wrong since no longer than its lag.
HeartKnown ==
    /\ claude.phase = "compact" /\ heart.shown # "busy" => now <= claude.since + heart.lag
    /\ heart.shown = "idle" /\ (claude.phase \in {"run", "ask"} \/ (claude.phase = "start" /\ claude.batch)) =>
          now <= tail.write + heart.lag

\* No stop is stamped after the last line, a duplicate by its skew at most.
Slack(s) == IF s.id = 2 THEN Skew ELSE 0
StopTimes == \A s \in Stops : s.id \in 0..2 /\ s.ts <= tail.write + Slack(s)

\* During a compaction: only its own hook and old ones are on their way, and
\* the record has its window, unless an older stop closed it.
CompactionKnown ==
    claude.phase = "compact" =>
        /\ \A m \in net : /\ m.event \notin {"PostCompact", "CompactStart"}
                          /\ m.event = "PreCompact" => m.ts = claude.since
        /\ Prompts = {}
        /\ \A s \in Stops : s.id = 2
        /\ unseen = {} /\ ~behind /\ tail.kind # "error" => rec.compacting = claude.since

\* A prompt of a start that has not landed is at least as new as the start,
\* on its way or in the record.
SubmitKnown ==
    claude.phase = "start" /\ ~claude.batch =>
        /\ \A m \in Prompts : claude.since <= m.ts
        /\ unseen = {} => claude.since <= rec.lastPrompt

\* A stop that the record refuses, or will refuse when the prompts of the
\* chain have come.
OldStop(s) ==
    /\ s.ts < claude.since + Slack(s)
    /\ \A m \in Prompts : s.ts < m.ts + Slack(s)
    /\ unseen = {} => rec.lastPrompt # 0 /\ s.ts < rec.lastPrompt + Slack(s)

\* The chain was not opened by a compaction whose hook is on its way.
NoneOpens == \A m \in net : m.event = "PreCompact" => m.id \notin unseen

\* What a stop on its way is while the chain goes on.
StopOK(s) ==
    \/ OldStop(s)
    \/ claude.batch /\ s.id # 0
    \/ claude.phase = "rest" /\ s.id = 2
    \/ claude.phase = "start" /\ claude.batch /\ s.id = 0 /\ (behind \/ rec.queued > 0 \/ unseen # {})

\* The only stops on their way are second copies.
OnlySecond == \A s \in Stops : s.id = 2

\* Every stop on its way is known; of those that are not refused and not
\* duplicates there is one at most, and none once the batch has landed.
StopsKnown ==
    /\ Chain => \A s \in Stops : StopOK(s)
    /\ claude.phase \in {"run", "ask"} /\ claude.batch => OnlySecond
    /\ claude.phase = "start" /\ claude.batch =>
        \A s, t \in Stops : s.id # 2 /\ t.id # 2 => OldStop(s) \/ OldStop(t) \/ s = t
    /\ InTurns => NoneOpens
    /\ Chain => NoneOpens \/ OnlySecond

\* While turns go on, the record shows them or a prompt is on its way, and a
\* prompt typed ahead is counted or on its way.
Counted ==
    InTurns /\ ~behind =>
        /\ rec.state \notin InFlight =>
              /\ unseen # {}
              /\ claude.ahead > 0 \/ claude.batch => \E i, j \in unseen : i # j
        /\ claude.ahead > 0 => rec.queued > 0 \/ unseen # {}

\* What a verdict rests on between the judgement and the event: a stop, that
\* claude rests, or that the recheck will see the prompt that came.
PassKnown ==
    /\ pass.verdict = "stop" /\ pass.at # "between" =>
          \/ CleanRest \/ unseen # {} \/ behind \/ pass.late
          \/ pass.at = "judged" /\ NewerPromptNotYetInTranscript(pass.write)
    /\ pass.verdict = "stop" /\ pass.at = "judged" /\ ~CleanRest =>
          /\ pass.write < now
          /\ \A m \in Prompts : pass.write < m.ts /\ now < m.ts + Grace
    /\ pass.verdict = "error" /\ pass.at # "between" => tail.kind = "error" \/ tail.write = now
----------------------------------------------------------------------------
(***************************************************************************)
(* What a hook does to the record.                                          *)
(***************************************************************************)

\* The records, and the hooks that the fold accepts.
Records == [state: States, queued: 0..MaxQueued, lastPrompt: 0..MaxNow, compacting: 0..MaxNow]
AllEvents == Events \cup {"QuiescentStop", "ApiError", "Tool"}
IsHook(m) == m.event \in AllEvents /\ m.ts \in 1..now

\* The records that a stop leaves, when it takes the prompts typed ahead for
\* taken up and when it completes the turn.
TakenUp == [rec EXCEPT !.queued = 0, !.state = "Running"]
Completed == [rec EXCEPT !.state = "WaitingForInput"]

(* A stop leaves the record, takes the prompts typed ahead for taken up, or  *)
(* completes the turn.                                                      *)
LEMMA AfterStopIs ==
    ASSUME rec \in Records, NEW m
    PROVE  LET o == AfterStop(m)
           IN  \/ o.rec = rec /\ ~o.complete
               \/ ~Stale(m) /\ rec.queued > 0 /\ o.rec = TakenUp /\ ~o.complete
               \/ ~Stale(m) /\ rec.queued = 0 /\ ~TooFast(m) /\ o.rec = Completed /\ o.complete
<1>1. CASE Stale(m)
  <2>1. AfterStop(m) = [rec |-> rec, complete |-> FALSE]
    BY <1>1 DEF AfterStop
  <2> QED BY <2>1
<1>2. CASE ~Stale(m) /\ rec.queued > 0
  <2>1. AfterStop(m) = [rec |-> TakenUp, complete |-> FALSE]
    BY <1>2, Zenon DEF AfterStop, TakenUp
  <2> QED BY <1>2, <2>1
<1>3. CASE ~Stale(m) /\ ~(rec.queued > 0) /\ TooFast(m)
  <2>1. AfterStop(m) = [rec |-> rec, complete |-> FALSE]
    BY <1>3, Zenon DEF AfterStop
  <2> QED BY <2>1
<1>4. CASE ~Stale(m) /\ ~(rec.queued > 0) /\ ~TooFast(m)
  <2>1. AfterStop(m) = [rec |-> Completed, complete |-> TRUE]
    BY <1>4, Zenon DEF AfterStop, Completed
  <2>2. rec.queued = 0
    BY <1>4, ThresholdsAssumption DEF Records
  <2> QED BY <1>4, <2>1, <2>2
<1> QED BY <1>1, <1>2, <1>3, <1>4

(* What the fold makes of a record, by the kind of the hook: a stop, a       *)
(* prompt, another.                                                         *)
LEMMA OrderedIs ==
    ASSUME rec \in Records, NEW m, IsHook(m), now \in 0..MaxNow
    PROVE  LET o == Ordered(m)
           IN  /\ o.rec \in Records
               /\ m.event = "UserPromptSubmit" =>
                    /\ o.rec.state \in InFlight /\ ~o.complete
                    /\ rec.state \in InFlight => o.rec.queued > 0
                    /\ o.rec.lastPrompt >= m.ts /\ o.rec.lastPrompt >= rec.lastPrompt
               /\ m.event # "UserPromptSubmit" => o.rec.lastPrompt = rec.lastPrompt
               /\ m.event = "Stop" /\ o.rec.queued < rec.queued => ~Stale(m)
               /\ o.complete =>
                    \/ m.event = "QuiescentStop"
                    \/ m.event = "Stop" /\ ~Stale(m) /\ ~TooFast(m) /\ rec.queued = 0
               /\ m.event = "QuiescentStop" => o.complete
<1> USE ThresholdsAssumption
<1>1. CASE m.event = "Stop"
  <2>1. Ordered(m) = AfterStop(m)
    BY <1>1, Zenon DEF Ordered
  <2>2. TakenUp.lastPrompt = rec.lastPrompt /\ Completed.lastPrompt = rec.lastPrompt
        /\ Completed.queued = rec.queued
    BY DEF TakenUp, Completed, Records
  <2>3. TakenUp \in Records /\ Completed \in Records
    <3>1. ASSUME NEW s \in States, NEW q \in 0..MaxQueued
          PROVE  [rec EXCEPT !.queued = q, !.state = s] \in Records /\ [rec EXCEPT !.state = s] \in Records
      BY DEF Records
    <3>2. "Running" \in States /\ "WaitingForInput" \in States /\ 0 \in 0..MaxQueued
      BY DEF States
    <3> QED BY <3>1, <3>2, Zenon DEF TakenUp, Completed
  <2> QED BY <1>1, <2>1, <2>2, <2>3, AfterStopIs DEF Records
<1>2. CASE m.event = "UserPromptSubmit"
  <2>1. Ordered(m) = [rec |-> AfterPrompt(m), complete |-> FALSE]
    BY <1>2 DEF Ordered
  <2>2. /\ AfterPrompt(m) \in Records /\ AfterPrompt(m).state \in InFlight
        /\ rec.state \in InFlight => AfterPrompt(m).queued > 0
        /\ AfterPrompt(m).lastPrompt >= m.ts /\ AfterPrompt(m).lastPrompt >= rec.lastPrompt
    <3> DEFINE q == IF rec.state \in InFlight /\ rec.queued < MaxQueued THEN rec.queued + 1 ELSE rec.queued
               l == IF m.ts > rec.lastPrompt THEN m.ts ELSE rec.lastPrompt
               run == "Running"
    <3>2. /\ q \in 0..MaxQueued /\ l \in 0..MaxNow /\ l >= m.ts /\ l >= rec.lastPrompt
          /\ rec.state \in InFlight => q > 0
      BY DEF Records, IsHook
    <3>3. run \in States /\ run \in InFlight
      BY DEF States, InFlight
    <3>4. AfterPrompt(m) = [rec EXCEPT !.state = run, !.queued = q, !.lastPrompt = l]
      BY DEF AfterPrompt
    <3> HIDE DEF q, l, run
    <3> DEFINE r == [rec EXCEPT !.state = run, !.queued = q, !.lastPrompt = l]
    <3>5. r \in Records /\ r.state = run /\ r.queued = q /\ r.lastPrompt = l
      BY <3>2, <3>3 DEF Records
    <3> HIDE DEF r
    <3> QED BY <3>2, <3>3, <3>4, <3>5 DEF r
  <2>3. Ordered(m).rec = AfterPrompt(m) /\ ~Ordered(m).complete
    BY <2>1
  <2> QED BY <1>2, <2>2, <2>3
<1>3. CASE m.event \notin {"Stop", "UserPromptSubmit"}
  <2>1. Ordered(m) = Plain(m)
    BY <1>3, Zenon DEF Ordered
  <2>2. NextSessionState(rec.state, m.event) \in States
    BY <1>3 DEF NextSessionState, States, IsHook, AllEvents, Events, Records
  <2> DEFINE s == NextSessionState(rec.state, m.event)
             consumed == m.event = "PostCompact" /\ rec.queued > 0
             r == [rec EXCEPT !.state = IF consumed THEN "Running" ELSE s,
                              !.queued = IF consumed \/ m.event \in {"QuiescentStop", "ApiError"}
                                         THEN 0 ELSE @]
  <2>3. Plain(m) = [rec |-> r, complete |-> m.event = "QuiescentStop"]
    BY DEF Plain
  <2>4. r \in Records /\ r.lastPrompt = rec.lastPrompt
    <3> DEFINE t == IF consumed THEN "Running" ELSE s
               q == IF consumed \/ m.event \in {"QuiescentStop", "ApiError"} THEN 0 ELSE rec.queued
    <3>1. t \in States /\ q \in 0..MaxQueued
      BY <2>2 DEF States, Records
    <3>2. r = [rec EXCEPT !.state = t, !.queued = q]
      OBVIOUS
    <3> HIDE DEF t, q, r
    <3> QED BY <3>1, <3>2 DEF Records
  <2>5. Plain(m).rec = r /\ Plain(m).complete = (m.event = "QuiescentStop")
    <3> HIDE DEF r
    <3> QED BY <2>3
  <2> HIDE DEF r
  <2> QED BY <1>3, <2>1, <2>4, <2>5
<1> QED BY <1>1, <1>2, <1>3

\* The types of what a hook changes.
LEMMA RecIs == Bounds => rec \in Records /\ now \in 0..MaxNow /\ behind \in BOOLEAN /\ advance \in BOOLEAN
  BY DEF Bounds, TypeOK, Records

(* The same of the step: what a hook can do to turns that go on, unless it   *)
(* misleads the engine.                                                     *)
LEMMA HookIs ==
    ASSUME Bounds, NEW m, IsHook(m), OnHookEvent(m)
    PROVE  /\ rec' \in Records /\ behind' \in BOOLEAN /\ advance' \in BOOLEAN
           /\ rec'.lastPrompt >= rec.lastPrompt
           /\ m.event # "UserPromptSubmit" => rec'.lastPrompt = rec.lastPrompt
           /\ m.event = "UserPromptSubmit" => rec'.lastPrompt >= m.ts
           /\ rec'.compacting = CompactingAfter(m)
           /\ behind => behind'
           /\ m.event = "UserPromptSubmit" => rec'.state \in InFlight
           /\ m.event = "UserPromptSubmit" /\ rec.state \in InFlight => rec'.queued > 0
           /\ ~behind' /\ InTurns /\ rec.state \in InFlight => rec'.state \in InFlight
           /\ ~behind' /\ InTurns /\ rec'.queued < rec.queued =>
                 m.event = "Stop" /\ m.id # 2 /\ claude.ahead = 0
           /\ m.event = "Stop" /\ rec'.queued < rec.queued => ~Stale(m)
           /\ ~behind' /\ claude.phase = "compact" => m.event # "Stop"
           /\ ~CleanRest /\ ~behind' => m.event # "QuiescentStop"
           /\ advance' # advance =>
                 \/ m.event = "QuiescentStop"
                 \/ m.event = "Stop" /\ ~Stale(m) /\ ~TooFast(m) /\ rec.queued = 0
<1> USE ThresholdsAssumption
<1>1. CompactingAfter(m) \in 0..MaxNow
  BY RecIs DEF CompactingAfter, IsHook, AllEvents, Events, Records
<1> DEFINE o == Ordered(m)
<1>2. /\ rec' = [o.rec EXCEPT !.compacting = CompactingAfter(m)]
      /\ behind' = (behind \/ (o.complete /\ ~CleanRest) \/ Miscounted(m, o)
                            \/ (m.event = "Stop" /\ claude.phase = "compact"))
      /\ advance' = IF o.complete THEN ~advance ELSE advance
  BY DEF OnHookEvent
<1>3. o.rec \in Records
  BY RecIs, OrderedIs
<1>4. /\ rec' \in Records /\ rec'.state = o.rec.state /\ rec'.queued = o.rec.queued
      /\ rec'.lastPrompt = o.rec.lastPrompt /\ rec'.compacting = CompactingAfter(m)
  <2> DEFINE c == CompactingAfter(m)
             r == o.rec
  <2>1. ASSUME NEW x \in Records, NEW y \in 0..MaxNow
        PROVE  LET z == [x EXCEPT !.compacting = y]
               IN  /\ z \in Records /\ z.state = x.state /\ z.queued = x.queued
                   /\ z.lastPrompt = x.lastPrompt /\ z.compacting = y
    BY DEF Records
  <2> HIDE DEF o
  <2> QED BY <1>1, <1>2, <1>3, <2>1, Zenon
<1>5. /\ behind' \in BOOLEAN /\ advance' \in BOOLEAN
      /\ behind => behind'
  BY <1>2, RecIs
<1>6. /\ m.event = "UserPromptSubmit" =>
           /\ o.rec.state \in InFlight /\ ~o.complete
           /\ rec.state \in InFlight => o.rec.queued > 0
           /\ o.rec.lastPrompt >= m.ts /\ o.rec.lastPrompt >= rec.lastPrompt
      /\ m.event # "UserPromptSubmit" => o.rec.lastPrompt = rec.lastPrompt
      /\ m.event = "Stop" /\ o.rec.queued < rec.queued => ~Stale(m)
      /\ o.complete =>
           \/ m.event = "QuiescentStop"
           \/ m.event = "Stop" /\ ~Stale(m) /\ ~TooFast(m) /\ rec.queued = 0
      /\ m.event = "QuiescentStop" => o.complete
  BY RecIs, OrderedIs
<1>7. /\ ~behind' /\ InTurns /\ rec.state \in InFlight => o.rec.state \in InFlight
      /\ ~behind' /\ InTurns /\ o.rec.queued < rec.queued =>
            m.event = "Stop" /\ m.id # 2 /\ claude.ahead = 0
  <2> HIDE DEF o
  <2> QED BY <1>2, Zenon DEF Miscounted, InTurns
<1>8. /\ ~behind' /\ claude.phase = "compact" => m.event # "Stop"
      /\ ~CleanRest /\ ~behind' => m.event # "QuiescentStop"
  BY <1>2, <1>6
<1>9. advance' # advance =>
        \/ m.event = "QuiescentStop"
        \/ m.event = "Stop" /\ ~Stale(m) /\ ~TooFast(m) /\ rec.queued = 0
  BY <1>2, <1>6
<1>10. rec'.lastPrompt >= rec.lastPrompt
  <2>1. rec.lastPrompt \in Nat
    BY RecIs DEF Records
  <2> HIDE DEF o
  <2> QED BY <1>4, <1>6, <2>1
<1> HIDE DEF o
<1>11. /\ m.event # "UserPromptSubmit" => rec'.lastPrompt = rec.lastPrompt
       /\ m.event = "UserPromptSubmit" => rec'.lastPrompt >= m.ts
       /\ m.event = "UserPromptSubmit" => rec'.state \in InFlight
       /\ m.event = "UserPromptSubmit" /\ rec.state \in InFlight => rec'.queued > 0
       /\ m.event = "Stop" /\ rec'.queued < rec.queued => ~Stale(m)
  BY <1>4, <1>6, Zenon
<1>12. /\ ~behind' /\ InTurns /\ rec.state \in InFlight => rec'.state \in InFlight
       /\ ~behind' /\ InTurns /\ rec'.queued < rec.queued =>
             m.event = "Stop" /\ m.id # 2 /\ claude.ahead = 0
  BY <1>4, <1>7, Zenon
<1> QED BY <1>4, <1>5, <1>8, <1>9, <1>10, <1>11, <1>12, Zenon

\* A hook that is delivered can be folded.
LEMMA NetHook == ASSUME Bounds, NEW m \in net, m.ts <= now PROVE IsHook(m)
<1>1. m.event \in Events /\ m.ts \in Nat /\ 1 <= m.ts /\ now \in Nat
  BY ThresholdsAssumption DEF Bounds, TypeOK
<1> QED BY <1>1 DEF IsHook, AllEvents

\* The event that the scanner synthesizes is none that a hook reports alone.
LEMMA SynthHook ==
    ASSUME Bounds, pass.at = "firing"
    PROVE  LET m == Hook(Synthesized, now, 0)
           IN  /\ IsHook(m) /\ m.id = 0 /\ m.ts = now /\ m.event = Synthesized
               /\ m.event \notin {"Stop", "UserPromptSubmit", "PreCompact", "PostCompact", "CompactStart"}
               /\ m.event = "QuiescentStop" <=> pass.verdict = "stop"
               /\ m.event = "ApiError" <=> pass.verdict = "error"
<1> DEFINE e == Synthesized
           m == Hook(Synthesized, now, 0)
<1>1. pass.verdict \in Verdicts /\ 1 <= now /\ now \in Nat
  BY ThresholdsAssumption DEF Bounds, TypeOK
<1>2. /\ e \in {"QuiescentStop", "ApiError", "EmptyPrompt", "Tool", "Notification"}
      /\ e = "QuiescentStop" <=> pass.verdict = "stop"
      /\ e = "ApiError" <=> pass.verdict = "error"
  BY <1>1 DEF Synthesized, Verdicts
<1>3. m.event = e /\ m.ts = now /\ m.id = 0
  BY DEF Hook
<1> HIDE DEF e, m
<1>4. IsHook(m)
  BY <1>1, <1>2, <1>3 DEF IsHook, AllEvents, Events
<1> QED BY <1>2, <1>3, <1>4 DEF e, m

----------------------------------------------------------------------------
(***************************************************************************)
(* The types, with what bounds them.                                        *)
(***************************************************************************)

(* A field of a record is set, or a hook sent: the types stay.              *)
LEMMA UsedIs ==
    ASSUME Bounds
    PROVE  LET u == [used EXCEPT !.inputs = @ + 1, !.prompted = TRUE]
               v == [used EXCEPT !.inputs = @ + 1]
               U == [inputs: 0..MaxInputs, prompted: BOOLEAN, faults: 0..MaxFaults]
           IN  /\ used.inputs < MaxInputs => u \in U /\ v \in U
               /\ u.inputs = used.inputs + 1 /\ v.inputs = used.inputs + 1
<1> DEFINE U == [inputs: 0..MaxInputs, prompted: BOOLEAN, faults: 0..MaxFaults]
<1>1. ASSUME NEW b \in BOOLEAN, NEW i \in 0..MaxInputs
      PROVE  [used EXCEPT !.inputs = i, !.prompted = b] \in U /\ [used EXCEPT !.inputs = i] \in U
  BY DEF Bounds, TypeOK
<1>3. used.inputs < MaxInputs => used.inputs + 1 \in 0..MaxInputs
  BY ThresholdsAssumption DEF Bounds, TypeOK
<1>2. /\ [used EXCEPT !.inputs = @ + 1, !.prompted = TRUE].inputs = used.inputs + 1
      /\ [used EXCEPT !.inputs = @ + 1].inputs = used.inputs + 1
  BY DEF Bounds, TypeOK
<1> QED BY <1>1, <1>2, <1>3, Zenon

\* A line is written.
LEMMA AppendIs ==
    ASSUME Bounds, NEW kind \in TailKinds, Append(kind)
    PROVE  /\ tail' \in [kind: TailKinds, write: 0..MaxNow] /\ tail'.kind = kind /\ tail'.write = now
           /\ scan' \in [unread: BOOLEAN, sawWaiting: BOOLEAN]
<1>1. ASSUME NEW b \in BOOLEAN PROVE [scan EXCEPT !.unread = b] \in [unread: BOOLEAN, sawWaiting: BOOLEAN]
  BY DEF Bounds, TypeOK
<1>2. scan' \in [unread: BOOLEAN, sawWaiting: BOOLEAN]
  BY <1>1, Zenon DEF Append
<1>3. tail' = [kind |-> kind, write |-> now] /\ now \in 0..MaxNow
  BY DEF Append, Bounds, TypeOK
<1> QED BY <1>2, <1>3

\* claude goes to another phase of the same turn.
LEMMA PhaseIs ==
    ASSUME Bounds, NEW p \in Phases, claude' = [claude EXCEPT !.phase = p]
    PROVE  /\ claude' \in [phase: Phases, batch: BOOLEAN, ahead: 0..MaxInputs, since: 0..MaxNow]
           /\ claude'.phase = p /\ claude'.ahead = claude.ahead /\ claude'.since = claude.since
           /\ claude'.batch = claude.batch
  BY DEF Bounds, TypeOK

\* claude goes on after a turn: with the prompts typed ahead, or to rest.
LEMMA AfterTurnIs ==
    ASSUME Bounds, claude' = AfterTurn
    PROVE  /\ claude' \in [phase: Phases, batch: BOOLEAN, ahead: 0..MaxInputs, since: 0..MaxNow]
           /\ claude'.ahead = 0 /\ claude'.since = now
           /\ claude.ahead > 0 => claude'.phase = "start" /\ claude'.batch
           /\ ~(claude.ahead > 0) => claude'.phase = "rest" /\ claude'.batch = claude.batch
  BY ThresholdsAssumption DEF Bounds, TypeOK, AfterTurn, Rest, Phases

\* A set of hooks that may be on their way.
Net(n, open) ==
    \A m \in n : /\ m \in [event: Events, ts: Nat, id: 0..MaxInputs + 2]
                 /\ 1 <= m.ts /\ (Opens(m) => m.id <= open)

\* Hooks may be on their way after one more was sent.
LEMMA SentIs ==
    ASSUME Bounds, NEW e \in Events, NEW ts \in Nat, 1 <= ts, NEW id \in 0..MaxInputs + 2,
           NEW open \in Nat, used.inputs <= open,
           e \in {"UserPromptSubmit", "PreCompact"} => id <= open,
           NEW n, Net(n, open)
    PROVE  Net(n \cup {Hook(e, ts, id)}, open)
<1>1. /\ Hook(e, ts, id) \in [event: Events, ts: Nat, id: 0..MaxInputs + 2]
      /\ Hook(e, ts, id).event = e /\ Hook(e, ts, id).ts = ts /\ Hook(e, ts, id).id = id
  BY DEF Hook
<1> QED BY <1>1 DEF Net, Opens

\* The hooks on their way, from Bounds.
LEMMA NetIs == ASSUME Bounds, NEW open \in Nat, used.inputs <= open PROVE Net(net, open)
  BY ThresholdsAssumption DEF Bounds, TypeOK, Net

\* The same for one that is fired now.
LEMMA SentNow ==
    ASSUME Bounds, NEW e \in Events, NEW id \in 0..MaxInputs + 2, NEW open \in Nat, used.inputs <= open,
           e \in {"UserPromptSubmit", "PreCompact"} => id <= open,
           net' = net \cup {Hook(e, now, id)}
    PROVE  Net(net', open)
<1>1. now \in Nat /\ 1 <= now
  BY DEF Bounds, TypeOK
<1> QED BY <1>1, SentIs, NetIs

\* The same for the hook of an input.
LEMMA InputIs ==
    ASSUME Bounds, used.inputs < MaxInputs, used'.inputs = used.inputs + 1,
           NEW e \in {"UserPromptSubmit", "PreCompact", "Notification"}, NEW id \in {0, used.inputs + 1},
           net' = net \cup {Hook(e, now, id)}
    PROVE  Net(net', used'.inputs)
<1>1. e \in Events /\ id \in 0..MaxInputs + 2 /\ used.inputs + 1 \in Nat
      /\ used.inputs <= used.inputs + 1 /\ id <= used.inputs + 1
  BY ThresholdsAssumption DEF Events, Bounds, TypeOK
<1> QED BY <1>1, SentNow

\* Bounds, which is inductive alone.
LEMMA BoundsStep == Bounds /\ [Next]_vars => Bounds'
<1> SUFFICES ASSUME Bounds, [Next]_vars PROVE Bounds'
  OBVIOUS
<1> USE ThresholdsAssumption
<1> DEFINE Claudes == [phase: Phases, batch: BOOLEAN, ahead: 0..MaxInputs, since: 0..MaxNow]
           Useds == [inputs: 0..MaxInputs, prompted: BOOLEAN, faults: 0..MaxFaults]
<1>1. CASE Submit
  <2>1. claude' \in Claudes /\ claude'.ahead = 0 /\ claude'.since = now
    BY <1>1 DEF Submit, Bounds, TypeOK, Phases
  <2>2. used' \in Useds /\ used'.inputs = used.inputs + 1
    BY <1>1, UsedIs DEF Submit
  <2>3. Net(net', used'.inputs)
    BY <1>1, <2>2, InputIs DEF Submit
  <2>4. unseen' \subseteq 0..MaxInputs /\ \A i \in unseen' : i <= used'.inputs
    BY <1>1, <2>2 DEF Submit, Bounds, TypeOK
  <2>5. behind' \in BOOLEAN
    BY <1>1 DEF Submit
  <2>6. UNCHANGED <<now, tail, rec, heart, pass, scan, advance>>
    BY <1>1 DEF Submit
  <2> QED BY <2>1, <2>2, <2>3, <2>4, <2>5, <2>6 DEF Net, Bounds, TypeOK
<1>2. CASE TypeAhead
  <2>1. claude' \in Claudes /\ claude'.ahead <= used.inputs + 1 /\ claude'.since = claude.since
    BY <1>2 DEF TypeAhead, Bounds, TypeOK
  <2>2. used' \in Useds /\ used'.inputs = used.inputs + 1
    BY <1>2, UsedIs DEF TypeAhead
  <2>3. Net(net', used'.inputs)
    BY <1>2, <2>2, InputIs DEF TypeAhead
  <2> QED BY <1>2, <2>1, <2>2, <2>3 DEF TypeAhead, Net, Bounds, TypeOK
<1>3. CASE Twin
  <2>1. Net(net', used.inputs)
    <3>1. "EmptyPrompt" \in Events /\ 0 \in 0..MaxInputs + 2 /\ used.inputs \in Nat
          /\ "EmptyPrompt" \notin {"UserPromptSubmit", "PreCompact"}
      BY DEF Events, Bounds, TypeOK
    <3> QED BY <1>3, <3>1, SentNow DEF Twin
  <2> QED BY <1>3, <2>1 DEF Twin, Net, Bounds, TypeOK
<1>4. CASE Land
  <2>1. claude' \in Claudes /\ claude'.ahead = claude.ahead /\ claude'.since = claude.since
    <3>1. "run" \in Phases /\ claude' = [claude EXCEPT !.phase = "run"]
      BY <1>4 DEF Land, Phases
    <3> QED BY <3>1, PhaseIs
  <2>2. "prompt" \in TailKinds /\ Append("prompt")
    BY <1>4 DEF Land, TailKinds
  <2> QED BY <1>4, <2>1, <2>2, AppendIs DEF Land, Bounds, TypeOK
<1>5. CASE Abort
  BY <1>5 DEF Abort, Rest, Bounds, TypeOK, Phases
<1>6. CASE Work
  <2>1. "open" \in TailKinds /\ Append("open")
    BY <1>6 DEF Work, TailKinds
  <2> QED BY <1>6, <2>1, AppendIs DEF Work, Bounds, TypeOK
<1>7. CASE Ask
  <2>1. claude' \in Claudes /\ claude'.ahead = claude.ahead /\ claude'.since = claude.since
    <3>1. "ask" \in Phases /\ claude' = [claude EXCEPT !.phase = "ask"]
      BY <1>7 DEF Ask, Phases
    <3> QED BY <3>1, PhaseIs
  <2>2. "open" \in TailKinds /\ Append("open")
    BY <1>7 DEF Ask, TailKinds
  <2>3. used' \in Useds /\ used'.inputs = used.inputs + 1
    BY <1>7, UsedIs DEF Ask
  <2>4. Net(net', used'.inputs)
    BY <1>7, <2>3, InputIs DEF Ask
  <2> QED BY <1>7, <2>1, <2>2, <2>3, <2>4, AppendIs DEF Ask, Net, Bounds, TypeOK
<1>8. CASE Answered
  BY <1>8 DEF Answered, Bounds, TypeOK, Phases
<1>9. CASE End
  <2>1. "end" \in TailKinds /\ Append("end")
    BY <1>9 DEF End, TailKinds
  <2>2. claude' \in Claudes /\ claude'.ahead = 0 /\ claude'.since = now
    BY <1>9, AfterTurnIs DEF End
  <2>3. Net(net', used.inputs) /\ used' \in Useds /\ used'.inputs = used.inputs
    <3>1. now \in Nat /\ 1 <= now /\ {0, 1, 2} \subseteq 0..MaxInputs + 2 /\ used.inputs \in Nat
      BY DEF Bounds, TypeOK
    <3>2. "Stop" \in Events /\ "Stop" \notin {"UserPromptSubmit", "PreCompact"}
      BY DEF Events
    <3>3. CASE net' = net \cup {Hook("Stop", now, 0)} /\ used' = used
      <4>1. Net(net', used.inputs)
        BY <3>1, <3>2, <3>3, SentNow
      <4> QED BY <3>3, <4>1 DEF Bounds, TypeOK
    <3>4. ASSUME used.faults < MaxFaults, NEW skew \in 0..Skew,
                 net' = net \cup {Hook("Stop", now, 1), Hook("Stop", now + skew, 2)},
                 used' = [used EXCEPT !.faults = @ + 1]
          PROVE  Net(net', used.inputs) /\ used' \in Useds /\ used'.inputs = used.inputs
      <4>1. Net(net \cup {Hook("Stop", now, 1)}, used.inputs)
        BY <3>1, <3>2, SentIs, NetIs
      <4>2. now + skew \in Nat /\ 1 <= now + skew
        BY <3>1
      <4>3. Net((net \cup {Hook("Stop", now, 1)}) \cup {Hook("Stop", now + skew, 2)}, used.inputs)
        BY <3>1, <3>2, <4>1, <4>2, SentIs
      <4>4. net' = (net \cup {Hook("Stop", now, 1)}) \cup {Hook("Stop", now + skew, 2)}
        BY <3>4
      <4>5. used' \in Useds /\ used'.inputs = used.inputs
        BY <3>4 DEF Bounds, TypeOK
      <4> QED BY <4>3, <4>4, <4>5
    <3> QED BY <1>9, <3>3, <3>4 DEF End
  <2> QED BY <1>9, <2>1, <2>2, <2>3, AppendIs DEF End, Net, Bounds, TypeOK
<1>10. CASE Break
  <2>1. PICK kind \in TailKinds : Append(kind)
    BY <1>10 DEF Break, TailKinds
  <2> QED BY <1>10, <2>1, AppendIs DEF Break, Rest, Phases, Bounds, TypeOK
<1>11. CASE Fizzle
  BY <1>11, AfterTurnIs DEF Fizzle, Bounds, TypeOK
<1>12. CASE Compact
  <2>1. claude' \in Claudes /\ claude'.ahead = 0 /\ claude'.since = now
    BY <1>12 DEF Compact, Rest, Bounds, TypeOK, Phases
  <2>2. used' \in Useds /\ used'.inputs = used.inputs + 1
    BY <1>12, UsedIs DEF Compact
  <2>3. Net(net', used'.inputs)
    BY <1>12, <2>2, InputIs DEF Compact
  <2>4. unseen' \subseteq 0..MaxInputs /\ \A i \in unseen' : i <= used'.inputs
    BY <1>12, <2>2 DEF Compact, Bounds, TypeOK
  <2>5. behind' \in BOOLEAN
    BY <1>12 DEF Compact
  <2>6. UNCHANGED <<now, tail, rec, heart, pass, scan, advance>>
    BY <1>12 DEF Compact
  <2> QED BY <2>1, <2>2, <2>3, <2>4, <2>5, <2>6 DEF Net, Bounds, TypeOK
<1>13. CASE Compacted
  BY <1>13 DEF Compacted, Rest, Hook, Bounds, TypeOK, Phases, Events, Opens
<1>14. CASE Deliver
  <2>1. PICK m \in net : /\ m.ts <= now /\ OnHookEvent(m) /\ net' = net \ {m}
                         /\ unseen' = IF Opens(m) THEN unseen \ {m.id} ELSE unseen
                         /\ pass' = [pass EXCEPT !.late =
                               @ \/ (m.event = "UserPromptSubmit" /\ pass.at = "firing")
                                 \/ (m.event = "PreCompact" /\ pass.at # "between")]
    BY <1>14 DEF Deliver
  <2>2. /\ rec' \in Records /\ behind' \in BOOLEAN /\ advance' \in BOOLEAN
        /\ rec'.lastPrompt \in 0..MaxNow
    BY <2>1, NetHook, HookIs DEF Records
  <2>3. /\ pass' \in [at: {"between", "judged", "firing"}, verdict: Verdicts \cup {"none"},
                      write: 0..MaxNow, late: BOOLEAN]
        /\ pass'.at = pass.at /\ pass'.verdict = pass.verdict /\ pass'.write = pass.write
    <3> DEFINE b == pass.late \/ (m.event = "UserPromptSubmit" /\ pass.at = "firing")
                       \/ (m.event = "PreCompact" /\ pass.at # "between")
    <3>1. pass' = [pass EXCEPT !.late = b] /\ b \in BOOLEAN
      BY <2>1 DEF Bounds, TypeOK
    <3> HIDE DEF b
    <3> QED BY <3>1 DEF Bounds, TypeOK
  <2> QED BY <1>14, <2>1, <2>2, <2>3 DEF Deliver, Bounds, TypeOK, Records
<1>15. CASE Lose
  BY <1>15 DEF Lose, Bounds, TypeOK
<1>16. CASE Survey
  BY <1>16 DEF Survey, Presence, Bounds, TypeOK
<1>17. CASE Judge
  <2>1. scan' \in [unread: BOOLEAN, sawWaiting: BOOLEAN]
    <3>1. (heart.shown = "waiting") \in BOOLEAN /\ scan' = [unread |-> FALSE, sawWaiting |-> heart.shown = "waiting"]
      BY <1>17 DEF Judge
    <3> QED BY <3>1
  <2>2. \/ pass' = pass
        \/ \E v \in Verdicts : pass' = [at |-> "judged", verdict |-> v, write |-> tail.write, late |-> FALSE]
    BY <1>17 DEF Judge
  <2>3. /\ pass' \in [at: {"between", "judged", "firing"}, verdict: Verdicts \cup {"none"},
                      write: 0..MaxNow, late: BOOLEAN]
        /\ pass'.at # "between" => pass'.verdict \in Verdicts /\ 1 <= pass'.write /\ pass'.write <= tail.write
    <3>1. CASE pass' = pass
      BY <3>1 DEF Bounds, TypeOK
    <3>2. ASSUME NEW v \in Verdicts,
                 pass' = [at |-> "judged", verdict |-> v, write |-> tail.write, late |-> FALSE]
          PROVE  /\ pass' \in [at: {"between", "judged", "firing"}, verdict: Verdicts \cup {"none"},
                                write: 0..MaxNow, late: BOOLEAN]
                 /\ pass'.verdict \in Verdicts /\ 1 <= pass'.write /\ pass'.write <= tail.write
      <4> DEFINE at == "judged"
                 late == FALSE
      <4>1. at \in {"between", "judged", "firing"} /\ late \in BOOLEAN
        OBVIOUS
      <4>2. pass' = [at |-> at, verdict |-> v, write |-> tail.write, late |-> late]
        BY <3>2
      <4> HIDE DEF at, late
      <4> QED BY <4>1, <4>2 DEF Bounds, TypeOK
    <3> QED BY <2>2, <3>1, <3>2
  <2> QED BY <1>17, <2>1, <2>3 DEF Judge, Bounds, TypeOK
<1>18. CASE Recheck
  BY <1>18 DEF Recheck, NoPass, Bounds, TypeOK
<1>19. CASE Synthesize
  <2>1. rec' \in Records /\ behind' \in BOOLEAN /\ advance' \in BOOLEAN
    BY <1>19, SynthHook, HookIs DEF Synthesize
  <2> QED BY <1>19, <2>1 DEF Synthesize, NoPass, Bounds, TypeOK, Records
<1>20. CASE Tick
  BY <1>20 DEF Tick, Bounds, TypeOK
<1>21. CASE UNCHANGED vars
  BY <1>21 DEF vars, Bounds, TypeOK
<1> QED BY <1>1, <1>2, <1>3, <1>4, <1>5, <1>6, <1>7, <1>8, <1>9, <1>10, <1>11, <1>12, <1>13,
           <1>14, <1>15, <1>16, <1>17, <1>18, <1>19, <1>20, <1>21 DEF Next, Claude, Scanner

----------------------------------------------------------------------------
(***************************************************************************)
(* What claude is at, its transcript, its heartbeat.                         *)
(***************************************************************************)

\* What Bounds says of the numbers, for the prover of arithmetic.
LEMMA NumbersAre ==
    ASSUME Bounds
    PROVE  /\ now \in Nat /\ claude.since \in Nat /\ tail.write \in Nat /\ heart.lag \in Nat
           /\ rec.lastPrompt \in Nat /\ rec.compacting \in Nat /\ rec.queued \in Nat
           /\ claude.since <= now /\ 1 <= tail.write /\ tail.write <= now /\ heart.lag <= Lag
           /\ used.inputs \in Nat /\ claude.ahead \in Nat /\ pass.write \in Nat
           /\ {Floor, Skew, Quiet, IdleQuiet, IdleFloor, Grace, Landing, Lag, Settle, HoldMax, MaxQueued} \subseteq Nat
           /\ claude.phase \in Phases /\ claude.batch \in BOOLEAN
  BY ThresholdsAssumption DEF Bounds, TypeOK

\* What claude is at stays, and so do the clock, the transcript and the heartbeat.
LEMMA OthersStay ==
    ASSUME Twin \/ Deliver \/ Lose \/ Judge \/ Recheck \/ Synthesize \/ UNCHANGED vars
    PROVE  UNCHANGED <<now, claude, tail, heart>>
  BY Zenon DEF Twin, Deliver, Lose, Judge, Recheck, Synthesize, vars

(* Each action of claude, the survey and the clock, field by field.          *)
LEMMA ClaudeIs ==
    ASSUME Bounds
    PROVE  /\ Submit => /\ claude'.phase = "start" /\ ~claude'.batch /\ claude'.since = now
                        /\ claude'.ahead = 0 /\ claude.phase = "rest" /\ tail.write < now
           /\ TypeAhead => /\ claude'.phase = claude.phase /\ claude'.batch = claude.batch
                           /\ claude'.since = claude.since /\ claude.phase \in {"start", "run"}
                           /\ claude'.ahead = claude.ahead + 1
           /\ Land => /\ claude.phase = "start" /\ claude'.phase = "run" /\ claude'.batch = claude.batch
                      /\ claude'.since = claude.since /\ claude'.ahead = claude.ahead
                      /\ tail'.kind = "prompt" /\ tail'.write = now
           /\ Abort => /\ claude.phase = "start" /\ ~claude.batch
                       /\ claude'.phase = "rest" /\ claude'.batch = claude.batch
                       /\ claude'.since = now /\ claude'.ahead = 0
           /\ Work => /\ claude.phase = "run" /\ claude' = claude /\ tail'.kind = "open" /\ tail'.write = now
           /\ Ask => /\ claude.phase = "run" /\ claude'.phase = "ask" /\ claude'.batch = claude.batch
                     /\ claude'.since = claude.since /\ claude'.ahead = claude.ahead
                     /\ tail'.kind = "open" /\ tail'.write = now
           /\ Answered => /\ claude.phase = "ask" /\ claude'.phase = "run" /\ claude'.batch = claude.batch
                          /\ claude'.since = claude.since /\ claude'.ahead = claude.ahead
           /\ Break => /\ claude.phase \in {"run", "ask"} /\ claude'.phase = "rest"
                       /\ claude'.batch = claude.batch /\ claude'.since = now /\ claude'.ahead = 0
                       /\ tail'.kind \in {"interrupted", "error"} /\ tail'.write = now
           /\ Compact => /\ claude.phase = "rest" /\ claude'.phase = "compact" /\ claude'.batch = claude.batch
                         /\ claude'.since = now /\ claude'.ahead = 0 /\ tail.write < now
           /\ Compacted => /\ claude.phase = "compact" /\ claude'.phase = "rest" /\ claude'.batch = claude.batch
                           /\ claude'.since = now /\ claude'.ahead = 0
                           /\ tail'.kind = tail.kind /\ tail'.write = now
<1> USE DEF Bounds, TypeOK
<1>1. Submit => /\ claude'.phase = "start" /\ ~claude'.batch /\ claude'.since = now
                /\ claude'.ahead = 0 /\ claude.phase = "rest" /\ tail.write < now
  BY DEF Submit
<1>2. TypeAhead => /\ claude'.phase = claude.phase /\ claude'.batch = claude.batch
                   /\ claude'.since = claude.since /\ claude.phase \in {"start", "run"}
                   /\ claude'.ahead = claude.ahead + 1
  BY DEF TypeAhead
<1>3. Land => /\ claude.phase = "start" /\ claude'.phase = "run" /\ claude'.batch = claude.batch
              /\ claude'.since = claude.since /\ claude'.ahead = claude.ahead
              /\ tail'.kind = "prompt" /\ tail'.write = now
  BY DEF Land, Append
<1>4. Abort => /\ claude.phase = "start" /\ ~claude.batch
               /\ claude'.phase = "rest" /\ claude'.batch = claude.batch
               /\ claude'.since = now /\ claude'.ahead = 0
  BY DEF Abort, Rest
<1>5. Work => claude.phase = "run" /\ claude' = claude /\ tail'.kind = "open" /\ tail'.write = now
  BY DEF Work, Append
<1>6. Ask => /\ claude.phase = "run" /\ claude'.phase = "ask" /\ claude'.batch = claude.batch
             /\ claude'.since = claude.since /\ claude'.ahead = claude.ahead
             /\ tail'.kind = "open" /\ tail'.write = now
  BY DEF Ask, Append
<1>7. Answered => /\ claude.phase = "ask" /\ claude'.phase = "run" /\ claude'.batch = claude.batch
                  /\ claude'.since = claude.since /\ claude'.ahead = claude.ahead
  BY DEF Answered
<1>8. Break => /\ claude.phase \in {"run", "ask"} /\ claude'.phase = "rest"
               /\ claude'.batch = claude.batch /\ claude'.since = now /\ claude'.ahead = 0
               /\ tail'.kind \in {"interrupted", "error"} /\ tail'.write = now
  BY DEF Break, Append, Rest
<1>9. Compact => /\ claude.phase = "rest" /\ claude'.phase = "compact" /\ claude'.batch = claude.batch
                 /\ claude'.since = now /\ claude'.ahead = 0 /\ tail.write < now
  BY DEF Compact, Rest
<1>10. Compacted => /\ claude.phase = "compact" /\ claude'.phase = "rest" /\ claude'.batch = claude.batch
                    /\ claude'.since = now /\ claude'.ahead = 0
                    /\ tail'.kind = tail.kind /\ tail'.write = now
  BY DEF Compacted, Rest
<1> HIDE DEF Bounds, TypeOK
<1> QED BY <1>1, <1>2, <1>3, <1>4, <1>5, <1>6, <1>7, <1>8, <1>9, <1>10, Zenon

\* The same of the end of a turn with a stop.
LEMMA EndIs ==
    ASSUME Bounds, End
    PROVE  /\ claude.phase = "run" /\ tail'.kind = "end" /\ tail'.write = now
           /\ claude'.ahead = 0 /\ claude'.since = now
           /\ claude.ahead > 0 => claude'.phase = "start" /\ claude'.batch
           /\ ~(claude.ahead > 0) => claude'.phase = "rest" /\ claude'.batch = claude.batch
  BY AfterTurnIs DEF End, Append

\* The same of a prompt that starts no turn.
LEMMA FizzleIs ==
    ASSUME Bounds, Fizzle
    PROVE  /\ claude.phase = "run" /\ tail.kind = "prompt" /\ tail' = tail
           /\ claude'.ahead = 0 /\ claude'.since = now
           /\ claude.ahead > 0 => claude'.phase = "start" /\ claude'.batch
           /\ ~(claude.ahead > 0) => claude'.phase = "rest" /\ claude'.batch = claude.batch
  BY AfterTurnIs DEF Fizzle

\* The clock, with what it waits for.
LEMMA ClockIs ==
    ASSUME Bounds, Tick
    PROVE  /\ UNCHANGED <<claude, tail, net, rec, pass, scan, unseen, behind, advance, used>>
           /\ now' = now + 1 /\ pass.at = "between"
           /\ claude.phase = "start" /\ ~claude.batch => now + 1 < claude.since + Grace
           /\ claude.phase = "start" /\ claude.batch => now + 1 < claude.since + (Landing + 1)
           /\ heart'.shown = heart.shown
           /\ heart.shown # Presence => heart'.lag = heart.lag + 1
  BY DEF Tick, Bounds, TypeOK

\* The transcript follows claude.
LEMMA TailStep == Bounds /\ TailKnown /\ [Next]_vars => TailKnown'
<1> SUFFICES ASSUME Bounds, TailKnown, [Next]_vars PROVE TailKnown'
  OBVIOUS
<1> USE ThresholdsAssumption, NumbersAre DEF TailKnown, Phases
<1>1. CASE Submit
  BY <1>1, ClaudeIs DEF Submit
<1>2. CASE TypeAhead
  BY <1>2, ClaudeIs DEF TypeAhead
<1>3. CASE Land
  BY <1>3, ClaudeIs DEF Land
<1>4. CASE Abort
  BY <1>4, ClaudeIs DEF Abort
<1>5. CASE Work
  BY <1>5, ClaudeIs DEF Work
<1>6. CASE Ask
  BY <1>6, ClaudeIs DEF Ask
<1>7. CASE Answered
  BY <1>7, ClaudeIs DEF Answered
<1>8. CASE End
  BY <1>8, EndIs DEF End
<1>9. CASE Break
  BY <1>9, ClaudeIs DEF Break
<1>10. CASE Fizzle
  BY <1>10, FizzleIs DEF Fizzle
<1>11. CASE Compact
  BY <1>11, ClaudeIs DEF Compact
<1>12. CASE Compacted
  BY <1>12, ClaudeIs DEF Compacted
<1>13. CASE Survey
  BY <1>13 DEF Survey
<1>14. CASE Tick
  BY <1>14, ClockIs
<1>15. CASE Twin \/ Deliver \/ Lose \/ Judge \/ Recheck \/ Synthesize \/ UNCHANGED vars
  BY <1>15, OthersStay
<1> QED BY <1>1, <1>2, <1>3, <1>4, <1>5, <1>6, <1>7, <1>8, <1>9, <1>10, <1>11, <1>12, <1>13,
           <1>14, <1>15 DEF Next, Claude, Scanner

\* The heartbeat follows claude within its lag.
LEMMA HeartStep == Bounds /\ TailKnown /\ HeartKnown /\ [Next]_vars => HeartKnown'
<1> SUFFICES ASSUME Bounds, TailKnown, HeartKnown, [Next]_vars PROVE HeartKnown'
  OBVIOUS
<1> USE ThresholdsAssumption, NumbersAre DEF HeartKnown, Phases
<1>1. CASE Submit
  BY <1>1, ClaudeIs DEF Submit
<1>2. CASE TypeAhead
  BY <1>2, ClaudeIs DEF TypeAhead
<1>3. CASE Land
  BY <1>3, ClaudeIs DEF Land
<1>4. CASE Abort
  BY <1>4, ClaudeIs DEF Abort
<1>5. CASE Work
  BY <1>5, ClaudeIs DEF Work
<1>6. CASE Ask
  BY <1>6, ClaudeIs DEF Ask
<1>7. CASE Answered
  BY <1>7, ClaudeIs DEF Answered
<1>8. CASE End
  BY <1>8, EndIs DEF End
<1>9. CASE Break
  BY <1>9, ClaudeIs DEF Break
<1>10. CASE Fizzle
  BY <1>10, FizzleIs DEF Fizzle
<1>11. CASE Compact
  <2>1. UNCHANGED <<now, heart>> /\ claude'.phase = "compact" /\ claude'.since = now
    BY <1>11, ClaudeIs DEF Compact
  <2> QED BY <2>1
<1>12. CASE Compacted
  BY <1>12, ClaudeIs DEF Compacted
<1>13. CASE Survey
  BY <1>13 DEF Survey, Presence
<1>14. CASE Tick
  BY <1>14, ClockIs DEF Presence
<1>15. CASE Twin \/ Deliver \/ Lose \/ Judge \/ Recheck \/ Synthesize \/ UNCHANGED vars
  BY <1>15, OthersStay
<1> QED BY <1>1, <1>2, <1>3, <1>4, <1>5, <1>6, <1>7, <1>8, <1>9, <1>10, <1>11, <1>12, <1>13,
           <1>14, <1>15 DEF Next, Claude, Scanner

----------------------------------------------------------------------------
(***************************************************************************)
(* The hooks on their way: what each action sends.                          *)
(***************************************************************************)

\* The next input has an id that no hook on its way has.
LEMMA IdsAreFresh ==
    ASSUME Bounds
    PROVE  /\ \A m \in net : Opens(m) => m.id # used.inputs + 1
           /\ used.inputs + 1 \notin unseen
  BY NumbersAre DEF Bounds, TypeOK, Opens

\* A prompt at rest starts a new chain: the only prompt of it is its own.
LEMMA SubmitSends ==
    ASSUME Bounds, Submit
    PROVE  /\ Stops' = Stops /\ unseen' # {} /\ ~behind'
           /\ \A m \in Prompts' : m.ts = now
           /\ \A m \in net' : m.event # "UserPromptSubmit" => m \in net
           /\ \A m \in net' : m.event = "PreCompact" => m.id \notin unseen'
           /\ rec' = rec /\ pass' = pass /\ now' = now /\ tail' = tail
<1>1. /\ net' = net \cup {Hook("UserPromptSubmit", now, used.inputs + 1)}
      /\ unseen' = {used.inputs + 1} /\ behind' = FALSE
      /\ rec' = rec /\ pass' = pass /\ now' = now /\ tail' = tail
  BY DEF Submit
<1>2. \A m \in net' : m \in net \/ (m.event = "UserPromptSubmit" /\ m.ts = now)
  BY <1>1 DEF Hook
<1>3. \A m \in net : Opens(m) => m.id \notin unseen'
  BY <1>1, IdsAreFresh
<1>4. unseen' # {} /\ ~behind' /\ net \subseteq net'
  BY <1>1
<1> QED BY <1>1, <1>2, <1>3, <1>4 DEF Stops, Prompts, Opens

\* A prompt typed ahead is one more of the chain.
LEMMA TypeAheadSends ==
    ASSUME Bounds, TypeAhead
    PROVE  /\ Stops' = Stops /\ unseen' # {} /\ unseen \subseteq unseen' /\ behind' = behind
           /\ unseen # {} => \E i, j \in unseen' : i # j
           /\ \A m \in Prompts' : m \in Prompts \/ m.ts = now
           /\ \A m \in net' : m.event # "UserPromptSubmit" => m \in net
           /\ \A m \in net : m.event = "PreCompact" => (m.id \in unseen' <=> m.id \in unseen)
           /\ rec' = rec /\ pass' = pass /\ now' = now /\ tail' = tail
<1>1. /\ net' = net \cup {Hook("UserPromptSubmit", now, used.inputs + 1)}
      /\ unseen' = unseen \cup {used.inputs + 1} /\ behind' = behind
      /\ rec' = rec /\ pass' = pass /\ now' = now /\ tail' = tail
  BY DEF TypeAhead
<1>2. \A m \in net' : m \in net \/ (m.event = "UserPromptSubmit" /\ m.ts = now)
  BY <1>1 DEF Hook
<1>3. \A m \in net : Opens(m) => m.id # used.inputs + 1
  BY IdsAreFresh
<1>4. used.inputs + 1 \notin unseen /\ net \subseteq net'
  BY <1>1, IdsAreFresh
<1>5. unseen # {} => \E i, j \in unseen' : i # j
  BY <1>1, <1>4
<1> QED BY <1>1, <1>2, <1>3, <1>4, <1>5 DEF Stops, Prompts, Opens

\* A compaction: the stops on their way are second copies.
LEMMA CompactSends ==
    ASSUME Bounds, Compact
    PROVE  /\ Stops' = Stops /\ unseen' # {} /\ ~behind' /\ Prompts' = {}
           /\ \A s \in Stops : s.id \notin {0, 1}
           /\ \A m \in net' : /\ m.event \notin {"PostCompact", "CompactStart"}
                              /\ m.event = "PreCompact" => m.ts = now
           /\ rec' = rec /\ pass' = pass /\ now' = now /\ tail' = tail
<1>1. /\ net' = net \cup {Hook("PreCompact", now, used.inputs + 1)}
      /\ unseen' = {used.inputs + 1} /\ behind' = FALSE
      /\ rec' = rec /\ pass' = pass /\ now' = now /\ tail' = tail
      /\ \A m \in net : m.event \notin {"PreCompact", "PostCompact", "CompactStart"}
      /\ ~AwaitsStopHook
  BY DEF Compact
<1>2. \A m \in net' : m \in net \/ (m.event = "PreCompact" /\ m.ts = now)
  BY <1>1 DEF Hook
<1>3. \A m \in net : Opens(m) => m.id \notin unseen'
  BY <1>1, IdsAreFresh
<1>4. unseen' # {} /\ ~behind' /\ net \subseteq net'
  BY <1>1
<1> QED BY <1>1, <1>2, <1>3, <1>4 DEF Stops, Prompts, Opens, AwaitsStopHook

\* The end of a turn sends one stop, or two of which one is a duplicate.
LEMMA EndSends ==
    ASSUME Bounds, End
    PROVE  /\ Prompts' = Prompts /\ unseen' = unseen /\ behind' = behind
           /\ Stops \subseteq Stops'
           /\ \A s \in Stops' \ Stops :
                \/ s.id = 0 /\ s.ts = now
                \/ s.id = 1 /\ s.ts = now
                \/ s.id = 2 /\ s.ts <= now + Skew
           /\ \A s, t \in Stops' \ Stops : s.id # 2 /\ t.id # 2 => s = t
           /\ \A m \in net' : m.event # "Stop" => m \in net
           /\ rec' = rec /\ pass' = pass /\ now' = now
<1>1. /\ unseen' = unseen /\ behind' = behind /\ rec' = rec /\ pass' = pass /\ now' = now
  BY DEF End
<1>2. CASE net' = net \cup {Hook("Stop", now, 0)}
  <2>1. \A m \in net' : m \in net \/ (m.event = "Stop" /\ m.id = 0 /\ m.ts = now)
    BY <1>2 DEF Hook
  <2>2. \A s, t \in net' \ net : s = t
    BY <1>2
  <2> QED BY <1>1, <1>2, <2>1, <2>2 DEF Stops, Prompts
<1>3. ASSUME NEW skew \in 0..Skew, net' = net \cup {Hook("Stop", now, 1), Hook("Stop", now + skew, 2)}
      PROVE  /\ Prompts' = Prompts /\ Stops \subseteq Stops'
             /\ \A s \in Stops' \ Stops :
                  \/ s.id = 1 /\ s.ts = now
                  \/ s.id = 2 /\ s.ts <= now + Skew
             /\ \A s, t \in Stops' \ Stops : s.id # 2 /\ t.id # 2 => s = t
             /\ \A m \in net' : m.event # "Stop" => m \in net
  <2>1. now + skew <= now + Skew
    BY <1>3, NumbersAre
  <2> DEFINE h == Hook("Stop", now, 1)
             k == Hook("Stop", now + skew, 2)
  <2>2. h.event = "Stop" /\ h.id = 1 /\ h.ts = now /\ k.event = "Stop" /\ k.id = 2 /\ k.ts <= now + Skew
    BY <2>1 DEF Hook
  <2>3. net' = net \cup {h, k}
    BY <1>3
  <2> HIDE DEF h, k
  <2>4. \A m \in net' : m \in net \/ m = h \/ m = k
    BY <2>3
  <2> QED BY <1>1, <2>2, <2>3, <2>4 DEF Stops, Prompts
<1> QED BY <1>1, <1>2, <1>3 DEF End

\* The stops and the prompts on their way stay as they are.
SameHooks == Stops' = Stops /\ Prompts' = Prompts /\ unseen' = unseen /\ behind' = behind

\* The others send no stop and no prompt.
LEMMA OthersSend ==
    ASSUME Bounds,
           \/ Twin \/ Land \/ Abort \/ Work \/ Ask \/ Answered \/ Break \/ Fizzle \/ Compacted
           \/ Survey \/ Judge \/ Recheck \/ Tick \/ UNCHANGED vars
    PROVE  /\ SameHooks /\ rec' = rec
           /\ \A m \in net' : m.event = "PreCompact" => m \in net
           /\ ~Compacted => \A m \in net' : m.event \in {"PostCompact", "CompactStart"} => m \in net
<1>1. CASE \/ Land \/ Abort \/ Work \/ Answered \/ Break \/ Fizzle
           \/ Survey \/ Judge \/ Recheck \/ Tick \/ UNCHANGED vars
  BY <1>1 DEF Land, Abort, Work, Answered, Break, Fizzle, Survey, Judge, Recheck, Tick, vars,
              SameHooks, Stops, Prompts
<1>2. ASSUME NEW e \in {"EmptyPrompt", "Notification"}, net' = net \cup {Hook(e, now, 0)},
             rec' = rec, unseen' = unseen, behind' = behind
      PROVE  /\ SameHooks /\ rec' = rec
             /\ \A m \in net' : m.event \in {"PreCompact", "PostCompact", "CompactStart"} => m \in net
  <2>1. Hook(e, now, 0).event = e
    BY DEF Hook
  <2> QED BY <1>2, <2>1 DEF SameHooks, Stops, Prompts
<1>3. CASE Twin
  BY <1>2, <1>3 DEF Twin
<1>4. CASE Ask
  BY <1>2, <1>4 DEF Ask
<1>5. CASE Compacted
  <2>1. /\ rec' = rec /\ unseen' = unseen /\ behind' = behind
        /\ net' \in {net, net \cup {Hook("PostCompact", now, 0), Hook("CompactStart", now, 0)}}
    BY <1>5 DEF Compacted
  <2>2. Hook("PostCompact", now, 0).event = "PostCompact" /\ Hook("CompactStart", now, 0).event = "CompactStart"
    BY DEF Hook
  <2> QED BY <1>5, <2>1, <2>2 DEF SameHooks, Stops, Prompts
<1> QED BY <1>1, <1>3, <1>4, <1>5

\* A hook that is delivered, or lost.
LEMMA LoseSends ==
    ASSUME Bounds, Lose
    PROVE  /\ Stops' \subseteq Stops /\ Prompts' \subseteq Prompts /\ net' \subseteq net
           /\ unseen' = unseen /\ behind' = behind /\ rec' = rec /\ pass' = pass /\ now' = now
           /\ tail' = tail /\ claude' = claude
  BY DEF Lose, Stops, Prompts

\* The step that delivers the hook m, and what it changes.
Delivers(m) ==
    /\ m \in net /\ m.ts <= now /\ OnHookEvent(m)
    /\ net' = net \ {m}
    /\ unseen' = IF Opens(m) THEN unseen \ {m.id} ELSE unseen
    /\ pass' = [pass EXCEPT !.late =
                   @ \/ (m.event = "UserPromptSubmit" /\ pass.at = "firing")
                     \/ (m.event = "PreCompact" /\ pass.at # "between")]
    /\ UNCHANGED <<now, claude, tail, heart, scan, used>>

\* A delivery is that of some hook.
LEMMA DeliverIs == Deliver => \E m \in net : Delivers(m)
  BY DEF Deliver, Delivers

\* What the delivery of m leaves on its way and in the pass.
LEMMA DeliversIs ==
    ASSUME Bounds, NEW m, Delivers(m)
    PROVE  /\ Stops' \subseteq Stops /\ Prompts' \subseteq Prompts /\ net' \subseteq net
           /\ unseen' \subseteq unseen
           /\ unseen' # unseen => Opens(m) /\ m.id \in unseen
           /\ m.event = "UserPromptSubmit" /\ m.id \in unseen => m \in Prompts
           /\ m.event = "Stop" => m \in Stops /\ m \notin Stops'
           /\ IsHook(m) /\ m.event \in Events /\ OnHookEvent(m)
           /\ pass'.at = pass.at /\ pass'.verdict = pass.verdict /\ pass'.write = pass.write
           /\ pass.late => pass'.late
           /\ m.event = "UserPromptSubmit" /\ pass.at = "firing" => pass'.late
           /\ m.event = "PreCompact" /\ pass.at # "between" => pass'.late
           /\ UNCHANGED <<now, claude, tail>>
<1>1. IsHook(m) /\ m.event \in Events
  BY NetHook DEF Delivers, Bounds, TypeOK
<1>2. /\ pass'.at = pass.at /\ pass'.verdict = pass.verdict /\ pass'.write = pass.write
      /\ pass'.late = (pass.late \/ (m.event = "UserPromptSubmit" /\ pass.at = "firing")
                                 \/ (m.event = "PreCompact" /\ pass.at # "between"))
  BY DEF Delivers, Bounds, TypeOK
<1>3. /\ Stops' \subseteq Stops /\ Prompts' \subseteq Prompts /\ net' \subseteq net
      /\ unseen' \subseteq unseen
      /\ unseen' # unseen => Opens(m) /\ m.id \in unseen
      /\ m.event = "UserPromptSubmit" /\ m.id \in unseen => m \in Prompts
      /\ m.event = "Stop" => m \in Stops /\ m \notin Stops'
  BY DEF Delivers, Stops, Prompts
<1>4. OnHookEvent(m) /\ UNCHANGED <<now, claude, tail>>
  BY DEF Delivers
<1> QED BY <1>1, <1>2, <1>3, <1>4

----------------------------------------------------------------------------
(***************************************************************************)
(* The stops, the prompts, the count.                                       *)
(***************************************************************************)

\* No time goes back.
LEMMA TimesGrow ==
    ASSUME Bounds, TailKnown, [Next]_vars
    PROVE  tail'.write >= tail.write /\ claude'.since >= claude.since /\ now' >= now
<1> USE NumbersAre
<1>1. CASE Submit \/ TypeAhead \/ Compact
  BY <1>1, ClaudeIs, SubmitSends, TypeAheadSends, CompactSends
<1>2. CASE Land \/ Work \/ Ask \/ Break \/ Compacted
  <2>1. now' = now
    BY <1>2 DEF Land, Work, Ask, Break, Compacted
  <2> QED BY <1>2, <2>1, ClaudeIs
<1>3. CASE Abort \/ Answered \/ Survey
  <2>1. now' = now /\ tail' = tail /\ (Survey => claude' = claude)
    BY <1>3 DEF Abort, Answered, Survey
  <2> QED BY <1>3, <2>1, ClaudeIs
<1>4. CASE End
  BY <1>4, EndIs, EndSends
<1>5. CASE Fizzle
  <2>1. now' = now
    BY <1>5 DEF Fizzle
  <2> QED BY <1>5, <2>1, FizzleIs
<1>6. CASE Tick
  BY <1>6, ClockIs
<1>7. CASE Twin \/ Deliver \/ Lose \/ Judge \/ Recheck \/ Synthesize \/ UNCHANGED vars
  BY <1>7, OthersStay
<1> QED BY <1>1, <1>2, <1>3, <1>4, <1>5, <1>6, <1>7 DEF Next, Claude, Scanner

\* An event of the scanner changes no hook, and the count only as HookIs says.
LEMMA SynthesizeSends ==
    ASSUME Bounds, Synthesize
    PROVE  /\ Stops' = Stops /\ Prompts' = Prompts /\ unseen' = unseen /\ net' = net
           /\ UNCHANGED <<now, claude, tail>>
           /\ rec'.lastPrompt = rec.lastPrompt
           /\ behind => behind'
           /\ ~behind' /\ InTurns => rec'.queued >= rec.queued
           /\ ~behind' /\ InTurns /\ rec.state \in InFlight => rec'.state \in InFlight
           /\ ~behind' /\ ~CleanRest => pass.verdict # "stop"
           /\ pass.verdict \notin {"stop", "error"} => rec'.compacting = rec.compacting
           /\ pass.at = "firing" /\ pass'.at = "between"
           /\ advance' # advance => pass.verdict = "stop"
<1> DEFINE m == Hook(Synthesized, now, 0)
<1>1. /\ OnHookEvent(m) /\ pass.at = "firing" /\ pass' = NoPass
      /\ UNCHANGED <<now, claude, tail, net, unseen>>
  BY DEF Synthesize
<1>2. /\ IsHook(m)
      /\ m.event \notin {"Stop", "UserPromptSubmit", "PreCompact", "PostCompact", "CompactStart"}
      /\ m.event = "QuiescentStop" <=> pass.verdict = "stop"
      /\ m.event = "ApiError" <=> pass.verdict = "error"
  BY <1>1, SynthHook
<1> HIDE DEF m
<1>3. rec' \in Records /\ rec.queued \in Nat /\ rec'.queued \in Nat
  BY <1>1, <1>2, HookIs, NumbersAre DEF Records
<1>4. ~behind' /\ InTurns => rec'.queued >= rec.queued
  BY <1>1, <1>2, <1>3, HookIs
<1>5. pass.verdict \notin {"stop", "error"} => rec'.compacting = rec.compacting
  BY <1>1, <1>2, HookIs DEF CompactingAfter
<1>6. /\ rec'.lastPrompt = rec.lastPrompt
      /\ behind => behind'
      /\ ~behind' /\ InTurns /\ rec.state \in InFlight => rec'.state \in InFlight
      /\ ~behind' /\ ~CleanRest => pass.verdict # "stop"
      /\ advance' # advance => pass.verdict = "stop"
  BY <1>1, <1>2, HookIs
<1>7. Stops' = Stops /\ Prompts' = Prompts /\ pass'.at = "between"
  BY <1>1 DEF Stops, Prompts, NoPass
<1> QED BY <1>1, <1>4, <1>5, <1>6, <1>7

\* Stops are stamped by the end of their turn.
LEMMA StopTimesStep == Bounds /\ TailKnown /\ StopTimes /\ [Next]_vars => StopTimes'
<1> SUFFICES ASSUME Bounds, TailKnown, StopTimes, [Next]_vars,
                    NEW s \in Stops'
             PROVE  s.id \in 0..2 /\ s.ts <= tail'.write + Slack(s)
  BY DEF StopTimes, Slack
<1>1. ASSUME s \in Stops PROVE s.id \in 0..2 /\ s.ts <= tail'.write + Slack(s)
  <2>1. s.ts \in Nat
    BY <1>1 DEF Stops, Bounds, TypeOK
  <2>2. tail'.write >= tail.write /\ tail'.write \in Nat /\ tail.write \in Nat
    BY TimesGrow, BoundsStep, NumbersAre DEF Bounds, TypeOK
  <2> QED BY <1>1, <2>1, <2>2, ThresholdsAssumption DEF StopTimes, Slack
<1>2. CASE End
  BY <1>1, <1>2, EndIs, EndSends, NumbersAre DEF Slack
<1>3. CASE Deliver
  BY <1>1, <1>3, DeliverIs, DeliversIs
<1>4. CASE ~End /\ ~Deliver
  <2>1. Stops' \subseteq Stops
    BY <1>4, SubmitSends, TypeAheadSends, CompactSends, OthersSend, LoseSends, SynthesizeSends
       DEF SameHooks, Next, Claude, Scanner
  <2> QED BY <1>1, <2>1
<1> QED BY <1>2, <1>3, <1>4

\* An old stop stays old.
LEMMA OldStays ==
    ASSUME Bounds, TailKnown, [Next]_vars, NEW s \in Stops, OldStop(s),
           \A m \in Prompts' : m \in Prompts \/ m.ts >= claude.since,
           unseen' = {} =>
              \/ unseen = {} /\ rec'.lastPrompt >= rec.lastPrompt
              \/ \E m \in Prompts : rec'.lastPrompt >= m.ts
    PROVE  OldStop(s)'
<1>1. s.ts \in Nat /\ Slack(s) \in Nat
  BY ThresholdsAssumption DEF Stops, Slack, Bounds, TypeOK
<1>2. claude.since \in Nat /\ claude'.since \in Nat /\ claude'.since >= claude.since
      /\ rec.lastPrompt \in Nat /\ rec'.lastPrompt \in Nat
  BY TimesGrow, NumbersAre, BoundsStep DEF Bounds, TypeOK
<1>3. \A m \in Prompts : m.ts \in Nat /\ 1 <= m.ts
  BY DEF Prompts, Bounds, TypeOK
<1>4. \A m \in Prompts' : m.ts \in Nat
  BY BoundsStep DEF Prompts, Bounds, TypeOK
<1>5. s.ts < claude'.since + Slack(s)
  BY <1>1, <1>2 DEF OldStop
<1>6. \A m \in Prompts' : s.ts < m.ts + Slack(s)
  BY <1>1, <1>2, <1>3, <1>4 DEF OldStop
<1>7. unseen' = {} => rec'.lastPrompt # 0 /\ s.ts < rec'.lastPrompt + Slack(s)
  BY <1>1, <1>2, <1>3 DEF OldStop
<1> QED BY <1>5, <1>6, <1>7 DEF OldStop, Slack

(* The steps that leave claude, its transcript, the record and what matters  *)
(* of the hooks as they are.                                                *)
Keeps ==
    /\ SameHooks /\ UNCHANGED <<claude, tail, rec>>
    /\ \A m \in net' : m \in net \/ m.event = "EmptyPrompt"

\* The survey, the scanner before its event, the clock, and an empty twin.
LEMMA KeepsIs ==
    ASSUME Twin \/ Survey \/ Judge \/ Recheck \/ Tick \/ UNCHANGED vars
    PROVE  Keeps
<1>1. CASE Survey \/ Judge \/ Recheck \/ Tick \/ UNCHANGED vars
  BY <1>1 DEF Survey, Judge, Recheck, Tick, vars, Keeps, SameHooks, Stops, Prompts
<1>2. CASE Twin
  <2>1. /\ net' = net \cup {Hook("EmptyPrompt", now, 0)}
        /\ UNCHANGED <<claude, tail, rec, unseen, behind>>
    BY <1>2 DEF Twin
  <2>2. Hook("EmptyPrompt", now, 0).event = "EmptyPrompt"
    BY DEF Hook
  <2> QED BY <2>1, <2>2 DEF Keeps, SameHooks, Stops, Prompts
<1> QED BY <1>1, <1>2

\* A start is known by its prompt until it lands or is given up.
LEMMA SubmitStep == Bounds /\ StopsKnown /\ SubmitKnown /\ [Next]_vars => SubmitKnown'
<1> SUFFICES ASSUME Bounds, StopsKnown, SubmitKnown, [Next]_vars,
                    claude'.phase = "start", ~claude'.batch
             PROVE  /\ \A m \in Prompts' : claude'.since <= m.ts
                    /\ unseen' = {} => claude'.since <= rec'.lastPrompt
  BY DEF SubmitKnown
<1> USE NumbersAre
<1>1. CASE Submit
  BY <1>1, ClaudeIs, SubmitSends
<1>2. CASE TypeAhead
  BY <1>2, ClaudeIs, TypeAheadSends DEF SubmitKnown
<1>3. CASE Deliver
  <2>1. PICK m \in net : Delivers(m)
    BY <1>3, DeliverIs
  <2>2. /\ Prompts' \subseteq Prompts /\ claude' = claude
        /\ rec'.lastPrompt >= rec.lastPrompt /\ rec'.lastPrompt \in Nat
        /\ m.event = "UserPromptSubmit" => rec'.lastPrompt >= m.ts
        /\ m.event = "UserPromptSubmit" /\ m.id \in unseen => m \in Prompts
        /\ unseen' # unseen => Opens(m) /\ m.id \in unseen
    BY <2>1, DeliversIs, HookIs DEF Records
  <2>3. m.event = "PreCompact" => m.id \notin unseen
    BY <2>2 DEF StopsKnown, InTurns, NoneOpens
  <2>4. ASSUME unseen' = {} PROVE claude'.since <= rec'.lastPrompt
    <3>1. CASE unseen = {}
      BY <2>2, <3>1 DEF SubmitKnown
    <3>2. CASE unseen # {}
      <4>1. m \in Prompts /\ rec'.lastPrompt >= m.ts
        BY <2>2, <2>3, <2>4, <3>2 DEF Opens
      <4>2. claude.since <= m.ts /\ m.ts \in Nat
        BY <2>2, <4>1 DEF SubmitKnown, Prompts, Bounds, TypeOK
      <4> QED BY <2>2, <4>1, <4>2
    <3> QED BY <3>1, <3>2
  <2> QED BY <2>2, <2>4 DEF SubmitKnown
<1>4. CASE Lose
  BY <1>4, LoseSends DEF SubmitKnown
<1>5. CASE Synthesize
  BY <1>5, SynthesizeSends DEF SubmitKnown
<1>6. CASE Land \/ Abort \/ Work \/ Ask \/ Answered \/ Break \/ Compact \/ Compacted
  BY <1>6, ClaudeIs
<1>7. CASE End \/ Fizzle
  BY <1>7, EndIs, FizzleIs
<1>8. CASE Twin \/ Survey \/ Judge \/ Recheck \/ Tick \/ UNCHANGED vars
  BY <1>8, KeepsIs DEF Keeps, SameHooks, SubmitKnown
<1> QED BY <1>1, <1>2, <1>3, <1>4, <1>5, <1>6, <1>7, <1>8 DEF Next, Claude, Scanner

\* The record has the window of the compaction that runs.
LEMMA CompactionStep ==
    Bounds /\ TailKnown /\ StopTimes /\ PassKnown /\ CompactionKnown /\ [Next]_vars => CompactionKnown'
<1> SUFFICES ASSUME Bounds, TailKnown, StopTimes, PassKnown, CompactionKnown, [Next]_vars,
                    claude'.phase = "compact"
             PROVE  /\ \A m \in net' : /\ m.event \notin {"PostCompact", "CompactStart"}
                                       /\ m.event = "PreCompact" => m.ts = claude'.since
                    /\ Prompts' = {}
                    /\ \A s \in Stops' : s.id = 2
                    /\ unseen' = {} /\ ~behind' /\ tail'.kind # "error" => rec'.compacting = claude'.since
  BY DEF CompactionKnown
<1> USE NumbersAre
<1>1. CASE Compact
  <2>1. \A s \in Stops : s.id = 2
    BY <1>1, CompactSends DEF StopTimes
  <2> QED BY <1>1, <2>1, ClaudeIs, CompactSends
<1>2. CASE Deliver
  <2>1. PICK m \in net : Delivers(m)
    BY <1>2, DeliverIs
  <2>2. /\ Prompts' \subseteq Prompts /\ Stops' \subseteq Stops /\ net' \subseteq net
        /\ UNCHANGED <<claude, tail>> /\ m.event \in Events
        /\ behind => behind'
        /\ rec'.compacting = CompactingAfter(m)
        /\ ~behind' /\ claude.phase = "compact" => m.event # "Stop"
        /\ m.event = "UserPromptSubmit" /\ m.id \in unseen => m \in Prompts
        /\ unseen' # unseen => Opens(m) /\ m.id \in unseen
    BY <2>1, DeliversIs, HookIs
  <2>3. ASSUME unseen' = {}, ~behind', tail'.kind # "error" PROVE rec'.compacting = claude'.since
    <3>1. m.event \in {"UserPromptSubmit", "EmptyPrompt", "Notification", "PreCompact"}
      BY <2>2, <2>3 DEF CompactionKnown, Events
    <3>2. CASE m.event = "PreCompact"
      BY <2>2, <3>2 DEF CompactionKnown, CompactingAfter
    <3>3. CASE m.event # "PreCompact"
      <4>1. unseen = {}
        BY <2>2, <2>3, <3>3 DEF CompactionKnown, Opens
      <4>2. CompactingAfter(m) = rec.compacting
        BY <3>1, <3>3 DEF CompactingAfter
      <4> QED BY <2>2, <2>3, <4>1, <4>2 DEF CompactionKnown
    <3> QED BY <3>2, <3>3
  <2> QED BY <2>2, <2>3 DEF CompactionKnown
<1>3. CASE Lose
  BY <1>3, LoseSends DEF CompactionKnown
<1>4. CASE Synthesize
  <2>1. ASSUME unseen' = {}, ~behind', tail'.kind # "error" PROVE rec'.compacting = claude'.since
    <3>1. pass.verdict # "stop"
      BY <1>4, <2>1, SynthesizeSends DEF CleanRest
    <3>2. pass.verdict # "error"
      BY <1>4, <2>1, SynthesizeSends DEF PassKnown, TailKnown
    <3> QED BY <1>4, <2>1, <3>1, <3>2, SynthesizeSends DEF CompactionKnown
  <2> QED BY <1>4, <2>1, SynthesizeSends DEF CompactionKnown
<1>5. CASE Submit \/ TypeAhead \/ Land \/ Abort \/ Work \/ Ask \/ Answered \/ Break \/ Compacted
  BY <1>5, ClaudeIs
<1>6. CASE End \/ Fizzle
  BY <1>6, EndIs, FizzleIs
<1>7. CASE Twin \/ Survey \/ Judge \/ Recheck \/ Tick \/ UNCHANGED vars
  <2>1. Keeps
    BY <1>7, KeepsIs
  <2>2. \A m \in net' : m.event # "EmptyPrompt" => m \in net
    BY <2>1 DEF Keeps
  <2> QED BY <2>1, <2>2 DEF Keeps, SameHooks, CompactionKnown
<1> QED BY <1>1, <1>2, <1>3, <1>4, <1>5, <1>6, <1>7 DEF Next, Claude, Scanner

\* The count of the prompts typed ahead.
LEMMA CountedStep == Bounds /\ StopsKnown /\ Counted /\ [Next]_vars => Counted'
<1> SUFFICES ASSUME Bounds, StopsKnown, Counted, [Next]_vars,
                    InTurns', ~behind'
             PROVE  /\ rec'.state \notin InFlight =>
                          /\ unseen' # {}
                          /\ claude'.ahead > 0 \/ claude'.batch => \E i, j \in unseen' : i # j
                    /\ claude'.ahead > 0 => rec'.queued > 0 \/ unseen' # {}
  BY DEF Counted
<1> USE NumbersAre
<1>1. CASE Submit
  BY <1>1, ClaudeIs, SubmitSends
<1>2. CASE TypeAhead
  <2>1. InTurns /\ ~behind
    BY <1>2, ClaudeIs, TypeAheadSends DEF InTurns
  <2> QED BY <1>2, <2>1, TypeAheadSends DEF Counted
<1>3. CASE Land \/ Work \/ Ask \/ Answered
  <2>1. SameHooks /\ rec' = rec /\ claude'.batch = claude.batch /\ claude'.ahead = claude.ahead /\ InTurns
    BY <1>3, OthersSend, ClaudeIs DEF InTurns
  <2> QED BY <2>1 DEF Counted, SameHooks
<1>4. CASE Abort \/ Break \/ Compact \/ Compacted
  BY <1>4, ClaudeIs DEF InTurns
<1>5. CASE End \/ Fizzle
  <2>1. /\ unseen' = unseen /\ behind' = behind /\ rec' = rec
        /\ InTurns /\ claude'.ahead = 0 /\ claude.ahead > 0
    BY <1>5, EndIs, FizzleIs, EndSends, OthersSend DEF InTurns, SameHooks
  <2> QED BY <2>1 DEF Counted
<1>6. CASE Deliver
  <2>1. PICK m \in net : Delivers(m)
    BY <1>6, DeliverIs
  <2>2. /\ IsHook(m) /\ OnHookEvent(m) /\ claude' = claude
        /\ unseen' # unseen => Opens(m) /\ m.id \in unseen
    BY <2>1, DeliversIs
  <2>3. /\ behind => behind'
        /\ m.event = "UserPromptSubmit" => rec'.state \in InFlight
        /\ m.event = "UserPromptSubmit" /\ rec.state \in InFlight => rec'.queued > 0
        /\ rec.state \in InFlight => rec'.state \in InFlight
        /\ rec'.queued < rec.queued => claude.ahead = 0
        /\ rec'.queued \in Nat
    <3>1. InTurns
      BY <2>2 DEF InTurns
    <3>2. rec' \in Records
      BY <2>2, HookIs
    <3>3. rec'.queued \in Nat
      BY <3>2 DEF Records
    <3> QED BY <2>2, <3>1, <3>3, HookIs
  <2>4. ~behind /\ InTurns
    BY <2>2, <2>3 DEF InTurns
  <2>5. unseen' # unseen => m.event = "UserPromptSubmit"
    BY <2>2, <2>4 DEF StopsKnown, NoneOpens, Opens
  <2>6. unseen \ {m.id} \subseteq unseen'
    BY <2>1 DEF Delivers
  <2>7. CASE rec.state \in InFlight
    <3>1. claude.ahead > 0 => rec'.queued > 0 \/ unseen' # {}
      BY <2>3, <2>4, <2>5, <2>7 DEF Counted
    <3> QED BY <2>2, <2>3, <2>7, <3>1
  <2>8. CASE rec.state \notin InFlight
    <3>1. /\ unseen # {}
          /\ claude.ahead > 0 \/ claude.batch => \E i, j \in unseen : i # j
      BY <2>4, <2>8 DEF Counted
    <3>2. CASE m.event = "UserPromptSubmit"
      BY <2>2, <2>3, <2>6, <3>1, <3>2
    <3>3. CASE m.event # "UserPromptSubmit"
      BY <2>2, <2>5, <3>1, <3>3
    <3> QED BY <3>2, <3>3
  <2> QED BY <2>7, <2>8
<1>7. CASE Lose
  BY <1>7, LoseSends DEF Counted, InTurns
<1>8. CASE Synthesize
  <2>1. /\ unseen' = unseen /\ claude' = claude /\ (behind => behind')
        /\ InTurns
        /\ rec'.queued >= rec.queued
        /\ rec.state \in InFlight => rec'.state \in InFlight
    BY <1>8, SynthesizeSends DEF InTurns
  <2>2. rec'.queued \in Nat
    BY BoundsStep DEF Bounds, TypeOK
  <2> QED BY <2>1, <2>2 DEF Counted
<1>9. CASE Twin \/ Survey \/ Judge \/ Recheck \/ Tick \/ UNCHANGED vars
  BY <1>9, KeepsIs DEF Keeps, SameHooks, Counted, InTurns
<1> QED BY <1>1, <1>2, <1>3, <1>4, <1>5, <1>6, <1>7, <1>8, <1>9 DEF Next, Claude, Scanner

\* The stops after a step that leaves the hooks and the record as they are.
LEMMA OldKeeps ==
    ASSUME Bounds, TailKnown, [Next]_vars, SameHooks, rec' = rec
    PROVE  \A s \in Stops : OldStop(s) => OldStop(s)'
<1> SUFFICES ASSUME NEW s \in Stops, OldStop(s) PROVE OldStop(s)'
  OBVIOUS
<1>1. /\ \A m \in Prompts' : m \in Prompts
      /\ unseen' = unseen /\ rec'.lastPrompt >= rec.lastPrompt
  BY NumbersAre DEF SameHooks
<1> QED BY <1>1, OldStays

\* Every stop on its way stays known.
LEMMA StopsStep ==
    /\ Bounds /\ TailKnown /\ StopTimes /\ CompactionKnown /\ StopsKnown /\ Counted
    /\ [Next]_vars
    => StopsKnown'
<1> SUFFICES ASSUME Bounds, TailKnown, StopTimes, CompactionKnown, StopsKnown, Counted, [Next]_vars
             PROVE  StopsKnown'
  OBVIOUS
<1> USE NumbersAre
<1>1. CASE Submit
  <2>1. /\ claude'.phase = "start" /\ ~claude'.batch /\ claude'.since = now /\ tail.write < now
        /\ Stops' = Stops /\ unseen' # {} /\ \A m \in Prompts' : m.ts = now
    BY <1>1, ClaudeIs, SubmitSends
  <2>2. NoneOpens'
    BY <1>1, SubmitSends DEF NoneOpens
  <2>3. ASSUME NEW s \in Stops' PROVE OldStop(s)'
    <3>1. s.ts \in Nat /\ s.ts <= tail.write + Slack(s) /\ Slack(s) \in Nat
      BY <2>1, ThresholdsAssumption DEF StopTimes, Slack, Stops, Bounds, TypeOK
    <3>2. s.ts < now + Slack(s)
      BY <2>1, <3>1
    <3> QED BY <2>1, <3>2 DEF OldStop, Slack
  <2>4. \A s \in Stops' : StopOK(s)'
    BY <2>3 DEF StopOK
  <2> QED BY <2>1, <2>2, <2>4 DEF StopsKnown
<1>2. CASE TypeAhead
  <2>1. /\ Stops' = Stops /\ unseen' # {} /\ behind' = behind
        /\ \A m \in Prompts' : m \in Prompts \/ m.ts >= claude.since
        /\ claude'.phase = claude.phase /\ claude'.batch = claude.batch
        /\ InTurns /\ rec' = rec
    BY <1>2, ClaudeIs, TypeAheadSends DEF InTurns
  <2>2. NoneOpens'
    BY <1>2, <2>1, TypeAheadSends DEF NoneOpens, StopsKnown
  <2>3. \A s \in Stops : OldStop(s) => OldStop(s)'
    BY <2>1, OldStays
  <2>4. \A s \in Stops' : StopOK(s)'
    BY <2>1, <2>3 DEF StopOK, StopsKnown, Chain
  <2> QED BY <2>1, <2>2, <2>3, <2>4 DEF StopsKnown, OnlySecond
<1>3. CASE Land
  <2>1. /\ SameHooks /\ rec' = rec /\ claude.phase = "start" /\ claude'.phase = "run"
        /\ claude'.batch = claude.batch
        /\ \A m \in net' : m.event = "PreCompact" => m \in net
    BY <1>3, OthersSend, ClaudeIs
  <2>2. NoneOpens'
    BY <2>1 DEF NoneOpens, StopsKnown, SameHooks, InTurns
  <2>3. claude.batch => \A s \in Stops' : s.id = 2
    <3>1. claude.batch => ~AwaitsStopHook
      BY <1>3 DEF Land
    <3> QED BY <2>1, <3>1 DEF AwaitsStopHook, SameHooks, StopTimes, Stops
  <2>4. \A s \in Stops' : StopOK(s)'
    BY <2>1, <2>3, OldKeeps DEF StopOK, StopsKnown, Chain, InTurns, SameHooks
  <2> QED BY <2>1, <2>2, <2>3, <2>4 DEF StopsKnown, OnlySecond
<1>4. CASE Abort
  <2>1. /\ SameHooks /\ rec' = rec /\ claude.phase = "start" /\ ~claude.batch /\ claude'.phase = "rest"
        /\ \A m \in net' : m.event = "PreCompact" => m \in net
    BY <1>4, OthersSend, ClaudeIs
  <2>2. NoneOpens'
    BY <2>1 DEF NoneOpens, StopsKnown, SameHooks, InTurns
  <2>3. \A s \in Stops' : StopOK(s)'
    BY <2>1, OldKeeps DEF StopOK, StopsKnown, Chain, InTurns, SameHooks
  <2> QED BY <2>1, <2>2, <2>3 DEF StopsKnown
<1>5. CASE Work \/ Ask \/ Answered
  <2>1. /\ SameHooks /\ rec' = rec /\ claude.phase \in {"run", "ask"} /\ claude'.phase \in {"run", "ask"}
        /\ claude'.batch = claude.batch
        /\ \A m \in net' : m.event = "PreCompact" => m \in net
    BY <1>5, OthersSend, ClaudeIs
  <2>2. NoneOpens'
    BY <2>1 DEF NoneOpens, StopsKnown, SameHooks, InTurns
  <2>3. \A s \in Stops' : StopOK(s)'
    BY <2>1, OldKeeps DEF StopOK, StopsKnown, Chain, InTurns, SameHooks
  <2> QED BY <2>1, <2>2, <2>3 DEF StopsKnown, OnlySecond, SameHooks
<1>6. CASE End
  <2>1. CASE ~(claude.ahead > 0)
    <3>1. claude'.phase = "rest" /\ tail'.kind = "end"
      BY <1>6, <2>1, EndIs
    <3> QED BY <3>1 DEF StopsKnown, Chain, InTurns
  <2>2. CASE claude.ahead > 0
    <3>1. /\ claude.phase = "run" /\ claude'.phase = "start" /\ claude'.batch /\ InTurns
      BY <1>6, <2>2, EndIs DEF InTurns
    <3>2. /\ Prompts' = Prompts /\ unseen' = unseen /\ behind' = behind /\ rec' = rec
          /\ \A s \in Stops' \ Stops : s.id \in {0, 1, 2}
          /\ \A s, t \in Stops' \ Stops : s.id # 2 /\ t.id # 2 => s = t
          /\ \A m \in net' : m.event = "PreCompact" => m \in net
      BY <1>6, EndSends
    <3>3. NoneOpens'
      BY <3>1, <3>2 DEF NoneOpens, StopsKnown
    <3>4. \A s \in Stops : OldStop(s) => OldStop(s)'
      BY <3>2, OldStays
    <3>5. \A s \in Stops' : StopOK(s)'
      BY <2>2, <3>1, <3>2, <3>4 DEF StopOK, StopsKnown, Chain, Counted
    <3>6. \A s \in Stops : s.id # 2 => OldStop(s)'
      BY <3>1, <3>4 DEF StopOK, StopsKnown, Chain, OnlySecond
    <3> QED BY <3>1, <3>2, <3>3, <3>5, <3>6 DEF StopsKnown
  <2> QED BY <2>1, <2>2
<1>7. CASE Break
  <2>1. /\ SameHooks /\ rec' = rec /\ claude.phase \in {"run", "ask"} /\ claude'.phase = "rest"
        /\ \A m \in net' : m.event = "PreCompact" => m \in net
    BY <1>7, OthersSend, ClaudeIs
  <2>2. NoneOpens'
    BY <2>1 DEF NoneOpens, StopsKnown, SameHooks, InTurns
  <2>3. \A s \in Stops' : StopOK(s)'
    BY <2>1, OldKeeps DEF StopOK, StopsKnown, Chain, InTurns, SameHooks, OnlySecond
  <2> QED BY <2>1, <2>2, <2>3 DEF StopsKnown
<1>8. CASE Fizzle
  <2>1. CASE ~(claude.ahead > 0)
    <3>1. claude'.phase = "rest" /\ tail'.kind = "prompt"
      BY <1>8, <2>1, FizzleIs
    <3> QED BY <3>1 DEF StopsKnown, Chain, InTurns
  <2>2. CASE claude.ahead > 0
    <3>1. /\ claude.phase = "run" /\ claude'.phase = "start" /\ claude'.batch
      BY <1>8, <2>2, FizzleIs
    <3>2. /\ SameHooks /\ rec' = rec
          /\ \A m \in net' : m.event = "PreCompact" => m \in net
      BY <1>8, OthersSend
    <3>3. NoneOpens'
      BY <3>1, <3>2 DEF NoneOpens, StopsKnown, SameHooks, InTurns
    <3>4. \A s \in Stops : OldStop(s) => OldStop(s)'
      BY <3>2, OldKeeps
    <3>5. \A s \in Stops' : StopOK(s)'
      BY <3>1, <3>2, <3>4 DEF StopOK, StopsKnown, Chain, InTurns, SameHooks
    <3>6. \A s \in Stops' : s.id # 2 => OldStop(s)'
      BY <3>1, <3>2, <3>4 DEF StopOK, StopsKnown, Chain, InTurns, OnlySecond, SameHooks
    <3> QED BY <3>1, <3>3, <3>5, <3>6 DEF StopsKnown
  <2> QED BY <2>1, <2>2
<1>9. CASE Compact
  <2>1. claude'.phase = "compact"
    BY <1>9, ClaudeIs
  <2> QED BY <2>1 DEF StopsKnown, Chain, InTurns
<1>10. CASE Compacted
  <2>1. SameHooks /\ claude.phase = "compact" /\ claude'.phase = "rest"
    BY <1>10, OthersSend, ClaudeIs
  <2>2. \A s \in Stops' : s.id = 2
    BY <2>1 DEF CompactionKnown, SameHooks
  <2> QED BY <2>1, <2>2 DEF StopsKnown, StopOK, OnlySecond, InTurns
<1>11. CASE Deliver
  <2>1. PICK m \in net : Delivers(m)
    BY <1>11, DeliverIs
  <2>2. /\ Stops' \subseteq Stops /\ Prompts' \subseteq Prompts /\ net' \subseteq net
        /\ unseen' \subseteq unseen /\ UNCHANGED <<claude, tail>>
        /\ unseen' # unseen => Opens(m) /\ m.id \in unseen
        /\ m.event = "UserPromptSubmit" /\ m.id \in unseen => m \in Prompts
        /\ m.event = "Stop" => m \in Stops /\ m \notin Stops'
        /\ IsHook(m) /\ OnHookEvent(m)
    BY <2>1, DeliversIs
  <2>3. CASE ~NoneOpens
    <3>1. ~InTurns /\ (Chain => OnlySecond)
      BY <2>3 DEF StopsKnown
    <3>2. Chain => claude.phase = "rest"
      BY <3>1 DEF Chain
    <3> QED BY <2>2, <3>1, <3>2 DEF StopsKnown, StopOK, OnlySecond, InTurns, Chain
  <2>4. CASE NoneOpens
    <3>1. NoneOpens'
      BY <2>2, <2>4 DEF NoneOpens
    <3>2. unseen' # unseen => m.event = "UserPromptSubmit" /\ m \in Prompts
      BY <2>2, <2>4 DEF NoneOpens, Opens
    <3>3. \A s \in Stops : OldStop(s) => OldStop(s)'
      <4>1. /\ rec'.lastPrompt >= rec.lastPrompt
            /\ m.event = "UserPromptSubmit" => rec'.lastPrompt >= m.ts
        BY <2>2, HookIs
      <4> QED BY <2>2, <3>2, <4>1, OldStays
    <3>4. ASSUME NEW s \in Stops', claude.phase = "start", claude.batch, s.id = 0,
                 behind \/ rec.queued > 0 \/ unseen # {},
                 ~behind', ~(rec'.queued > 0), unseen' = {}
          PROVE  OldStop(s)
      <4>1. InTurns /\ Chain /\ ~behind /\ rec'.queued \in Nat
        BY <2>2, <3>4, HookIs DEF InTurns, Chain, Records
      <4>2. CASE rec.queued > 0
        <5>1. rec'.queued < rec.queued
          BY <3>4, <4>1, <4>2
        <5>2. m.event = "Stop" /\ m.id # 2 /\ ~Stale(m)
          BY <2>2, <3>4, <4>1, <5>1, HookIs
        <5>3. m \in Stops /\ m # s /\ s \in Stops
          BY <2>2, <5>2
        <5>4. unseen = {}
          BY <3>2, <3>4, <5>2
        <5>5. ~OldStop(m)
          BY <5>2, <5>3, <5>4 DEF OldStop, Slack, Stale, Stops, Bounds, TypeOK
        <5> QED BY <3>4, <5>2, <5>3, <5>5 DEF StopsKnown
      <4>3. CASE unseen # {}
        <5>1. m.event = "UserPromptSubmit"
          BY <3>2, <3>4, <4>3
        <5>2. rec.state \notin InFlight
          BY <2>2, <3>4, <5>1, HookIs
        <5>3. \E i, j \in unseen : i # j
          BY <3>4, <4>1, <5>2 DEF Counted
        <5>4. unseen' = unseen \ {m.id}
          BY <2>1, <5>1 DEF Delivers, Opens
        <5> QED BY <3>4, <5>3, <5>4
      <4> QED BY <3>4, <4>1, <4>2, <4>3
    <3>5. ASSUME Chain, NEW s \in Stops' PROVE StopOK(s)'
      <4>1. StopOK(s)
        BY <2>2, <3>5 DEF StopsKnown
      <4> QED BY <2>2, <3>3, <3>4, <4>1 DEF StopOK
    <3>6. Chain' = Chain /\ InTurns' = InTurns
      BY <2>2 DEF Chain, InTurns
    <3>7. claude'.phase \in {"run", "ask"} /\ claude'.batch => OnlySecond'
      BY <2>2 DEF StopsKnown, OnlySecond
    <3>8. claude'.phase = "start" /\ claude'.batch =>
            \A s, t \in Stops' : s.id # 2 /\ t.id # 2 => OldStop(s)' \/ OldStop(t)' \/ s = t
      BY <2>2, <3>3 DEF StopsKnown
    <3> QED BY <3>1, <3>5, <3>6, <3>7, <3>8 DEF StopsKnown
  <2> QED BY <2>3, <2>4
<1>12. CASE Lose
  <2>1. /\ Stops' \subseteq Stops /\ Prompts' \subseteq Prompts /\ net' \subseteq net
        /\ unseen' = unseen /\ behind' = behind /\ rec' = rec /\ tail' = tail /\ claude' = claude
    BY <1>12, LoseSends
  <2>2. \A s \in Stops : OldStop(s) => OldStop(s)'
    BY <2>1, OldStays
  <2>3. Chain => \A s \in Stops' : StopOK(s)'
    BY <2>1, <2>2 DEF StopOK, StopsKnown
  <2> QED BY <2>1, <2>2, <2>3 DEF StopsKnown, Chain, InTurns, NoneOpens, OnlySecond
<1>13. CASE Synthesize
  <2>1. /\ Stops' = Stops /\ Prompts' = Prompts /\ unseen' = unseen /\ net' = net
        /\ UNCHANGED <<claude, tail>>
        /\ rec'.lastPrompt = rec.lastPrompt /\ (behind => behind')
        /\ ~behind' /\ InTurns => rec'.queued >= rec.queued
    BY <1>13, SynthesizeSends
  <2>2. \A s \in Stops : OldStop(s) => OldStop(s)'
    BY <2>1, OldStays
  <2>3. rec'.queued \in Nat
    BY BoundsStep DEF Bounds, TypeOK
  <2>4. Chain => \A s \in Stops' : StopOK(s)'
    <3>1. ASSUME Chain, NEW s \in Stops PROVE StopOK(s)'
      <4>1. StopOK(s)
        BY <3>1 DEF StopsKnown
      <4> QED BY <2>1, <2>2, <2>3, <4>1 DEF StopOK, InTurns
    <3> QED BY <2>1, <3>1
  <2> QED BY <2>1, <2>2, <2>4 DEF StopsKnown, Chain, InTurns, NoneOpens, OnlySecond
<1>14. CASE Twin \/ Survey \/ Judge \/ Recheck \/ Tick \/ UNCHANGED vars
  <2>1. Keeps
    BY <1>14, KeepsIs
  <2>2. SameHooks /\ rec' = rec /\ claude' = claude /\ tail' = tail
    BY <2>1 DEF Keeps
  <2>3. \A s \in Stops : OldStop(s) => OldStop(s)'
    BY <2>2, OldKeeps
  <2>4. Chain => \A s \in Stops' : StopOK(s)'
    BY <2>2, <2>3 DEF StopOK, StopsKnown, SameHooks
  <2>5. NoneOpens => NoneOpens'
    BY <2>1, <2>2 DEF Keeps, NoneOpens, SameHooks
  <2> QED BY <2>2, <2>3, <2>4, <2>5 DEF StopsKnown, Chain, InTurns, OnlySecond, SameHooks
<1> QED BY <1>1, <1>2, <1>3, <1>4, <1>5, <1>6, <1>7, <1>8, <1>9, <1>10, <1>11, <1>12, <1>13, <1>14
        DEF Next, Claude, Scanner

(* A stop that the scanner finds justified: claude rests, or has just been   *)
(* given a prompt or a compaction that the engine has not seen.             *)
LEMMA JudgedStopIs ==
    ASSUME Bounds, TailKnown, HeartKnown, SubmitKnown, CompactionKnown, Justified("stop"), ~CleanRest
    PROVE  /\ unseen # {} \/ behind
           /\ tail.write < now
           /\ \A m \in Prompts : tail.write < m.ts /\ now < m.ts + Grace
<1> USE NumbersAre, ThresholdsAssumption
<1>1. ~ErrorAtTail /\ (StopFromTail \/ StopFromPresenceIdle)
  BY DEF Justified
<1>2. /\ rec.state \in InFlight /\ ~NewerPromptNotYetInTranscript(tail.write)
      /\ \/ tail.kind \in {"end", "error", "interrupted"} /\ QuietFor >= Quiet
         \/ /\ tail.kind \notin {"end", "error", "interrupted"} /\ heart.shown = "idle"
            /\ QuietFor >= IdleFloor \/ QuietFor >= IdleQuiet
  BY <1>1 DEF StopFromTail, StopFromPresenceIdle, Terminal, InFlight
<1>3. /\ heart.shown # "busy" /\ ~CompactionInFlight /\ QuietFor = now - tail.write
      /\ 0 < Quiet /\ Lag < IdleFloor
  <2>1. 0 < Quiet /\ 0 < IdleQuiet /\ Lag < IdleFloor /\ 0 < IdleFloor
    OBVIOUS
  <2>2. QuietFor # 0
    BY <1>2, <2>1
  <2> QED BY <2>1, <2>2 DEF QuietFor
<1>4. tail.kind # "error"
  BY <1>1, <1>2 DEF ErrorAtTail, InFlight
<1>5. claude.phase \notin {"rest", "run", "ask"} /\ ~(claude.phase = "start" /\ claude.batch)
  BY <1>2, <1>3, <1>4 DEF CleanRest, TailKnown, HeartKnown
<1>6. CASE claude.phase = "start" /\ ~claude.batch
  <2>1. tail.write < claude.since /\ now < claude.since + Grace
    BY <1>6 DEF TailKnown
  <2>2. unseen # {}
    <3>1. SUFFICES ASSUME unseen = {} PROVE FALSE
      OBVIOUS
    <3>2. claude.since <= rec.lastPrompt
      BY <1>6, <3>1 DEF SubmitKnown
    <3> QED BY <1>2, <2>1, <3>2 DEF NewerPromptNotYetInTranscript
  <2>3. ASSUME NEW m \in Prompts PROVE tail.write < m.ts /\ now < m.ts + Grace
    <3>1. claude.since <= m.ts /\ m.ts \in Nat
      BY <1>6 DEF SubmitKnown, Prompts, Bounds, TypeOK
    <3> QED BY <2>1, <3>1
  <2> QED BY <2>1, <2>2, <2>3
<1>7. CASE claude.phase = "compact"
  <2>1. tail.write < claude.since /\ now <= claude.since + heart.lag /\ Prompts = {}
    BY <1>3, <1>7 DEF TailKnown, HeartKnown, CompactionKnown
  <2>2. unseen # {} \/ behind
    <3>1. SUFFICES ASSUME unseen = {}, ~behind PROVE FALSE
      OBVIOUS
    <3>2. rec.compacting = claude.since
      BY <1>4, <1>7, <3>1 DEF CompactionKnown
    <3> QED BY <1>3, <2>1, <3>2 DEF CompactionInFlight
  <2> QED BY <2>1, <2>2
<1> QED BY <1>5, <1>6, <1>7 DEF Phases

\* A verdict stays justified, or the recheck drops it.
LEMMA PassStep ==
    /\ Bounds /\ TailKnown /\ HeartKnown /\ SubmitKnown /\ CompactionKnown /\ PassKnown
    /\ [Next]_vars
    => PassKnown'
<1> SUFFICES ASSUME Bounds, TailKnown, HeartKnown, SubmitKnown, CompactionKnown, PassKnown, [Next]_vars
             PROVE  PassKnown'
  OBVIOUS
<1> USE NumbersAre
<1>1. CASE Judge
  <2>1. pass.at = "between"
    BY <1>1 DEF Judge
  <2>2. /\ UNCHANGED <<now, claude, tail, net, rec, unseen, behind>>
    BY <1>1 DEF Judge
  <2>3. CASE pass' = pass
    BY <2>1, <2>3 DEF PassKnown
  <2>4. ASSUME NEW v \in Verdicts, Justified(v),
               pass' = [at |-> "judged", verdict |-> v, write |-> tail.write, late |-> FALSE]
        PROVE  PassKnown'
    <3>1. pass'.at = "judged" /\ pass'.verdict = v /\ pass'.write = tail.write
      BY <2>4
    <3>2. v = "stop" /\ ~CleanRest =>
            /\ unseen # {} \/ behind
            /\ tail.write < now
            /\ \A m \in Prompts : tail.write < m.ts /\ now < m.ts + Grace
      BY <2>4, JudgedStopIs
    <3>3. v = "error" => tail.kind = "error"
      BY <2>4 DEF Justified, ErrorAtTail
    <3> QED BY <2>2, <3>1, <3>2, <3>3 DEF PassKnown, CleanRest, Prompts
  <2> QED BY <1>1, <2>3, <2>4 DEF Judge
<1>2. CASE Recheck
  <2>1. UNCHANGED <<now, claude, tail, net, rec, unseen, behind>> /\ pass.at = "judged"
    BY <1>2 DEF Recheck
  <2>2. CASE ~StillRight
    BY <1>2, <2>2 DEF Recheck, NoPass, PassKnown
  <2>3. CASE StillRight
    <3>1. pass'.at = "firing" /\ pass'.verdict = pass.verdict /\ pass'.late = pass.late
      BY <1>2, <2>3 DEF Recheck, Bounds, TypeOK
    <3>2. pass.verdict = "stop" => ~NewerPromptNotYetInTranscript(pass.write)
      BY <2>3 DEF StillRight
    <3> QED BY <2>1, <3>1, <3>2 DEF PassKnown, CleanRest
  <2> QED BY <2>2, <2>3
<1>3. CASE Synthesize
  BY <1>3, SynthesizeSends DEF PassKnown
<1>4. CASE Tick
  BY <1>4, ClockIs DEF PassKnown
<1>5. CASE Deliver
  <2>1. PICK m \in net : Delivers(m)
    BY <1>5, DeliverIs
  <2>2. /\ Prompts' \subseteq Prompts /\ UNCHANGED <<now, claude, tail>>
        /\ unseen' # unseen => Opens(m) /\ m.id \in unseen
        /\ m.event = "UserPromptSubmit" /\ m.id \in unseen => m \in Prompts
        /\ pass'.at = pass.at /\ pass'.verdict = pass.verdict /\ pass'.write = pass.write
        /\ pass.late => pass'.late
        /\ m.event = "UserPromptSubmit" /\ pass.at = "firing" => pass'.late
        /\ m.event = "PreCompact" /\ pass.at # "between" => pass'.late
    BY <2>1, DeliversIs
  <2>3. /\ rec'.lastPrompt >= rec.lastPrompt /\ rec'.lastPrompt \in Nat
        /\ m.event = "UserPromptSubmit" => rec'.lastPrompt >= m.ts
        /\ behind => behind'
    BY <2>1, DeliversIs, HookIs DEF Records
  <2>4. NewerPromptNotYetInTranscript(pass.write) => NewerPromptNotYetInTranscript(pass.write)'
    BY <2>2, <2>3, ThresholdsAssumption DEF NewerPromptNotYetInTranscript
  <2>5. ASSUME pass.verdict = "stop", pass.at # "between", ~CleanRest, unseen' # unseen
        PROVE  pass'.late \/ (pass.at = "judged" /\ NewerPromptNotYetInTranscript(pass.write)')
    <3>1. CASE m.event = "PreCompact"
      BY <2>2, <2>5, <3>1
    <3>2. CASE m.event = "UserPromptSubmit" /\ pass.at = "firing"
      BY <2>2, <3>2
    <3>3. CASE m.event = "UserPromptSubmit" /\ pass.at = "judged"
      <4>1. pass.write < m.ts /\ now < m.ts + Grace /\ m.ts \in Nat
        BY <2>2, <2>5, <3>3 DEF PassKnown, Prompts, Bounds, TypeOK
      <4>2. 1 <= pass.write
        BY <2>5 DEF Bounds
      <4> QED BY <2>2, <2>3, <3>3, <4>1, <4>2, ThresholdsAssumption DEF NewerPromptNotYetInTranscript
    <3> QED BY <2>2, <2>5, <3>1, <3>2, <3>3 DEF Opens, Bounds, TypeOK
  <2>6. CleanRest' = CleanRest
    BY <2>2 DEF CleanRest
  <2> QED BY <2>2, <2>3, <2>4, <2>5, <2>6 DEF PassKnown
<1>6. CASE Submit \/ Compact \/ TypeAhead
  <2>1. /\ pass' = pass /\ now' = now /\ rec' = rec /\ tail' = tail /\ unseen' # {}
        /\ \A m \in Prompts' : (m \in Prompts /\ TypeAhead) \/ m.ts = now
        /\ Submit \/ Compact => tail.write < now
        /\ TypeAhead => ~CleanRest
    BY <1>6, ClaudeIs, SubmitSends, CompactSends, TypeAheadSends DEF CleanRest
  <2>2. pass.at # "between" => pass.write <= tail.write
    BY DEF Bounds
  <2>3. ASSUME pass.verdict = "stop", pass.at = "judged"
        PROVE  pass.write < now /\ \A m \in Prompts' : pass.write < m.ts /\ now < m.ts + Grace
    <3>1. pass.write < now
      BY <1>6, <2>1, <2>2, <2>3 DEF PassKnown
    <3>2. now < now + Grace
      BY ThresholdsAssumption
    <3> QED BY <2>1, <2>3, <3>1, <3>2 DEF PassKnown
  <2> QED BY <2>1, <2>3 DEF PassKnown
<1>7. CASE \/ Twin \/ Land \/ Abort \/ Work \/ Ask \/ Answered \/ End \/ Break \/ Fizzle \/ Compacted
           \/ Lose \/ Survey \/ UNCHANGED vars
  <2>1. /\ pass' = pass /\ now' = now /\ rec' = rec
    BY <1>7 DEF Twin, Land, Abort, Work, Ask, Answered, End, Break, Fizzle, Compacted, Lose, Survey, vars
  <2>2. unseen' = unseen /\ behind' = behind /\ Prompts' \subseteq Prompts
    BY <1>7, OthersSend, EndSends, LoseSends DEF SameHooks
  <2>3. tail' = tail \/ tail'.write = now
    BY <1>7 DEF Twin, Land, Abort, Work, Ask, Answered, End, Break, Fizzle, Compacted, Lose, Survey, vars,
                Append, Bounds, TypeOK
  <2>4. CleanRest => CleanRest'
    <3>1. CASE Twin \/ Lose \/ Survey \/ UNCHANGED vars
      BY <3>1 DEF Twin, Lose, Survey, vars, CleanRest
    <3>2. CASE ~(Twin \/ Lose \/ Survey \/ UNCHANGED vars)
      BY <1>7, <3>2, ClaudeIs, EndIs, FizzleIs DEF CleanRest
    <3> QED BY <3>1, <3>2
  <2>5. NewerPromptNotYetInTranscript(pass.write)' = NewerPromptNotYetInTranscript(pass.write)
    BY <2>1 DEF NewerPromptNotYetInTranscript
  <2> QED BY <2>1, <2>2, <2>3, <2>4, <2>5 DEF PassKnown
<1> QED BY <1>1, <1>2, <1>3, <1>4, <1>5, <1>6, <1>7 DEF Next, Claude, Scanner

----------------------------------------------------------------------------
(***************************************************************************)
(* The theorems.                                                            *)
(***************************************************************************)

\* The inductive invariant.
IInv ==
    /\ Bounds /\ TailKnown /\ HeartKnown /\ StopTimes
    /\ CompactionKnown /\ SubmitKnown /\ StopsKnown /\ Counted /\ PassKnown

\* It holds at the start.
LEMMA InitIInv == Init => IInv
<1> SUFFICES ASSUME Init PROVE IInv
  OBVIOUS
<1>1. /\ now = 2 /\ net = {} /\ unseen = {} /\ behind = FALSE
      /\ claude.phase = "rest" /\ tail.kind = "end" /\ pass.at = "between"
  BY DEF Init, NoPass
<1>2. Stops = {} /\ Prompts = {}
  BY <1>1 DEF Stops, Prompts
<1>3. TypeOK
  <2> USE ThresholdsAssumption DEF Init
  <2>1. ASSUME NEW p \in Phases, NEW b \in BOOLEAN, NEW z \in {0}, NEW k \in TailKinds, NEW w \in {1},
               NEW s \in States, NEW h \in {"idle"}, NEW at \in {"between"}, NEW v \in {"none"}
        PROVE  /\ [phase |-> p, batch |-> b, ahead |-> z, since |-> z]
                     \in [phase: Phases, batch: BOOLEAN, ahead: 0..MaxInputs, since: 0..MaxNow]
               /\ [kind |-> k, write |-> w] \in [kind: TailKinds, write: 0..MaxNow]
               /\ [state |-> s, queued |-> z, lastPrompt |-> z, compacting |-> z]
                     \in [state: States, queued: 0..MaxQueued, lastPrompt: 0..MaxNow, compacting: 0..MaxNow]
               /\ [shown |-> h, lag |-> z] \in [shown: {"idle", "busy", "waiting"}, lag: 0..Lag]
               /\ [at |-> at, verdict |-> v, write |-> z, late |-> b]
                     \in [at: {"between", "judged", "firing"}, verdict: Verdicts \cup {"none"},
                          write: 0..MaxNow, late: BOOLEAN]
               /\ [unread |-> b, sawWaiting |-> b] \in [unread: BOOLEAN, sawWaiting: BOOLEAN]
               /\ [inputs |-> z, prompted |-> b, faults |-> z]
                     \in [inputs: 0..MaxInputs, prompted: BOOLEAN, faults: 0..MaxFaults]
    OBVIOUS
  <2>2. "rest" \in Phases /\ "end" \in TailKinds /\ "Idle" \in States /\ now \in 0..MaxNow
    BY DEF Phases, TailKinds, States
  <2>3. /\ claude \in [phase: Phases, batch: BOOLEAN, ahead: 0..MaxInputs, since: 0..MaxNow]
        /\ tail \in [kind: TailKinds, write: 0..MaxNow]
        /\ rec \in [state: States, queued: 0..MaxQueued, lastPrompt: 0..MaxNow, compacting: 0..MaxNow]
        /\ heart \in [shown: {"idle", "busy", "waiting"}, lag: 0..Lag]
        /\ pass \in [at: {"between", "judged", "firing"}, verdict: Verdicts \cup {"none"},
                     write: 0..MaxNow, late: BOOLEAN]
        /\ scan \in [unread: BOOLEAN, sawWaiting: BOOLEAN]
        /\ used \in [inputs: 0..MaxInputs, prompted: BOOLEAN, faults: 0..MaxFaults]
    BY <2>1, <2>2, Zenon DEF NoPass
  <2> QED BY <1>1, <2>2, <2>3 DEF TypeOK
<1>4. claude.ahead = 0 /\ claude.since = 0 /\ tail.write = 1 /\ used.inputs = 0
  BY DEF Init
<1>5. Bounds
  BY <1>1, <1>3, <1>4 DEF Bounds
<1> QED BY <1>1, <1>2, <1>5
     DEF IInv, TailKnown, HeartKnown, StopTimes, CompactionKnown, SubmitKnown, StopsKnown, Counted,
         PassKnown, Chain, InTurns

\* Every step keeps it.
LEMMA IInvStep == IInv /\ [Next]_vars => IInv'
  BY BoundsStep, TailStep, HeartStep, StopTimesStep, CompactionStep, SubmitStep, StopsStep, CountedStep,
     PassStep DEF IInv

(* A step that lets the advance seam fire.                                  *)
LEMMA CompletionStep ==
    ASSUME IInv, [Next]_vars, advance' # advance
    PROVE  \/ CleanRest
           \/ unseen # {} \/ behind \/ (pass' = NoPass /\ pass.late)
           \/ ByDuplicate /\ (claude.batch \/ claude.phase \in {"rest", "compact"})
<1> USE DEF IInv
<1> SUFFICES ASSUME ~CleanRest, unseen = {}, ~behind
             PROVE  \/ pass' = NoPass /\ pass.late
                    \/ ByDuplicate /\ (claude.batch \/ claude.phase \in {"rest", "compact"})
  OBVIOUS
<1>1. CASE Synthesize
  <2>1. pass.verdict = "stop" /\ pass.at = "firing" /\ pass' = NoPass
    BY <1>1, SynthesizeSends DEF Synthesize
  <2> QED BY <2>1 DEF PassKnown
<1>2. CASE Deliver
  <2>1. PICK m \in net : Delivers(m)
    BY <1>2, DeliverIs
  <2>2. /\ IsHook(m) /\ OnHookEvent(m) /\ m.event \in Events /\ net' = net \ {m}
        /\ m.event = "Stop" => m \in Stops
    BY <2>1, DeliversIs DEF Delivers
  <2>3. m.event = "Stop" /\ m \in Stops /\ ~Stale(m) /\ ~TooFast(m) /\ rec.queued = 0
    BY <2>2, HookIs DEF Events
  <2>4. m.id # 0 => ByDuplicate
    BY <2>2, <2>3 DEF ByDuplicate
  <2>5. ~OldStop(m)
    BY <2>3, NumbersAre, ThresholdsAssumption DEF OldStop, Slack, Stale, TooFast, Stops, Bounds, TypeOK
  <2>6. claude.phase \in {"start", "run", "ask", "compact"} \/ (claude.phase = "rest" /\ tail.kind = "error")
    BY NumbersAre DEF CleanRest, Phases
  <2>7. CASE claude.phase = "compact"
    BY <2>3, <2>4, <2>7 DEF CompactionKnown
  <2>8. CASE Chain
    BY <2>3, <2>4, <2>5, <2>8 DEF StopsKnown, StopOK
  <2> QED BY <2>6, <2>7, <2>8 DEF Chain, InTurns
<1>3. CASE ~Synthesize /\ ~Deliver
  <2>1. UNCHANGED advance
    BY <1>3 DEF Next, Claude, Scanner, vars, Submit, TypeAhead, Twin, Land, Abort, Work, Ask, Answered,
                End, Break, Fizzle, Compact, Compacted, Lose, Survey, Judge, Recheck, Tick
  <2> QED BY <2>1
<1> QED BY <1>1, <1>2, <1>3

(* The types: the record of SessionRegistry::OnHookEvent keeps its fields,  *)
(* the count of prompts typed ahead its cap, and what is used its bounds.   *)
THEOREM TypeCorrect == Spec => []TypeOK
<1>1. IInv => TypeOK
  BY DEF IInv, Bounds
<1> QED BY InitIInv, IInvStep, <1>1, PTL DEF Spec

(* The advance seam of SessionRegistry::OnHookEvent fires only when claude   *)
(* is at rest after a clean end, but for the exceptions of CompletionAtRest. *)
THEOREM CompletesAtRest == Spec => CompletionAtRest
<1>1. IInv /\ [Next]_vars =>
        [advance' # advance =>
            \/ CleanRest
            \/ unseen # {} \/ behind \/ (pass' = NoPass /\ pass.late)
            \/ ByDuplicate /\ (claude.batch \/ claude.phase \in {"rest", "compact"})]_vars
  BY CompletionStep
<1> QED BY InitIInv, IInvStep, <1>1, PTL DEF Spec, CompletionAtRest

\* Without faults, no stop is sent twice.
FirstOnly == \A s \in Stops : s.id = 0

\* It stays so.
LEMMA FirstOnlyStep ==
    ASSUME MaxFaults = 0, Bounds, FirstOnly, [Next]_vars
    PROVE  FirstOnly'
<1>1. CASE End
  <2>1. net' = net \cup {Hook("Stop", now, 0)}
    BY <1>1, ThresholdsAssumption DEF End, Bounds, TypeOK
  <2> QED BY <2>1 DEF FirstOnly, Stops, Hook
<1>2. CASE Deliver
  <2>1. PICK m \in net : Delivers(m)
    BY <1>2, DeliverIs
  <2> QED BY <2>1, DeliversIs DEF FirstOnly
<1>3. CASE ~End /\ ~Deliver
  <2>1. Stops' \subseteq Stops
    BY <1>3, SubmitSends, TypeAheadSends, CompactSends, OthersSend, LoseSends, SynthesizeSends
       DEF SameHooks, Next, Claude, Scanner
  <2> QED BY <2>1 DEF FirstOnly
<1> QED BY <1>1, <1>2, <1>3

(* Where no hook is lost, sent twice or has an empty twin, an advance fires  *)
(* only off a turn that has run, or while the running one is unknown or was  *)
(* miscounted, whatever the order in which hooks come to                    *)
(* NextSessionStateOrdered.                                                 *)
THEOREM AdvancesAfterTurns ==
    ASSUME MaxFaults = 0
    PROVE  Spec => AdvanceOnlyAfterTurn
<1>1. Init => FirstOnly
  BY DEF Init, FirstOnly, Stops
<1>2. IInv /\ FirstOnly /\ [Next]_vars => FirstOnly'
  BY FirstOnlyStep DEF IInv
<1>3. FirstOnly /\ [Next]_vars => ~ByDuplicate
  BY DEF FirstOnly, ByDuplicate, Stops
<1>4. IInv /\ FirstOnly /\ [Next]_vars =>
        [advance' # advance =>
            \/ CleanRest
            \/ unseen # {} \/ behind \/ (pass' = NoPass /\ pass.late)]_vars
  BY <1>3, CompletionStep
<1> QED BY InitIInv, IInvStep, <1>1, <1>2, <1>4, PTL DEF Spec, AdvanceOnlyAfterTurn
============================================================================
