----------------------------- MODULE TurnOrder -----------------------------
(***************************************************************************)
(* The state of one session as its hooks and the scanner make it, against   *)
(* the turns that claude really runs.                                       *)
(*                                                                          *)
(* claude fires a hook for each event; each hook travels in a process and a *)
(* connection of its own, so hooks arrive in any order, late, twice, or not *)
(* at all.  The registry folds them with NextSessionStateOrdered, which     *)
(* keeps two numbers (the newest prompt's stamp, the prompts typed ahead)   *)
(* to tell a stop of the newest turn from an older one.  The scanner reads  *)
(* the transcript and claude's heartbeat and synthesizes the events that    *)
(* were lost.  Time is counted in ticks; the thresholds are constants.      *)
(***************************************************************************)
EXTENDS Naturals, FiniteSets

CONSTANTS
    Floor,       \* kMinRealTurnSpanMs
    Skew,        \* how much after its turn's end a duplicate stop is stamped
    Quiet,       \* kScanStopQuiescenceMs
    IdleQuiet,   \* kScanPresenceIdleQuiescenceMs
    IdleFloor,   \* kScanPresenceIdleRunningQuiescenceMs
    Grace,       \* kScanPromptLandingGraceMs
    ExtGrace,    \* kScanExternalWorkGraceMs
    Fresh,       \* kScanRunRepairFreshMs
    Settle,      \* kCompactionPresenceSettleMs
    HoldMax,     \* kCompactionHoldMaxMs
    Delay,       \* a hook arrives at most this late, or is lost
    Lag,         \* the survey publishes a heartbeat at most this late
    Landing,     \* a batch turn writes its prompt at most this late
    MaxQueued,   \* kMaxQueuedPrompts
    MaxInputs,   \* bound: prompts, permission requests and compactions
    MaxFaults,   \* bound: hooks lost, stops sent twice, empty twins
    Horizon,     \* bound: claude and the user act up to this time
    MaxNow       \* bound: the clock

ASSUME ThresholdsAssumption ==
    /\ {Floor, Skew, Quiet, IdleQuiet, IdleFloor, Grace, ExtGrace, Fresh,
        Settle, HoldMax, Delay, Lag, Landing, MaxQueued, MaxInputs, MaxFaults,
        Horizon, MaxNow} \subseteq Nat
    /\ Skew < Floor
    /\ Lag < IdleQuiet /\ IdleQuiet <= IdleFloor /\ Lag < Settle /\ Settle <= HoldMax
    /\ Landing < Quiet /\ 0 < Grace /\ 0 < MaxQueued /\ 2 <= MaxNow

VARIABLES
    now,     \* the clock
    claude,  \* [phase, batch, ahead, since]: what claude does since when
    tail,    \* [kind, write]: the transcript's last line and its time
    net,     \* the hooks on their way
    rec,     \* the record: state, queued, lastPrompt, compacting
    heart,   \* [shown, lag]: presenceStatus and how long it has been wrong
    pass,    \* the scanner's pass: between the judgement and the event
    scan,    \* the scanner's memory: lines not read yet, "waiting" was seen
    unseen,  \* history: hooks that opened the newest chain, not applied so far
    behind,  \* history: the newest chain was taken for ended too soon, lost a
             \* prompt typed ahead, or its compaction window to an older stop
    advance, \* toggled by every completed turn (the advance seam)
    used     \* [inputs, prompted, faults]: what was used of the bounds

vars == <<now, claude, tail, net, rec, heart, pass, scan, unseen, behind,
          advance, used>>

States == {"Idle", "Running", "NeedsApproval", "WaitingForInput", "Error"}
InFlight == {"Running", "NeedsApproval"}
Phases == {"rest", "start", "run", "ask", "compact"}
TailKinds == {"prompt", "open", "end", "interrupted", "error"}
Events == {"UserPromptSubmit", "EmptyPrompt", "Notification", "Stop",
           "PreCompact", "PostCompact", "CompactStart"}
Verdicts == {"stop", "error", "run", "resume", "work", "block"}
Hook(e, ts, id) == [event |-> e, ts |-> ts, id |-> id]

(***************************************************************************)
(* The state machine of HookEvents.h.  A message m has an event, the time   *)
(* it was fired, and for a stop whether the scanner synthesized it.  The    *)
(* result is the record's state, its accounting, and turnComplete.          *)
(***************************************************************************)

\* NextSessionState: the machine without ordering.
NextSessionState(current, event) ==
    CASE event \in {"UserPromptSubmit", "EmptyPrompt", "Tool", "PreCompact"} -> "Running"
      [] event = "Notification" -> "NeedsApproval"
      [] event \in {"Stop", "QuiescentStop", "PostCompact"} -> "WaitingForInput"
      [] event = "ApiError" -> "Error"
      [] event = "CompactStart" ->
             IF current = "Error" THEN "Idle" ELSE current

\* Mutant of TooFast: the floor is missing.
NoFloor(m) == FALSE

\* A stop that was fired before the newest prompt, or too soon after it to
\* be the end of its turn.
Stale(m) == rec.lastPrompt # 0 /\ m.ts < rec.lastPrompt
TooFast(m) == rec.lastPrompt # 0 /\ m.ts < rec.lastPrompt + Floor

\* The compaction window: opened by PreCompact, closed by what ends it.
CompactingAfter(m) ==
    CASE m.event = "PreCompact" -> m.ts
      [] m.event \in {"PostCompact", "CompactStart", "Stop", "QuiescentStop", "ApiError"} -> 0
      [] OTHER -> rec.compacting

\* NextSessionStateOrdered for the stops that a hook reports.
AfterStop(m) ==
    IF Stale(m) THEN [rec |-> rec, complete |-> FALSE]
    ELSE IF rec.queued > 0
    THEN [rec |-> [rec EXCEPT !.queued = 0, !.state = "Running"], complete |-> FALSE]
    ELSE IF TooFast(m) THEN [rec |-> rec, complete |-> FALSE]
    ELSE [rec |-> [rec EXCEPT !.state = "WaitingForInput"], complete |-> TRUE]

\* Mutants of AfterPrompt: the cap is missing; a prompt typed ahead is not
\* counted.
UncappedPrompt(m) ==
    [rec EXCEPT !.state = "Running",
                !.queued = IF rec.state \in InFlight THEN @ + 1 ELSE @,
                !.lastPrompt = IF m.ts > @ THEN m.ts ELSE @]
UncountedPrompt(m) ==
    [rec EXCEPT !.state = "Running",
                !.lastPrompt = IF m.ts > @ THEN m.ts ELSE @]

\* NextSessionStateOrdered for a prompt that carries text.
AfterPrompt(m) ==
    [rec EXCEPT !.state = "Running",
                !.queued = IF rec.state \in InFlight /\ rec.queued < MaxQueued
                           THEN @ + 1 ELSE @,
                !.lastPrompt = IF m.ts > @ THEN m.ts ELSE @]

\* NextSessionStateOrdered for all the others.
Plain(m) ==
    LET s == NextSessionState(rec.state, m.event)
        consumed == m.event = "PostCompact" /\ rec.queued > 0
    IN  [rec |-> [rec EXCEPT
                    !.state = IF consumed THEN "Running" ELSE s,
                    !.queued = IF consumed \/ m.event \in {"QuiescentStop", "ApiError"}
                               THEN 0 ELSE @],
         complete |-> m.event = "QuiescentStop"]

Ordered(m) ==
    CASE m.event = "Stop" -> AfterStop(m)
      [] m.event = "UserPromptSubmit" -> [rec |-> AfterPrompt(m), complete |-> FALSE]
      [] OTHER -> Plain(m)

\* claude has ended its turns, and the last one did not die of an error.
CleanRest == claude.phase = "rest" /\ tail.kind # "error"

\* The record loses count of a prompt that was typed ahead: the turns go on,
\* but the event leaves the record at rest, or takes the prompts for taken up
\* although claude has not, or was not asked to by that stop.
Miscounted(m, o) ==
    /\ claude.phase \in {"start", "run", "ask"}
    /\ \/ rec.state \in InFlight /\ o.rec.state \notin InFlight
       \/ o.rec.queued < rec.queued /\ ~ (m.event = "Stop" /\ m.id # 2 /\ claude.ahead = 0)

\* SessionRegistry::OnHookEvent: the transition, the compaction window, and
\* the advance seam.
OnHookEvent(m) ==
    LET o == Ordered(m)
    IN  /\ rec' = [o.rec EXCEPT !.compacting = CompactingAfter(m)]
        /\ advance' = IF o.complete THEN ~advance ELSE advance
        /\ behind' = (behind \/ (o.complete /\ ~CleanRest) \/ Miscounted(m, o)
                             \/ (m.event = "Stop" /\ claude.phase = "compact"))

----------------------------------------------------------------------------
(***************************************************************************)
(* claude and its user.                                                     *)
(***************************************************************************)

\* The bound of what claude and the user do: then claude rests, or goes on
\* with its turn, for ever.
Active == now <= Horizon
Rest(p) == [phase |-> p, batch |-> claude.batch, ahead |-> 0, since |-> now]
Presence ==
    CASE claude.phase = "rest" -> "idle"
      [] claude.phase = "ask" -> "waiting"
      [] OTHER -> "busy"
Append(kind) == /\ tail' = [kind |-> kind, write |-> now]
                /\ scan' = [scan EXCEPT !.unread = TRUE]

\* A prompt is entered at rest, later than the last line was written.
Submit ==
    /\ Active /\ claude.phase = "rest" /\ used.inputs < MaxInputs
    /\ now > tail.write
    /\ claude' = [phase |-> "start", batch |-> FALSE, ahead |-> 0, since |-> now]
    /\ net' = net \cup {Hook("UserPromptSubmit", now, used.inputs + 1)}
    /\ unseen' = {used.inputs + 1}
    /\ behind' = FALSE
    /\ used' = [used EXCEPT !.inputs = @ + 1, !.prompted = TRUE]
    /\ UNCHANGED <<now, tail, rec, heart, pass, scan, advance>>

\* A prompt is entered while a turn runs: its hook fires now, and claude
\* takes it up after this turn, without another hook.
TypeAhead ==
    /\ Active /\ claude.phase \in {"start", "run"} /\ used.inputs < MaxInputs
    /\ claude' = [claude EXCEPT !.ahead = @ + 1]
    /\ net' = net \cup {Hook("UserPromptSubmit", now, used.inputs + 1)}
    /\ unseen' = unseen \cup {used.inputs + 1}
    /\ used' = [used EXCEPT !.inputs = @ + 1, !.prompted = TRUE]
    /\ UNCHANGED <<now, tail, rec, heart, pass, scan, behind, advance>>

\* The empty twin of a prompt's hook.
Twin ==
    /\ Active /\ used.prompted /\ used.faults < MaxFaults
    /\ net' = net \cup {Hook("EmptyPrompt", now, 0)}
    /\ used' = [used EXCEPT !.faults = @ + 1]
    /\ UNCHANGED <<now, claude, tail, rec, heart, pass, scan, unseen, behind, advance>>

\* claude waits for its stop hook before it goes on by itself (a duplicate
\* is not waited for).
AwaitsStopHook == \E m \in net : m.event = "Stop" /\ m.id \in {0, 1}

\* The hooks are done and the prompt's line is written.
Land ==
    /\ claude.phase = "start"
    /\ claude.batch => ~AwaitsStopHook
    /\ claude' = [claude EXCEPT !.phase = "run"]
    /\ Append("prompt")
    /\ UNCHANGED <<now, net, rec, heart, pass, unseen, behind, advance, used>>

\* Escape while the hooks of the prompt run: claude never records it.
Abort ==
    /\ Active /\ claude.phase = "start" /\ ~claude.batch
    /\ claude' = Rest("rest")
    /\ UNCHANGED <<now, tail, net, rec, heart, pass, scan, unseen, behind, advance, used>>

\* An assistant line in the middle of a turn (the hooks of tools are not
\* registered).
Work ==
    /\ Active /\ claude.phase = "run"
    /\ Append("open")
    /\ UNCHANGED <<now, claude, net, rec, heart, pass, unseen, behind, advance, used>>

\* claude asks for a permission and is answered.
Ask ==
    /\ Active /\ claude.phase = "run" /\ used.inputs < MaxInputs
    /\ claude' = [claude EXCEPT !.phase = "ask"]
    /\ Append("open")
    /\ net' = net \cup {Hook("Notification", now, 0)}
    /\ used' = [used EXCEPT !.inputs = @ + 1]
    /\ UNCHANGED <<now, rec, heart, pass, unseen, behind, advance>>

Answered ==
    /\ Active /\ claude.phase = "ask"
    /\ claude' = [claude EXCEPT !.phase = "run"]
    /\ UNCHANGED <<now, tail, net, rec, heart, pass, scan, unseen, behind, advance, used>>

\* What claude does after a turn: the prompts typed ahead as one more turn,
\* or nothing.
AfterTurn ==
    IF claude.ahead > 0
    THEN [phase |-> "start", batch |-> TRUE, ahead |-> 0, since |-> now]
    ELSE Rest("rest")

\* A turn ends: its last line, its stop hook, sometimes a second one.
End ==
    /\ Active /\ claude.phase = "run"
    /\ claude' = AfterTurn
    /\ Append("end")
    /\ \/ /\ net' = net \cup {Hook("Stop", now, 0)}
          /\ used' = used
       \/ /\ used.faults < MaxFaults
          /\ \E skew \in 0..Skew :
                net' = net \cup {Hook("Stop", now, 1), Hook("Stop", now + skew, 2)}
          /\ used' = [used EXCEPT !.faults = @ + 1]
    /\ UNCHANGED <<now, rec, heart, pass, unseen, behind, advance>>

\* A turn ends without a stop hook: interrupted, or dead of an API error.
\* The prompts typed ahead return to the box.
Break ==
    /\ Active /\ claude.phase \in {"run", "ask"}
    /\ claude' = Rest("rest")
    /\ \E kind \in {"interrupted", "error"} : Append(kind)
    /\ UNCHANGED <<now, net, rec, heart, pass, unseen, behind, advance, used>>

\* A prompt that starts no turn: no line after its own, and no stop hook.
Fizzle ==
    /\ Active /\ claude.phase = "run" /\ tail.kind = "prompt"
    /\ claude' = AfterTurn
    /\ UNCHANGED <<now, tail, net, rec, heart, pass, scan, unseen, behind, advance, used>>

\* A compaction at rest.  It takes minutes: the hooks of the one before have
\* arrived, or are lost.
Compact ==
    /\ Active /\ claude.phase = "rest" /\ used.inputs < MaxInputs
    /\ now > tail.write
    /\ ~AwaitsStopHook
    /\ \A m \in net : m.event \notin {"PreCompact", "PostCompact", "CompactStart"}
    /\ claude' = Rest("compact")
    /\ net' = net \cup {Hook("PreCompact", now, used.inputs + 1)}
    /\ unseen' = {used.inputs + 1}
    /\ behind' = FALSE
    /\ used' = [used EXCEPT !.inputs = @ + 1]
    /\ UNCHANGED <<now, tail, rec, heart, pass, scan, advance>>

Compacted ==
    /\ Active /\ claude.phase = "compact"
    /\ claude' = Rest("rest")
    /\ \/ net' = net \cup {Hook("PostCompact", now, 0), Hook("CompactStart", now, 0)}
       \/ net' = net   \* cancelled
    /\ tail' = [tail EXCEPT !.write = now]
    /\ UNCHANGED <<now, rec, heart, pass, scan, unseen, behind, advance, used>>

----------------------------------------------------------------------------
(***************************************************************************)
(* The hooks arrive, or do not; the survey publishes the heartbeat.         *)
(***************************************************************************)

\* The hooks that open a chain of turns, or add to it.
Opens(m) == m.event \in {"UserPromptSubmit", "PreCompact"}

Deliver ==
    \E m \in net :
        /\ m.ts <= now
        /\ OnHookEvent(m)
        /\ net' = net \ {m}
        /\ unseen' = IF Opens(m) THEN unseen \ {m.id} ELSE unseen
        /\ pass' = [pass EXCEPT !.late =
                       @ \/ (m.event = "UserPromptSubmit" /\ pass.at = "firing")
                         \/ (m.event = "PreCompact" /\ pass.at # "between")]
        /\ UNCHANGED <<now, claude, tail, heart, scan, used>>

Lose ==
    \E m \in net :
        /\ used.faults < MaxFaults
        /\ net' = net \ {m}
        /\ used' = [used EXCEPT !.faults = @ + 1]
        /\ UNCHANGED <<now, claude, tail, rec, heart, pass, scan, unseen, behind, advance>>

Survey ==
    /\ heart.shown # Presence \/ heart.lag # 0
    /\ heart' = [shown |-> Presence, lag |-> 0]
    /\ UNCHANGED <<now, claude, tail, net, rec, pass, scan, unseen, behind, advance, used>>

----------------------------------------------------------------------------
(***************************************************************************)
(* The scanner's pass over this session (_reconcileSession).                *)
(***************************************************************************)

Terminal == tail.kind \in {"end", "error"}

\* Mutant of CompactionInFlight: the silence of a compaction is not held.
NotHeld == FALSE

\* CompactionInFlight.
CompactionInFlight ==
    /\ rec.compacting # 0
    /\ now < rec.compacting + HoldMax
    /\ ~ (now >= rec.compacting + Settle /\ heart.shown = "idle")

\* The quiescence clock: forced to zero by a busy heartbeat or a compaction.
QuietFor ==
    IF heart.shown = "busy" \/ CompactionInFlight THEN 0 ELSE now - tail.write
OutlivesTurn == heart.shown = "busy" /\ now - tail.write > ExtGrace

\* Mutant of NewerPromptNotYetInTranscript: the tail is always judged.
NeverHolds(write) == FALSE

\* A prompt was submitted that the transcript has not recorded: the tail
\* still describes the turn before it.
NewerPromptNotYetInTranscript(write) ==
    /\ rec.lastPrompt # 0 /\ write # 0
    /\ rec.lastPrompt > write
    /\ now < rec.lastPrompt + Grace

\* ShouldSynthesizeStop and ShouldSynthesizeStopFromPresenceIdle.
StopFromTail ==
    /\ rec.state \in InFlight
    /\ ~ (rec.state = "Running" /\ OutlivesTurn)
    /\ ~ NewerPromptNotYetInTranscript(tail.write)
    /\ QuietFor >= Quiet
    /\ Terminal \/ tail.kind = "interrupted"
StopFromPresenceIdle ==
    /\ \/ rec.state = "Running" /\ tail.kind # "open" /\ QuietFor >= IdleFloor
       \/ rec.state = "NeedsApproval" /\ QuietFor >= IdleQuiet
    /\ ~ NewerPromptNotYetInTranscript(tail.write)
    /\ ~ (Terminal \/ tail.kind = "interrupted")
    /\ heart.shown = "idle"

\* Mutant of ErrorAtTail: an error is taken for the end of a turn.
ErrorUnread == FALSE

\* ShouldSynthesizeError: an API error is the tail.
ErrorAtTail ==
    /\ tail.kind = "error"
    /\ rec.state # "Error"
    /\ ~ NewerPromptNotYetInTranscript(tail.write)
    /\ QuietFor >= Quiet

\* ShouldSynthesizeRunning: fresh lines of a turn in progress.
RunFromTail ==
    /\ rec.state \in {"Idle", "WaitingForInput", "Error"}
    /\ scan.unread /\ ~Terminal
    /\ now - tail.write <= Fresh

\* ShouldSynthesizeResumed, ShouldSynthesizeResumedFromPresence, and
\* ShouldSynthesizeRunningFromExternalWork: the tool activity that is synthesized.
ResumedFromTail ==
    /\ rec.state = "NeedsApproval"
    /\ scan.unread /\ ~Terminal /\ tail.kind # "interrupted"
    /\ now - tail.write <= Fresh
ResumedFromPresence ==
    /\ rec.state = "NeedsApproval"
    /\ scan.sawWaiting /\ heart.shown = "busy"
    /\ ~Terminal /\ tail.kind # "interrupted"
RunFromPresence ==
    /\ rec.state \in {"Idle", "WaitingForInput"}
    /\ \/ heart.shown = "busy" /\ ~Terminal /\ tail.kind # "interrupted"
       \/ OutlivesTurn

\* ShouldSynthesizeBlockedFromPresence.
BlockedFromPresence ==
    /\ rec.state \in {"Running", "Idle"}
    /\ heart.shown = "waiting" /\ tail.kind # "interrupted"

\* An error is judged before a stop and ends the pass.
Justified(v) ==
    CASE v = "error" -> ErrorAtTail
      [] v = "stop" -> ~ErrorAtTail /\ (StopFromTail \/ StopFromPresenceIdle)
      [] v = "run" -> RunFromTail
      [] v = "resume" -> ResumedFromTail \/ ResumedFromPresence
      [] v = "work" -> RunFromPresence
      [] v = "block" -> BlockedFromPresence

NoPass == [at |-> "between", verdict |-> "none", write |-> 0, late |-> FALSE]

\* The pass reads the record, the file and the clock, and judges.
Judge ==
    /\ pass.at = "between"
    /\ \/ \E v \in Verdicts : /\ Justified(v)
                              /\ pass' = [at |-> "judged", verdict |-> v, write |-> tail.write,
                                         late |-> FALSE]
       \/ /\ scan.unread \/ scan.sawWaiting # (heart.shown = "waiting")
          /\ \A v \in Verdicts : ~Justified(v)
          /\ pass' = pass
    /\ scan' = [unread |-> FALSE, sawWaiting |-> heart.shown = "waiting"]
    /\ UNCHANGED <<now, claude, tail, net, rec, heart, unseen, behind, advance, used>>

\* Mutants of StillRight: what the pass read at its start is not read again;
\* an idle record is left alone, whatever was judged.
NotFetchedAgain == TRUE
IdleLeftAlone == rec.state # "Idle"

\* The record is fetched again before the event is applied.
StillRight ==
    CASE pass.verdict = "stop" ->
             /\ rec.state \in InFlight
             /\ ~ NewerPromptNotYetInTranscript(pass.write)
      [] pass.verdict = "error" ->
             /\ rec.state # "Error"
             /\ ~ NewerPromptNotYetInTranscript(pass.write)
      [] pass.verdict = "run" -> rec.state \in {"Idle", "WaitingForInput", "Error"}
      [] pass.verdict = "resume" -> rec.state = "NeedsApproval"
      [] pass.verdict = "work" -> rec.state \in {"Idle", "WaitingForInput"}
      [] pass.verdict = "block" -> rec.state \in {"Running", "Idle"}

Recheck ==
    /\ pass.at = "judged"
    /\ pass' = IF StillRight THEN [pass EXCEPT !.at = "firing"] ELSE NoPass
    /\ UNCHANGED <<now, claude, tail, net, rec, heart, scan, unseen, behind, advance, used>>

Synthesized ==
    CASE pass.verdict = "stop" -> "QuiescentStop"
      [] pass.verdict = "error" -> "ApiError"
      [] pass.verdict = "run" -> "EmptyPrompt"
      [] pass.verdict \in {"resume", "work"} -> "Tool"
      [] pass.verdict = "block" -> "Notification"

Synthesize ==
    /\ pass.at = "firing"
    /\ OnHookEvent(Hook(Synthesized, now, 0))
    /\ pass' = NoPass
    /\ UNCHANGED <<now, claude, tail, net, heart, scan, unseen, used>>

----------------------------------------------------------------------------
\* The clock.  A pass is short; the hooks, the survey and the landing of a
\* prompt keep their deadlines, and a pass comes while new lines are fresh.
Tick ==
    /\ now < MaxNow
    /\ pass.at = "between"
    /\ \A m \in net : now < m.ts + Delay
    /\ heart.shown # Presence => heart.lag < Lag
    /\ scan.unread => now + 1 <= tail.write + Fresh
    /\ claude.phase = "start" =>
           now + 1 < claude.since + (IF claude.batch THEN Landing + 1 ELSE Grace)
    /\ now' = now + 1
    /\ heart' = IF heart.shown # Presence THEN [heart EXCEPT !.lag = @ + 1]
                                          ELSE [heart EXCEPT !.lag = 0]
    /\ UNCHANGED <<claude, tail, net, rec, pass, scan, unseen, behind, advance, used>>

Init ==
    /\ now = 2
    /\ claude = [phase |-> "rest", batch |-> FALSE, ahead |-> 0, since |-> 0]
    /\ tail = [kind |-> "end", write |-> 1]
    /\ net = {}
    /\ rec = [state |-> "Idle", queued |-> 0, lastPrompt |-> 0, compacting |-> 0]
    /\ heart = [shown |-> "idle", lag |-> 0]
    /\ pass = NoPass
    /\ scan = [unread |-> FALSE, sawWaiting |-> FALSE]
    /\ unseen = {}
    /\ behind = FALSE
    /\ advance = FALSE
    /\ used = [inputs |-> 0, prompted |-> FALSE, faults |-> 0]

Claude == Submit \/ TypeAhead \/ Twin \/ Land \/ Abort \/ Work \/ Ask \/ Answered
          \/ End \/ Break \/ Fizzle \/ Compact \/ Compacted
Scanner == Judge \/ Recheck \/ Synthesize
Next == Claude \/ Deliver \/ Lose \/ Survey \/ Scanner \/ Tick

Fairness == /\ WF_vars(Deliver) /\ WF_vars(Survey) /\ WF_vars(Scanner)
            /\ WF_vars(Land) /\ WF_vars(Tick)
Spec == Init /\ [][Next]_vars /\ Fairness

----------------------------------------------------------------------------
(***************************************************************************)
(* Properties.                                                              *)
(***************************************************************************)

TypeOK ==
    /\ now \in 0..MaxNow
    /\ claude \in [phase: Phases, batch: BOOLEAN, ahead: 0..MaxInputs, since: 0..MaxNow]
    /\ tail \in [kind: TailKinds, write: 0..MaxNow]
    /\ net \subseteq [event: Events, ts: Nat, id: 0..MaxInputs + 2]
    /\ rec \in [state: States, queued: 0..MaxQueued, lastPrompt: 0..MaxNow,
                compacting: 0..MaxNow]
    /\ heart \in [shown: {"idle", "busy", "waiting"}, lag: 0..Lag]
    /\ pass \in [at: {"between", "judged", "firing"}, verdict: Verdicts \cup {"none"},
                 write: 0..MaxNow, late: BOOLEAN]
    /\ scan \in [unread: BOOLEAN, sawWaiting: BOOLEAN]
    /\ unseen \subseteq 0..MaxInputs /\ behind \in BOOLEAN
    /\ advance \in BOOLEAN
    /\ used \in [inputs: 0..MaxInputs, prompted: BOOLEAN, faults: 0..MaxFaults]

\* The step applies a stop that was sent twice.
ByDuplicate == \E m \in net \ net' : m.event = "Stop" /\ m.id # 0

\* The advance seam fires only when claude is at rest after a clean end,
\* unless the engine cannot know better: a prompt of the running chain of
\* turns had not arrived when the record was read.  A duplicated stop can
\* still end a turn that has no prompt hook of its own (see the next).
CompletionAtRest ==
    [][advance' # advance =>
          \/ CleanRest
          \/ unseen # {} \/ behind \/ (pass' = NoPass /\ pass.late)
          \/ ByDuplicate /\ (claude.batch \/ claude.phase \in {"rest", "compact"})]_vars

\* The same without the last exception: an advance fires only off a turn
\* that has run.
AdvanceOnlyAfterTurn ==
    [][advance' # advance =>
          \/ CleanRest
          \/ unseen # {} \/ behind \/ (pass' = NoPass /\ pass.late)]_vars

\* When claude stays at rest, the record comes to a state at rest and stays
\* there, whatever hooks were lost, repeated or reordered: the autorunner
\* goes on.
RestIsSeen ==
    <>[](claude.phase = "rest") =>
        <>[](rec.state \in {"Idle", "WaitingForInput", "Error"})

\* When a turn goes on, the record comes to show the session as not free and
\* stays so, even when every hook of the turn was lost: nothing is typed
\* into it.  (It need not show Running: a permission request that arrives
\* after its answer shows until the next line is written.)
WorkIsSeen ==
    <>[](claude.phase = "run") =>
        <>[](rec.state \in InFlight)

\* The record follows claude in both directions, in spite of the lost hooks.
StateCatchesUp == RestIsSeen /\ WorkIsSeen
============================================================================
