# Agentmaster: a verification project

Agentmaster is a fork of Windows Terminal that runs many Claude Code sessions in
terminal tabs. It keeps a queue of prompts for each session, types them into the
session's input box when claude is at rest, and remembers the whole fleet in
`sessions.json`. This directory holds TLA+ models of the parts of it where
threads, timeouts and crashes meet, the TLC runs that check them on small
instances, and proofs of the properties that TLAPS can prove for every instance.

Upstream Windows Terminal (rendering, ConPTY, settings, profiles) is left aside.
Agentmaster's own code is `src/src/cascadia/TerminalApp/AgentMaster/`, the
`TerminalPage.Agent*.cpp` and `AgentManagerContent*.cpp` files beside it, and its
documents are in `src/doc/agentmaster/`. Paths below are relative to `src/src/cascadia/TerminalApp/`
unless they begin with `src/`.

## 1. Inventory

### 1.1 The delivery of prompts

**Session registry** (`AgentMaster/SessionRegistry.*`, `SessionModels.h`). State:
a map from session id to `SessionInfo` (the claude state, the queue of
`QueuedPrompt` rows, the autorunner's settings, the delivery gate, the pending
draft, titles and links), under one mutex. Operations: `Upsert`, `Update`,
`Remove`, `OnHookEvent`, `ObserveClaude`, `NoteExternalPrompt`,
`MarkPromptInjected`, `SubmitPrompt`, `RollbackPromptToPending`, and the gate's
four. After every change `_notify` calls the observers outside the mutex, on the
changing thread, with a copy of the record: notifications of two threads may
arrive in the other order. Correct when: no row is lost or duplicated, and every
change that enables something is announced.

**Delivery gate** (fields of the record; `TryOpenDeliveryGate`,
`CloseDeliveryGate`, `RevalidateDeliveryGate`, `DeliveryGateOpen`). A tag and a
time stamp that say which operation owns the session's one input box. It fails
open: after `kDeliveryGateTimeoutMs` it reads closed and may be taken over. Hard:
expired holders that come back, resends of the same prompt, clock changes, a
record that is replaced. Correct when: an operation never takes another one's
claim for its own, never closes another one's, and a leaked claim ends.

**Prompt Queue Runner** (`AgentMaster/Scheduler.*`). One worker thread with a
queue of session ids, deferrals (a plan held by a clock), a watch list of sends
that were not picked up, a global pause and a condition variable. `OnObserved`
turns notifications into requests, `_process` decides and sends
(`DecideAdvance`), `_sweepPendingPickups` presses Enter again or gives up
(`DecideEnterRetry`). Hard: lost wake-ups, obstacles that end without a request,
two timed waits with different predicates, stop. Correct when: a plan that could
move is always going to be looked at, and the worker does not sleep on work.

**Verified delivery and draft swap** (`TerminalPage.AgentObserver.cpp`). A
coroutine on the window's UI thread: a guard against stale deliveries, a latch
`_draftSwapsInFlight` that makes the tab read-only, the user's draft taken out of
the box, the prompt filled in and read back from the screen, Enter, the wait for
the turn, the draft put back. Every await lets other handlers run. Correct when: one
delivery types at a time, no prompt becomes two messages, and the tab comes back.

**Session scanner** (`AgentMaster/SessionScanner.*`). A thread that reads the
transcripts every two seconds: user messages confirm rows
(`NoteExternalPrompt`), and its verdict pass fails sends that were typed and
never became a message (`DecideLostSend`) and returns to Pending those that were
never typed (`DecideUndeliveredReclaim`). Its decisions and their application are
separate registry calls. Correct when: a verdict is never passed on a
prompt that claude has taken, and never on one that is still being delivered.

**Manager UI** (`AgentManagerContent*.cpp`). Send-now and the mode selector change
what the runner reads; the rest shows it.

### 1.2 Persistence

**Fleet persistence** (`Persistence.*`): `SaveSessions` serialises a snapshot,
skips a text equal to the last one written, and replaces the file atomically
under a per-file lock. **Engine** (`Engine.*`): an observer pokes a debounced
autosaver for live sessions and writes through for the others; `SessionAutosaver`
waits for 300 ms of silence (`kQuietMs`), one second at most. **Startup restore**
(`TerminalPage.AgentSessions.cpp`): the first window loads the file and puts its
records into the registry one at a time. **State guard, compatibility and
backups** (`StateFileGuard.h`, `StateCompat.h`, `StateBackups.h`): other writers
of a state document, members of newer builds, shadows. Correct when: the file
follows the fleet within a bounded time, and no crash loses a session that a save
had confirmed.

### 1.3 Events, questions, restore

**Hook events** (`HookEvents.h`, `HookWire.h`). claude runs a hook for each event;
each travels in a process and a connection of its own, so hooks arrive late, in another
order, twice, or never. `NextSessionStateOrdered` folds them into the record's state with
two numbers: the stamp of the newest prompt, which tells a stop of an older turn, and the
count of prompts typed ahead, whose turns follow without a hook of their own. Between `PreCompact`
and what ends it the record is compacting. **Session scanner**, its other half: it reads
the transcript's tail and claude's heartbeat and synthesizes the events that were lost.
Correct when: the seam that advances the queue fires at rest only, and both rest
and work are seen in the end, whatever was lost.

**Hooks bridge and question bridge** (`HooksBridge.*`, `AskQuestion.h`). A worker per
connection of the ask pipe enters a request into `AskRegistry` and waits for a reply or
for the end of its helper; `Answer`, `Release`, `TakeReply`, `NoteWritten`,
`NoteGone` and `Forget` change the request under the registry's mutex. **Question cards**
(`Messaging.Questions.cpp`): the tick thread turns requests into cards and settles them from the
transcript; the poll thread takes the taps. Correct when: no hook is left waiting after its dialog is
over, and a card never denies an answer that claude took.

**Restore wake** (`RestoreWake.h`, `TerminalPage.AgentRestoreWake.cpp`). A barrier shared by the
windows that reopen together (an entry per window: announced, joined, launched,
released), a pacer shared by all their wakes, and per window a timer with a phase
and a queue of busy tabs. Windows and tabs close, move and are destroyed meanwhile. Correct when: no
window wakes its tabs while another is still launching, unless a cap is over; none waits
for ever; the wakes keep one pace; no tab is forgotten.

**Startup guard** (`StartupGuard.h`): counts crashes and watches for a hang. **Process observer**
(`ProcessObserver.*`, `ProcessInspect.*`): which claude runs where.

### 1.4 Satellites

**Telegram messaging** (`Messaging*.cpp`). One outbox with keys, two priorities, pacing, parking after
a long 429 and plainer forms after a refusal; per topic a sticky card whose record holds a message
id, an in-flight mark and a hash; pictures of the screen that an update first waits for;
tapped buttons whose answer is held until their work is done. Three threads (tick, poll, send)
and a bot that stops and starts. Correct when: one card per topic, never an older text on
it, no post waited for in vain, an answer after its work.

The other satellites: menus, files and voice of the messaging, session search and
the agent harness, the session database (a service over DuckDB, its client, the
refresher), transcripts and their watcher, the readers of input box and dialogs, turn
repair after API errors, voice, launching, updates and installation, the command
line tool, the UI. Section 6 says why they are not modelled.

### 1.5 What is hard here

`PROJECT.json` "hazards" lists them at their lines. The kinds that dominate:

- A fact is read, an await or an unlock passes, the fact is used: the latch, the
  verdicts, the sweep's press and its count, the snapshot of a save.
- A timeout says "dead" of something that is only slow: the gate's lifetime, the
  reclaim, the give-up, the lost verdict.
- Something must ask again: a plan that was held, a failed save, a leaked gate.
- A start is a write: the restore goes through the same observers as everything.
- An order that nothing guarantees: hooks on connections of their own, a second stop, a
  reply against the helper's end, a picture that comes after the next update.
- What a thread decides under one mutex it carries out under another, later.
- Something else ends while it is waited for: a window, a helper, the bot, a card.

## 2. The models

| Module | Part | Kind |
|---|---|---|
| `BoxClaim` | who owns the input box | abstract specification |
| `DeliveryGate` | the gate's tag, stamp, nonces and expiry | detailed, implements `BoxClaim` |
| `DeliveryGate_proofs` | invariant, refinement | proofs |
| `PromptDelivery` | rows, senders, deliveries, sweep, scanner, claude | composition for one session |
| `PromptDelivery_proofs` | types, the box's exclusion, no phantom Sent; one message at most, no zombie delivery, no false verdict of loss | proofs |
| `AdvanceWorker` | the runner's worker and its triggers | component |
| `AdvanceWorker_proofs` | invariants | proofs |
| `FleetStore` | registry, autosaver, file, crash, restore | composition |
| `FleetStore_proofs` | types, nothing unsaved at rest | proofs |
| `TurnOrder` | hooks, turn accounting, the scanner's repairs, claude | composition for one session |
| `TurnOrder_proofs` | types, two action properties | proofs |
| `QuestionCard` | ask registry, bridge worker, question cards, the bot | composition |
| `QuestionCard_proofs` | types and four invariants | proofs |
| `RestoreWake` | barrier, pacer, the windows' waits and queues | component |
| `RestoreWake_proofs` | types, two invariants, two action properties | proofs |
| `StickyCard` | one topic's card, its pictures, the outbox, Telegram | composition |
| `StickyCard_proofs` | types, three invariants, an action property | proofs |
| `MCDeliveryGate`, `MCAdvance`, `MCFleet`, `MCRestoreWake` | instances | TLC |

`PromptDelivery` uses the gate as `BoxClaim` has it (an owner and a lapsed flag),
which `DeliveryGate` is proved to implement; `AdvanceWorker` uses the rest of a
delivery as "sent, then resolved, failed or rolled back", which is what
`PromptDelivery` details. `TurnOrder` details the starts and ends of turns that both take
from their environment: its `advance` is the seam that asks the worker for an advance.
`QuestionCard` and `StickyCard` are two users of the messaging service's threads. "map" in
`PROJECT.json` gives the lines of every definition.

### 2.1 BoxClaim and DeliveryGate

`gateTag` and `heldFor` are the two gate fields of the record, `heldFor` being
the distance of the clock from the stamp; `submitSeq` and `nonce` are the
per-attempt nonces of `SubmitPrompt`; `pc` is where an operation is; `holder`, a
history variable, is who opened the standing claim. An operation is an attempt
(with a prompt and a nonce in its tag) or a reserved one (the box clear), whose
tag is a constant of the code. `TryOpen`, `Decline`, `TopGuard`, `Recheck`, `End`
are the calls; `Vanish` is a page torn down without closing, `Upsert` the
replacement of the record, `Tick` and `SetClockBack` the clock. Two attempts of
the SAME prompt are the interesting instance: their tags differ in the nonce only.

### 2.2 PromptDelivery

`row` is the queue with the fields the decisions read; `job` where each sender
(runner and user) is between its mark and the submit's answer; `att` the delivery
coroutines, whose `pc` changes at awaits only; `box` what the input box shows,
`latch` the read-only window, `owner`/`lapsed` the gate; `msgs` how many messages
claude made of a prompt; `hookQ` and `unread` the two ways the engine hears of it;
`scan` a verdict pass between its decision and its application; `pressQ` presses
on their way to the UI thread. Ages are classes (0: new, 1: a press is due, 2:
settled, 3: the watch has given the row up): the code compares ages with
constants only, and a class is left only by `Ages`, so the order of the
thresholds is kept and their distances are not.

Two regimes. With `Starved` FALSE every thread meets its deadline: a live
delivery does not outlast its gate, a hook comes before a press is due. With TRUE
the UI thread may starve: the run of that regime is about what must still hold then, that every send
resolves and the tab comes back. There `ZombieStaysOut` fails (section 5),
and so do `BoxExclusive`, `AtMostOnce` and `LostVerdictSound`. `BoxExclusive` fails because
the latch is tested before the awaits of the pre-flight and taken after them: a
delivery that outlasts its gate there meets its successor in the box.

Left out: settle window, spacing and budget of sends (they only delay), the
plain send (protections switched off), the classification of box texts (a box
shows a prompt, a draft, or a mixture), dialogs and menus (except that they can
hold the sweep off), an injector that disappears in the middle of a fill.

### 2.3 AdvanceWorker

`plan` is what the runner reads of a record; `note` the notification each thread
has in hand (with several threads they overtake one another); `queue`, `watch`,
`deferred`, `paused`, `running` are the scheduler's members; `worker` is the
thread: at the top, entering a wait (`blocking`), in it, woken, processing,
sweeping. Being asleep, woken and out again are steps of their own, so that a
signal can come between the predicate and the wait exactly where the mutex lets
it. `Environment` is everything that changes a record from outside: a queued
prompt, Send-now, a rollback, a gate closing, a turn starting or ending, the
mode, a verdict. `SetGlobalPause` and `RequestHeldAdvances` are the pause and the
loop after a resume.

Simplified: the two mutex sections of `OnObserved` are one step; the worker's own
update and the notification it causes are one step; settle and spacing are one
timed hold; the effect of a give-up on rows is a nondeterministic verdict;
overlapping resumes are merged. Left out: a leaked gate, the Held rows of the
question guard, the 30 s pickup belt, throws, dormant tabs, the end of a session.

### 2.4 FleetStore

A record is its `live` flag and a revision standing for the persisted content;
the file holds revisions only (what `ToJson` writes has no `live`). `Notifies` is
the engine's observer: a live record pokes the autosaver, another one is written
through. A save is three steps of its thread: choose to, take the snapshot, and,
with the file's lock, compare, write and note. The autosaver is `SaverTakes`,
`SaverSnapshots`, `SaverSaves`, with its deadlines as counters of ticks. `Load`,
`RestoreOne`, `RestoreDone` and `RestoreThrows` are the restore; `Crash` ends the
process at any step and keeps the file. `Create` is possible before the restore,
as the process survey and the first hooks run then. `kept` is a history: the
sessions that a save confirmed and nobody removed. `newest` is another one: the snapshots
carry no number, so it says who holds the one that was taken last, and afterwards
whether it was `"written"` or `"lost"` (its save failed, an older one was written after it, or a draft
changed without a notification).

Left out: the refusal to write over another writer or a newer format (a failed
write here), shadows and backups, the other documents, the normalisation of
restored states, the destructor's flush (the engine lives as long as the process).

### 2.5 TurnOrder

`claude` is what really happens (`phase`: at rest, starting a turn, running, asking, compacting;
`ahead`: prompts typed ahead), `tail` the transcript's last line, `net` the hooks on
their way, `rec` the four fields of the record that the fold reads and writes, `heart` the published
heartbeat, `pass` the scanner's pass between its judgement and its event. `Ordered(m)` is
`NextSessionStateOrdered`, `OnHookEvent(m)` the registry's handler. claude and its user are
`Submit`, `TypeAhead`, `Twin`, `Land`, `Abort`, `Work`, `Ask`, `Answered`, `End` (with one stop hook or
two), `Break`, `Fizzle`, `Compact` and `Compacted`; `Deliver`, `Lose` and `Survey` are what
the engine hears of them; `Judge`, `Recheck` and `Synthesize` are one pass of the scanner, which
reads the record again before it applies what it judged. Time is counted, because the code compares
stamps with one another and not only with constants.

Histories: `unseen` holds the hooks that opened the running chain of turns and have not
arrived, `behind` says that the engine was misled before. They mark the exceptions of
`CompletionAtRest`: nothing can be expected of a record whose prompt hook has not come. `behind`
is set by a completion that was wrong, by a stop that closes the window of a later compaction, and by
`Miscounted`: the record leaves its running states while the turns go on (a late `PostCompact`, a
late error verdict), or its count of prompts typed ahead drops without claude taking them up. The
last needs three inputs: a prompt typed just after a turn's end may arrive before that turn's stop, is then
counted, and is consumed by it.

Assumed of the constants is only their order in the code: the duplicate's skew is below the floor, a
heartbeat's lag below the quiescence and settle times, those of a running session not below those of a
blocked one, the landing of a batch below the stop's quiescence, the compaction's settle time not above its cap.

Left out: `SessionStart` and `SessionEnd` other than a compaction's, cut-off turns, the question
bit, subagents' side files, dormant sessions.

### 2.6 RestoreWake

`page` is each window's job and life, `barrier` the entries, `slots` the pacer's stamps, `busy` and
`host` what the wake reads of sessions; `freed` and `woken` are histories. `Create` announces,
`Rehome` joins with the busy tabs in the strip's order, `RestoreNothing` is the exit guard of a
restore without tabs, `Close` and `Destroy` end a window in two steps, the second on any thread. A tick of
the window's timer is one of `TickLaunching`, `TickNothingBusy`, `TickLaunched` (wait on, or leave
and begin to drain) and `TickWaking`; `StepQueue` drops what is not wanted any more, takes a slot and
starts a tab, which may fail. `NotWanted`, `Move` and `CloseTab` are the sessions'. The
code compares the clock with a stamp and a cap; the model keeps the stamp's age up to
that cap, so that time needs no bound. A queue has its tabs by their places in the strip: what is
dropped leaves its place empty, and nothing moves up, since only the order of the others matters. What the
window shows and whether its thread is idle are inputs of each tick.

### 2.7 QuestionCard

`dialog`, `live` and `hook` are claude's side, `worker` the bridge's thread for one request,
`entry` its place in `AskRegistry`, `card` and `taken` the service's, `tick` the tick thread (its
snapshot of the registry, what is left of the pass, a release it still owes), `tap` a decision
that the poll thread still owes. `AtTheDoor` asks whether the bot wants the request and `Opens`
enters it: two steps, as in the code. What a thread decides under the service's mutex reaches the registry
in a later step (`TickReleases`, `TapDelivers`). The waits of the code (the settle of an ended hook,
the confirmation's clock, a topic in the making) are steps that may come at any time, so that
the properties do not rest on their lengths. `StopMayRace` lets the bot stop while a request is between
the door and the registry.

### 2.8 StickyCard

`want` is what the card should show, `rec` the topic's record, `card` the state kept for its session,
`look` what a refresh has read, `steps` the updates that wait for a picture, `outbox` the
items by their place in the order (`seq` and `subSeq`) with the one whose call is under way in its place, `chat` every card message ever posted
with the version it shows, `taps` and `handler` the buttons. A refresh is two steps: `Looks` reads
under the mutex, then `Waits`, `Leaves`, `Posts` or `Edits` decides. `Settles` brings the picture;
`Takes` and `Answers` are the send loop (`Taken`, `Failed`, `Refused`, `Parked`), then `Unparks` and
`Retries`. `Changes`, `Pushed`, `Deletes`, `Switches`, `Rekeys` and `Restarts` are what happens to the
card. A version stands for a text and for its hash. A place is one more than the largest in use: of
the code's growing numbers only the order matters, and so the places stay few. `trouble` counts what went
wrong, for the bound.

`Races` switches on six coincidences that break properties (section 5): each is a step of the
code in a state where it does harm. With `Races = {}` the model leaves exactly those states out, by a
conjunct that names the race, and everything else is checked. Two of those conjuncts were found by the
proofs and not by the runs, whose bounds are too small for them: an edit of the session that
the topic had before, put back by a long 429 (in `Parked`), and a second repost while the
first one's delete still waits (`Deleting`, in `Posts`).

## 3. The runs

| Run | Instance | Shows |
|---|---|---|
| `gate` | 3 attempts, 2 of one prompt, a reserved operation, lifetime 2, one clock step, one replaced record | nobody adopts a claim (`NoAdoption`), the gate implements `BoxClaim`, a leaked gate reads closed in the end |
| `delivery` | 2 prompts, 2 attempts, 2 fills, 1 press, 2 strikes, timely | one delivery in the box, one message per prompt, no phantom Sent, sound lost verdicts, no press for a row that was taken back |
| `delivery_starved` | 1 prompt, 2 attempts, 1 fill, starving UI thread, pages torn down, hooks lost, Send-now of any row | every send resolves, the tab is handed back, also by a delivery that lost its gate to its successor |
| `advance` | 1 session, 1 notifying thread, 2 prompts, pauses, stop | no plan forgotten, no sleep on work, plans move on, watched sends are swept |
| `fleet` | 1 session, 2 threads, 2 changes, 1 failed write, 1 crash | no change is forgotten at rest, the file catches up, the debounce does not starve |
| `turns` | 2 inputs, 1 lost or repeated hook, hooks a tick late, thresholds 2 | the queue advances at rest only; rest and work are both seen in the end |
| `restore_wake` | 2 windows, one announced, 2 sessions, batch 1, cap 3 | one pace, no dead entry, no window early, no tab forgotten |
| `restore_live` | 2 windows, 1 session, cap 2 | every wait ends |
| `questions` | 1 dialog, the bot and the session come and go | no hook and no card left waiting, no answer denied |
| `cards` | 1 topic, 1 tap, 3 versions, 2 of 8 troubles | one card, no old text, no post in vain, the answer after the work, the card catches up |
| `find_partial_restore`, `find_lost_card` | see section 5 | disagreements |

**The bounds.** Two attempts are needed for anything about a stale one and its
successor. Two fills and two strikes reach the second try and the give-up of each
loop; one press reaches the retry and, with the count at its limit, the give-up. In the
starved run the loops have one round, their give-up being what matters there.
Two prompts show that the failure of one lets the other pass or holds it. The
gate's hazards need a prompt with two attempts and one bystander, and a lifetime
of two ticks tells "old" from "expired". The worker's run has one thread that
notifies, so that its liveness can be checked in the same state space; the worker,
the pauser and the stopper are threads beside it. Its sessions interact only through the queue and the pause, and
the proofs of section 4 hold for every number of sessions and of notifying threads. Two
instances too long to keep as runs passed as well: two threads, and two sessions.
The file needs two writers and two revisions for an old
text over a new one, one failure for the retry, one crash for the loss; two
sessions matter for the partial restore only, and run `find_partial_restore` has
two. Ticks: a quiet time of one and a cap of two keep "a poke moves the quiet
deadline, not the cap" apart.

Two inputs make a turn with a prompt typed ahead, a turn with a permission request, or a turn and a
compaction; one fault loses a hook, repeats a stop or sends an empty twin. A floor of two
ticks with a skew of one keeps a repeated stop below the floor, as in the code; a hook may be a tick
late, which is enough for two to change places. claude acts up to `Horizon`; the clock goes
on for four ticks more, longer than every threshold. Two windows are what a barrier is
about, and one that is not announced is the late joiner; with a cap of three the
barrier outlasts the other waits; the two sessions, which nothing tells apart, are a symmetry of
the run of the safety properties. One dialog suffices for the cards, whose requests share nothing but
the tick's pass, and the proofs hold for any number. For a topic's card, two troubles in one
behavior make every pair of them meet, and three versions give an older, a newer and a
current text.

**Deadlock** is checked in `gate`, `delivery`, `delivery_starved`, `advance`, `fleet`, `restore_wake`,
`restore_live` and `questions`. In `turns` the clock ends, in the two card runs the versions do.

**Fairness.** Weak fairness of each thread's next step: the operating system
schedules the worker, the autosaver and the threads inside a call; the
dispatcher serves each coroutine and each queued press (`Delivery(a)`,
`Press(p)`); the scanner passes periodically; clocks advance. No fairness is
assumed of the user, of claude taking a message, or of the sweep's press in
`PromptDelivery` (a draft or a menu may hold it off for ever). Turns end: claude
that hangs is not the runner's liveness. `FleetStore` assumes of a "chatty" fleet
that notifications of its sessions never stop for ever, as presence, hooks and
enrichment do while one session lives; its saves and restore are those of the
threads that are inside them. Hence `CatchesUp` is a statement about a chatty
fleet (section 5 says what remains when nothing notifies), and `NothingUnsaved` is what holds
of a quiet one. A debounce that starves shows in `CatchesUp`, whose mutant is one without the cap. The gate's run needs the clock's fairness
alone. In `TurnOrder` hooks that are not lost arrive, the survey and the scanner's passes
recur, claude writes a prompt that it took; nothing is assumed of turns. In
`RestoreWake` the timer of a living page ticks and time goes by; a window that
never launches stays possible. In `QuestionCard` the threads go on, and the tick's steps on a card
have strong fairness: each pass reads every card anew, so that what lasts is noticed,
while a step on one card is not enabled all through a pass. In `StickyCard` the send loop, the
pictures' limits and the pauses end; the poll thread's refresh has strong fairness
because the instance runs one refresh at a time, where the code's threads would run side by side. It is
never assumed that Telegram accepts a message, only that its calls end; each kind of trouble comes once.

**Mutants.** For each property of a passing run, a bug in one mapped definition
that the run's bounds are large enough to notice: a tag without its nonce, a close
that does not compare, a worker that asks for nothing after a resume, an
autosaver that clears the request only after its save, a missing floor, a barrier without its cap, a helper's end that is
not noted, an overtaken picture that is sent. The mutated operators stand in the modules before
the definition they change, and nothing else uses them.

## 4. The proofs

`DeliveryGate_proofs`, for any attempts, prompts, reserved operations and
lifetimes (assumed: attempts and reserved operations are disjoint, every attempt is of
a prompt, `None` is no operation, `NoTag` is no tag, and the bounds are numbers):

- `TypeCorrect`; `NeverAdopts` (`NoAdoption`); `GateImplementsBoxClaim`.
- The inductive invariant is `TypeOK /\ NonceFresh /\ NonceOwn /\ HolderTag`. `NoAdoption` is not
  inductive: that a tag identifies one operation follows from nonces being
  different (`NonceOwn`), which stays true because a new one is larger than all
  (`NonceFresh`), and from the standing tag being its holder's (`HolderTag`).
- The refinement has a lemma per abstract action, saying which concrete steps map
  to it, and `StepRefines` joins them.

`PromptDelivery_proofs`, for any number of prompts, submissions, fills and presses:

- `TypeCorrect`, in every regime. The type invariant is not inductive, because submissions are counted
  when they are made: `OnTheirWay` adds the senders that have marked a row and not
  submitted yet (`used + Takes(runner) + Takes(user) <= MaxAttempts`), and bounds fills and presses.
- `BoxStaysExclusive` (`BoxExclusive`), where `~Starved`. It adds `OwnLive`: every live delivery
  owns an open gate. That is the fact the code relies on when it tests the latch before an
  await and takes it after one.
- `NoPhantom` (`NoPhantomSent`), where `~Starved` and `~MayVanish`. It adds `Answered`: a row that was
  marked and has neither been typed nor seen is asked for by a sender (`Asks`) or brought by a
  delivery (`Brings`).
- The 14 actions of a delivery are taken together by `DeliveryIs`, which says what a
  step of a delivery may move (`Moves`); the invariants are proved from that.

The second part of `PromptDelivery_proofs`, for the same bounds, in the timely regime (`Timely`: the UI thread does
not starve, pages stay, Send-now takes a Pending row, a press precedes the verdicts, hooks come in time, a
press is allowed):

- `SendsOnce` (`AtMostOnce`); `ZombiesStayOut` (`ZombieStaysOut`); `LostIsLost` (`LostVerdictSound`).
- The inductive invariant adds `OnceInv` to `Typed /\ OnTheirWay /\ OwnLive /\ Answered`. It says, prompt by
  prompt, that a prompt is undone (its row Pending, or a sender or a delivery that has not typed it carries it)
  or done. `OneCarries`: at most one carries it, and its row is as it was marked. `UndoneIsUntouched`: an undone
  prompt is no message, and no press and no give-up is under way for it. `Heard`: a message is one, and while its row
  is not echoed its transcript line is unread and its hook is coming, unless the row is past the hook's window; once
  the injection has settled on an old row the prompt is no message. `PressesInTime`: a press is for a prompt that is no message.
- Nothing leads from done back to undone: a rollback is made by the one that carries the prompt, and the
  reclaim would need a row that nobody answers for, which `Answered` and the closed gate exclude.
- What the box shows does not enter: that a press finds the box as the sweep left it is not needed.

`AdvanceWorker_proofs`, for any sessions, threads and number of prompts (the sessions
are a finite set, the threads any set):

- `TypeCorrect`; `NoPlanForgotten` (`NoForgottenPlan`); `NeverSleepsOnWork` (`NoSleepOnWork`).
- The inductive invariant is `Typed /\ Waits /\ NoForgottenPlan`. `Typed` adds to
  `TypeOK` that the prompts of a session stay within the bound and that a worker
  inside a request has a session. `Waits` says of `blocking` what `NoSleepOnWork` says of
  `asleep`: the predicate was evaluated and the mutex is still held, so nothing may
  have come between. `NoForgottenPlan` is inductive relative to them, by one fact
  about the environment (`EnvironmentShape`): whatever makes a plan sendable also
  leaves a notification that asks for it, and by one per step of the worker:
  the trigger it consumes is replaced (a deferral) or not needed (sent, held).

`QuestionCard_proofs`, for any dialogs (assumed: `None` is none of the other values):

- `TypeCorrect`; `WorkersServe` (`OpenIsServed`); `FinishedCardsLetGo` (`FinishedLetsGo`);
  `PhoneAnswersStand` (`NoFalseRefusal`); `StoppedBotLetsGo` (`OffLetsGo`, where `~StopMayRace`).
- The inductive invariant is `TypeOK` with a row per dialog: `Served` (what the worker's place says of
  its request), `Shown` (what a card, a decision or a snapshot says of it), `Decided` (a card that
  was decided has no open request, or a thread owes it), `Once` (the phone decides a request once, and it
  never gets a second card), `Kept` (what an answer taken from the phone excludes) and `Off`. That a card
  never denies an answer is not inductive: the tick acts on a snapshot, so `Kept` says that the
  snapshot of a pass does not say "Gone" of such a request.

`RestoreWake_proofs`, for any finite sets of windows and sessions:

- `TypeCorrect` and `ForgetsNoTab` (`NoneForgotten`): `QueuesInv` says that the queue of a job has sessions in places of the
  strip, and `Taken` that a step takes from it only what `NoneForgotten` excuses. The lemmas `ThoseIs`, `QueueTaken` and `TabsAreQueue` say what
  dropping places, stepping the queue and picking the busy tabs keep. `OneEntry` is that the barrier has one entry for a key.
- `KeepsOnePace` (`OnePace`): `Pace` relates the slots taken to the ages of the wakes.
- `LeavesNoDeadEntry` (`NoDeadEntry`): `JobsInv` says which key a job has in each
  phase (its window's while it waits, none once it is out), so that whoever gives a key up leaves the barrier by it.
- `WakesTogether` (`AllLaunchedFirst`), assuming that no two windows restore one record (`OwnKeys`):
  `Firm` says that a window that is still held back has its entry, not yet launched or as launched as
  its job; `Whole` that a released entry of such a window means that all are released. So a
  release looks at all of them. Without the assumption it fails: the
  destruction of a window comes late, on any thread, and removes by its key the entry of the next window that
  restores the same record (`AgentMaster/RestoreWake.h:530`).

`StickyCard_proofs`, for any taps and any bounds (assumed: `None` is no tap):

- `TypeCorrect`, whatever coincidences happen. `Types` adds to `TypeOK` that the message an update, a look or the
  record names was posted, which the delete of the old card rests on.
- `PostUnderWay` (`PostIsUnderWay`), `OnlyOneCard` (`OneCard`) and `TapsWaitForWork` (`AnswerWaitsForWork`), where
  `Races \subseteq {"overtake"}`: an edit may be overtaken, but refreshes do not overlap, and no picture or
  repost is under way in the states of the other four.
- `NothingOldAgain` (`NoOldText`), where `Races = {}`.
- The inductive invariant of the three is `Course`. None of the three is inductive, since each speaks of a post or a delete
  in the outbox that the next step sends. `LookIsFresh` says that what a refresh read still
  holds when it decides, but for an answer that came meanwhile, `StepsInOrder` that the updates that wait for
  a picture have the card's numbers, only the last of which is current. `OnePost` and `OneDelete` say that there is one post under way, only while the
  record waits for it, and one delete of a session, none of which a waiting post would replace. `VersionsGrow` bounds what is
  queued by what the session shows, `KeysApart` says that no two queued items have one key, and `TapsCarried` that every open tap is held by a
  handler, the card, an update or an item that is at least as new as what the tap asked for, or was excused.
- `NoOldText` adds `EditOrder`: without a fallback, edits have their keys (`PlainEdits`); an answer's edit goes
  before an earlier one only while that one's call is under way (`NoneOvertaken`, `FirstFlies`); later
  sessions come later (`SessionsGrow`); and no message shows anything newer than what a refresh read, a current update or
  an edit of it says (`ShownGrows`).
- The lemmas about the outbox (`AddedIs`, `WithoutIs`, `EnqueuedIs`, `QueuedIs`) say once what a change of it keeps: the
  others in their places, the new one last, the holds of the replaced ones with it.

`TurnOrder_proofs`, for any thresholds in their order and any bounds:

- `TypeCorrect`; `CompletesAtRest` (`CompletionAtRest`); `AdvancesAfterTurns`: without duplicates, losses and twins
  (`MaxFaults = 0`) the last exception of `CompletionAtRest` never happens.
- A completion comes from a hook's stop or from the scanner's. For the first, `StopsKnown` says what
  every stop on its way is while a chain of turns goes on (`StopOK`): old (`OldStop`: fired before the newest prompt plus its
  skew, that prompt being in the record or on its way), a duplicate that nothing can tell, or the
  one stop that the count of prompts typed ahead will absorb. `Counted` says that this count is there. An old stop is refused
  as stale or, a duplicate, by the floor, which is where `Skew < Floor` enters.
- For the second, `PassKnown` says what a verdict rests on until its event: at the
  judgement claude is at rest, or a prompt or compaction has just begun that the engine has not seen
  (`JudgedStopIs`), and when that prompt arrives in between, the recheck sees it. `JudgedStopIs` needs
  how late each witness may be: the transcript (`TailKnown`), the heartbeat (`HeartKnown`), the prompt's stamp (`SubmitKnown`) and the
  compaction's window (`CompactionKnown`).
- `Bounds` (the types with what bounds them) is inductive alone; the others need it and one another. `HookIs` says once what a
  hook can do to the record unless it misleads the engine, and one lemma per action what it puts on its way.
- The attempt at the proof showed that `CompletionAtRest` was false beyond the bounds of its run
  (section 5, the miscount); the instances with up to four inputs were then simulated with every part of the invariant.

`FleetStore_proofs`, for any finite set of sessions, any threads and any bounds (assumed: `None` is no thread and
no text, and the three words of `newest` are no threads):

- `TypeCorrect`; `NothingStaysUnsaved` (`NothingUnsaved`).
- `NothingUnsaved` says nothing of the states between a change and its save, so it is not inductive. `FleetInv` adds what
  holds there. `NewestIsRegistry`: unless a snapshot is owed (`Owed`: a thread will poke or take one, the
  request is set, or the autosaver has cleared it and not looked yet), the newest snapshot is the
  registry; so its holder carries it, and the file has it once it is written. Every change of the registry leaves `Owed`, and
  only taking a snapshot ends it; that the autosaver clears `dirty` before it looks and not after is used
  here. `HolderSaves`: the holder is about to save. `NotedIsOnDisk`: what `s_last` notes is in the file, so a save
  that is skipped leaves nothing out. `NotBegun`: a start that has made no change yet has all of the file still to restore.
- What is lost stays within what `newest` names. That an older snapshot goes over a newer one is possible
  in the code (the snapshot is taken before the file's lock), and only the next notification repairs it (`CatchesUp`).

Only model-checked: all
liveness (`LeakedGateExpires`, `DeliveryEnds`, `PlanMovesOn`, `WatchIsSwept`, `CatchesUp`,
`StateCatchesUp`, `EveryWaitEnds`, `DialogSettles`, `CardCatchesUp`), since the prover handles
neither weak fairness nor ENABLED.

## 5. Where code and documents disagree

Two have a run that stops at the shortest way there.

1. `find_partial_restore` (`SurvivesCrash`). Each `Upsert` of the restore loop
   (`TerminalPage.AgentSessions.cpp:1506`) notifies with a record that is not live, and the observer
   writes through. The file then holds the sessions restored so far only, until the loop
   ends. A crash in between, or a throw followed by the next window's reload,
   loses the others, against `AgentMaster/Engine.cpp:401`.
2. `find_lost_card` (`PostIsUnderWay`). When the topic passes to another session while a post waits
   for its picture, the card's state is erased (`AgentMaster/Messaging.cpp:5887`), the post
   is dropped at `:7028`, and the record keeps the in-flight mark: every later refresh waits for a
   post that nobody makes. `Messaging.cpp:7282` says that a post never stays in flight.

The others are found by the same modules with another constant or property:

| Instance | Property | Code | Against |
|---|---|---|---|
| `PromptDelivery`, `Starved` | `ZombieStaysOut`: the reclaim rolls a row back and leaves the expired tag of its delivery standing, which a delivery past its top guard revalidates | `SessionScanner.cpp:1699` | the comment there: the two can never both deliver |
| `PromptDelivery`, `AnyRow` | `AtMostOnce`: Send-now marks a row in delivery; its submit is declined, and the rollback makes Pending what is about to be a message | `AgentManagerContent.AutoTesting.cpp:875` | `src/doc/agentmaster/DELIVERY.md:164` |
| `PromptDelivery` | `FailedIsNoMessage`: the give-up is decided on the press count alone, without waiting for the last press | `Scheduler.h:606` | `Scheduler.cpp:234` |
| `AdvanceWorker` | `WatchIsPolled`: a watch is armed during a deferral's wait; the wait is not shortened, so the first retry of a swallowed Enter comes late | `Scheduler.cpp:160` | `Scheduler.h:161`: a poll every second |
| `FleetStore`, `Chatty = FALSE` | `CatchesUp`: the snapshot is an argument of the save, taken before the file's lock; the older of two may be written last | `Engine.cpp:142` | `Engine.cpp:53` |
| `TurnOrder`, `Delay` 2, `Horizon` 5, `MaxNow` 9 | `AdvanceOnlyAfterTurn`: a stop sent twice ends a turn of prompts typed ahead, which had no hook | `HookEvents.h:578` | `src/doc/agentmaster/DELIVERY.md:252` |
| `TurnOrder`, `MaxInputs` 4, `Horizon` 9, `MaxNow` 13 (simulated) | `CompletionAtRest` without `Miscounted`: a prompt typed after a turn's end arrives before its stop, is counted with the batch, and is consumed by that stop; the batch's own stop then completes while claude takes the prompt up | `HookEvents.h:578` | `HookEvents.h:442`: a stop completes the newest turn only if that turn has run |
| `QuestionCard` | `AnsweredIsThePhones`: a card that is Sending reads an answer given at the PC as its own | `Messaging.Questions.cpp:896`, `:903` | `src/doc/agentmaster/INTERACTIVE_TOOLS.md:785` |
| `QuestionCard`, `StopMayRace` | `OffLetsGo`: a request that was past the door when the bot stopped is opened for nobody | `HooksBridge.cpp:521` | `Messaging.Questions.cpp:353` |
| `StickyCard`, `Races = {"restart"}` | `OneCard`, `NoOldText`, `AnswerWaitsForWork`: the picture counter starts at 0 again, so an update from before the restart is taken for current | `Messaging.h:1414` | `Messaging.cpp:7030` |
| `StickyCard`, `Races = {"switch"}` | `NoOldText`, `AnswerWaitsForWork`: an update without a picture does not overtake one that waits | `Messaging.cpp:7180` | the order of updates |
| `StickyCard`, `Races = {"overtake"}` | `NoOldText`: a refused item goes again without its key | `Messaging.cpp:3569` | the comment at `:3545` |
| the same | `NoOldText`: the topic passes to another session while an edit is on its way; a long 429 puts the edit back, and the newer edit of the same message has another key | `Messaging.cpp:2074` | the comment at `:2067`: this stale one is dropped |
| `StickyCard`, `Races = {"redelete"}`, `MaxTrouble` 3 | `OneCard`: a delete that a long 429 holds is replaced by the next repost's, which has the same key, and its card stays | `Messaging.cpp:5080` | the comment at `:5074`: the old card is gone before the new one appears |
| `StickyCard`, `Races = {"overlap"}` | `PostIsUnderWay`, `OneCard`, `NoOldText`, `AnswerWaitsForWork`: two refreshes of one card decide on the same reading | `Messaging.cpp:6879` | one post in flight |

(Files without a directory are in `AgentMaster/`, except the Manager's.)

## 6. Not modelled, and what is left

Not modelled, and why:

- *Session database.* The service is SQL and text search. The client's refresher (epochs of the
  watcher, pending changes, a sweep that may fail) has an order worth a module; the request for a resync that
  arrives during a sweep would be its hazard.
- *State guard, compatibility, backups.* Two processes that write one document, the guard's check
  and the replace. `FleetStore` takes a refusal as a failed write; a module of its own would be
  about shadows and readers of older formats.
- *Rest of the messaging.* The update offset across a crash (`Messaging.Inbound.cpp:253`: taken, not yet
  handled), the mirror of the transcript, topics that are created and deleted, menus, files.
- *Rest of the registry and scanner.* Drops of retired hosts, fork echoes, first sight and
  tail offsets, subagents' files.
- *Process observer, transcript store and watcher, input box reading, turn repair, session search.* They read
  something external and recognize it: processes, lines, screens, statuses. The models take their verdicts
  as inputs, wrong and late ones included where the code allows for them.
- *Startup guard.* A counter in a file and one compare-exchange.
- *Agent harness, voice, launching, updates and installation, command line tool, UI.* Processes, HTTP, file
  operations and presentation, with little state of their own.
- *Windows Terminal.* Upstream code.

Small things that the modelled parts leave out are listed with each module (section 2). Known hazards that no
property covers are in `PROJECT.json` with the reason; beside them: a leaked gate expires in silence
(`SessionRegistry.cpp:2268`), a tap at its limit is answered before its work (`MessagingTaps.h:191`), and a
stop that is late beyond its turn closes the compaction window of the next (`SessionRegistry.cpp:900`).

Left, in order: the refresher with its epochs; the update offset and the outbox across
a crash; two writers of one state document. Of the proofs: every invariant and every action property of
the passing runs is proved; what could still be widened are the regimes that some of them need (`Races`
in `StickyCard`, `Timely` in `PromptDelivery`).
