--------------------------- MODULE PromptDelivery ---------------------------
(***************************************************************************)
(* The delivery of queued prompts into one session's input box, with every *)
(* actor that has a hand in it:                                            *)
(*                                                                         *)
(*   - the runner (Scheduler::_process) and the user's "Send now" mark a   *)
(*     queue row Sent and call SubmitPrompt;                               *)
(*   - a delivery attempt runs as a coroutine on the hosting window's UI   *)
(*     thread (_SubmitPromptWithDraftSwapImpl, _InjectPromptVerified): the *)
(*     stale-delivery guard, the draft taken out of the box, the verified  *)
(*     fill, the Enter, the draft put back.  Attempts interleave only at   *)
(*     their awaits, so a step here is what runs between two awaits;       *)
(*   - the sweep (Scheduler::_sweepPendingPickups) presses Enter again for *)
(*     a prompt that was not picked up, and gives up after some presses;   *)
(*   - the scanner judges prompts that never became a message: Failed when *)
(*     they were typed (lost), Pending again when they were not (reclaim); *)
(*   - claude turns a committed box into a message; the UserPromptSubmit   *)
(*     hook and the transcript both tell of it, each in its own time.      *)
(*                                                                         *)
(* The gate is BoxClaim's (DeliveryGate implements it): its owner is an    *)
(* attempt, its claim may lapse.  Ages are classes: of the send 0 (just    *)
(* sent or pressed), 1 (a press is due), 2 (settled, kLostSendSettleMs),   *)
(* 3 (past kPickupGuardMaxMs).  The settings are the defaults: drafts are  *)
(* preserved and sends verified.  Settle window, send spacing, budget and  *)
(* the other holds of DecideAdvance only delay a send and are left out.    *)
(***************************************************************************)
EXTENDS Naturals, FiniteSets

CONSTANTS
    N,            \* prompts in the queue, sent in order
    MaxAttempts,  \* bound: submissions in one behavior
    MaxFills,     \* kSendVerifyMaxFills
    MaxPresses,   \* kEnterRetryMax
    StrikeLimit,  \* kSendVerifyStrikeLimit
    Starved,      \* may a live delivery outlast its gate (a UI thread that starves)?
    MayVanish,    \* may the hosting page be torn down under a delivery?
    AnyRow,       \* may "Send now" name a row that is not Pending?
    HeldOff,      \* may a running turn or a menu hold the sweep off until the
                  \* scanner's verdict is due as well?
    Hooks         \* "prompt": a hook arrives before a press is due; "late"; "lost"

ASSUME CountAssumption ==
    /\ N \in Nat \ {0} /\ MaxAttempts \in Nat \ {0}
    /\ MaxFills \in Nat \ {0} /\ MaxPresses \in Nat /\ StrikeLimit \in Nat \ {0}

ASSUME RegimeAssumption ==
    /\ Starved \in BOOLEAN /\ MayVanish \in BOOLEAN
    /\ AnyRow \in BOOLEAN /\ HeldOff \in BOOLEAN
    /\ Hooks \in {"prompt", "late", "lost"}

Prompt == 1..N
Attempt == 1..MaxAttempts
Sender == {"runner", "user"}

(* What the input box shows: nothing, exactly one of the prompts, the      *)
(* user's draft, or a draft with a prompt merged into it.                  *)
Empty == 0
Draft == N + 1
Mixed == N + 2
Content == 0..(N + 2)

VARIABLES
    row,     \* the queue rows (QueuedPrompt), and the page's strike ledger
    mode,    \* AutorunnerState::mode
    job,     \* what each sender is doing, for which prompt
    owner,   \* the attempt whose tag stands in the gate (0: none)
    lapsed,  \* the gate's claim is past its lifetime
    att,     \* the delivery attempts
    used,    \* how many attempts were submitted
    latch,   \* _draftSwapsInFlight holds the session: its control is read-only
    box,     \* the input box
    msgs,    \* how many messages claude took from each prompt (2: or more)
    hookQ,   \* prompts whose UserPromptSubmit hook is on its way
    unread,  \* prompts with a transcript line, not older than the row's send
             \* stamp, that the scanner has not read
    turn,    \* SessionInfo::state: "rest" (Idle, WaitingForInput) or "run"
    pressQ,  \* presses dispatched to the UI thread
    scan     \* the scanner's pass

vars == <<row, mode, job, owner, lapsed, att, used, latch, box, msgs, hookQ,
          unread, turn, pressQ, scan>>

queueVars == <<row, mode>>
gateVars == <<owner, lapsed>>
claudeVars == <<msgs, hookQ, unread>>

NewRow == [status |-> "Pending", echoed |-> FALSE, injected |-> "no", age |-> 0,
           presses |-> 0, strikes |-> 0]

NoJob == [at |-> "idle", p |-> 0, saw |-> FALSE]

Init ==
    /\ row = [p \in Prompt |-> NewRow]
    /\ mode = "auto"
    /\ job = [s \in Sender |-> NoJob]
    /\ owner = 0 /\ lapsed = FALSE
    /\ att = [a \in Attempt |-> [pc |-> "none", p |-> 0, fills |-> 0, draft |-> Empty]]
    /\ used = 0
    /\ latch = FALSE
    /\ box \in {Empty, Draft}
    /\ msgs = [p \in Prompt |-> 0]
    /\ hookQ = {} /\ unread = {}
    /\ turn = "rest"
    /\ pressQ = {}
    /\ scan = [at |-> "idle", lost |-> {}, reclaim |-> {}]

-----------------------------------------------------------------------------
(* The gate and the queue rows.                                            *)

(* Mutated form: a claim whose lifetime is over as soon as it is made.     *)
GateNeverOpen == FALSE

GateOpen == owner # 0 /\ ~lapsed

(* A Sent row nobody has seen become a message.                            *)
Unechoed(p) == row[p].status = "Sent" /\ ~row[p].echoed

(* The mark every sender makes: a fresh send, stamped now.  Lines that are *)
(* in the transcript already are older than the stamp and no longer count. *)
MarkedSent(r) ==
    [r EXCEPT !.status = "Sent", !.echoed = FALSE, !.injected = "no", !.age = 0,
              !.presses = 0]

(* RollbackPromptToPending: only a row that is still Sent goes back.       *)
RolledBack(r) ==
    IF r.status = "Sent"
    THEN [r EXCEPT !.status = "Pending", !.echoed = FALSE, !.injected = "no"]
    ELSE r

(* MarkPromptInjected.                                                     *)
Injected(r) == IF r.status = "Sent" THEN [r EXCEPT !.injected = "fresh"] ELSE r

(* The bound on submissions is taken where a row is marked, so that no     *)
(* marked row is left without its submission.                              *)
MaySubmit == used + Cardinality({s \in Sender : job[s].at \in {"decided", "marked"}}) < MaxAttempts

-----------------------------------------------------------------------------
(* The senders.                                                            *)

(* DecideAdvance: the first Pending prompt of a session at rest, when no   *)
(* delivery owns the box and no earlier send awaits its pickup.            *)
DecideSend(p) ==
    /\ job["runner"].at = "idle"
    /\ MaySubmit
    /\ mode = "auto" /\ turn = "rest"
    /\ ~GateOpen
    /\ \A q \in Prompt : ~(Unechoed(q) /\ row[q].age < 3)
    /\ row[p].status = "Pending"
    /\ \A q \in Prompt : q < p => row[q].status # "Pending"
    /\ job' = [job EXCEPT !["runner"] = [at |-> "decided", p |-> p, saw |-> FALSE]]
    /\ UNCHANGED <<row, mode, gateVars, att, used, latch, box, claudeVars, turn, pressQ, scan>>

(* _process marks the row it decided on, by id, if it is still Pending.    *)
RunnerMarks ==
    LET p == job["runner"].p IN
    /\ job["runner"].at = "decided"
    /\ IF row[p].status = "Pending"
       THEN /\ row' = [row EXCEPT ![p] = MarkedSent(@)]
            /\ unread' = unread \ {p}
            /\ job' = [job EXCEPT !["runner"].at = "marked"]
       ELSE /\ job' = [job EXCEPT !["runner"] = NoJob]
            /\ UNCHANGED <<row, unread>>
    /\ UNCHANGED <<mode, gateVars, att, used, latch, box, msgs, hookQ, turn, pressQ, scan>>

(* _DoSendNow: the composed text (a row of its own, sent at once), the     *)
(* selected row whatever its status, or else the first Pending one; the    *)
(* runner's mode and the gate are not asked.                               *)
SendNow(p) ==
    /\ job["user"].at = "idle"
    /\ MaySubmit
    /\ AnyRow \/ row[p].status = "Pending"
    /\ row' = [row EXCEPT ![p] = MarkedSent(@)]
    /\ unread' = unread \ {p}
    /\ job' = [job EXCEPT !["user"] = [at |-> "marked", p |-> p, saw |-> FALSE]]
    /\ UNCHANGED <<mode, gateVars, att, used, latch, box, msgs, hookQ, turn, pressQ, scan>>

(* Mutated form of Submit: the gate is claimed without a look at it.       *)
SubmitAnyway(s) ==
    /\ job[s].at = "marked"
    /\ used' = used + 1
    /\ owner' = used'
    /\ lapsed' = FALSE
    /\ att' = [att EXCEPT ![used'] =
                  [pc |-> "queued", p |-> job[s].p, fills |-> 0, draft |-> Empty]]
    /\ job' = [job EXCEPT ![s] = NoJob]
    /\ UNCHANGED <<queueVars, latch, box, claudeVars, turn, pressQ, scan>>

(* SubmitPrompt: a free or lapsed gate is claimed and the delivery hops to *)
(* the UI thread; a held one declines.                                     *)
Submit(s) ==
    /\ job[s].at = "marked"
    /\ IF GateOpen
       THEN /\ job' = [job EXCEPT ![s].at = "declined"]
            /\ UNCHANGED <<gateVars, att, used>>
       ELSE /\ used' = used + 1
            /\ owner' = used'
            /\ lapsed' = FALSE
            /\ att' = [att EXCEPT ![used'] =
                          [pc |-> "queued", p |-> job[s].p, fills |-> 0, draft |-> Empty]]
            /\ job' = [job EXCEPT ![s] = NoJob]
    /\ UNCHANGED <<queueVars, latch, box, claudeVars, turn, pressQ, scan>>

(* The window's submitter refuses or throws: the gate claimed for it is    *)
(* closed again.                                                           *)
Refuse(s) ==
    /\ job[s].at = "marked"
    /\ ~GateOpen
    /\ owner' = 0 /\ lapsed' = FALSE
    /\ job' = [job EXCEPT ![s].at = "declined"]
    /\ UNCHANGED <<queueVars, att, used, latch, box, claudeVars, turn, pressQ, scan>>

(* Mutated form of Decline: the row stays marked.                          *)
DeclineSilently(s) ==
    /\ job[s].at = "declined"
    /\ job' = [job EXCEPT ![s] = NoJob]
    /\ UNCHANGED <<queueVars, gateVars, att, used, latch, box, claudeVars, turn, pressQ, scan>>

(* The sender that was turned down rolls its row back.                     *)
Decline(s) ==
    /\ job[s].at = "declined"
    /\ row' = [row EXCEPT ![job[s].p] = RolledBack(@)]
    /\ job' = [job EXCEPT ![s] = NoJob]
    /\ UNCHANGED <<mode, gateVars, att, used, latch, box, claudeVars, turn, pressQ, scan>>

-----------------------------------------------------------------------------
(* Claude: a committed box becomes a message.                              *)

Commit(p) ==
    /\ box' = Empty
    /\ msgs' = [msgs EXCEPT ![p] = IF @ < 2 THEN @ + 1 ELSE 2]
    /\ hookQ' = hookQ \cup {p}
    /\ unread' = unread \cup {p}

(* The Enter may also be absorbed: the text stays in the box.              *)
Enter(p) == Commit(p) \/ UNCHANGED <<box, claudeVars>>

-----------------------------------------------------------------------------
(* A delivery attempt on the UI thread.                                    *)

Owns(a) == owner = a

(* The exit of an attempt: the latch is dropped if it was taken, the gate  *)
(* is closed if it is still this attempt's.                                *)
Typing == {"clear", "fill", "verify", "await", "restore"}

Exit(a) ==
    /\ att' = [att EXCEPT ![a].pc = "done"]
    /\ latch' = (latch /\ att[a].pc \notin Typing)
    /\ IF Owns(a) THEN owner' = 0 /\ lapsed' = FALSE ELSE UNCHANGED gateVars

(* After its send was refused an attempt still puts the draft back.        *)
RestoreOrExit(a) ==
    IF att[a].draft = Empty
    THEN Exit(a)
    ELSE att' = [att EXCEPT ![a].pc = "restore"] /\ UNCHANGED <<latch, gateVars>>

(* RevalidateDeliveryGate of an attempt whose tag stands.                  *)
Renews(a) == Owns(a) /\ lapsed' = FALSE /\ UNCHANGED owner

(* The stale-delivery guard failed: nothing is typed, nothing rolled back. *)
StaleAtTop(a) ==
    /\ att[a].pc = "queued"
    /\ row[att[a].p].status # "Sent" \/ ~Owns(a)
    /\ Exit(a)
    /\ UNCHANGED <<queueVars, job, used, box, claudeVars, turn, pressQ, scan>>

(* The guard passed, but the tab is dormant (its claude is not started) or *)
(* another operation holds the box.                                        *)
TurnedAway(a) ==
    /\ att[a].pc = "queued"
    /\ row[att[a].p].status = "Sent" /\ Owns(a)
    /\ \/ box = Empty
       \/ latch
    /\ row' = [row EXCEPT ![att[a].p] = RolledBack(@)]
    /\ Exit(a)
    /\ UNCHANGED <<mode, job, used, box, claudeVars, turn, pressQ, scan>>

(* The guard passed and the latch is free.  A box that reads empty or not  *)
(* at all is read again after an await.                                    *)
Probe(a) ==
    /\ att[a].pc = "queued"
    /\ row[att[a].p].status = "Sent" /\ Renews(a)
    /\ ~latch
    /\ IF box = Empty
       THEN /\ att' = [att EXCEPT ![a].pc = "probing"]
            /\ UNCHANGED latch
       ELSE \/ /\ att' = [att EXCEPT ![a].pc = "clear"]
               /\ latch' = TRUE
            \/ /\ att' = [att EXCEPT ![a].pc = "probing"]
               /\ UNCHANGED latch
    /\ UNCHANGED <<queueVars, job, used, box, claudeVars, turn, pressQ, scan>>

(* No input box on the screen: the pre-flight declines without a strike.   *)
NoBox(a) ==
    /\ att[a].pc = "probing"
    /\ row' = [row EXCEPT ![att[a].p] = RolledBack(@)]
    /\ Exit(a)
    /\ UNCHANGED <<mode, job, used, box, claudeVars, turn, pressQ, scan>>

(* The re-read: the box is taken without another look at the latch.        *)
Lock(a) ==
    /\ att[a].pc = "probing"
    /\ latch' = TRUE
    /\ att' = [att EXCEPT ![a].pc = IF box = Empty THEN "fill" ELSE "clear"]
    /\ UNCHANGED <<queueVars, job, gateVars, used, box, claudeVars, turn, pressQ, scan>>

(* The draft leaves the box, whoever owns the gate by now.                 *)
Clear(a) ==
    /\ att[a].pc = "clear"
    /\ att' = [att EXCEPT ![a].pc = "fill", ![a].draft = box]
    /\ box' = Empty
    /\ UNCHANGED <<queueVars, job, gateVars, used, latch, claudeVars, turn, pressQ, scan>>

(* The box would not clear: nothing is sent, what was erased is put back.  *)
ClearFails(a) ==
    /\ att[a].pc = "clear"
    /\ row' = [row EXCEPT ![att[a].p] = RolledBack(@)]
    /\ att' = [att EXCEPT ![a].pc = "restore", ![a].draft = box]
    /\ UNCHANGED <<mode, job, gateVars, used, latch, box, claudeVars, turn, pressQ, scan>>

(* What the box shows once `p` was pasted into it.                         *)
Pasted(p) == IF box = Empty THEN p ELSE Mixed

(* The fill: the paste lands, or the TUI eats it.                          *)
Fill(a) ==
    /\ att[a].pc = "fill"
    /\ Renews(a)
    /\ box' \in {box, Pasted(att[a].p)}
    /\ att' = [att EXCEPT ![a].pc = "verify", ![a].fills = @ + 1]
    /\ UNCHANGED <<queueVars, job, used, latch, claudeVars, turn, pressQ, scan>>

(* The claim was lost before a fill or before the Enter: stop, leave the   *)
(* queue to whoever took it.                                               *)
StaleAtWork(a) ==
    /\ \/ att[a].pc = "fill"
       \/ att[a].pc = "verify" /\ box = att[a].p
    /\ ~Owns(a)
    /\ RestoreOrExit(a)
    /\ UNCHANGED <<queueVars, job, used, box, claudeVars, turn, pressQ, scan>>

(* The box reads exactly the prompt: the gate is asked once more, then     *)
(* Enter, then the injection is recorded.                                  *)
Deliver(a) ==
    LET p == att[a].p IN
    /\ att[a].pc = "verify"
    /\ box = p
    /\ Owns(a)
    /\ Enter(p)
    /\ row' = [row EXCEPT ![p] = [Injected(@) EXCEPT !.strikes = 0]]
    /\ IF att[a].draft = Empty
       THEN Exit(a)
       ELSE /\ Renews(a)
            /\ att' = [att EXCEPT ![a].pc = "await"]
            /\ UNCHANGED latch
    /\ UNCHANGED <<mode, job, used, turn, pressQ, scan>>

(* Mutated form of Refill: every eaten fill starts a fresh round.          *)
RefillForever(a) ==
    /\ att[a].pc = "verify"
    /\ box = Empty
    /\ att' = [att EXCEPT ![a].pc = "fill", ![a].fills = 0]
    /\ UNCHANGED <<queueVars, job, gateVars, used, latch, box, claudeVars, turn, pressQ, scan>>

(* The fill was eaten (a partial one is discarded first): fill again.      *)
Refill(a) ==
    /\ att[a].pc = "verify"
    /\ box = Empty
    /\ att[a].fills < MaxFills
    /\ att' = [att EXCEPT ![a].pc = "fill"]
    /\ UNCHANGED <<queueVars, job, gateVars, used, latch, box, claudeVars, turn, pressQ, scan>>

(* Mutated form of Struck: one strike too many.                            *)
StruckOnceMore(r) ==
    IF r.strikes < StrikeLimit
    THEN [RolledBack(r) EXCEPT !.strikes = @ + 1]
    ELSE [r EXCEPT !.strikes = 0]

(* An unverifiable delivery: back to Pending, and Failed the second time.  *)
Struck(r) ==
    IF r.strikes + 1 < StrikeLimit
    THEN [RolledBack(r) EXCEPT !.strikes = @ + 1]
    ELSE IF r.status = "Sent" /\ ~r.echoed
         THEN [r EXCEPT !.status = "Failed", !.strikes = 0]
         ELSE [r EXCEPT !.strikes = 0]

(* Eaten for good; foreign text in the box, our own insertion undone; or a *)
(* box that cannot be read, which is left as it is.                        *)
Strike(a) ==
    /\ att[a].pc = "verify"
    /\ \/ box = Empty /\ att[a].fills = MaxFills /\ UNCHANGED box
       \/ box = Mixed /\ box' = Draft
       \/ UNCHANGED box
    /\ row' = [row EXCEPT ![att[a].p] = Struck(@)]
    /\ RestoreOrExit(a)
    /\ UNCHANGED <<mode, job, used, claudeVars, turn, pressQ, scan>>

(* The await ends with the prompt gone from the box, or by its budget: a   *)
(* box that still shows text then keeps it, and the draft stays in memory. *)
AwaitEnds(a) ==
    /\ att[a].pc = "await"
    /\ \/ /\ box # att[a].p
          /\ att' = [att EXCEPT ![a].pc = "restore"]
          /\ UNCHANGED <<latch, gateVars>>
       \/ /\ box # Empty
          /\ Exit(a)
    /\ UNCHANGED <<queueVars, job, used, box, claudeVars, turn, pressQ, scan>>

(* The draft is put back, leftovers killed first, or is kept in memory.    *)
Restore(a) ==
    /\ att[a].pc = "restore"
    /\ box' \in {att[a].draft, box}
    /\ Exit(a)
    /\ UNCHANGED <<queueVars, job, used, claudeVars, turn, pressQ, scan>>

(* The page is torn down: nothing closes the gate.                         *)
Vanish(a) ==
    /\ MayVanish
    /\ att[a].pc \notin {"none", "done"}
    /\ att' = [att EXCEPT ![a].pc = "done"]
    /\ latch' = (latch /\ att[a].pc \notin Typing)
    /\ UNCHANGED <<queueVars, job, gateVars, used, box, claudeVars, turn, pressQ, scan>>

(* The gate's lifetime runs out: on a live delivery only when it starves.  *)
Lapse ==
    /\ GateOpen
    /\ Starved \/ att[owner].pc = "done"
    /\ lapsed' = TRUE
    /\ UNCHANGED <<queueVars, job, owner, att, used, latch, box, claudeVars, turn, pressQ, scan>>

-----------------------------------------------------------------------------
(* The Enter-retry sweep, on the scheduler's thread.                       *)

(* DecideEnterRetry on a fresh snapshot: the latest unechoed send.         *)
Watched(p) ==
    /\ job["runner"].at = "idle"
    /\ turn = "rest" /\ ~GateOpen
    /\ Unechoed(p)
    /\ \A q \in Prompt : Unechoed(q) => row[p].age <= row[q].age

(* A hook that is "prompt" is there before the next press, and before a    *)
(* send is a class older.                                                  *)
Waited(p) == Hooks = "prompt" => p \notin hookQ

SweepPresses(p) ==
    /\ Watched(p) /\ Waited(p)
    /\ row[p].presses < MaxPresses
    /\ row[p].age >= 1
    /\ HeldOff \/ row[p].age = 1
    /\ pressQ' = pressQ \cup {p}
    /\ job' = [job EXCEPT !["runner"] = [at |-> "pressed", p |-> p, saw |-> p \in unread]]
    /\ UNCHANGED <<queueVars, gateVars, att, used, latch, box, claudeVars, turn, scan>>

(* The press restarts the send's clock, from the start of the sweep: a     *)
(* message claude took before that is then older than the send.            *)
SweepCounts ==
    LET p == job["runner"].p IN
    /\ job["runner"].at = "pressed"
    /\ IF Unechoed(p)
       THEN /\ row' = [row EXCEPT ![p].presses = @ + 1, ![p].age = 0]
            /\ unread' = IF job["runner"].saw THEN unread \ {p} ELSE unread
       ELSE UNCHANGED <<row, unread>>
    /\ job' = [job EXCEPT !["runner"] = NoJob]
    /\ UNCHANGED <<mode, gateVars, att, used, latch, box, msgs, hookQ, turn, pressQ, scan>>

SweepGivesUp(p) ==
    /\ Watched(p)
    /\ row[p].presses >= MaxPresses
    /\ job' = [job EXCEPT !["runner"] = [at |-> "givingUp", p |-> p, saw |-> FALSE]]
    /\ UNCHANGED <<queueVars, gateVars, att, used, latch, box, claudeVars, turn, pressQ, scan>>

(* The give-up fails the prompt if it is still unechoed and pauses the     *)
(* runner in any case.                                                     *)
GiveUp ==
    LET p == job["runner"].p IN
    /\ job["runner"].at = "givingUp"
    /\ row' = IF Unechoed(p) THEN [row EXCEPT ![p].status = "Failed"] ELSE row
    /\ mode' = "off"
    /\ job' = [job EXCEPT !["runner"] = NoJob]
    /\ UNCHANGED <<gateVars, att, used, latch, box, claudeVars, turn, pressQ, scan>>

(* _PressEnterForWatchedPrompt, on the UI thread: only a free box that is  *)
(* empty or holds the watched prompt is pressed into.                      *)
Press(p) ==
    /\ p \in pressQ
    /\ pressQ' = pressQ \ {p}
    /\ IF ~latch /\ box = p THEN Enter(p) ELSE UNCHANGED <<box, claudeVars>>
    /\ UNCHANGED <<queueVars, job, gateVars, att, used, latch, turn, scan>>

-----------------------------------------------------------------------------
(* The scanner's pass over the session.                                    *)

(* Mutated form of ScanReads: the lines are read, nothing is echoed.       *)
ScanSkips ==
    /\ scan = [at |-> "idle", lost |-> {}, reclaim |-> {}]
    /\ unread # {} \/ \E p \in Prompt : Unechoed(p)
    /\ unread' = {}
    /\ scan' = [scan EXCEPT !.at = "read"]
    /\ UNCHANGED <<queueVars, job, gateVars, att, used, latch, box, msgs, hookQ, turn, pressQ>>

(* NoteExternalPrompt for every new transcript line: the pull echo.        *)
ScanReads ==
    /\ scan = [at |-> "idle", lost |-> {}, reclaim |-> {}]
    /\ unread # {} \/ \E p \in Prompt : Unechoed(p)
    /\ row' = [p \in Prompt |->
                  IF p \in unread /\ Unechoed(p)
                  THEN [row[p] EXCEPT !.echoed = TRUE] ELSE row[p]]
    /\ unread' = {}
    /\ scan' = [scan EXCEPT !.at = "read"]
    /\ UNCHANGED <<mode, job, gateVars, att, used, latch, box, msgs, hookQ, turn, pressQ>>

(* DecideLostSend and DecideUndeliveredReclaim on a fresh snapshot.        *)
Lost(p) ==
    /\ turn = "rest" /\ ~GateOpen
    /\ Unechoed(p) /\ row[p].age >= 2 /\ row[p].injected = "settled"

(* Mutated form of Undelivered: the gate is not asked.                     *)
UndeliveredUngated(p) == Unechoed(p) /\ row[p].age >= 2 /\ row[p].injected = "no"

Undelivered(p) == ~GateOpen /\ Unechoed(p) /\ row[p].age >= 2 /\ row[p].injected = "no"

ScanJudges ==
    /\ scan.at = "read"
    /\ scan' = [at |-> "idle", lost |-> {p \in Prompt : Lost(p)},
                reclaim |-> {p \in Prompt : Undelivered(p)}]
    /\ UNCHANGED <<queueVars, job, gateVars, att, used, latch, box, claudeVars, turn, pressQ>>

(* The verdicts are applied one by one, each checked against the live row. *)
ApplyLost(p) ==
    /\ p \in scan.lost
    /\ scan' = [scan EXCEPT !.lost = @ \ {p}]
    /\ IF Unechoed(p) /\ row[p].age >= 2 /\ row[p].injected = "settled"
       THEN row' = [row EXCEPT ![p].status = "Failed"] /\ mode' = "off"
       ELSE UNCHANGED queueVars
    /\ UNCHANGED <<job, gateVars, att, used, latch, box, claudeVars, turn, pressQ>>

ApplyReclaim(p) ==
    /\ p \in scan.reclaim
    /\ scan' = [scan EXCEPT !.reclaim = @ \ {p}]
    /\ row' = IF Undelivered(p)
              THEN [row EXCEPT ![p].status = "Pending", ![p].presses = 0]
              ELSE row
    /\ UNCHANGED <<mode, job, gateVars, att, used, latch, box, claudeVars, turn, pressQ>>

-----------------------------------------------------------------------------
(* The hooks, the turn, the user and time.                                 *)

(* OnHookEvent(UserPromptSubmit): the turn runs; the push echo counts only *)
(* within kEchoWindowMs of the send.                                       *)
HookArrives(p) ==
    /\ p \in hookQ
    /\ hookQ' = hookQ \ {p}
    /\ turn' = "run"
    /\ row' = IF Unechoed(p) /\ row[p].age < 2
              THEN [row EXCEPT ![p].echoed = TRUE] ELSE row
    /\ UNCHANGED <<mode, job, gateVars, att, used, latch, box, msgs, unread, pressQ, scan>>

HookLost(p) ==
    /\ Hooks = "lost"
    /\ p \in hookQ
    /\ hookQ' = hookQ \ {p}
    /\ UNCHANGED <<queueVars, job, gateVars, att, used, latch, box, msgs, unread, turn, pressQ, scan>>

TurnEnds ==
    /\ turn = "run"
    /\ turn' = "rest"
    /\ UNCHANGED <<queueVars, job, gateVars, att, used, latch, box, claudeVars, pressQ, scan>>

(* The user writes or wipes text in a box that is not locked, and turns a  *)
(* paused runner on again.                                                 *)
UserEdits ==
    /\ ~latch
    /\ box' = IF box = Empty THEN Draft ELSE Empty
    /\ UNCHANGED <<queueVars, job, gateVars, att, used, latch, claudeVars, turn, pressQ, scan>>

ReArm ==
    /\ mode = "off"
    /\ mode' = "auto"
    /\ UNCHANGED <<row, job, gateVars, att, used, latch, box, claudeVars, turn, pressQ, scan>>

(* Time.  The scanner passes every two seconds, so a line does not stay    *)
(* unread for the time a send or an injection takes to settle.             *)

(* A verdict measures ages with the time it was decided at, so a row under *)
(* judgement does not age: one stamped again meanwhile reads young.        *)
Judged(p) == p \in scan.lost \cup scan.reclaim

(* A send ages.  What a sender or the sweep does with a row it just marked *)
(* or pressed follows at once; the UI thread presses at once unless it     *)
(* starves.                                                                *)
Handled(p) == \E s \in Sender : job[s].p = p /\ job[s].at \in {"marked", "declined", "pressed"}

Ages(p) ==
    /\ Unechoed(p)
    /\ row[p].age < 3
    /\ ~Judged(p)
    /\ ~Handled(p)
    /\ Starved \/ p \notin pressQ
    /\ Waited(p)
    /\ row[p].age = 1 => p \notin unread
    /\ row' = [row EXCEPT ![p].age = @ + 1]
    /\ UNCHANGED <<mode, job, gateVars, att, used, latch, box, claudeVars, turn, pressQ, scan>>

(* A press restarts the send's clock, not the injection's.                 *)
InjectionSettles(p) ==
    /\ row[p].injected = "fresh"
    /\ ~Judged(p)
    /\ row[p].age >= 2 \/ row[p].presses > 0
    /\ Waited(p) /\ p \notin unread
    /\ row' = [row EXCEPT ![p].injected = "settled"]
    /\ UNCHANGED <<mode, job, gateVars, att, used, latch, box, claudeVars, turn, pressQ, scan>>

-----------------------------------------------------------------------------
Runner ==
    \/ \E p \in Prompt : DecideSend(p)
    \/ RunnerMarks \/ SweepCounts \/ GiveUp
    \/ Submit("runner") \/ Refuse("runner") \/ Decline("runner")

Sweep == \E p \in Prompt : SweepPresses(p) \/ SweepGivesUp(p)

User ==
    \/ \E p \in Prompt : SendNow(p)
    \/ UserEdits \/ ReArm

UserSubmits == Submit("user") \/ Refuse("user") \/ Decline("user")

Delivery(a) ==
    \/ StaleAtTop(a) \/ TurnedAway(a) \/ Probe(a) \/ NoBox(a) \/ Lock(a)
    \/ Clear(a) \/ ClearFails(a) \/ Fill(a) \/ StaleAtWork(a) \/ Deliver(a)
    \/ Refill(a) \/ Strike(a) \/ AwaitEnds(a) \/ Restore(a)

Verdict(p) == ApplyLost(p) \/ ApplyReclaim(p)

Hook(p) == HookArrives(p) \/ HookLost(p)

Next ==
    \/ Runner \/ Sweep \/ User \/ UserSubmits
    \/ ScanReads \/ ScanJudges
    \/ \E a \in Attempt : Delivery(a) \/ Vanish(a)
    \/ \E p \in Prompt : Verdict(p) \/ Press(p) \/ Hook(p) \/ Ages(p) \/ InjectionSettles(p)
    \/ Lapse \/ TurnEnds

(* The threads run, the UI thread serves each coroutine and each press,    *)
(* time passes, turns end.  What the user does is never promised, and the  *)
(* sweep need not press: a foreign draft or a menu may hold it off.        *)
Fairness ==
    /\ WF_vars(Runner) /\ WF_vars(UserSubmits)
    /\ WF_vars(ScanReads) /\ WF_vars(ScanJudges)
    /\ WF_vars(Lapse) /\ WF_vars(TurnEnds)
    /\ \A a \in Attempt : WF_vars(Delivery(a))
    /\ \A p \in Prompt :
          /\ WF_vars(Verdict(p)) /\ WF_vars(Press(p)) /\ WF_vars(Hook(p))
          /\ WF_vars(Ages(p)) /\ WF_vars(InjectionSettles(p))

Spec == Init /\ [][Next]_vars /\ Fairness

-----------------------------------------------------------------------------
TypeOK ==
    /\ row \in [Prompt -> [status : {"Pending", "Sent", "Failed"}, echoed : BOOLEAN,
                           injected : {"no", "fresh", "settled"}, age : 0..3,
                           presses : 0..MaxPresses, strikes : 0..(StrikeLimit - 1)]]
    /\ mode \in {"auto", "off"}
    /\ job \in [Sender -> [at : {"idle", "decided", "marked", "declined", "pressed", "givingUp"},
                           p : 0..N, saw : BOOLEAN]]
    /\ owner \in 0..MaxAttempts /\ lapsed \in BOOLEAN
    /\ att \in [Attempt -> [pc : {"none", "queued", "probing", "done"} \cup Typing, p : 0..N,
                            fills : 0..MaxFills, draft : Content]]
    /\ used \in 0..MaxAttempts
    /\ latch \in BOOLEAN
    /\ box \in Content
    /\ msgs \in [Prompt -> 0..2]
    /\ hookQ \subseteq Prompt /\ unread \subseteq Prompt /\ pressQ \subseteq Prompt
    /\ turn \in {"rest", "run"}
    /\ scan \in [at : {"idle", "read"}, lost : SUBSET Prompt, reclaim : SUBSET Prompt]

(* At most one delivery types into the box at a time: the gate, the latch  *)
(* and the top guard together.                                             *)
BoxExclusive == Cardinality({a \in Attempt : att[a].pc \in Typing}) <= 1

(* No prompt becomes two messages, whatever rollbacks, reclaims, presses   *)
(* and resends it goes through.                                            *)
AtMostOnce == \A p \in Prompt : msgs[p] <= 1

(* No phantom Sent: a row that reads Sent, was not typed and is not seen   *)
(* as a message has a sender or a delivery that still answers for it.      *)
NoPhantomSent ==
    \A p \in Prompt :
        Unechoed(p) /\ row[p].injected = "no" =>
            \/ \E s \in Sender : job[s].p = p /\ job[s].at \in {"marked", "declined"}
            \/ \E a \in Attempt : att[a].p = p /\ att[a].pc \notin {"none", "await", "restore", "done"}

(* A delivery presses Enter only for a row that still reads Sent: once a   *)
(* row is reclaimed or failed, the delivery it was marked for does not     *)
(* deliver any more.                                                       *)
ZombieStaysOut ==
    [][\A a \in Attempt :
          att[a].pc = "verify" /\ att'[a] # att[a] /\ msgs'[att[a].p] > msgs[att[a].p] =>
              row[att[a].p].status = "Sent"]_vars

(* The lost-send verdict is passed only on a prompt that did not become a  *)
(* message: it fails the prompt and pauses the runner.                     *)
LostVerdictSound ==
    [][\A p \in scan.lost \ scan'.lost :
          row[p].status = "Sent" /\ row'[p].status = "Failed" => msgs[p] = 0]_vars

(* Nor does any other path fail a prompt that became a message.            *)
FailedIsNoMessage == \A p \in Prompt : row[p].status = "Failed" => msgs[p] = 0

(* Every send is resolved: a Sent row is seen as a message, fails, or goes *)
(* back to Pending, however the delivery ended.                            *)
SendsResolve == \A p \in Prompt : Unechoed(p) ~> ~Unechoed(p)

(* The user's keyboard comes back: the tab does not stay read-only.        *)
LatchReleased == latch ~> ~latch

(* Whatever becomes of a delivery, neither its prompt nor its tab waits for *)
(* it for ever.                                                            *)
DeliveryEnds == SendsResolve /\ LatchReleased
=============================================================================
