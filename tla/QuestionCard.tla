---------------------------- MODULE QuestionCard ----------------------------
(***************************************************************************)
(* Claude's question dialogs answered from the phone.  A dialog opens at    *)
(* the PC and claude runs a hook beside it; the hook's helper asks over a    *)
(* pipe and waits.  A worker of the bridge serves each helper and enters its *)
(* request in the registry; the messaging service makes a card of it.  The   *)
(* dialog may be answered at the PC, by the phone through the helper, or by  *)
(* claude's own idle timeout, and the card has only the transcript and the   *)
(* request's state to tell it which.                                        *)
(*                                                                          *)
(* Three threads race over a request: the worker, the service's tick (its    *)
(* pass works on a snapshot of the registry) and its poll thread (taps).     *)
(* What a thread decides under the service's mutex it carries out in the     *)
(* registry later, outside of it.  The waits of the code (the settle of a    *)
(* hook that ended, the confirmation's clock, a topic in the making) are     *)
(* steps that may come at any time.                                         *)
(***************************************************************************)
CONSTANTS
    Ask,        \* the dialogs, and the requests of their hooks
    None,
    StopMayRace \* the bot may stop between a request's door and its entry

(* The values that the variables take.                                      *)
States == {"Open", "Answered", "Delivered", "Released", "Gone"}
Replies == {"allow", "deny", "noDecision"}
Entries == [state: States, reply: Replies \cup {None}, queued: BOOLEAN]
Phases == {"Open", "Sending", "Answered", "AnsweredAtPc", "Clarify", "Replied", "TimedOut", "Closed"}
Cards == [phase: Phases, decided: BOOLEAN, resultSeen: BOOLEAN, unconfirmed: BOOLEAN]
Snapshots == [Ask -> States \cup {None}]
Decisions == [ask: Ask, line: {"allow", "deny"}]

ASSUME QuestionAssumption ==
    /\ None \notin Ask \cup States \cup Replies \cup Entries \cup Cards \cup Snapshots \cup Decisions
    /\ StopMayRace \in BOOLEAN

VARIABLES
    dialog, \* claude's dialog, and what the transcript shows of it
    live,   \* the dialog's session is live
    hook,   \* the question hook's helper process
    worker, \* the bridge's worker that serves it
    entry,  \* AskRegistry: the request, None before it and when it is forgotten
    bot,    \* the messaging service: on, stopping, or off
    topic,  \* the dialog's session has a topic
    card,   \* the question card
    taken,  \* _asksTaken
    tick,   \* the tick thread: a pass over the requests, and a release it owes
    tap     \* the poll thread: a decision it owes to the registry

vars == <<dialog, live, hook, worker, entry, bot, topic, card, taken, tick, tap>>
claude == <<dialog, live, hook>>
service == <<bot, topic, card, taken, tick, tap>>

----------------------------------------------------------------------------
(***************************************************************************)
(* claude and the PC.                                                       *)
(***************************************************************************)

Results == {"pcAnswer", "pcReject", "idleTimeout", "phoneAnswer", "phoneDeny"}

\* The dialog opens, and the hook's helper connects to the ask pipe.
DialogOpens(a) ==
    /\ dialog[a] = "none" /\ live[a]
    /\ dialog' = [dialog EXCEPT ![a] = "open"]
    /\ hook' = [hook EXCEPT ![a] = "waiting"]
    /\ worker' = [worker EXCEPT ![a] = "door"]
    /\ UNCHANGED <<live, entry, service>>

\* Decided at the PC, or by claude's idle timeout.  An answer does not end the
\* hook; a rejection may (the turn is aborted).
PcDecides(a) ==
    /\ dialog[a] = "open" /\ live[a]
    /\ \E r \in {"pcAnswer", "pcReject", "idleTimeout"} :
          /\ dialog' = [dialog EXCEPT ![a] = r]
          /\ \/ UNCHANGED hook
             \/ r = "pcReject" /\ hook' = [hook EXCEPT ![a] = "ended"]
    /\ UNCHANGED <<live, worker, entry, service>>

\* The helper prints the reply.  claude takes a decision while its dialog is
\* open, unless a rule refuses it; "noDecision" (an empty object) is none.
HookTells(a) ==
    /\ hook[a] = "told"
    /\ hook' = [hook EXCEPT ![a] = "ended"]
    /\ \/ UNCHANGED dialog
       \/ /\ dialog[a] = "open" /\ live[a] /\ entry[a] # None /\ entry[a].reply # "noDecision"
          /\ dialog' = [dialog EXCEPT
                ![a] = IF entry[a].reply = "allow" THEN "phoneAnswer" ELSE "phoneDeny"]
    /\ UNCHANGED <<live, worker, entry, service>>

SessionEnds(a) ==
    /\ live[a]
    /\ live' = [live EXCEPT ![a] = FALSE]
    /\ UNCHANGED <<dialog, hook, worker, entry, service>>

\* The helper notices that its claude is gone, or reaches its own timeout.
HookGivesUp(a) ==
    /\ hook[a] = "waiting"
    /\ hook' = [hook EXCEPT ![a] = "ended"]
    /\ UNCHANGED <<dialog, live, worker, entry, service>>

----------------------------------------------------------------------------
(***************************************************************************)
(* AskRegistry, each method under its mutex.                                *)
(***************************************************************************)

StateOf(a) == IF entry[a] = None THEN None ELSE entry[a].state
Finished(s) == s \in {"Delivered", "Released", "Gone"}

\* Mutant of Replied: the reply is queued, and the request stays open.
RepliedOnly(e, line) ==
    IF e # None /\ e.state = "Open" THEN [e EXCEPT !.reply = line, !.queued = TRUE] ELSE e

\* Answer and Release: the reply is queued and the worker is woken, while the
\* request is open.
Replied(e, line) ==
    IF e # None /\ e.state = "Open"
    THEN [e EXCEPT !.state = "Answered", !.reply = line, !.queued = TRUE] ELSE e

\* TakeReply.
Taken(e) == [e EXCEPT !.queued = FALSE]

\* NoteWritten.
Written(e, ok) ==
    IF e = None THEN None
    ELSE [e EXCEPT !.state = IF ~ok THEN "Gone" ELSE IF e.reply = "noDecision" THEN "Released" ELSE "Delivered"]

\* Mutant of NotedGone: the failure path forgets the request.
NotNoted(e) == e

\* NoteGone.
NotedGone(e) ==
    IF e # None /\ e.state \in {"Open", "Answered"} THEN [e EXCEPT !.state = "Gone"] ELSE e

\* Forget: an open one is left alone.
Forgotten(e) == IF e # None /\ Finished(e.state) THEN None ELSE e

----------------------------------------------------------------------------
(***************************************************************************)
(* AskBridge::_Serve.                                                       *)
(***************************************************************************)

\* _acceptsAsk, asked by AskRegistry::Open before it takes its lock.
Accepts(a) == bot = "on" /\ live[a]

AtTheDoor(a) ==
    /\ worker[a] = "door"
    /\ \/ /\ Accepts(a)
          /\ worker' = [worker EXCEPT ![a] = "accepted"]
          /\ UNCHANGED hook
       \/ /\ ~Accepts(a)
          /\ worker' = [worker EXCEPT ![a] = "done"]
          /\ hook' = [hook EXCEPT ![a] = "ended"]
    /\ UNCHANGED <<dialog, live, entry, service>>

Opens(a) ==
    /\ worker[a] = "accepted"
    /\ worker' = [worker EXCEPT ![a] = "serving"]
    /\ entry' = [entry EXCEPT ![a] = [state |-> "Open", reply |-> None, queued |-> FALSE]]
    /\ UNCHANGED <<claude, service>>

\* TakeReply: the wake-up comes before the helper's end in the worker's wait.
Takes(a) ==
    /\ worker[a] = "serving" /\ entry[a].queued
    /\ worker' = [worker EXCEPT ![a] = "writing"]
    /\ entry' = [entry EXCEPT ![a] = Taken(@)]
    /\ UNCHANGED <<claude, service>>

Writes(a) ==
    /\ worker[a] = "writing"
    /\ worker' = [worker EXCEPT ![a] = "done"]
    /\ \/ /\ hook[a] = "waiting"
          /\ hook' = [hook EXCEPT ![a] = "told"]
          /\ entry' = [entry EXCEPT ![a] = Written(@, TRUE)]
       \/ /\ hook' = [hook EXCEPT ![a] = "ended"]
          /\ entry' = [entry EXCEPT ![a] = Written(@, FALSE)]
    /\ UNCHANGED <<dialog, live, service>>

HelperGone(a) ==
    /\ worker[a] = "serving" /\ ~entry[a].queued /\ hook[a] = "ended"
    /\ worker' = [worker EXCEPT ![a] = "done"]
    /\ entry' = [entry EXCEPT ![a] = NotedGone(@)]
    /\ UNCHANGED <<claude, service>>

----------------------------------------------------------------------------
(***************************************************************************)
(* The card.                                                                *)
(***************************************************************************)

NewCard == [phase |-> "Open", decided |-> FALSE, resultSeen |-> FALSE, unconfirmed |-> FALSE]
IsFinishedPhase(phase) == phase \notin {"Open", "Sending"}

\* ReadQuestionWatch: the kind of the result that the transcript shows.
ResultOf(d) ==
    CASE d \in {"pcAnswer", "phoneAnswer"} -> "Answered"
      [] d = "idleTimeout" -> "TimedOut"
      [] OTHER -> "Rejected"

\* Mutant of Outcome: what was sent is taken for what came back.
SentIsClosed(phase, r) ==
    CASE phase \in {"Open", "Sending", "Closed"} /\ r = "TimedOut" -> "TimedOut"
      [] phase \in {"Open", "Sending", "Closed"} /\ r = "Answered" -> "AnsweredAtPc"
      [] phase \in {"Open", "Sending"} /\ r = "Rejected" -> "Closed"
      [] OTHER -> phase

\* Mutant of Outcome: the idle timeout is no result.
TimeoutIgnored(phase, r) ==
    CASE phase \in {"Open", "Closed"} /\ r = "Answered" -> "AnsweredAtPc"
      [] phase = "Sending" /\ r = "Answered" -> "Answered"
      [] phase \in {"Open", "Sending"} /\ r = "Rejected" -> "Closed"
      [] OTHER -> phase

\* _applyQuestionResultLocked: the phase that a result leads to.
Outcome(phase, r) ==
    CASE phase \in {"Open", "Sending", "Closed"} /\ r = "TimedOut" -> "TimedOut"
      [] phase \in {"Open", "Closed"} /\ r = "Answered" -> "AnsweredAtPc"
      [] phase = "Sending" /\ r = "Answered" -> "Answered"
      [] phase \in {"Open", "Sending"} /\ r = "Rejected" -> "Closed"
      [] OTHER -> phase

WithResult(c, r) ==
    [c EXCEPT !.resultSeen = TRUE, !.phase = Outcome(c.phase, r),
              !.decided = @ \/ c.phase = "Open",
              !.unconfirmed = @ /\ ~(c.phase = "Answered" /\ r = "Answered")]

WithPhase(c, phase) == [c EXCEPT !.phase = phase]
DecidedAs(c, phase) == [c EXCEPT !.phase = phase, !.decided = TRUE]
Closed(c) == DecidedAs(c, "Closed")
Unconfirmed(c) == [c EXCEPT !.phase = "Answered", !.unconfirmed = TRUE]

\* Mutant of Changes: the hook is not let go.
ChangesOnly(a, c, owes) ==
    /\ card' = [card EXCEPT ![a] = c]
    /\ tick' = [tick EXCEPT !.left = @ \ {a}]
    /\ UNCHANGED <<claude, worker, entry, bot, topic, taken, tap>>

\* A change of the card that owes its request a release, or owes it nothing.
Changes(a, c, owes) ==
    /\ card' = [card EXCEPT ![a] = c]
    /\ tick' = [tick EXCEPT !.release = IF owes THEN a ELSE None, !.left = @ \ {a}]
    /\ UNCHANGED <<claude, worker, entry, bot, topic, taken, tap>>

----------------------------------------------------------------------------
(***************************************************************************)
(* The tick thread (_questionsTick, after the mirror's pass).               *)
(***************************************************************************)

AtRest == [snap |-> None, left |-> {}, release |-> None]
Passing == tick.snap # None
MayStep(a) == Passing /\ tick.release = None /\ a \in tick.left

TickBegins ==
    /\ bot = "on" /\ ~Passing
    /\ tick' = [tick EXCEPT !.snap = [a \in Ask |-> StateOf(a)], !.left = Ask]
    /\ UNCHANGED <<claude, worker, entry, bot, topic, card, taken, tap>>

IsNew(a) == MayStep(a) /\ tick.snap[a] = "Open" /\ a \notin taken

\* _openQuestionCard.
TickShows(a) ==
    /\ IsNew(a) /\ topic[a]
    /\ card' = [card EXCEPT ![a] = NewCard]
    /\ taken' = taken \cup {a}
    /\ UNCHANGED <<claude, worker, entry, bot, topic, tick, tap>>

\* Its session has had no topic for too long (or its questions are unreadable).
TickRefuses(a) ==
    /\ IsNew(a)
    /\ taken' = taken \cup {a}
    /\ tick' = [tick EXCEPT !.release = a, !.left = @ \ {a}]
    /\ UNCHANGED <<claude, worker, entry, bot, topic, card, tap>>

\* The card's watch (or the mirror, which applies the same result) reads the
\* dialog's result.  An open card's hook is let go.
TickReads(a) ==
    /\ MayStep(a) /\ card[a] # None /\ ~card[a].resultSeen
    /\ dialog[a] \in Results
    /\ Changes(a, WithResult(card[a], ResultOf(dialog[a])), ~card[a].decided)

\* The hook of an open card ended, and the result did not come.
TickHookGone(a) ==
    /\ MayStep(a) /\ card[a] # None /\ card[a].phase = "Open"
    /\ tick.snap[a] \in {None, "Gone"}
    /\ Changes(a, Closed(card[a]), FALSE)

\* Its session ended, or its topic is gone for too long.
TickDeserted(a) ==
    /\ MayStep(a) /\ card[a] # None /\ card[a].phase = "Open"
    /\ tick.snap[a] # None
    /\ ~live[a] \/ ~topic[a]
    /\ Changes(a, Closed(card[a]), ~card[a].decided)

\* Mutant of Unwritten: any end of the request is a failed write.
AnyEnd(s) == s # None /\ Finished(s)

Unwritten(s) == s = "Gone"

\* The phone's answer could not be written.
TickNotTaken(a) ==
    /\ MayStep(a) /\ card[a] # None /\ card[a].phase = "Sending"
    /\ Unwritten(tick.snap[a])
    /\ Changes(a, WithPhase(card[a], "Closed"), FALSE)

\* The transcript never confirmed it.
TickUnconfirmed(a) ==
    /\ MayStep(a) /\ card[a] # None /\ card[a].phase = "Sending"
    /\ ~Unwritten(tick.snap[a])
    /\ Changes(a, Unconfirmed(card[a]), FALSE)

TickSkips(a) ==
    /\ MayStep(a) /\ ~(IsNew(a) /\ topic[a])
    /\ tick' = [tick EXCEPT !.left = @ \ {a}]
    /\ UNCHANGED <<claude, worker, entry, bot, topic, card, taken, tap>>

\* _applyQuestionEffects, on this thread.
TickReleases ==
    /\ tick.release # None
    /\ entry' = [entry EXCEPT ![tick.release] = Replied(@, "noDecision")]
    /\ tick' = [tick EXCEPT !.release = None]
    /\ UNCHANGED <<claude, worker, bot, topic, card, taken, tap>>

\* Finished cards past their keep time are dropped, and the registry forgets
\* the finished requests that no card needs any more.
TickEnds ==
    /\ Passing /\ tick.release = None /\ tick.left = {}
    /\ \E old \in SUBSET {a \in Ask : card[a] # None /\ IsFinishedPhase(card[a].phase)} :
          /\ card' = [a \in Ask |-> IF a \in old THEN None ELSE card[a]]
          /\ entry' = [a \in Ask |->
                IF a \in old \/ (tick.snap[a] # None /\ Finished(tick.snap[a]) /\ card[a] = None)
                THEN Forgotten(entry[a]) ELSE entry[a]]
    /\ taken' = {a \in taken : tick.snap[a] # None}
    /\ tick' = AtRest
    /\ UNCHANGED <<claude, worker, bot, topic, tap>>

----------------------------------------------------------------------------
(***************************************************************************)
(* The poll thread (_onQuestionTap, _takeQuestionText).                     *)
(***************************************************************************)

\* The phone answers: the card waits for the transcript to confirm it.
TapAnswers(a) ==
    /\ bot = "on" /\ tap = None
    /\ card[a] # None /\ card[a].phase = "Open"
    /\ card' = [card EXCEPT ![a] = DecidedAs(@, "Sending")]
    /\ tap' = [ask |-> a, line |-> "allow"]
    /\ UNCHANGED <<claude, worker, entry, bot, topic, taken, tick>>

\* A decision of the phone's own ends the card at once: Chat about this (and
\* Cancel, the same way), or a reply instead of the answers.
TapFinishes(a) ==
    /\ bot = "on" /\ tap = None
    /\ card[a] # None /\ card[a].phase = "Open"
    /\ \E d \in {<<"Clarify", "deny">>, <<"Replied", "allow">>} :
          /\ card' = [card EXCEPT ![a] = DecidedAs(@, d[1])]
          /\ tap' = [ask |-> a, line |-> d[2]]
    /\ UNCHANGED <<claude, worker, entry, bot, topic, taken, tick>>

\* _applyQuestionEffects: the registry takes the decision, or it is too late.
TapDelivers ==
    /\ tap # None
    /\ LET a == tap.ask
       IN  /\ entry' = [entry EXCEPT ![a] = Replied(@, tap.line)]
           /\ card' = IF StateOf(a) # "Open" /\ card[a] # None
                         /\ card[a].phase \in {"Sending", "Clarify", "Replied"}
                      THEN [card EXCEPT ![a] = WithPhase(@, "Closed")] ELSE card
    /\ tap' = None
    /\ UNCHANGED <<claude, worker, bot, topic, taken, tick>>

----------------------------------------------------------------------------
(***************************************************************************)
(* The bot and the topics.                                                  *)
(***************************************************************************)

\* Stop: _running turns false, the threads are joined.
BotStops ==
    /\ bot = "on"
    /\ bot' = "stopping"
    /\ UNCHANGED <<claude, worker, entry, topic, card, taken, tick, tap>>

\* A thread that was joined has finished what it was doing.
Joined == tap = None /\ ~Passing

\* Mutant of ReleasedAll: only what a card shows is let go.
ReleasedCards == [a \in Ask |-> IF card[a] # None THEN Replied(entry[a], "noDecision") ELSE entry[a]]

ReleasedAll == [a \in Ask |-> Forgotten(Replied(entry[a], "noDecision"))]

\* _questionsStop.
QuestionsStop ==
    /\ bot = "stopping" /\ Joined
    /\ StopMayRace \/ \A a \in Ask : worker[a] # "accepted"
    /\ bot' = "off"
    /\ card' = [a \in Ask |-> None]
    /\ taken' = {}
    /\ entry' = ReleasedAll
    /\ UNCHANGED <<claude, worker, topic, tick, tap>>

\* _questionsStart.
BotStarts ==
    /\ bot = "off"
    /\ bot' = "on"
    /\ UNCHANGED <<claude, worker, entry, topic, card, taken, tick, tap>>

TopicChanges(a) ==
    /\ topic' = [topic EXCEPT ![a] = ~@]
    /\ UNCHANGED <<claude, worker, entry, bot, card, taken, tick, tap>>

----------------------------------------------------------------------------

Init ==
    /\ dialog = [a \in Ask |-> "none"]
    /\ live = [a \in Ask |-> TRUE]
    /\ hook = [a \in Ask |-> "none"]
    /\ worker = [a \in Ask |-> "none"]
    /\ entry = [a \in Ask |-> None]
    /\ bot = "on"
    /\ topic \in [Ask -> BOOLEAN]
    /\ card = [a \in Ask |-> None]
    /\ taken = {}
    /\ tick = AtRest
    /\ tap = None

Claude(a) == DialogOpens(a) \/ PcDecides(a) \/ HookTells(a) \/ SessionEnds(a) \/ HookGivesUp(a)
Serve(a) == AtTheDoor(a) \/ Opens(a) \/ Takes(a) \/ Writes(a) \/ HelperGone(a)
TickCard(a) ==
    \/ TickReads(a) \/ TickHookGone(a) \/ TickDeserted(a) \/ TickNotTaken(a)
    \/ TickUnconfirmed(a) \/ TickSkips(a)
Tick == TickBegins \/ TickReleases \/ TickEnds
        \/ \E a \in Ask : TickShows(a) \/ TickRefuses(a) \/ TickCard(a)
Poll == TapDelivers \/ \E a \in Ask : TapAnswers(a) \/ TapFinishes(a)
Bot == BotStops \/ QuestionsStop \/ BotStarts

Next ==
    \/ \E a \in Ask : Claude(a) \/ Serve(a) \/ TopicChanges(a)
    \/ Tick \/ Poll \/ Bot

\* The threads go on, the helper prints what it was told, the tick reads the
\* transcript again and again, and it notices what lasts.
Fairness ==
    /\ WF_vars(Tick) /\ WF_vars(TapDelivers) /\ WF_vars(QuestionsStop)
    /\ \A a \in Ask : /\ WF_vars(Serve(a)) /\ WF_vars(HookTells(a))
                      /\ SF_vars(TickReads(a)) /\ SF_vars(TickShows(a) \/ TickRefuses(a))
                      /\ SF_vars(TickHookGone(a) \/ TickDeserted(a))
                      /\ SF_vars(TickNotTaken(a) \/ TickUnconfirmed(a))

Spec == Init /\ [][Next]_vars /\ Fairness

----------------------------------------------------------------------------
(***************************************************************************)
(* Properties.                                                              *)
(***************************************************************************)

TypeOK ==
    /\ dialog \in [Ask -> {"none", "open"} \cup Results]
    /\ live \in [Ask -> BOOLEAN]
    /\ hook \in [Ask -> {"none", "waiting", "told", "ended"}]
    /\ worker \in [Ask -> {"none", "door", "accepted", "serving", "writing", "done"}]
    /\ entry \in [Ask -> Entries \cup {None}]
    /\ \A a \in Ask : entry[a] # None => (entry[a].reply = None => entry[a].state \in {"Open", "Gone"})
                                      /\ (entry[a].queued => entry[a].state = "Answered")
    /\ bot \in {"on", "stopping", "off"}
    /\ topic \in [Ask -> BOOLEAN]
    /\ card \in [Ask -> Cards \cup {None}]
    /\ taken \subseteq Ask
    /\ tick \in [snap: Snapshots \cup {None}, left: SUBSET Ask, release: Ask \cup {None}]
    /\ tap \in Decisions \cup {None}

\* An open request has a worker that will hear the reply; one with a queued
\* reply has a worker that will take it.  (The worker closes the event that
\* Answer and Release signal.)
OpenIsServed ==
    \A a \in Ask : StateOf(a) = "Open" \/ (entry[a] # None /\ entry[a].queued) =>
        worker[a] = "serving"

\* A finished card leaves no open request behind: its hook would wait, unseen,
\* until its claude exits.
Owed(a) == tick.release = a \/ (tap # None /\ tap.ask = a)
FinishedLetsGo ==
    \A a \in Ask : card[a] # None /\ IsFinishedPhase(card[a].phase) /\ ~Owed(a) =>
        StateOf(a) # "Open"

\* What claude took from the phone is never shown as the PC's, and a card that
\* has read it never says that it was not taken.
NoFalseRefusal ==
    \A a \in Ask : dialog[a] = "phoneAnswer" /\ card[a] # None =>
        card[a].phase \notin {"AnsweredAtPc", "TimedOut", "Closed"}

\* The card says "Answered from Telegram" only for an answer that came from
\* the phone.
AnsweredIsThePhones ==
    \A a \in Ask : card[a] # None /\ card[a].phase = "Answered" /\ ~card[a].unconfirmed =>
        dialog[a] = "phoneAnswer"

\* While the bot is off, no request is open: every hook was let go.
OffLetsGo == bot = "off" => \A a \in Ask : StateOf(a) # "Open"

\* The helper of a dialog that is over is let go.
HookIsLetGo ==
    \A a \in Ask : dialog[a] \in Results \cup {"none"} \/ ~live[a] ~> hook[a] \in {"none", "ended"}

\* A card does not wait for ever after its dialog is over.
CardSettles ==
    \A a \in Ask : (dialog[a] \in Results) ~> (card[a] # None => IsFinishedPhase(card[a].phase))

\* A dialog that is over leaves nothing waiting, at the PC or on the phone.
DialogSettles == HookIsLetGo /\ CardSettles
============================================================================
