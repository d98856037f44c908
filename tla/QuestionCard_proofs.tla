------------------------ MODULE QuestionCard_proofs ------------------------
(***************************************************************************)
(* For any number of dialogs: the types, that every open request has a       *)
(* worker, that a finished card has let its hook go, that an answer taken    *)
(* from the phone is never shown as refused, and (when the stop does not     *)
(* race) that no hook waits for a bot that is off.                           *)
(*                                                                          *)
(* None of them is inductive.  The tick works on a snapshot: what it still   *)
(* says of a request must be related to what has become of it since (Shown); *)
(* the card must know that its decision was taken (Decided), and the phone's *)
(* must be the only one (Once).  Then a card whose answer claude may still    *)
(* take (Promised) is in a phase that leads to "Answered" (Kept).            *)
(***************************************************************************)
EXTENDS QuestionCard, TLAPS

Unserved(a) == worker[a] \in {"none", "door", "accepted"}
TapOf(a) == tap # None /\ tap.ask = a

(* The worker and its request.                                             *)
Served(a) ==
    /\ dialog[a] = "none" => worker[a] = "none" /\ hook[a] = "none"
    /\ Unserved(a) => entry[a] = None
    /\ worker[a] = "serving" =>
          /\ entry[a] # None /\ entry[a].state \in {"Open", "Answered"}
          /\ entry[a].queued <=> entry[a].state = "Answered"
    /\ worker[a] = "writing" =>
          entry[a] # None /\ entry[a].state = "Answered" /\ ~entry[a].queued
    /\ worker[a] = "done" /\ entry[a] # None => Finished(entry[a].state) /\ ~entry[a].queued
    /\ entry[a] # None =>
          /\ entry[a].state = "Open" => entry[a].reply = None
          /\ entry[a].state = "Released" => entry[a].reply = "noDecision"
    /\ hook[a] = "told" =>
          worker[a] = "done" /\ (entry[a] # None => entry[a].state \in {"Delivered", "Released"})

(* What the service knows of a request, and what the tick's snapshot says.  *)
Shown(a) ==
    /\ card[a] # None \/ a \in taken \/ TapOf(a) \/ tick.release = a => ~Unserved(a)
    /\ ~Passing => tick.release = None
    /\ Passing /\ tick.snap[a] # None => ~Unserved(a)
    /\ Passing /\ tick.snap[a] = None /\ (card[a] # None \/ a \in taken \/ TapOf(a)) =>
          StateOf(a) # "Open"
    /\ Passing /\ Finished(tick.snap[a]) => StateOf(a) \in {None, tick.snap[a]}

(* A decided card has let its hook go, or a thread owes it.                 *)
Decided(a) ==
    card[a] # None =>
        /\ card[a].decided <=> card[a].phase # "Open"
        /\ card[a].decided /\ ~Owed(a) => StateOf(a) # "Open"

(* The phone decides a request once, and it never gets a second card.       *)
Once(a) ==
    /\ TapOf(a) /\ entry[a] # None => entry[a].reply \in {None, "noDecision"}
    /\ card[a] # None /\ (TapOf(a) \/ (entry[a] # None /\ entry[a].reply \in {"allow", "deny"})) =>
          card[a].decided
    /\ StateOf(a) = "Open" /\ a \notin taken => card[a] = None /\ ~TapOf(a)
    /\ Passing /\ tick.snap[a] = "Open" /\ a \notin taken =>
          /\ card[a] = None /\ ~TapOf(a) /\ dialog[a] # "phoneAnswer"
          /\ entry[a] # None => entry[a].reply \in {None, "noDecision"}

(* claude has taken the phone's answer, or may still take it.               *)
Promised(a) ==
    \/ dialog[a] = "phoneAnswer"
    \/ /\ dialog[a] = "open" /\ entry[a] # None
       /\ entry[a].reply = "allow" /\ entry[a].state \in {"Answered", "Delivered"}
    \/ dialog[a] = "open" /\ TapOf(a) /\ tap.line = "allow" /\ StateOf(a) = "Open"

(* Its card leads to "Answered".                                            *)
Kept(a) ==
    /\ dialog[a] = "phoneAnswer" =>
          /\ worker[a] = "done" /\ ~TapOf(a)
          /\ entry[a] # None => entry[a].state = "Delivered"
          /\ Passing => tick.snap[a] # "Gone"
    /\ Promised(a) => card[a] = None \/ card[a].phase \in {"Sending", "Answered", "Replied"}

(* The bot is off, and was not raced.                                       *)
Off(a) == ~StopMayRace /\ bot = "off" => worker[a] # "accepted" /\ StateOf(a) # "Open"

RowInv(a) == Served(a) /\ Shown(a) /\ Decided(a) /\ Once(a) /\ Kept(a) /\ Off(a)

IInv == TypeOK /\ \A a \in Ask : RowInv(a)
-----------------------------------------------------------------------------
(* What the registry's methods make of a request, and what the service's    *)
(* make of a card.                                                          *)
LEMMA RepliedIs ==
    ASSUME NEW e \in Entries \cup {None}, NEW line \in Replies
    PROVE  /\ Replied(e, line) \in Entries \cup {None}
           /\ e = None => Replied(e, line) = None
           /\ e # None /\ e.state # "Open" => Replied(e, line) = e
           /\ e # None /\ e.state = "Open" =>
                 /\ Replied(e, line) # None /\ Replied(e, line).state = "Answered"
                 /\ Replied(e, line).reply = line /\ Replied(e, line).queued
  BY QuestionAssumption DEF Replied, Entries, States, Replies

LEMMA TakenIs ==
    ASSUME NEW e \in Entries
    PROVE  /\ Taken(e) \in Entries
           /\ Taken(e).state = e.state /\ Taken(e).reply = e.reply /\ ~Taken(e).queued
  BY DEF Taken, Entries

LEMMA WrittenIs ==
    ASSUME NEW e \in Entries, NEW ok \in BOOLEAN
    PROVE  /\ Written(e, ok) \in Entries /\ Written(e, ok) # None
           /\ Written(e, ok).reply = e.reply /\ Written(e, ok).queued = e.queued
           /\ Written(e, ok).state = IF ~ok THEN "Gone" ELSE IF e.reply = "noDecision"
                                      THEN "Released" ELSE "Delivered"
<1>1. e # None
  BY QuestionAssumption
<1>2. Written(e, ok) \in Entries
  BY <1>1 DEF Written, Entries, States
<1>3. Written(e, ok) # None
  BY <1>2, QuestionAssumption
<1> QED BY <1>1, <1>2, <1>3 DEF Written, Entries

LEMMA NotedGoneIs ==
    ASSUME NEW e \in Entries
    PROVE  NotedGone(e) = IF e.state \in {"Open", "Answered"}
                          THEN [state |-> "Gone", reply |-> e.reply, queued |-> e.queued] ELSE e
<1> e # None
  BY QuestionAssumption
<1> QED BY DEF NotedGone, Entries

LEMMA CardIs ==
    ASSUME NEW c \in Cards, NEW phase \in Phases
    PROVE  /\ WithPhase(c, phase) \in Cards /\ DecidedAs(c, phase) \in Cards
           /\ WithPhase(c, phase).phase = phase /\ DecidedAs(c, phase).phase = phase
           /\ WithPhase(c, phase).decided = c.decided /\ DecidedAs(c, phase).decided
  BY DEF WithPhase, DecidedAs, Cards

LEMMA UnconfirmedIs ==
    ASSUME NEW c \in Cards
    PROVE  /\ Unconfirmed(c) \in Cards
           /\ Unconfirmed(c).phase = "Answered" /\ Unconfirmed(c).decided = c.decided
  BY DEF Unconfirmed, Cards, Phases

LEMMA ResultIs ==
    ASSUME NEW c \in Cards, NEW r \in {"Answered", "TimedOut", "Rejected"}
    PROVE  /\ WithResult(c, r) \in Cards
           /\ WithResult(c, r).phase = Outcome(c.phase, r)
           /\ WithResult(c, r).decided = (c.decided \/ c.phase = "Open")
<1>1. Outcome(c.phase, r) \in Phases
  BY DEF Cards, Phases, Outcome
<1> QED BY <1>1 DEF WithResult, Cards

-----------------------------------------------------------------------------
LEMMA InitInv == Init => IInv
<1> SUFFICES ASSUME Init PROVE IInv
  OBVIOUS
<1>1. TypeOK
  BY QuestionAssumption DEF Init, TypeOK, AtRest, Snapshots, Decisions, Cards, Entries
<1>2. ASSUME NEW a \in Ask PROVE RowInv(a)
  BY <1>2, QuestionAssumption DEF Init, States, RowInv, Served, Unserved, Shown, Decided, Once, Kept, Promised, Off,
       TapOf, Passing, AtRest, StateOf
<1> QED BY <1>1, <1>2 DEF IInv

(* A worker that serves or writes has its request.                          *)
LEMMA ServedEntry ==
    ASSUME TypeOK, NEW a \in Ask, RowInv(a), worker[a] \in {"serving", "writing"}
    PROVE  entry[a] \in Entries /\ entry[a] # None
  BY DEF TypeOK, RowInv, Served

(* What the transcript shows of a dialog that is over.                      *)
LEMMA ResultOfIs ==
    ASSUME NEW d \in Results
    PROVE  /\ ResultOf(d) \in {"Answered", "TimedOut", "Rejected"}
           /\ d = "phoneAnswer" => ResultOf(d) = "Answered"
  BY DEF Results, ResultOf

(* The snapshot that a pass begins with.                                    *)
LEMMA SnapshotIs ==
    ASSUME TypeOK, TickBegins
    PROVE  /\ tick' \in [snap: Snapshots, left: SUBSET Ask, release: Ask \cup {None}]
           /\ tick'.release = tick.release /\ Passing'
           /\ \A a \in Ask : tick'.snap[a] = StateOf(a)
<1>1. [a \in Ask |-> StateOf(a)] \in Snapshots
  BY DEF TypeOK, StateOf, Snapshots, Entries
<1>2. tick'.snap = [a \in Ask |-> StateOf(a)] /\ tick'.release = tick.release
  BY DEF TickBegins, TypeOK
<1>3. tick' \in [snap: Snapshots, left: SUBSET Ask, release: Ask \cup {None}]
  BY <1>1 DEF TickBegins, TypeOK
<1>4. None \notin Snapshots
  BY QuestionAssumption
<1> QED BY <1>1, <1>2, <1>3, <1>4 DEF Passing

(* The request that a worker opens.                                         *)
LEMMA OpensIs ==
    ASSUME TypeOK, NEW a \in Ask, Opens(a)
    PROVE  /\ entry'[a] # None /\ entry'[a].state = "Open" /\ entry'[a].reply = None /\ ~entry'[a].queued
           /\ \A c \in Ask \ {a} : entry'[c] = entry[c] /\ worker'[c] = worker[c]
           /\ worker[a] = "accepted" /\ worker'[a] = "serving"
           /\ UNCHANGED <<claude, service>>
<1> DEFINE e == [state |-> "Open", reply |-> None, queued |-> FALSE]
<1>1. e \in Entries
  BY DEF Entries, States
<1>2. e # None
  BY <1>1, QuestionAssumption
<1>3. /\ entry' = [entry EXCEPT ![a] = e] /\ worker' = [worker EXCEPT ![a] = "serving"]
      /\ worker[a] = "accepted" /\ UNCHANGED <<claude, service>>
  BY DEF Opens
<1>4. DOMAIN entry = Ask /\ DOMAIN worker = Ask
  BY DEF TypeOK
<1>5. /\ entry'[a] = e /\ worker'[a] = "serving"
      /\ \A c \in Ask \ {a} : entry'[c] = entry[c] /\ worker'[c] = worker[c]
  BY <1>3, <1>4 DEF TypeOK
<1> QED BY <1>2, <1>3, <1>5

(* What a worker writes, and what its helper makes of it.                   *)
LEMMA WritesIs ==
    ASSUME TypeOK, NEW a \in Ask, RowInv(a), Writes(a)
    PROVE  /\ worker[a] = "writing" /\ worker' = [worker EXCEPT ![a] = "done"]
           /\ UNCHANGED <<dialog, live, service>>
           /\ \A c \in Ask \ {a} : entry'[c] = entry[c] /\ hook'[c] = hook[c]
           /\ entry[a] # None /\ entry[a].state = "Answered"
           /\ entry'[a] # None /\ entry'[a].reply = entry[a].reply /\ ~entry'[a].queued
           /\ \/ /\ hook'[a] = "told"
                 /\ entry'[a].state = IF entry[a].reply = "noDecision" THEN "Released" ELSE "Delivered"
              \/ hook'[a] = "ended" /\ entry'[a].state = "Gone"
<1>1. entry[a] \in Entries /\ entry[a].state = "Answered" /\ ~entry[a].queued
  BY ServedEntry DEF Writes, RowInv, Served
<1>2. entry[a] # None
  BY <1>1, QuestionAssumption
<1>3. /\ worker[a] = "writing" /\ worker' = [worker EXCEPT ![a] = "done"]
      /\ UNCHANGED <<dialog, live, service>>
      /\ \A c \in Ask \ {a} : entry'[c] = entry[c] /\ hook'[c] = hook[c]
      /\ \/ hook'[a] = "told" /\ entry'[a] = Written(entry[a], TRUE)
         \/ hook'[a] = "ended" /\ entry'[a] = Written(entry[a], FALSE)
  BY DEF TypeOK, Writes
<1>4. ASSUME NEW ok \in BOOLEAN, entry'[a] = Written(entry[a], ok)
      PROVE  /\ entry'[a] # None /\ entry'[a].reply = entry[a].reply /\ ~entry'[a].queued
             /\ entry'[a].state = IF ~ok THEN "Gone" ELSE IF entry[a].reply = "noDecision"
                                  THEN "Released" ELSE "Delivered"
  BY <1>1, <1>4, WrittenIs
<1> QED BY <1>1, <1>2, <1>3, <1>4

(* What a result makes of the card, and what the tick then owes.            *)
LEMMA TickReadsIs ==
    ASSUME TypeOK, NEW a \in Ask, TickReads(a)
    PROVE  /\ card[a] # None /\ Passing /\ tick.release = None /\ dialog[a] \in Results
           /\ \A c \in Ask \ {a} : card'[c] = card[c]
           /\ card'[a] # None /\ card'[a].phase # "Open"
           /\ card'[a].decided = (card[a].decided \/ card[a].phase = "Open")
           /\ dialog[a] = "phoneAnswer" /\ card[a].phase \in {"Sending", "Answered", "Replied"} =>
                 card'[a].phase \in {"Sending", "Answered", "Replied"}
           /\ tick'.snap = tick.snap /\ tick'.release = IF ~card[a].decided THEN a ELSE None
           /\ UNCHANGED <<claude, worker, entry, bot, topic, taken, tap>>
<1> DEFINE r == ResultOf(dialog[a])
<1>1. /\ card[a] # None /\ Passing /\ tick.release = None /\ dialog[a] \in Results
      /\ card' = [card EXCEPT ![a] = WithResult(card[a], r)]
      /\ tick' = [tick EXCEPT !.release = IF ~card[a].decided THEN a ELSE None, !.left = @ \ {a}]
      /\ UNCHANGED <<claude, worker, entry, bot, topic, taken, tap>>
  BY DEF TickReads, Changes, MayStep
<1>2. card[a] \in Cards
  BY <1>1 DEF TypeOK
<1>3. r \in {"Answered", "TimedOut", "Rejected"} /\ (dialog[a] = "phoneAnswer" => r = "Answered")
  BY <1>1, ResultOfIs
<1> HIDE DEF r
<1>4. /\ WithResult(card[a], r) \in Cards
      /\ WithResult(card[a], r).phase = Outcome(card[a].phase, r)
      /\ WithResult(card[a], r).decided = (card[a].decided \/ card[a].phase = "Open")
  BY <1>2, <1>3, ResultIs
<1>5. /\ Outcome(card[a].phase, r) # "Open"
      /\ r = "Answered" /\ card[a].phase \in {"Sending", "Answered", "Replied"} =>
            Outcome(card[a].phase, r) \in {"Sending", "Answered", "Replied"}
  BY <1>3 DEF Outcome
<1>6. card'[a] = WithResult(card[a], r) /\ \A c \in Ask \ {a} : card'[c] = card[c]
  BY <1>1 DEF TypeOK
<1>7. tick'.snap = tick.snap /\ tick'.release = IF ~card[a].decided THEN a ELSE None
  BY <1>1 DEF TypeOK
<1>8. card'[a] # None
  BY <1>4, <1>6, QuestionAssumption
<1> QED BY <1>1, <1>3, <1>4, <1>5, <1>6, <1>7, <1>8

-----------------------------------------------------------------------------
LEMMA TypeStep == IInv /\ [Next]_vars => TypeOK'
<1> SUFFICES ASSUME IInv, [Next]_vars PROVE TypeOK'
  OBVIOUS
<1> USE QuestionAssumption DEF IInv, TypeOK, service, claude
<1>1. ASSUME NEW a \in Ask, DialogOpens(a) PROVE TypeOK'
  BY <1>1 DEF DialogOpens
<1>2. ASSUME NEW a \in Ask, PcDecides(a) PROVE TypeOK'
  BY <1>2 DEF PcDecides, Results
<1>3. ASSUME NEW a \in Ask, HookTells(a) PROVE TypeOK'
  BY <1>3 DEF HookTells, Results
<1>4. ASSUME NEW a \in Ask, SessionEnds(a) \/ HookGivesUp(a) PROVE TypeOK'
  BY <1>4 DEF SessionEnds, HookGivesUp
<1>5. ASSUME NEW a \in Ask, AtTheDoor(a) PROVE TypeOK'
  BY <1>5 DEF AtTheDoor
<1>6. ASSUME NEW a \in Ask, Opens(a) PROVE TypeOK'
  BY <1>6 DEF Opens, Entries, States
<1>7. ASSUME NEW a \in Ask, Takes(a) PROVE TypeOK'
  BY <1>7, ServedEntry, TakenIs DEF Takes
<1>8. ASSUME NEW a \in Ask, Writes(a) PROVE TypeOK'
  <2>1. entry[a] \in Entries /\ entry[a].state = "Answered" /\ ~entry[a].queued /\ entry[a].reply # None
    BY <1>8, ServedEntry DEF Writes, RowInv, Served
  <2>2. \A ok \in BOOLEAN :
            Written(entry[a], ok) \in Entries /\ Written(entry[a], ok).reply = entry[a].reply /\ ~Written(entry[a], ok).queued
    BY <2>1, WrittenIs DEF Entries, States
  <2>3. PICK ok \in BOOLEAN : entry' = [entry EXCEPT ![a] = Written(@, ok)]
    BY <1>8 DEF Writes
  <2>4. /\ worker' = [worker EXCEPT ![a] = "done"] /\ UNCHANGED <<dialog, live, service>>
        /\ hook' = [hook EXCEPT ![a] = "told"] \/ hook' = [hook EXCEPT ![a] = "ended"]
    BY <1>8 DEF Writes
  <2> QED BY <2>1, <2>2, <2>3, <2>4
<1>9. ASSUME NEW a \in Ask, HelperGone(a) PROVE TypeOK'
  <2>1. entry[a] \in Entries /\ ~entry[a].queued
    BY <1>9, ServedEntry DEF HelperGone
  <2>2. NotedGone(entry[a]) \in Entries /\ ~NotedGone(entry[a]).queued
        /\ (NotedGone(entry[a]).state = "Gone" \/ NotedGone(entry[a]) = entry[a])
    BY <2>1, NotedGoneIs DEF Entries, States
  <2> QED BY <1>9, <2>1, <2>2 DEF HelperGone
<1>10. ASSUME NEW a \in Ask, TickShows(a) PROVE TypeOK'
  BY <1>10 DEF TickShows, NewCard, Cards, Phases
<1>11. ASSUME NEW a \in Ask, TickRefuses(a) PROVE TypeOK'
  BY <1>11 DEF TickRefuses
<1>12. ASSUME NEW a \in Ask, NEW c \in Cards, NEW owes \in BOOLEAN, Changes(a, c, owes) PROVE TypeOK'
  BY <1>12 DEF Changes
<1>13. ASSUME NEW a \in Ask, TickReads(a) PROVE TypeOK'
  <2>1. card[a] \in Cards /\ (~card[a].decided) \in BOOLEAN
    BY <1>13 DEF TickReads
  <2>2. WithResult(card[a], ResultOf(dialog[a])) \in Cards
    BY <1>13, <2>1, ResultOfIs, ResultIs DEF TickReads
  <2> QED BY <1>12, <1>13, <2>1, <2>2 DEF TickReads
<1>14. ASSUME NEW a \in Ask, TickHookGone(a) PROVE TypeOK'
  BY <1>12, <1>14, CardIs DEF TickHookGone, Closed, Phases
<1>15. ASSUME NEW a \in Ask, TickDeserted(a) PROVE TypeOK'
  BY <1>12, <1>15, CardIs DEF TickDeserted, Closed, Phases, Cards
<1>16. ASSUME NEW a \in Ask, TickNotTaken(a) PROVE TypeOK'
  BY <1>12, <1>16, CardIs DEF TickNotTaken, Phases
<1>17. ASSUME NEW a \in Ask, TickUnconfirmed(a) PROVE TypeOK'
  BY <1>12, <1>17, UnconfirmedIs DEF TickUnconfirmed
<1>18. ASSUME NEW a \in Ask, TickSkips(a) PROVE TypeOK'
  BY <1>18 DEF TickSkips
<1>19. ASSUME TickBegins PROVE TypeOK'
  BY <1>19, SnapshotIs DEF TickBegins
<1>20. ASSUME TickReleases PROVE TypeOK'
  BY <1>20, RepliedIs DEF TickReleases, Replies, Entries, States
<1>21. ASSUME TickEnds PROVE TypeOK'
  BY <1>21 DEF TickEnds, AtRest, Forgotten
<1>22. ASSUME NEW a \in Ask, TapAnswers(a) PROVE TypeOK'
  BY <1>22, CardIs DEF TapAnswers, Decisions, Phases
<1>23. ASSUME NEW a \in Ask, TapFinishes(a) PROVE TypeOK'
  BY <1>23, CardIs DEF TapFinishes, Decisions, Phases
<1>24. ASSUME TapDelivers PROVE TypeOK'
  BY <1>24, RepliedIs, CardIs DEF TapDelivers, Decisions, Replies, Phases, Entries, States
<1>25. ASSUME QuestionsStop PROVE TypeOK'
  BY <1>25, RepliedIs DEF QuestionsStop, ReleasedAll, Forgotten, Replies, Entries, States
<1>26. ASSUME BotStops \/ BotStarts PROVE TypeOK'
  BY <1>26 DEF BotStops, BotStarts
<1>27. ASSUME NEW a \in Ask, TopicChanges(a) PROVE TypeOK'
  BY <1>27 DEF TopicChanges
<1>28. CASE UNCHANGED vars
  BY <1>28 DEF vars
<1> QED
  BY <1>1, <1>2, <1>3, <1>4, <1>5, <1>6, <1>7, <1>8, <1>9, <1>10, <1>11, <1>13, <1>14, <1>15,
     <1>16, <1>17, <1>18, <1>19, <1>20, <1>21, <1>22, <1>23, <1>24, <1>25, <1>26, <1>27, <1>28
  DEF Next, Claude, Serve, Tick, TickCard, Poll, Bot

-----------------------------------------------------------------------------
LEMMA RowStep ==
    ASSUME IInv, TypeOK, TypeOK', [Next]_vars, NEW b \in Ask, RowInv(b)
    PROVE  RowInv(b)'
<1> USE QuestionAssumption DEF RowInv, TypeOK, service, claude, Served, Shown, Decided, Once,
        Kept, Off, Unserved, TapOf, StateOf, Owed, Promised, Passing, Finished,
        Results, Entries, Cards, Snapshots, Decisions, States, Replies, Phases
<1>1. ASSUME NEW a \in Ask, RowInv(a), DialogOpens(a) PROVE RowInv(b)'
  BY <1>1, SMTT(30) DEF DialogOpens
<1>2. ASSUME NEW a \in Ask, RowInv(a), PcDecides(a) PROVE RowInv(b)'
  BY <1>2, SMTT(30) DEF PcDecides
<1>3. ASSUME NEW a \in Ask, RowInv(a), HookTells(a) PROVE RowInv(b)'
  BY <1>3, SMTT(30) DEF HookTells, Entries
<1>4. ASSUME NEW a \in Ask, RowInv(a), SessionEnds(a) \/ HookGivesUp(a) PROVE RowInv(b)'
  BY <1>4, SMTT(30) DEF SessionEnds, HookGivesUp
<1>5. ASSUME NEW a \in Ask, RowInv(a), AtTheDoor(a) PROVE RowInv(b)'
  BY <1>5, SMTT(30) DEF AtTheDoor, Accepts
<1>6. ASSUME NEW a \in Ask, RowInv(a), Opens(a) PROVE RowInv(b)'
  <2>1. CASE b = a
    BY <1>6, <2>1, OpensIs, SMTT(30)
  <2>2. CASE b # a
    BY <1>6, <2>2, OpensIs, SMTT(30)
  <2> QED BY <2>1, <2>2
<1>7. ASSUME NEW a \in Ask, RowInv(a), Takes(a) PROVE RowInv(b)'
  BY <1>7, SMTT(30), ServedEntry, TakenIs DEF Takes
<1>8. ASSUME NEW a \in Ask, RowInv(a), Writes(a) PROVE RowInv(b)'
  <2>1. CASE b = a
    BY <1>8, <2>1, WritesIs, SMTT(30)
  <2>2. CASE b # a
    BY <1>8, <2>2, WritesIs, SMTT(30)
  <2> QED BY <2>1, <2>2
<1>9. ASSUME NEW a \in Ask, RowInv(a), HelperGone(a) PROVE RowInv(b)'
  BY <1>9, SMTT(30), ServedEntry, NotedGoneIs DEF HelperGone
<1>10. ASSUME NEW a \in Ask, RowInv(a), TickShows(a) PROVE RowInv(b)'
  BY <1>10, SMTT(30) DEF TickShows, NewCard, IsNew, MayStep
<1>11. ASSUME NEW a \in Ask, RowInv(a), TickRefuses(a) PROVE RowInv(b)'
  BY <1>11, SMTT(30) DEF TickRefuses, IsNew, MayStep
<1>13. ASSUME NEW a \in Ask, RowInv(a), TickReads(a) PROVE RowInv(b)'
  <2>1. CASE b = a
    BY <1>13, <2>1, TickReadsIs, SMTT(30)
  <2>2. CASE b # a
    BY <1>13, <2>2, TickReadsIs, SMTT(30)
  <2> QED BY <2>1, <2>2
<1>14. ASSUME NEW a \in Ask, RowInv(a), TickHookGone(a) PROVE RowInv(b)'
  BY <1>14, SMTT(30), CardIs DEF TickHookGone, Closed, Changes, MayStep, Phases
<1>15. ASSUME NEW a \in Ask, RowInv(a), TickDeserted(a) PROVE RowInv(b)'
  BY <1>15, SMTT(30), CardIs DEF TickDeserted, Closed, Changes, MayStep, Phases
<1>16. ASSUME NEW a \in Ask, RowInv(a), TickNotTaken(a) PROVE RowInv(b)'
  BY <1>16, SMTT(30), CardIs DEF TickNotTaken, Unwritten, Changes, MayStep, Phases
<1>17. ASSUME NEW a \in Ask, RowInv(a), TickUnconfirmed(a) PROVE RowInv(b)'
  BY <1>17, SMTT(30), UnconfirmedIs DEF TickUnconfirmed, Changes, MayStep
<1>18. ASSUME NEW a \in Ask, RowInv(a), TickSkips(a) PROVE RowInv(b)'
  BY <1>18, SMTT(30) DEF TickSkips, MayStep
<1>19. ASSUME TickBegins PROVE RowInv(b)'
  <2>1. /\ tick.release = None /\ tick'.release = None /\ ~Passing /\ Passing'
        /\ tick'.snap[b] = StateOf(b)
    BY <1>19, SnapshotIs DEF TickBegins
  <2>2. UNCHANGED <<claude, worker, entry, bot, topic, card, taken, tap>>
    BY <1>19 DEF TickBegins
  <2> QED BY <2>1, <2>2, SMTT(30)
<1>20. ASSUME TickReleases PROVE RowInv(b)'
  <2> DEFINE a == tick.release
  <2>1. a \in Ask /\ Passing
    BY <1>20 DEF TickReleases
  <2>2. /\ tick' = [tick EXCEPT !.release = None]
        /\ \A c \in Ask : entry'[c] = IF c = a THEN Replied(entry[a], "noDecision") ELSE entry[c]
        /\ UNCHANGED <<claude, worker, bot, topic, card, taken, tap>>
    BY <1>20 DEF TickReleases
  <2>3. /\ entry[a] = None => entry'[a] = None
        /\ entry[a] # None /\ entry[a].state # "Open" => entry'[a] = entry[a]
        /\ entry[a] # None /\ entry[a].state = "Open" =>
              entry'[a] # None /\ entry'[a].state = "Answered" /\ entry'[a].reply = "noDecision" /\ entry'[a].queued
    BY <2>1, <2>2, RepliedIs, SMTT(30)
  <2>4. CASE b = a
    BY <2>1, <2>2, <2>3, <2>4, SMTT(30)
  <2>5. CASE b # a
    BY <2>1, <2>2, <2>5, SMTT(30)
  <2> QED BY <2>4, <2>5
<1>21. ASSUME TickEnds PROVE RowInv(b)'
  BY <1>21, SMTT(30) DEF TickEnds, AtRest, Forgotten, IsFinishedPhase
<1>22. ASSUME NEW a \in Ask, RowInv(a), TapAnswers(a) PROVE RowInv(b)'
  BY <1>22, SMTT(30), CardIs DEF TapAnswers, Decisions, Phases
<1>23. ASSUME NEW a \in Ask, RowInv(a), TapFinishes(a) PROVE RowInv(b)'
  BY <1>23, SMTT(30), CardIs DEF TapFinishes, Decisions, Phases
<1>24. ASSUME TapDelivers PROVE RowInv(b)'
  <2> DEFINE a == tap.ask
  <2>1. a \in Ask /\ TapOf(a) /\ tap.line \in {"allow", "deny"} /\ tap' = None
    BY <1>24 DEF TapDelivers
  <2>2. /\ \A c \in Ask : entry'[c] = IF c = a THEN Replied(entry[a], tap.line) ELSE entry[c]
        /\ UNCHANGED <<claude, worker, bot, topic, taken, tick>>
    BY <1>24 DEF TapDelivers
  <2>3. /\ entry[a] = None => entry'[a] = None
        /\ entry[a] # None /\ entry[a].state # "Open" => entry'[a] = entry[a]
        /\ entry[a] # None /\ entry[a].state = "Open" =>
              entry'[a] # None /\ entry'[a].state = "Answered" /\ entry'[a].reply = tap.line /\ entry'[a].queued
    BY <2>1, <2>2, RepliedIs, SMTT(30)
  <2>4. /\ \A c \in Ask \ {a} : card'[c] = card[c]
        /\ StateOf(a) = "Open" \/ card[a] = None => card'[a] = card[a]
        /\ card'[a] = card[a] \/ card'[a] = WithPhase(card[a], "Closed")
        /\ card[a] # None => card'[a] # None /\ card'[a].decided = card[a].decided
        /\ card'[a] # card[a] => card'[a].phase = "Closed"
    BY <1>24, <2>1, CardIs DEF TapDelivers
  <2>5. CASE b = a
    BY <2>1, <2>2, <2>3, <2>4, <2>5, SMTT(30)
  <2>6. CASE b # a
    BY <2>1, <2>2, <2>4, <2>6, SMTT(30)
  <2> QED BY <2>5, <2>6
<1>25. ASSUME QuestionsStop PROVE RowInv(b)'
  <2>1. /\ entry'[b] = Forgotten(Replied(entry[b], "noDecision")) /\ card'[b] = None /\ taken' = {}
        /\ bot' = "off" /\ tap = None /\ ~Passing /\ UNCHANGED <<claude, worker, topic, tick, tap>>
        /\ ~StopMayRace => worker[b] # "accepted"
    BY <1>25 DEF QuestionsStop, ReleasedAll, Joined
  <2>2. /\ entry[b] = None => entry'[b] = None
        /\ entry[b] # None /\ entry[b].state # "Open" => entry'[b] = entry[b] \/ (entry'[b] = None /\ entry[b].state \in {"Delivered", "Released", "Gone"})
        /\ entry[b] # None /\ entry[b].state = "Open" =>
              entry'[b] # None /\ entry'[b].state = "Answered" /\ entry'[b].reply = "noDecision" /\ entry'[b].queued
    BY <2>1, RepliedIs, SMTT(30) DEF Forgotten
  <2> QED BY <2>1, <2>2, SMTT(30)
<1>26. ASSUME BotStops \/ BotStarts PROVE RowInv(b)'
  BY <1>26, SMTT(30) DEF BotStops, BotStarts
<1>27. ASSUME NEW a \in Ask, RowInv(a), TopicChanges(a) PROVE RowInv(b)'
  BY <1>27, SMTT(30) DEF TopicChanges
<1>28. CASE UNCHANGED vars
  BY <1>28, SMTT(30) DEF vars
<1> QED
  <2> HIDE DEF RowInv
  <2>1. \A a \in Ask : RowInv(a)
    BY DEF IInv
  <2> QED
    BY <2>1, <1>1, <1>2, <1>3, <1>4, <1>5, <1>6, <1>7, <1>8, <1>9, <1>10, <1>11, <1>13, <1>14,
       <1>15, <1>16, <1>17, <1>18, <1>19, <1>20, <1>21, <1>22, <1>23, <1>24, <1>25, <1>26, <1>27,
       <1>28
    DEF Next, Claude, Serve, Tick, TickCard, Poll, Bot

LEMMA Invariance == Spec => []IInv
<1>1. IInv /\ [Next]_vars => IInv'
  <2> SUFFICES ASSUME IInv, [Next]_vars PROVE IInv'
    OBVIOUS
  <2>1. TypeOK'
    BY TypeStep
  <2>2. ASSUME NEW b \in Ask PROVE RowInv(b)'
    BY <2>1, RowStep DEF IInv
  <2> QED BY <2>1, <2>2 DEF IInv
<1> QED BY <1>1, InitInv, PTL DEF Spec

(* The dialogs, the requests, the cards and the threads keep their types.   *)
THEOREM TypeCorrect == Spec => []TypeOK
<1>1. IInv => TypeOK
  BY DEF IInv
<1> QED BY <1>1, Invariance, PTL

(* No request waits for a worker that has gone: AskBridge::_Serve leaves    *)
(* its wait only with the reply in hand or with the request marked Gone.    *)
THEOREM WorkersServe == Spec => []OpenIsServed
<1>1. IInv => OpenIsServed
  <2> SUFFICES ASSUME IInv, NEW a \in Ask, StateOf(a) = "Open" \/ (entry[a] # None /\ entry[a].queued)
               PROVE  worker[a] = "serving"
    BY DEF OpenIsServed
  <2>1. entry[a] # None /\ (entry[a].state = "Open" \/ entry[a].queued)
    BY QuestionAssumption DEF StateOf, States
  <2>2. worker[a] \in {"none", "door", "accepted", "serving", "writing", "done"} /\ Served(a)
    BY DEF IInv, TypeOK, RowInv
  <2> QED BY <2>1, <2>2 DEF Served, Unserved, Finished
<1> QED BY <1>1, Invariance, PTL

(* A card that is over has let its hook go, or the thread that ended it is  *)
(* about to: however the tick's stale snapshot, the taps and the worker     *)
(* interleave.                                                              *)
THEOREM FinishedCardsLetGo == Spec => []FinishedLetsGo
<1>1. IInv => FinishedLetsGo
  BY DEF IInv, RowInv, Decided, FinishedLetsGo, IsFinishedPhase
<1> QED BY <1>1, Invariance, PTL

(* An answer that claude took from the phone is never shown as refused, nor *)
(* as the PC's.                                                             *)
THEOREM PhoneAnswersStand == Spec => []NoFalseRefusal
<1>1. IInv => NoFalseRefusal
  BY DEF IInv, RowInv, Kept, Promised, NoFalseRefusal
<1> QED BY <1>1, Invariance, PTL

(* If the bot's stop does not race with a request at the door, no hook      *)
(* waits for a bot that is off.                                             *)
THEOREM StoppedBotLetsGo ==
    ASSUME ~StopMayRace
    PROVE  Spec => []OffLetsGo
<1>1. IInv => OffLetsGo
  BY DEF IInv, RowInv, Off, OffLetsGo
<1> QED BY <1>1, Invariance, PTL
============================================================================
