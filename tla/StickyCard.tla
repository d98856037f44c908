----------------------------- MODULE StickyCard -----------------------------
(***************************************************************************)
(* The sticky card of one topic: the message that shows a session's state   *)
(* and buttons in the Telegram chat.  A refresh (the tick's, or that of a    *)
(* tapped button) compares the card with the session and decides to edit it  *)
(* or to post it anew at the bottom; the update may first wait for a picture *)
(* of the screen; it then waits in the outbox, where one thread sends the    *)
(* items one by one and Telegram may refuse, delay or lose them.  The topic  *)
(* may meanwhile pass to another session, the card be deleted on the phone,  *)
(* the bot be restarted, the pictures be switched.                           *)
(*                                                                          *)
(* A version stands for what the card shows (text and buttons), and for its *)
(* hash.  The outbox has its items by their place in the order (seq and      *)
(* subSeq); the item whose call is under way keeps its place in it.          *)
(***************************************************************************)
EXTENDS Integers, Sequences, FiniteSets, FiniteSetsExt

CONSTANTS
    Tap,         \* the taps on the card's own buttons
    MaxVersion,  \* bound: how often the session's card changes
    Trouble,     \* what may go wrong
    MaxTrouble,  \* bound: how often in one behavior
    Races,       \* the coincidences that the instance allows
    None

Thread == {"tick", "poll"}
Version == 1..MaxVersion
Forms == {"pictured", "rich", "classic"}
Kinds == {"del", "post", "edit"}
InFlight == -1 \* cardMessageId: a post waits for its answer
NoCard == 0    \* cardMessageId: absent

ASSUME CardAssumption ==
    /\ MaxVersion \in Nat \ {0} /\ MaxTrouble \in Nat
    /\ Trouble \subseteq {"deleted", "pushed", "rekeyed", "restarted", "switched", "refused", "failed", "parked"}
    /\ Races \subseteq {"rekey", "restart", "switch", "overtake", "overlap", "redelete"}
    /\ None \notin Tap

VARIABLES
    want,     \* what the session's card should show now
    rec,      \* the topic's record: its session, card message and hash
    card,     \* CardState of that session
    look,     \* what a refresh under way has read
    handler,  \* the tap whose handler runs on the poll thread
    steps,    \* the updates that wait for their picture
    outbox,
    parked,   \* the methods that a long 429 parks
    pictures, \* _cardPicturesWanted
    chat,     \* the card messages ever posted: the version shown, 0 once the bot
              \* deleted it, minus the version once the user did
    taps,     \* the taps: their answers
    tried,    \* history: the newest version of an answered call
    excused,  \* history: the taps that lost their holds to another update
    stray,    \* history: the messages that a restart lost track of
    trouble   \* history: how often something went wrong

vars == <<want, rec, card, look, handler, steps, outbox, parked, pictures, chat, taps,
          tried, excused, stray, trouble>>

----------------------------------------------------------------------------
(***************************************************************************)
(* The outbox.                                                              *)
(***************************************************************************)

SameKey(x, y) == x.keyed /\ y.keyed /\ x.kind = y.kind /\ x.session = y.session
Replaced(x, new) == SameKey(x, new) /\ ~x.flying

\* An item at the end of the order; of the numbers only their order matters.
Added(box, item) ==
    LET seq == Max({0} \cup DOMAIN box) + 1
    IN  [i \in DOMAIN box \cup {seq} |-> IF i = seq THEN item ELSE box[i]]
Without(box, gone) == [i \in DOMAIN box \ gone |-> box[i]]

\* The queued items with the new one's key.
OlderOf(box, new) == {i \in DOMAIN box : Replaced(box[i], new)}

\* Mutant of Enqueued: the replaced item's holds go with it.
EnqueuedAlone(box, new) == Added(Without(box, OlderOf(box, new)), new)

\* _enqueue: a newer item replaces the queued one with its key and takes over
\* its holds.
Enqueued(box, new) ==
    Added(Without(box, OlderOf(box, new)),
          [new EXCEPT !.holds = @ \cup UNION {box[i].holds : i \in OlderOf(box, new)}])

Item(kind, u, form) ==
    [kind |-> kind, session |-> u.session, msg |-> u.msg, version |-> u.version, prio |-> u.prio,
     holds |-> u.holds, form |-> form, keyed |-> TRUE, flying |-> FALSE]

\* Mutant of CardDeleted: the old card is not deleted.
CardKept(u) == outbox

\* The outbox once the old card's delete is queued, which goes before a post.
CardDeleted(u) ==
    IF u.kind = "post" /\ u.msg # NoCard THEN Enqueued(outbox, Item("del", u, "classic")) ELSE outbox

\* An update goes into the outbox: _editText, or _postCard.
Queues(u, form) == \E box \in {CardDeleted(u)} : outbox' = Enqueued(box, Item(u.kind, u, form))

Before(i, j) ==
    \/ outbox[i].prio = "final" /\ outbox[j].prio = "card"
    \/ outbox[i].prio = outbox[j].prio /\ i <= j
Ready == {i \in DOMAIN outbox : outbox[i].kind \notin parked}
Flying == {i \in DOMAIN outbox : outbox[i].flying}

----------------------------------------------------------------------------
(***************************************************************************)
(* The taps.  A tap is answered when nothing holds it any more, or at its   *)
(* limit.                                                                   *)
(***************************************************************************)

Open == {t \in Tap : taps[t].state = "open"}
Held == (IF handler = None THEN {} ELSE {handler}) \cup card.holds
        \cup (UNION {s.holds : s \in steps}) \cup UNION {outbox[i].holds : i \in DOMAIN outbox}

TapDone(t) ==
    /\ t \in Open \ Held
    /\ taps' = [taps EXCEPT ![t].state = "done"]
    /\ UNCHANGED <<want, rec, card, look, handler, steps, outbox, parked, pictures, chat, tried, excused, stray, trouble>>

TapLimit(t) ==
    /\ t \in Open
    /\ taps' = [taps EXCEPT ![t].state = "limit"]
    /\ UNCHANGED <<want, rec, card, look, handler, steps, outbox, parked, pictures, chat, tried, excused, stray, trouble>>

\* _showCardPage: the page of the card's buttons flips; the refresh follows.
TapFlips(t) ==
    /\ taps[t].state = "none" /\ handler = None
    /\ rec.msg \notin {InFlight, NoCard}
    /\ want < MaxVersion
    /\ want' = want + 1
    /\ handler' = t
    /\ taps' = [taps EXCEPT ![t] = [state |-> "open", asked |-> want + 1]]
    /\ UNCHANGED <<rec, card, look, steps, outbox, parked, pictures, chat, tried, excused, stray, trouble>>

----------------------------------------------------------------------------
(***************************************************************************)
(* _refreshCard: it reads the record and the card under the mutex, builds    *)
(* the card's text outside of it, and decides.                              *)
(***************************************************************************)

Alone == "overlap" \in Races \/ \A th \in Thread : look[th] = None

\* Holds of taps that were answered go.
LookedAt(th) ==
    [session |-> rec.session, msg |-> rec.msg, hash |-> rec.hash, late |-> rec.refused,
     version |-> want, repost |-> card.wanted,
     taps |-> IF th = "poll" THEN {handler} ELSE {}]

Looks(th) ==
    /\ look[th] = None /\ Alone
    /\ th = "poll" => handler # None
    /\ look' = [look EXCEPT ![th] = LookedAt(th)]
    /\ card' = [card EXCEPT !.holds = @ \cap Open]
    /\ UNCHANGED <<want, rec, handler, steps, outbox, parked, pictures, chat, taps, tried, excused, stray, trouble>>

\* The refresh is over; on the poll thread so is the tap's handler.
Ends(th) ==
    /\ look' = [look EXCEPT ![th] = None]
    /\ handler' = IF th = "poll" THEN None ELSE handler

\* A post is in flight, or was refused a moment ago.
MustWait(l) == l.msg = InFlight \/ (l.msg = NoCard /\ l.late)

\* Mutant of MustPost: an absent card is not posted.
MustPostOnWish(l) == ~MustWait(l) /\ l.repost

MustPost(l) == ~MustWait(l) /\ (l.msg = NoCard \/ l.repost)
MustEdit(l) == ~MustWait(l) /\ ~MustPost(l) /\ l.hash # l.version

\* _awaitCardChange: the tap waits for the card's next change.
Waits(th) ==
    /\ look[th] # None /\ MustWait(look[th])
    /\ card' = [card EXCEPT !.holds = @ \cup (look[th].taps \cap Open)]
    /\ Ends(th)
    /\ UNCHANGED <<want, rec, steps, outbox, parked, pictures, chat, taps, tried, excused, stray, trouble>>

\* The card shows this very version already, or will.
Leaves(th) ==
    /\ look[th] # None
    /\ ~MustWait(look[th]) /\ ~MustPost(look[th]) /\ ~MustEdit(look[th])
    /\ excused' = excused \cup look[th].taps
    /\ Ends(th)
    /\ UNCHANGED <<want, rec, card, steps, outbox, parked, pictures, chat, taps, tried, stray, trouble>>

\* The update that a look leads to; the waiting taps and the tap in scope hold
\* it, and with one of them it goes at an answer's priority.
Update(kind, l) ==
    [kind |-> kind, session |-> l.session, msg |-> l.msg, version |-> l.version,
     prio |-> IF l.taps = {} /\ card.holds = {} THEN "card" ELSE "final",
     holds |-> (l.taps \cup card.holds) \cap Open,
     seq |-> card.seq + 1]

\* With pictures it waits for one; a change of the buttons alone keeps the
\* picture that the card has.
Updates(u, reads) ==
    IF pictures /\ reads
    THEN steps' = steps \cup {u} /\ UNCHANGED outbox
    ELSE Queues(u, IF pictures THEN "pictured" ELSE "rich") /\ UNCHANGED steps

\* A delete with this session's key is still to be done: another repost would
\* replace it, and its card would stay.
Deleting == \E i \in DOMAIN outbox : outbox[i].kind = "del" /\ outbox[i].session = rec.session

Posts(th) ==
    /\ look[th] # None /\ MustPost(look[th])
    /\ "redelete" \in Races \/ ~Deleting
    /\ rec' = [rec EXCEPT !.msg = InFlight, !.hash = look[th].version]
    /\ card' = [card EXCEPT !.wanted = FALSE, !.holds = {}, !.seq = IF pictures THEN @ + 1 ELSE @]
    /\ Updates(Update("post", look[th]), TRUE)
    /\ Ends(th)
    /\ UNCHANGED <<want, parked, pictures, chat, taps, tried, excused, stray, trouble>>

Edits(th) ==
    /\ look[th] # None /\ MustEdit(look[th])
    /\ rec' = [rec EXCEPT !.hash = look[th].version]
    /\ card' = [card EXCEPT !.holds = {}, !.seq = IF pictures THEN @ + 1 ELSE @]
    /\ \E reads \in BOOLEAN : Updates(Update("edit", look[th]), reads)
    /\ Ends(th)
    /\ UNCHANGED <<want, parked, pictures, chat, taps, tried, excused, stray, trouble>>

\* Mutant of Current: an overtaken update is sent as well.
CurrentAnyway(s) == TRUE

\* No newer update with a picture was decided meanwhile.
Current(s) == s.session = rec.session /\ s.seq = card.seq

\* The picture is there (the window's answer, the worker's, or none in time):
\* the update is queued, or dropped when a newer one overtook it.
Settles(s) ==
    /\ s \in steps
    /\ steps' = steps \ {s}
    /\ IF Current(s)
       THEN /\ Queues([s EXCEPT !.holds = @ \cap Open], "pictured")
            /\ rec' = IF s.kind = "post" THEN [rec EXCEPT !.msg = InFlight, !.hash = s.version] ELSE rec
            /\ UNCHANGED excused
       ELSE excused' = excused \cup s.holds /\ UNCHANGED <<outbox, rec>>
    /\ UNCHANGED <<want, card, look, handler, parked, pictures, chat, taps, tried, stray, trouble>>

----------------------------------------------------------------------------
(***************************************************************************)
(* _sendLoop.                                                               *)
(***************************************************************************)

\* One thing goes wrong.
Goes(wrong) ==
    /\ wrong \in Trouble
    /\ trouble < MaxTrouble
    /\ trouble' = trouble + 1

Takes ==
    /\ Flying = {}
    /\ \E i \in Ready : /\ \A j \in Ready : Before(i, j)
                        /\ outbox' = [outbox EXCEPT ![i].flying = TRUE]
    /\ UNCHANGED <<want, rec, card, look, handler, steps, parked, pictures, chat, taps, tried, excused, stray, trouble>>

\* Mutant of Posted: the answer looks for the session that asked.
PostedOfSession(u, msg, refused) ==
    IF u.session = rec.session THEN [rec EXCEPT !.msg = msg, !.refused = refused] ELSE rec

\* A post's answer reaches the record by the topic's thread.
Posted(u, msg, refused) == [rec EXCEPT !.msg = msg, !.refused = refused]

\* Mutant of NotFound: the record keeps the card that is gone.
NotFoundIgnored(u) == rec

\* onDeleted: the card that was edited is gone.
NotFound(u) ==
    IF rec.msg = u.msg THEN [rec EXCEPT !.msg = NoCard, !.hash = 0, !.refused = FALSE] ELSE rec

Shows(msg) == msg \in DOMAIN chat /\ chat[msg] > 0

\* Telegram takes the call (or finds no message to edit or delete).
Taken(i) ==
    LET u == outbox[i]
    IN  /\ outbox' = Without(outbox, {i})
        /\ tried' = IF u.kind # "del" /\ u.version > tried THEN u.version ELSE tried
        /\ \/ /\ u.kind = "post"
              /\ chat' = Append(chat, u.version)
              /\ rec' = Posted(u, Len(chat) + 1, FALSE)
           \/ /\ u.kind = "edit" /\ Shows(u.msg)
              /\ chat' = [chat EXCEPT ![u.msg] = u.version]
              /\ UNCHANGED rec
           \/ /\ u.kind = "edit" /\ ~Shows(u.msg)
              /\ rec' = NotFound(u)
              /\ UNCHANGED chat
           \/ /\ u.kind = "del"
              /\ chat' = [chat EXCEPT ![u.msg] = 0]
              /\ UNCHANGED rec
        /\ UNCHANGED <<parked, trouble>>

\* The post is refused in every form, or its call fails.
Failed(i) ==
    /\ outbox[i].kind = "post"
    /\ Goes("failed")
    /\ outbox' = Without(outbox, {i})
    /\ tried' = IF outbox[i].version > tried THEN outbox[i].version ELSE tried
    /\ rec' = Posted(outbox[i], NoCard, TRUE)
    /\ UNCHANGED <<chat, parked>>

\* The message is refused in this form: it goes again in a plainer one, in its
\* place and without a key.
Refused(i) ==
    LET u == outbox[i]
    IN  /\ u.kind # "del" /\ u.form # "classic"
        /\ u.kind = "post" \/ u.prio = "final" \/ "overtake" \in Races
        /\ Goes("refused")
        /\ outbox' = [outbox EXCEPT ![i] = [u EXCEPT !.flying = FALSE, !.keyed = FALSE,
                          !.form = IF u.form = "pictured" THEN "rich" ELSE "classic"]]
        /\ UNCHANGED <<chat, rec, parked, tried>>

\* It goes back to its place, unless a newer one with its key is queued, which
\* takes over its holds.
PutBack(i) ==
    LET newer == {j \in DOMAIN outbox : j # i /\ SameKey(outbox[i], outbox[j])}
    IN  IF newer = {} THEN [outbox EXCEPT ![i].flying = FALSE]
        ELSE Without([outbox EXCEPT ![CHOOSE j \in newer : TRUE].holds = @ \cup outbox[i].holds], {i})

\* A long 429: the method is parked; with a second one parked, all are.  An
\* edit of the session that the topic had before finds no newer one by its key.
Parked(i) ==
    /\ outbox[i].kind # "edit" \/ outbox[i].session = rec.session \/ outbox[i].prio = "final" \/ "overtake" \in Races
    /\ Goes("parked")
    /\ parked' = IF parked \subseteq {outbox[i].kind} THEN {outbox[i].kind} ELSE Kinds
    /\ outbox' = PutBack(i)
    /\ UNCHANGED <<chat, rec, tried>>

Answers ==
    /\ \E i \in Flying : Taken(i) \/ Failed(i) \/ Refused(i) \/ Parked(i)
    /\ UNCHANGED <<want, card, look, handler, steps, pictures, taps, excused, stray>>

Unparks ==
    /\ parked # {}
    /\ parked' = {}
    /\ UNCHANGED <<want, rec, card, look, handler, steps, outbox, pictures, chat, taps, tried, excused, stray, trouble>>

----------------------------------------------------------------------------
(***************************************************************************)
(* What happens to the card.                                                *)
(***************************************************************************)

\* The session changes.
Changes ==
    /\ want < MaxVersion
    /\ want' = want + 1
    /\ UNCHANGED <<rec, card, look, handler, steps, outbox, parked, pictures, chat, taps, tried, excused, stray, trouble>>

\* A ring, a re-sort of the list, or newer messages below the card ask for a
\* new post.
Pushed ==
    /\ Goes("pushed")
    /\ card' = [card EXCEPT !.wanted = TRUE]
    /\ UNCHANGED <<want, rec, look, handler, steps, outbox, parked, pictures, chat, taps, tried, excused, stray>>

\* The pause after a refused post is over.
Retries ==
    /\ rec.refused
    /\ rec' = [rec EXCEPT !.refused = FALSE]
    /\ UNCHANGED <<want, card, look, handler, steps, outbox, parked, pictures, chat, taps, tried, excused, stray, trouble>>

\* The user deletes the card on the phone.
Deletes ==
    /\ Shows(rec.msg)
    /\ Goes("deleted")
    /\ chat' = [chat EXCEPT ![rec.msg] = -@]
    /\ UNCHANGED <<want, rec, card, look, handler, steps, outbox, parked, pictures, taps, tried, excused, stray>>

\* The pictures are switched on or off, or stop being wanted.
Switches ==
    /\ Goes("switched")
    /\ "switch" \in Races \/ steps = {}
    /\ pictures' = ~pictures
    /\ UNCHANGED <<want, rec, card, look, handler, steps, outbox, parked, chat, taps, tried, excused, stray>>

NewCard == [seq |-> 0, wanted |-> FALSE, holds |-> {}]

\* The queued edit of the old session is dropped; a post or a delete goes on.
Dropped == {i \in DOMAIN outbox : LET u == outbox[i]
                                  IN  u.kind = "edit" /\ u.keyed /\ ~u.flying /\ u.session = rec.session}

\* _rekeyTopic: the topic passes to another session of its tab; its card is
\* refreshed at once.
Rekeys ==
    /\ look["tick"] = None /\ Alone
    /\ Goes("rekeyed")
    /\ "rekey" \in Races \/ \A s \in steps : ~(Current(s) /\ s.kind = "post")
    /\ want < MaxVersion
    /\ want' = want + 1
    /\ rec' = [rec EXCEPT !.session = @ + 1, !.hash = 0]
    /\ card' = NewCard
    /\ outbox' = Without(outbox, Dropped)
    /\ excused' = excused \cup card.holds \cup UNION {outbox[i].holds : i \in Dropped}
    /\ look' = [look EXCEPT !["tick"] =
                   [session |-> rec.session + 1, msg |-> rec.msg, hash |-> 0, late |-> rec.refused,
                    version |-> want + 1, repost |-> FALSE, taps |-> {}]]
    /\ UNCHANGED <<handler, steps, parked, pictures, chat, taps, tried, stray>>

\* The bot is stopped and started: the threads are joined, the outbox and the
\* cards' states are empty again, a post that was queued is absent.
Restarts ==
    /\ \A th \in Thread : look[th] = None
    /\ handler = None /\ Flying = {}
    /\ Goes("restarted")
    /\ "restart" \in Races \/ (steps = {} /\ \A i \in DOMAIN outbox : outbox[i].kind # "edit")
    /\ outbox' = << >>
    /\ card' = NewCard
    /\ rec' = [rec EXCEPT !.msg = IF @ = InFlight THEN NoCard ELSE @]
    /\ excused' = excused \cup Held
    /\ stray' = stray \cup {m \in DOMAIN chat : m # rec.msg}
    /\ UNCHANGED <<want, look, handler, steps, parked, pictures, chat, taps, tried>>

----------------------------------------------------------------------------

Init ==
    /\ want = 1
    /\ rec = [session |-> 0, msg |-> NoCard, hash |-> 0, refused |-> FALSE]
    /\ card = NewCard
    /\ look = [th \in Thread |-> None]
    /\ handler = None
    /\ steps = {} /\ outbox = << >> /\ parked = {}
    /\ pictures \in BOOLEAN
    /\ chat = << >>
    /\ taps = [t \in Tap |-> [state |-> "none", asked |-> 0]]
    /\ tried = 0 /\ excused = {} /\ stray = {} /\ trouble = 0

Decides(th) == Waits(th) \/ Leaves(th) \/ Posts(th) \/ Edits(th)
Next ==
    \/ \E th \in Thread : Looks(th) \/ Decides(th)
    \/ \E s \in steps : Settles(s)
    \/ Takes \/ Answers \/ Unparks \/ Retries
    \/ \E t \in Tap : TapFlips(t) \/ TapDone(t) \/ TapLimit(t)
    \/ Changes \/ Pushed \/ Deletes \/ Switches \/ Rekeys \/ Restarts

\* The threads go on, a picture is settled at its limit, waits end.
Fairness ==
    /\ WF_vars(Looks("tick")) /\ SF_vars(Looks("poll"))
    /\ \A th \in Thread : WF_vars(Decides(th))
    /\ WF_vars(\E s \in steps : Settles(s))
    /\ WF_vars(Takes) /\ WF_vars(Answers) /\ WF_vars(Unparks) /\ WF_vars(Retries)
    /\ \A t \in Tap : WF_vars(TapDone(t))

Spec == Init /\ [][Next]_vars /\ Fairness

----------------------------------------------------------------------------
(***************************************************************************)
(* Properties.                                                              *)
(***************************************************************************)

Ids == Nat \ {0}
Updating == [kind : {"post", "edit"}, session : Nat, msg : Ids \cup {NoCard}, version : Version,
             prio : {"final", "card"}, holds : SUBSET Tap, seq : Nat]
TypeOK ==
    /\ want \in Version
    /\ rec \in [session : Nat, msg : Ids \cup {InFlight, NoCard}, hash : 0..MaxVersion, refused : BOOLEAN]
    /\ card \in [seq : Nat, wanted : BOOLEAN, holds : SUBSET Tap]
    /\ handler \in Tap \cup {None}
    /\ steps \subseteq Updating
    /\ \A i \in DOMAIN outbox :
          /\ outbox[i].kind \in Kinds /\ outbox[i].form \in Forms /\ outbox[i].holds \subseteq Tap
          /\ outbox[i].version \in Version
          /\ outbox[i].kind \in {"edit", "del"} => outbox[i].msg \in DOMAIN chat
    /\ Cardinality(Flying) <= 1
    /\ parked \subseteq Kinds /\ pictures \in BOOLEAN
    /\ \A m \in DOMAIN chat : chat[m] \in (-MaxVersion)..MaxVersion
    /\ \A t \in Tap : taps[t].state \in {"none", "open", "done", "limit"} /\ taps[t].asked \in 0..MaxVersion

\* A record that waits for the answer of a post has a post under way: without
\* one it would wait for ever, and the topic would have no card.
PostIsUnderWay ==
    rec.msg = InFlight =>
        \/ \E i \in DOMAIN outbox : outbox[i].kind = "post"
        \/ \E s \in steps : s.kind = "post" /\ Current(s)

\* The topic shows one card: any other is about to be deleted.
OneCard ==
    \A m \in DOMAIN chat : Shows(m) /\ m # rec.msg /\ m \notin stray =>
        \/ \E i \in DOMAIN outbox : outbox[i].kind = "del" /\ outbox[i].msg = m
        \/ \E s \in steps : s.kind = "post" /\ s.msg = m /\ Current(s)

\* An older text is never put back: neither by a picture that is settled last
\* nor by a refused or delayed item that goes again.
NoOldText == [][\A m \in DOMAIN chat : chat'[m] > 0 => chat'[m] >= chat[m]]_vars

\* A tap that its work let go was answered after Telegram answered the update
\* that it asked for.
AnswerWaitsForWork ==
    \A t \in Tap \ excused : taps[t].state = "done" => tried >= taps[t].asked

\* When nothing changes any more, the topic's card shows what the session shows
\* (or the user deleted a card that showed it: with no change no edit finds out).
CardCatchesUp == <>[](rec.msg \in DOMAIN chat /\ chat[rec.msg] \in {want, -want})
============================================================================
