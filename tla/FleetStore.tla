----------------------------- MODULE FleetStore -----------------------------
(***************************************************************************)
(* How the fleet reaches sessions.json and comes back from it: the engine  *)
(* observer of the registry, the debounced SessionAutosaver, the direct    *)
(* saves of other threads, the atomic replace, crashes, and the restore    *)
(* loop of a start.                                                        *)
(*                                                                         *)
(* A record is its `live` flag and a revision that names the persisted     *)
(* content; the file holds the revisions only (`live` is not written).     *)
(* SaveSessions is called with a snapshot taken BEFORE it waits for the    *)
(* file's write lock; under the lock, the comparison with the last save,   *)
(* the write and the note of it are one step here, since no other save and *)
(* no reader of those variables can come between.                          *)
(***************************************************************************)
EXTENDS Naturals, FiniteSets, Functions

CONSTANTS
    Session,
    Thread,      \* the engine and UI threads that change records
    None,
    MaxChanges,  \* bounds the changes of the persisted content
    MaxFails,    \* bounds the writes that fail and the restores that throw
    MaxCrashes,
    Quiet,       \* kQuietMs and
    Cap,         \* kMaxLatencyMs, in ticks
    Chatty,      \* notifications of the sessions never stop coming
    Drafts       \* the text of an unsent draft may change

ASSUME SessionAssumption == IsFiniteSet(Session)
ASSUME BoundAssumption ==
    /\ {MaxChanges, MaxFails, MaxCrashes} \subseteq Nat
    /\ {Quiet, Cap} \subseteq Nat \ {0}
    /\ {Chatty, Drafts} \subseteq BOOLEAN
VARIABLES
    fleet,     \* the registry: a record for some of the sessions
    disk,      \* sessions.json: a revision for some of the sessions
    last,      \* s_last, what the last successful save wrote; None at first
    phase,     \* "starting", "restoring", "running"
    loader,    \* the thread inside the restore loop, or None
    saved,     \* what the loop has still to put into the registry
    thread,    \* where each thread is, and the snapshot it carries
    saver,     \* where the autosaver is, and the snapshot it carries
    dirty, quietLeft, capLeft,    \* the autosaver's request and its deadlines
    changes, fails, crashes,      \* counters for the bounds
    kept,      \* history: the sessions a save confirmed and nobody removed
    newest     \* history: who holds the newest snapshot, or what became of it:
               \* "written" or "lost"

vars == <<fleet, disk, last, phase, loader, saved, thread, saver,
          dirty, quietLeft, capLeft, changes, fails, crashes, kept, newest>>

registry == <<fleet, changes>>
file == <<disk, last, fails, kept>>
request == <<dirty, quietLeft, capLeft>>
start == <<phase, loader, saved>>

Revision == 0..MaxChanges
Record == [live : BOOLEAN, rev : Revision]
Nothing == << >>
Partial(T) == UNION {[S -> T] : S \in SUBSET Session}
Contents == Partial(Revision)

ASSUME NoneAssumption == None \notin Thread \cup Contents
ASSUME HolderAssumption == {"saver", "written", "lost"} \cap Thread = {}

(* A function with one more value, or another one.                         *)
With(f, s, value) ==
    [x \in DOMAIN f \cup {s} |-> IF x = s THEN value ELSE f[x]]

(* What the persisted text says of a fleet.                                *)
Content(f) == [s \in DOMAIN f |-> f[s].rev]

Idle == [at |-> "idle", holds |-> Nothing]
Waiting == [at |-> "wait", holds |-> Nothing]

(* A profile that an earlier run may have left sessions in.                *)
Init ==
    /\ \E S \in SUBSET Session : disk = [s \in S |-> 0] /\ kept = S
    /\ fleet = Nothing
    /\ last = None
    /\ phase = "starting" /\ loader = None /\ saved = Nothing
    /\ thread = [t \in Thread |-> Idle]
    /\ saver = Waiting
    /\ dirty = FALSE /\ quietLeft = 0 /\ capLeft = 0
    /\ changes = 0 /\ fails = 0 /\ crashes = 0
    /\ newest = "written"

(***************************************************************************)
(* The registry and its notifications.                                     *)
(***************************************************************************)
Free(t) == thread[t].at = "idle" /\ loader # t

(* The registry is left with the copy of the record in hand, the observer  *)
(* looks only at that copy's `live`.                                       *)
Notifies(t, live) ==
    thread' = [thread EXCEPT ![t].at = IF live THEN "poke" ELSE "snapshot"]

Write(t, s, live) ==
    /\ Free(t)
    /\ changes < MaxChanges
    /\ changes' = changes + 1
    /\ fleet' = With(fleet, s, [live |-> live, rev |-> changes'])
    /\ Notifies(t, live)
    /\ UNCHANGED <<start, saver, request, file, crashes, newest>>

(* A session is met for the first time: its tab, its first hook, or the    *)
(* survey of a claude started elsewhere, which runs before the restore.    *)
Create(t, s) == s \notin DOMAIN fleet /\ Write(t, s, TRUE)

(* The title, the queue, the state ... of an open or an archived session.  *)
Edit(t, s) == s \in DOMAIN fleet /\ Write(t, s, fleet[s].live)

(* A session is archived (its tab closed, its claude gone) or resumed.     *)
SetLive(t, s) ==
    /\ Free(t)
    /\ phase = "running"
    /\ s \in DOMAIN fleet
    /\ fleet' = [fleet EXCEPT ![s].live = ~@]
    /\ Notifies(t, fleet'[s].live)
    /\ UNCHANGED <<changes, start, saver, request, file, crashes, newest>>

(* Remove notifies with a copy it marked not live.                         *)
Remove(t, s) ==
    /\ Free(t)
    /\ phase = "running"
    /\ s \in DOMAIN fleet
    /\ fleet' = Restrict(fleet, DOMAIN fleet \ {s})
    /\ kept' = kept \ {s}
    /\ Notifies(t, FALSE)
    /\ UNCHANGED <<start, saver, request, disk, last, fails, changes, crashes,
                   newest>>

(* Presence, hooks, enrichment: a notification with nothing to persist.    *)
Transient(t, s) ==
    /\ Free(t)
    /\ s \in DOMAIN fleet
    /\ Notifies(t, fleet[s].live)
    /\ UNCHANGED <<registry, start, saver, request, file, crashes, newest>>

(* The text of a draft changes without a notification; the tick that saw   *)
(* it saves unless it did so less than 10 s ago.                           *)
EditDraft(t, s) ==
    /\ Drafts
    /\ Free(t)
    /\ s \in DOMAIN fleet /\ fleet[s].live
    /\ changes < MaxChanges
    /\ changes' = changes + 1
    /\ fleet' = [fleet EXCEPT ![s].rev = changes']
    /\ \/ thread' = [thread EXCEPT ![t].at = "snapshot"] /\ UNCHANGED newest
       \/ newest' = "lost" /\ UNCHANGED thread
    /\ UNCHANGED <<start, saver, request, file, crashes>>

(***************************************************************************)
(* SaveSessions.                                                           *)
(***************************************************************************)

(* The teardown, bind and close seams save on their own.                   *)
SaveDirectly(t) ==
    /\ Free(t)
    /\ phase = "running"
    /\ thread' = [thread EXCEPT ![t].at = "snapshot"]
    /\ UNCHANGED <<registry, start, saver, request, file, crashes, newest>>

TakeSnapshot(t) ==
    /\ thread[t].at = "snapshot"
    /\ thread' = [thread EXCEPT ![t] = [at |-> "save", holds |-> Content(fleet)]]
    /\ newest' = t
    /\ UNCHANGED <<registry, start, saver, request, file, crashes>>

Replaced(text) ==
    /\ disk' = text
    /\ last' = text
    /\ kept' = kept \cup (DOMAIN text \cap DOMAIN fleet)
    /\ UNCHANGED fails

Refused ==
    /\ fails < MaxFails
    /\ fails' = fails + 1
    /\ UNCHANGED <<disk, last, kept>>

(* An unchanged text is not written; a failed write is not noted.          *)
Save(text) ==
    \/ text = last /\ UNCHANGED file
    \/ text # last /\ Replaced(text)
    \/ text # last /\ Refused

(* The newest snapshot is written or, with its save, lost; an older one     *)
(* that is written after it goes over it.                                  *)
AfterSaveBy(x, text) ==
    IF newest = x THEN IF last' = text THEN "written" ELSE "lost"
    ELSE IF newest = "written" /\ disk' # disk THEN "lost" ELSE newest

ThreadSaves(t) ==
    /\ thread[t].at = "save"
    /\ Save(thread[t].holds)
    /\ newest' = AfterSaveBy(t, thread[t].holds)
    /\ thread' = [thread EXCEPT ![t] = Idle]
    /\ UNCHANGED <<registry, start, saver, request, crashes>>

(***************************************************************************)
(* The autosaver.                                                          *)
(***************************************************************************)

CapAddedUp == IF dirty THEN capLeft ELSE capLeft + Cap

(* The cap runs from the first poke that was not flushed.                  *)
CapFromFirst == IF dirty THEN capLeft ELSE Cap

Poke(t) ==
    /\ thread[t].at = "poke"
    /\ dirty' = TRUE
    /\ quietLeft' = Quiet
    /\ capLeft' = CapFromFirst
    /\ thread' = [thread EXCEPT ![t] = Idle]
    /\ UNCHANGED <<registry, start, saver, file, crashes, newest>>

DueWhenQuiet == quietLeft = 0

(* The stream was quiet for kQuietMs, or the oldest poke is kMaxLatencyMs  *)
(* old.                                                                    *)
Due == quietLeft = 0 \/ capLeft = 0

OneLess(n) == IF n = 0 THEN 0 ELSE n - 1

Tick ==
    /\ dirty
    /\ ~Due
    /\ quietLeft' = OneLess(quietLeft)
    /\ capLeft' = OneLess(capLeft)
    /\ UNCHANGED <<registry, start, thread, saver, dirty, file, crashes, newest>>

(* The request is taken, with the mutex, before the snapshot.              *)
SaverTakes ==
    /\ saver.at = "wait"
    /\ dirty /\ Due
    /\ dirty' = FALSE
    /\ saver' = [saver EXCEPT !.at = "snapshot"]
    /\ UNCHANGED <<registry, start, thread, quietLeft, capLeft, file, crashes,
                   newest>>

SaverSnapshots ==
    /\ saver.at = "snapshot"
    /\ saver' = [at |-> "save", holds |-> Content(fleet)]
    /\ newest' = "saver"
    /\ UNCHANGED <<registry, start, thread, request, file, crashes>>

(* (the request is cleared only now)                                       *)
SaverSavesThenClears ==
    /\ saver.at = "save"
    /\ Save(saver.holds)
    /\ newest' = AfterSaveBy("saver", saver.holds)
    /\ saver' = Waiting
    /\ dirty' = FALSE
    /\ UNCHANGED <<registry, start, thread, quietLeft, capLeft, crashes>>

SaverSaves ==
    /\ saver.at = "save"
    /\ Save(saver.holds)
    /\ newest' = AfterSaveBy("saver", saver.holds)
    /\ saver' = Waiting
    /\ UNCHANGED <<registry, start, thread, request, crashes>>

(***************************************************************************)
(* A start, and its end.                                                   *)
(***************************************************************************)
Load(t) ==
    /\ phase = "starting"
    /\ thread[t].at = "idle"
    /\ phase' = "restoring"
    /\ loader' = t
    /\ saved' = disk
    /\ UNCHANGED <<registry, thread, saver, request, file, crashes, newest>>

(* One Upsert of the loop.  Its notification is the write-through of the   *)
(* registry as it is: with the sessions restored so far.                   *)
RestoreOne(t) ==
    /\ loader = t /\ thread[t].at = "idle"
    /\ \E s \in DOMAIN saved :
         /\ fleet' = With(fleet, s, [live |-> FALSE, rev |-> saved[s]])
         /\ saved' = Restrict(saved, DOMAIN saved \ {s})
    /\ Notifies(t, FALSE)
    /\ UNCHANGED <<changes, phase, loader, saver, request, file, crashes, newest>>

RestoreDone(t) ==
    /\ loader = t /\ thread[t].at = "idle"
    /\ saved = Nothing
    /\ phase' = "running"
    /\ loader' = None
    /\ UNCHANGED <<registry, saved, thread, saver, request, file, crashes, newest>>

(* A throw leaves `restored` unset, and the next window's pass loads the   *)
(* file again.                                                             *)
RestoreThrows(t) ==
    /\ loader = t /\ thread[t].at = "idle"
    /\ fails < MaxFails
    /\ fails' = fails + 1
    /\ phase' = "starting"
    /\ loader' = None
    /\ saved' = Nothing
    /\ UNCHANGED <<registry, thread, saver, request, disk, last, kept, crashes,
                   newest>>

(* The process ends at any point and is started again.                     *)
Crash ==
    /\ crashes < MaxCrashes
    /\ crashes' = crashes + 1
    /\ fleet' = Nothing
    /\ last' = None
    /\ phase' = "starting" /\ loader' = None /\ saved' = Nothing
    /\ thread' = [t \in Thread |-> Idle]
    /\ saver' = Waiting
    /\ dirty' = FALSE /\ quietLeft' = 0 /\ capLeft' = 0
    /\ newest' = "written"
    /\ UNCHANGED <<disk, fails, kept, changes>>

InCall(t) == TakeSnapshot(t) \/ ThreadSaves(t) \/ Poke(t)
Restore(t) == Load(t) \/ RestoreOne(t) \/ RestoreDone(t)
Saver == SaverTakes \/ SaverSnapshots \/ SaverSaves

Next ==
    \/ \E t \in Thread, s \in Session :
         \/ Create(t, s) \/ Edit(t, s) \/ SetLive(t, s) \/ Remove(t, s)
         \/ Transient(t, s) \/ EditDraft(t, s)
    \/ \E t \in Thread :
         InCall(t) \/ SaveDirectly(t) \/ Restore(t) \/ RestoreThrows(t)
    \/ Saver
    \/ Tick
    \/ Crash

Spec == Init /\ [][Next]_vars

(* Every thread that is inside a call finishes it, the start goes on, time *)
(* passes; in a chatty fleet there is always another notification.         *)
FairSpec ==
    /\ Spec
    /\ \A t \in Thread : WF_vars(InCall(t))
    /\ WF_vars(\E t \in Thread : Restore(t))
    /\ WF_vars(Saver)
    /\ WF_vars(Tick)
    /\ Chatty => WF_vars(\E t \in Thread, s \in Session : Transient(t, s))

-----------------------------------------------------------------------------

(* Every variable has its type.                                            *)
TypeOK ==
    /\ fleet \in Partial(Record)
    /\ disk \in Contents
    /\ last \in Contents \cup {None}
    /\ phase \in {"starting", "restoring", "running"}
    /\ loader \in Thread \cup {None}
    /\ saved \in Contents
    /\ thread \in [Thread -> [at : {"idle", "poke", "snapshot", "save"},
                              holds : Contents]]
    /\ saver \in [at : {"wait", "snapshot", "save"}, holds : Contents]
    /\ dirty \in BOOLEAN
    /\ quietLeft \in 0..Quiet /\ capLeft \in 0..Cap
    /\ changes \in 0..MaxChanges
    /\ fails \in 0..MaxFails /\ crashes \in 0..MaxCrashes
    /\ kept \subseteq Session
    /\ newest \in Thread \cup {"saver", "written", "lost"}

(* No change is forgotten: when no thread is inside a call, no request is   *)
(* pending and the autosaver waits, the file is what the registry says, or  *)
(* the newest snapshot was lost (its save failed, an older one went over    *)
(* it, or a draft changed that nobody was told of).  A request that comes   *)
(* while the autosaver saves must start another save.                      *)
AtRest ==
    /\ phase = "running"
    /\ ~dirty /\ saver = Waiting
    /\ \A t \in Thread : thread[t] = Idle
NothingUnsaved == AtRest => disk = Content(fleet) \/ newest = "lost"

(* A file that is behind the registry catches up with it: the debounce     *)
(* bounds how far ("never more than ~1s behind"), a failed save is tried   *)
(* again and the last save to take the lock is not an old one.  With       *)
(* nothing in the fleet no notification can come.                          *)
CatchesUp ==
    disk # Content(fleet) ~> disk = Content(fleet) \/ fleet = Nothing

(* A request to save is taken even when the requests never pause: the cap  *)
(* of the debounce (SessionAutosaver::_run).                               *)
KeepsFlushing == dirty ~> ~dirty

(* A start finds every session that a save had confirmed and that nobody   *)
(* removed: the plan "survives a crash", one in the middle of the restore  *)
(* included.                                                               *)
SurvivesCrash == phase = "starting" => kept \subseteq DOMAIN disk
=============================================================================
