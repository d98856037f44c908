--------------------------- MODULE FleetStore_proofs ---------------------------
(***************************************************************************)
(* For any sessions and threads, and any number of changes, failed writes  *)
(* and crashes: the types, and that no change of the registry is forgotten *)
(* when the engine comes to rest.                                          *)
(*                                                                         *)
(* Whoever changes the registry leaves a request behind: a thread that     *)
(* will poke or take a snapshot, the dirty flag, an autosaver that has     *)
(* cleared the flag and not yet looked.  Each of these ends in a snapshot  *)
(* that is taken after the change, so once there are none the newest       *)
(* snapshot is the registry, and what became of it became of the registry. *)
(***************************************************************************)
EXTENDS FleetStore, TLAPS

(***************************************************************************)
(* The operators on partial functions.                                     *)
(***************************************************************************)
LEMMA NothingIsPartial ==
    ASSUME NEW T PROVE Nothing \in Partial(T) /\ DOMAIN Nothing = {}
BY DEF Nothing, Partial

LEMMA ContentOfNothing == Content(Nothing) = Nothing
BY DEF Nothing, Content

LEMMA WithIsPartial ==
    ASSUME NEW T, NEW f \in Partial(T), NEW s \in Session, NEW v \in T
    PROVE  With(f, s, v) \in Partial(T)
<1>1. PICK S \in SUBSET Session : f \in [S -> T]
    BY DEF Partial
<1>2. With(f, s, v) \in [S \cup {s} -> T]
    BY <1>1 DEF With
<1> QED
    BY <1>2 DEF Partial

LEMMA RestrictIsPartial ==
    ASSUME NEW T, NEW f \in Partial(T), NEW s
    PROVE  Restrict(f, DOMAIN f \ {s}) \in Partial(T)
<1>1. PICK S \in SUBSET Session : f \in [S -> T]
    BY DEF Partial
<1>2. Restrict(f, DOMAIN f \ {s}) \in [S \ {s} -> T]
    BY <1>1 DEF Restrict
<1> QED
    BY <1>2 DEF Partial

LEMMA ContentIsText ==
    ASSUME NEW f \in Partial(Record) PROVE Content(f) \in Contents
<1>1. PICK S \in SUBSET Session : f \in [S -> Record]
    BY DEF Partial
<1>2. Content(f) \in [S -> Revision]
    BY <1>1 DEF Content, Record
<1> QED
    BY <1>2 DEF Contents, Partial

LEMMA PartialValue ==
    ASSUME NEW T, NEW f \in Partial(T), NEW s \in DOMAIN f
    PROVE  s \in Session /\ f[s] \in T
BY DEF Partial

LEMMA PartialExcept ==
    ASSUME NEW T, NEW f \in Partial(T), NEW s \in DOMAIN f, NEW v \in T
    PROVE  [f EXCEPT ![s] = v] \in Partial(T)
<1>1. PICK S \in SUBSET Session : f \in [S -> T]
    BY DEF Partial
<1>2. [f EXCEPT ![s] = v] \in [S -> T]
    BY <1>1
<1> QED
    BY <1>2 DEF Partial

LEMMA DomainIsSessions ==
    ASSUME NEW T, NEW f \in Partial(T) PROVE DOMAIN f \subseteq Session
BY DEF Partial

(***************************************************************************)
(* Types.                                                                  *)
(***************************************************************************)
Places == [at : {"idle", "poke", "snapshot", "save"}, holds : Contents]

(* What a save leaves of the file's variables and of the history.          *)
LEMMA SaveTypes ==
    ASSUME TypeOK, NEW text \in Contents, Save(text)
    PROVE  /\ disk' \in Contents /\ last' \in Contents \cup {None}
           /\ fails' \in 0..MaxFails /\ kept' \subseteq Session
<1>1. DOMAIN text \subseteq Session
    BY DomainIsSessions DEF Contents
<1>2. CASE text = last /\ UNCHANGED file
    BY <1>2 DEF TypeOK, file
<1>3. CASE text # last /\ Replaced(text)
    BY <1>1, <1>3 DEF TypeOK, Replaced
<1>4. CASE text # last /\ Refused
    BY <1>4, BoundAssumption DEF TypeOK, Refused
<1> QED
    BY <1>2, <1>3, <1>4 DEF Save

LEMMA InitTypes == Init => TypeOK
<1> SUFFICES ASSUME Init PROVE TypeOK
    OBVIOUS
<1>1. PICK S \in SUBSET Session : disk = [s \in S |-> 0] /\ kept = S
    BY DEF Init
<1>2. 0 \in Revision /\ 0 \in 0..MaxFails /\ 0 \in 0..MaxCrashes
      /\ 0 \in 0..Quiet /\ 0 \in 0..Cap
    BY BoundAssumption DEF Revision
<1>3. disk \in [S -> Revision]
    BY <1>1, <1>2
<1>4. disk \in Contents
    BY <1>3 DEF Contents, Partial
<1>5. Nothing \in Contents /\ Nothing \in Partial(Record)
    BY NothingIsPartial DEF Contents
<1>6. thread \in [Thread -> Places] /\ saver \in [at : {"wait", "snapshot", "save"}, holds : Contents]
    BY <1>5 DEF Init, Idle, Waiting, Places
<1> QED
    BY <1>1, <1>2, <1>4, <1>5, <1>6 DEF Init, TypeOK, Places, Revision

LEMMA NotifiesTypes ==
    ASSUME TypeOK, NEW t \in Thread, NEW live \in BOOLEAN, Notifies(t, live)
    PROVE  thread' \in [Thread -> Places]
BY DEF TypeOK, Notifies, Places

LEMMA WriteTypes ==
    ASSUME TypeOK, NEW t \in Thread, NEW s \in Session, NEW live \in BOOLEAN,
           Write(t, s, live)
    PROVE  TypeOK'
<1>1. changes' \in Revision
    BY BoundAssumption DEF TypeOK, Write, Revision
<1>2. fleet' \in Partial(Record)
    BY <1>1, WithIsPartial DEF TypeOK, Write, Record
<1>3. thread' \in [Thread -> Places]
    BY NotifiesTypes DEF Write
<1> QED
    BY <1>1, <1>2, <1>3 DEF TypeOK, Write, start, request, file, Places, Revision

LEMMA CallTypes ==
    ASSUME TypeOK, NEW t \in Thread, NEW s \in Session,
           Create(t, s) \/ Edit(t, s) \/ SetLive(t, s) \/ Remove(t, s)
             \/ Transient(t, s) \/ EditDraft(t, s)
    PROVE  TypeOK'
<1>1. CASE Create(t, s)
    BY <1>1, WriteTypes DEF Create
<1>2. CASE s \in DOMAIN fleet
    <2>1. fleet \in Partial(Record) /\ fleet[s] \in Record
        BY <1>2, PartialValue DEF TypeOK
    <2>2. fleet[s].live \in BOOLEAN /\ fleet[s].rev \in Revision
        BY <2>1 DEF Record
    <2>3. CASE Edit(t, s)
        BY <2>2, <2>3, WriteTypes DEF Edit
    <2>4. CASE SetLive(t, s)
        <3>1. fleet' = [fleet EXCEPT ![s] = [fleet[s] EXCEPT !.live = ~@]]
            BY <2>4 DEF SetLive
        <3>2. [fleet[s] EXCEPT !.live = ~@] \in Record
            BY <2>1 DEF Record
        <3>3. fleet' \in Partial(Record)
            BY <1>2, <2>1, <3>1, <3>2, PartialExcept
        <3>4. s \in DOMAIN fleet' /\ fleet'[s].live \in BOOLEAN
            <4>1. s \in DOMAIN fleet'
                BY <1>2, <3>1
            <4>2. fleet'[s] \in Record
                BY <3>3, <4>1, PartialValue
            <4> QED
                BY <4>1, <4>2 DEF Record
        <3>5. thread' \in [Thread -> Places]
            BY <2>4, <3>4, NotifiesTypes DEF SetLive
        <3> QED
            BY <2>4, <3>3, <3>5 DEF TypeOK, SetLive, start, request, file, Places
    <2>5. CASE Remove(t, s)
        <3>1. fleet' \in Partial(Record)
            BY <2>1, <2>5, RestrictIsPartial DEF Remove
        <3>2. thread' \in [Thread -> Places]
            BY <2>5, NotifiesTypes DEF Remove
        <3> QED
            BY <2>5, <3>1, <3>2 DEF TypeOK, Remove, start, request, Places
    <2>6. CASE Transient(t, s)
        <3>1. thread' \in [Thread -> Places]
            BY <2>2, <2>6, NotifiesTypes DEF Transient
        <3> QED
            BY <2>6, <3>1 DEF TypeOK, Transient, registry, start, request, file, Places
    <2>7. CASE EditDraft(t, s)
        <3>1. changes' \in Revision
            BY <2>7, BoundAssumption DEF TypeOK, EditDraft, Revision
        <3>2. fleet' = [fleet EXCEPT ![s] = [fleet[s] EXCEPT !.rev = changes']]
            BY <2>7 DEF EditDraft
        <3>3. [fleet[s] EXCEPT !.rev = changes'] \in Record
            BY <2>1, <3>1 DEF Record
        <3>4. fleet' \in Partial(Record)
            BY <1>2, <2>1, <3>2, <3>3, PartialExcept
        <3>5. thread' \in [Thread -> Places] /\ newest' \in Thread \cup {"saver", "written", "lost"}
            BY <2>7 DEF TypeOK, EditDraft, Places
        <3> QED
            BY <2>7, <3>1, <3>4, <3>5 DEF TypeOK, EditDraft, start, request, file, Places, Revision
    <2> QED
        BY <2>3, <2>4, <2>5, <2>6, <2>7, <1>1 DEF Create
<1> QED
    BY <1>1, <1>2 DEF Edit, SetLive, Remove, Transient, EditDraft

LEMMA SaveDirectlyTypes ==
    ASSUME TypeOK, NEW t \in Thread, SaveDirectly(t) PROVE TypeOK'
<1>1. thread' \in [Thread -> Places]
    BY DEF TypeOK, SaveDirectly, Places
<1> QED
    BY <1>1 DEF TypeOK, SaveDirectly, registry, start, request, file, Places

LEMMA InCallTypes ==
    ASSUME TypeOK, NEW t \in Thread, InCall(t) PROVE TypeOK'
<1> DEFINE Holders == Thread \cup {"saver", "written", "lost"}
<1>0. Content(fleet) \in Contents /\ Nothing \in Contents
    BY ContentIsText, NothingIsPartial DEF TypeOK, Contents
<1>1. CASE TakeSnapshot(t)
    <2>1. thread' \in [Thread -> Places]
        BY <1>0, <1>1 DEF TypeOK, TakeSnapshot, Places
    <2> QED
        BY <1>1, <2>1 DEF TypeOK, TakeSnapshot, registry, start, request, file, Places
<1>2. CASE ThreadSaves(t)
    <2>1. thread[t].holds \in Contents
        BY DEF TypeOK
    <2>2. /\ disk' \in Contents /\ last' \in Contents \cup {None}
          /\ fails' \in 0..MaxFails /\ kept' \subseteq Session
        BY <1>2, <2>1, SaveTypes DEF ThreadSaves
    <2>3. thread' \in [Thread -> Places]
        BY <1>0, <1>2 DEF TypeOK, ThreadSaves, Idle, Places
    <2>4. newest' \in Holders
        BY <1>2 DEF TypeOK, ThreadSaves, AfterSaveBy
    <2> QED
        BY <1>2, <2>2, <2>3, <2>4 DEF TypeOK, ThreadSaves, registry, start, request, Places
<1>3. CASE Poke(t)
    <2>1. thread' \in [Thread -> Places]
        BY <1>0, <1>3 DEF TypeOK, Poke, Idle, Places
    <2>2. quietLeft' \in 0..Quiet /\ capLeft' \in 0..Cap
        BY <1>3, BoundAssumption DEF TypeOK, Poke, CapFromFirst
    <2> QED
        BY <1>3, <2>1, <2>2 DEF TypeOK, Poke, registry, start, file, Places
<1> QED
    BY <1>1, <1>2, <1>3 DEF InCall

LEMMA SaverTypes == ASSUME TypeOK, Saver PROVE TypeOK'
<1> DEFINE Savers == [at : {"wait", "snapshot", "save"}, holds : Contents]
<1>0. Content(fleet) \in Contents /\ Nothing \in Contents
    BY ContentIsText, NothingIsPartial DEF TypeOK, Contents
<1>1. CASE SaverTakes
    BY <1>1 DEF TypeOK, SaverTakes, registry, start, file
<1>2. CASE SaverSnapshots
    <2>1. saver' \in Savers
        BY <1>0, <1>2 DEF SaverSnapshots
    <2> QED
        BY <1>2, <2>1 DEF TypeOK, SaverSnapshots, registry, start, request, file
<1>3. CASE SaverSaves
    <2>1. saver.holds \in Contents
        BY DEF TypeOK
    <2>2. /\ disk' \in Contents /\ last' \in Contents \cup {None}
          /\ fails' \in 0..MaxFails /\ kept' \subseteq Session
        BY <1>3, <2>1, SaveTypes DEF SaverSaves
    <2>3. saver' \in Savers
        BY <1>0, <1>3 DEF SaverSaves, Waiting
    <2>4. newest' \in Thread \cup {"saver", "written", "lost"}
        BY <1>3 DEF TypeOK, SaverSaves, AfterSaveBy
    <2> QED
        BY <1>3, <2>2, <2>3, <2>4 DEF TypeOK, SaverSaves, registry, start, request
<1> QED
    BY <1>1, <1>2, <1>3 DEF Saver

LEMMA RestoreTypes ==
    ASSUME TypeOK, NEW t \in Thread, Restore(t) \/ RestoreThrows(t) PROVE TypeOK'
<1>0. Nothing \in Contents
    BY NothingIsPartial DEF Contents
<1>1. CASE Load(t)
    BY <1>1 DEF TypeOK, Load, registry, request, file
<1>2. CASE RestoreOne(t)
    <2>1. PICK s \in DOMAIN saved :
            /\ fleet' = With(fleet, s, [live |-> FALSE, rev |-> saved[s]])
            /\ saved' = Restrict(saved, DOMAIN saved \ {s})
        BY <1>2 DEF RestoreOne
    <2>2. saved \in Partial(Revision)
        BY DEF TypeOK, Contents
    <2>3. s \in Session /\ saved[s] \in Revision
        BY <2>1, <2>2, PartialValue
    <2>4. fleet' \in Partial(Record)
        BY <2>1, <2>3, WithIsPartial DEF TypeOK, Record
    <2>5. saved' \in Contents
        BY <2>1, <2>2, RestrictIsPartial DEF Contents
    <2>6. thread' \in [Thread -> Places]
        BY <1>2, NotifiesTypes DEF RestoreOne
    <2> QED
        BY <1>2, <2>4, <2>5, <2>6 DEF TypeOK, RestoreOne, request, file, Places
<1>3. CASE RestoreDone(t)
    BY <1>3 DEF TypeOK, RestoreDone, registry, request, file
<1>4. CASE RestoreThrows(t)
    BY <1>0, <1>4, BoundAssumption DEF TypeOK, RestoreThrows, registry, request
<1> QED
    BY <1>1, <1>2, <1>3, <1>4 DEF Restore

LEMMA TickTypes == ASSUME TypeOK, Tick PROVE TypeOK'
<1>1. quietLeft' \in 0..Quiet /\ capLeft' \in 0..Cap
    BY BoundAssumption DEF TypeOK, Tick, OneLess
<1> QED
    BY <1>1 DEF TypeOK, Tick, registry, start, file

LEMMA CrashTypes == ASSUME TypeOK, Crash PROVE TypeOK'
<1>1. Nothing \in Contents /\ Nothing \in Partial(Record)
    BY NothingIsPartial DEF Contents
<1>2. thread' \in [Thread -> Places]
    BY <1>1 DEF Crash, Idle, Places
<1>3. saver' \in [at : {"wait", "snapshot", "save"}, holds : Contents]
    BY <1>1 DEF Crash, Waiting
<1>4. 0 \in 0..Quiet /\ 0 \in 0..Cap /\ crashes' \in 0..MaxCrashes
    BY BoundAssumption DEF TypeOK, Crash
<1> QED
    BY <1>1, <1>2, <1>3, <1>4 DEF TypeOK, Crash, Places

LEMMA NextTypes == TypeOK /\ [Next]_vars => TypeOK'
<1> SUFFICES ASSUME TypeOK, [Next]_vars PROVE TypeOK'
    OBVIOUS
<1>1. CASE UNCHANGED vars
    BY <1>1 DEF TypeOK, vars
<1>2. CASE Next
    BY <1>2, CallTypes, SaveDirectlyTypes, InCallTypes, SaverTypes, RestoreTypes,
       TickTypes, CrashTypes DEF Next
<1> QED
    BY <1>1, <1>2

(* Every variable has its type, for any sessions, threads and bounds.      *)
THEOREM TypeCorrect == Spec => []TypeOK
BY InitTypes, NextTypes, PTL DEF Spec

(***************************************************************************)
(* At rest nothing is unsaved.                                             *)
(***************************************************************************)

(* Somebody will look at the registry and save it.                         *)
Owed ==
    \/ dirty
    \/ saver.at = "snapshot"
    \/ \E t \in Thread : thread[t].at \in {"poke", "snapshot"}

(* What was noted as saved is what the file holds: a save that finds its   *)
(* text noted may skip the write.                                          *)
NotedIsOnDisk == last # None => last = disk

(* Only the restore loop is inside the restore.                            *)
LoaderRestores == loader # None => phase = "restoring"

(* The holder of the newest snapshot is on its way to save it.             *)
HolderSaves ==
    /\ newest \in Thread => thread[newest].at = "save"
    /\ newest = "saver" => saver.at = "save"

(* Before its first snapshot a start has taken nothing from the file yet,  *)
(* or has all of it still to put into the registry.                        *)
NotBegun ==
    /\ fleet = Nothing
    /\ phase = "starting" \/ (phase = "restoring" /\ saved = disk)

(* With no snapshot owed, the newest one is the registry.                  *)
NewestIsRegistry ==
    ~Owed =>
        /\ newest \in Thread => thread[newest].holds = Content(fleet)
        /\ newest = "saver" => saver.holds = Content(fleet)
        /\ newest = "written" => disk = Content(fleet) \/ NotBegun

FleetInv ==
    /\ TypeOK
    /\ NotedIsOnDisk
    /\ LoaderRestores
    /\ HolderSaves
    /\ NewestIsRegistry

LEMMA InitInv == Init => FleetInv
<1> SUFFICES ASSUME Init PROVE FleetInv
    OBVIOUS
<1>1. newest = "written" /\ newest \notin Thread /\ NotBegun
    BY HolderAssumption DEF Init, NotBegun
<1> QED
    BY <1>1, InitTypes
    DEF Init, FleetInv, NotedIsOnDisk, LoaderRestores, HolderSaves, NewestIsRegistry

(* A thread that is about to tell somebody of the registry owes a snapshot, *)
(* and did not hold the newest one.                                         *)
LEMMA OwedAfterCall ==
    ASSUME FleetInv, NEW t \in Thread, thread[t].at = "idle",
           NEW at \in {"poke", "snapshot"},
           thread' = [thread EXCEPT ![t].at = at],
           UNCHANGED <<saver, newest>>
    PROVE  Owed' /\ HolderSaves'
<1>1. thread'[t].at = at
    BY DEF FleetInv, TypeOK
<1>2. Owed'
    BY <1>1 DEF Owed
<1>3. newest # t
    BY DEF FleetInv, HolderSaves
<1>4. HolderSaves'
    BY <1>3 DEF FleetInv, TypeOK, HolderSaves
<1> QED
    BY <1>2, <1>4

LEMMA NotifiesOwes ==
    ASSUME FleetInv, NEW t \in Thread, thread[t].at = "idle",
           NEW live, Notifies(t, live), UNCHANGED <<saver, newest>>
    PROVE  Owed' /\ HolderSaves'
BY OwedAfterCall DEF Notifies

LEMMA WriteInv ==
    ASSUME FleetInv, TypeOK', NEW t \in Thread, NEW s, NEW live, Write(t, s, live)
    PROVE  FleetInv'
<1>1. Owed' /\ HolderSaves'
    BY NotifiesOwes DEF Write, Free
<1> QED
    BY <1>1 DEF FleetInv, Write, NotedIsOnDisk, LoaderRestores, NewestIsRegistry, start, file

LEMMA CallInv ==
    ASSUME FleetInv, TypeOK', NEW t \in Thread, NEW s \in Session,
           Create(t, s) \/ Edit(t, s) \/ SetLive(t, s) \/ Remove(t, s)
             \/ Transient(t, s) \/ EditDraft(t, s)
    PROVE  FleetInv'
<1>1. CASE Create(t, s)
    BY <1>1, WriteInv DEF Create
<1>2. CASE Edit(t, s)
    BY <1>2, WriteInv DEF Edit
<1>3. CASE SetLive(t, s)
    <2>1. Owed' /\ HolderSaves'
        BY <1>3, NotifiesOwes DEF SetLive, Free
    <2> QED
        BY <1>3, <2>1
        DEF FleetInv, SetLive, NotedIsOnDisk, LoaderRestores, NewestIsRegistry, start, file
<1>4. CASE Remove(t, s)
    <2>1. Owed' /\ HolderSaves'
        BY <1>4, NotifiesOwes DEF Remove, Free
    <2> QED
        BY <1>4, <2>1
        DEF FleetInv, Remove, NotedIsOnDisk, LoaderRestores, NewestIsRegistry, start
<1>5. CASE Transient(t, s)
    <2>1. Owed' /\ HolderSaves'
        BY <1>5, NotifiesOwes DEF Transient, Free
    <2> QED
        BY <1>5, <2>1
        DEF FleetInv, Transient, NotedIsOnDisk, LoaderRestores, NewestIsRegistry, start, file
<1>6. CASE EditDraft(t, s)
    <2>1. CASE thread' = [thread EXCEPT ![t].at = "snapshot"] /\ UNCHANGED newest
        <3>1. Owed' /\ HolderSaves'
            BY <1>6, <2>1, OwedAfterCall DEF EditDraft, Free
        <3> QED
            BY <1>6, <3>1
            DEF FleetInv, EditDraft, NotedIsOnDisk, LoaderRestores, NewestIsRegistry, start, file
    <2>2. CASE newest' = "lost" /\ UNCHANGED thread
        <3>1. newest' \notin Thread /\ newest' # "saver" /\ newest' # "written"
            BY <2>2, HolderAssumption
        <3> QED
            BY <1>6, <3>1
            DEF FleetInv, EditDraft, NotedIsOnDisk, LoaderRestores, HolderSaves,
                NewestIsRegistry, start, file
    <2> QED
        BY <1>6, <2>1, <2>2 DEF EditDraft
<1> QED
    BY <1>1, <1>2, <1>3, <1>4, <1>5, <1>6

LEMMA SaveDirectlyInv ==
    ASSUME FleetInv, TypeOK', NEW t \in Thread, SaveDirectly(t) PROVE FleetInv'
<1>1. Owed' /\ HolderSaves'
    BY OwedAfterCall DEF SaveDirectly, Free
<1> QED
    BY <1>1
    DEF FleetInv, SaveDirectly, NotedIsOnDisk, LoaderRestores, NewestIsRegistry, start, file

(* After a save, what is noted is on disk; a text that is noted is there,   *)
(* and a file that was not written over is as it was.                       *)
LEMMA SaveNotes ==
    ASSUME FleetInv, NEW text \in Contents, Save(text)
    PROVE  /\ NotedIsOnDisk'
           /\ last' = text => disk' = text
<1>1. text # None
    BY NoneAssumption
<1>2. CASE text = last /\ UNCHANGED file
    BY <1>1, <1>2 DEF FleetInv, NotedIsOnDisk, file
<1>3. CASE text # last /\ Replaced(text)
    BY <1>3 DEF Replaced, NotedIsOnDisk
<1>4. CASE text # last /\ Refused
    BY <1>4 DEF FleetInv, NotedIsOnDisk, Refused
<1> QED
    BY <1>2, <1>3, <1>4 DEF Save

LEMMA InCallInv ==
    ASSUME FleetInv, TypeOK', NEW t \in Thread, InCall(t) PROVE FleetInv'
<1>0. /\ thread \in [Thread -> Places]
      /\ newest \in Thread \cup {"saver", "written", "lost"}
    BY DEF FleetInv, TypeOK, Places
<1>1. CASE TakeSnapshot(t)
    <2>1. /\ newest' = t /\ t # "saver" /\ t # "written"
          /\ thread'[t] = [at |-> "save", holds |-> Content(fleet)]
          /\ fleet' = fleet
        BY <1>0, <1>1, HolderAssumption DEF TakeSnapshot, registry
    <2>2. Content(fleet') = Content(fleet)
        BY <2>1
    <2>3. HolderSaves' /\ NewestIsRegistry'
        BY <2>1, <2>2 DEF HolderSaves, NewestIsRegistry
    <2> QED
        BY <1>1, <2>3 DEF FleetInv, TakeSnapshot, NotedIsOnDisk, LoaderRestores, start, file
<1>2. CASE ThreadSaves(t)
    <2> DEFINE text == thread[t].holds
    <2>1. text \in Contents
        BY <1>0 DEF Places
    <2>2. NotedIsOnDisk' /\ (last' = text => disk' = text)
        BY <1>2, <2>1, SaveNotes DEF ThreadSaves
    <2>3. /\ \A u \in Thread \ {t} : thread'[u] = thread[u]
          /\ thread[t].at = "save" /\ thread'[t] = Idle
          /\ UNCHANGED <<fleet, saver, dirty, phase, loader, saved>>
          /\ newest' = AfterSaveBy(t, text)
        BY <1>0, <1>2 DEF ThreadSaves, registry, start, request
    <2>4. Owed' <=> Owed
        BY <2>3 DEF Owed, Idle
    <2>5. CASE newest = t
        <3>1. newest' \in {"written", "lost"} /\ (newest' = "written" => last' = text)
            BY <2>3, <2>5 DEF AfterSaveBy
        <3>2. newest' \notin Thread /\ newest' # "saver"
            BY <3>1, HolderAssumption
        <3>3. ~Owed => text = Content(fleet)
            BY <2>5 DEF FleetInv, NewestIsRegistry
        <3>4. HolderSaves' /\ NewestIsRegistry'
            BY <2>2, <2>3, <2>4, <3>1, <3>2, <3>3 DEF HolderSaves, NewestIsRegistry
        <3> QED
            BY <2>2, <2>3, <3>4 DEF FleetInv, LoaderRestores
    <2>6. CASE newest # t
        <3>1. \/ newest' = "lost"
              \/ newest' = newest /\ (newest = "written" => disk' = disk)
            BY <2>3, <2>6 DEF AfterSaveBy
        <3>2. CASE newest' = "lost"
            BY <2>2, <2>3, <3>2, HolderAssumption
            DEF FleetInv, LoaderRestores, HolderSaves, NewestIsRegistry
        <3>3. CASE newest' = newest /\ (newest = "written" => disk' = disk)
            <4>1. newest \in Thread => thread'[newest] = thread[newest]
                BY <2>3, <2>6
            <4>2. HolderSaves'
                BY <2>3, <3>3, <4>1 DEF FleetInv, HolderSaves
            <4>3. newest = "written" => (NotBegun' <=> NotBegun)
                BY <2>3, <3>3 DEF NotBegun
            <4>4. NewestIsRegistry'
                BY <2>3, <2>4, <3>3, <4>1, <4>3 DEF FleetInv, NewestIsRegistry
            <4> QED
                BY <2>2, <2>3, <4>2, <4>4 DEF FleetInv, LoaderRestores
        <3> QED
            BY <3>1, <3>2, <3>3
    <2> QED
        BY <2>5, <2>6
<1>3. CASE Poke(t)
    <2>1. thread[t].at # "save" /\ dirty' /\ newest # t
        BY <1>3 DEF Poke, FleetInv, HolderSaves
    <2>2. HolderSaves'
        BY <1>0, <1>3, <2>1 DEF FleetInv, Poke, HolderSaves
    <2> QED
        BY <1>3, <2>1, <2>2
        DEF FleetInv, Poke, NotedIsOnDisk, LoaderRestores, NewestIsRegistry, Owed, start, file
<1> QED
    BY <1>1, <1>2, <1>3 DEF InCall

LEMMA SaverInv == ASSUME FleetInv, TypeOK', Saver PROVE FleetInv'
<1>1. CASE SaverTakes
    <2>1. saver'.at = "snapshot" /\ newest # "saver"
        BY <1>1 DEF FleetInv, TypeOK, SaverTakes, HolderSaves
    <2>2. HolderSaves'
        BY <1>1, <2>1 DEF FleetInv, SaverTakes, HolderSaves
    <2> QED
        BY <1>1, <2>1, <2>2
        DEF FleetInv, SaverTakes, NotedIsOnDisk, LoaderRestores, NewestIsRegistry, Owed, start, file
<1>2. CASE SaverSnapshots
    <2>1. /\ newest' = "saver" /\ newest' \notin Thread
          /\ saver' = [at |-> "save", holds |-> Content(fleet)]
          /\ fleet' = fleet
        BY <1>2, HolderAssumption DEF SaverSnapshots, registry
    <2>2. Content(fleet') = Content(fleet)
        BY <2>1
    <2>3. HolderSaves' /\ NewestIsRegistry'
        BY <2>1, <2>2 DEF HolderSaves, NewestIsRegistry
    <2> QED
        BY <1>2, <2>3 DEF FleetInv, SaverSnapshots, NotedIsOnDisk, LoaderRestores, start, file
<1>3. CASE SaverSaves
    <2> DEFINE text == saver.holds
    <2>1. text \in Contents
        BY DEF FleetInv, TypeOK
    <2>2. NotedIsOnDisk' /\ (last' = text => disk' = text)
        BY <1>3, <2>1, SaveNotes DEF SaverSaves
    <2>3. /\ saver.at = "save" /\ saver' = Waiting
          /\ UNCHANGED <<fleet, thread, dirty, phase, loader, saved>>
          /\ newest' = AfterSaveBy("saver", text)
        BY <1>3 DEF SaverSaves, registry, start, request
    <2>4. Owed' <=> Owed
        BY <2>3 DEF Owed, Waiting
    <2>5. CASE newest = "saver"
        <3>1. newest' \in {"written", "lost"} /\ (newest' = "written" => last' = text)
            BY <2>3, <2>5 DEF AfterSaveBy
        <3>2. newest' \notin Thread /\ newest' # "saver"
            BY <3>1, HolderAssumption
        <3>3. ~Owed => text = Content(fleet)
            BY <2>5 DEF FleetInv, NewestIsRegistry
        <3>4. HolderSaves' /\ NewestIsRegistry'
            BY <2>2, <2>3, <2>4, <3>1, <3>2, <3>3 DEF HolderSaves, NewestIsRegistry
        <3> QED
            BY <2>2, <2>3, <3>4 DEF FleetInv, LoaderRestores
    <2>6. CASE newest # "saver"
        <3>1. \/ newest' = "lost"
              \/ newest' = newest /\ (newest = "written" => disk' = disk)
            BY <2>3, <2>6 DEF AfterSaveBy
        <3>2. CASE newest' = "lost"
            BY <2>2, <2>3, <3>2, HolderAssumption
            DEF FleetInv, LoaderRestores, HolderSaves, NewestIsRegistry
        <3>3. CASE newest' = newest /\ (newest = "written" => disk' = disk)
            <4>1. HolderSaves'
                BY <2>3, <2>6, <3>3 DEF FleetInv, HolderSaves
            <4>2. newest = "written" => (NotBegun' <=> NotBegun)
                BY <2>3, <3>3 DEF NotBegun
            <4>3. NewestIsRegistry'
                BY <2>3, <2>4, <2>6, <3>3, <4>2 DEF FleetInv, NewestIsRegistry
            <4> QED
                BY <2>2, <2>3, <4>1, <4>3 DEF FleetInv, LoaderRestores
        <3> QED
            BY <3>1, <3>2, <3>3
    <2> QED
        BY <2>5, <2>6
<1> QED
    BY <1>1, <1>2, <1>3 DEF Saver

LEMMA RestoreInv ==
    ASSUME FleetInv, TypeOK', NEW t \in Thread, Restore(t) \/ RestoreThrows(t)
    PROVE  FleetInv'
<1>1. CASE Load(t)
    <2>1. NotBegun => NotBegun'
        BY <1>1 DEF NotBegun, Load, registry, file
    <2> QED
        BY <1>1, <2>1
        DEF FleetInv, Load, NotedIsOnDisk, LoaderRestores, HolderSaves, NewestIsRegistry,
            Owed, registry, request, file
<1>2. CASE RestoreOne(t)
    <2>1. Owed' /\ HolderSaves'
        BY <1>2, NotifiesOwes DEF RestoreOne
    <2> QED
        BY <1>2, <2>1
        DEF FleetInv, RestoreOne, NotedIsOnDisk, LoaderRestores, NewestIsRegistry, file
<1>3. CASE RestoreDone(t)
    <2>1. t # None /\ phase = "restoring"
        BY <1>3, NoneAssumption DEF RestoreDone, FleetInv, LoaderRestores
    <2>2. NotBegun => disk = Content(fleet)
        BY <1>3, <2>1, ContentOfNothing DEF NotBegun, RestoreDone
    <2> QED
        BY <1>3, <2>2
        DEF FleetInv, RestoreDone, NotedIsOnDisk, LoaderRestores, HolderSaves,
            NewestIsRegistry, Owed, registry, request, file
<1>4. CASE RestoreThrows(t)
    <2>1. NotBegun => NotBegun'
        BY <1>4 DEF NotBegun, RestoreThrows, registry
    <2> QED
        BY <1>4, <2>1
        DEF FleetInv, RestoreThrows, NotedIsOnDisk, LoaderRestores, HolderSaves,
            NewestIsRegistry, Owed, registry, request
<1> QED
    BY <1>1, <1>2, <1>3, <1>4 DEF Restore

LEMMA TickInv == ASSUME FleetInv, TypeOK', Tick PROVE FleetInv'
BY DEF FleetInv, Tick, NotedIsOnDisk, LoaderRestores, HolderSaves, NewestIsRegistry,
       NotBegun, Owed, registry, start, file

LEMMA CrashInv == ASSUME FleetInv, TypeOK', Crash PROVE FleetInv'
<1>1. newest' = "written" /\ newest' \notin Thread /\ NotBegun'
    BY HolderAssumption DEF Crash, NotBegun
<1> QED
    BY <1>1
    DEF Crash, FleetInv, NotedIsOnDisk, LoaderRestores, HolderSaves, NewestIsRegistry

LEMMA NextInv == FleetInv /\ [Next]_vars => FleetInv'
<1> SUFFICES ASSUME FleetInv, [Next]_vars PROVE FleetInv'
    OBVIOUS
<1>1. TypeOK'
    BY NextTypes DEF FleetInv
<1>2. CASE UNCHANGED vars
    BY <1>1, <1>2
    DEF FleetInv, vars, NotedIsOnDisk, LoaderRestores, HolderSaves, NewestIsRegistry,
        NotBegun, Owed
<1>3. CASE Next
    BY <1>1, <1>3, CallInv, SaveDirectlyInv, InCallInv, SaverInv, RestoreInv, TickInv,
       CrashInv DEF Next
<1> QED
    BY <1>2, <1>3

LEMMA InvSaves == FleetInv => NothingUnsaved
<1> SUFFICES ASSUME FleetInv, AtRest, newest # "lost" PROVE disk = Content(fleet)
    BY DEF NothingUnsaved
<1>1. ~Owed
    BY DEF AtRest, Owed, Idle, Waiting
<1>2. newest = "written"
    BY DEF FleetInv, TypeOK, HolderSaves, AtRest, Idle, Waiting
<1>3. ~NotBegun
    BY DEF AtRest, NotBegun
<1> QED
    BY <1>1, <1>2, <1>3 DEF FleetInv, NewestIsRegistry

(* When nobody is in a call and no request is pending, the file is what    *)
(* the registry says, unless the newest snapshot was lost: the debounce,   *)
(* the write-through and the direct saves forget no change between them,   *)
(* whatever the interleaving of the threads with SessionAutosaver.         *)
THEOREM NothingStaysUnsaved == Spec => []NothingUnsaved
BY InitInv, NextInv, InvSaves, PTL DEF Spec
=============================================================================
