----------------------- MODULE PromptDelivery_proofs -----------------------
(***************************************************************************)
(* For any number of prompts, submissions, fills and presses: the types, in  *)
(* every regime; when every thread keeps its deadline, that the box has one *)
(* delivery at a time and that no row is left Sent with nobody answering    *)
(* for it; and, in the second part, that no prompt becomes two messages, no *)
(* delivery types for a row that was taken back, and no verdict of loss is  *)
(* passed on a message.                                                     *)
(***************************************************************************)
EXTENDS PromptDelivery, FiniteSetTheorems, TLAPS

Rows == [status : {"Pending", "Sent", "Failed"}, echoed : BOOLEAN,
         injected : {"no", "fresh", "settled"}, age : 0..3,
         presses : 0..MaxPresses, strikes : 0..(StrikeLimit - 1)]
Jobs == [at : {"idle", "decided", "marked", "declined", "pressed", "givingUp"},
         p : 0..N, saw : BOOLEAN]
Atts == [pc : {"none", "queued", "probing", "done"} \cup Typing, p : 0..N,
         fills : 0..MaxFills, draft : Content]

(***************************************************************************)
(* What an operation makes of a row.                                        *)
(***************************************************************************)
LEMMA RowIs ==
    ASSUME NEW r \in Rows
    PROVE  /\ MarkedSent(r) \in Rows /\ MarkedSent(r).status = "Sent"
           /\ MarkedSent(r).presses = 0
           /\ RolledBack(r) \in Rows /\ RolledBack(r).status # "Sent"
           /\ RolledBack(r).presses = r.presses
           /\ Injected(r) \in Rows /\ Injected(r).status = r.status
           /\ (r.status = "Sent" => Injected(r).injected = "fresh")
           /\ Injected(r).presses = r.presses
           /\ [Injected(r) EXCEPT !.strikes = 0] \in Rows
           /\ [Injected(r) EXCEPT !.strikes = 0].status = r.status
           /\ (r.status = "Sent" => [Injected(r) EXCEPT !.strikes = 0].injected = "fresh")
           /\ [Injected(r) EXCEPT !.strikes = 0].presses = r.presses
           /\ Struck(r) \in Rows /\ (Struck(r).status = "Sent" => Struck(r).echoed)
           /\ Struck(r).presses = r.presses
<1>1. 0 \in 0..MaxPresses /\ 0 \in 0..(StrikeLimit - 1) /\ 0 \in 0..3
  BY CountAssumption
<1>2. MarkedSent(r) \in Rows /\ MarkedSent(r).status = "Sent" /\ MarkedSent(r).presses = 0
  BY <1>1 DEF MarkedSent, Rows
<1>3. /\ RolledBack(r) \in Rows /\ RolledBack(r).status # "Sent"
      /\ RolledBack(r).presses = r.presses /\ RolledBack(r).strikes = r.strikes
  BY DEF RolledBack, Rows
<1>4. /\ Injected(r) \in Rows /\ Injected(r).status = r.status
      /\ (r.status = "Sent" => Injected(r).injected = "fresh")
      /\ Injected(r).presses = r.presses
  BY DEF Injected, Rows
<1>5. /\ [Injected(r) EXCEPT !.strikes = 0] \in Rows
      /\ [Injected(r) EXCEPT !.strikes = 0].status = r.status
      /\ (r.status = "Sent" => [Injected(r) EXCEPT !.strikes = 0].injected = "fresh")
      /\ [Injected(r) EXCEPT !.strikes = 0].presses = r.presses
  BY <1>1, <1>4 DEF Rows
<1>6. /\ Struck(r) \in Rows /\ (Struck(r).status = "Sent" => Struck(r).echoed)
      /\ Struck(r).presses = r.presses
  <2>1. CASE r.strikes + 1 < StrikeLimit
    <3>1. r.strikes + 1 \in 0..(StrikeLimit - 1)
      BY <2>1, CountAssumption DEF Rows
    <3>2. Struck(r) = [RolledBack(r) EXCEPT !.strikes = r.strikes + 1]
      BY <1>3, <2>1 DEF Struck, Rows
    <3> QED BY <1>3, <3>1, <3>2 DEF Rows
  <2>2. CASE ~(r.strikes + 1 < StrikeLimit)
    <3>1. Struck(r) = IF r.status = "Sent" /\ ~r.echoed
                      THEN [r EXCEPT !.status = "Failed", !.strikes = 0]
                      ELSE [r EXCEPT !.strikes = 0]
      BY <2>2 DEF Struck
    <3> QED BY <1>1, <3>1 DEF Rows
  <2> QED BY <2>1, <2>2
<1> QED BY <1>2, <1>3, <1>4, <1>5, <1>6

-----------------------------------------------------------------------------
(***************************************************************************)
(* The types.  The bounds on submissions, fills and presses are kept by what  *)
(* is on its way: a sender that was let through, a fill, a press.            *)
(***************************************************************************)
Takes(s) == IF job[s].at \in {"decided", "marked"} THEN 1 ELSE 0

Typed ==
    /\ row \in [Prompt -> Rows]
    /\ mode \in {"auto", "off"}
    /\ job \in [Sender -> Jobs]
    /\ owner \in 0..MaxAttempts /\ lapsed \in BOOLEAN
    /\ att \in [Attempt -> Atts]
    /\ used \in 0..MaxAttempts
    /\ latch \in BOOLEAN
    /\ box \in Content
    /\ msgs \in [Prompt -> 0..2]
    /\ hookQ \subseteq Prompt /\ unread \subseteq Prompt /\ pressQ \subseteq Prompt
    /\ turn \in {"rest", "run"}
    /\ scan \in [at : {"idle", "read"}, lost : SUBSET Prompt, reclaim : SUBSET Prompt]

OnTheirWay ==
    /\ \A s \in Sender : job[s].at # "idle" => job[s].p \in Prompt
    /\ job["user"].at \in {"idle", "marked", "declined"}
    /\ job["runner"].at = "pressed" => row[job["runner"].p].presses < MaxPresses
    /\ used + Takes("runner") + Takes("user") <= MaxAttempts
    /\ \A a \in Attempt : a > used => att[a].pc = "none"
    /\ \A a \in Attempt : att[a].pc # "none" => att[a].p \in Prompt
    /\ \A a \in Attempt :
          att[a].pc \in {"queued", "probing", "clear", "fill"} => att[a].fills < MaxFills

LEMMA SubmitBound ==
    ASSUME Typed, OnTheirWay, MaySubmit
    PROVE  used + Takes("runner") + Takes("user") < MaxAttempts
<1> DEFINE taking == {s \in Sender : job[s].at \in {"decided", "marked"}}
<1>1. used + Cardinality(taking) < MaxAttempts
  BY DEF MaySubmit
<1>2. Cardinality({}) = 0 /\ Cardinality({"runner"}) = 1 /\ Cardinality({"user"}) = 1
      /\ Cardinality({"runner", "user"}) = 2
  <2>1. {"runner", "user"} = {"runner"} \cup {"user"} /\ "user" \notin {"runner"}
    OBVIOUS
  <2>2. /\ Cardinality({}) = 0 /\ Cardinality({"runner"}) = 1 /\ Cardinality({"user"}) = 1
        /\ IsFiniteSet({"runner"})
    BY FS_EmptySet, FS_Singleton
  <2>3. Cardinality({"runner"} \cup {"user"}) = Cardinality({"runner"}) + 1
    BY <2>1, <2>2, FS_AddElement
  <2> QED BY <2>1, <2>2, <2>3
<1> HIDE DEF taking
<1>3. Cardinality(taking) = Takes("runner") + Takes("user")
  <2>1. CASE job["runner"].at \in {"decided", "marked"} /\ job["user"].at \in {"decided", "marked"}
    <3>1. taking = {"runner", "user"}
      BY <2>1 DEF Sender, taking
    <3> QED BY <1>2, <2>1, <3>1 DEF Takes
  <2>2. CASE job["runner"].at \in {"decided", "marked"} /\ job["user"].at \notin {"decided", "marked"}
    <3>1. taking = {"runner"}
      BY <2>2 DEF Sender, taking
    <3> QED BY <1>2, <2>2, <3>1 DEF Takes
  <2>3. CASE job["runner"].at \notin {"decided", "marked"} /\ job["user"].at \in {"decided", "marked"}
    <3>1. taking = {"user"}
      BY <2>3 DEF Sender, taking
    <3> QED BY <1>2, <2>3, <3>1 DEF Takes
  <2>4. CASE job["runner"].at \notin {"decided", "marked"} /\ job["user"].at \notin {"decided", "marked"}
    <3>1. taking = {}
      BY <2>4 DEF Sender, taking
    <3> QED BY <1>2, <2>4, <3>1 DEF Takes
  <2> QED BY <2>1, <2>2, <2>3, <2>4
<1>4. used + Cardinality(taking) < MaxAttempts
  BY <1>1 DEF taking
<1>5. /\ Takes("runner") \in Nat /\ Takes("user") \in Nat
      /\ used \in Nat /\ MaxAttempts \in Nat
  BY CountAssumption DEF Takes, Typed
<1> QED BY <1>3, <1>4, <1>5

LEMMA TypedInit == Init => Typed /\ OnTheirWay
<1> SUFFICES ASSUME Init PROVE Typed /\ OnTheirWay
  OBVIOUS
<1>1. NewRow \in Rows
  BY CountAssumption DEF NewRow, Rows
<1>2. NoJob \in Jobs /\ NoJob.at = "idle"
  BY CountAssumption DEF NoJob, Jobs
<1>3. Empty \in Content /\ Draft \in Content
  BY CountAssumption DEF Content, Empty, Draft
<1>4. [pc |-> "none", p |-> 0, fills |-> 0, draft |-> Empty] \in Atts
  BY <1>3, CountAssumption DEF Atts
<1>5. Typed
  <2>1. row \in [Prompt -> Rows] /\ mode \in {"auto", "off"}
    BY <1>1 DEF Init
  <2>2. job \in [Sender -> Jobs]
    BY <1>2 DEF Init
  <2>3. att \in [Attempt -> Atts]
    BY <1>4 DEF Init
  <2>4. box \in Content
    BY <1>3 DEF Init
  <2>5. scan \in [at : {"idle", "read"}, lost : SUBSET Prompt, reclaim : SUBSET Prompt]
    BY DEF Init
  <2>6. owner \in 0..MaxAttempts /\ used \in 0..MaxAttempts /\ msgs \in [Prompt -> 0..2]
    BY CountAssumption DEF Init
  <2>7. /\ lapsed \in BOOLEAN /\ latch \in BOOLEAN
        /\ hookQ \subseteq Prompt /\ unread \subseteq Prompt /\ pressQ \subseteq Prompt
        /\ turn \in {"rest", "run"}
    BY Zenon DEF Init
  <2> QED BY <2>1, <2>2, <2>3, <2>4, <2>5, <2>6, <2>7 DEF Typed
<1>6. OnTheirWay
  BY <1>2, CountAssumption DEF Init, OnTheirWay, Takes, Sender
<1> QED BY <1>5, <1>6

(***************************************************************************)
(* One variable at a time.                                                  *)
(***************************************************************************)
LEMMA RowChange ==
    ASSUME Typed, NEW p \in Prompt, NEW r \in Rows, row' = [row EXCEPT ![p] = r]
    PROVE  /\ row' \in [Prompt -> Rows]
           /\ \A q \in Prompt : row'[q] = IF q = p THEN r ELSE row[q]
  BY DEF Typed

LEMMA JobChange ==
    ASSUME Typed, NEW s \in Sender, NEW j \in Jobs, job' = [job EXCEPT ![s] = j]
    PROVE  /\ job' \in [Sender -> Jobs]
           /\ \A t \in Sender : job'[t] = IF t = s THEN j ELSE job[t]
  BY DEF Typed

LEMMA JobIs ==
    ASSUME NEW j \in Jobs, NEW x \in {"marked", "declined"}
    PROVE  /\ [j EXCEPT !.at = x] \in Jobs
           /\ [j EXCEPT !.at = x].at = x /\ [j EXCEPT !.at = x].p = j.p
  BY DEF Jobs

(* Where an attempt is, what it took from the box and how often it filled. *)
LEMMA AttChange ==
    ASSUME Typed, NEW a \in Attempt, NEW x \in Atts, att' = [att EXCEPT ![a] = x]
    PROVE  /\ att' \in [Attempt -> Atts]
           /\ \A b \in Attempt : att'[b] = IF b = a THEN x ELSE att[b]
  BY DEF Typed

-----------------------------------------------------------------------------
(***************************************************************************)
(* What a step of a delivery changes: its own attempt, the row of its prompt, *)
(* the claim it holds.  An attempt in answering still answers for its row.   *)
(***************************************************************************)
Live == {"queued", "probing"} \cup Typing
answering == {"queued", "probing", "clear", "fill", "verify"}
OpenRow(r) == r.status = "Sent" /\ ~r.echoed /\ r.injected = "no"

AttMoves(a) ==
    /\ att' \in [Attempt -> Atts]
    /\ \A b \in Attempt : b # a => att'[b] = att[b]
    /\ att'[a].p = att[a].p /\ att'[a].pc # "none"
    /\ att'[a].pc \in {"queued", "probing", "clear", "fill"} => att'[a].fills < MaxFills
RowMoves(a) ==
    /\ row' \in [Prompt -> Rows]
    /\ \A q \in Prompt : q # att[a].p => row'[q] = row[q]
    /\ row'[att[a].p].presses = row[att[a].p].presses
    /\ OpenRow(row'[att[a].p]) => OpenRow(row[att[a].p])
GateMoves(a) ==
    \/ owner' = owner /\ lapsed' \in BOOLEAN /\ (lapsed' => lapsed)
    \/ Owns(a) /\ owner' = 0 /\ lapsed' = FALSE /\ att'[a].pc = "done"
StillAnswers(a) ==
    \/ att[a].pc \notin answering \/ att'[a].pc \in answering
    \/ ~OpenRow(row'[att[a].p]) \/ ~Owns(a)
Worlds == latch' \in BOOLEAN /\ box' \in Content /\ msgs' \in [Prompt -> 0..2]
          /\ hookQ' \subseteq Prompt /\ unread' \subseteq Prompt
Moves(a) ==
    /\ att[a].pc \in Live
    /\ AttMoves(a) /\ RowMoves(a) /\ GateMoves(a) /\ StillAnswers(a) /\ Worlds
    /\ UNCHANGED <<mode, job, used, turn, pressQ, scan>>

LEMMA MovesTo ==
    ASSUME Typed, NEW a \in Attempt, NEW x \in Atts, att' = [att EXCEPT ![a] = x],
           x.p = att[a].p, x.pc # "none",
           x.pc \in {"done", "verify", "await", "restore"} \/ x.fills < MaxFills
    PROVE  AttMoves(a) /\ att'[a].pc = x.pc
<1>1. /\ att' \in [Attempt -> Atts]
      /\ \A b \in Attempt : att'[b] = IF b = a THEN x ELSE att[b]
  BY AttChange
<1> QED BY <1>1 DEF AttMoves

LEMMA PcMoves ==
    ASSUME Typed, NEW a \in Attempt, NEW pc \in {"done"} \cup Live,
           att' = [att EXCEPT ![a].pc = pc],
           pc \in {"done", "verify", "await", "restore"} \/ att[a].fills < MaxFills
    PROVE  AttMoves(a) /\ att'[a].pc = pc
<1> DEFINE x == [att[a] EXCEPT !.pc = pc]
<1>1. att[a] \in Atts /\ pc \in {"none", "queued", "probing", "done"} \cup Typing /\ pc # "none"
  BY DEF Typed, Live, Typing
<1>2. x \in Atts /\ x.pc = pc /\ x.p = att[a].p /\ x.fills = att[a].fills
  BY <1>1 DEF Atts
<1>3. att' = [att EXCEPT ![a] = x]
  OBVIOUS
<1> HIDE DEF x
<1> QED BY <1>1, <1>2, <1>3, MovesTo

LEMMA DraftMoves ==
    ASSUME Typed, NEW a \in Attempt, NEW pc \in Live, NEW draft \in Content,
           att' = [att EXCEPT ![a].pc = pc, ![a].draft = draft],
           pc \in {"done", "verify", "await", "restore"} \/ att[a].fills < MaxFills
    PROVE  AttMoves(a) /\ att'[a].pc = pc
<1> DEFINE x == [att[a] EXCEPT !.pc = pc, !.draft = draft]
<1>1. att[a] \in Atts /\ pc \in {"none", "queued", "probing", "done"} \cup Typing /\ pc # "none"
  BY DEF Typed, Live, Typing
<1>2. x \in Atts /\ x.pc = pc /\ x.p = att[a].p /\ x.fills = att[a].fills
  BY <1>1 DEF Atts
<1>3. att' = [att EXCEPT ![a] = x]
  BY DEF Typed
<1> HIDE DEF x
<1> QED BY <1>1, <1>2, <1>3, MovesTo

LEMMA FillMoves ==
    ASSUME Typed, NEW a \in Attempt, att[a].fills < MaxFills,
           att' = [att EXCEPT ![a].pc = "verify", ![a].fills = att[a].fills + 1]
    PROVE  AttMoves(a) /\ att'[a].pc = "verify"
<1> DEFINE x == [att[a] EXCEPT !.pc = "verify", !.fills = att[a].fills + 1]
<1>1. att[a] \in Atts /\ "verify" \in Typing /\ att[a].fills + 1 \in 0..MaxFills
  <2>1. att[a] \in Atts /\ "verify" \in Typing
    BY DEF Typed, Typing
  <2>2. att[a].fills \in 0..MaxFills
    BY <2>1 DEF Atts
  <2> QED BY <2>1, <2>2, CountAssumption
<1>2. x \in Atts /\ x.pc = "verify" /\ x.p = att[a].p
  BY <1>1 DEF Atts
<1>3. att' = [att EXCEPT ![a] = x]
  BY DEF Typed
<1> HIDE DEF x
<1> QED BY <1>2, <1>3, MovesTo

LEMMA PromptOf ==
    ASSUME Typed, OnTheirWay, NEW a \in Attempt, att[a].pc \in Live
    PROVE  att[a].p \in Prompt /\ row[att[a].p] \in Rows /\ att[a].fills \in 0..MaxFills
           /\ att[a].draft \in Content
<1>1. att[a].pc # "none"
  BY DEF Live, Typing
<1> QED BY <1>1 DEF Typed, OnTheirWay, Atts

LEMMA ExitIs ==
    ASSUME Typed, OnTheirWay, NEW a \in Attempt, att[a].pc \in Live, Exit(a)
    PROVE  /\ AttMoves(a) /\ att'[a].pc = "done" /\ GateMoves(a) /\ latch' \in BOOLEAN
<1>1. att' = [att EXCEPT ![a].pc = "done"]
  BY DEF Exit
<1>2. AttMoves(a) /\ att'[a].pc = "done"
  BY <1>1, PcMoves, PromptOf
<1>3. GateMoves(a)
  <2>1. CASE Owns(a)
    BY <1>2, <2>1 DEF Exit, GateMoves
  <2>2. CASE ~Owns(a)
    <3>1. owner' = owner /\ lapsed' = lapsed /\ lapsed \in BOOLEAN
      BY <2>2 DEF Exit, gateVars, Typed
    <3> QED BY <3>1 DEF GateMoves
  <2> QED BY <2>1, <2>2
<1>4. latch' \in BOOLEAN
  BY DEF Exit
<1> QED BY <1>2, <1>3, <1>4

LEMMA RestoreOrExitIs ==
    ASSUME Typed, OnTheirWay, NEW a \in Attempt, att[a].pc \in Live, RestoreOrExit(a)
    PROVE  /\ AttMoves(a) /\ att'[a].pc \in {"restore", "done"} /\ GateMoves(a)
           /\ latch' \in BOOLEAN
<1>1. CASE Exit(a)
  BY <1>1, ExitIs
<1>2. CASE att' = [att EXCEPT ![a].pc = "restore"] /\ UNCHANGED <<latch, gateVars>>
  <2>1. "restore" \in Live
    BY DEF Live, Typing
  <2>2. AttMoves(a) /\ att'[a].pc = "restore"
    BY <1>2, <2>1, PcMoves, PromptOf
  <2> QED BY <1>2, <2>2 DEF GateMoves, gateVars, Typed
<1> QED BY <1>1, <1>2 DEF RestoreOrExit

(* The row of the attempt's prompt is left, or becomes r.                  *)
LEMMA RowMovesTo ==
    ASSUME Typed, OnTheirWay, NEW a \in Attempt, att[a].pc \in Live,
           \/ row' = row
           \/ \E r \in Rows : /\ row' = [row EXCEPT ![att[a].p] = r]
                              /\ r.presses = row[att[a].p].presses
                              /\ OpenRow(r) => OpenRow(row[att[a].p])
    PROVE  RowMoves(a)
<1>1. att[a].p \in Prompt /\ row \in [Prompt -> Rows]
  BY PromptOf DEF Typed
<1> QED BY <1>1 DEF RowMoves

LEMMA RollsBack ==
    ASSUME Typed, OnTheirWay, NEW a \in Attempt, att[a].pc \in Live,
           row' = [row EXCEPT ![att[a].p] = RolledBack(@)]
    PROVE  RowMoves(a) /\ ~OpenRow(row'[att[a].p])
<1>1. att[a].p \in Prompt /\ row[att[a].p] \in Rows /\ row \in [Prompt -> Rows]
  BY PromptOf DEF Typed
<1> DEFINE r == RolledBack(row[att[a].p])
<1>2. r \in Rows /\ r.status # "Sent" /\ r.presses = row[att[a].p].presses
  BY <1>1, RowIs
<1>3. row' = [row EXCEPT ![att[a].p] = r]
  OBVIOUS
<1> HIDE DEF r
<1>4. ~OpenRow(r)
  BY <1>2 DEF OpenRow
<1> QED BY <1>1, <1>2, <1>3, <1>4, RowMovesTo

(* What else a delivery touches.                                           *)
LEMMA QuietWorlds ==
    ASSUME Typed, latch' \in BOOLEAN, box' \in Content, UNCHANGED claudeVars
    PROVE  Worlds
  BY DEF Worlds, Typed, claudeVars

LEMMA EnterIs ==
    ASSUME Typed, NEW p \in Prompt, Enter(p), latch' \in BOOLEAN
    PROVE  Worlds
<1>1. Empty \in Content
  BY CountAssumption DEF Empty, Content
<1>2. CASE Commit(p)
  <2>1. \A n \in 0..2 : (IF n < 2 THEN n + 1 ELSE 2) \in 0..2
    OBVIOUS
  <2>2. msgs' \in [Prompt -> 0..2]
    BY <1>2, <2>1 DEF Commit, Typed
  <2> QED BY <1>1, <1>2, <2>2 DEF Commit, Worlds, Typed
<1>3. CASE UNCHANGED <<box, claudeVars>>
  BY <1>3, QuietWorlds DEF Typed
<1> QED BY <1>2, <1>3 DEF Enter

LEMMA DeliveryIs ==
    ASSUME Typed, OnTheirWay, NEW a \in Attempt, Delivery(a)
    PROVE  Moves(a)
<1> DEFINE others == UNCHANGED <<mode, job, used, turn, pressQ, scan>>
<1>1. /\ att[a].pc \in Live => /\ att[a].p \in Prompt
                               /\ att[a].fills \in 0..MaxFills
                               /\ att[a].draft \in Content
      /\ box \in Content /\ latch \in BOOLEAN /\ lapsed \in BOOLEAN
      /\ Empty \in Content /\ Draft \in Content /\ Mixed \in Content
  BY PromptOf, CountAssumption DEF Typed, Empty, Draft, Mixed, Content
<1>2. \A pc \in {"queued", "probing", "clear", "fill", "verify", "await", "restore"} : pc \in Live
  BY DEF Live, Typing
<1>3. CASE StaleAtTop(a)
  <2>1. att[a].pc \in Live /\ Exit(a) /\ row' = row /\ box' = box /\ others
    BY <1>2, <1>3 DEF StaleAtTop, queueVars
  <2>2. AttMoves(a) /\ GateMoves(a) /\ latch' \in BOOLEAN
    BY <2>1, ExitIs
  <2>3. RowMoves(a)
    BY <2>1, RowMovesTo
  <2>4. StillAnswers(a)
    BY <1>3, <2>1 DEF StaleAtTop, StillAnswers, OpenRow
  <2>5. Worlds
    BY <1>1, <1>3, <2>1, <2>2, QuietWorlds DEF StaleAtTop
  <2> QED BY <2>1, <2>2, <2>3, <2>4, <2>5 DEF Moves
<1>4. CASE TurnedAway(a) \/ NoBox(a)
  <2>1. /\ att[a].pc \in Live /\ Exit(a) /\ box' = box /\ others
        /\ row' = [row EXCEPT ![att[a].p] = RolledBack(@)] /\ UNCHANGED claudeVars
    BY <1>2, <1>4 DEF TurnedAway, NoBox
  <2>2. AttMoves(a) /\ GateMoves(a) /\ latch' \in BOOLEAN
    BY <2>1, ExitIs
  <2>3. RowMoves(a) /\ StillAnswers(a)
    BY <2>1, RollsBack DEF StillAnswers
  <2>4. Worlds
    BY <1>1, <2>1, <2>2, QuietWorlds
  <2> QED BY <2>1, <2>2, <2>3, <2>4 DEF Moves
<1>5. CASE Probe(a) \/ Lock(a)
  <2>1. /\ att[a].pc \in {"queued", "probing"} /\ row' = row /\ box' = box /\ others
        /\ UNCHANGED claudeVars /\ latch' \in BOOLEAN
        /\ owner' = owner /\ (lapsed' = FALSE \/ lapsed' = lapsed)
        /\ \E pc \in {"probing", "clear", "fill"} : att' = [att EXCEPT ![a].pc = pc]
    BY <1>1, <1>5 DEF Probe, Lock, Renews, queueVars, gateVars
  <2>2. PICK pc \in {"probing", "clear", "fill"} : att' = [att EXCEPT ![a].pc = pc]
    BY <2>1
  <2>3. att[a].fills < MaxFills /\ att[a].pc \in Live /\ pc \in Live
    BY <1>2, <2>1, <2>2 DEF OnTheirWay
  <2>4. AttMoves(a) /\ att'[a].pc = pc
    BY <1>1, <2>2, <2>3, PcMoves
  <2>5. RowMoves(a)
    BY <2>1, <2>3, RowMovesTo
  <2>6. GateMoves(a)
    BY <1>1, <2>1 DEF GateMoves
  <2>7. StillAnswers(a)
    BY <2>4 DEF StillAnswers, answering
  <2>8. Worlds
    BY <1>1, <2>1, QuietWorlds
  <2> QED BY <2>1, <2>3, <2>4, <2>5, <2>6, <2>7, <2>8 DEF Moves
<1>6. CASE Clear(a) \/ Refill(a)
  <2>1. /\ att[a].pc \in {"clear", "verify"} /\ row' = row /\ box' \in Content /\ others
        /\ UNCHANGED claudeVars /\ latch' = latch
        /\ owner' = owner /\ lapsed' = lapsed
        /\ att' = [att EXCEPT ![a].pc = "fill", ![a].draft = box]
           \/ att' = [att EXCEPT ![a].pc = "fill"]
    BY <1>1, <1>6 DEF Clear, Refill, queueVars, gateVars
  <2>2. att[a].fills < MaxFills /\ att[a].pc \in Live /\ "fill" \in Live
    BY <1>2, <1>6, <2>1 DEF OnTheirWay, Clear, Refill
  <2>3. AttMoves(a) /\ att'[a].pc = "fill"
    BY <1>1, <2>1, <2>2, PcMoves, DraftMoves
  <2>4. RowMoves(a)
    BY <2>1, <2>2, RowMovesTo
  <2>5. GateMoves(a)
    BY <1>1, <2>1 DEF GateMoves
  <2>6. StillAnswers(a)
    BY <2>3 DEF StillAnswers, answering
  <2>7. Worlds
    BY <1>1, <2>1, QuietWorlds
  <2> QED BY <2>1, <2>2, <2>3, <2>4, <2>5, <2>6, <2>7 DEF Moves
<1>7. CASE ClearFails(a)
  <2>1. /\ att[a].pc \in Live /\ box' = box /\ others
        /\ row' = [row EXCEPT ![att[a].p] = RolledBack(@)]
        /\ UNCHANGED claudeVars /\ latch' = latch /\ owner' = owner /\ lapsed' = lapsed
        /\ att' = [att EXCEPT ![a].pc = "restore", ![a].draft = box]
    BY <1>2, <1>7 DEF ClearFails, gateVars
  <2>2. AttMoves(a)
    BY <1>1, <1>2, <2>1, DraftMoves
  <2>3. RowMoves(a) /\ StillAnswers(a)
    BY <2>1, RollsBack DEF StillAnswers
  <2>4. GateMoves(a)
    BY <1>1, <2>1 DEF GateMoves
  <2>5. Worlds
    BY <1>1, <2>1, QuietWorlds
  <2> QED BY <2>1, <2>2, <2>3, <2>4, <2>5 DEF Moves
<1>8. CASE Fill(a)
  <2>1. /\ att[a].pc = "fill" /\ row' = row /\ others /\ latch' = latch
        /\ UNCHANGED claudeVars /\ owner' = owner /\ lapsed' = FALSE
        /\ att' = [att EXCEPT ![a].pc = "verify", ![a].fills = att[a].fills + 1]
    BY <1>8 DEF Fill, Renews, queueVars
  <2>2. att[a].fills < MaxFills /\ att[a].pc \in Live
    BY <1>2, <2>1 DEF OnTheirWay
  <2>4. AttMoves(a) /\ att'[a].pc = "verify"
    BY <2>1, <2>2, FillMoves
  <2>5. box' \in Content
    <3>1. att[a].p \in Content
      BY <1>1, <2>2, CountAssumption DEF Prompt, Content
    <3> QED BY <1>1, <1>8, <3>1 DEF Fill, Pasted
  <2>6. RowMoves(a)
    BY <2>1, <2>2, RowMovesTo
  <2>7. StillAnswers(a)
    BY <2>4 DEF StillAnswers, answering
  <2>8. Worlds
    BY <1>1, <2>1, <2>5, QuietWorlds
  <2>9. GateMoves(a)
    BY <2>1 DEF GateMoves
  <2> QED BY <2>1, <2>2, <2>4, <2>6, <2>7, <2>8, <2>9 DEF Moves
<1>9. CASE StaleAtWork(a)
  <2>1. /\ att[a].pc \in Live /\ RestoreOrExit(a) /\ row' = row /\ box' = box /\ others
        /\ ~Owns(a) /\ UNCHANGED claudeVars
    BY <1>2, <1>9 DEF StaleAtWork, queueVars
  <2>2. AttMoves(a) /\ GateMoves(a) /\ latch' \in BOOLEAN
    BY <2>1, RestoreOrExitIs
  <2>3. RowMoves(a)
    BY <2>1, RowMovesTo
  <2>4. Worlds
    BY <1>1, <2>1, <2>2, QuietWorlds
  <2> QED BY <2>1, <2>2, <2>3, <2>4 DEF Moves, StillAnswers
<1>10. CASE Deliver(a)
  <2> DEFINE r == [Injected(row[att[a].p]) EXCEPT !.strikes = 0]
  <2>1. /\ att[a].pc = "verify" /\ att[a].pc \in Live /\ Owns(a) /\ Enter(att[a].p) /\ others
        /\ row' = [row EXCEPT ![att[a].p] = r]
    BY <1>2, <1>10 DEF Deliver
  <2>2. r \in Rows /\ r.presses = row[att[a].p].presses /\ ~OpenRow(r)
    BY <2>1, PromptOf, RowIs DEF OpenRow
  <2> HIDE DEF r
  <2>3. RowMoves(a)
    BY <2>1, <2>2, RowMovesTo
  <2>4. ~OpenRow(row'[att[a].p])
    BY <1>1, <2>1, <2>2 DEF Typed
  <2>5. AttMoves(a) /\ GateMoves(a) /\ latch' \in BOOLEAN
    <3>1. CASE Exit(a)
      BY <2>1, <3>1, ExitIs
    <3>2. CASE Renews(a) /\ att' = [att EXCEPT ![a].pc = "await"] /\ UNCHANGED latch
      <4>1. AttMoves(a)
        BY <1>1, <1>2, <2>1, <3>2, PcMoves
      <4>2. GateMoves(a)
        BY <3>2 DEF Renews, GateMoves
      <4> QED BY <1>1, <3>2, <4>1, <4>2
    <3> QED BY <1>10, <3>1, <3>2 DEF Deliver
  <2>6. Worlds
    BY <1>1, <2>1, <2>5, EnterIs
  <2> QED BY <2>1, <2>3, <2>4, <2>5, <2>6 DEF Moves, StillAnswers
<1>11. CASE Strike(a)
  <2> DEFINE r == Struck(row[att[a].p])
  <2>1. /\ att[a].pc \in Live /\ RestoreOrExit(a) /\ box' \in Content /\ others
        /\ row' = [row EXCEPT ![att[a].p] = r] /\ UNCHANGED claudeVars
    BY <1>1, <1>2, <1>11 DEF Strike
  <2>2. r \in Rows /\ r.presses = row[att[a].p].presses /\ ~OpenRow(r)
    BY <2>1, PromptOf, RowIs DEF OpenRow
  <2> HIDE DEF r
  <2>3. RowMoves(a)
    BY <2>1, <2>2, RowMovesTo
  <2>4. ~OpenRow(row'[att[a].p])
    BY <1>1, <2>1, <2>2 DEF Typed
  <2>5. AttMoves(a) /\ GateMoves(a) /\ latch' \in BOOLEAN
    BY <2>1, RestoreOrExitIs
  <2>6. Worlds
    BY <1>1, <2>1, <2>5, QuietWorlds
  <2> QED BY <2>1, <2>3, <2>4, <2>5, <2>6 DEF Moves, StillAnswers
<1>12. CASE AwaitEnds(a) \/ Restore(a)
  <2>1. /\ att[a].pc \in {"await", "restore"} /\ row' = row /\ box' \in Content /\ others
        /\ UNCHANGED claudeVars
        /\ Exit(a) \/ (att' = [att EXCEPT ![a].pc = "restore"] /\ UNCHANGED <<latch, gateVars>>)
    <3>1. att[a].pc \in Live
      BY <1>2, <1>12 DEF AwaitEnds, Restore
    <3> QED BY <1>1, <1>12, <3>1 DEF AwaitEnds, Restore, queueVars
  <2>2. att[a].pc \in Live
    BY <1>2, <2>1
  <2>3. AttMoves(a) /\ GateMoves(a) /\ latch' \in BOOLEAN
    <3>1. CASE Exit(a)
      BY <2>2, <3>1, ExitIs
    <3>2. CASE att' = [att EXCEPT ![a].pc = "restore"] /\ UNCHANGED <<latch, gateVars>>
      <4>1. AttMoves(a)
        BY <1>1, <1>2, <2>2, <3>2, PcMoves
      <4>2. GateMoves(a)
        BY <1>1, <3>2 DEF gateVars, GateMoves
      <4> QED BY <1>1, <3>2, <4>1, <4>2
    <3> QED BY <2>1, <3>1, <3>2
  <2>4. RowMoves(a)
    BY <2>1, <2>2, RowMovesTo
  <2>5. StillAnswers(a)
    BY <2>1 DEF StillAnswers, answering
  <2>6. Worlds
    BY <1>1, <2>1, <2>3, QuietWorlds
  <2> QED BY <2>1, <2>2, <2>3, <2>4, <2>5, <2>6 DEF Moves
<1> QED
  BY <1>3, <1>4, <1>5, <1>6, <1>7, <1>8, <1>9, <1>10, <1>11, <1>12 DEF Delivery

-----------------------------------------------------------------------------
(***************************************************************************)
(* The types and their bounds, step by step.                                *)
(***************************************************************************)
Spared(q) == row'[q].presses = row[q].presses \/ row'[q].presses = 0

LEMMA SameSenders ==
    ASSUME Typed, OnTheirWay, UNCHANGED <<job, att, used>>,
           \A q \in Prompt : Spared(q)
    PROVE  OnTheirWay'
<1>1. job["runner"].at = "pressed" => row'[job["runner"].p].presses < MaxPresses
  <2> SUFFICES ASSUME job["runner"].at = "pressed"
               PROVE  row'[job["runner"].p].presses < MaxPresses
    OBVIOUS
  <2>1. job["runner"].p \in Prompt
    BY DEF OnTheirWay, Sender
  <2>2. row[job["runner"].p] \in Rows /\ row[job["runner"].p].presses < MaxPresses
    BY <2>1 DEF OnTheirWay, Typed
  <2>3. row[job["runner"].p].presses \in 0..MaxPresses
    BY <2>2 DEF Rows
  <2> QED BY <2>1, <2>2, <2>3, CountAssumption DEF Spared
<1> QED BY <1>1 DEF OnTheirWay, Takes

(* A sender's job changes, no attempt does.                                *)
LEMMA SenderMoves ==
    ASSUME Typed, OnTheirWay, NEW s \in Sender, NEW j \in Jobs,
           job' = [job EXCEPT ![s] = j], UNCHANGED <<att, used>>,
           j.at # "idle" => j.p \in Prompt,
           s = "user" => j.at \in {"idle", "marked", "declined"},
           j.at \in {"decided", "marked"} => job[s].at \in {"decided", "marked"} \/ MaySubmit,
           j.at = "pressed" => row'[j.p].presses < MaxPresses,
           s = "user" => \A q \in Prompt : Spared(q)
    PROVE  job' \in [Sender -> Jobs] /\ OnTheirWay'
<1>1. /\ job' \in [Sender -> Jobs]
      /\ \A t \in Sender : job'[t] = IF t = s THEN j ELSE job[t]
  BY JobChange
<1>2. "runner" \in Sender /\ "user" \in Sender /\ (s = "runner" \/ s = "user")
  BY DEF Sender
<1>3. \A t \in Sender : job'[t].at # "idle" => job'[t].p \in Prompt
  BY <1>1 DEF OnTheirWay
<1>4. job'["user"].at \in {"idle", "marked", "declined"}
  BY <1>1, <1>2 DEF OnTheirWay
<1>5. job'["runner"].at = "pressed" => row'[job'["runner"].p].presses < MaxPresses
  <2> SUFFICES ASSUME job'["runner"].at = "pressed"
               PROVE  row'[job'["runner"].p].presses < MaxPresses
    OBVIOUS
  <2>1. CASE s = "runner"
    BY <1>1, <1>2, <2>1
  <2>2. CASE s = "user"
    <3>1. job'["runner"] = job["runner"]
      BY <1>1, <1>2, <2>2
    <3>2. job["runner"].p \in Prompt
      BY <1>2, <3>1 DEF OnTheirWay
    <3>3. row[job["runner"].p] \in Rows /\ row[job["runner"].p].presses < MaxPresses
      BY <3>1, <3>2 DEF OnTheirWay, Typed
    <3>4. row[job["runner"].p].presses \in 0..MaxPresses
      BY <3>3 DEF Rows
    <3> QED BY <2>2, <3>1, <3>2, <3>3, <3>4, CountAssumption DEF Spared
  <2> QED BY <1>2, <2>1, <2>2
<1>6. used' + Takes("runner")' + Takes("user")' <= MaxAttempts
  <2>1. /\ used \in Nat /\ MaxAttempts \in Nat
        /\ used + Takes("runner") + Takes("user") <= MaxAttempts
        /\ Takes("runner") \in {0, 1} /\ Takes("user") \in {0, 1}
    BY CountAssumption DEF Typed, OnTheirWay, Takes
  <2>2. \/ Takes("runner")' = Takes("runner") /\ s = "user"
        \/ Takes("user")' = Takes("user") /\ s = "runner"
    BY <1>1, <1>2 DEF Takes
  <2>3. CASE j.at \in {"decided", "marked"}
    <3>1. CASE job[s].at \in {"decided", "marked"}
      <4>1. Takes("runner")' = Takes("runner") /\ Takes("user")' = Takes("user")
        BY <1>1, <1>2, <2>3, <3>1 DEF Takes
      <4> QED BY <2>1, <4>1
    <3>2. CASE MaySubmit
      <4>1. used + Takes("runner") + Takes("user") < MaxAttempts
        BY <3>2, SubmitBound
      <4>2. Takes("runner")' \in {0, 1} /\ Takes("user")' \in {0, 1}
        BY DEF Takes
      <4>3. CASE Takes(s) = 0
        BY <1>2, <2>1, <2>2, <4>1, <4>2, <4>3
      <4>4. CASE Takes(s) = 1
        <5>1. job[s].at \in {"decided", "marked"}
          BY <4>4 DEF Takes
        <5>2. Takes("runner")' = Takes("runner") /\ Takes("user")' = Takes("user")
          BY <1>1, <1>2, <2>3, <5>1 DEF Takes
        <5> QED BY <2>1, <5>2
      <4> QED BY <1>2, <2>1, <4>3, <4>4
    <3> QED BY <2>3, <3>1, <3>2
  <2>4. CASE j.at \notin {"decided", "marked"}
    <3>1. (s = "runner" => Takes("runner")' = 0) /\ (s = "user" => Takes("user")' = 0)
      BY <1>1, <1>2, <2>4 DEF Takes
    <3> QED BY <1>2, <2>1, <2>2, <3>1
  <2> QED BY <2>3, <2>4
<1>7. /\ \A a \in Attempt : a > used' => att'[a].pc = "none"
      /\ \A a \in Attempt : att'[a].pc # "none" => att'[a].p \in Prompt
      /\ \A a \in Attempt :
            att'[a].pc \in {"queued", "probing", "clear", "fill"} => att'[a].fills < MaxFills
  BY DEF OnTheirWay
<1> QED BY <1>1, <1>3, <1>4, <1>5, <1>6, <1>7 DEF OnTheirWay

LEMMA Jobs0 ==
    /\ NoJob \in Jobs /\ NoJob.at = "idle"
    /\ \A p \in Prompt, saw \in BOOLEAN,
          at \in {"idle", "decided", "marked", "declined", "pressed", "givingUp"} :
          [at |-> at, p |-> p, saw |-> saw] \in Jobs
  BY CountAssumption DEF NoJob, Jobs, Prompt

(* A step that leaves the senders and the attempts alone.                  *)
LEMMA TypedAside ==
    ASSUME Typed, OnTheirWay, UNCHANGED <<job, att, used>>,
           row' \in [Prompt -> Rows], \A q \in Prompt : Spared(q),
           mode' \in {"auto", "off"}, owner' = owner, lapsed' \in BOOLEAN, latch' = latch,
           box' \in Content, msgs' \in [Prompt -> 0..2],
           hookQ' \subseteq Prompt, unread' \subseteq Prompt, pressQ' \subseteq Prompt,
           turn' \in {"rest", "run"},
           scan' \in [at : {"idle", "read"}, lost : SUBSET Prompt, reclaim : SUBSET Prompt]
    PROVE  Typed' /\ OnTheirWay'
<1>1. OnTheirWay'
  BY SameSenders
<1> QED BY <1>1 DEF Typed

(* One row changes, to a row of the same or no presses.                    *)
LEMMA RowSpared ==
    ASSUME Typed, NEW p \in Prompt, NEW r \in Rows, row' = [row EXCEPT ![p] = r],
           r.presses = row[p].presses \/ r.presses = 0
    PROVE  row' \in [Prompt -> Rows] /\ \A q \in Prompt : Spared(q)
  BY RowChange DEF Spared

(* What the scanner, the hooks and time make of a row.                     *)
LEMMA RowFields ==
    ASSUME NEW r \in Rows
    PROVE  /\ \A st \in {"Pending", "Sent", "Failed"} :
                 [r EXCEPT !.status = st] \in Rows /\ [r EXCEPT !.status = st].presses = r.presses
           /\ [r EXCEPT !.status = "Pending", !.presses = 0] \in Rows
           /\ [r EXCEPT !.status = "Pending", !.presses = 0].presses = 0
           /\ [r EXCEPT !.echoed = TRUE] \in Rows /\ [r EXCEPT !.echoed = TRUE].presses = r.presses
           /\ [r EXCEPT !.injected = "settled"] \in Rows
           /\ [r EXCEPT !.injected = "settled"].presses = r.presses
           /\ r.age < 3 => /\ [r EXCEPT !.age = r.age + 1] \in Rows
                           /\ [r EXCEPT !.age = r.age + 1].presses = r.presses
           /\ r.presses < MaxPresses =>
                 [r EXCEPT !.presses = r.presses + 1, !.age = 0] \in Rows
<1>1. 0 \in 0..MaxPresses /\ 0 \in 0..3
  BY CountAssumption
<1>2. r.age < 3 => r.age + 1 \in 0..3
  BY DEF Rows
<1>3. r.presses < MaxPresses => r.presses + 1 \in 0..MaxPresses
  BY CountAssumption DEF Rows
<1>4. r.age < 3 => /\ [r EXCEPT !.age = r.age + 1] \in Rows
                   /\ [r EXCEPT !.age = r.age + 1].presses = r.presses
  BY <1>2 DEF Rows
<1>5. r.presses < MaxPresses => [r EXCEPT !.presses = r.presses + 1, !.age = 0] \in Rows
  BY <1>1, <1>3 DEF Rows
<1>6. /\ \A st \in {"Pending", "Sent", "Failed"} :
            [r EXCEPT !.status = st] \in Rows /\ [r EXCEPT !.status = st].presses = r.presses
      /\ [r EXCEPT !.status = "Pending", !.presses = 0] \in Rows
      /\ [r EXCEPT !.status = "Pending", !.presses = 0].presses = 0
  BY <1>1 DEF Rows
<1>7. /\ [r EXCEPT !.echoed = TRUE] \in Rows /\ [r EXCEPT !.echoed = TRUE].presses = r.presses
      /\ [r EXCEPT !.injected = "settled"] \in Rows
      /\ [r EXCEPT !.injected = "settled"].presses = r.presses
  BY DEF Rows
<1> QED BY <1>4, <1>5, <1>6, <1>7

LEMMA TypedOthers ==
    ASSUME Typed, OnTheirWay,
           \/ Lapse \/ TurnEnds \/ UserEdits \/ ReArm \/ ScanJudges \/ ScanReads
           \/ \E p \in Prompt : Verdict(p) \/ Press(p) \/ Hook(p) \/ Ages(p) \/ InjectionSettles(p)
    PROVE  Typed' /\ OnTheirWay'
<1>1. Empty \in Content /\ Draft \in Content
  BY CountAssumption DEF Empty, Draft, Content
<1>2. /\ \A q \in Prompt : row[q] \in Rows
      /\ scan.lost \in SUBSET Prompt /\ scan.reclaim \in SUBSET Prompt
      /\ scan.at \in {"idle", "read"}
  BY DEF Typed
<1>3. row' = row => row' \in [Prompt -> Rows] /\ \A q \in Prompt : Spared(q)
  BY DEF Typed, Spared
<1>4. CASE Lapse
  BY <1>3, <1>4, TypedAside DEF Lapse, Typed, queueVars, claudeVars
<1>5. CASE TurnEnds
  BY <1>3, <1>5, TypedAside DEF TurnEnds, Typed, queueVars, gateVars, claudeVars
<1>6. CASE UserEdits
  <2>1. box' \in Content
    BY <1>1, <1>6 DEF UserEdits
  <2> QED BY <1>3, <1>6, <2>1, TypedAside DEF UserEdits, Typed, queueVars, gateVars, claudeVars
<1>7. CASE ReArm
  BY <1>3, <1>7, TypedAside DEF ReArm, Typed, gateVars, claudeVars
<1>8. CASE ScanJudges
  <2>1. scan' \in [at : {"idle", "read"}, lost : SUBSET Prompt, reclaim : SUBSET Prompt]
    BY <1>8 DEF ScanJudges
  <2> QED BY <1>3, <1>8, <2>1, TypedAside DEF ScanJudges, Typed, queueVars, gateVars, claudeVars
<1>9. CASE ScanReads
  <2>1. \A q \in Prompt : row'[q] \in Rows /\ Spared(q)
    BY <1>2, <1>9, RowFields DEF ScanReads, Spared
  <2>2. row' \in [Prompt -> Rows]
    BY <1>9, <2>1 DEF ScanReads
  <2>3. scan' \in [at : {"idle", "read"}, lost : SUBSET Prompt, reclaim : SUBSET Prompt]
    BY <1>9 DEF ScanReads, Typed
  <2> QED BY <1>9, <2>1, <2>2, <2>3, TypedAside DEF ScanReads, Typed, gateVars
<1>10. ASSUME NEW p \in Prompt, Verdict(p)
       PROVE  Typed' /\ OnTheirWay'
  <2>1. row' \in [Prompt -> Rows] /\ \A q \in Prompt : Spared(q)
    <3>1. CASE row' = row
      BY <1>3, <3>1
    <3>2. CASE row' = [row EXCEPT ![p].status = "Failed"]
      BY <1>2, <3>2, RowFields, RowSpared
    <3>3. CASE row' = [row EXCEPT ![p].status = "Pending", ![p].presses = 0]
      <4> DEFINE r == [row[p] EXCEPT !.status = "Pending", !.presses = 0]
      <4>1. r \in Rows /\ r.presses = 0
        BY <1>2, RowFields
      <4>2. row' = [row EXCEPT ![p] = r]
        BY <3>3 DEF Typed
      <4> HIDE DEF r
      <4> QED BY <4>1, <4>2, RowSpared
    <3> QED BY <1>10, <3>1, <3>2, <3>3 DEF Verdict, ApplyLost, ApplyReclaim, queueVars
  <2>2. scan' \in [at : {"idle", "read"}, lost : SUBSET Prompt, reclaim : SUBSET Prompt]
    <3>1. scan.lost \ {p} \in SUBSET Prompt /\ scan.reclaim \ {p} \in SUBSET Prompt
      BY <1>2
    <3>2. \/ scan' = [scan EXCEPT !.lost = scan.lost \ {p}]
          \/ scan' = [scan EXCEPT !.reclaim = scan.reclaim \ {p}]
      BY <1>10 DEF Verdict, ApplyLost, ApplyReclaim
    <3> QED BY <3>1, <3>2 DEF Typed
  <2>3. mode' \in {"auto", "off"}
    BY <1>10 DEF Verdict, ApplyLost, ApplyReclaim, queueVars, Typed
  <2>4. UNCHANGED <<job, gateVars, att, used, latch, box, claudeVars, turn, pressQ>>
    BY <1>10 DEF Verdict, ApplyLost, ApplyReclaim
  <2> QED BY <2>1, <2>2, <2>3, <2>4, TypedAside DEF Typed, gateVars, claudeVars
<1>11. ASSUME NEW p \in Prompt, Press(p)
       PROVE  Typed' /\ OnTheirWay'
  <2>1. /\ row' = row /\ mode' = mode /\ latch' = latch /\ pressQ' \subseteq Prompt
        /\ UNCHANGED <<job, att, used, turn, scan, owner, lapsed>>
    BY <1>11 DEF Press, queueVars, gateVars, Typed
  <2>2. /\ box' \in Content /\ msgs' \in [Prompt -> 0..2]
        /\ hookQ' \subseteq Prompt /\ unread' \subseteq Prompt
    <3>1. latch' \in BOOLEAN
      BY <2>1 DEF Typed
    <3>2. CASE Enter(p)
      BY <3>1, <3>2, EnterIs DEF Worlds
    <3>3. CASE UNCHANGED <<box, claudeVars>>
      BY <3>3 DEF Typed, claudeVars
    <3> QED BY <1>11, <3>2, <3>3 DEF Press
  <2> QED BY <1>3, <2>1, <2>2, TypedAside DEF Typed
<1>12. ASSUME NEW p \in Prompt, Hook(p)
       PROVE  Typed' /\ OnTheirWay'
  <2>1. row' \in [Prompt -> Rows] /\ \A q \in Prompt : Spared(q)
    <3>1. CASE row' = row
      BY <1>3, <3>1
    <3>2. CASE row' = [row EXCEPT ![p].echoed = TRUE]
      BY <1>2, <3>2, RowFields, RowSpared
    <3> QED BY <1>12, <3>1, <3>2 DEF Hook, HookArrives, HookLost, queueVars
  <2>2. /\ mode' = mode /\ hookQ' \subseteq Prompt /\ turn' \in {"rest", "run"}
        /\ UNCHANGED <<job, gateVars, att, used, latch, box, msgs, unread, pressQ, scan>>
    BY <1>12 DEF Hook, HookArrives, HookLost, queueVars, Typed
  <2> QED BY <2>1, <2>2, TypedAside DEF Typed, gateVars
<1>13. ASSUME NEW p \in Prompt, Ages(p) \/ InjectionSettles(p)
       PROVE  Typed' /\ OnTheirWay'
  <2>1. row' \in [Prompt -> Rows] /\ \A q \in Prompt : Spared(q)
    <3>1. CASE Ages(p)
      <4>1. row[p].age < 3 /\ row' = [row EXCEPT ![p] = [row[p] EXCEPT !.age = row[p].age + 1]]
        BY <3>1 DEF Ages
      <4> QED BY <1>2, <4>1, RowFields, RowSpared
    <3>2. CASE InjectionSettles(p)
      <4>1. row' = [row EXCEPT ![p] = [row[p] EXCEPT !.injected = "settled"]]
        BY <3>2 DEF InjectionSettles
      <4> QED BY <1>2, <4>1, RowFields, RowSpared
    <3> QED BY <1>13, <3>1, <3>2
  <2>2. UNCHANGED <<mode, job, gateVars, att, used, latch, box, claudeVars, turn, pressQ, scan>>
    BY <1>13 DEF Ages, InjectionSettles
  <2> QED BY <2>1, <2>2, TypedAside DEF Typed, gateVars, claudeVars
<1> QED BY <1>4, <1>5, <1>6, <1>7, <1>8, <1>9, <1>10, <1>11, <1>12, <1>13

(* A step of a sender that does not reach the gate.                        *)
LEMMA TypedSender ==
    ASSUME Typed, OnTheirWay,
           job' \in [Sender -> Jobs], OnTheirWay', row' \in [Prompt -> Rows],
           mode' \in {"auto", "off"}, owner' \in 0..MaxAttempts, lapsed' \in BOOLEAN,
           unread' \subseteq Prompt, pressQ' \subseteq Prompt,
           UNCHANGED <<att, used, latch, box, msgs, hookQ, turn, scan>>
    PROVE  Typed' /\ OnTheirWay'
  BY DEF Typed

LEMMA TypedSubmit ==
    ASSUME Typed, OnTheirWay, NEW s \in Sender, Submit(s)
    PROVE  Typed' /\ OnTheirWay'
<1>1. /\ job[s] \in Jobs /\ job[s].at = "marked" /\ job[s].p \in Prompt /\ row' = row
      /\ job["runner"].at = "pressed" => s # "runner"
  BY DEF Submit, OnTheirWay, Typed, queueVars
<1>2. \A q \in Prompt : Spared(q)
  BY <1>1 DEF Spared
<1>3. CASE GateOpen
  <2> DEFINE j == [job[s] EXCEPT !.at = "declined"]
  <2>1. /\ job' = [job EXCEPT ![s] = j] /\ UNCHANGED <<gateVars, att, used>>
        /\ UNCHANGED <<queueVars, latch, box, claudeVars, turn, pressQ, scan>>
    BY <1>3 DEF Submit
  <2>2. j \in Jobs /\ j.at = "declined" /\ j.p = job[s].p
    BY <1>1, JobIs
  <2> HIDE DEF j
  <2>3. job' \in [Sender -> Jobs] /\ OnTheirWay'
    BY <1>1, <1>2, <2>1, <2>2, SenderMoves
  <2> QED BY <2>1, <2>3, TypedSender DEF Typed, queueVars, gateVars, claudeVars
<1>4. CASE ~GateOpen
  <2> DEFINE x == [pc |-> "queued", p |-> job[s].p, fills |-> 0, draft |-> Empty]
  <2>1. /\ used' = used + 1 /\ owner' = used' /\ lapsed' = FALSE
        /\ att' = [att EXCEPT ![used'] = x] /\ job' = [job EXCEPT ![s] = NoJob]
        /\ UNCHANGED <<queueVars, latch, box, claudeVars, turn, pressQ, scan>>
    BY <1>4 DEF Submit
  <2>2. x \in Atts /\ x.pc = "queued" /\ x.p \in Prompt /\ x.fills < MaxFills
    BY <1>1, CountAssumption DEF Atts, Content, Empty, Prompt
  <2> HIDE DEF x
  <2>3. /\ job' \in [Sender -> Jobs] /\ job'[s].at = "idle"
        /\ \A t \in Sender : job'[t] = IF t = s THEN NoJob ELSE job[t]
    BY <2>1, Jobs0, JobChange
  <2>4. "runner" \in Sender /\ "user" \in Sender /\ (s = "runner" \/ s = "user")
    BY DEF Sender
  <2>5. /\ used \in Nat /\ MaxAttempts \in Nat
        /\ used + Takes("runner") + Takes("user") <= MaxAttempts
        /\ Takes("runner") \in {0, 1} /\ Takes("user") \in {0, 1} /\ Takes(s) = 1
    BY <1>1, CountAssumption DEF Typed, OnTheirWay, Takes
  <2>6. /\ s = "runner" => Takes("runner")' = 0 /\ Takes("user")' = Takes("user")
        /\ s = "user" => Takes("user")' = 0 /\ Takes("runner")' = Takes("runner")
    BY <2>3, <2>4 DEF Takes
  <2>7. used' + Takes("runner")' + Takes("user")' <= MaxAttempts /\ used' \in 1..MaxAttempts
    BY <2>1, <2>4, <2>5, <2>6
  <2>8. /\ att' \in [Attempt -> Atts]
        /\ \A b \in Attempt : att'[b] = IF b = used' THEN x ELSE att[b]
    BY <2>1, <2>2, <2>7, AttChange DEF Attempt
  <2>9. OnTheirWay'
    <3>1. \A t \in Sender : job'[t].at # "idle" => job'[t].p \in Prompt
      BY <2>3 DEF OnTheirWay
    <3>2. job'["user"].at \in {"idle", "marked", "declined"}
      BY <2>3, <2>4, Jobs0 DEF OnTheirWay
    <3>3. job'["runner"].at = "pressed" => row'[job'["runner"].p].presses < MaxPresses
      BY <1>1, <2>3, <2>4, Jobs0 DEF OnTheirWay
    <3>4. \A a \in Attempt : a > used' => att'[a].pc = "none"
      BY <2>1, <2>5, <2>7, <2>8 DEF OnTheirWay, Attempt
    <3>5. \A a \in Attempt : att'[a].pc # "none" => att'[a].p \in Prompt
      BY <2>2, <2>8 DEF OnTheirWay
    <3>6. \A a \in Attempt :
             att'[a].pc \in {"queued", "probing", "clear", "fill"} => att'[a].fills < MaxFills
      BY <2>2, <2>8 DEF OnTheirWay
    <3> QED BY <2>7, <3>1, <3>2, <3>3, <3>4, <3>5, <3>6 DEF OnTheirWay
  <2>10. used' \in 0..MaxAttempts /\ owner' \in 0..MaxAttempts
    BY <2>1, <2>5, <2>7
  <2> QED BY <2>1, <2>3, <2>8, <2>9, <2>10 DEF Typed, queueVars, claudeVars
<1> QED BY <1>3, <1>4

LEMMA TypedSenders ==
    ASSUME Typed, OnTheirWay,
           \/ Runner \/ Sweep \/ UserSubmits \/ \E p \in Prompt : SendNow(p)
    PROVE  Typed' /\ OnTheirWay'
<1>1. /\ "runner" \in Sender /\ "user" \in Sender
      /\ \A s \in Sender : job[s] \in Jobs /\ (job[s].at # "idle" => job[s].p \in Prompt)
      /\ \A q \in Prompt : row[q] \in Rows
      /\ row \in [Prompt -> Rows]
  BY DEF Sender, Typed, OnTheirWay
<1>2. row' = row => row' \in [Prompt -> Rows] /\ \A q \in Prompt : Spared(q)
  BY <1>1 DEF Spared
<1>3. ASSUME NEW p \in Prompt, DecideSend(p) \/ SweepPresses(p) \/ SweepGivesUp(p)
      PROVE  Typed' /\ OnTheirWay'
  <2>1. PICK j \in Jobs :
           /\ job' = [job EXCEPT !["runner"] = j]
           /\ j.p = p /\ j.at \in {"decided", "pressed", "givingUp"}
           /\ j.at = "decided" => MaySubmit
           /\ j.at = "pressed" => row[p].presses < MaxPresses
    <3> DEFINE x == [at |-> "decided", p |-> p, saw |-> FALSE]
               y == [at |-> "pressed", p |-> p, saw |-> p \in unread]
               z == [at |-> "givingUp", p |-> p, saw |-> FALSE]
    <3>1. /\ x \in Jobs /\ x.p = p /\ x.at = "decided"
          /\ y \in Jobs /\ y.p = p /\ y.at = "pressed"
          /\ z \in Jobs /\ z.p = p /\ z.at = "givingUp"
      <4>1. p \in 0..N
        BY CountAssumption DEF Prompt
      <4> QED BY <4>1 DEF Jobs
    <3>2. DecideSend(p) => MaySubmit /\ job' = [job EXCEPT !["runner"] = x]
      BY DEF DecideSend
    <3>3. SweepPresses(p) => row[p].presses < MaxPresses /\ job' = [job EXCEPT !["runner"] = y]
      BY DEF SweepPresses
    <3>4. SweepGivesUp(p) => job' = [job EXCEPT !["runner"] = z]
      BY DEF SweepGivesUp
    <3> HIDE DEF x, y, z
    <3> QED BY <1>3, <3>1, <3>2, <3>3, <3>4
  <2>2. /\ row' = row /\ mode' = mode /\ pressQ' \subseteq Prompt
        /\ UNCHANGED <<gateVars, att, used, latch, box, claudeVars, turn, scan>>
    BY <1>3 DEF DecideSend, SweepPresses, SweepGivesUp, queueVars, Typed
  <2>3. j.at = "pressed" => row'[j.p].presses < MaxPresses
    BY <2>1, <2>2
  <2>5. job' \in [Sender -> Jobs] /\ OnTheirWay'
    BY <1>1, <1>2, <2>1, <2>2, <2>3, SenderMoves
  <2> QED BY <1>2, <2>2, <2>5, TypedSender DEF Typed, gateVars, claudeVars
<1>4. CASE RunnerMarks
  <2> DEFINE p == job["runner"].p  j == [job["runner"] EXCEPT !.at = "marked"]
  <2>1. job["runner"].at = "decided" /\ p \in Prompt
    BY <1>1, <1>4 DEF RunnerMarks
  <2>2. /\ mode' = mode /\ unread' \subseteq Prompt
        /\ UNCHANGED <<gateVars, att, used, latch, box, msgs, hookQ, turn, pressQ, scan>>
    BY <1>4 DEF RunnerMarks, Typed
  <2>3. CASE row[p].status = "Pending"
    <3>1. row' = [row EXCEPT ![p] = MarkedSent(row[p])] /\ job' = [job EXCEPT !["runner"] = j]
      BY <1>4, <2>3 DEF RunnerMarks
    <3>2. row' \in [Prompt -> Rows]
      BY <1>1, <2>1, <3>1, RowIs
    <3>3. j \in Jobs /\ j.at = "marked" /\ j.p = p
      BY <1>1, JobIs
    <3> HIDE DEF j, p
    <3>4. job' \in [Sender -> Jobs] /\ OnTheirWay'
      BY <1>1, <2>1, <2>2, <3>1, <3>3, SenderMoves
    <3> QED BY <2>2, <3>2, <3>4, TypedSender DEF Typed, gateVars
  <2>4. CASE row[p].status # "Pending"
    <3>1. row' = row /\ job' = [job EXCEPT !["runner"] = NoJob]
      BY <1>4, <2>4 DEF RunnerMarks
    <3>2. job' \in [Sender -> Jobs] /\ OnTheirWay'
      BY <1>1, <1>2, <2>2, <3>1, Jobs0, SenderMoves
    <3> QED BY <1>1, <2>2, <3>1, <3>2, TypedSender DEF Typed, gateVars
  <2> QED BY <2>3, <2>4
<1>5. ASSUME NEW p \in Prompt, SendNow(p)
      PROVE  Typed' /\ OnTheirWay'
  <2>1. /\ MaySubmit /\ row' = [row EXCEPT ![p] = MarkedSent(row[p])] /\ mode' = mode
        /\ job' = [job EXCEPT !["user"] = [at |-> "marked", p |-> p, saw |-> FALSE]]
        /\ unread' \subseteq Prompt
        /\ UNCHANGED <<gateVars, att, used, latch, box, msgs, hookQ, turn, pressQ, scan>>
    BY <1>5 DEF SendNow, Typed
  <2>2. row' \in [Prompt -> Rows] /\ \A q \in Prompt : Spared(q)
    BY <1>1, <2>1, RowIs, RowSpared
  <2> DEFINE j == [at |-> "marked", p |-> p, saw |-> FALSE]
  <2>3. j \in Jobs /\ j.at = "marked" /\ j.p = p /\ job' = [job EXCEPT !["user"] = j]
    BY <2>1, Jobs0
  <2> HIDE DEF j
  <2>4. job' \in [Sender -> Jobs] /\ OnTheirWay'
    BY <1>1, <2>1, <2>2, <2>3, SenderMoves
  <2> QED BY <2>1, <2>2, <2>4, TypedSender DEF Typed, gateVars
<1>6. ASSUME NEW s \in Sender, Refuse(s)
      PROVE  Typed' /\ OnTheirWay'
  <2> DEFINE j == [job[s] EXCEPT !.at = "declined"]
  <2>1. /\ job[s].at = "marked" /\ job' = [job EXCEPT ![s] = j] /\ row' = row /\ mode' = mode
        /\ owner' = 0 /\ lapsed' = FALSE
        /\ UNCHANGED <<att, used, latch, box, claudeVars, turn, pressQ, scan>>
    BY <1>6 DEF Refuse, queueVars
  <2>2. j \in Jobs /\ j.at = "declined" /\ j.p = job[s].p
    BY <1>1, JobIs
  <2> HIDE DEF j
  <2>3. job' \in [Sender -> Jobs] /\ OnTheirWay'
    BY <1>1, <1>2, <2>1, <2>2, SenderMoves
  <2>4. /\ owner' \in 0..MaxAttempts /\ mode' \in {"auto", "off"}
        /\ unread' \subseteq Prompt /\ pressQ' \subseteq Prompt
        /\ UNCHANGED <<att, used, latch, box, msgs, hookQ, turn, scan>>
    BY <2>1, CountAssumption DEF Typed, claudeVars
  <2>5. lapsed' \in BOOLEAN
    BY <2>1, Zenon
  <2>6. row' \in [Prompt -> Rows]
    BY <1>2, <2>1
  <2> QED BY <2>3, <2>4, <2>5, <2>6, TypedSender
<1>7. ASSUME NEW s \in Sender, Decline(s)
      PROVE  Typed' /\ OnTheirWay'
  <2>1. /\ job[s].at = "declined" /\ job' = [job EXCEPT ![s] = NoJob] /\ mode' = mode
        /\ row' = [row EXCEPT ![job[s].p] = RolledBack(row[job[s].p])]
        /\ UNCHANGED <<gateVars, att, used, latch, box, claudeVars, turn, pressQ, scan>>
    BY <1>7 DEF Decline
  <2>2. row' \in [Prompt -> Rows] /\ \A q \in Prompt : Spared(q)
    <3> DEFINE p == job[s].p  r == RolledBack(row[p])
    <3>1. p \in Prompt /\ r \in Rows /\ r.presses = row[p].presses /\ row' = [row EXCEPT ![p] = r]
      BY <1>1, <2>1, RowIs
    <3> HIDE DEF p, r
    <3> QED BY <3>1, RowSpared
  <2>3. job' \in [Sender -> Jobs] /\ OnTheirWay'
    BY <1>1, <2>1, <2>2, Jobs0, SenderMoves
  <2> QED BY <2>1, <2>2, <2>3, TypedSender DEF Typed, gateVars, claudeVars
<1>8. CASE SweepCounts \/ GiveUp
  <2> DEFINE p == job["runner"].p
  <2>1. p \in Prompt /\ (SweepCounts => row[p].presses < MaxPresses)
    BY <1>1, <1>8 DEF SweepCounts, GiveUp, OnTheirWay
  <2>2. row' \in [Prompt -> Rows]
    <3>1. CASE row' = row
      BY <1>1, <3>1
    <3>2. CASE SweepCounts /\ row' = [row EXCEPT ![p].presses = @ + 1, ![p].age = 0]
      <4> DEFINE r == [row[p] EXCEPT !.presses = row[p].presses + 1, !.age = 0]
      <4>1. r \in Rows
        BY <1>1, <2>1, <3>2, RowFields
      <4>2. row' = [row EXCEPT ![p] = r]
        BY <1>1, <2>1, <3>2
      <4> HIDE DEF r, p
      <4> QED BY <1>1, <2>1, <4>1, <4>2
    <3>3. CASE row' = [row EXCEPT ![p].status = "Failed"]
      BY <1>1, <2>1, <3>3, RowFields
    <3> QED BY <1>8, <3>1, <3>2, <3>3 DEF SweepCounts, GiveUp
  <2>3. /\ job' = [job EXCEPT !["runner"] = NoJob] /\ mode' \in {"auto", "off"}
        /\ unread' \subseteq Prompt
        /\ UNCHANGED <<gateVars, att, used, latch, box, msgs, hookQ, turn, pressQ, scan>>
    BY <1>8 DEF SweepCounts, GiveUp, Typed, claudeVars
  <2>4. job' \in [Sender -> Jobs] /\ OnTheirWay'
    BY <1>1, <2>3, Jobs0, SenderMoves
  <2> QED BY <2>2, <2>3, <2>4, TypedSender DEF Typed, gateVars
<1> QED
  BY <1>1, <1>3, <1>4, <1>5, <1>6, <1>7, <1>8, TypedSubmit DEF Runner, Sweep, UserSubmits

LEMMA TypedDelivery ==
    ASSUME Typed, OnTheirWay, NEW a \in Attempt, Moves(a)
    PROVE  Typed' /\ OnTheirWay'
<1>1. /\ att' \in [Attempt -> Atts] /\ row' \in [Prompt -> Rows]
      /\ owner' \in 0..MaxAttempts /\ lapsed' \in BOOLEAN
  <2>1. att' \in [Attempt -> Atts] /\ row' \in [Prompt -> Rows]
    BY DEF Moves, AttMoves, RowMoves
  <2>2. owner' \in 0..MaxAttempts
    BY CountAssumption DEF Moves, GateMoves, Typed
  <2>3. lapsed' \in BOOLEAN
    BY Zenon DEF Moves, GateMoves
  <2> QED BY <2>1, <2>2, <2>3
<1>2. Typed'
  BY <1>1 DEF Moves, Worlds, Typed
<1>3. att[a].p \in Prompt /\ att[a].pc # "none"
  BY PromptOf DEF Moves, Live, Typing
<1>4. job["runner"].at = "pressed" => row'[job["runner"].p].presses < MaxPresses
  BY DEF Moves, RowMoves, OnTheirWay, Sender
<1>5. /\ \A b \in Attempt : b > used => att'[b].pc = "none"
      /\ \A b \in Attempt : att'[b].pc # "none" => att'[b].p \in Prompt
      /\ \A b \in Attempt :
            att'[b].pc \in {"queued", "probing", "clear", "fill"} => att'[b].fills < MaxFills
  BY <1>3 DEF Moves, AttMoves, OnTheirWay
<1> QED BY <1>2, <1>4, <1>5 DEF Moves, OnTheirWay, Takes

LEMMA TypedVanish ==
    ASSUME Typed, OnTheirWay, NEW a \in Attempt, Vanish(a)
    PROVE  Typed' /\ OnTheirWay'
<1>1. /\ att[a].pc # "none" /\ att[a].p \in Prompt /\ att' = [att EXCEPT ![a].pc = "done"]
      /\ latch' \in BOOLEAN
      /\ UNCHANGED <<row, mode, job, owner, lapsed, used, box, msgs, hookQ, unread,
                     turn, pressQ, scan>>
  BY DEF Vanish, OnTheirWay, queueVars, gateVars, claudeVars
<1>2. AttMoves(a)
  BY <1>1, PcMoves
<1>3. Typed'
  BY <1>1, <1>2 DEF Typed, AttMoves
<1>4. /\ \A b \in Attempt : b > used => att'[b].pc = "none"
      /\ \A b \in Attempt : att'[b].pc # "none" => att'[b].p \in Prompt
      /\ \A b \in Attempt :
            att'[b].pc \in {"queued", "probing", "clear", "fill"} => att'[b].fills < MaxFills
  BY <1>1, <1>2 DEF AttMoves, OnTheirWay
<1> QED BY <1>1, <1>3, <1>4 DEF OnTheirWay, Takes

LEMMA TypedNext == Typed /\ OnTheirWay /\ [Next]_vars => Typed' /\ OnTheirWay'
<1> SUFFICES ASSUME Typed, OnTheirWay, [Next]_vars PROVE Typed' /\ OnTheirWay'
  OBVIOUS
<1>1. CASE UNCHANGED vars
  BY <1>1 DEF vars, Typed, OnTheirWay, Takes
<1>2. ASSUME NEW a \in Attempt, Delivery(a) \/ Vanish(a)
      PROVE  Typed' /\ OnTheirWay'
  BY <1>2, DeliveryIs, TypedDelivery, TypedVanish
<1> QED BY <1>1, <1>2, TypedSenders, TypedOthers DEF Next, User

(* The types hold whatever starves, vanishes or is sent again.             *)
THEOREM TypeCorrect == Spec => []TypeOK
<1>1. Typed /\ OnTheirWay => TypeOK
  BY DEF Typed, TypeOK, Rows, Jobs, Atts
<1> QED BY <1>1, TypedInit, TypedNext, PTL DEF Spec

-----------------------------------------------------------------------------
(***************************************************************************)
(* When every thread keeps its deadline, the attempt that lives owns an open *)
(* gate: there is one, nobody else was let in, and none of its checks of the *)
(* claim turns it away.                                                     *)
(***************************************************************************)
OwnLive == \A a \in Attempt : att[a].pc \in Live => owner = a /\ ~lapsed

LEMMA OwnLiveNext ==
    ASSUME ~Starved, Typed, OnTheirWay, OwnLive, [Next]_vars
    PROVE  OwnLive'
<1>1. \A a \in Attempt : a # 0
  BY DEF Attempt
<1>2. "done" \notin Live /\ "none" \notin Live
  BY DEF Live, Typing
<1>3. ~GateOpen => \A a \in Attempt : att[a].pc \notin Live
  BY <1>1 DEF GateOpen, OwnLive
<1>4. CASE UNCHANGED <<att, gateVars>>
  BY <1>4 DEF OwnLive, gateVars
<1>5. ASSUME NEW a \in Attempt, Delivery(a)
      PROVE  OwnLive'
  <2>1. Moves(a)
    BY <1>5, DeliveryIs
  <2>2. owner = a /\ ~lapsed /\ \A b \in Attempt : b # a => att[b].pc \notin Live
    BY <2>1 DEF Moves, OwnLive
  <2>3. \A b \in Attempt : b # a => att'[b].pc \notin Live
    BY <2>1, <2>2 DEF Moves, AttMoves
  <2>4. att'[a].pc \in Live => owner' = a /\ ~lapsed'
    BY <1>2, <2>1, <2>2 DEF Moves, GateMoves
  <2> QED BY <2>3, <2>4 DEF OwnLive
<1>6. ASSUME NEW a \in Attempt, Vanish(a)
      PROVE  OwnLive'
  <2>1. att' = [att EXCEPT ![a].pc = "done"] /\ owner' = owner /\ lapsed' = lapsed
    BY <1>6 DEF Vanish, gateVars
  <2>2. AttMoves(a) /\ att'[a].pc = "done"
    BY <2>1, PcMoves
  <2> QED BY <1>2, <2>1, <2>2 DEF AttMoves, OwnLive
<1>7. CASE Lapse
  <2>1. att[owner].pc = "done" /\ att' = att
    BY <1>7 DEF Lapse
  <2>2. \A a \in Attempt : att[a].pc \notin Live
    BY <1>2, <2>1 DEF OwnLive
  <2> QED BY <2>1, <2>2 DEF OwnLive
<1>8. ASSUME NEW s \in Sender, Submit(s) \/ Refuse(s)
      PROVE  OwnLive'
  <2>1. CASE UNCHANGED <<att, gateVars>>
    BY <1>4, <2>1
  <2>2. CASE ~GateOpen /\ Refuse(s)
    <3>1. att' = att
      BY <2>2 DEF Refuse
    <3> QED BY <1>3, <2>2, <3>1 DEF OwnLive
  <2>3. CASE ~GateOpen /\ Submit(s)
    <3> DEFINE x == [pc |-> "queued", p |-> job[s].p, fills |-> 0, draft |-> Empty]
    <3>1. owner' = used' /\ lapsed' = FALSE /\ att' = [att EXCEPT ![used'] = x]
      BY <2>3 DEF Submit
    <3> HIDE DEF x
    <3>2. \A b \in Attempt : b # used' => att'[b].pc \notin Live
      BY <1>3, <2>3, <3>1 DEF Typed
    <3> QED BY <3>1, <3>2 DEF OwnLive
  <2> QED BY <1>8, <2>1, <2>2, <2>3 DEF Submit, Refuse
<1>9. CASE RunnerMarks \/ SweepCounts \/ GiveUp \/ Decline("runner") \/ Decline("user")
           \/ UserEdits \/ ReArm \/ ScanReads \/ ScanJudges \/ TurnEnds \/ UNCHANGED vars
  BY <1>4, <1>9 DEF RunnerMarks, SweepCounts, GiveUp, Decline, UserEdits, ReArm, ScanReads,
     ScanJudges, TurnEnds, vars, gateVars
<1>10. ASSUME NEW p \in Prompt,
              \/ DecideSend(p) \/ SendNow(p) \/ SweepPresses(p) \/ SweepGivesUp(p)
              \/ Verdict(p) \/ Press(p) \/ Hook(p) \/ Ages(p) \/ InjectionSettles(p)
       PROVE  OwnLive'
  BY <1>4, <1>10 DEF DecideSend, SendNow, SweepPresses, SweepGivesUp, Verdict, ApplyLost,
     ApplyReclaim, Press, Hook, HookArrives, HookLost, Ages, InjectionSettles
<1>11. "runner" \in Sender /\ "user" \in Sender
  BY DEF Sender
<1> QED
  BY <1>5, <1>6, <1>7, <1>8, <1>9, <1>10, <1>11 DEF Next, Runner, Sweep, User, UserSubmits

LEMMA OwnLiveInit == Init => OwnLive
  BY DEF Init, OwnLive, Live, Typing

(* Where no live delivery outlasts its gate, one delivery types at a time.  *)
THEOREM BoxStaysExclusive ==
    ASSUME ~Starved
    PROVE  Spec => []BoxExclusive
<1> DEFINE IInv == Typed /\ OnTheirWay /\ OwnLive
<1>1. Init => IInv
  BY TypedInit, OwnLiveInit
<1>2. IInv /\ [Next]_vars => IInv'
  BY TypedNext, OwnLiveNext
<1>3. IInv => BoxExclusive
  <2> SUFFICES ASSUME OwnLive PROVE BoxExclusive
    OBVIOUS
  <2> DEFINE typing == {a \in Attempt : att[a].pc \in Typing}
  <2>1. \A a \in typing : a = owner
    BY DEF OwnLive, Live
  <2>2. typing = {} \/ typing = {owner}
    BY <2>1
  <2>3. Cardinality({}) = 0 /\ Cardinality({owner}) = 1
    BY FS_EmptySet, FS_Singleton
  <2> HIDE DEF typing
  <2>4. Cardinality(typing) <= 1
    BY <2>2, <2>3
  <2> QED BY <2>4 DEF BoxExclusive, typing
<1> QED BY <1>1, <1>2, <1>3, PTL DEF Spec

-----------------------------------------------------------------------------
(***************************************************************************)
(* A row that is Sent, untyped and unseen has somebody who will bring it on: *)
(* the sender that marked it, or the delivery it was marked for.            *)
(***************************************************************************)
Asks(p) == \E s \in Sender : job[s].p = p /\ job[s].at \in {"marked", "declined"}
Brings(p) == \E a \in Attempt : att[a].p = p /\ att[a].pc \in answering
Answered == \A p \in Prompt : OpenRow(row[p]) => Asks(p) \/ Brings(p)

(* Nobody who answers is gone, and no row is opened.                       *)
LEMMA StaysAnswered ==
    ASSUME Answered, \A p \in Prompt : OpenRow(row'[p]) => OpenRow(row[p]),
           \A p \in Prompt : Asks(p) => Asks(p)', att' = att
    PROVE  Answered'
  BY DEF Answered, Brings

(* A row that changed to one that is not open, or was open before.         *)
LEMMA NotOpened ==
    ASSUME Typed, NEW p \in Prompt, NEW r, row' = [row EXCEPT ![p] = r],
           OpenRow(r) => OpenRow(row[p])
    PROVE  \A q \in Prompt : OpenRow(row'[q]) => OpenRow(row[q])
  BY DEF Typed

LEMMA OpenFields ==
    ASSUME NEW r \in Rows
    PROVE  /\ ~OpenRow([r EXCEPT !.status = "Failed"])
           /\ ~OpenRow([r EXCEPT !.status = "Pending", !.presses = 0])
           /\ ~OpenRow([r EXCEPT !.echoed = TRUE])
           /\ ~OpenRow([r EXCEPT !.injected = "settled"])
           /\ \A n : OpenRow([r EXCEPT !.age = n]) => OpenRow(r)
           /\ \A n : OpenRow([r EXCEPT !.presses = n, !.age = 0]) => OpenRow(r)
           /\ ~OpenRow(RolledBack(r))
  BY RowIs DEF OpenRow, Rows

LEMMA AnsweredNext ==
    ASSUME ~Starved, ~MayVanish, Typed, OnTheirWay, OwnLive, Answered, [Next]_vars
    PROVE  Answered'
<1>1. /\ "runner" \in Sender /\ "user" \in Sender
      /\ \A s \in Sender : job[s] \in Jobs /\ (job[s].at # "idle" => job[s].p \in Prompt)
      /\ \A q \in Prompt : row[q] \in Rows
  BY DEF Sender, Typed, OnTheirWay
<1>2. ASSUME job' = job, att' = att, \A p \in Prompt : OpenRow(row'[p]) => OpenRow(row[p])
      PROVE  Answered'
  BY <1>2, StaysAnswered DEF Asks
<1>3. ASSUME NEW s \in Sender, NEW j, job' = [job EXCEPT ![s] = j], att' = att,
             \A p \in Prompt : OpenRow(row'[p]) => OpenRow(row[p]),
             job[s].at \notin {"marked", "declined"}
      PROVE  Answered'
  <2>1. \A p \in Prompt : Asks(p) => Asks(p)'
    BY <1>3 DEF Asks, Typed
  <2> QED BY <1>3, <2>1, StaysAnswered
<1>4. CASE UNCHANGED vars
  BY <1>2, <1>4 DEF vars
<1>5. CASE Lapse \/ TurnEnds \/ UserEdits \/ ReArm \/ ScanJudges
  BY <1>2, <1>5 DEF Lapse, TurnEnds, UserEdits, ReArm, ScanJudges, queueVars
<1>6. CASE ScanReads
  <2>1. \A p \in Prompt : OpenRow(row'[p]) => OpenRow(row[p])
    BY <1>1, <1>6, OpenFields DEF ScanReads
  <2> QED BY <1>2, <1>6, <2>1 DEF ScanReads
<1>7. ASSUME NEW p \in Prompt,
             Verdict(p) \/ Press(p) \/ Hook(p) \/ Ages(p) \/ InjectionSettles(p)
      PROVE  Answered'
  <2>1. job' = job /\ att' = att
    BY <1>7 DEF Verdict, ApplyLost, ApplyReclaim, Press, Hook, HookArrives, HookLost, Ages,
       InjectionSettles
  <2>2. \/ row' = row
        \/ row' = [row EXCEPT ![p].status = "Failed"]
        \/ row' = [row EXCEPT ![p].status = "Pending", ![p].presses = 0]
        \/ row' = [row EXCEPT ![p].echoed = TRUE]
        \/ row' = [row EXCEPT ![p].injected = "settled"]
        \/ row' = [row EXCEPT ![p].age = row[p].age + 1]
    BY <1>7 DEF Verdict, ApplyLost, ApplyReclaim, Press, Hook, HookArrives, HookLost, Ages,
       InjectionSettles, queueVars
  <2>3. row' = [row EXCEPT ![p].status = "Pending", ![p].presses = 0] =>
        row' = [row EXCEPT ![p] = [row[p] EXCEPT !.status = "Pending", !.presses = 0]]
    BY DEF Typed
  <2>4. PICK r : row' = [row EXCEPT ![p] = r] /\ (OpenRow(r) => OpenRow(row[p]))
    <3> DEFINE a == [row[p] EXCEPT !.status = "Failed"]
               b == [row[p] EXCEPT !.status = "Pending", !.presses = 0]
               c == [row[p] EXCEPT !.echoed = TRUE]
               d == [row[p] EXCEPT !.injected = "settled"]
               e == [row[p] EXCEPT !.age = row[p].age + 1]
    <3>1. ~OpenRow(a) /\ ~OpenRow(b) /\ ~OpenRow(c) /\ ~OpenRow(d)
      BY <1>1, OpenFields
    <3>2. OpenRow(e) => OpenRow(row[p])
      BY <1>1, OpenFields
    <3>3. \/ row' = [row EXCEPT ![p] = row[p]]
          \/ row' = [row EXCEPT ![p] = a] \/ row' = [row EXCEPT ![p] = b]
          \/ row' = [row EXCEPT ![p] = c] \/ row' = [row EXCEPT ![p] = d]
          \/ row' = [row EXCEPT ![p] = e]
      <4>1. row = [row EXCEPT ![p] = row[p]]
        BY DEF Typed
      <4> QED BY <2>2, <2>3, <4>1
    <3> HIDE DEF a, b, c, d, e
    <3> QED BY <3>1, <3>2, <3>3
  <2>5. \A q \in Prompt : OpenRow(row'[q]) => OpenRow(row[q])
    BY <2>4, NotOpened
  <2> QED BY <1>2, <2>1, <2>5
<1>8. ASSUME NEW p \in Prompt, DecideSend(p) \/ SweepPresses(p) \/ SweepGivesUp(p)
      PROVE  Answered'
  <2>1. /\ job["runner"].at = "idle" /\ row' = row /\ att' = att
        /\ \E j : job' = [job EXCEPT !["runner"] = j]
    BY <1>8 DEF DecideSend, SweepPresses, SweepGivesUp, Watched, queueVars
  <2> QED BY <1>1, <1>3, <2>1
<1>9. CASE SweepCounts \/ GiveUp
  <2> DEFINE p == job["runner"].p
  <2>1. /\ job["runner"].at \in {"pressed", "givingUp"} /\ att' = att
        /\ job' = [job EXCEPT !["runner"] = NoJob] /\ p \in Prompt
        /\ \/ row' = row
           \/ row' = [row EXCEPT ![p].presses = @ + 1, ![p].age = 0]
           \/ row' = [row EXCEPT ![p].status = "Failed"]
    BY <1>1, <1>9 DEF SweepCounts, GiveUp
  <2>2. row' = [row EXCEPT ![p].presses = @ + 1, ![p].age = 0] =>
        row' = [row EXCEPT ![p] = [row[p] EXCEPT !.presses = row[p].presses + 1, !.age = 0]]
    BY <2>1 DEF Typed
  <2> HIDE DEF p
  <2>3. PICK r : row' = [row EXCEPT ![p] = r] /\ (OpenRow(r) => OpenRow(row[p]))
    <3> DEFINE a == [row[p] EXCEPT !.status = "Failed"]
               b == [row[p] EXCEPT !.presses = row[p].presses + 1, !.age = 0]
    <3>1. ~OpenRow(a) /\ (OpenRow(b) => OpenRow(row[p]))
      BY <1>1, <2>1, OpenFields
    <3>2. \/ row' = [row EXCEPT ![p] = row[p]]
          \/ row' = [row EXCEPT ![p] = a] \/ row' = [row EXCEPT ![p] = b]
      <4>1. row = [row EXCEPT ![p] = row[p]]
        BY <2>1 DEF Typed
      <4> QED BY <2>1, <2>2, <4>1
    <3> HIDE DEF a, b
    <3> QED BY <3>1, <3>2
  <2>4. \A q \in Prompt : OpenRow(row'[q]) => OpenRow(row[q])
    BY <2>1, <2>3, NotOpened
  <2> QED BY <1>1, <1>3, <2>1, <2>4
<1>10. ASSUME NEW s \in Sender, NEW j \in Jobs, NEW p \in Prompt, NEW r,
              job' = [job EXCEPT ![s] = j], j.p = p, j.at \in {"marked", "declined"},
              row' = [row EXCEPT ![p] = r], att' = att,
              job[s].at \in {"marked", "declined"} => job[s].p = p
       PROVE  Answered'
  <2>1. \A t \in Sender : job'[t] = IF t = s THEN j ELSE job[t]
    BY <1>10, JobChange
  <2>2. Asks(p)'
    BY <1>10, <2>1 DEF Asks
  <2>3. \A q \in Prompt : q # p => row'[q] = row[q]
    BY <1>10 DEF Typed
  <2>4. \A q \in Prompt : q # p => (Asks(q) => Asks(q)')
    BY <1>10, <2>1 DEF Asks
  <2>5. \A q \in Prompt : Brings(q) => Brings(q)'
    BY <1>10 DEF Brings
  <2> QED BY <2>2, <2>3, <2>4, <2>5 DEF Answered
<1>11. CASE RunnerMarks
  <2>1. job["runner"].at = "decided" /\ att' = att /\ job["runner"].p \in Prompt
    BY <1>1, <1>11 DEF RunnerMarks
  <2>2. CASE row[job["runner"].p].status = "Pending"
    <3> DEFINE j == [job["runner"] EXCEPT !.at = "marked"]
    <3>1. /\ row' = [row EXCEPT ![job["runner"].p] = MarkedSent(row[job["runner"].p])]
          /\ job' = [job EXCEPT !["runner"] = j]
      BY <1>11, <2>2 DEF RunnerMarks
    <3>2. j \in Jobs /\ j.at = "marked" /\ j.p = job["runner"].p
      BY <1>1, JobIs
    <3> HIDE DEF j
    <3> QED BY <1>1, <1>10, <2>1, <3>1, <3>2
  <2>3. CASE row[job["runner"].p].status # "Pending"
    <3>1. row' = row /\ job' = [job EXCEPT !["runner"] = NoJob]
      BY <1>11, <2>3 DEF RunnerMarks
    <3> QED BY <1>1, <1>3, <2>1, <3>1
  <2> QED BY <2>2, <2>3
<1>12. ASSUME NEW p \in Prompt, SendNow(p)
       PROVE  Answered'
  <2> DEFINE j == [at |-> "marked", p |-> p, saw |-> FALSE]
  <2>1. /\ job["user"].at = "idle" /\ att' = att /\ job' = [job EXCEPT !["user"] = j]
        /\ row' = [row EXCEPT ![p] = MarkedSent(row[p])]
    BY <1>12 DEF SendNow
  <2>2. j \in Jobs /\ j.at = "marked" /\ j.p = p
    BY Jobs0
  <2> HIDE DEF j
  <2> QED BY <1>1, <1>10, <2>1, <2>2
<1>13. ASSUME NEW s \in Sender, Submit(s) \/ Refuse(s)
       PROVE  Answered'
  <2>1. job[s].at = "marked" /\ job[s].p \in Prompt /\ row' = row
    BY <1>1, <1>13 DEF Submit, Refuse, queueVars
  <2>2. CASE job' = [job EXCEPT ![s].at = "declined"] /\ att' = att
    <3> DEFINE p == job[s].p  j == [job[s] EXCEPT !.at = "declined"]
    <3>1. j \in Jobs /\ j.at = "declined" /\ j.p = p /\ job' = [job EXCEPT ![s] = j]
      BY <1>1, <2>2, JobIs
    <3>2. row' = [row EXCEPT ![p] = row[p]] /\ p \in Prompt /\ job[s].p = p
      BY <2>1 DEF Typed
    <3> HIDE DEF j, p
    <3> QED BY <1>10, <2>2, <3>1, <3>2
  <2>3. CASE Submit(s) /\ ~GateOpen
    <3> DEFINE x == [pc |-> "queued", p |-> job[s].p, fills |-> 0, draft |-> Empty]
    <3>1. used' = used + 1 /\ att' = [att EXCEPT ![used'] = x] /\ job' = [job EXCEPT ![s] = NoJob]
      BY <2>3 DEF Submit
    <3>2. used < MaxAttempts /\ used \in Nat /\ MaxAttempts \in Nat
      BY <1>1, <2>1, CountAssumption DEF OnTheirWay, Takes, Sender, Typed
    <3>3. used' \in Attempt /\ att[used'].pc = "none" /\ x.pc = "queued" /\ x.p = job[s].p
      BY <3>1, <3>2 DEF Attempt, OnTheirWay
    <3> HIDE DEF x
    <3>4. \A b \in Attempt : att'[b] = IF b = used' THEN x ELSE att[b]
      <4>1. att \in [Attempt -> Atts]
        BY DEF Typed
      <4> QED BY <3>1, <3>3, <4>1
    <3>5. PICK p \in Prompt : p = job[s].p
      BY <2>1
    <3>6. Brings(p)'
      BY <3>3, <3>4, <3>5 DEF Brings, answering
    <3>7. ASSUME NEW q \in Prompt, Brings(q)
          PROVE  Brings(q)'
      <4>1. PICK b \in Attempt : att[b].p = q /\ att[b].pc \in answering
        BY <3>7 DEF Brings
      <4>2. b # used'
        BY <3>3, <4>1 DEF answering
      <4>3. att'[b] = att[b]
        BY <3>4, <4>2
      <4> QED BY <4>1, <4>3 DEF Brings
    <3>8. \A q \in Prompt : q # p => (Asks(q) => Asks(q)')
      BY <3>1, <3>5 DEF Asks, Typed
    <3> QED BY <2>1, <3>7, <3>8, <3>6 DEF Answered
  <2> QED BY <1>13, <2>2, <2>3 DEF Submit, Refuse
<1>14. ASSUME NEW s \in Sender, Decline(s)
       PROVE  Answered'
  <2>1. /\ job[s].at = "declined" /\ job[s].p \in Prompt /\ att' = att
        /\ row' = [row EXCEPT ![job[s].p] = RolledBack(row[job[s].p])]
        /\ job' = [job EXCEPT ![s] = NoJob]
    BY <1>1, <1>14 DEF Decline
  <2>2. PICK p \in Prompt : p = job[s].p
    BY <2>1
  <2>3. ~OpenRow(RolledBack(row[p]))
    BY <1>1, OpenFields
  <2>4. \A q \in Prompt : row'[q] = IF q = p THEN RolledBack(row[q]) ELSE row[q]
    BY <2>1, <2>2 DEF Typed
  <2>5. \A q \in Prompt : q # p => (Asks(q) => Asks(q)')
    BY <2>1, <2>2 DEF Asks, Typed
  <2>6. \A q \in Prompt : Brings(q) => Brings(q)'
    BY <2>1 DEF Brings
  <2> QED BY <2>3, <2>4, <2>5, <2>6 DEF Answered
<1>15. ASSUME NEW a \in Attempt, Delivery(a)
       PROVE  Answered'
  <2>1. Moves(a)
    BY <1>15, DeliveryIs
  <2>2. att[a].p \in Prompt /\ Owns(a) /\ job' = job
    BY <2>1, PromptOf DEF Moves, OwnLive, Owns
  <2>3. PICK p \in Prompt : p = att[a].p
    BY <2>2
  <2>4. \A q \in Prompt : OpenRow(row'[q]) => OpenRow(row[q])
    BY <2>1 DEF Moves, RowMoves
  <2>5. \A q \in Prompt : Asks(q) => Asks(q)'
    BY <2>2 DEF Asks
  <2>6. \A q \in Prompt : q # p => (Brings(q) => Brings(q)')
    BY <2>1, <2>3 DEF Moves, AttMoves, Brings
  <2>7. Brings(p) /\ OpenRow(row'[p]) => Brings(p)'
    <3> SUFFICES ASSUME Brings(p), OpenRow(row'[p])
                 PROVE  Brings(p)'
      OBVIOUS
    <3>1. PICK b \in Attempt : att[b].p = p /\ att[b].pc \in answering
      BY DEF Brings
    <3>2. CASE b # a
      BY <2>1, <3>1, <3>2 DEF Moves, AttMoves, Brings
    <3>3. CASE b = a
      <4>1. att'[a].pc \in answering /\ att'[a].p = p
        BY <2>1, <2>2, <2>3, <3>1, <3>3 DEF Moves, StillAnswers, AttMoves
      <4> QED BY <4>1 DEF Brings
    <3> QED BY <3>2, <3>3
  <2> QED BY <2>4, <2>5, <2>6, <2>7 DEF Answered
<1>16. \A a \in Attempt : ~Vanish(a)
  BY DEF Vanish
<1> QED
  BY <1>1, <1>4, <1>5, <1>6, <1>7, <1>8, <1>9, <1>11, <1>12, <1>13, <1>14, <1>15, <1>16
  DEF Next, Runner, Sweep, User, UserSubmits

LEMMA AnsweredInit == Init => Answered
  BY DEF Init, NewRow, Answered, OpenRow

(* Where threads keep their deadlines and pages stay, no row is left Sent    *)
(* with nobody to bring it on.                                              *)
THEOREM NoPhantom ==
    ASSUME ~Starved, ~MayVanish
    PROVE  Spec => []NoPhantomSent
<1> DEFINE IInv == Typed /\ OnTheirWay /\ OwnLive /\ Answered
<1>1. Init => IInv
  BY TypedInit, OwnLiveInit, AnsweredInit
<1>2. IInv /\ [Next]_vars => IInv'
  BY TypedNext, OwnLiveNext, AnsweredNext
<1>3. IInv => NoPhantomSent
  BY DEF Answered, OpenRow, Asks, Brings, answering, NoPhantomSent, Unechoed
<1> QED BY <1>1, <1>2, <1>3, PTL DEF Spec

(***************************************************************************)
(* One message at most, no zombie delivery, no false verdict of loss.      *)
(*                                                                          *)
(* A prompt is undone while its row is Pending or somebody carries it (a     *)
(* sender that has marked it, a delivery that has not typed it); only one    *)
(* does at a time.  Nothing leads back from done to undone, and a message    *)
(* makes a prompt done.                                                      *)
(***************************************************************************)
(* The regime: the UI thread does not starve, pages stay, Send-now takes a  *)
(* Pending row, a press precedes the verdicts, hooks arrive in time.         *)
Timely ==
    /\ ~Starved /\ ~MayVanish /\ ~AnyRow /\ ~HeldOff
    /\ Hooks = "prompt" /\ MaxPresses > 0

SendsOut(s, p) == job[s].p = p /\ job[s].at \in {"marked", "declined"}
Types(a, p) == att[a].p = p /\ att[a].pc \in answering
Handling(p) == job["runner"].p = p /\ job["runner"].at \in {"pressed", "givingUp"}
Carried(p) == (\E s \in Sender : SendsOut(s, p)) \/ (\E a \in Attempt : Types(a, p))
Undone(p) == row[p].status = "Pending" \/ Carried(p)

(* One carries the prompt, and its row is as it was marked.                 *)
OneCarries(p) ==
    /\ Carried(p) => OpenRow(row[p]) /\ row[p].presses = 0
    /\ \A s \in Sender : SendsOut(s, p) =>
          /\ row[p].age = 0
          /\ \A t \in Sender : SendsOut(t, p) => t = s
          /\ \A a \in Attempt : ~Types(a, p)

(* An undone prompt is no message, and nothing presses or gives up for it.  *)
UndoneIsUntouched(p) ==
    Undone(p) => msgs[p] = 0 /\ p \notin pressQ /\ ~Handling(p)

(* A message is one, and is heard of before a press or a verdict is due.    *)
Heard(p) ==
    /\ msgs[p] <= 1
    /\ p \in hookQ \cup unread => msgs[p] = 1
    /\ Unechoed(p) /\ msgs[p] = 1 => p \in unread /\ (p \in hookQ \/ row[p].age >= 2)
    /\ Unechoed(p) /\ row[p].injected = "settled" /\ row[p].age >= 2 => msgs[p] = 0

(* A press is for a prompt that is no message yet.                          *)
PressesInTime(p) ==
    /\ p \in pressQ => msgs[p] = 0 /\ (Unechoed(p) => row[p].age <= 1)
    /\ Handling(p) /\ job["runner"].at = "pressed" =>
          ~job["runner"].saw /\ (Unechoed(p) => row[p].age <= 1)

Once(p) == OneCarries(p) /\ UndoneIsUntouched(p) /\ Heard(p) /\ PressesInTime(p)
OnceInv == \A p \in Prompt : Once(p)

IInv == Typed /\ OnTheirWay /\ OwnLive /\ Answered /\ OnceInv

-----------------------------------------------------------------------------
(***************************************************************************)
(* What is known of a prompt in each place.                                 *)
(***************************************************************************)
LEMMA CarriedIs ==
    ASSUME NEW p \in Prompt, Typed, Once(p), Carried(p)
    PROVE  /\ row[p].status = "Sent" /\ ~row[p].echoed /\ row[p].injected = "no"
           /\ row[p].presses = 0 /\ msgs[p] = 0 /\ ~Handling(p)
           /\ p \notin pressQ /\ p \notin hookQ /\ p \notin unread
  BY DEF Once, OneCarries, UndoneIsUntouched, Undone, Heard, OpenRow

LEMMA PendingIs ==
    ASSUME NEW p \in Prompt, Typed, Once(p), row[p].status = "Pending"
    PROVE  /\ ~Carried(p) /\ msgs[p] = 0 /\ ~Handling(p)
           /\ p \notin pressQ /\ p \notin hookQ /\ p \notin unread
<1>1. ~Carried(p)
  BY CarriedIs
<1> QED BY <1>1 DEF Once, UndoneIsUntouched, Undone, Heard

(* A delivery that has not typed its prompt is the only one that carries it. *)
LEMMA TypesAlone ==
    ASSUME OwnLive, NEW a \in Attempt, NEW p \in Prompt, Once(p), Types(a, p)
    PROVE  /\ owner = a /\ ~lapsed /\ Carried(p)
           /\ \A b \in Attempt : att[b].pc \in answering => b = a
           /\ \A s \in Sender : ~SendsOut(s, p)
<1>1. answering \subseteq Live
  BY DEF answering, Live, Typing
<1>2. owner = a /\ ~lapsed /\ \A b \in Attempt : att[b].pc \in answering => b = a
  BY <1>1 DEF OwnLive, Types
<1>3. Carried(p) /\ \A s \in Sender : ~SendsOut(s, p)
  BY DEF Carried, Once, OneCarries
<1> QED BY <1>2, <1>3

(* While the gate is closed no delivery carries anything.                   *)
LEMMA ClosedGate ==
    ASSUME OwnLive, ~GateOpen
    PROVE  \A a \in Attempt : \A p \in Prompt : ~Types(a, p)
<1>1. answering \subseteq Live /\ \A a \in Attempt : a # 0
  BY DEF answering, Live, Typing, Attempt
<1> QED BY <1>1 DEF OwnLive, GateOpen, Types

(***************************************************************************)
(* A step that concerns one prompt.                                         *)
(***************************************************************************)
SameCarriers(p) ==
    /\ \A s \in Sender : SendsOut(s, p)' => SendsOut(s, p)
    /\ \A a \in Attempt : Types(a, p)' => Types(a, p)
SameRunner(p) == job'["runner"] = job["runner"] \/ ~Handling(p)'
SameTraces(p) ==
    /\ msgs'[p] = msgs[p]
    /\ p \in pressQ' => p \in pressQ
    /\ p \in hookQ' <=> p \in hookQ
    /\ p \in unread' <=> p \in unread
Aside(p) == row'[p] = row[p] /\ SameTraces(p) /\ SameCarriers(p) /\ SameRunner(p)

LEMMA FewerCarry ==
    ASSUME NEW p \in Prompt, SameCarriers(p), Carried(p)'
    PROVE  Carried(p)
  BY DEF SameCarriers, Carried

LEMMA OnceAside ==
    ASSUME NEW p \in Prompt, Once(p), Aside(p)
    PROVE  Once(p)'
<1>1. Carried(p)' => Carried(p)
  BY FewerCarry DEF Aside
<1>2. OneCarries(p)'
  BY <1>1 DEF Once, OneCarries, Aside, SameCarriers
<1>3. (Unechoed(p))' = Unechoed(p)
  BY DEF Unechoed, Aside
<1>4. Handling(p)' => Handling(p) /\ job'["runner"] = job["runner"]
  BY DEF Aside, SameRunner, Handling
<1>5. UndoneIsUntouched(p)'
  BY <1>1, <1>4 DEF Once, UndoneIsUntouched, Undone, Aside, SameTraces
<1>6. Heard(p)'
  BY <1>3 DEF Once, Heard, Aside, SameTraces
<1>7. PressesInTime(p)'
  BY <1>3, <1>4 DEF Once, PressesInTime, Aside, SameTraces
<1> QED BY <1>2, <1>5, <1>6, <1>7 DEF Once

(* Whoever carried anything still does, and nobody else.                    *)
LEMMA SameJobs ==
    ASSUME job' = job, att' = att
    PROVE  \A p \in Prompt : SameCarriers(p) /\ SameRunner(p) /\ (Carried(p)' <=> Carried(p))
                             /\ (Handling(p)' <=> Handling(p))
  BY DEF SameCarriers, SameRunner, Carried, Handling, SendsOut, Types

(* A step that leaves the carriers alone and changes one row.               *)
LEMMA OnceOthers ==
    ASSUME NEW p \in Prompt, OnceInv, job' = job, att' = att, Once(p)',
           \A q \in Prompt : q # p => row'[q] = row[q] /\ SameTraces(q)
    PROVE  OnceInv'
<1>1. ASSUME NEW q \in Prompt, q # p PROVE Once(q)'
  BY <1>1, SameJobs, OnceAside DEF OnceInv, Aside
<1> QED BY <1>1 DEF OnceInv

-----------------------------------------------------------------------------
(***************************************************************************)
(* claude, the scanner, the hooks and time: no sender and no delivery moves. *)
(***************************************************************************)

(* The carriers stay, and so do the row's status and whether it was typed.  *)
LEMMA OnceStays ==
    ASSUME NEW p \in Prompt, Once(p), job' = job, att' = att,
           Carried(p) => row'[p] = row[p] /\ msgs'[p] = 0 /\ p \notin pressQ',
           row'[p].status = "Pending" => row[p].status = "Pending" /\ msgs'[p] = 0 /\ p \notin pressQ',
           Heard(p)', PressesInTime(p)'
    PROVE  Once(p)'
<1>1. /\ \A s \in Sender : SendsOut(s, p)' <=> SendsOut(s, p)
      /\ \A a \in Attempt : Types(a, p)' <=> Types(a, p)
  BY DEF SendsOut, Types
<1>2. (Carried(p)' <=> Carried(p)) /\ (Handling(p)' <=> Handling(p))
  BY SameJobs
<1>3. OneCarries(p)'
  <2>1. Carried(p) => OpenRow(row'[p]) /\ row'[p].presses = 0
    BY DEF Once, OneCarries
  <2>2. \A s \in Sender : SendsOut(s, p) => Carried(p)
    BY DEF Carried
  <2> QED BY <1>1, <1>2, <2>1, <2>2 DEF Once, OneCarries
<1>4. UndoneIsUntouched(p)'
  BY <1>2 DEF Once, UndoneIsUntouched, Undone
<1> QED BY <1>3, <1>4 DEF Once

LEMMA OnceScanReads ==
    ASSUME Typed, OnceInv, ScanReads
    PROVE  OnceInv'
<1> SUFFICES ASSUME NEW p \in Prompt PROVE Once(p)'
  BY DEF OnceInv
<1>1. Once(p) /\ row[p] \in Rows /\ msgs[p] \in 0..2
  BY DEF OnceInv, Typed
<1>2. /\ job' = job /\ att' = att /\ msgs' = msgs /\ hookQ' = hookQ /\ pressQ' = pressQ
      /\ unread' = {}
      /\ row'[p] = IF p \in unread /\ Unechoed(p) THEN [row[p] EXCEPT !.echoed = TRUE] ELSE row[p]
  BY DEF ScanReads
<1>3. CASE p \in unread /\ Unechoed(p)
  <2>1. /\ row'[p].status = "Sent" /\ row'[p].echoed
    BY <1>1, <1>2, <1>3 DEF Rows, Unechoed
  <2>2. ~(Unechoed(p))'
    BY <2>1 DEF Unechoed
  <2>3. ~Carried(p)
    BY <1>1, <1>3, CarriedIs
  <2>4. Heard(p)'
    BY <1>1, <1>2, <2>2 DEF Once, Heard
  <2>5. PressesInTime(p)'
    BY <1>1, <1>2, <2>2, SameJobs DEF Once, PressesInTime
  <2> QED BY <1>1, <1>2, <2>1, <2>3, <2>4, <2>5, OnceStays
<1>4. CASE ~(p \in unread /\ Unechoed(p))
  <2>1. row'[p] = row[p] /\ (Unechoed(p))' = Unechoed(p)
    BY <1>2, <1>4 DEF Unechoed
  <2>2. Heard(p)'
    BY <1>1, <1>2, <1>4, <2>1 DEF Once, Heard
  <2>3. PressesInTime(p)'
    BY <1>1, <1>2, <2>1, SameJobs DEF Once, PressesInTime
  <2>4. /\ Carried(p) => msgs'[p] = 0 /\ p \notin pressQ'
        /\ row'[p].status = "Pending" => msgs'[p] = 0 /\ p \notin pressQ'
    BY <1>1, <1>2, <2>1, CarriedIs, PendingIs
  <2> QED BY <1>1, <1>2, <2>1, <2>2, <2>3, <2>4, OnceStays
<1> QED BY <1>3, <1>4

(* A verdict of loss, or one of reclaim that would need a closed gate and   *)
(* an old row that somebody carries.                                        *)
LEMMA OnceVerdict ==
    ASSUME Typed, OwnLive, Answered, OnceInv, NEW p \in Prompt, Verdict(p)
    PROVE  OnceInv'
<1>1. Once(p) /\ row[p] \in Rows /\ row \in [Prompt -> Rows]
  BY DEF OnceInv, Typed
<1>2. /\ job' = job /\ att' = att /\ UNCHANGED claudeVars /\ pressQ' = pressQ
  BY DEF Verdict, ApplyLost, ApplyReclaim
<1>3. \A q \in Prompt : SameTraces(q)
  BY <1>2 DEF SameTraces, claudeVars
<1>4. ~Undelivered(p)
  <2> SUFFICES ASSUME Undelivered(p) PROVE FALSE
    OBVIOUS
  <2>1. ~GateOpen /\ row[p].age >= 2 /\ OpenRow(row[p])
    BY DEF Undelivered, Unechoed, OpenRow
  <2>2. Asks(p) \/ Brings(p)
    BY <2>1 DEF Answered
  <2>3. \A s \in Sender : ~SendsOut(s, p)
    BY <1>1, <2>1 DEF Once, OneCarries
  <2>4. \A a \in Attempt : ~Types(a, p)
    BY <2>1, ClosedGate
  <2> QED BY <2>2, <2>3, <2>4 DEF Asks, Brings, SendsOut, Types
<1>5. CASE row' = row
  BY <1>1, <1>2, <1>3, <1>5, SameJobs, OnceAside DEF OnceInv, Aside
<1>6. CASE /\ row' = [row EXCEPT ![p].status = "Failed"]
           /\ Unechoed(p) /\ row[p].injected = "settled"
  <2>1. /\ \A q \in Prompt : q # p => row'[q] = row[q]
        /\ row'[p] = [row[p] EXCEPT !.status = "Failed"]
    BY <1>1, <1>6
  <2>2. row'[p].status = "Failed"
    BY <1>1, <2>1 DEF Rows
  <2>3. ~(Unechoed(p))' /\ ~Carried(p)
    BY <1>1, <1>6, <2>2, CarriedIs DEF Unechoed
  <2>4. Heard(p)'
    BY <1>1, <1>3, <2>3 DEF Once, Heard, SameTraces
  <2>5. PressesInTime(p)'
    BY <1>1, <1>2, <1>3, <2>3, SameJobs DEF Once, PressesInTime, SameTraces
  <2>6. Once(p)'
    BY <1>1, <1>2, <2>2, <2>3, <2>4, <2>5, OnceStays
  <2> QED BY <1>2, <1>3, <2>1, <2>6, OnceOthers
<1> QED BY <1>4, <1>5, <1>6 DEF Verdict, ApplyLost, ApplyReclaim, queueVars

LEMMA OncePress ==
    ASSUME Typed, OnceInv, NEW p \in Prompt, Press(p)
    PROVE  OnceInv'
<1>1. /\ Once(p) /\ p \in pressQ /\ job' = job /\ att' = att /\ row' = row
      /\ pressQ' = pressQ \ {p} /\ msgs \in [Prompt -> 0..2] /\ row[p] \in Rows
      /\ Enter(p) \/ UNCHANGED claudeVars
  BY DEF OnceInv, Press, queueVars, Typed
<1>2. msgs[p] = 0 /\ ~Carried(p) /\ row[p].status # "Pending" /\ (Unechoed(p) => row[p].age <= 1)
  BY <1>1, CarriedIs, PendingIs DEF Once, PressesInTime
<1>3. CASE UNCHANGED claudeVars
  <2>1. \A q \in Prompt : SameTraces(q)
    BY <1>1, <1>3 DEF SameTraces, claudeVars
  <2> QED BY <1>1, <2>1, SameJobs, OnceAside DEF OnceInv, Aside
<1>4. CASE Commit(p)
  <2>1. /\ msgs'[p] = 1 /\ hookQ' = hookQ \cup {p} /\ unread' = unread \cup {p}
        /\ \A q \in Prompt : q # p => msgs'[q] = msgs[q]
    BY <1>1, <1>2, <1>4 DEF Commit
  <2>2. \A q \in Prompt : q # p => row'[q] = row[q] /\ SameTraces(q)
    BY <1>1, <2>1 DEF SameTraces
  <2>3. (Unechoed(p))' = Unechoed(p)
    BY <1>1 DEF Unechoed
  <2>4. row[p].age \in 0..3 /\ (Unechoed(p) => ~(row[p].age >= 2))
    BY <1>1, <1>2 DEF Rows
  <2>5. Heard(p)'
    BY <1>1, <2>1, <2>3, <2>4 DEF Heard
  <2>6. PressesInTime(p)'
    BY <1>1, <2>3, SameJobs DEF Once, PressesInTime
  <2>7. Once(p)'
    BY <1>1, <1>2, <2>5, <2>6, OnceStays
  <2> QED BY <1>1, <2>2, <2>7, OnceOthers
<1> QED BY <1>1, <1>3, <1>4 DEF Enter

LEMMA OnceHook ==
    ASSUME Timely, Typed, OnceInv, NEW p \in Prompt, Hook(p)
    PROVE  OnceInv'
<1>1. HookArrives(p)
  BY DEF Hook, HookLost, Timely
<1>2. /\ Once(p) /\ p \in hookQ /\ job' = job /\ att' = att /\ hookQ' = hookQ \ {p}
      /\ msgs' = msgs /\ unread' = unread /\ pressQ' = pressQ
      /\ row[p] \in Rows /\ row \in [Prompt -> Rows]
  BY <1>1 DEF OnceInv, HookArrives, Typed
<1>3. msgs[p] = 1 /\ ~Carried(p) /\ row[p].status # "Pending"
  BY <1>2, CarriedIs, PendingIs DEF Once, Heard
<1>4. /\ \A q \in Prompt : q # p => row'[q] = row[q]
      /\ row'[p] = IF Unechoed(p) /\ row[p].age < 2 THEN [row[p] EXCEPT !.echoed = TRUE] ELSE row[p]
  BY <1>1, <1>2 DEF HookArrives
<1>5. \A q \in Prompt : q # p => SameTraces(q)
  BY <1>2 DEF SameTraces
<1>6. Heard(p)' /\ PressesInTime(p)' /\ row'[p].status # "Pending"
  <2>1. CASE Unechoed(p) /\ row[p].age < 2
    <3>1. row'[p].echoed /\ row'[p].status = row[p].status
      BY <1>2, <1>4, <2>1 DEF Rows
    <3>2. ~(Unechoed(p))'
      BY <3>1 DEF Unechoed
    <3>3. Heard(p)' /\ PressesInTime(p)'
      BY <1>2, <1>3, <3>2, SameJobs DEF Once, Heard, PressesInTime
    <3> QED BY <1>3, <3>1, <3>3
  <2>2. CASE ~(Unechoed(p) /\ row[p].age < 2)
    <3>1. row'[p] = row[p] /\ (Unechoed(p))' = Unechoed(p)
      BY <1>4, <2>2 DEF Unechoed
    <3>2. row[p].age \in 0..3
      BY <1>2 DEF Rows
    <3>3. Unechoed(p) => row[p].age >= 2
      BY <2>2, <3>2
    <3>4. Heard(p)'
      BY <1>2, <1>3, <3>1, <3>3 DEF Once, Heard
    <3>5. PressesInTime(p)'
      BY <1>2, <3>1, SameJobs DEF Once, PressesInTime
    <3> QED BY <1>3, <3>1, <3>4, <3>5
  <2> QED BY <2>1, <2>2
<1>7. Once(p)'
  BY <1>2, <1>3, <1>6, OnceStays
<1> QED BY <1>2, <1>4, <1>5, <1>7, OnceOthers

LEMMA OnceAges ==
    ASSUME Timely, Typed, OnceInv, NEW p \in Prompt, Ages(p)
    PROVE  OnceInv'
<1>1. /\ Once(p) /\ job' = job /\ att' = att /\ UNCHANGED claudeVars /\ pressQ' = pressQ
      /\ row[p] \in Rows /\ row \in [Prompt -> Rows]
      /\ row' = [row EXCEPT ![p].age = @ + 1]
      /\ Unechoed(p) /\ ~Handled(p) /\ p \notin pressQ /\ p \notin hookQ
  BY DEF OnceInv, Ages, Typed, Timely, Waited
<1>2. /\ \A q \in Prompt : q # p => row'[q] = row[q]
      /\ row'[p] = [row[p] EXCEPT !.age = row[p].age + 1]
  BY <1>1
<1>3. /\ row'[p].age = row[p].age + 1 /\ row[p].age \in 0..3
      /\ row'[p].status = row[p].status /\ row'[p].echoed = row[p].echoed
      /\ row'[p].injected = row[p].injected /\ row'[p].presses = row[p].presses
  BY <1>1, <1>2 DEF Rows
<1>4. (Unechoed(p))' = Unechoed(p) /\ (OpenRow(row'[p]) <=> OpenRow(row[p]))
  BY <1>3 DEF Unechoed, OpenRow
<1>5. \A q \in Prompt : SameTraces(q)
  BY <1>1 DEF SameTraces, claudeVars
<1>6. (Carried(p)' <=> Carried(p)) /\ (Handling(p)' <=> Handling(p))
      /\ \A s \in Sender : ~SendsOut(s, p) /\ ~SendsOut(s, p)'
  <2>1. \A s \in Sender : ~SendsOut(s, p)
    BY <1>1 DEF Handled, SendsOut
  <2> QED BY <1>1, <2>1, SameJobs DEF SendsOut
<1>7. OneCarries(p)'
  BY <1>1, <1>3, <1>4, <1>6 DEF Once, OneCarries
<1>8. UndoneIsUntouched(p)'
  BY <1>1, <1>3, <1>5, <1>6 DEF Once, UndoneIsUntouched, Undone, SameTraces
<1>9. Heard(p)'
  <2>1. msgs[p] \in 0..2
    BY DEF Typed
  <2> QED BY <1>1, <1>3, <1>4, <1>5, <2>1 DEF Once, Heard, SameTraces
<1>10. PressesInTime(p)'
  <2>1. ~(Handling(p) /\ job["runner"].at = "pressed")
    BY <1>1 DEF Handled, Handling, Sender
  <2> QED BY <1>1, <1>6, <2>1 DEF PressesInTime
<1>11. Once(p)'
  BY <1>7, <1>8, <1>9, <1>10 DEF Once
<1> QED BY <1>1, <1>2, <1>5, <1>11, OnceOthers

LEMMA OnceSettles ==
    ASSUME Timely, Typed, OnceInv, NEW p \in Prompt, InjectionSettles(p)
    PROVE  OnceInv'
<1>1. /\ Once(p) /\ job' = job /\ att' = att /\ UNCHANGED claudeVars /\ pressQ' = pressQ
      /\ row[p] \in Rows /\ row \in [Prompt -> Rows]
      /\ row' = [row EXCEPT ![p].injected = "settled"]
      /\ row[p].injected = "fresh" /\ p \notin unread
  BY DEF OnceInv, InjectionSettles, Typed
<1>2. /\ \A q \in Prompt : q # p => row'[q] = row[q]
      /\ row'[p] = [row[p] EXCEPT !.injected = "settled"]
  BY <1>1
<1>3. /\ row'[p].age = row[p].age /\ row'[p].status = row[p].status
      /\ row'[p].echoed = row[p].echoed
  BY <1>1, <1>2 DEF Rows
<1>4. (Unechoed(p))' = Unechoed(p)
  BY <1>3 DEF Unechoed
<1>5. \A q \in Prompt : SameTraces(q)
  BY <1>1 DEF SameTraces, claudeVars
<1>6. ~Carried(p)
  BY <1>1, CarriedIs
<1>7. row'[p].status = "Pending" => row[p].status = "Pending" /\ msgs'[p] = 0 /\ p \notin pressQ'
  BY <1>1, <1>3, <1>5, PendingIs DEF SameTraces
<1>8. msgs[p] \in 0..2
  BY DEF Typed
<1>9. Heard(p)'
  BY <1>1, <1>3, <1>4, <1>5, <1>8 DEF Once, Heard, SameTraces
<1>10. PressesInTime(p)'
  BY <1>1, <1>3, <1>4, <1>5, SameJobs DEF Once, PressesInTime, SameTraces
<1>11. Once(p)'
  BY <1>1, <1>6, <1>7, <1>9, <1>10, OnceStays
<1> QED BY <1>1, <1>2, <1>5, <1>11, OnceOthers

(* Steps of claude, the scanner, the hooks, the user's hand and time that   *)
(* concern no prompt at all.                                                *)
LEMMA OnceQuiet ==
    ASSUME OnceInv,
           \/ Lapse \/ TurnEnds \/ UserEdits \/ ReArm \/ ScanJudges \/ UNCHANGED vars
    PROVE  OnceInv'
<1>1. job' = job /\ att' = att /\ row' = row /\ UNCHANGED claudeVars /\ pressQ' = pressQ
  BY DEF Lapse, TurnEnds, UserEdits, ReArm, ScanJudges, vars, queueVars, claudeVars
<1>2. \A q \in Prompt : Aside(q)
  BY <1>1, SameJobs DEF Aside, SameTraces, claudeVars
<1> QED BY <1>2, OnceAside DEF OnceInv

-----------------------------------------------------------------------------
(***************************************************************************)
(* The senders, the sweep and the give-up: one job changes.                 *)
(***************************************************************************)

(* All prompts but one see the step pass by.                                *)
LEMMA OnceBut ==
    ASSUME NEW p \in Prompt, OnceInv, Once(p)',
           \A q \in Prompt : q # p => Aside(q)
    PROVE  OnceInv'
<1>1. ASSUME NEW q \in Prompt, q # p PROVE Once(q)'
  BY <1>1, OnceAside DEF OnceInv
<1> QED BY <1>1 DEF OnceInv

Concerns(j, q) == j.p = q /\ j.at \in {"marked", "declined", "pressed", "givingUp"}

(* A job that turns to no prompt, or to another, adds no carrier.           *)
LEMMA JobAside ==
    ASSUME Typed, NEW s \in Sender, NEW j, job' = [job EXCEPT ![s] = j], att' = att,
           NEW q \in Prompt,
           Concerns(j, q) => SendsOut(s, q) /\ j.at \in {"marked", "declined"}
    PROVE  SameCarriers(q) /\ SameRunner(q)
<1>1. \A t \in Sender : job'[t] = IF t = s THEN j ELSE job[t]
  BY DEF Typed
<1>2. SameCarriers(q)
  BY <1>1 DEF SameCarriers, SendsOut, Types, Concerns
<1>3. SameRunner(q)
  BY <1>1 DEF SameRunner, Handling, Concerns, Sender
<1> QED BY <1>2, <1>3

LEMMA MarkedIs ==
    ASSUME NEW r \in Rows
    PROVE  LET m == MarkedSent(r) IN
           /\ OpenRow(m) /\ m.presses = 0 /\ m.age = 0
           /\ m.status = "Sent" /\ m.injected = "no"
  BY DEF MarkedSent, OpenRow, Rows

LEMMA IdleConcerns ==
    NoJob.at = "idle" /\ \A q \in Prompt : ~Concerns(NoJob, q)
  BY DEF Concerns, NoJob

LEMMA OnceMarks ==
    ASSUME Typed, OnceInv, NEW s \in Sender, NEW j, NEW p \in Prompt,
           job' = [job EXCEPT ![s] = j], j.p = p, j.at = "marked",
           row[p].status = "Pending", row' = [row EXCEPT ![p] = MarkedSent(row[p])],
           unread' = unread \ {p},
           UNCHANGED <<att, msgs, hookQ, pressQ>>
    PROVE  OnceInv'
<1>1. \A t \in Sender : job'[t] = IF t = s THEN j ELSE job[t]
  BY DEF Typed
<1>2. /\ row'[p] = MarkedSent(row[p])
      /\ \A q \in Prompt : q # p => row'[q] = row[q]
      /\ row[p] \in Rows
  BY DEF Typed
<1>3. /\ OpenRow(row'[p]) /\ row'[p].presses = 0 /\ row'[p].age = 0
      /\ row'[p].status = "Sent" /\ row'[p].injected = "no"
  BY <1>2, MarkedIs
<1>4. ~Carried(p) /\ msgs[p] = 0 /\ ~Handling(p) /\ p \notin pressQ /\ p \notin hookQ
      /\ p \notin unread
  BY PendingIs DEF OnceInv
<1>5. \A t \in Sender : SendsOut(t, p)' => t = s
  BY <1>1, <1>4 DEF SendsOut, Carried
<1>6. \A a \in Attempt : ~Types(a, p)'
  BY <1>4 DEF Types, Carried
<1>7. ~Handling(p)'
  BY <1>1, <1>4 DEF Handling, Sender
<1>8. Once(p)'
  BY <1>3, <1>4, <1>5, <1>6, <1>7
  DEF Once, OneCarries, UndoneIsUntouched, Heard, PressesInTime
<1>9. ASSUME NEW q \in Prompt, q # p
      PROVE  Aside(q)
  <2>1. SameCarriers(q) /\ SameRunner(q)
    BY <1>9, JobAside DEF Concerns
  <2>2. SameTraces(q)
    BY <1>9 DEF SameTraces
  <2> QED BY <1>2, <1>9, <2>1, <2>2 DEF Aside
<1> QED BY <1>8, <1>9, OnceBut

LEMMA OnceDecides ==
    ASSUME Typed, OnceInv, NEW p \in Prompt, DecideSend(p)
    PROVE  OnceInv'
<1> DEFINE j == [at |-> "decided", p |-> p, saw |-> FALSE]
<1>1. /\ job' = [job EXCEPT !["runner"] = j] /\ att' = att /\ row' = row
      /\ UNCHANGED claudeVars /\ pressQ' = pressQ /\ "runner" \in Sender
      /\ j.at = "decided"
  BY DEF DecideSend, Sender
<1> HIDE DEF j
<1>2. \A q \in Prompt : SameCarriers(q) /\ SameRunner(q)
  BY <1>1, JobAside DEF Concerns
<1>3. \A q \in Prompt : Aside(q)
  BY <1>1, <1>2 DEF Aside, SameTraces, claudeVars
<1> QED BY <1>3, OnceAside DEF OnceInv

LEMMA OnceSends ==
    ASSUME Timely, Typed, OnceInv, NEW p \in Prompt, SendNow(p)
    PROVE  OnceInv'
<1> DEFINE j == [at |-> "marked", p |-> p, saw |-> FALSE]
<1>1. /\ job' = [job EXCEPT !["user"] = j] /\ j.at = "marked" /\ j.p = p
      /\ row[p].status = "Pending" /\ row' = [row EXCEPT ![p] = MarkedSent(row[p])]
      /\ unread' = unread \ {p} /\ "user" \in Sender
      /\ UNCHANGED <<att, msgs, hookQ, pressQ>>
  BY DEF SendNow, Timely, Sender
<1> HIDE DEF j
<1> QED BY <1>1, OnceMarks

LEMMA OnceRunnerMarks ==
    ASSUME Typed, OnTheirWay, OnceInv, RunnerMarks
    PROVE  OnceInv'
<1>1. /\ "runner" \in Sender /\ job["runner"] \in Jobs /\ job["runner"].p \in Prompt
      /\ job["runner"].at = "decided" /\ UNCHANGED <<att, msgs, hookQ, pressQ>>
  BY DEF RunnerMarks, Sender, Typed, OnTheirWay
<1>2. PICK p \in Prompt : p = job["runner"].p
  BY <1>1
<1>3. CASE row[p].status = "Pending"
  <2> DEFINE j == [job["runner"] EXCEPT !.at = "marked"]
  <2>1. /\ row' = [row EXCEPT ![p] = MarkedSent(row[p])] /\ unread' = unread \ {p}
        /\ job' = [job EXCEPT !["runner"] = j]
    BY <1>2, <1>3 DEF RunnerMarks
  <2>2. j.at = "marked" /\ j.p = p
    BY <1>1, <1>2, JobIs
  <2> HIDE DEF j
  <2> QED BY <1>1, <1>3, <2>1, <2>2, OnceMarks
<1>4. CASE row[p].status # "Pending"
  <2>1. row' = row /\ unread' = unread /\ job' = [job EXCEPT !["runner"] = NoJob]
    BY <1>2, <1>4 DEF RunnerMarks
  <2>2. \A q \in Prompt : SameCarriers(q) /\ SameRunner(q)
    BY <1>1, <2>1, JobAside, IdleConcerns
  <2>3. \A q \in Prompt : Aside(q)
    BY <1>1, <2>1, <2>2 DEF Aside, SameTraces
  <2> QED BY <2>3, OnceAside DEF OnceInv
<1> QED BY <1>3, <1>4

(* A gate that is held, or a window that refuses: the sender still carries. *)
LEMMA OnceTurnedDown ==
    ASSUME Typed, OnceInv, NEW s \in Sender, job[s].at = "marked",
           job' = [job EXCEPT ![s].at = "declined"],
           UNCHANGED <<row, att, msgs, hookQ, unread, pressQ>>
    PROVE  OnceInv'
<1> DEFINE j == [job[s] EXCEPT !.at = "declined"]
<1>1. j.at = "declined" /\ j.p = job[s].p /\ job' = [job EXCEPT ![s] = j]
  BY JobIs DEF Typed
<1> HIDE DEF j
<1>2. \A q \in Prompt : SameCarriers(q) /\ SameRunner(q)
  BY <1>1, JobAside DEF Concerns, SendsOut
<1>3. \A q \in Prompt : Aside(q)
  BY <1>2 DEF Aside, SameTraces
<1> QED BY <1>3, OnceAside DEF OnceInv

LEMMA OnceSubmit ==
    ASSUME Typed, OnTheirWay, OnceInv, NEW s \in Sender, Submit(s)
    PROVE  OnceInv'
<1>1. /\ job[s].at = "marked" /\ job[s].p \in Prompt
      /\ row' = row /\ UNCHANGED claudeVars /\ pressQ' = pressQ
  BY DEF Submit, OnTheirWay, queueVars
<1>2. CASE GateOpen
  BY <1>1, <1>2, OnceTurnedDown DEF Submit, claudeVars
<1>3. CASE ~GateOpen
  <2> DEFINE x == [pc |-> "queued", p |-> job[s].p, fills |-> 0, draft |-> Empty]
  <2>1. /\ used' = used + 1 /\ att' = [att EXCEPT ![used'] = x]
        /\ job' = [job EXCEPT ![s] = NoJob] /\ x.p = job[s].p
    BY <1>3 DEF Submit
  <2> HIDE DEF x
  <2>2. PICK p \in Prompt : p = job[s].p
    BY <1>1
  <2>3. \A b \in Attempt : att'[b] = IF b = used' THEN x ELSE att[b]
    BY <2>1 DEF Typed
  <2>4. \A t \in Sender : job'[t] = IF t = s THEN NoJob ELSE job[t]
    BY <2>1 DEF Typed
  <2>5. SendsOut(s, p) /\ Carried(p) /\ \A t \in Sender : SendsOut(t, p) => t = s
    BY <1>1, <2>2 DEF SendsOut, Carried, OnceInv, Once, OneCarries
  <2>6. \A t \in Sender : ~SendsOut(t, p)'
    BY <2>4, <2>5, IdleConcerns DEF SendsOut
  <2>7. Handling(p)' => Handling(p) /\ job'["runner"] = job["runner"]
    BY <2>4, IdleConcerns DEF Handling, Sender
  <2>8. (Unechoed(p))' = Unechoed(p)
    BY <1>1 DEF Unechoed
  <2>9. Once(p)'
    <3>1. Once(p)
      BY DEF OnceInv
    <3>2. OneCarries(p)'
      BY <1>1, <2>5, <2>6, <3>1 DEF Once, OneCarries
    <3>3. UndoneIsUntouched(p)'
      BY <1>1, <2>5, <2>7, <3>1 DEF Once, UndoneIsUntouched, Undone, claudeVars
    <3>4. Heard(p)'
      BY <1>1, <2>8, <3>1 DEF Once, Heard, claudeVars
    <3>5. PressesInTime(p)'
      BY <1>1, <2>7, <2>8, <3>1 DEF Once, PressesInTime, claudeVars
    <3> QED BY <3>2, <3>3, <3>4, <3>5 DEF Once
  <2>10. ASSUME NEW q \in Prompt, q # p
         PROVE  Aside(q)
    <3>1. SameCarriers(q)
      BY <2>1, <2>2, <2>3, <2>4, <2>10, IdleConcerns DEF SameCarriers, SendsOut, Types
    <3>2. SameRunner(q)
      BY <2>4, IdleConcerns DEF SameRunner, Handling, Sender
    <3> QED BY <1>1, <3>1, <3>2 DEF Aside, SameTraces, claudeVars
  <2> QED BY <2>9, <2>10, OnceBut
<1> QED BY <1>2, <1>3

LEMMA RolledIs == ASSUME NEW r \in Rows PROVE RolledBack(r).status # "Sent"
  BY DEF RolledBack, Rows

LEMMA OnceDecline ==
    ASSUME Typed, OnTheirWay, OnceInv, NEW s \in Sender, Decline(s)
    PROVE  OnceInv'
<1>1. /\ job[s].at = "declined" /\ job[s].p \in Prompt /\ att' = att
      /\ row' = [row EXCEPT ![job[s].p] = RolledBack(row[job[s].p])]
      /\ job' = [job EXCEPT ![s] = NoJob]
      /\ UNCHANGED claudeVars /\ pressQ' = pressQ
  BY DEF Decline, OnTheirWay
<1>2. PICK p \in Prompt : p = job[s].p
  BY <1>1
<1>3. /\ row'[p] = RolledBack(row[p]) /\ row[p] \in Rows
      /\ \A q \in Prompt : q # p => row'[q] = row[q]
      /\ \A t \in Sender : job'[t] = IF t = s THEN NoJob ELSE job[t]
  BY <1>1, <1>2 DEF Typed
<1>4. SendsOut(s, p) /\ Carried(p) /\ Once(p)
  BY <1>1, <1>2 DEF SendsOut, Carried, OnceInv
<1>5. /\ \A t \in Sender : SendsOut(t, p) => t = s
      /\ \A a \in Attempt : ~Types(a, p)
  BY <1>4 DEF Once, OneCarries
<1>6. (\A t \in Sender : ~SendsOut(t, p)') /\ (\A a \in Attempt : ~Types(a, p)')
  BY <1>1, <1>3, <1>5, IdleConcerns DEF SendsOut, Types
<1>7. msgs[p] = 0 /\ p \notin pressQ /\ ~Handling(p) /\ p \notin hookQ /\ p \notin unread
  BY <1>4, CarriedIs
<1>8. ~Handling(p)'
  BY <1>3, <1>7, IdleConcerns DEF Handling, Sender
<1>9. row'[p].status # "Sent"
  BY <1>3, RolledIs
<1>10. Once(p)'
  BY <1>1, <1>6, <1>7, <1>8, <1>9
  DEF Once, OneCarries, UndoneIsUntouched, Carried, Heard, PressesInTime, Unechoed, claudeVars
<1>11. ASSUME NEW q \in Prompt, q # p
       PROVE  Aside(q)
  <2>1. SameCarriers(q) /\ SameRunner(q)
    BY <1>1, JobAside, IdleConcerns
  <2> QED BY <1>1, <1>3, <1>11, <2>1 DEF Aside, SameTraces, claudeVars
<1> QED BY <1>10, <1>11, OnceBut

(* The runner turns to a prompt it presses for, or gives up.                *)
LEMMA OnceSweeps ==
    ASSUME Typed, OnceInv, NEW j, NEW p \in Prompt, job["runner"].at = "idle",
           job' = [job EXCEPT !["runner"] = j],
           UNCHANGED <<row, att, msgs, hookQ, unread>>,
           j.p = p, j.at \in {"pressed", "givingUp"},
           ~Undone(p), pressQ \subseteq pressQ', pressQ' \subseteq pressQ \cup {p},
           j.at = "pressed" => ~j.saw,
           j.at = "pressed" \/ p \in pressQ' \ pressQ =>
              msgs[p] = 0 /\ (Unechoed(p) => row[p].age <= 1)
    PROVE  OnceInv'
<1>1. \A t \in Sender : job'[t] = IF t = "runner" THEN j ELSE job[t]
  BY DEF Typed
<1>2. "runner" \in Sender
  BY DEF Sender
<1>3. SameCarriers(p)
  BY <1>1, <1>2 DEF SameCarriers, SendsOut, Types
<1>4. (Unechoed(p))' = Unechoed(p) /\ Once(p) /\ ~Carried(p)
  BY DEF Unechoed, OnceInv, Undone
<1>5. ~Carried(p)'
  BY <1>3, <1>4, FewerCarry
<1>6. ~Undone(p)'
  BY <1>5 DEF Undone
<1>7. OneCarries(p)'
  BY <1>5 DEF OneCarries, Carried
<1>8. UndoneIsUntouched(p)'
  BY <1>6 DEF UndoneIsUntouched
<1>9. Heard(p)'
  BY <1>4 DEF Once, Heard
<1>10. PressesInTime(p)'
  BY <1>1, <1>2, <1>4 DEF Once, PressesInTime
<1>11. Once(p)'
  BY <1>7, <1>8, <1>9, <1>10 DEF Once
<1>12. ASSUME NEW q \in Prompt, q # p
       PROVE  Aside(q)
  <2>1. SameCarriers(q) /\ SameRunner(q)
    BY <1>2, <1>12, JobAside DEF Concerns
  <2> QED BY <1>12, <2>1 DEF Aside, SameTraces
<1> QED BY <1>11, <1>12, OnceBut

LEMMA OncePresses ==
    ASSUME Timely, Typed, OwnLive, OnceInv, NEW p \in Prompt, SweepPresses(p)
    PROVE  OnceInv'
<1> DEFINE j == [at |-> "pressed", p |-> p, saw |-> p \in unread]
<1>1. /\ job["runner"].at = "idle" /\ job' = [job EXCEPT !["runner"] = j]
      /\ UNCHANGED <<row, att, msgs, hookQ, unread>> /\ pressQ' = pressQ \cup {p}
      /\ ~GateOpen /\ Unechoed(p) /\ row[p].age = 1 /\ p \notin hookQ
      /\ j.p = p /\ j.at = "pressed" /\ (j.saw <=> p \in unread)
  BY DEF SweepPresses, Watched, Waited, Timely, queueVars, claudeVars
<1> HIDE DEF j
<1>2. Once(p) /\ msgs[p] \in 0..2
  BY DEF OnceInv, Typed
<1>3. ~(msgs[p] = 1)
  BY <1>1, <1>2 DEF Once, Heard
<1>4. msgs[p] = 0 /\ p \notin unread
  BY <1>2, <1>3 DEF Once, Heard
<1>5. ~Carried(p)
  <2>1. \A s \in Sender : ~SendsOut(s, p)
    BY <1>1, <1>2 DEF Once, OneCarries
  <2> QED BY <1>1, <2>1, ClosedGate DEF Carried
<1>6. ~Undone(p)
  BY <1>1, <1>5 DEF Undone, Unechoed
<1>7. /\ row[p].age <= 1 /\ ~j.saw /\ j.at \in {"pressed", "givingUp"}
      /\ pressQ \subseteq pressQ' /\ pressQ' \subseteq pressQ \cup {p}
  BY <1>1, <1>4
<1> QED BY <1>1, <1>4, <1>6, <1>7, OnceSweeps

LEMMA OnceGivesUp ==
    ASSUME Timely, Typed, OnceInv, NEW p \in Prompt, SweepGivesUp(p)
    PROVE  OnceInv'
<1> DEFINE j == [at |-> "givingUp", p |-> p, saw |-> FALSE]
<1>1. /\ job["runner"].at = "idle" /\ job' = [job EXCEPT !["runner"] = j]
      /\ UNCHANGED <<row, att, msgs, hookQ, unread, pressQ>>
      /\ Unechoed(p) /\ row[p].presses # 0
      /\ j.p = p /\ j.at = "givingUp"
  BY CountAssumption DEF SweepGivesUp, Watched, Timely, queueVars, claudeVars
<1> HIDE DEF j
<1>2. ~Carried(p)
  BY <1>1, CarriedIs DEF OnceInv
<1>3. ~Undone(p)
  BY <1>1, <1>2 DEF Undone, Unechoed
<1> QED BY <1>1, <1>3, OnceSweeps

(* The press is counted, or the prompt fails: either way it was done.       *)
LEMMA OnceCounts ==
    ASSUME Typed, OnTheirWay, OnceInv, SweepCounts \/ GiveUp
    PROVE  OnceInv'
<1>1. /\ job["runner"].at \in {"pressed", "givingUp"} /\ job["runner"].p \in Prompt
      /\ "runner" \in Sender
      /\ job' = [job EXCEPT !["runner"] = NoJob] /\ UNCHANGED <<att, msgs, hookQ, pressQ>>
  BY DEF SweepCounts, GiveUp, OnTheirWay, Sender, claudeVars
<1>2. PICK p \in Prompt : p = job["runner"].p
  BY <1>1
<1>3. Once(p) /\ Handling(p) /\ row[p] \in Rows /\ row \in [Prompt -> Rows]
  BY <1>1, <1>2 DEF OnceInv, Handling, Typed
<1>4. ~Undone(p)
  BY <1>3 DEF Once, UndoneIsUntouched
<1>5. unread' = unread
  BY <1>2, <1>3 DEF SweepCounts, GiveUp, Once, PressesInTime, claudeVars
<1>6. \A q \in Prompt : SameCarriers(q) /\ SameRunner(q)
  BY <1>1, JobAside, IdleConcerns
<1>7. ~Handling(p)' /\ ~Carried(p)'
  <2>1. job'["runner"] = NoJob
    BY <1>1 DEF Typed
  <2>2. ~Handling(p)'
    BY <2>1, IdleConcerns DEF Handling
  <2> QED BY <1>4, <1>6, <2>2, FewerCarry DEF Undone
<1>8. /\ \A q \in Prompt : q # p => row'[q] = row[q]
      /\ \/ row'[p] = row[p]
         \/ /\ row'[p] = [row[p] EXCEPT !.presses = row[p].presses + 1, !.age = 0]
            /\ job["runner"].at = "pressed"
         \/ row'[p] = [row[p] EXCEPT !.status = "Failed"]
  BY <1>2, <1>3 DEF SweepCounts, GiveUp
<1>9. /\ row'[p].status # "Pending"
      /\ (Unechoed(p))' => Unechoed(p) /\ row'[p].injected = row[p].injected
      /\ row'[p].age = row[p].age \/ (row'[p].age = 0 /\ job["runner"].at = "pressed")
  <2>1. CASE row'[p] = row[p]
    BY <1>4, <2>1 DEF Undone, Unechoed
  <2>2. CASE /\ row'[p] = [row[p] EXCEPT !.presses = row[p].presses + 1, !.age = 0]
                 /\ job["runner"].at = "pressed"
    BY <1>3, <1>4, <2>2 DEF Undone, Unechoed, Rows
  <2>3. CASE row'[p] = [row[p] EXCEPT !.status = "Failed"]
    BY <1>3, <1>4, <2>3 DEF Undone, Unechoed, Rows
  <2> QED BY <1>8, <2>1, <2>2, <2>3
<1>10. OneCarries(p)' /\ UndoneIsUntouched(p)'
  BY <1>7, <1>9 DEF OneCarries, Carried, UndoneIsUntouched, Undone
<1>11. Heard(p)'
  <2>1. msgs'[p] = msgs[p] /\ msgs[p] \in 0..2 /\ row[p].age \in 0..3
    BY <1>1, <1>3 DEF Typed, Rows
  <2>2. job["runner"].at = "pressed" /\ Unechoed(p) => ~(row[p].age >= 2)
    BY <1>3, <2>1 DEF Once, PressesInTime
  <2>3. Heard(p)
    BY <1>3 DEF Once
  <2> HIDE DEF Unechoed
  <2> QED BY <1>1, <1>5, <1>9, <2>1, <2>2, <2>3 DEF Heard
<1>12. PressesInTime(p)'
  BY <1>1, <1>3, <1>7, <1>9 DEF Once, PressesInTime
<1>13. \A q \in Prompt : q # p => Aside(q)
  BY <1>1, <1>5, <1>6, <1>8 DEF Aside, SameTraces
<1>14. Once(p)'
  BY <1>10, <1>11, <1>12 DEF Once
<1> QED BY <1>13, <1>14, OnceBut

-----------------------------------------------------------------------------
(***************************************************************************)
(* A delivery: it brings its prompt on, gives it up, or makes it a message.  *)
(***************************************************************************)
Quietly(a) ==
    /\ row' = row /\ UNCHANGED claudeVars
    /\ att'[a].pc \in answering => att[a].pc \in answering
LetsGo(a) ==
    /\ att[a].pc \in answering /\ att'[a].pc \notin answering
    /\ UNCHANGED claudeVars
Delivers(a) ==
    /\ att[a].pc \in answering /\ att'[a].pc \notin answering
    /\ Commit(att[a].p)
    /\ row' = [row EXCEPT ![att[a].p] = [Injected(row[att[a].p]) EXCEPT !.strikes = 0]]

LEMMA DeliveryDoes ==
    ASSUME Typed, OnTheirWay, NEW a \in Attempt, Delivery(a)
    PROVE  Quietly(a) \/ LetsGo(a) \/ Delivers(a)
<1>1. att[a] \in Atts /\ att \in [Attempt -> Atts]
      /\ att[a].pc \in Live /\ Moves(a)
  BY DeliveryIs DEF Typed, Moves
<1>2. ASSUME Exit(a) PROVE att'[a].pc = "done"
  BY <1>1, <1>2, ExitIs
<1>3. ASSUME RestoreOrExit(a) PROVE att'[a].pc \in {"restore", "done"}
  BY <1>1, <1>3, RestoreOrExitIs
<1>4. ASSUME NEW pc, att' = [att EXCEPT ![a].pc = pc] PROVE att'[a].pc = pc
  <2>1. att'[a] = [att[a] EXCEPT !.pc = pc]
    BY <1>1, <1>4
  <2> QED BY <1>1, <2>1 DEF Atts
<1>5. "done" \notin answering /\ "restore" \notin answering /\ "await" \notin answering
  BY DEF answering
<1>6. CASE att[a].pc \in answering /\ row' = row /\ UNCHANGED claudeVars
  BY <1>6 DEF Quietly
<1>7. CASE StaleAtTop(a) \/ Probe(a) \/ Lock(a) \/ Clear(a) \/ Fill(a) \/ StaleAtWork(a) \/ Refill(a)
  <2>1. att[a].pc \in answering
    BY <1>7 DEF StaleAtTop, Probe, Lock, Clear, Fill, StaleAtWork, Refill, answering
  <2>2. row' = row /\ UNCHANGED claudeVars
    BY <1>7 DEF StaleAtTop, Probe, Lock, Clear, Fill, StaleAtWork, Refill, queueVars, claudeVars
  <2> QED BY <1>6, <2>1, <2>2
<1>8. CASE AwaitEnds(a) \/ Restore(a)
  <2>1. row' = row /\ UNCHANGED claudeVars
    BY <1>8 DEF AwaitEnds, Restore, queueVars, claudeVars
  <2>2. att'[a].pc \in {"restore", "done"}
    BY <1>2, <1>4, <1>8 DEF AwaitEnds, Restore
  <2> QED BY <1>5, <2>1, <2>2 DEF Quietly
<1>9. CASE TurnedAway(a) \/ NoBox(a)
  <2>1. Exit(a) /\ UNCHANGED claudeVars /\ att[a].pc \in answering
    BY <1>9 DEF TurnedAway, NoBox, answering, claudeVars
  <2> QED BY <1>2, <1>5, <2>1 DEF LetsGo
<1>10. CASE Strike(a)
  <2>1. RestoreOrExit(a) /\ UNCHANGED claudeVars /\ att[a].pc \in answering
    BY <1>10 DEF Strike, answering, claudeVars
  <2> QED BY <1>3, <1>5, <2>1 DEF LetsGo
<1>11. CASE ClearFails(a)
  <2>1. /\ att' = [att EXCEPT ![a].pc = "restore", ![a].draft = box]
        /\ UNCHANGED claudeVars /\ att[a].pc \in answering
    BY <1>11 DEF ClearFails, answering, claudeVars
  <2>2. att'[a].pc = "restore"
    <3>1. att'[a] = [att[a] EXCEPT !.pc = "restore", !.draft = box]
      BY <1>1, <2>1
    <3> QED BY <1>1, <3>1 DEF Atts
  <2> QED BY <1>5, <2>1, <2>2 DEF LetsGo
<1>12. CASE Deliver(a)
  <2>1. /\ att[a].pc \in answering /\ Enter(att[a].p)
        /\ row' = [row EXCEPT ![att[a].p] = [Injected(row[att[a].p]) EXCEPT !.strikes = 0]]
    BY <1>12 DEF Deliver, answering
  <2>2. att'[a].pc \in {"done", "await"}
    BY <1>2, <1>4, <1>12 DEF Deliver
  <2>3. att'[a].pc \notin answering
    BY <1>5, <2>2
  <2>4. Commit(att[a].p) \/ UNCHANGED claudeVars
    BY <2>1 DEF Enter
  <2> QED BY <2>1, <2>3, <2>4 DEF LetsGo, Delivers
<1> QED BY <1>7, <1>8, <1>9, <1>10, <1>11, <1>12 DEF Delivery

(* Typed, the prompt of a delivery is Sent still.                           *)
LEMMA InjectedIs ==
    ASSUME NEW r \in Rows, r.status = "Sent"
    PROVE  LET x == [Injected(r) EXCEPT !.strikes = 0] IN
           x.status = "Sent" /\ x.injected = "fresh"
  BY DEF Injected, Rows

LEMMA OnceDelivery ==
    ASSUME Typed, OnTheirWay, OwnLive, OnceInv, NEW a \in Attempt, Delivery(a)
    PROVE  OnceInv'
<1>1. Moves(a) /\ (Quietly(a) \/ LetsGo(a) \/ Delivers(a))
  BY DeliveryIs, DeliveryDoes
<1>2. att[a].p \in Prompt /\ row \in [Prompt -> Rows] /\ msgs \in [Prompt -> 0..2]
  BY <1>1, PromptOf DEF Moves, Typed
<1>3. PICK p \in Prompt : p = att[a].p
  BY <1>2
<1>4. /\ Once(p) /\ job' = job /\ pressQ' = pressQ
      /\ att'[a].p = p /\ \A b \in Attempt : b # a => att'[b] = att[b]
      /\ \A q \in Prompt : q # p => row'[q] = row[q]
  BY <1>1, <1>3 DEF Moves, AttMoves, RowMoves, OnceInv
<1>5. (\A q \in Prompt : SameRunner(q)) /\ (Handling(p)' <=> Handling(p))
  BY <1>4 DEF SameRunner, Handling
<1>6. \A q \in Prompt : q # p => SameCarriers(q)
  BY <1>4 DEF SameCarriers, SendsOut, Types
<1>7. \A q \in Prompt : q # p => SameTraces(q)
  <2>1. CASE UNCHANGED claudeVars
    BY <1>4, <2>1 DEF SameTraces, claudeVars
  <2>2. CASE Commit(p)
    BY <1>2, <1>4, <2>2 DEF SameTraces, Commit
  <2> QED BY <1>1, <1>3, <2>1, <2>2 DEF Quietly, LetsGo, Delivers
<1>8. \A q \in Prompt : q # p => Aside(q)
  BY <1>4, <1>5, <1>6, <1>7 DEF Aside
<1>9. CASE Quietly(a)
  <2>1. SameCarriers(p)
    BY <1>3, <1>4, <1>9 DEF Quietly, SameCarriers, SendsOut, Types
  <2>2. Aside(p)
    BY <1>4, <1>5, <1>9, <2>1 DEF Aside, Quietly, SameTraces, claudeVars
  <2> QED BY <1>4, <1>8, <2>2, OnceAside, OnceBut
<1>10. CASE LetsGo(a) \/ Delivers(a)
  <2>1. Types(a, p) /\ att'[a].pc \notin answering
    BY <1>3, <1>10 DEF LetsGo, Delivers, Types
  <2>2. /\ Carried(p)
        /\ \A b \in Attempt : att[b].pc \in answering => b = a
        /\ \A s \in Sender : ~SendsOut(s, p)
    BY <1>4, <2>1, TypesAlone
  <2>3. (\A s \in Sender : ~SendsOut(s, p)') /\ (\A b \in Attempt : ~Types(b, p)')
    BY <1>4, <2>1, <2>2 DEF SendsOut, Types
  <2>4. ~Carried(p)' /\ OneCarries(p)'
    BY <2>3 DEF Carried, OneCarries
  <2>5. /\ row[p].status = "Sent" /\ msgs[p] = 0 /\ ~Handling(p)
        /\ p \notin pressQ /\ p \notin hookQ /\ p \notin unread
    BY <1>4, <2>2, CarriedIs
  <2>6. PressesInTime(p)'
    BY <1>4, <1>5, <2>5 DEF PressesInTime
  <2>7. UndoneIsUntouched(p)' /\ Heard(p)'
    <3>1. CASE LetsGo(a)
      <4>1. msgs'[p] = 0 /\ p \notin hookQ' /\ p \notin unread'
        BY <2>5, <3>1 DEF LetsGo, claudeVars
      <4> QED BY <1>4, <1>5, <2>5, <4>1 DEF UndoneIsUntouched, Heard
    <3>2. CASE Delivers(a)
      <4>1. /\ msgs'[p] = 1 /\ p \in hookQ' /\ p \in unread'
        BY <1>2, <1>3, <2>5, <3>2 DEF Delivers, Commit
      <4>2. row'[p] = [Injected(row[p]) EXCEPT !.strikes = 0] /\ row[p] \in Rows
        BY <1>2, <1>3, <3>2 DEF Delivers
      <4>3. row'[p].status = "Sent" /\ row'[p].injected = "fresh"
        BY <2>5, <4>2, InjectedIs
      <4>4. UndoneIsUntouched(p)'
        BY <2>4, <4>3 DEF UndoneIsUntouched, Undone
      <4>5. Heard(p)'
        BY <4>1, <4>3 DEF Heard
      <4> QED BY <4>4, <4>5
    <3> QED BY <1>10, <3>1, <3>2
  <2>8. Once(p)'
    BY <2>4, <2>6, <2>7 DEF Once
  <2> QED BY <1>8, <2>8, OnceBut
<1> QED BY <1>1, <1>9, <1>10

-----------------------------------------------------------------------------
(***************************************************************************)
(* The invariant, and what it comes to.                                     *)
(***************************************************************************)
LEMMA OnceInit == Init => OnceInv
<1> SUFFICES ASSUME Init, NEW p \in Prompt PROVE Once(p)
  BY DEF OnceInv
<1>1. /\ \A s \in Sender : job[s].at = "idle"
      /\ \A a \in Attempt : att[a].pc = "none"
      /\ row[p].status = "Pending" /\ msgs[p] = 0
      /\ p \notin hookQ /\ p \notin unread /\ p \notin pressQ /\ "runner" \in Sender
  BY DEF Init, NoJob, NewRow, Sender
<1>2. ~Carried(p) /\ ~Handling(p)
      /\ (\A s \in Sender : ~SendsOut(s, p))
  BY <1>1 DEF Carried, SendsOut, Types, Handling, answering
<1> QED BY <1>1, <1>2 DEF Once, OneCarries, UndoneIsUntouched, Heard, PressesInTime

LEMMA OnceNext ==
    ASSUME Timely, IInv, [Next]_vars
    PROVE  OnceInv'
<1>1. Typed /\ OnTheirWay /\ OwnLive /\ Answered /\ OnceInv
      /\ "runner" \in Sender /\ "user" \in Sender
  BY DEF IInv, Sender
<1>2. ASSUME NEW s \in Sender, Submit(s) \/ Refuse(s) \/ Decline(s)
      PROVE  OnceInv'
  <2>1. CASE Refuse(s)
    BY <1>1, <2>1, OnceTurnedDown DEF Refuse, queueVars, claudeVars
  <2> QED BY <1>1, <1>2, <2>1, OnceSubmit, OnceDecline
<1>3. ASSUME NEW p \in Prompt,
             \/ DecideSend(p) \/ SendNow(p) \/ SweepPresses(p) \/ SweepGivesUp(p)
             \/ Verdict(p) \/ Press(p) \/ Hook(p) \/ Ages(p) \/ InjectionSettles(p)
      PROVE  OnceInv'
  BY <1>1, <1>3, OnceDecides, OnceSends, OncePresses, OnceGivesUp, OnceVerdict, OncePress,
     OnceHook, OnceAges, OnceSettles
<1>4. CASE RunnerMarks \/ SweepCounts \/ GiveUp
  BY <1>1, <1>4, OnceRunnerMarks, OnceCounts
<1>5. CASE ScanReads
  BY <1>1, <1>5, OnceScanReads
<1>6. CASE Lapse \/ TurnEnds \/ UserEdits \/ ReArm \/ ScanJudges \/ UNCHANGED vars
  BY <1>1, <1>6, OnceQuiet
<1>7. ASSUME NEW a \in Attempt, Delivery(a) \/ Vanish(a)
      PROVE  OnceInv'
  BY <1>1, <1>7, OnceDelivery DEF Vanish, Timely
<1> QED
  BY <1>1, <1>2, <1>3, <1>4, <1>5, <1>6, <1>7 DEF Next, Runner, Sweep, User, UserSubmits

LEMMA Inductive ==
    ASSUME Timely
    PROVE  (Init => IInv) /\ (IInv /\ [Next]_vars => IInv')
<1>1. Init => IInv
  BY TypedInit, OwnLiveInit, AnsweredInit, OnceInit DEF IInv
<1>2. IInv /\ [Next]_vars => IInv'
  <2> SUFFICES ASSUME IInv, [Next]_vars PROVE IInv'
    OBVIOUS
  <2>1. Typed /\ OnTheirWay /\ OwnLive /\ Answered /\ ~Starved /\ ~MayVanish
    BY DEF IInv, Timely
  <2>2. Typed' /\ OnTheirWay'
    BY <2>1, TypedNext
  <2>3. OwnLive' /\ Answered'
    BY <2>1, OwnLiveNext, AnsweredNext
  <2>4. OnceInv'
    BY OnceNext
  <2> QED BY <2>2, <2>3, <2>4 DEF IInv
<1> QED BY <1>1, <1>2

(* Whatever is rolled back, reclaimed, pressed and sent again, a prompt of   *)
(* the queue becomes one message at most.                                   *)
THEOREM SendsOnce ==
    ASSUME Timely
    PROVE  Spec => []AtMostOnce
<1>1. IInv => AtMostOnce
  BY DEF IInv, OnceInv, Once, Heard, AtMostOnce
<1> QED BY <1>1, Inductive, PTL DEF Spec

(* A delivery that presses Enter does so for a row that still reads Sent.   *)
THEOREM ZombiesStayOut ==
    ASSUME Timely
    PROVE  Spec => ZombieStaysOut
<1> DEFINE Alive == \A a \in Attempt :
          att[a].pc = "verify" /\ att'[a] # att[a] /\ msgs'[att[a].p] > msgs[att[a].p] =>
              row[att[a].p].status = "Sent"
<1>1. IInv => Alive
  <2> SUFFICES ASSUME IInv, NEW a \in Attempt, att[a].pc = "verify"
               PROVE  row[att[a].p].status = "Sent"
    OBVIOUS
  <2>1. att[a].pc \in answering /\ att[a].pc \in Live
    BY DEF answering, Live, Typing
  <2>2. PICK p \in Prompt : p = att[a].p
    BY <2>1, PromptOf DEF IInv
  <2>3. Carried(p)
    BY <2>1, <2>2 DEF Carried, Types
  <2> QED BY <2>2, <2>3, CarriedIs DEF IInv, OnceInv
<1>2. IInv /\ [Next]_vars => [Alive]_vars
  BY <1>1
<1> HIDE DEF Alive
<1>3. Spec => [][Alive]_vars
  BY <1>2, Inductive, PTL DEF Spec
<1> QED BY <1>3 DEF ZombieStaysOut, Alive

(* A verdict of loss leaves the scanner's list when it is applied, or when   *)
(* the pass is judged anew and no row changes.                              *)
LEMMA VerdictLeaves ==
    ASSUME Typed, OnTheirWay, [Next]_vars, NEW p \in Prompt, p \in scan.lost, p \notin scan'.lost
    PROVE  ApplyLost(p) \/ row' = row
<1>1. scan' # scan
  OBVIOUS
<1>2. \A a \in Attempt : ~Delivery(a)
  BY <1>1, DeliveryIs DEF Moves
<1>3. ScanReads \/ ScanJudges \/ \E q \in Prompt : Verdict(q)
  <2>1. \A s \in Sender : ~(Submit(s) \/ Refuse(s) \/ Decline(s))
    BY <1>1 DEF Submit, Refuse, Decline
  <2>2. \A q \in Prompt :
            ~(DecideSend(q) \/ SendNow(q) \/ SweepPresses(q) \/ SweepGivesUp(q))
    BY <1>1 DEF DecideSend, SendNow, SweepPresses, SweepGivesUp
  <2>3. \A q \in Prompt : ~(Press(q) \/ Hook(q) \/ Ages(q) \/ InjectionSettles(q))
    BY <1>1 DEF Press, Hook, HookArrives, HookLost, Ages, InjectionSettles
  <2>4. ~(RunnerMarks \/ SweepCounts \/ GiveUp \/ UserEdits \/ ReArm \/ Lapse \/ TurnEnds)
    BY <1>1 DEF RunnerMarks, SweepCounts, GiveUp, UserEdits, ReArm, Lapse, TurnEnds
  <2>5. ~(\E a \in Attempt : Vanish(a)) /\ ~UNCHANGED vars
    BY <1>1 DEF Vanish, vars
  <2>6. "runner" \in Sender /\ "user" \in Sender
    BY DEF Sender
  <2> QED
    BY <1>2, <2>1, <2>2, <2>3, <2>4, <2>5, <2>6 DEF Next, Runner, Sweep, User, UserSubmits
<1>4. scan \in [at : {"idle", "read"}, lost : SUBSET Prompt, reclaim : SUBSET Prompt]
  BY DEF Typed
<1>5. CASE ScanReads
  <2>1. scan' = [scan EXCEPT !.at = "read"]
    BY <1>5 DEF ScanReads
  <2>2. scan'.lost = scan.lost
    BY <1>4, <2>1
  <2> QED BY <2>2
<1>6. CASE ScanJudges
  BY <1>6 DEF ScanJudges, queueVars
<1>7. ASSUME NEW q \in Prompt, ApplyLost(q)
      PROVE  ApplyLost(p)
  <2>1. scan' = [scan EXCEPT !.lost = scan.lost \ {q}]
    BY <1>7 DEF ApplyLost
  <2>2. scan'.lost = scan.lost \ {q}
    BY <1>4, <2>1
  <2>3. p = q
    BY <2>2
  <2> QED BY <1>7, <2>3
<1>8. ASSUME NEW q \in Prompt, ApplyReclaim(q)
      PROVE  FALSE
  <2>1. scan' = [scan EXCEPT !.reclaim = scan.reclaim \ {q}]
    BY <1>8 DEF ApplyReclaim
  <2>2. scan'.lost = scan.lost
    BY <1>4, <2>1
  <2> QED BY <2>2
<1> QED BY <1>3, <1>5, <1>6, <1>7, <1>8 DEF Verdict

(* A prompt that the scanner fails as lost has not become a message.        *)
THEOREM LostIsLost ==
    ASSUME Timely
    PROVE  Spec => LostVerdictSound
<1> DEFINE Sound == \A p \in scan.lost \ scan'.lost :
          row[p].status = "Sent" /\ row'[p].status = "Failed" => msgs[p] = 0
<1>1. IInv /\ [Next]_vars => [Sound]_vars
  <2> SUFFICES ASSUME IInv, [Next]_vars,
                      NEW p \in scan.lost, p \notin scan'.lost,
                      row[p].status = "Sent", row'[p].status = "Failed"
               PROVE  msgs[p] = 0
    BY DEF Sound
  <2>1. p \in Prompt /\ Typed /\ OnTheirWay /\ Once(p)
    BY DEF IInv, Typed, OnceInv
  <2>2. ApplyLost(p)
    BY <2>1, VerdictLeaves
  <2>3. Unechoed(p) /\ row[p].age >= 2 /\ row[p].injected = "settled"
    BY <2>2 DEF ApplyLost, queueVars
  <2> QED BY <2>1, <2>3 DEF Once, Heard
<1> HIDE DEF Sound
<1>2. Spec => [][Sound]_vars
  BY <1>1, Inductive, PTL DEF Spec
<1> QED BY <1>2 DEF LostVerdictSound, Sound
=============================================================================
