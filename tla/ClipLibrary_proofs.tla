------------------------- MODULE ClipLibrary_proofs -------------------------
(***************************************************************************)
(* Proofs about the clip library, for any clips, flows, versions, queue    *)
(* and number of requests, deaths, losses and failed writes.               *)
(*                                                                         *)
(* IInv of ClipLibrary is inductive.  What a step does to memory, rows and *)
(* the queue between them is one of a few things (LibrarySteps): nothing,  *)
(* a clip or a flow saved, a write committed (its answer heard or lost),   *)
(* or all of it lost or loaded.                                            *)
(***************************************************************************)
EXTENDS ClipLibrary, TLAPS

USE ClipAssumption, NoneIsNothing

-----------------------------------------------------------------------------
(***************************************************************************)
(* The invariant of the proofs.                                            *)
(***************************************************************************)

\* A process that is down holds nothing; one that boots has begun nothing.  The database
\* is empty until the first boot, and never again.
Lifecycle ==
    /\ phase = "down" =>
        /\ storeOk /\ writes = <<>> /\ asks = {} /\ versions = {}
        /\ (\A c \in Clips : clips[c] = None) /\ (\A f \in Flows : flows[f] = None)
    /\ phase # "serving" => \A c \in Clips : job[c] = "none"
    /\ ~ storeOk => writes = <<>>
    /\ phase # "down" \/ told # {} => flowRow[DemoFlow] # None
    /\ flowRow[DemoFlow] = None =>
        /\ (\A c \in Clips : clipRow[c] = None) /\ (\A f \in Flows : flowRow[f] = None)
        /\ versionRow = {}

\* The rows are what is in memory once the queue is written: the last write of a record
\* on its way is what memory holds, and without one the row is.
Live(f) == IF flowRow[f] = None \/ flowRow[f].deleted THEN None ELSE flowRow[f].flow
CatchesUp(kind, x, row, held) ==
    /\ Ahead(kind, x) = {} => row = held
    /\ \A i \in Ahead(kind, x) : (\A j \in Ahead(kind, x) : j <= i) => writes[i][3] = held
RowsCatchUp ==
    phase # "down" /\ storeOk =>
        /\ \A c \in Clips : CatchesUp("clip", c, clipRow[c], clips[c])
        /\ \A f \in Flows : CatchesUp("flow", f, Live(f), flows[f])

\* A clip whose files are in work is in no record, nor on its way to one.
JobsAreApart ==
    \A c \in Clips :
        /\ job[c] # "none" => clips[c] = None
        /\ job[c] \notin {"none", "deleting"} => clipRow[c] = None
        /\ clips[c] = None /\ job[c] # "deleting" => Ahead("clip", c) = {}
        /\ \A i \in Ahead("clip", c) : writes[i][3] = None => clips[c] = None
        /\ job[c] = "half" => media[c].original = "stored"
        /\ job[c] = "placed" => Whole(c)

\* What is recorded, or on its way to be, has its files; what the boot has looked at and
\* left ready has them whatever was lost.
BytesFollow ==
    /\ \A c \in Clips \ lost :
        /\ clips[c] # None /\ clips[c].files => Whole(c)
        /\ clipRow[c] # None /\ clipRow[c].files => Whole(c)
        /\ \A i \in Ahead("clip", c) : writes[i][3] # None /\ writes[i][3].files => Whole(c)
    /\ \A c \in Clips : (phase # "down" /\ c \notin toScan /\ clips[c] # None
                           /\ clips[c].files /\ clips[c].status = "ready") => Whole(c)
    /\ phase # "scanning" => toScan = {}

\* The boot changes the status of a record only.
BootKeeps ==
    phase \in {"scanning", "sweeping"} => \A c \in Clips :
        /\ clipRow[c] = None <=> clips[c] = None
        /\ clips[c] # None => clipRow[c].files = clips[c].files
        /\ \A i \in Ahead("clip", c) :
              clips[c] # None /\ writes[i][3] # None /\ writes[i][3].files = clips[c].files
        /\ c \in toScan => clips[c] # None

\* The numbers of a flow's writes go up by one with each publication, and a deletion is
\* the last of them; a row carries the newest that is taken, and that of the demonstration
\* flow none below the one it was seeded at.
Follows(before, after) ==
    IF after = None THEN before # None
    ELSE IF before = None THEN after.version = 0 /\ after.status = "draft"
    ELSE after.version = IF after.status = "published" THEN before.version + 1 ELSE before.version
SeededAt == flowRow[DemoFlow] # None => DemoVersion <= flowRow[DemoFlow].flow.version
NumbersGoUp ==
    /\ \A f \in Flows : NumbersAreTaken(f)
    /\ \A v, w \in versionRow : v[1] = w[1] /\ v[2] = w[2] => v = w
    /\ SeededAt
    /\ \A f \in Flows :
        /\ flowRow[f] # None /\ flowRow[f].deleted => Ahead("flow", f) = {} /\ flows[f] = None
        /\ \A i \in Ahead("flow", f) :
              /\ \A j \in Ahead("flow", f) : j < i => writes[j][3] # None
              /\ (\A j \in Ahead("flow", f) : i <= j) => Follows(Live(f), writes[i][3])
              /\ \A j \in Ahead("flow", f) :
                   (j < i /\ \A k \in Ahead("flow", f) : k <= j \/ i <= k)
                     => Follows(writes[j][3], writes[i][3])

\* A publication on its way is behind the clip it plays.
Publishes(i, v) ==
    i \in Ahead("flow", v[1]) /\ writes[i][3] # None /\ writes[i][3].status = "published"
      /\ writes[i][3].version = v[2] /\ writes[i][3].clip = v[3]
VersionsFollow ==
    /\ phase # "down" => versionRow \subseteq versions
    /\ \A v \in versions : v[3] # None => clips[v[3]] # None
    /\ \A v \in versionRow : flowRow[v[1]] # None /\ (v[3] # None => clipRow[v[3]] # None)
    /\ \A v \in Version, i \in DOMAIN writes : Publishes(i, v) =>
          /\ v \in versions
          /\ v[3] # None => clipRow[v[3]] # None \/ \E j \in Ahead("clip", v[3]) : j < i

\* What was told stands, and what waits to be told is on its way.
ToldStands ==
    /\ \A v \in Version : <<"published", v>> \in told => v \in versionRow
    /\ \A f \in Flows : <<"flow deleted", f>> \in told => flowRow[f] # None /\ flowRow[f].deleted
    /\ \A c \in Clips : <<"clip", c>> \in told =>
          clipRow[c] # None /\ (phase # "down" => clips[c] # None)
    /\ \A c \in Clips : <<"clip deleted", c>> \in told =>
          clipRow[c] = None /\ clips[c] = None /\ job[c] = "none"
AsksAreTrue ==
    storeOk =>
        /\ \A v \in Version : <<"published", v>> \in asks =>
              v \in versionRow \/ \E i \in DOMAIN writes : Publishes(i, v)
        /\ \A f \in Flows : <<"flow deleted", f>> \in asks =>
              flows[f] = None /\ ((flowRow[f] # None /\ flowRow[f].deleted) \/ Ahead("flow", f) # {})
        /\ \A c \in Clips : <<"clip", c>> \in asks => clips[c] # None
        /\ \A c \in Clips : <<"clip deleted", c>> \notin asks

IInv ==
    /\ TypeOK /\ Lifecycle /\ RowsCatchUp /\ JobsAreApart /\ BytesFollow /\ BootKeeps
    /\ NumbersGoUp /\ VersionsFollow /\ ToldStands /\ AsksAreTrue

-----------------------------------------------------------------------------
(* Records, writes and answers. *)

LEMMA Records ==
  /\ DemoRecord \in ClipRecord /\ UploadedRecord \in ClipRecord /\ ~DemoRecord.files
  /\ EmptyDraft \in FlowRecord /\ EmptyDraft.version = 0 /\ EmptyDraft.status = "draft"
  /\ Seed \in FlowRecord /\ Seed.version = DemoVersion /\ Seed.status = "published" /\ Seed.clip = DemoClip
  /\ NoFiles \in [Files -> Places]
  /\ DemoClip \in Clips /\ DemoClip # None
  BY DEF DemoRecord, UploadedRecord, EmptyDraft, Seed, ClipRecord, FlowRecord, NoFiles, Places

LEMMA NoneIsNoRecord ==
  /\ \A r \in ClipRecord : r # None
  /\ \A r \in FlowRecord : r # None
  /\ \A r \in [deleted : BOOLEAN, flow : FlowRecord] : r # None
  OBVIOUS

LEMMA WriteKinds ==
  /\ \A w \in Write : \/ w[1] = "clip" /\ w[2] \in Clips /\ w[3] \in ClipRecord \cup {None}
                      \/ w[1] = "flow" /\ w[2] \in Flows /\ w[3] \in FlowRecord \cup {None}
  /\ \A c \in Clips, r \in ClipRecord \cup {None} : <<"clip", c, r>> \in Write
  /\ \A f \in Flows, r \in FlowRecord \cup {None} : <<"flow", f, r>> \in Write
  BY DEF Write

LEMMA VersionFields ==
  /\ \A v \in Version : /\ v = <<v[1], v[2], v[3]>> /\ v[1] \in Flows
                        /\ v[2] \in 1 .. MaxVersions /\ v[3] \in Clips \cup {None}
  /\ \A f \in Flows, n \in 1 .. MaxVersions, c \in Clips \cup {None} : <<f, n, c>> \in Version
  BY DEF Version

LEMMA FactKinds ==
  /\ \A a \in Fact : \/ \E c \in Clips : a = <<"clip", c>>
                     \/ \E c \in Clips : a = <<"clip deleted", c>>
                     \/ \E f \in Flows : a = <<"flow deleted", f>>
                     \/ \E v \in Version : a = <<"published", v>>
  /\ \A c \in Clips : <<"clip", c>> \in Fact /\ <<"clip deleted", c>> \in Fact
  /\ \A f \in Flows : <<"flow deleted", f>> \in Fact
  /\ \A v \in Version : <<"published", v>> \in Fact
  BY DEF Fact

-----------------------------------------------------------------------------
(* The queue. *)

\* x is put at the end, at place n.
Joined(n, x) ==
  /\ n \in Nat /\ \A i \in DOMAIN writes : i \in Nat /\ i < n
  /\ DOMAIN writes' = DOMAIN writes \cup {n} /\ writes'[n] = x
  /\ \A i \in DOMAIN writes : writes'[i] = writes[i]

\* The write at place 1 is taken away, and the others move up or, with a failure, go too.
MovedUp ==
  /\ 1 \in DOMAIN writes /\ \A i \in DOMAIN writes : i \in Nat /\ i >= 1
  /\ \A i \in DOMAIN writes' : i \in Nat /\ i >= 1 /\ i + 1 \in DOMAIN writes /\ writes'[i] = writes[i + 1]
  /\ storeOk' \/ DOMAIN writes' # {} => \A i \in DOMAIN writes : i = 1 \/ i - 1 \in DOMAIN writes'

LEMMA Joins ==
  ASSUME writes \in Seq(Write), NEW x, writes' = Append(writes, x)
  PROVE  \E n \in Nat : Joined(n, x)
<1>1. /\ DOMAIN writes' = 1..(Len(writes) + 1) /\ DOMAIN writes = 1..Len(writes) /\ Len(writes) \in Nat
      /\ writes'[Len(writes) + 1] = x /\ \A i \in 1..Len(writes) : writes'[i] = writes[i]
  OBVIOUS
<1> DEFINE n == Len(writes)
<1>2. n \in Nat /\ DOMAIN writes = 1..n /\ DOMAIN writes' = 1..(n + 1) /\ writes'[n + 1] = x
      /\ \A i \in 1..n : writes'[i] = writes[i]
  BY <1>1
<1> HIDE DEF n
<1>3. Joined(n + 1, x)
  BY <1>2 DEF Joined
<1> QED BY <1>2, <1>3

LEMMA Leaves ==
  ASSUME writes \in Seq(Write), writes # <<>>, writes' = Tail(writes)
  PROVE  MovedUp /\ writes' \in Seq(Write) /\ Head(writes) = writes[1] /\ writes[1] \in Write
<1>1. /\ DOMAIN writes' = 1..(Len(writes) - 1) /\ DOMAIN writes = 1..Len(writes) /\ Len(writes) \in Nat \ {0}
      /\ \A i \in 1..(Len(writes) - 1) : writes'[i] = writes[i + 1]
      /\ writes' \in Seq(Write) /\ Head(writes) = writes[1] /\ writes[1] \in Write
  OBVIOUS
<1> DEFINE n == Len(writes)
<1>2. n \in Nat \ {0} /\ DOMAIN writes = 1..n /\ DOMAIN writes' = 1..(n - 1)
      /\ \A i \in 1..(n - 1) : writes'[i] = writes[i + 1]
  BY <1>1
<1> HIDE DEF n
<1>3. MovedUp
  BY <1>2 DEF MovedUp
<1> QED BY <1>1, <1>3

LEMMA AllLeave ==
  ASSUME writes \in Seq(Write), writes # <<>>, writes' = <<>>, ~storeOk'
  PROVE  MovedUp /\ writes' \in Seq(Write) /\ Head(writes) = writes[1] /\ writes[1] \in Write
<1>1. /\ DOMAIN writes' = {} /\ DOMAIN writes = 1..Len(writes) /\ Len(writes) \in Nat \ {0}
      /\ writes' \in Seq(Write) /\ Head(writes) = writes[1] /\ writes[1] \in Write
  OBVIOUS
<1> DEFINE n == Len(writes)
<1>2. n \in Nat \ {0} /\ DOMAIN writes = 1..n /\ DOMAIN writes' = {} /\ ~storeOk'
  BY <1>1
<1> HIDE DEF n
<1>3. MovedUp
  BY <1>2 DEF MovedUp
<1> QED BY <1>1, <1>3

LEMMA NothingAhead ==
  ASSUME writes = <<>>
  PROVE  DOMAIN writes = {} /\ \A kind, x : Ahead(kind, x) = {}
  BY DEF Ahead

LEMMA QueuedWrites ==
  ASSUME writes \in Seq(Write)
  PROVE  /\ \A i \in DOMAIN writes : writes[i] \in Write /\ i \in Nat
         /\ \A c \in Clips : \A i \in Ahead("clip", c) : writes[i][3] \in ClipRecord \cup {None}
         /\ \A f \in Flows : \A i \in Ahead("flow", f) : writes[i][3] \in FlowRecord \cup {None}
<1>1. \A i \in DOMAIN writes : writes[i] \in Write /\ i \in Nat
  OBVIOUS
<1> QED BY <1>1, WriteKinds DEF Ahead

\* The places of one record's writes.
LEMMA AheadJoined ==
  ASSUME NEW n \in Nat, NEW x, Joined(n, x), NEW kind, NEW y
  PROVE  /\ Ahead(kind, y) \subseteq Nat /\ \A i \in Ahead(kind, y) : i < n
         /\ \A i \in Ahead(kind, y) : writes'[i] = writes[i]
         /\ x[1] = kind /\ x[2] = y => Ahead(kind, y)' = Ahead(kind, y) \cup {n} /\ writes'[n] = x
         /\ ~(x[1] = kind /\ x[2] = y) => Ahead(kind, y)' = Ahead(kind, y)
  BY DEF Joined, Ahead

LEMMA AheadMoved ==
  ASSUME MovedUp, NEW kind, NEW y
  PROVE  /\ \A i \in Ahead(kind, y) : i \in Nat /\ i >= 1
         /\ \A i \in Ahead(kind, y)' : i \in Nat /\ i >= 1 /\ i + 1 \in Ahead(kind, y) /\ writes'[i] = writes[i + 1]
         /\ storeOk' \/ DOMAIN writes' # {} => \A i \in Ahead(kind, y) : i = 1 \/ i - 1 \in Ahead(kind, y)'
<1>1. storeOk' \/ DOMAIN writes' # {} =>
        \A i \in DOMAIN writes : i = 1 \/ (i - 1 \in DOMAIN writes' /\ (i - 1) + 1 = i)
  BY DEF MovedUp
<1> QED BY <1>1 DEF MovedUp, Ahead

-----------------------------------------------------------------------------
(* What a step does to memory, the rows and the queue. *)

Up == phase # "down" /\ phase' # "down" /\ storeOk

Still == UNCHANGED <<cache, rows, writes, storeOk>> /\ (phase = "down" <=> phase' = "down")

\* A failure: of the write, or of its answer only.
NothingWritten == WriteFails /\ UNCHANGED rows
AnswerLost == WriteFails /\ Written(Head(writes))

\* A clip is saved or, as r is None, deleted.  Only a clip that has both files is saved as
\* one that names them, unless it is archived.
NamesItsFiles(c, r) ==
  r # None /\ r.files => Whole(c) \/ (clips[c] # None /\ clips[c].files /\ r.status = "archived")
ClipSaved(c, r) ==
  /\ Up /\ SaveClip(c, r) /\ UNCHANGED <<rows, storeOk, flows, versions>>
  /\ r = None => clips[c] # None /\ ~ReferencedByVersion(c)
  /\ clips[c] = None => Ahead("clip", c) = {}
  /\ NamesItsFiles(c, r)

FlowSaved(f, r) ==
  /\ Up /\ SaveFlow(f, r) /\ UNCHANGED <<rows, storeOk, clips>>
  /\ Follows(flows[f], r)
  /\ r.status = "published" => Playable(r.clip)
  /\ flows[f] = None => flowRow[f] = None /\ Ahead("flow", f) = {}

FlowDropped(f) ==
  /\ Up /\ flows[f] # None /\ DropFlow(f) /\ UNCHANGED <<rows, storeOk, clips, versions>>

Committed(kind, x, r) ==
  /\ Up /\ MovedUp /\ writes' \in Seq(Write) /\ 1 \in Ahead(kind, x) /\ writes[1][3] = r
  /\ UNCHANGED cache /\ storeOk' \in BOOLEAN
ClipCommitted(c, r) ==
  /\ Committed("clip", c, r) /\ clipRow' = [clipRow EXCEPT ![c] = r] /\ UNCHANGED <<flowRow, versionRow>>
FlowCommitted(f, r) ==
  /\ Committed("flow", f, r) /\ flowRow' = [flowRow EXCEPT ![f] = [deleted |-> FALSE, flow |-> r]]
  /\ versionRow' = IF r.status = "published" THEN versionRow \cup {<<f, r.version, r.clip>>} ELSE versionRow
  /\ UNCHANGED clipRow
FlowForgotten(f) ==
  /\ Committed("flow", f, None) /\ flowRow' = [flowRow EXCEPT ![f] = [deleted |-> TRUE, flow |-> @.flow]]
  /\ UNCHANGED <<clipRow, versionRow>>

LibraryStep ==
  \/ Still \/ NothingWritten \/ Exit \/ Connect
  \/ \E c \in Clips : \E r \in ClipRecord \cup {None} : ClipSaved(c, r) \/ ClipCommitted(c, r)
  \/ \E f \in Flows : \E r \in FlowRecord : FlowSaved(f, r) \/ FlowCommitted(f, r)
  \/ \E f \in Flows : FlowDropped(f) \/ FlowForgotten(f)

LEMMA CommitDoes ==
  ASSUME TypeOK, Commit \/ AnswerLost
  PROVE  \/ \E c \in Clips : \E r \in ClipRecord \cup {None} : ClipCommitted(c, r)
         \/ \E f \in Flows : \E r \in FlowRecord : FlowCommitted(f, r)
         \/ \E f \in Flows : FlowForgotten(f)
<1>1. /\ writes \in Seq(Write) /\ writes # <<>> /\ Up /\ UNCHANGED cache
      /\ (writes' = Tail(writes) /\ storeOk' = storeOk) \/ (writes' = <<>> /\ storeOk' = FALSE)
  BY DEF TypeOK, Commit, AnswerLost, WriteFails, cache, Up
<1>2. /\ MovedUp /\ writes' \in Seq(Write) /\ Head(writes) = writes[1] /\ writes[1] \in Write
      /\ storeOk' \in BOOLEAN
  <2>1. CASE writes' = Tail(writes) /\ storeOk' = storeOk
    <3>1. storeOk' \in BOOLEAN
      BY <2>1 DEF TypeOK
    <3> QED BY <1>1, <2>1, <3>1, Leaves
  <2>2. CASE writes' = <<>> /\ storeOk' = FALSE
    <3>1. storeOk' \in BOOLEAN
      BY <2>2, Zenon
    <3> QED BY <1>1, <2>2, <3>1, AllLeave
  <2> QED BY <1>1, <2>1, <2>2
<1>3. PICK w : w = writes[1]
  OBVIOUS
<1>4. w \in Write /\ w = Head(writes) /\ 1 \in DOMAIN writes
  BY <1>2, <1>3 DEF MovedUp
<1>5. Committed(w[1], w[2], w[3])
  BY <1>1, <1>2, <1>3, <1>4 DEF Committed, Ahead
<1>6. IF w[1] = "clip"
      THEN /\ clipRow' = [clipRow EXCEPT ![w[2]] = w[3]]
           /\ UNCHANGED <<flowRow, versionRow>>
      ELSE /\ flowRow' = [flowRow EXCEPT ![w[2]] =
                 IF w[3] = None THEN [deleted |-> TRUE, flow |-> @.flow]
                 ELSE [deleted |-> FALSE, flow |-> w[3]]]
           /\ versionRow' = IF w[3] # None /\ w[3].status = "published"
                            THEN versionRow \cup {<<w[2], w[3].version, w[3].clip>>} ELSE versionRow
           /\ UNCHANGED clipRow
  BY <1>4 DEF Commit, AnswerLost, Written
<1>7. CASE w[1] = "clip"
  <2>1. w[2] \in Clips /\ w[3] \in ClipRecord \cup {None}
    BY <1>4, <1>7, WriteKinds
  <2>2. ClipCommitted(w[2], w[3])
    BY <1>5, <1>6, <1>7 DEF ClipCommitted
  <2> QED BY <2>1, <2>2
<1>8. CASE w[1] = "flow" /\ w[3] # None
  <2>1. w[2] \in Flows /\ w[3] \in FlowRecord
    BY <1>4, <1>8, WriteKinds
  <2>2. FlowCommitted(w[2], w[3])
    BY <1>5, <1>6, <1>8 DEF FlowCommitted
  <2> QED BY <2>1, <2>2
<1>9. CASE w[1] = "flow" /\ w[3] = None
  <2>1. w[2] \in Flows
    BY <1>4, <1>9, WriteKinds
  <2>2. FlowForgotten(w[2])
    BY <1>5, <1>6, <1>9 DEF FlowForgotten
  <2> QED BY <2>1, <2>2
<1> QED BY <1>4, <1>7, <1>8, <1>9, WriteKinds

LEMMA LibrarySteps ==
  ASSUME IInv, [Next]_vars
  PROVE  LibraryStep
<1>1. TypeOK /\ Lifecycle /\ JobsAreApart /\ BootKeeps
  BY DEF IInv
<1>2. clips \in [Clips -> ClipRecord \cup {None}] /\ flows \in [Flows -> FlowRecord \cup {None}]
  BY <1>1 DEF TypeOK
<1> USE DEF cache, rows, world, bounds
<1>3. CASE UNCHANGED vars
  BY <1>3 DEF vars, Still, LibraryStep
<1>4. CASE Commit \/ AnswerLost
  BY <1>1, <1>4, CommitDoes DEF LibraryStep
<1>5. CASE NothingWritten \/ Exit \/ Connect
  BY <1>5 DEF LibraryStep
<1>6. CASE ScanOver \/ Serve
  BY <1>6 DEF ScanOver, Serve, Still, LibraryStep
<1>7. ASSUME NEW c \in Clips, ScanRecord(c) PROVE LibraryStep
  <2>1. phase = "scanning" /\ storeOk /\ UNCHANGED phase /\ clips[c] # None /\ UNCHANGED <<rows, storeOk, flows, versions>>
    BY <1>1, <1>7 DEF ScanRecord, BootKeeps
  <2>2. CASE UNCHANGED <<clips, writes>>
    BY <2>1, <2>2 DEF Still, LibraryStep
  <2>3. CASE SaveClip(c, [clips[c] EXCEPT !.status = "archived"])
    <3>1. PICK r : r = [clips[c] EXCEPT !.status = "archived"]
      OBVIOUS
    <3>2. r \in ClipRecord /\ NamesItsFiles(c, r)
      BY <1>2, <2>1, <3>1 DEF ClipRecord, NamesItsFiles
    <3>3. ClipSaved(c, r)
      BY <2>1, <2>3, <3>1, <3>2, NoneIsNoRecord DEF ClipSaved, Up
    <3> QED BY <3>2, <3>3 DEF LibraryStep
  <2> QED BY <1>7, <2>2, <2>3 DEF ScanRecord
<1>8. ASSUME NEW c \in Clips, NEW h \in Files, SetAside(c, h) \/ Unlink(c, h) \/ LoseFile(c, h) PROVE LibraryStep
  BY <1>8 DEF SetAside, Unlink, LoseFile, Still, LibraryStep
<1>9. ASSUME NEW a, Respond(a) \/ RespondFailed(a) PROVE LibraryStep
  BY <1>9 DEF Respond, RespondFailed, Still, LibraryStep
<1>10. ASSUME NEW f \in Flows, CreateDraft(f) PROVE LibraryStep
  <2>1. /\ storeOk /\ phase = "serving" /\ SaveFlow(f, EmptyDraft) /\ NewFlowId(f)
        /\ UNCHANGED <<rows, storeOk, phase, clips>>
    BY <1>10 DEF CreateDraft, Writable, Request
  <2>2. Follows(flows[f], EmptyDraft) /\ EmptyDraft.status # "published"
    BY <2>1, Records, NoneIsNoRecord DEF NewFlowId, Follows
  <2>3. FlowSaved(f, EmptyDraft)
    BY <2>1, <2>2 DEF FlowSaved, NewFlowId, Up
  <2> QED BY <2>3, Records DEF LibraryStep
<1>11. ASSUME NEW f \in Flows, NEW c \in Clips \cup {None}, EditFlow(f, c) PROVE LibraryStep
  <2>1. /\ storeOk /\ phase = "serving" /\ SaveFlow(f, SavedAs(f, c)) /\ flows[f] # None
        /\ UNCHANGED <<rows, storeOk, phase, clips>>
    BY <1>11 DEF EditFlow, Writable, Request
  <2>2. PICK r : r = SavedAs(f, c)
    OBVIOUS
  <2>3. r \in FlowRecord /\ r.status = "draft" /\ r.version = flows[f].version
    BY <1>2, <2>1, <2>2 DEF SavedAs, FlowRecord
  <2>4. Follows(flows[f], r)
    BY <2>1, <2>3, NoneIsNoRecord DEF Follows
  <2>5. FlowSaved(f, r)
    BY <2>1, <2>2, <2>3, <2>4 DEF FlowSaved, Up
  <2> QED BY <2>3, <2>5 DEF LibraryStep
<1>12. ASSUME NEW f \in Flows, PublishFlow(f) PROVE LibraryStep
  <2>1. PICK r : r = [flows[f] EXCEPT !.version = @ + 1, !.status = "published"]
    OBVIOUS
  <2>2. /\ storeOk /\ phase = "serving" /\ SaveFlow(f, r) /\ flows[f] # None /\ Playable(flows[f].clip)
        /\ flows[f].version < MaxVersions /\ UNCHANGED <<rows, storeOk, phase, clips>>
    BY <1>12, <2>1 DEF PublishFlow, Writable, Request
  <2>3. r \in FlowRecord /\ r.status = "published" /\ r.version = flows[f].version + 1 /\ r.clip = flows[f].clip
    <3>1. flows[f] \in FlowRecord
      BY <1>2, <2>2
    <3>2. flows[f].version + 1 \in 0 .. MaxVersions
      BY <2>2, <3>1 DEF FlowRecord
    <3> QED BY <2>1, <3>1, <3>2 DEF FlowRecord
  <2>4. Follows(flows[f], r)
    BY <2>2, <2>3, NoneIsNoRecord DEF Follows
  <2>5. FlowSaved(f, r)
    BY <2>2, <2>3, <2>4 DEF FlowSaved, Up
  <2> QED BY <2>3, <2>5 DEF LibraryStep
<1>13. ASSUME NEW f \in Flows, DeleteFlow(f) PROVE LibraryStep
  BY <1>13 DEF DeleteFlow, Writable, Request, DropFlow, FlowDropped, Up, LibraryStep
<1>14. ASSUME NEW c \in Clips, CreateClip(c) PROVE LibraryStep
  <2>1. Ahead("clip", c) = {}
    BY <1>1, <1>14 DEF CreateClip, NewClipId, JobsAreApart
  <2>2. ClipSaved(c, DemoRecord)
    BY <1>14, <2>1, Records, NoneIsNoRecord DEF CreateClip, Writable, Request, ClipSaved, NamesItsFiles, Up
  <2> QED BY <2>2, Records DEF LibraryStep
<1>15. ASSUME NEW c \in Clips, ArchiveClip(c) PROVE LibraryStep
  <2>1. PICK r : r = [clips[c] EXCEPT !.status = "archived"]
    OBVIOUS
  <2>2. r \in ClipRecord /\ NamesItsFiles(c, r)
    BY <1>2, <1>15, <2>1 DEF ArchiveClip, ClipRecord, NamesItsFiles
  <2>3. ClipSaved(c, r)
    BY <1>15, <2>1, <2>2, NoneIsNoRecord DEF ArchiveClip, Writable, Request, ClipSaved, Up
  <2> QED BY <2>2, <2>3 DEF LibraryStep
<1>16. ASSUME NEW c \in Clips, DeleteClip(c) PROVE LibraryStep
  <2>1. ClipSaved(c, None)
    BY <1>16 DEF DeleteClip, Writable, Request, ClipSaved, NamesItsFiles, Up
  <2> QED BY <2>1 DEF LibraryStep
<1>17. ASSUME NEW c \in Clips, CreateUploaded(c) PROVE LibraryStep
  <2>1. job[c] = "placed" /\ phase = "serving" /\ UNCHANGED <<rows, storeOk, phase, flows, versions>>
    BY <1>1, <1>17 DEF CreateUploaded, Lifecycle
  <2>2. CASE ~storeOk
    BY <1>17, <2>1, <2>2 DEF CreateUploaded, Still, LibraryStep
  <2>3. CASE storeOk
    <3>1. Ahead("clip", c) = {} /\ SaveClip(c, UploadedRecord) /\ Whole(c)
      BY <1>1, <1>17, <2>1, <2>3 DEF CreateUploaded, JobsAreApart
    <3>2. ClipSaved(c, UploadedRecord)
      BY <2>1, <2>3, <3>1, Records, NoneIsNoRecord DEF ClipSaved, NamesItsFiles, Up
    <3> QED BY <3>2, Records DEF LibraryStep
  <2> QED BY <2>2, <2>3
<1>18. ASSUME NEW c \in Clips,
              \/ StageUpload(c) \/ StartConversion(c) \/ Converted(c) \/ MoveOriginal(c) \/ MoveCanonical(c)
              \/ RejectUpload(c) \/ AbandonUpload(c) \/ DeletionFlushed(c) \/ ClipDeleted(c)
       PROVE  LibraryStep
  BY <1>18 DEF StageUpload, StartConversion, Converted, MoveOriginal, MoveCanonical, RejectUpload, AbandonUpload,
               Abandoned, DeletionFlushed, ClipDeleted, Request, Still, LibraryStep
<1> QED BY <1>3, <1>4, <1>5, <1>6, <1>7, <1>8, <1>9, <1>10, <1>11, <1>12, <1>13, <1>14, <1>15, <1>16, <1>17, <1>18
        DEF Next, BootStep, UploadStep, WriteFails, NothingWritten, AnswerLost

-----------------------------------------------------------------------------
(* Types. *)

LibraryTypes ==
  /\ clips \in [Clips -> ClipRecord \cup {None}] /\ clipRow \in [Clips -> ClipRecord \cup {None}]
  /\ flows \in [Flows -> FlowRecord \cup {None}]
  /\ flowRow \in [Flows -> [deleted : BOOLEAN, flow : FlowRecord] \cup {None}]
  /\ versions \subseteq Version /\ versionRow \subseteq Version
  /\ writes \in Seq(Write) /\ storeOk \in BOOLEAN

LEMMA LiveTypes ==
  ASSUME LibraryTypes, NEW f \in Flows
  PROVE  /\ Live(f) \in FlowRecord \cup {None}
         /\ Live(f) # None => flowRow[f] # None /\ ~flowRow[f].deleted /\ Live(f) = flowRow[f].flow
         /\ flowRow[f] # None => flowRow[f].deleted \in BOOLEAN /\ flowRow[f].flow \in FlowRecord
         /\ flowRow[f] # None /\ ~flowRow[f].deleted => Live(f) = flowRow[f].flow /\ Live(f) # None
  BY NoneIsNoRecord DEF LibraryTypes, Live

\* Only a flow that is there is published, under the number after the last.
LEMMA Published ==
  ASSUME NEW before \in FlowRecord \cup {None}, NEW r \in FlowRecord, Follows(before, r),
         r.status = "published"
  PROVE  /\ before # None /\ r.version = before.version + 1 /\ r.version \in 1 .. MaxVersions
         /\ \A f \in Flows : <<f, r.version, r.clip>> \in Version
<1>1. r # None /\ r.version \in 0 .. MaxVersions /\ r.clip \in Clips \cup {None}
  BY NoneIsNoRecord DEF FlowRecord
<1>2. before # None /\ r.version = before.version + 1
  BY <1>1 DEF Follows
<1>3. before.version \in Nat
  BY <1>2 DEF FlowRecord
<1>4. r.version \in 1 .. MaxVersions
  BY <1>1, <1>2, <1>3
<1> QED BY <1>1, <1>2, <1>4, VersionFields

\* The write at the head goes on from the row.
LEMMA HeadFollows ==
  ASSUME NumbersGoUp, NEW f \in Flows, NEW r, Committed("flow", f, r)
  PROVE  Follows(Live(f), r)
<1>1. 1 \in Ahead("flow", f) /\ writes[1][3] = r /\ \A j \in Ahead("flow", f) : 1 <= j
  BY AheadMoved DEF Committed
<1> QED BY <1>1 DEF NumbersGoUp

LEMMA ForgottenRow ==
  ASSUME LibraryTypes, NumbersGoUp, NEW f \in Flows, FlowForgotten(f)
  PROVE  flowRow[f] # None /\ ~flowRow[f].deleted
<1>1. Follows(Live(f), None)
  BY HeadFollows DEF FlowForgotten
<1> QED BY <1>1, LiveTypes DEF Follows

LEMMA LibraryTypesStep ==
  ASSUME IInv, LibraryStep
  PROVE  LibraryTypes'
<1>1. LibraryTypes /\ NumbersGoUp /\ writes \in Seq(Write)
  BY DEF IInv, TypeOK, LibraryTypes
<1> USE DEF cache, rows
<1>2. CASE Still
  BY <1>1, <1>2 DEF Still, LibraryTypes
<1>3. CASE NothingWritten
  <2>1. writes' = <<>> /\ storeOk' = FALSE /\ UNCHANGED <<cache, rows>>
    BY <1>3 DEF WriteFails, NothingWritten
  <2>2. <<>> \in Seq(Write)
    OBVIOUS
  <2>3. writes' \in Seq(Write) /\ storeOk' \in BOOLEAN
    BY <2>1, <2>2, Zenon
  <2> QED BY <1>1, <2>1, <2>3 DEF LibraryTypes
<1>4. CASE Exit
  BY <1>1, <1>4 DEF Exit, LibraryTypes
<1>5. CASE Connect
  <2>1. clipRow' \in [Clips -> ClipRecord \cup {None}]
    BY <1>1, <1>5, Records DEF Connect, SeededClips, LibraryTypes
  <2>2. flowRow' \in [Flows -> [deleted : BOOLEAN, flow : FlowRecord] \cup {None}]
    <3>1. flowRow' = flowRow \/ flowRow' = SeededFlows
      BY <1>5 DEF Connect
    <3>2. PICK r \in [deleted : BOOLEAN, flow : FlowRecord] : r = [deleted |-> FALSE, flow |-> Seed]
      BY Records
    <3>3. SeededFlows \in [Flows -> [deleted : BOOLEAN, flow : FlowRecord] \cup {None}]
      BY <1>1, <3>2 DEF SeededFlows, LibraryTypes
    <3> QED BY <1>1, <3>1, <3>3 DEF LibraryTypes
  <2>3. versionRow' \subseteq Version
    <3>1. <<DemoFlow, DemoVersion, DemoClip>> \in Version
      BY VersionFields, Records
    <3> QED BY <1>1, <1>5, <3>1 DEF Connect, LibraryTypes
  <2>4. clips' = clipRow' /\ versions' = versionRow' /\ UNCHANGED <<writes, storeOk>>
        /\ flows' = [f \in Flows |-> IF flowRow'[f] = None \/ flowRow'[f].deleted THEN None ELSE flowRow'[f].flow]
    BY <1>5 DEF Connect, Loads
  <2>5. flows' \in [Flows -> FlowRecord \cup {None}]
    BY <2>2, <2>4, NoneIsNoRecord
  <2> QED BY <1>1, <2>1, <2>2, <2>3, <2>4, <2>5 DEF LibraryTypes
<1>6. ASSUME NEW c \in Clips, NEW r \in ClipRecord \cup {None}, ClipSaved(c, r) PROVE LibraryTypes'
  <2>1. <<"clip", c, r>> \in Write
    BY WriteKinds
  <2> QED BY <1>1, <1>6, <2>1 DEF ClipSaved, SaveClip, LibraryTypes
<1>7. ASSUME NEW c \in Clips, NEW r \in ClipRecord \cup {None}, ClipCommitted(c, r) PROVE LibraryTypes'
  BY <1>1, <1>7 DEF ClipCommitted, Committed, LibraryTypes
<1>8. ASSUME NEW f \in Flows, NEW r \in FlowRecord, FlowSaved(f, r) PROVE LibraryTypes'
  <2>1. <<"flow", f, r>> \in Write
    BY WriteKinds
  <2>2. r.status = "published" => <<f, r.version, r.clip>> \in Version
    BY <1>1, <1>8, Published DEF FlowSaved, LibraryTypes
  <2>3. versions' \subseteq Version
    BY <1>1, <1>8, <2>2 DEF FlowSaved, SaveFlow, LibraryTypes
  <2> QED BY <1>1, <1>8, <2>1, <2>3 DEF FlowSaved, SaveFlow, LibraryTypes
<1>9. ASSUME NEW f \in Flows, NEW r \in FlowRecord, FlowCommitted(f, r) PROVE LibraryTypes'
  <2>1. Follows(Live(f), r) /\ Live(f) \in FlowRecord \cup {None}
    BY <1>1, <1>9, HeadFollows, LiveTypes DEF FlowCommitted
  <2>2. r.status = "published" => <<f, r.version, r.clip>> \in Version
    BY <2>1, Published
  <2>3. versionRow' \subseteq Version
    BY <1>1, <1>9, <2>2 DEF FlowCommitted, LibraryTypes
  <2> QED BY <1>1, <1>9, <2>3 DEF FlowCommitted, Committed, LibraryTypes
<1>10. ASSUME NEW f \in Flows, FlowDropped(f) PROVE LibraryTypes'
  <2>1. <<"flow", f, None>> \in Write
    BY WriteKinds
  <2> QED BY <1>1, <1>10, <2>1 DEF FlowDropped, DropFlow, LibraryTypes
<1>11. ASSUME NEW f \in Flows, FlowForgotten(f) PROVE LibraryTypes'
  <2>1. flowRow[f].flow \in FlowRecord
    BY <1>1, <1>11, ForgottenRow, LiveTypes
  <2> QED BY <1>1, <1>11, <2>1 DEF FlowForgotten, Committed, LibraryTypes
<1> QED BY <1>2, <1>3, <1>4, <1>5, <1>6, <1>7, <1>8, <1>9, <1>10, <1>11 DEF LibraryStep

FileTypes ==
  /\ media \in [Clips -> [Files -> Places]]
  /\ job \in [Clips -> {"none", "staged", "converting", "converted", "half", "placed", "deleting", "unlinking"}]
  /\ asks \subseteq Fact /\ told \subseteq Fact
  /\ phase \in {"down", "scanning", "sweeping", "serving"} /\ toScan \subseteq Clips
  /\ lost \subseteq Clips /\ requests \in 0 .. MaxRequests /\ exits \in 0 .. MaxExits /\ troubles \in 0 .. MaxTroubles

LEMMA FileTypesStep ==
  ASSUME TypeOK, [Next]_vars
  PROVE  FileTypes'
<1>1. FileTypes /\ LibraryTypes
  BY DEF TypeOK, FileTypes, LibraryTypes
<1> USE DEF world, bounds
<1>2. MaxRequests \in Nat /\ MaxExits \in Nat /\ MaxTroubles \in Nat /\ MaxVersions \in Nat
  OBVIOUS
<1>3. ASSUME Request PROVE requests' \in 0 .. MaxRequests
  BY <1>1, <1>2, <1>3 DEF Request, FileTypes
<1>4. CASE UNCHANGED vars
  BY <1>1, <1>4 DEF vars, FileTypes
<1>5. CASE Commit
  BY <1>1, <1>5 DEF Commit, FileTypes
<1>6. CASE WriteFails
  <2>1. troubles' \in 0 .. MaxTroubles
    BY <1>1, <1>2, <1>6 DEF WriteFails, FileTypes
  <2> QED BY <1>1, <1>6, <2>1 DEF WriteFails, FileTypes
<1>7. CASE Exit
  <2>1. exits' \in 0 .. MaxExits
    BY <1>1, <1>2, <1>7 DEF Exit, FileTypes
  <2>2. job' = [c \in Clips |-> "none"] /\ asks' = {} /\ toScan' = {} /\ phase' = "down"
        /\ UNCHANGED <<requests, media, told, lost, troubles>>
    BY <1>7 DEF Exit
  <2> QED BY <1>1, <2>1, <2>2 DEF FileTypes
<1>8. CASE Connect
  <2>1. toScan' \subseteq Clips /\ phase' = "scanning"
    BY <1>8 DEF Connect
  <2> QED BY <1>1, <1>8, <2>1 DEF Connect, FileTypes
<1>9. CASE ScanOver \/ Serve
  BY <1>1, <1>9 DEF ScanOver, Serve, FileTypes
<1>10. ASSUME NEW c \in Clips, ScanRecord(c) PROVE FileTypes'
  BY <1>1, <1>10 DEF ScanRecord, FileTypes
<1>11. ASSUME NEW c \in Clips, NEW h \in Files, SetAside(c, h) \/ Unlink(c, h) \/ LoseFile(c, h) PROVE FileTypes'
  <2>1. media' \in [Clips -> [Files -> Places]]
    BY <1>1, <1>11 DEF SetAside, Unlink, LoseFile, FileTypes, Places
  <2> QED BY <1>1, <1>11, <2>1 DEF SetAside, Unlink, LoseFile, FileTypes
<1>12. ASSUME NEW a, Respond(a) \/ RespondFailed(a) PROVE FileTypes'
  BY <1>1, <1>12 DEF Respond, RespondFailed, FileTypes
<1>13. ASSUME NEW f \in Flows, CreateDraft(f) PROVE FileTypes'
  BY <1>1, <1>3, <1>13 DEF CreateDraft, Writable, FileTypes
<1>14. ASSUME NEW f \in Flows, NEW c \in Clips \cup {None}, EditFlow(f, c) PROVE FileTypes'
  BY <1>1, <1>3, <1>14 DEF EditFlow, Writable, FileTypes
<1>15. ASSUME NEW f \in Flows, PublishFlow(f) PROVE FileTypes'
  <2>1. flows[f] \in FlowRecord /\ flows[f].version < MaxVersions
    BY <1>1, <1>15 DEF PublishFlow, LibraryTypes
  <2>2. flows[f].version \in Nat /\ flows[f].clip \in Clips \cup {None}
    BY <2>1 DEF FlowRecord
  <2>3. flows[f].version + 1 \in 1 .. MaxVersions
    BY <1>2, <2>1, <2>2
  <2>4. <<"published", <<f, flows[f].version + 1, flows[f].clip>>>> \in Fact
    BY <2>2, <2>3, VersionFields, FactKinds
  <2> QED BY <1>1, <1>3, <1>15, <2>4 DEF PublishFlow, Writable, FileTypes
<1>16. ASSUME NEW f \in Flows, DeleteFlow(f) PROVE FileTypes'
  BY <1>1, <1>3, <1>16, FactKinds DEF DeleteFlow, Writable, FileTypes
<1>17. ASSUME NEW c \in Clips, CreateClip(c) \/ ArchiveClip(c) \/ DeleteClip(c) PROVE FileTypes'
  BY <1>1, <1>3, <1>17, FactKinds DEF CreateClip, ArchiveClip, DeleteClip, Writable, FileTypes
<1>18. ASSUME NEW c \in Clips, StageUpload(c) PROVE FileTypes'
  <2>1. media' \in [Clips -> [Files -> Places]]
    BY <1>1, <1>18 DEF StageUpload, FileTypes, Files, Places
  <2> QED BY <1>1, <1>3, <1>18, <2>1 DEF StageUpload, FileTypes
<1>19. ASSUME NEW c \in Clips, Converted(c) \/ MoveOriginal(c) \/ MoveCanonical(c) PROVE FileTypes'
  <2>1. media' \in [Clips -> [Files -> Places]]
    BY <1>1, <1>19 DEF Converted, MoveOriginal, MoveCanonical, FileTypes, Files, Places
  <2> QED BY <1>1, <1>19, <2>1 DEF Converted, MoveOriginal, MoveCanonical, FileTypes
<1>20. ASSUME NEW c \in Clips, StartConversion(c) \/ DeletionFlushed(c) PROVE FileTypes'
  BY <1>1, <1>20 DEF StartConversion, DeletionFlushed, FileTypes
<1>21. ASSUME NEW c \in Clips, RejectUpload(c) \/ AbandonUpload(c) PROVE FileTypes'
  <2>1. media' \in [Clips -> [Files -> Places]]
    BY <1>1, <1>21, Records DEF RejectUpload, AbandonUpload, Abandoned, FileTypes
  <2> QED BY <1>1, <1>21, <2>1 DEF RejectUpload, AbandonUpload, Abandoned, FileTypes
<1>22. ASSUME NEW c \in Clips, CreateUploaded(c) PROVE FileTypes'
  <2>1. asks' = asks \/ asks' = asks \cup {<<"clip", c>>}
    BY <1>22 DEF CreateUploaded
  <2>2. asks' \subseteq Fact
    BY <1>1, <2>1, FactKinds DEF FileTypes
  <2> QED BY <1>1, <1>22, <2>2 DEF CreateUploaded, FileTypes
<1>23. ASSUME NEW c \in Clips, ClipDeleted(c) PROVE FileTypes'
  <2>1. told' \subseteq Fact
    BY <1>1, <1>23, FactKinds DEF ClipDeleted, FileTypes
  <2> QED BY <1>1, <1>23, <2>1 DEF ClipDeleted, FileTypes
<1> QED BY <1>4, <1>5, <1>6, <1>7, <1>8, <1>9, <1>10, <1>11, <1>12, <1>13, <1>14, <1>15, <1>16, <1>17, <1>18,
           <1>19, <1>20, <1>21, <1>22, <1>23
        DEF Next, BootStep, UploadStep

LEMMA TypeStep ==
  ASSUME IInv, [Next]_vars
  PROVE  TypeOK'
<1>1. LibraryTypes' /\ FileTypes'
  BY LibrarySteps, LibraryTypesStep, FileTypesStep DEF IInv
<1> QED BY <1>1 DEF TypeOK, LibraryTypes, FileTypes

-----------------------------------------------------------------------------
(* The life of the process and of the database. *)

\* A row is there for good.
LEMMA RowsStay ==
  ASSUME LibraryTypes, LibraryStep, NEW f \in Flows, flowRow[f] # None
  PROVE  flowRow'[f] # None
<1> USE DEF cache, rows
<1>1. CASE Still \/ NothingWritten \/ Exit
  BY <1>1 DEF Still, WriteFails, NothingWritten, Exit
<1>2. CASE Connect
  BY <1>2 DEF Connect, EmptyDatabase
<1>3. ASSUME NEW c \in Clips, NEW r \in ClipRecord \cup {None}, ClipSaved(c, r) \/ ClipCommitted(c, r)
      PROVE  flowRow'[f] # None
  BY <1>3 DEF ClipSaved, ClipCommitted
<1>4. ASSUME NEW g \in Flows, NEW r \in FlowRecord, FlowSaved(g, r) \/ FlowDropped(g) PROVE flowRow'[f] # None
  BY <1>4 DEF FlowSaved, FlowDropped
<1>5. ASSUME NEW g \in Flows, NEW r \in FlowRecord, FlowCommitted(g, r) PROVE flowRow'[f] # None
  <2>1. [deleted |-> FALSE, flow |-> r] # None
    BY NoneIsNoRecord
  <2> QED BY <1>5, <2>1 DEF FlowCommitted, LibraryTypes
<1>6. ASSUME NEW g \in Flows, FlowForgotten(g) PROVE flowRow'[f] # None
  <2>1. CASE g = f
    <3>1. [deleted |-> TRUE, flow |-> flowRow[f].flow] # None
      BY LiveTypes, NoneIsNoRecord
    <3> QED BY <1>6, <2>1, <3>1 DEF FlowForgotten, LibraryTypes
  <2> QED BY <1>6, <2>1 DEF FlowForgotten, LibraryTypes
<1>7. EmptyDraft \in FlowRecord
  BY Records
<1> QED BY <1>1, <1>2, <1>3, <1>4, <1>5, <1>6, <1>7 DEF LibraryStep

\* Once there is a process, the demonstration flow has its row.
LEMMA DatabaseStep ==
  ASSUME IInv, [Next]_vars
  PROVE  /\ phase' # "down" \/ told' # {} => flowRow'[DemoFlow] # None
         /\ flowRow'[DemoFlow] = None =>
              /\ (\A c \in Clips : clipRow'[c] = None) /\ (\A f \in Flows : flowRow'[f] = None)
              /\ versionRow' = {}
<1>1. Lifecycle /\ LibraryTypes /\ LibraryStep
  BY LibrarySteps DEF IInv, TypeOK, LibraryTypes
<1>2. CASE flowRow[DemoFlow] # None
  BY <1>1, <1>2, RowsStay
<1>3. CASE flowRow[DemoFlow] = None /\ Connect
  <2>1. EmptyDatabase /\ flowRow' = SeededFlows
    BY <1>1, <1>3 DEF Connect, Lifecycle, EmptyDatabase
  <2>2. [deleted |-> FALSE, flow |-> Seed] # None
    BY Records, NoneIsNoRecord
  <2>3. flowRow'[DemoFlow] # None
    BY <1>1, <2>1, <2>2 DEF SeededFlows, LibraryTypes
  <2> QED BY <2>3
<1>4. CASE flowRow[DemoFlow] = None /\ ~Connect
  <2>1. phase = "down" /\ told = {} /\ asks = {} /\ \A c \in Clips : job[c] = "none"
    BY <1>1, <1>4 DEF Lifecycle
  <2>2. Still \/ Connect
    <3>1. ~NothingWritten /\ ~Exit
      BY <2>1 DEF WriteFails, NothingWritten, Exit
    <3> QED BY <1>1, <2>1, <3>1 DEF LibraryStep, ClipSaved, ClipCommitted, FlowSaved, FlowCommitted,
                                    FlowDropped, FlowForgotten, Committed, Up
  <2>3. UNCHANGED <<clipRow, flowRow, versionRow>> /\ phase' = "down"
    BY <1>4, <2>1, <2>2 DEF Still, rows
  <2>4. told' = {}
    <3>1. CASE UNCHANGED vars
      BY <2>1, <3>1 DEF vars
    <3>2. CASE Next
      BY <2>1, <2>3, <3>2, <1>4 DEF Next, Commit, WriteFails, Exit, BootStep, ScanOver, Serve, ScanRecord, SetAside,
           CreateDraft, PublishFlow, DeleteFlow, EditFlow, CreateClip, StageUpload, ArchiveClip, DeleteClip,
           Writable, Request, UploadStep, StartConversion, Converted, MoveOriginal, MoveCanonical, RejectUpload,
           AbandonUpload, CreateUploaded, DeletionFlushed, ClipDeleted, Unlink, LoseFile
    <3> QED BY <3>1, <3>2
  <2> QED BY <1>1, <1>4, <2>3, <2>4 DEF Lifecycle
<1> QED BY <1>2, <1>3, <1>4

ProcessBegun ==
  /\ phase = "down" =>
       /\ storeOk /\ writes = <<>> /\ asks = {} /\ versions = {}
       /\ (\A c \in Clips : clips[c] = None) /\ (\A f \in Flows : flows[f] = None)
  /\ phase # "serving" => \A c \in Clips : job[c] = "none"
  /\ ~ storeOk => writes = <<>>

LEMMA LifecycleStep ==
  ASSUME IInv, [Next]_vars
  PROVE  Lifecycle'
<1>1. Lifecycle /\ TypeOK /\ JobsAreApart
  BY DEF IInv
<1>2. SUFFICES ProcessBegun'
  BY DatabaseStep DEF Lifecycle, ProcessBegun
<1>3. ASSUME phase' = "serving", storeOk' = storeOk, storeOk \/ writes' = writes
      PROVE  ProcessBegun'
  BY <1>1, <1>3 DEF Lifecycle, ProcessBegun
<1> USE DEF cache, rows, world, bounds
<1>4. CASE UNCHANGED vars
  BY <1>1, <1>4 DEF vars, Lifecycle, ProcessBegun
<1>5. CASE Commit
  BY <1>1, <1>5 DEF Commit, Lifecycle, ProcessBegun
<1>6. CASE WriteFails
  BY <1>1, <1>6 DEF WriteFails, Lifecycle, ProcessBegun
<1>7. CASE Exit
  BY <1>7 DEF Exit, ProcessBegun
<1>8. CASE Connect
  BY <1>1, <1>8 DEF Connect, Lifecycle, ProcessBegun
<1>9. CASE ScanOver \/ Serve
  BY <1>1, <1>9 DEF ScanOver, Serve, Lifecycle, ProcessBegun
<1>10. ASSUME NEW c \in Clips, ScanRecord(c) PROVE ProcessBegun'
  BY <1>1, <1>10 DEF ScanRecord, Lifecycle, ProcessBegun
<1>11. ASSUME NEW c \in Clips, NEW h \in Files, SetAside(c, h) \/ Unlink(c, h) \/ LoseFile(c, h) PROVE ProcessBegun'
  BY <1>1, <1>11 DEF SetAside, Unlink, LoseFile, Lifecycle, ProcessBegun
<1>12. ASSUME NEW a \in asks, Respond(a) \/ RespondFailed(a) PROVE ProcessBegun'
  BY <1>1, <1>12 DEF Respond, RespondFailed, Lifecycle, ProcessBegun
<1>13. ASSUME NEW f \in Flows, CreateDraft(f) \/ PublishFlow(f) \/ DeleteFlow(f) PROVE ProcessBegun'
  BY <1>1, <1>3, <1>13 DEF CreateDraft, PublishFlow, DeleteFlow, Writable, Request
<1>14. ASSUME NEW f \in Flows, NEW c \in Clips \cup {None}, EditFlow(f, c) PROVE ProcessBegun'
  BY <1>1, <1>3, <1>14 DEF EditFlow, Writable, Request
<1>15. ASSUME NEW c \in Clips, CreateClip(c) \/ ArchiveClip(c) \/ DeleteClip(c) \/ StageUpload(c) PROVE ProcessBegun'
  BY <1>1, <1>3, <1>15 DEF CreateClip, ArchiveClip, DeleteClip, StageUpload, Writable, Request
<1>16. ASSUME NEW c \in Clips, UploadStep(c) \/ DeletionFlushed(c) \/ ClipDeleted(c) PROVE ProcessBegun'
  <2>1. phase = "serving"
    BY <1>1, <1>16 DEF Lifecycle, UploadStep, StartConversion, Converted, MoveOriginal, MoveCanonical, RejectUpload,
           AbandonUpload, CreateUploaded, DeletionFlushed, ClipDeleted
  <2>2. phase' = "serving" /\ storeOk' = storeOk /\ (storeOk \/ writes' = writes)
    BY <1>16, <2>1 DEF UploadStep, StartConversion, Converted, MoveOriginal, MoveCanonical, RejectUpload,
           AbandonUpload, Abandoned, CreateUploaded, DeletionFlushed, ClipDeleted
  <2> QED BY <1>3, <2>2
<1> QED BY <1>4, <1>5, <1>6, <1>7, <1>8, <1>9, <1>10, <1>11, <1>12, <1>13, <1>14, <1>15, <1>16
        DEF Next, BootStep

-----------------------------------------------------------------------------
(* The rows catch up with memory. *)

\* CatchesUp in the next state, of a row and a record given.
WillCatchUp(kind, y, row, held) ==
  /\ Ahead(kind, y)' = {} => row = held
  /\ \A i \in Ahead(kind, y)' : (\A j \in Ahead(kind, y)' : j <= i) => writes'[i][3] = held

LEMMA CatchUpJoined ==
  ASSUME NEW n \in Nat, NEW x, Joined(n, x), NEW kind, NEW y, NEW row, NEW held, NEW next,
         CatchesUp(kind, y, row, held),
         x[1] = kind /\ x[2] = y => next = x[3],
         ~(x[1] = kind /\ x[2] = y) => next = held
  PROVE  WillCatchUp(kind, y, row, next)
<1>1. CASE x[1] = kind /\ x[2] = y
  <2>1. /\ Ahead(kind, y)' = Ahead(kind, y) \cup {n} /\ writes'[n] = x
        /\ \A i \in Ahead(kind, y) : i < n /\ i \in Nat
    BY <1>1, AheadJoined
  <2>2. ASSUME NEW i \in Ahead(kind, y)', \A j \in Ahead(kind, y)' : j <= i PROVE writes'[i][3] = next
    <3>1. n <= i
      BY <2>1, <2>2
    <3>2. i = n
      BY <2>1, <2>2, <3>1
    <3> QED BY <1>1, <2>1, <3>2
  <2> QED BY <2>1, <2>2 DEF WillCatchUp
<1>2. CASE ~(x[1] = kind /\ x[2] = y)
  BY <1>2, AheadJoined DEF CatchesUp, WillCatchUp
<1> QED BY <1>1, <1>2

LEMMA CatchUpMoved ==
  ASSUME MovedUp, storeOk', NEW kind, NEW y, NEW row, NEW held, NEW next,
         CatchesUp(kind, y, row, held),
         1 \in Ahead(kind, y) => next = writes[1][3],
         1 \notin Ahead(kind, y) => next = row
  PROVE  WillCatchUp(kind, y, next, held)
<1>1. /\ \A i \in Ahead(kind, y) : i \in Nat /\ i >= 1
      /\ \A i \in Ahead(kind, y)' : i \in Nat /\ i >= 1 /\ i + 1 \in Ahead(kind, y) /\ writes'[i] = writes[i + 1]
      /\ \A i \in Ahead(kind, y) : i = 1 \/ i - 1 \in Ahead(kind, y)'
  BY AheadMoved
<1>2. ASSUME NEW i \in Ahead(kind, y)', \A j \in Ahead(kind, y)' : j <= i PROVE writes'[i][3] = held
  <2>1. \A j \in Ahead(kind, y) : j <= i + 1
    BY <1>1, <1>2
  <2> QED BY <1>1, <2>1 DEF CatchesUp
<1>3. ASSUME Ahead(kind, y)' = {} PROVE next = held
  <2>1. \A i \in Ahead(kind, y) : i = 1
    BY <1>1, <1>3
  <2>2. CASE 1 \in Ahead(kind, y)
    <3>1. \A j \in Ahead(kind, y) : j <= 1
      BY <2>1
    <3> QED BY <2>2, <3>1 DEF CatchesUp
  <2>3. CASE 1 \notin Ahead(kind, y)
    BY <2>1, <2>3 DEF CatchesUp
  <2> QED BY <2>2, <2>3
<1> QED BY <1>2, <1>3 DEF WillCatchUp

ClipsCatchUp == \A c \in Clips : CatchesUp("clip", c, clipRow[c], clips[c])
FlowsCatchUp == \A f \in Flows : CatchesUp("flow", f, Live(f), flows[f])

LEMMA WillBeCaught ==
  /\ (\A c \in Clips : WillCatchUp("clip", c, clipRow'[c], clips'[c])) => ClipsCatchUp'
  /\ (\A f \in Flows : WillCatchUp("flow", f, Live(f)', flows'[f])) => FlowsCatchUp'
  BY DEF WillCatchUp, ClipsCatchUp, FlowsCatchUp, CatchesUp

\* The write at the head is of one record.
LEMMA HeadIsOne ==
  ASSUME NEW kind, NEW x, 1 \in Ahead(kind, x)
  PROVE  \A k, y : 1 \in Ahead(k, y) => k = kind /\ y = x
  BY DEF Ahead

LEMMA LiveAfter ==
  ASSUME LibraryTypes, NEW f \in Flows
  PROVE  /\ \A r \in FlowRecord : FlowCommitted(f, r) => Live(f)' = r
         /\ FlowForgotten(f) => Live(f)' = None
         /\ \A g \in Flows, r \in FlowRecord : g # f /\ FlowCommitted(g, r) => Live(f)' = Live(f)
         /\ \A g \in Flows : g # f /\ FlowForgotten(g) => Live(f)' = Live(f)
         /\ flowRow' = flowRow => Live(f)' = Live(f)
<1>1. \A r \in FlowRecord : [deleted |-> FALSE, flow |-> r] # None
  BY NoneIsNoRecord
<1>2. \A r : flowRow' = [flowRow EXCEPT ![f] = r] => flowRow'[f] = r
  BY DEF LibraryTypes
<1>3. \A g \in Flows : \A r : g # f /\ flowRow' = [flowRow EXCEPT ![g] = r] => flowRow'[f] = flowRow[f]
  BY DEF LibraryTypes
<1>4. \A r \in FlowRecord : FlowCommitted(f, r) => Live(f)' = r
  <2> SUFFICES ASSUME NEW r \in FlowRecord, FlowCommitted(f, r) PROVE Live(f)' = r
    OBVIOUS
  <2>1. flowRow'[f] = [deleted |-> FALSE, flow |-> r]
    BY <1>2 DEF FlowCommitted
  <2> QED BY <1>1, <2>1 DEF Live
<1>5. FlowForgotten(f) => Live(f)' = None
  <2> SUFFICES ASSUME FlowForgotten(f) PROVE Live(f)' = None
    OBVIOUS
  <2>1. flowRow'[f] = [deleted |-> TRUE, flow |-> flowRow[f].flow]
    BY <1>2 DEF FlowForgotten
  <2> QED BY <2>1 DEF Live
<1>6. \A g \in Flows, r \in FlowRecord : g # f /\ FlowCommitted(g, r) => Live(f)' = Live(f)
  BY <1>3 DEF FlowCommitted, Live
<1>7. \A g \in Flows : g # f /\ FlowForgotten(g) => Live(f)' = Live(f)
  BY <1>3 DEF FlowForgotten, Live
<1> QED BY <1>4, <1>5, <1>6, <1>7 DEF Live

LEMMA RowsCatchUpStep ==
  ASSUME IInv, LibraryStep, Lifecycle'
  PROVE  RowsCatchUp'
<1>1. LibraryTypes /\ writes \in Seq(Write) /\ Lifecycle
  BY DEF IInv, TypeOK, LibraryTypes
<1>2. SUFFICES ASSUME phase' # "down", storeOk' PROVE ClipsCatchUp' /\ FlowsCatchUp'
  BY DEF RowsCatchUp, ClipsCatchUp, FlowsCatchUp
<1>3. ASSUME Up PROVE ClipsCatchUp /\ FlowsCatchUp
  BY <1>3 DEF Up, IInv, RowsCatchUp, ClipsCatchUp, FlowsCatchUp
<1> USE DEF cache, rows
<1>4. CASE Still
  <2>1. ClipsCatchUp /\ FlowsCatchUp
    BY <1>2, <1>4 DEF Still, IInv, RowsCatchUp, ClipsCatchUp, FlowsCatchUp
  <2> QED BY <1>4, <2>1 DEF Still, ClipsCatchUp, FlowsCatchUp, CatchesUp, Ahead, Live
<1>5. CASE NothingWritten \/ Exit
  BY <1>2, <1>5 DEF WriteFails, NothingWritten, Exit
<1>6. CASE Connect
  <2>1. writes' = <<>>
    BY <1>1, <1>6 DEF Connect, Lifecycle
  <2>2. \A kind, x : Ahead(kind, x)' = {}
    BY <2>1 DEF Ahead
  <2>3. clips' = clipRow' /\ \A f \in Flows : flows'[f] = Live(f)'
    BY <1>6 DEF Connect, Loads, Live
  <2> QED BY <2>2, <2>3 DEF ClipsCatchUp, FlowsCatchUp, CatchesUp
<1>7. ASSUME NEW c \in Clips, NEW r \in ClipRecord \cup {None}, ClipSaved(c, r) PROVE ClipsCatchUp' /\ FlowsCatchUp'
  <2>1. PICK x : x = <<"clip", c, r>>
    OBVIOUS
  <2>2. x[1] = "clip" /\ x[2] = c /\ x[3] = r
    BY <2>1
  <2>3. PICK n \in Nat : Joined(n, x)
    BY <1>1, <1>7, <2>1, Joins DEF ClipSaved, SaveClip
  <2>4. clips' = [clips EXCEPT ![c] = r] /\ UNCHANGED <<clipRow, flowRow, flows>>
    BY <1>7 DEF ClipSaved, SaveClip
  <2>5. \A d \in Clips : (d = c => clips'[d] = r) /\ (d # c => clips'[d] = clips[d])
    BY <1>1, <2>4 DEF LibraryTypes
  <2>6. ASSUME NEW d \in Clips PROVE WillCatchUp("clip", d, clipRow'[d], clips'[d])
    BY <1>3, <1>7, <2>2, <2>3, <2>4, <2>5, CatchUpJoined DEF ClipSaved, ClipsCatchUp
  <2>7. ASSUME NEW f \in Flows PROVE WillCatchUp("flow", f, Live(f)', flows'[f])
    <3>1. Live(f)' = Live(f)
      BY <1>1, <2>4, LiveAfter
    <3> QED BY <1>3, <1>7, <2>2, <2>3, <2>4, <3>1, CatchUpJoined DEF ClipSaved, FlowsCatchUp
  <2> QED BY <2>6, <2>7, WillBeCaught
<1>8. ASSUME NEW f \in Flows, NEW r \in FlowRecord \cup {None}, Up, writes' = Append(writes, <<"flow", f, r>>),
             flows' = [flows EXCEPT ![f] = r], UNCHANGED <<clips, rows>>
      PROVE  ClipsCatchUp' /\ FlowsCatchUp'
  <2>1. PICK x : x = <<"flow", f, r>>
    OBVIOUS
  <2>2. x[1] = "flow" /\ x[2] = f /\ x[3] = r
    BY <2>1
  <2>3. PICK n \in Nat : Joined(n, x)
    BY <1>1, <1>8, <2>1, Joins
  <2>4. \A g \in Flows : (g = f => flows'[g] = r) /\ (g # f => flows'[g] = flows[g])
    BY <1>1, <1>8 DEF LibraryTypes
  <2>5. ASSUME NEW c \in Clips PROVE WillCatchUp("clip", c, clipRow'[c], clips'[c])
    BY <1>3, <1>8, <2>2, <2>3, CatchUpJoined DEF ClipsCatchUp
  <2>6. ASSUME NEW g \in Flows PROVE WillCatchUp("flow", g, Live(g)', flows'[g])
    <3>1. Live(g)' = Live(g)
      BY <1>1, <1>8, LiveAfter
    <3> QED BY <1>3, <1>8, <2>2, <2>3, <2>4, <3>1, CatchUpJoined DEF FlowsCatchUp
  <2> QED BY <2>5, <2>6, WillBeCaught
<1>9. ASSUME NEW f \in Flows, NEW r \in FlowRecord, FlowSaved(f, r) \/ FlowDropped(f) PROVE ClipsCatchUp' /\ FlowsCatchUp'
  BY <1>8, <1>9 DEF FlowSaved, SaveFlow, FlowDropped, DropFlow
<1>10. ASSUME NEW kind, NEW x, NEW r, Committed(kind, x, r),
              \A c \in Clips : clipRow'[c] = IF kind = "clip" /\ x = c THEN r ELSE clipRow[c],
              \A f \in Flows : Live(f)' = IF kind = "flow" /\ x = f THEN r ELSE Live(f)
       PROVE  ClipsCatchUp' /\ FlowsCatchUp'
  <2>1. MovedUp /\ 1 \in Ahead(kind, x) /\ writes[1][3] = r /\ Up /\ UNCHANGED <<clips, flows>>
    BY <1>10 DEF Committed
  <2>2. \A k, y : 1 \in Ahead(k, y) <=> k = kind /\ y = x
    BY <2>1, HeadIsOne
  <2>3. ASSUME NEW c \in Clips PROVE WillCatchUp("clip", c, clipRow'[c], clips'[c])
    BY <1>2, <1>3, <1>10, <2>1, <2>2, CatchUpMoved DEF ClipsCatchUp
  <2>4. ASSUME NEW f \in Flows PROVE WillCatchUp("flow", f, Live(f)', flows'[f])
    BY <1>2, <1>3, <1>10, <2>1, <2>2, CatchUpMoved DEF FlowsCatchUp
  <2> QED BY <2>3, <2>4, WillBeCaught
<1>11. ASSUME NEW c \in Clips, NEW r \in ClipRecord \cup {None}, ClipCommitted(c, r) PROVE ClipsCatchUp' /\ FlowsCatchUp'
  <2>1. \A d \in Clips : clipRow'[d] = IF "clip" = "clip" /\ c = d THEN r ELSE clipRow[d]
    BY <1>1, <1>11 DEF ClipCommitted, LibraryTypes
  <2>2. \A f \in Flows : Live(f)' = IF "clip" = "flow" /\ c = f THEN r ELSE Live(f)
    BY <1>1, <1>11, LiveAfter DEF ClipCommitted
  <2> QED BY <1>10, <1>11, <2>1, <2>2 DEF ClipCommitted
<1>12. ASSUME NEW f \in Flows, NEW r \in FlowRecord, FlowCommitted(f, r) PROVE ClipsCatchUp' /\ FlowsCatchUp'
  <2>1. \A d \in Clips : clipRow'[d] = IF "flow" = "clip" /\ f = d THEN r ELSE clipRow[d]
    BY <1>12 DEF FlowCommitted
  <2>2. \A g \in Flows : Live(g)' = IF "flow" = "flow" /\ f = g THEN r ELSE Live(g)
    BY <1>1, <1>12, LiveAfter
  <2> QED BY <1>10, <1>12, <2>1, <2>2 DEF FlowCommitted
<1>13. ASSUME NEW f \in Flows, FlowForgotten(f) PROVE ClipsCatchUp' /\ FlowsCatchUp'
  <2>1. \A d \in Clips : clipRow'[d] = IF "flow" = "clip" /\ f = d THEN None ELSE clipRow[d]
    BY <1>13 DEF FlowForgotten
  <2>2. \A g \in Flows : Live(g)' = IF "flow" = "flow" /\ f = g THEN None ELSE Live(g)
    BY <1>1, <1>13, LiveAfter
  <2> QED BY <1>10, <1>13, <2>1, <2>2 DEF FlowForgotten
<1>14. EmptyDraft \in FlowRecord
  BY Records
<1> QED BY <1>4, <1>5, <1>6, <1>7, <1>9, <1>11, <1>12, <1>13, <1>14 DEF LibraryStep

-----------------------------------------------------------------------------
(* The numbers of the versions. *)

\* The writes of f go on from the row, one from the other, and a deletion is the last.
InOrder(f, live) ==
  \A i \in Ahead("flow", f) :
    /\ \A j \in Ahead("flow", f) : j < i => writes[j][3] # None
    /\ (\A j \in Ahead("flow", f) : i <= j) => Follows(live, writes[i][3])
    /\ \A j \in Ahead("flow", f) :
         (j < i /\ \A k \in Ahead("flow", f) : k <= j \/ i <= k) => Follows(writes[j][3], writes[i][3])

\* The same in the next state.
WillBeInOrder(f, live) ==
  \A i \in Ahead("flow", f)' :
    /\ \A j \in Ahead("flow", f)' : j < i => writes'[j][3] # None
    /\ (\A j \in Ahead("flow", f)' : i <= j) => Follows(live, writes'[i][3])
    /\ \A j \in Ahead("flow", f)' :
         (j < i /\ \A k \in Ahead("flow", f)' : k <= j \/ i <= k) => Follows(writes'[j][3], writes'[i][3])

LEMMA OrderJoined ==
  ASSUME NEW n \in Nat, NEW x, Joined(n, x), NEW f, NEW live, NEW held,
         InOrder(f, live), CatchesUp("flow", f, live, held),
         x[1] = "flow" /\ x[2] = f => Follows(held, x[3]) /\ (held = None => Ahead("flow", f) = {})
  PROVE  WillBeInOrder(f, live)
<1> DEFINE A == Ahead("flow", f)
<1>1. /\ A \subseteq Nat /\ \A i \in A : i < n
      /\ \A i \in A : writes'[i] = writes[i]
  BY AheadJoined
<1>2. CASE ~(x[1] = "flow" /\ x[2] = f)
  <2>1. Ahead("flow", f)' = A
    BY <1>2, AheadJoined
  <2> QED BY <1>1, <2>1 DEF InOrder, WillBeInOrder
<1>3. CASE x[1] = "flow" /\ x[2] = f
  <2>1. Ahead("flow", f)' = A \cup {n} /\ writes'[n] = x
    BY <1>3, AheadJoined
  <2>2. Follows(held, x[3]) /\ (held = None => A = {})
    BY <1>3
  <2> HIDE DEF A
  <2>3. /\ A = {} => live = held
        /\ \A i \in A : (\A j \in A : j <= i) => writes[i][3] = held
    BY DEF CatchesUp, A
  <2>4. \A i \in A :
          /\ \A j \in A : j < i => writes[j][3] # None
          /\ (\A j \in A : i <= j) => Follows(live, writes[i][3])
          /\ \A j \in A : (j < i /\ \A k \in A : k <= j \/ i <= k) => Follows(writes[j][3], writes[i][3])
    BY DEF InOrder, A
  <2>5. ASSUME NEW j \in A PROVE writes[j][3] # None
    <3>1. CASE \A k \in A : k <= j
      BY <2>2, <2>3, <3>1
    <3>2. CASE \E k \in A : j < k
      BY <2>4, <3>2
    <3> QED BY <1>1, <3>1, <3>2
  <2>6. ASSUME NEW i \in A \cup {n}, NEW j \in A \cup {n}, j < i PROVE writes'[j][3] # None
    <3>1. j \in A
      BY <1>1, <2>6
    <3> QED BY <1>1, <2>5, <3>1
  <2>7. ASSUME NEW i \in A \cup {n}, \A j \in A \cup {n} : i <= j PROVE Follows(live, writes'[i][3])
    <3>1. CASE i = n
      <4>1. A = {}
        BY <1>1, <2>7, <3>1
      <4> QED BY <2>1, <2>2, <2>3, <3>1, <4>1
    <3>2. CASE i \in A
      BY <1>1, <2>4, <2>7, <3>2
    <3> QED BY <3>1, <3>2
  <2>8. ASSUME NEW i \in A \cup {n}, NEW j \in A \cup {n}, j < i, \A k \in A \cup {n} : k <= j \/ i <= k
        PROVE  Follows(writes'[j][3], writes'[i][3])
    <3>1. j \in A
      BY <1>1, <2>8
    <3>2. CASE i = n
      <4>1. \A k \in A : k <= j
        BY <1>1, <2>8, <3>2
      <4>2. writes[j][3] = held
        BY <2>3, <3>1, <4>1
      <4> QED BY <1>1, <2>1, <2>2, <3>1, <3>2, <4>2
    <3>3. CASE i \in A
      BY <1>1, <2>4, <2>8, <3>1, <3>3
    <3> QED BY <3>2, <3>3
  <2> QED BY <2>1, <2>6, <2>7, <2>8 DEF WillBeInOrder
<1> QED BY <1>2, <1>3

LEMMA OrderMoved ==
  ASSUME MovedUp, NEW f, NEW live, NEW next, InOrder(f, live),
         1 \in Ahead("flow", f) => next = writes[1][3],
         1 \notin Ahead("flow", f) => next = live
  PROVE  WillBeInOrder(f, next)
<1> DEFINE A == Ahead("flow", f)
<1> DEFINE B == Ahead("flow", f)'
<1>1. /\ \A i \in A : i \in Nat /\ i >= 1
      /\ \A i \in B : i \in Nat /\ i >= 1 /\ i + 1 \in A /\ writes'[i] = writes[i + 1]
      /\ B # {} => \A i \in A : i = 1 \/ i - 1 \in B
  <2>1. B # {} => DOMAIN writes' # {}
    BY DEF Ahead
  <2> QED BY <2>1, AheadMoved
<1>2. \A i \in A :
        /\ \A j \in A : j < i => writes[j][3] # None
        /\ (\A j \in A : i <= j) => Follows(live, writes[i][3])
        /\ \A j \in A : (j < i /\ \A k \in A : k <= j \/ i <= k) => Follows(writes[j][3], writes[i][3])
  BY DEF InOrder
<1>3. (1 \in A => next = writes[1][3]) /\ (1 \notin A => next = live)
  OBVIOUS
<1> SUFFICES \A i \in B :
               /\ \A j \in B : j < i => writes'[j][3] # None
               /\ (\A j \in B : i <= j) => Follows(next, writes'[i][3])
               /\ \A j \in B : (j < i /\ \A k \in B : k <= j \/ i <= k) => Follows(writes'[j][3], writes'[i][3])
  BY DEF WillBeInOrder
<1> HIDE DEF A, B
<1>4. ASSUME NEW i \in B, NEW j \in B, j < i PROVE writes'[j][3] # None
  <2>1. j + 1 < i + 1
    BY <1>1, <1>4
  <2> QED BY <1>1, <1>2, <2>1
<1>5. ASSUME NEW i \in B, \A j \in B : i <= j PROVE Follows(next, writes'[i][3])
  <2>1. \A j \in A : j = 1 \/ i + 1 <= j
    <3> SUFFICES ASSUME NEW j \in A, j # 1 PROVE i + 1 <= j
      OBVIOUS
    <3>1. j \in Nat /\ j - 1 \in B /\ i \in Nat /\ i <= j - 1
      BY <1>1, <1>5
    <3> QED BY <3>1
  <2>2. i \in Nat /\ i >= 1 /\ i + 1 \in A /\ 1 < i + 1 /\ writes'[i] = writes[i + 1]
    BY <1>1
  <2>3. CASE 1 \in A
    <3>1. \A k \in A : k <= 1 \/ i + 1 <= k
      BY <2>1
    <3>2. Follows(writes[1][3], writes[i + 1][3])
      BY <1>2, <2>2, <2>3, <3>1
    <3> QED BY <1>3, <2>2, <2>3, <3>2
  <2>4. CASE 1 \notin A
    <3>1. \A j \in A : i + 1 <= j
      BY <2>1, <2>4
    <3> QED BY <1>2, <1>3, <2>2, <2>4, <3>1
  <2> QED BY <2>3, <2>4
<1>6. ASSUME NEW i \in B, NEW j \in B, j < i, \A k \in B : k <= j \/ i <= k
      PROVE  Follows(writes'[j][3], writes'[i][3])
  <2>1. j + 1 < i + 1 /\ i + 1 \in A /\ j + 1 \in A /\ i \in Nat /\ j \in Nat /\ 1 <= j
    BY <1>1, <1>6
  <2>2. \A k \in A : k <= j + 1 \/ i + 1 <= k
    <3> SUFFICES ASSUME NEW k \in A, k # 1 PROVE k <= j + 1 \/ i + 1 <= k
      BY <2>1
    <3>1. k \in Nat /\ (k - 1 <= j \/ i <= k - 1)
      BY <1>1, <1>6
    <3> QED BY <2>1, <3>1
  <2>3. Follows(writes[j + 1][3], writes[i + 1][3])
    BY <1>2, <2>1, <2>2
  <2> QED BY <1>1, <2>3
<1> QED BY <1>4, <1>5, <1>6

NumbersTaken ==
  /\ \A f \in Flows : NumbersAreTaken(f)
  /\ \A v, w \in versionRow : v[1] = w[1] /\ v[2] = w[2] => v = w
  /\ SeededAt

\* Nothing follows the deletion of a flow.
GoneForGood(f) ==
  flowRow[f] # None /\ flowRow[f].deleted => Ahead("flow", f) = {} /\ flows[f] = None

AllInOrder == \A f \in Flows : InOrder(f, Live(f))

LEMMA NumbersParts ==
  /\ NumbersGoUp => NumbersTaken /\ AllInOrder /\ \A f \in Flows : GoneForGood(f)
  /\ NumbersTaken /\ AllInOrder /\ (\A f \in Flows : GoneForGood(f)) => NumbersGoUp
  BY DEF NumbersGoUp, NumbersTaken, GoneForGood, InOrder, AllInOrder

LEMMA WillAllBeInOrder ==
  ASSUME \A f \in Flows : \E live : live = Live(f)' /\ WillBeInOrder(f, live)
  PROVE  AllInOrder'
  BY DEF WillBeInOrder, AllInOrder, InOrder

\* The row of f takes the write at its head.
LEMMA CommittedIsTaken ==
  ASSUME LibraryTypes, Lifecycle, NumbersGoUp, VersionsFollow, NEW f \in Flows, NEW r \in FlowRecord, FlowCommitted(f, r)
  PROVE  NumbersTaken'
<1>1. Follows(Live(f), r) /\ NumbersTaken /\ GoneForGood(f)
  BY HeadFollows, NumbersParts DEF FlowCommitted
<1>2. /\ flowRow' = [flowRow EXCEPT ![f] = [deleted |-> FALSE, flow |-> r]]
      /\ versionRow' = IF r.status = "published" THEN versionRow \cup {<<f, r.version, r.clip>>} ELSE versionRow
      /\ 1 \in Ahead("flow", f)
  BY DEF FlowCommitted, Committed
<1>3. /\ flowRow'[f].flow = r /\ flowRow'[f] # None
      /\ \A g \in Flows : g # f => flowRow'[g] = flowRow[g]
  BY <1>2, NoneIsNoRecord DEF LibraryTypes
<1>4. r.version \in 0 .. MaxVersions /\ r.clip \in Clips \cup {None} /\ r # None
  BY NoneIsNoRecord DEF FlowRecord
<1>5. Live(f) = None => flowRow[f] = None
  BY <1>1, <1>2, LiveTypes DEF GoneForGood
<1>6. \A v \in versionRow : v \in Version /\ flowRow[v[1]] # None
  BY DEF VersionsFollow, LibraryTypes
<1>9. ASSUME f = DemoFlow PROVE Live(f) # None /\ DemoVersion <= Live(f).version /\ Live(f) \in FlowRecord
  <2>1. flowRow[f] # None
    BY <1>9 DEF FlowCommitted, Committed, Up, Lifecycle
  <2>2. Live(f) # None
    BY <1>5, <2>1
  <2> QED BY <1>1, <1>9, <2>1, <2>2, LiveTypes DEF NumbersTaken, SeededAt
<1>10. SeededAt'
  <2>1. CASE f = DemoFlow
    <3>1. PICK old, new : old = Live(f).version /\ new = r.version
      OBVIOUS
    <3>2. old \in Nat /\ DemoVersion <= old /\ (new = old \/ new = old + 1) /\ DemoVersion \in Nat
      BY <1>1, <1>9, <2>1, <3>1 DEF Follows, FlowRecord
    <3>3. DemoVersion <= new
      BY <3>2
    <3> QED BY <1>3, <2>1, <3>1, <3>3 DEF SeededAt
  <2>2. CASE f # DemoFlow
    BY <1>1, <1>3, <2>2 DEF NumbersTaken, SeededAt
  <2> QED BY <2>1, <2>2
<1>7. CASE r.status # "published"
  <2>1. versionRow' = versionRow
    BY <1>2, <1>7
  <2>2. NumbersAreTaken(f)'
    <3>1. CASE Live(f) = None
      <4>1. r.version = 0
        BY <1>1, <1>4, <3>1 DEF Follows
      <4>2. \A n, c : <<f, n, c>> \notin versionRow
        <5> SUFFICES ASSUME NEW n, NEW c, <<f, n, c>> \in versionRow PROVE FALSE
          OBVIOUS
        <5>1. PICK v \in versionRow : v = <<f, n, c>>
          OBVIOUS
        <5>2. v[1] = f
          BY <5>1
        <5> QED BY <1>5, <1>6, <3>1, <5>1, <5>2
      <4>3. \A n \in 1 .. MaxVersions : ~(n <= 0)
        OBVIOUS
      <4>4. flowRow'[f].flow.version = 0
        BY <1>3, <4>1
      <4> QED BY <2>1, <4>2, <4>3, <4>4 DEF NumbersAreTaken
    <3>2. CASE Live(f) # None
      <4>1. flowRow[f] # None /\ r.version = flowRow[f].flow.version
        BY <1>1, <1>4, <1>7, <3>2, LiveTypes DEF Follows
      <4> QED BY <1>1, <1>3, <2>1, <4>1 DEF NumbersAreTaken, NumbersTaken
    <3> QED BY <3>1, <3>2
  <2>3. \A g \in Flows : g # f => NumbersAreTaken(g)'
    BY <1>1, <1>3, <2>1 DEF NumbersAreTaken, NumbersTaken
  <2> QED BY <1>1, <1>10, <2>1, <2>2, <2>3 DEF NumbersTaken
<1>8. CASE r.status = "published"
  <2>1. versionRow' = versionRow \cup {<<f, r.version, r.clip>>}
    BY <1>2, <1>8
  <2>2. PICK old : old = flowRow[f].flow.version
    OBVIOUS
  <2>3. Live(f) # None /\ Live(f) \in FlowRecord /\ r.version = Live(f).version + 1 /\ r.version \in 1 .. MaxVersions
    BY <1>1, <1>8, LiveTypes, Published
  <2>4. flowRow[f] # None /\ r.version = old + 1 /\ old \in Nat /\ old + 1 \in 1 .. MaxVersions
    <3>1. flowRow[f] # None /\ Live(f) = flowRow[f].flow /\ Live(f).version \in 0 .. MaxVersions
      BY <2>3, LiveTypes DEF FlowRecord
    <3> QED BY <2>2, <2>3, <3>1
  <2>5. \A n \in 1 .. MaxVersions : (\E c \in Clips \cup {None} : <<f, n, c>> \in versionRow)
                                    <=> FirstVersion(f) <= n /\ n <= old
    BY <1>1, <2>2, <2>4 DEF NumbersTaken, NumbersAreTaken, SeededAt
  <2>6. NumbersAreTaken(f)'
    <3>1. ASSUME NEW n \in 1 .. MaxVersions
          PROVE  (\E c \in Clips \cup {None} : <<f, n, c>> \in versionRow')
                   <=> FirstVersion(f) <= n /\ n <= old + 1
      <4>1. CASE n = old + 1
        <5>1. FirstVersion(f) <= old + 1 /\ n <= old + 1
          <6>1. CASE f = DemoFlow
            <7>1. DemoVersion <= old
              BY <1>9, <2>2, <2>3, <6>1, LiveTypes
            <7> QED BY <2>4, <4>1, <6>1, <7>1 DEF FirstVersion
          <6>2. CASE f # DemoFlow
            BY <2>4, <4>1, <6>2 DEF FirstVersion
          <6> QED BY <6>1, <6>2
        <5>2. \E c \in Clips \cup {None} : <<f, n, c>> \in versionRow'
          <6>1. PICK k \in Clips \cup {None} : k = r.clip
            BY <1>4
          <6>2. r.version = n
            BY <2>4, <4>1
          <6>3. <<f, n, k>> \in versionRow'
            BY <2>1, <6>1, <6>2
          <6> QED BY <6>3
        <5> QED BY <4>1, <5>1, <5>2
      <4>2. CASE n # old + 1
        <5>1. n <= old <=> n <= old + 1
          BY <2>4, <4>2
        <5>2. \A c : <<f, n, c>> \in versionRow' <=> <<f, n, c>> \in versionRow
          BY <2>1, <2>4, <4>2
        <5> QED BY <2>5, <5>1, <5>2
      <4> QED BY <4>1, <4>2
    <3> QED BY <1>3, <2>4, <3>1 DEF NumbersAreTaken
  <2>7. \A g \in Flows : g # f => NumbersAreTaken(g)'
    <3> SUFFICES ASSUME NEW g \in Flows, g # f PROVE NumbersAreTaken(g)'
      OBVIOUS
    <3>1. \A n, c : <<g, n, c>> \in versionRow' <=> <<g, n, c>> \in versionRow
      BY <2>1
    <3> QED BY <1>1, <1>3, <3>1 DEF NumbersAreTaken, NumbersTaken
  <2>8. ASSUME NEW v \in versionRow PROVE ~(v[1] = f /\ v[2] = r.version)
    <3> SUFFICES ASSUME v[1] = f, v[2] = old + 1 PROVE FALSE
      BY <2>4
    <3>1. v = <<f, old + 1, v[3]>> /\ v[3] \in Clips \cup {None}
      BY <1>6, VersionFields
    <3>2. old + 1 <= old
      BY <2>4, <2>5, <3>1
    <3> QED BY <2>4, <3>2
  <2>9. \A v, w \in versionRow' : v[1] = w[1] /\ v[2] = w[2] => v = w
    BY <1>1, <2>1, <2>8 DEF NumbersTaken
  <2> QED BY <1>10, <2>6, <2>7, <2>9 DEF NumbersTaken
<1> QED BY <1>7, <1>8

LEMMA NumbersStep ==
  ASSUME IInv, LibraryStep, Lifecycle'
  PROVE  NumbersGoUp'
<1>1. LibraryTypes /\ writes \in Seq(Write) /\ Lifecycle /\ NumbersGoUp /\ VersionsFollow
  BY DEF IInv, TypeOK, LibraryTypes
<1>2. NumbersTaken /\ AllInOrder /\ \A f \in Flows : GoneForGood(f)
  BY <1>1, NumbersParts
<1>3. SUFFICES NumbersTaken' /\ AllInOrder' /\ \A f \in Flows : GoneForGood(f)'
  BY DEF NumbersGoUp, NumbersTaken, GoneForGood, InOrder, AllInOrder
<1> USE DEF cache, rows
<1>4. ASSUME UNCHANGED <<flowRow, versionRow>> PROVE NumbersTaken'
  BY <1>2, <1>4 DEF NumbersTaken, NumbersAreTaken, SeededAt
<1>5. ASSUME writes' = <<>> PROVE AllInOrder' /\ \A f \in Flows : Ahead("flow", f)' = {}
  BY <1>5 DEF AllInOrder, InOrder, Ahead
<1>6. ASSUME Up, NEW f \in Flows PROVE CatchesUp("flow", f, Live(f), flows[f])
  BY <1>6 DEF Up, IInv, RowsCatchUp
<1>7. CASE Still
  BY <1>2, <1>7 DEF Still, NumbersTaken, NumbersAreTaken, SeededAt, GoneForGood, AllInOrder, InOrder, Live, Ahead
<1>8. CASE NothingWritten
  BY <1>2, <1>4, <1>5, <1>8 DEF WriteFails, NothingWritten, GoneForGood
<1>9. CASE Exit
  BY <1>2, <1>4, <1>5, <1>9 DEF Exit, GoneForGood
<1>10. CASE Connect
  <2>1. writes' = <<>> /\ \A f \in Flows : flows'[f] = IF flowRow'[f] = None \/ flowRow'[f].deleted THEN None ELSE flowRow'[f].flow
    BY <1>1, <1>10 DEF Connect, Lifecycle, Loads
  <2>2. CASE UNCHANGED rows
    BY <1>4, <1>5, <2>1, <2>2 DEF GoneForGood
  <2>3. CASE EmptyDatabase /\ flowRow' = SeededFlows /\ versionRow' = versionRow \cup {<<DemoFlow, DemoVersion, DemoClip>>}
    <3>1. PICK r : r = [deleted |-> FALSE, flow |-> Seed]
      OBVIOUS
    <3>2. r # None /\ r.flow.version = DemoVersion
      BY <3>1, Records, NoneIsNoRecord
    <3>3. flowRow'[DemoFlow] = r /\ \A f \in Flows : f # DemoFlow => flowRow'[f] = None
      BY <1>1, <2>3, <3>1 DEF SeededFlows, EmptyDatabase, LibraryTypes
    <3>4. versionRow' = {<<DemoFlow, DemoVersion, DemoClip>>}
      BY <2>3 DEF EmptyDatabase
    <3>5. NumbersAreTaken(DemoFlow)'
      <4>1. \A n \in 1 .. MaxVersions :
              (\E c \in Clips \cup {None} : <<DemoFlow, n, c>> \in versionRow') <=> n = DemoVersion
        BY <3>4
      <4>2. \A n \in 1 .. MaxVersions : n = DemoVersion <=> DemoVersion <= n /\ n <= DemoVersion
        OBVIOUS
      <4> QED BY <3>2, <3>3, <4>1, <4>2 DEF NumbersAreTaken, FirstVersion
    <3>6. \A f \in Flows : NumbersAreTaken(f)'
      BY <3>3, <3>5 DEF NumbersAreTaken
    <3>7. SeededAt'
      BY <3>2, <3>3 DEF SeededAt
    <3> QED BY <1>5, <2>1, <3>4, <3>6, <3>7 DEF NumbersTaken, GoneForGood
  <2> QED BY <1>10, <2>2, <2>3 DEF Connect
<1>11. ASSUME NEW x, NEW n \in Nat, Joined(n, x), Up, UNCHANGED <<flowRow, versionRow>>,
              \A f \in Flows : x[1] = "flow" /\ x[2] = f =>
                 Follows(flows[f], x[3]) /\ (flows[f] = None => flowRow[f] = None /\ Ahead("flow", f) = {}),
              \A f \in Flows : ~(x[1] = "flow" /\ x[2] = f) => flows'[f] = flows[f]
       PROVE  NumbersTaken' /\ AllInOrder' /\ \A f \in Flows : GoneForGood(f)'
  <2>1. ASSUME NEW f \in Flows PROVE \E live : live = Live(f)' /\ WillBeInOrder(f, live)
    <3>1. Live(f)' = Live(f)
      BY <1>11 DEF Live
    <3>2. WillBeInOrder(f, Live(f))
      BY <1>2, <1>6, <1>11, OrderJoined DEF AllInOrder
    <3> QED BY <3>1, <3>2
  <2>2. ASSUME NEW f \in Flows PROVE GoneForGood(f)'
    <3>1. CASE x[1] = "flow" /\ x[2] = f
      BY <1>2, <1>11, <3>1 DEF GoneForGood
    <3>2. CASE ~(x[1] = "flow" /\ x[2] = f)
      <4>1. Ahead("flow", f)' = Ahead("flow", f)
        BY <1>11, <3>2, AheadJoined
      <4> QED BY <1>2, <1>11, <3>2, <4>1 DEF GoneForGood
    <3> QED BY <3>1, <3>2
  <2>3. AllInOrder'
    BY <2>1, WillAllBeInOrder
  <2> QED BY <1>4, <1>11, <2>2, <2>3
<1>12. ASSUME NEW kind, NEW x, NEW r, Committed(kind, x, r), NumbersTaken',
              \A f \in Flows : kind = "flow" /\ x = f => /\ Live(f)' = r
                                                         /\ flowRow'[f].deleted => r = None,
              \A f \in Flows : ~(kind = "flow" /\ x = f) => flowRow'[f] = flowRow[f]
       PROVE  NumbersTaken' /\ AllInOrder' /\ \A f \in Flows : GoneForGood(f)'
  <2>1. MovedUp /\ 1 \in Ahead(kind, x) /\ writes[1][3] = r /\ Up /\ flows' = flows
    BY <1>12 DEF Committed
  <2>2. \A k, y : 1 \in Ahead(k, y) <=> k = kind /\ y = x
    BY <2>1, HeadIsOne
  <2>3. ASSUME NEW f \in Flows PROVE \E live : live = Live(f)' /\ WillBeInOrder(f, live)
    <3>1. CASE kind = "flow" /\ x = f
      <4>1. WillBeInOrder(f, r)
        BY <1>2, <2>1, <2>2, <3>1, OrderMoved DEF AllInOrder
      <4> QED BY <1>12, <3>1, <4>1
    <3>2. CASE ~(kind = "flow" /\ x = f)
      <4>1. Live(f)' = Live(f)
        BY <1>12, <3>2 DEF Live
      <4>2. WillBeInOrder(f, Live(f))
        BY <1>2, <2>1, <2>2, <3>2, OrderMoved DEF AllInOrder
      <4> QED BY <4>1, <4>2
    <3> QED BY <3>1, <3>2
  <2>4. ASSUME NEW f \in Flows PROVE GoneForGood(f)'
    <3>1. /\ \A i \in Ahead("flow", f) : i \in Nat /\ i >= 1
          /\ \A i \in Ahead("flow", f)' : i \in Nat /\ i >= 1 /\ i + 1 \in Ahead("flow", f)
      BY <2>1, AheadMoved
    <3>2. CASE kind = "flow" /\ x = f /\ r = None
      <4>1. \A i \in Ahead("flow", f) : ~(1 < i)
        BY <1>2, <2>1, <3>2 DEF AllInOrder, InOrder
      <4>2. \A i \in Ahead("flow", f)' : 1 < i + 1
        BY <3>1
      <4>3. Ahead("flow", f)' = {}
        BY <3>1, <4>1, <4>2
      <4>4. \A i \in Ahead("flow", f) : i <= 1
        BY <3>1, <4>1
      <4>5. writes[1][3] = flows[f]
        BY <1>6, <2>1, <3>2, <4>4 DEF CatchesUp
      <4> QED BY <2>1, <3>2, <4>3, <4>5 DEF GoneForGood
    <3>3. CASE kind = "flow" /\ x = f /\ r # None
      BY <1>12, <3>3 DEF GoneForGood
    <3>4. CASE ~(kind = "flow" /\ x = f)
      BY <1>2, <1>12, <2>1, <3>1, <3>4 DEF GoneForGood
    <3> QED BY <3>2, <3>3, <3>4
  <2>5. AllInOrder'
    BY <2>3, WillAllBeInOrder
  <2> QED BY <1>12, <2>4, <2>5
<1>13. ASSUME NEW c \in Clips, NEW r \in ClipRecord \cup {None}, ClipSaved(c, r)
       PROVE  NumbersTaken' /\ AllInOrder' /\ \A f \in Flows : GoneForGood(f)'
  <2>1. PICK x : x = <<"clip", c, r>>
    OBVIOUS
  <2>2. PICK n \in Nat : Joined(n, x)
    BY <1>1, <1>13, <2>1, Joins DEF ClipSaved, SaveClip
  <2>3. x[1] # "flow"
    BY <2>1
  <2> QED BY <1>11, <1>13, <2>2, <2>3 DEF ClipSaved
<1>14. ASSUME NEW f \in Flows, NEW r \in FlowRecord \cup {None}, Up, writes' = Append(writes, <<"flow", f, r>>),
              flows' = [flows EXCEPT ![f] = r], UNCHANGED <<flowRow, versionRow>>, Follows(flows[f], r),
              flows[f] = None => flowRow[f] = None /\ Ahead("flow", f) = {}
       PROVE  NumbersTaken' /\ AllInOrder' /\ \A g \in Flows : GoneForGood(g)'
  <2>1. PICK x : x = <<"flow", f, r>>
    OBVIOUS
  <2>2. PICK n \in Nat : Joined(n, x)
    BY <1>1, <1>14, <2>1, Joins
  <2>3. x[1] = "flow" /\ x[2] = f /\ x[3] = r
    BY <2>1
  <2>4. \A g \in Flows : g # f => flows'[g] = flows[g]
    BY <1>1, <1>14 DEF LibraryTypes
  <2> QED BY <1>11, <1>14, <2>2, <2>3, <2>4
<1>15. ASSUME NEW f \in Flows, NEW r \in FlowRecord, FlowSaved(f, r)
       PROVE  NumbersTaken' /\ AllInOrder' /\ \A g \in Flows : GoneForGood(g)'
  BY <1>14, <1>15 DEF FlowSaved, SaveFlow
<1>16. ASSUME NEW f \in Flows, FlowDropped(f)
       PROVE  NumbersTaken' /\ AllInOrder' /\ \A g \in Flows : GoneForGood(g)'
  <2>1. Follows(flows[f], None)
    BY <1>16 DEF FlowDropped, Follows
  <2> QED BY <1>14, <1>16, <2>1 DEF FlowDropped, DropFlow
<1>17. ASSUME NEW c \in Clips, NEW r \in ClipRecord \cup {None}, ClipCommitted(c, r)
       PROVE  NumbersTaken' /\ AllInOrder' /\ \A f \in Flows : GoneForGood(f)'
  BY <1>4, <1>12, <1>17 DEF ClipCommitted
<1>18. ASSUME NEW f \in Flows, NEW r \in FlowRecord, FlowCommitted(f, r)
       PROVE  NumbersTaken' /\ AllInOrder' /\ \A g \in Flows : GoneForGood(g)'
  <2>1. NumbersTaken'
    BY <1>1, <1>18, CommittedIsTaken
  <2>2. Live(f)' = r
    BY <1>1, <1>18, LiveAfter
  <2>3. flowRow'[f] = [deleted |-> FALSE, flow |-> r] /\ \A g \in Flows : g # f => flowRow'[g] = flowRow[g]
    BY <1>1, <1>18 DEF FlowCommitted, LibraryTypes
  <2> QED BY <1>12, <1>18, <2>1, <2>2, <2>3 DEF FlowCommitted
<1>19. ASSUME NEW f \in Flows, FlowForgotten(f)
       PROVE  NumbersTaken' /\ AllInOrder' /\ \A g \in Flows : GoneForGood(g)'
  <2>1. flowRow'[f] = [deleted |-> TRUE, flow |-> flowRow[f].flow] /\ \A g \in Flows : g # f => flowRow'[g] = flowRow[g]
    BY <1>1, <1>19 DEF FlowForgotten, LibraryTypes
  <2>2. Live(f)' = None
    BY <1>1, <1>19, LiveAfter
  <2>3. flowRow[f] # None /\ flowRow'[f] # None /\ versionRow' = versionRow
    BY <1>1, <1>19, <2>1, ForgottenRow, LiveTypes, NoneIsNoRecord DEF FlowForgotten
  <2>4. NumbersTaken'
    BY <1>2, <2>1, <2>3 DEF NumbersTaken, NumbersAreTaken, SeededAt
  <2> QED BY <1>12, <1>19, <2>1, <2>2, <2>4 DEF FlowForgotten
<1>20. EmptyDraft \in FlowRecord
  BY Records
<1> QED BY <1>7, <1>8, <1>9, <1>10, <1>13, <1>15, <1>16, <1>17, <1>18, <1>19, <1>20 DEF LibraryStep

-----------------------------------------------------------------------------
(* A published version and the clip it plays. *)

VersionsKept ==
  /\ phase # "down" => versionRow \subseteq versions
  /\ \A v \in versions : v[3] # None => clips[v[3]] # None
  /\ \A v \in versionRow : flowRow[v[1]] # None /\ (v[3] # None => clipRow[v[3]] # None)

\* A publication on its way at place i is behind the clip it plays.
BehindItsClip(i, v) ==
  Publishes(i, v) => /\ v \in versions
                     /\ v[3] # None => clipRow[v[3]] # None \/ \E j \in Ahead("clip", v[3]) : j < i
PublicationsBehind == \A v \in Version, i \in DOMAIN writes : BehindItsClip(i, v)

LEMMA VersionsParts ==
  VersionsFollow <=> VersionsKept /\ PublicationsBehind
  BY DEF VersionsFollow, VersionsKept, PublicationsBehind, BehindItsClip

LEMMA PublishesJoined ==
  ASSUME NEW n \in Nat, NEW x, Joined(n, x), NEW v \in Version, NEW i \in DOMAIN writes', Publishes(i, v)'
  PROVE  \/ i \in DOMAIN writes /\ Publishes(i, v)
         \/ i = n /\ x[1] = "flow" /\ x[2] = v[1] /\ x[3] # None /\ x[3].status = "published"
              /\ x[3].version = v[2] /\ x[3].clip = v[3]
  BY DEF Joined, Publishes, Ahead

LEMMA PublishesMoved ==
  ASSUME MovedUp, NEW v \in Version, NEW i \in DOMAIN writes', Publishes(i, v)'
  PROVE  i \in Nat /\ i >= 1 /\ i + 1 \in DOMAIN writes /\ Publishes(i + 1, v)
  BY DEF MovedUp, Publishes, Ahead

\* A clip a version plays is not being deleted.
LEMMA PlayedIsHeld ==
  ASSUME VersionsKept, JobsAreApart, LibraryTypes, NEW c \in Clips, NEW v \in versions, v[3] = c,
         NEW i \in Ahead("clip", c)
  PROVE  writes[i][3] # None
<1>1. c # None
  OBVIOUS
<1>2. clips[c] # None
  BY <1>1 DEF VersionsKept
<1> QED BY <1>2 DEF JobsAreApart

LEMMA VersionsStep ==
  ASSUME IInv, LibraryStep, Lifecycle'
  PROVE  VersionsFollow'
<1>1. LibraryTypes /\ writes \in Seq(Write) /\ Lifecycle /\ NumbersGoUp /\ JobsAreApart
  BY DEF IInv, TypeOK, LibraryTypes
<1>2. VersionsKept /\ PublicationsBehind
  BY VersionsParts DEF IInv
<1>3. SUFFICES VersionsKept' /\ PublicationsBehind'
  BY DEF VersionsFollow, VersionsKept, PublicationsBehind, BehindItsClip
<1> USE DEF cache, rows
<1>4. ASSUME writes' = <<>> PROVE PublicationsBehind'
  BY <1>4 DEF PublicationsBehind
<1>5. ASSUME Up, NEW c \in Clips PROVE CatchesUp("clip", c, clipRow[c], clips[c])
  BY <1>5 DEF Up, IInv, RowsCatchUp
<1>6. \A v \in versions \cup versionRow : v \in Version /\ v[1] \in Flows /\ v[3] \in Clips \cup {None}
  BY <1>1, VersionFields DEF LibraryTypes
<1>7. CASE Still
  BY <1>2, <1>7 DEF Still, VersionsKept, PublicationsBehind, BehindItsClip, Publishes, Ahead
<1>8. CASE NothingWritten
  BY <1>2, <1>4, <1>8 DEF WriteFails, NothingWritten, VersionsKept
<1>9. CASE Exit
  BY <1>2, <1>4, <1>9 DEF Exit, VersionsKept
<1>10. CASE Connect
  <2>1. writes' = <<>> /\ clips' = clipRow' /\ versions' = versionRow'
    BY <1>1, <1>10 DEF Connect, Lifecycle, Loads
  <2>2. CASE UNCHANGED rows
    BY <1>2, <1>4, <2>1, <2>2 DEF VersionsKept
  <2>3. CASE EmptyDatabase /\ clipRow' = SeededClips /\ flowRow' = SeededFlows
             /\ versionRow' = versionRow \cup {<<DemoFlow, DemoVersion, DemoClip>>}
    <3>1. versionRow' = {<<DemoFlow, DemoVersion, DemoClip>>}
      BY <2>3 DEF EmptyDatabase
    <3>2. clipRow'[DemoClip] # None
      BY <2>3, Records, NoneIsNoRecord DEF SeededClips
    <3>3. flowRow'[DemoFlow] # None
      <4>1. [deleted |-> FALSE, flow |-> Seed] # None
        BY Records, NoneIsNoRecord
      <4> QED BY <1>1, <2>3, <4>1 DEF SeededFlows, LibraryTypes
    <3>4. \A v \in versionRow' : v[1] = DemoFlow /\ v[3] = DemoClip
      BY <3>1
    <3> QED BY <1>4, <2>1, <3>2, <3>3, <3>4 DEF VersionsKept
  <2> QED BY <1>10, <2>2, <2>3 DEF Connect
<1>11. ASSUME NEW x, NEW n \in Nat, Joined(n, x), versions \subseteq versions', UNCHANGED rows,
              \A v \in Version : (x[1] = "flow" /\ x[2] = v[1] /\ x[3] # None /\ x[3].status = "published"
                                   /\ x[3].version = v[2] /\ x[3].clip = v[3]) =>
                 /\ v \in versions'
                 /\ v[3] # None => clipRow[v[3]] # None \/ Ahead("clip", v[3]) # {}
       PROVE  PublicationsBehind'
  <2> SUFFICES ASSUME NEW v \in Version, NEW i \in DOMAIN writes', Publishes(i, v)'
               PROVE  /\ v \in versions'
                      /\ v[3] # None => clipRow'[v[3]] # None \/ \E j \in Ahead("clip", v[3])' : j < i
    BY DEF PublicationsBehind, BehindItsClip
  <2>1. /\ \A j \in Ahead("clip", v[3]) : j < n
        /\ Ahead("clip", v[3]) \subseteq Ahead("clip", v[3])'
    BY <1>11, AheadJoined
  <2>2. CASE i \in DOMAIN writes /\ Publishes(i, v)
    <3>1. BehindItsClip(i, v)
      BY <1>2, <2>2 DEF PublicationsBehind
    <3> QED BY <1>11, <2>1, <2>2, <3>1 DEF BehindItsClip
  <2>3. CASE i = n /\ x[1] = "flow" /\ x[2] = v[1] /\ x[3] # None /\ x[3].status = "published"
              /\ x[3].version = v[2] /\ x[3].clip = v[3]
    BY <1>11, <2>1, <2>3
  <2> QED BY <1>11, <2>2, <2>3, PublishesJoined
<1>12. ASSUME MovedUp, UNCHANGED versions,
              \A v \in versions : v[3] # None /\ clipRow'[v[3]] = None => clipRow[v[3]] = None /\ 1 \notin Ahead("clip", v[3])
       PROVE  PublicationsBehind'
  <2> SUFFICES ASSUME NEW v \in Version, NEW i \in DOMAIN writes', Publishes(i, v)', v[3] # None
               PROVE  clipRow'[v[3]] # None \/ \E j \in Ahead("clip", v[3])' : j < i
    <3>1. ASSUME NEW v \in Version, NEW i \in DOMAIN writes', Publishes(i, v)' PROVE v \in versions'
      <4>1. i + 1 \in DOMAIN writes /\ Publishes(i + 1, v)
        BY <1>12, <3>1, PublishesMoved
      <4> QED BY <1>2, <1>12, <4>1 DEF PublicationsBehind, BehindItsClip
    <3> QED BY <3>1 DEF PublicationsBehind, BehindItsClip
  <2>1. i \in Nat /\ i + 1 \in DOMAIN writes /\ Publishes(i + 1, v)
    BY <1>12, PublishesMoved
  <2>2. v \in versions /\ (clipRow[v[3]] # None \/ \E j \in Ahead("clip", v[3]) : j < i + 1)
    BY <1>2, <2>1 DEF PublicationsBehind, BehindItsClip
  <2>3. SUFFICES ASSUME clipRow'[v[3]] = None PROVE \E j \in Ahead("clip", v[3])' : j < i
    OBVIOUS
  <2>4. PICK j \in Ahead("clip", v[3]) : j < i + 1
    BY <1>12, <2>2, <2>3
  <2>5. j # 1 /\ j \in Nat /\ j - 1 \in Ahead("clip", v[3])'
    BY <1>12, <2>2, <2>3, <2>4, AheadMoved
  <2>6. j - 1 < i
    BY <2>1, <2>4, <2>5
  <2> QED BY <2>5, <2>6
<1>13. ASSUME NEW c \in Clips, NEW r \in ClipRecord \cup {None}, ClipSaved(c, r)
       PROVE  VersionsKept' /\ PublicationsBehind'
  <2>1. PICK x : x = <<"clip", c, r>>
    OBVIOUS
  <2>2. PICK n \in Nat : Joined(n, x)
    BY <1>1, <1>13, <2>1, Joins DEF ClipSaved, SaveClip
  <2>3. x[1] # "flow"
    BY <2>1
  <2>4. UNCHANGED <<clipRow, flowRow, versionRow, versions>> /\ phase # "down"
    BY <1>13 DEF ClipSaved, Up
  <2>5. PublicationsBehind'
    BY <1>11, <2>2, <2>3, <2>4
  <2>6. ASSUME NEW v \in versions, v[3] # None PROVE clips'[v[3]] # None
    <3>1. clips[v[3]] # None /\ v[3] \in Clips
      BY <1>2, <1>6, <2>6 DEF VersionsKept
    <3>2. v[3] = c => r # None
      BY <1>13 DEF ClipSaved, ReferencedByVersion
    <3> QED BY <1>1, <1>13, <3>1, <3>2 DEF ClipSaved, SaveClip, LibraryTypes
  <2> QED BY <1>2, <2>4, <2>5, <2>6 DEF VersionsKept
<1>14. ASSUME NEW f \in Flows, NEW r \in FlowRecord, FlowSaved(f, r)
       PROVE  VersionsKept' /\ PublicationsBehind'
  <2>1. PICK x : x = <<"flow", f, r>>
    OBVIOUS
  <2>2. PICK n \in Nat : Joined(n, x)
    BY <1>1, <1>14, <2>1, Joins DEF FlowSaved, SaveFlow
  <2>3. x[2] = f /\ x[3] = r
    BY <2>1
  <2>4. UNCHANGED <<clipRow, flowRow, versionRow, clips>> /\ Up
        /\ versions' = IF r.status = "published" THEN versions \cup {<<f, r.version, r.clip>>} ELSE versions
    BY <1>14 DEF FlowSaved, SaveFlow
  <2>5. r.clip \in Clips \cup {None} /\ (r.status = "published" /\ r.clip # None => clips[r.clip] # None)
    BY <1>14 DEF FlowSaved, FlowRecord, Playable
  <2>6. ASSUME NEW v \in Version, f = v[1], r.status = "published", r.version = v[2], r.clip = v[3]
        PROVE  /\ v \in versions'
               /\ v[3] # None => clipRow[v[3]] # None \/ Ahead("clip", v[3]) # {}
    <3>1. v = <<f, r.version, r.clip>>
      BY <2>6, VersionFields
    <3> QED BY <1>5, <2>4, <2>5, <2>6, <3>1 DEF CatchesUp
  <2>7. PublicationsBehind'
    BY <1>11, <2>2, <2>3, <2>4, <2>6
  <2>8. ASSUME NEW v \in versions', v[3] # None PROVE clips'[v[3]] # None
    <3>1. CASE v \in versions
      BY <1>2, <2>4, <2>8, <3>1 DEF VersionsKept
    <3>2. CASE v \notin versions
      <4>1. r.status = "published" /\ v = <<f, r.version, r.clip>>
        BY <2>4, <3>2
      <4>2. v[3] = r.clip
        BY <4>1
      <4> QED BY <2>4, <2>5, <2>8, <4>1, <4>2
    <3> QED BY <3>1, <3>2
  <2>9. phase # "down" /\ versions \subseteq versions'
    BY <2>4 DEF Up
  <2> QED BY <1>2, <2>4, <2>7, <2>8, <2>9 DEF VersionsKept
<1>15. ASSUME NEW f \in Flows, FlowDropped(f) PROVE VersionsKept' /\ PublicationsBehind'
  <2>1. PICK x : x = <<"flow", f, None>>
    OBVIOUS
  <2>2. PICK n \in Nat : Joined(n, x)
    BY <1>1, <1>15, <2>1, Joins DEF FlowDropped, DropFlow
  <2>3. x[3] = None
    BY <2>1
  <2>4. UNCHANGED <<clipRow, flowRow, versionRow, versions, clips>> /\ phase # "down"
    BY <1>15 DEF FlowDropped, Up
  <2>5. PublicationsBehind'
    BY <1>11, <2>2, <2>3, <2>4
  <2> QED BY <1>2, <2>4, <2>5 DEF VersionsKept
<1>16. ASSUME NEW c \in Clips, NEW r \in ClipRecord \cup {None}, ClipCommitted(c, r)
       PROVE  VersionsKept' /\ PublicationsBehind'
  <2>1. /\ MovedUp /\ 1 \in Ahead("clip", c) /\ writes[1][3] = r /\ Up /\ UNCHANGED <<clips, versions, flowRow, versionRow>>
        /\ clipRow' = [clipRow EXCEPT ![c] = r]
    BY <1>16 DEF ClipCommitted, Committed
  <2>2. \A d \in Clips : (d = c => clipRow'[d] = r) /\ (d # c => clipRow'[d] = clipRow[d])
    BY <1>1, <2>1 DEF LibraryTypes
  <2>3. \A v \in versions : v[3] = c => r # None
    BY <1>1, <1>2, <2>1, PlayedIsHeld
  <2>4. \A v \in versions : v[3] # None /\ clipRow'[v[3]] = None => clipRow[v[3]] = None /\ 1 \notin Ahead("clip", v[3])
    <3> SUFFICES ASSUME NEW v \in versions, v[3] # None, clipRow'[v[3]] = None
                 PROVE  clipRow[v[3]] = None /\ 1 \notin Ahead("clip", v[3])
      OBVIOUS
    <3>1. v[3] \in Clips /\ v[3] # c
      BY <1>6, <2>2, <2>3
    <3> QED BY <2>1, <2>2, <3>1, HeadIsOne
  <2>5. PublicationsBehind'
    BY <1>12, <2>1, <2>4
  <2>6. versionRow \subseteq versions
    BY <1>2, <2>1 DEF VersionsKept, Up
  <2>7. \A v \in versionRow : v[3] # None => clipRow'[v[3]] # None
    BY <1>2, <2>4, <2>6 DEF VersionsKept
  <2> QED BY <1>2, <2>1, <2>5, <2>6, <2>7 DEF VersionsKept
<1>17. ASSUME NEW f \in Flows, NEW r \in FlowRecord, FlowCommitted(f, r)
       PROVE  VersionsKept' /\ PublicationsBehind'
  <2>1. /\ MovedUp /\ 1 \in Ahead("flow", f) /\ writes[1][3] = r /\ Up /\ UNCHANGED <<clips, versions, clipRow>>
        /\ versionRow' = IF r.status = "published" THEN versionRow \cup {<<f, r.version, r.clip>>} ELSE versionRow
    BY <1>17 DEF FlowCommitted, Committed
  <2>2. \A k, y : 1 \in Ahead(k, y) => k = "flow"
    BY <2>1, HeadIsOne
  <2>3. PublicationsBehind'
    BY <1>12, <2>1, <2>2
  <2>4. versionRow \subseteq versions
    BY <1>2, <2>1 DEF VersionsKept, Up
  <2>5. ASSUME NEW v \in versionRow', v \notin versionRow
        PROVE  v \in versions /\ v[1] = f /\ (v[3] # None => clipRow[v[3]] # None)
    <3>1. r.status = "published" /\ v = <<f, r.version, r.clip>>
      BY <2>1, <2>5
    <3>2. v[1] = f /\ v[2] = r.version /\ v[3] = r.clip
      BY <3>1
    <3>3. v \in Version
      BY <1>1, <1>17, <3>1, HeadFollows, LiveTypes, Published DEF FlowCommitted
    <3>4. Publishes(1, v) /\ 1 \in DOMAIN writes
      BY <2>1, <3>1, <3>2, NoneIsNoRecord DEF Publishes, Ahead
    <3>5. \A j \in Ahead("clip", v[3]) : ~(j < 1)
      BY <2>1, AheadMoved
    <3> QED BY <1>2, <3>2, <3>3, <3>4, <3>5 DEF PublicationsBehind, BehindItsClip
  <2>6. \A v \in versionRow' : v \in versions /\ (v[3] # None => clipRow[v[3]] # None)
    BY <1>2, <2>4, <2>5 DEF VersionsKept
  <2>7. \A v \in versionRow' : flowRow'[v[1]] # None
    <3>1. flowRow'[f] # None
      <4>1. [deleted |-> FALSE, flow |-> r] # None
        BY NoneIsNoRecord
      <4> QED BY <1>1, <1>17, <4>1 DEF FlowCommitted, LibraryTypes
    <3> QED BY <1>1, <1>2, <1>6, <2>5, <3>1, RowsStay DEF VersionsKept
  <2> QED BY <1>2, <2>1, <2>3, <2>6, <2>7 DEF VersionsKept
<1>18. ASSUME NEW f \in Flows, FlowForgotten(f) PROVE VersionsKept' /\ PublicationsBehind'
  <2>1. MovedUp /\ 1 \in Ahead("flow", f) /\ Up /\ UNCHANGED <<clips, versions, clipRow, versionRow>>
    BY <1>18 DEF FlowForgotten, Committed
  <2>2. \A k, y : 1 \in Ahead(k, y) => k = "flow"
    BY <2>1, HeadIsOne
  <2>3. PublicationsBehind'
    BY <1>12, <2>1, <2>2
  <2>4. \A v \in versionRow : flowRow'[v[1]] # None
    BY <1>1, <1>2, <1>6, RowsStay DEF VersionsKept
  <2> QED BY <1>2, <2>1, <2>3, <2>4 DEF VersionsKept, Up
<1>19. EmptyDraft \in FlowRecord
  BY Records
<1> QED BY <1>7, <1>8, <1>9, <1>10, <1>13, <1>14, <1>15, <1>16, <1>17, <1>18, <1>19 DEF LibraryStep

-----------------------------------------------------------------------------
(* The files in work. *)

\* The records of a clip whose files are in work.
RecordsApart ==
  \A c \in Clips :
    /\ job[c] # "none" => clips[c] = None
    /\ job[c] \notin {"none", "deleting"} => clipRow[c] = None
    /\ clips[c] = None /\ job[c] # "deleting" => Ahead("clip", c) = {}
    /\ \A i \in Ahead("clip", c) : writes[i][3] = None => clips[c] = None
FilesApart ==
  \A c \in Clips :
    /\ job[c] = "half" => media[c].original = "stored"
    /\ job[c] = "placed" => Whole(c)

LEMMA JobsParts ==
  JobsAreApart <=> RecordsApart /\ FilesApart
  BY DEF JobsAreApart, RecordsApart, FilesApart

\* A job ends when its record is made; no other clip that is saved is in work.
LEMMA ApartByLibrary ==
  ASSUME LibraryTypes, Lifecycle, RecordsApart, LibraryStep, ~Exit,
         \A c \in Clips : job'[c] = job[c] \/ (job'[c] = "none" /\ clips'[c] # None),
         \A c \in Clips, r \in ClipRecord \cup {None} : ClipSaved(c, r) => r # None /\ job'[c] = "none"
  PROVE  RecordsApart'
<1>1. writes \in Seq(Write)
  BY DEF LibraryTypes
<1> USE DEF cache, rows
<1>2. ASSUME UNCHANGED clips, UNCHANGED clipRow, \A c \in Clips : Ahead("clip", c)' = Ahead("clip", c),
             \A c \in Clips : \A i \in Ahead("clip", c) : writes'[i] = writes[i]
      PROVE  RecordsApart'
  BY <1>2 DEF RecordsApart
<1>3. ASSUME UNCHANGED clips, MovedUp,
             \A c \in Clips : clipRow'[c] # clipRow[c] => 1 \in Ahead("clip", c)
      PROVE  RecordsApart'
  <2> SUFFICES ASSUME NEW c \in Clips
               PROVE  /\ job'[c] # "none" => clips'[c] = None
                      /\ job'[c] \notin {"none", "deleting"} => clipRow'[c] = None
                      /\ clips'[c] = None /\ job'[c] # "deleting" => Ahead("clip", c)' = {}
                      /\ \A i \in Ahead("clip", c)' : writes'[i][3] = None => clips'[c] = None
    BY DEF RecordsApart
  <2>1. \A i \in Ahead("clip", c)' : i + 1 \in Ahead("clip", c) /\ writes'[i] = writes[i + 1]
    BY <1>3, AheadMoved
  <2>2. clips'[c] = clips[c]
    BY <1>3
  <2>3. job'[c] = job[c] \/ (job'[c] = "none" /\ clips[c] # None)
    BY <2>2
  <2>4. job'[c] # "none" => clips[c] = None
    BY <2>3 DEF RecordsApart
  <2>5. job'[c] \notin {"none", "deleting"} => clipRow'[c] = None
    <3>1. job'[c] \notin {"none", "deleting"} => Ahead("clip", c) = {} /\ clipRow[c] = None
      BY <2>3 DEF RecordsApart
    <3> QED BY <1>3, <3>1
  <2>6. clips[c] = None /\ job'[c] # "deleting" => Ahead("clip", c)' = {}
    BY <2>1, <2>3 DEF RecordsApart
  <2>7. \A i \in Ahead("clip", c)' : writes'[i][3] = None => clips[c] = None
    BY <2>1 DEF RecordsApart
  <2> QED BY <2>2, <2>4, <2>5, <2>6, <2>7
<1>4. CASE Still
  BY <1>2, <1>4 DEF Still, Ahead
<1>5. CASE NothingWritten
  <2>1. UNCHANGED <<clips, clipRow>> /\ writes' = <<>>
    BY <1>5 DEF WriteFails, NothingWritten
  <2>2. \A c \in Clips : Ahead("clip", c)' = {}
    BY <2>1 DEF Ahead
  <2> QED BY <2>1, <2>2 DEF RecordsApart
<1>6. CASE Connect
  <2>1. writes' = <<>> /\ UNCHANGED job /\ \A c \in Clips : job[c] = "none"
    BY <1>6 DEF Connect, Lifecycle
  <2>2. \A c \in Clips : Ahead("clip", c)' = {}
    BY <2>1 DEF Ahead
  <2> QED BY <2>1, <2>2 DEF RecordsApart
<1>7. ASSUME NEW c \in Clips, NEW r \in ClipRecord \cup {None}, ClipSaved(c, r) PROVE RecordsApart'
  <2>1. PICK x : x = <<"clip", c, r>>
    OBVIOUS
  <2>2. PICK n \in Nat : Joined(n, x)
    BY <1>1, <1>7, <2>1, Joins DEF ClipSaved, SaveClip
  <2>3. x[1] = "clip" /\ x[2] = c /\ x[3] = r
    BY <2>1
  <2>4. r # None /\ job'[c] = "none" /\ clipRow' = clipRow /\ (clips[c] = None => Ahead("clip", c) = {})
    BY <1>7 DEF ClipSaved
  <2>5. \A d \in Clips : (d = c => clips'[d] = r) /\ (d # c => clips'[d] = clips[d])
    BY <1>7 DEF ClipSaved, SaveClip, LibraryTypes
  <2>6. /\ Ahead("clip", c)' = Ahead("clip", c) \cup {n} /\ writes'[n] = x
        /\ \A i \in Ahead("clip", c) : writes'[i] = writes[i]
    BY <2>2, <2>3, AheadJoined
  <2>7. \A i \in Ahead("clip", c)' : writes'[i][3] # None
    <3>1. \A i \in Ahead("clip", c) : writes[i][3] # None
      BY <2>4 DEF RecordsApart
    <3> QED BY <2>3, <2>4, <2>6, <3>1
  <2>8. \A d \in Clips : d # c => /\ Ahead("clip", d)' = Ahead("clip", d)
                                  /\ \A i \in Ahead("clip", d) : writes'[i] = writes[i]
    BY <2>2, <2>3, AheadJoined
  <2>9. ASSUME NEW d \in Clips, d # c
        PROVE  /\ job'[d] # "none" => clips'[d] = None
               /\ job'[d] \notin {"none", "deleting"} => clipRow'[d] = None
               /\ clips'[d] = None /\ job'[d] # "deleting" => Ahead("clip", d)' = {}
               /\ \A i \in Ahead("clip", d)' : writes'[i][3] = None => clips'[d] = None
    BY <2>4, <2>5, <2>8, <2>9 DEF RecordsApart
  <2> QED BY <2>4, <2>5, <2>7, <2>9 DEF RecordsApart
<1>8. ASSUME NEW f \in Flows, NEW r \in FlowRecord, FlowSaved(f, r) \/ FlowDropped(f) PROVE RecordsApart'
  <2>1. PICK s : writes' = Append(writes, <<"flow", f, s>>)
    BY <1>8 DEF FlowSaved, SaveFlow, FlowDropped, DropFlow
  <2>2. PICK x : x = <<"flow", f, s>>
    OBVIOUS
  <2>3. PICK n \in Nat : Joined(n, x)
    BY <1>1, <2>1, <2>2, Joins
  <2>4. x[1] # "clip"
    BY <2>2
  <2>5. UNCHANGED <<clips, clipRow>>
    BY <1>8 DEF FlowSaved, FlowDropped
  <2> QED BY <1>2, <2>3, <2>4, <2>5, AheadJoined
<1>9. ASSUME NEW c \in Clips, NEW r \in ClipRecord \cup {None}, ClipCommitted(c, r) PROVE RecordsApart'
  <2>1. MovedUp /\ 1 \in Ahead("clip", c) /\ UNCHANGED clips /\ clipRow' = [clipRow EXCEPT ![c] = r]
    BY <1>9 DEF ClipCommitted, Committed
  <2>2. \A d \in Clips : d # c => clipRow'[d] = clipRow[d]
    BY <2>1 DEF LibraryTypes
  <2> QED BY <1>3, <2>1, <2>2
<1>10. ASSUME NEW f \in Flows, NEW r \in FlowRecord, FlowCommitted(f, r) \/ FlowForgotten(f) PROVE RecordsApart'
  BY <1>3, <1>10 DEF FlowCommitted, FlowForgotten, Committed
<1>11. EmptyDraft \in FlowRecord
  BY Records
<1> QED BY <1>4, <1>5, <1>6, <1>7, <1>8, <1>9, <1>10, <1>11 DEF LibraryStep

\* A job begins with a clip nothing is recorded of, and goes on alone.
LEMMA ApartByJobs ==
  ASSUME LibraryTypes, RecordsApart, UNCHANGED <<cache, rows, writes>>, NEW c \in Clips, NEW j,
         job' = [job EXCEPT ![c] = j], job \in [Clips -> {"none", "staged", "converting", "converted", "half", "placed", "deleting", "unlinking"}],
         j # "none" => clips[c] = None,
         j \notin {"none", "deleting"} => clipRow[c] = None,
         clips[c] = None /\ j # "deleting" => Ahead("clip", c) = {}
  PROVE  RecordsApart'
<1>1. \A d \in Clips : job'[d] = IF d = c THEN j ELSE job[d]
  OBVIOUS
<1>2. UNCHANGED <<clips, clipRow>> /\ \A d \in Clips : Ahead("clip", d)' = Ahead("clip", d)
      /\ \A i \in Ahead("clip", d) : writes'[i] = writes[i]
  BY DEF cache, rows, Ahead
<1> QED BY <1>1, <1>2 DEF RecordsApart

LEMMA SavedOnce ==
  ASSUME LibraryTypes, NEW c \in Clips, NEW r \in ClipRecord \cup {None}, SaveClip(c, r)
  PROVE  /\ \A d \in Clips, s \in ClipRecord \cup {None} : ClipSaved(d, s) => d = c /\ s = r
         /\ clips'[c] = r
<1>1. writes \in Seq(Write) /\ clips'[c] = r
  BY DEF LibraryTypes, SaveClip
<1> SUFFICES ASSUME NEW d \in Clips, NEW s \in ClipRecord \cup {None}, ClipSaved(d, s) PROVE d = c /\ s = r
  BY <1>1
<1>2. PICK x, y : x = <<"clip", c, r>> /\ y = <<"clip", d, s>>
  OBVIOUS
<1>3. writes' = Append(writes, x) /\ writes' = Append(writes, y)
  BY <1>2 DEF SaveClip, ClipSaved
<1>4. x \in Write /\ y \in Write
  BY <1>2, WriteKinds
<1>5. \A z \in Write : Append(writes, z)[Len(writes) + 1] = z
  BY <1>1
<1>6. x = y
  BY <1>3, <1>4, <1>5
<1> QED BY <1>2, <1>6

\* A step that saves a flow, commits or fails a write, or leaves the library alone saves no clip.
LEMMA OneWrite ==
  ASSUME LibraryTypes, NEW c \in Clips, NEW r \in ClipRecord \cup {None}, ClipSaved(c, r)
  PROVE  writes' # writes /\ writes' # <<>> /\ (writes # <<>> => writes' # Tail(writes)) /\ ~(\E f, s : writes' = Append(writes, <<"flow", f, s>>))
<1>1. writes \in Seq(Write)
  BY DEF LibraryTypes
<1>2. PICK x : x = <<"clip", c, r>>
  OBVIOUS
<1>3. writes' = Append(writes, x) /\ x[1] = "clip" /\ x \in Write
  BY <1>2, WriteKinds DEF ClipSaved, SaveClip
<1>4. Len(writes') = Len(writes) + 1 /\ writes'[Len(writes) + 1] = x /\ Len(writes) \in Nat
  BY <1>1, <1>3
<1>5. writes' # writes
  BY <1>4
<1>6. writes' # <<>>
  BY <1>4
<1>7. ASSUME writes # <<>>, writes' = Tail(writes) PROVE FALSE
  <2>1. Len(Tail(writes)) = Len(writes) - 1
    BY <1>1, <1>7
  <2>2. Len(writes') = Len(writes) - 1
    BY <1>7, <2>1
  <2> QED BY <1>4, <2>2
<1>8. ASSUME NEW f, NEW s, writes' = Append(writes, <<"flow", f, s>>) PROVE FALSE
  <2>1. PICK y : y = <<"flow", f, s>>
    OBVIOUS
  <2>2. writes'[Len(writes) + 1] = y
    BY <1>1, <1>8, <2>1
  <2>3. y[1] = "flow"
    BY <2>1
  <2> QED BY <1>3, <1>4, <2>2, <2>3
<1> QED BY <1>5, <1>6, <1>7, <1>8

LEMMA RecordsApartStep ==
  ASSUME IInv, [Next]_vars
  PROVE  RecordsApart'
<1>1. TypeOK /\ LibraryTypes /\ Lifecycle /\ LibraryStep /\ RecordsApart /\ BootKeeps
  BY LibrarySteps, JobsParts DEF IInv, TypeOK, LibraryTypes
<1>2. job \in [Clips -> {"none", "staged", "converting", "converted", "half", "placed", "deleting", "unlinking"}]
  BY <1>1 DEF TypeOK
<1> USE DEF world, bounds
<1>3. ASSUME UNCHANGED job, ~Exit,
             UNCHANGED writes \/ writes' = <<>> \/ (writes # <<>> /\ writes' = Tail(writes))
               \/ (\E f, s : writes' = Append(writes, <<"flow", f, s>>))
      PROVE  RecordsApart'
  <2>1. \A c \in Clips, r \in ClipRecord \cup {None} : ~ClipSaved(c, r)
    BY <1>1, <1>3, OneWrite
  <2> QED BY <1>1, <1>3, <2>1, ApartByLibrary
<1>4. ASSUME NEW c \in Clips, NEW r \in ClipRecord, SaveClip(c, r), ~Exit,
             job'[c] = "none", \A d \in Clips \ {c} : job'[d] = job[d]
      PROVE  RecordsApart'
  <2>1. clips'[c] = r /\ r # None /\ \A d \in Clips, s \in ClipRecord \cup {None} : ClipSaved(d, s) => d = c /\ s = r
    BY <1>1, <1>4, SavedOnce, NoneIsNoRecord
  <2> QED BY <1>1, <1>4, <2>1, ApartByLibrary
<1>5. CASE UNCHANGED vars
  <2>1. UNCHANGED <<clips, clipRow, writes, job>>
    BY <1>5 DEF vars, cache, rows
  <2> QED BY <1>1, <2>1 DEF RecordsApart, Ahead
<1>6. CASE Commit
  BY <1>3, <1>6 DEF Commit, Exit
<1>7. CASE WriteFails
  BY <1>3, <1>7 DEF WriteFails, Exit
<1>8. CASE Exit
  <2>1. writes' = <<>> /\ job' = [c \in Clips |-> "none"]
    BY <1>8 DEF Exit
  <2>2. \A c \in Clips : Ahead("clip", c)' = {}
    BY <2>1 DEF Ahead
  <2> QED BY <2>1, <2>2 DEF RecordsApart
<1>9. CASE Connect
  BY <1>3, <1>9 DEF Connect, Exit
<1>10. CASE ScanOver \/ Serve
  BY <1>3, <1>10 DEF ScanOver, Serve, Exit
<1>11. ASSUME NEW c \in Clips, ScanRecord(c) PROVE RecordsApart'
  <2>1. UNCHANGED <<job, phase>> /\ phase = "scanning" /\ clips[c] # None /\ clips[c] \in ClipRecord
    BY <1>1, <1>11 DEF ScanRecord, BootKeeps, LibraryTypes
  <2>2. ~Exit /\ job[c] = "none"
    BY <1>1, <2>1 DEF Exit, Lifecycle
  <2>3. CASE UNCHANGED writes
    BY <1>3, <2>1, <2>2, <2>3
  <2>4. CASE SaveClip(c, [clips[c] EXCEPT !.status = "archived"])
    <3>1. [clips[c] EXCEPT !.status = "archived"] \in ClipRecord
      BY <2>1 DEF ClipRecord
    <3> QED BY <1>4, <2>1, <2>2, <2>4, <3>1
  <2> QED BY <1>11, <2>3, <2>4 DEF ScanRecord
<1>12. ASSUME NEW c \in Clips, NEW h \in Files, SetAside(c, h) \/ Unlink(c, h) \/ LoseFile(c, h) PROVE RecordsApart'
  BY <1>3, <1>12 DEF SetAside, Unlink, LoseFile, Exit
<1>13. ASSUME NEW a, Respond(a) \/ RespondFailed(a) PROVE RecordsApart'
  <2>1. UNCHANGED <<clips, clipRow, writes, job>>
    BY <1>13 DEF Respond, RespondFailed, cache, rows
  <2> QED BY <1>1, <2>1 DEF RecordsApart, Ahead
<1>14. ASSUME NEW f \in Flows, CreateDraft(f) \/ PublishFlow(f) \/ DeleteFlow(f) PROVE RecordsApart'
  <2>1. UNCHANGED job /\ ~Exit
    BY <1>14 DEF CreateDraft, PublishFlow, DeleteFlow, Writable, Request, Exit
  <2>2. \E s : writes' = Append(writes, <<"flow", f, s>>)
    BY <1>14 DEF CreateDraft, PublishFlow, DeleteFlow, SaveFlow, DropFlow
  <2> QED BY <1>3, <2>1, <2>2
<1>15. ASSUME NEW f \in Flows, NEW c \in Clips \cup {None}, EditFlow(f, c) PROVE RecordsApart'
  BY <1>3, <1>15 DEF EditFlow, SaveFlow, Writable, Request, Exit
<1>16. ASSUME NEW c \in Clips, CreateClip(c) PROVE RecordsApart'
  BY <1>4, <1>16, Records DEF CreateClip, NewClipId, Writable, Request, Exit
<1>17. ASSUME NEW c \in Clips, ArchiveClip(c) PROVE RecordsApart'
  <2>1. clips[c] # None /\ clips[c] \in ClipRecord /\ UNCHANGED job /\ SaveClip(c, [clips[c] EXCEPT !.status = "archived"]) /\ ~Exit
    BY <1>1, <1>17 DEF ArchiveClip, LibraryTypes, Writable, Request, Exit
  <2>2. [clips[c] EXCEPT !.status = "archived"] \in ClipRecord /\ job[c] = "none"
    BY <1>1, <2>1 DEF ClipRecord, RecordsApart
  <2> QED BY <1>4, <2>1, <2>2
<1>18. ASSUME NEW c \in Clips, DeleteClip(c) PROVE RecordsApart'
  <2>1. /\ clips' = [clips EXCEPT ![c] = None] /\ writes' = Append(writes, <<"clip", c, None>>)
        /\ job' = [job EXCEPT ![c] = "deleting"] /\ UNCHANGED clipRow
    BY <1>18 DEF DeleteClip, SaveClip, rows
  <2>2. PICK x : x = <<"clip", c, None>>
    OBVIOUS
  <2>3. PICK n \in Nat : Joined(n, x)
    BY <1>1, <2>1, <2>2, Joins DEF LibraryTypes
  <2>4. x[2] = c
    BY <2>2
  <2>5. \A d \in Clips : /\ d = c => clips'[d] = None /\ job'[d] = "deleting"
                         /\ d # c => clips'[d] = clips[d] /\ job'[d] = job[d]
    BY <1>1, <1>2, <2>1 DEF LibraryTypes
  <2>6. \A d \in Clips : d # c => /\ Ahead("clip", d)' = Ahead("clip", d)
                                  /\ \A i \in Ahead("clip", d) : writes'[i] = writes[i]
    BY <2>3, <2>4, AheadJoined
  <2>7. ASSUME NEW d \in Clips, d # c
        PROVE  /\ job'[d] # "none" => clips'[d] = None
               /\ job'[d] \notin {"none", "deleting"} => clipRow'[d] = None
               /\ clips'[d] = None /\ job'[d] # "deleting" => Ahead("clip", d)' = {}
               /\ \A i \in Ahead("clip", d)' : writes'[i][3] = None => clips'[d] = None
    <3>1. clips'[d] = clips[d] /\ job'[d] = job[d] /\ clipRow'[d] = clipRow[d]
      BY <2>1, <2>5, <2>7
    <3>2. Ahead("clip", d)' = Ahead("clip", d) /\ \A i \in Ahead("clip", d) : writes'[i] = writes[i]
      BY <2>6, <2>7
    <3> QED BY <1>1, <3>1, <3>2 DEF RecordsApart
  <2>8. clips'[c] = None /\ job'[c] = "deleting"
    BY <2>5
  <2> QED BY <2>7, <2>8 DEF RecordsApart
<1>19. ASSUME NEW c \in Clips, NEW j, UNCHANGED <<cache, rows, writes>>, job' = [job EXCEPT ![c] = j],
              j = "none" \/ (j # "deleting" /\ clipRow[c] = None /\ clips[c] = None),
              clips[c] = None => Ahead("clip", c) = {}
       PROVE  RecordsApart'
  BY <1>1, <1>2, <1>19, ApartByJobs
<1>20. ASSUME NEW c \in Clips, job[c] # "deleting" PROVE clips[c] = None => Ahead("clip", c) = {}
  BY <1>1, <1>20 DEF RecordsApart
<1>21. ASSUME NEW c \in Clips, StageUpload(c) PROVE RecordsApart'
  BY <1>19, <1>20, <1>21 DEF StageUpload, NewClipId
<1>22. ASSUME NEW c \in Clips, StartConversion(c) \/ Converted(c) \/ MoveOriginal(c) \/ MoveCanonical(c) PROVE RecordsApart'
  <2>1. job[c] \notin {"none", "deleting"} /\ UNCHANGED <<cache, rows, writes>>
    BY <1>22 DEF StartConversion, Converted, MoveOriginal, MoveCanonical
  <2>2. clipRow[c] = None /\ clips[c] = None
    BY <1>1, <2>1 DEF RecordsApart
  <2>3. PICK j \in {"converting", "converted", "half", "placed"} : job' = [job EXCEPT ![c] = j]
    BY <1>22 DEF StartConversion, Converted, MoveOriginal, MoveCanonical
  <2> QED BY <1>19, <1>20, <2>1, <2>2, <2>3
<1>23. ASSUME NEW c \in Clips, RejectUpload(c) \/ AbandonUpload(c) \/ ClipDeleted(c) PROVE RecordsApart'
  <2>1. job[c] \notin {"none", "deleting"} /\ UNCHANGED <<cache, rows, writes>> /\ job' = [job EXCEPT ![c] = "none"]
    BY <1>23 DEF RejectUpload, AbandonUpload, Abandoned, ClipDeleted
  <2> QED BY <1>19, <1>20, <2>1
<1>24. ASSUME NEW c \in Clips, CreateUploaded(c) PROVE RecordsApart'
  <2>1. job[c] = "placed" /\ job' = [job EXCEPT ![c] = "none"] /\ UNCHANGED <<rows, phase, flows, versions>>
    BY <1>24 DEF CreateUploaded
  <2>2. CASE storeOk
    <3>1. SaveClip(c, UploadedRecord) /\ ~Exit
      BY <1>1, <1>24, <2>1, <2>2 DEF CreateUploaded, Exit
    <3> QED BY <1>2, <1>4, <2>1, <3>1, Records
  <2>3. CASE ~storeOk
    <3>1. UNCHANGED <<cache, rows, writes>>
      BY <1>24, <2>1, <2>3 DEF CreateUploaded, cache
    <3> QED BY <1>19, <1>20, <2>1, <3>1
  <2> QED BY <2>2, <2>3
<1>25. ASSUME NEW c \in Clips, DeletionFlushed(c) PROVE RecordsApart'
  <2>1. job[c] = "deleting" /\ UNCHANGED <<cache, rows, writes>> /\ clips[c] = None
    BY <1>1, <1>25 DEF DeletionFlushed, RecordsApart
  <2>2. CASE Flushed /\ job' = [job EXCEPT ![c] = "unlinking"]
    <3>1. Ahead("clip", c) = {}
      BY <2>2, NothingAhead DEF Flushed
    <3>2. CatchesUp("clip", c, clipRow[c], clips[c])
      BY <2>2 DEF Flushed, IInv, RowsCatchUp
    <3>3. clipRow[c] = None
      BY <2>1, <3>1, <3>2 DEF CatchesUp
    <3> QED BY <1>19, <2>1, <2>2, <3>1, <3>3
  <2>3. CASE ~storeOk /\ job' = [job EXCEPT ![c] = "none"]
    <3>1. Ahead("clip", c) = {}
      BY <1>1, <2>3, NothingAhead DEF Lifecycle
    <3> QED BY <1>19, <2>1, <2>3, <3>1
  <2> QED BY <1>25, <2>2, <2>3 DEF DeletionFlushed
<1> QED BY <1>5, <1>6, <1>7, <1>8, <1>9, <1>10, <1>11, <1>12, <1>13, <1>14, <1>15, <1>16, <1>17, <1>18, <1>21, <1>22,
           <1>23, <1>24, <1>25
        DEF Next, BootStep, UploadStep

LEMMA FilesApartStep ==
  ASSUME IInv, [Next]_vars
  PROVE  FilesApart'
<1>1. TypeOK /\ Lifecycle /\ FilesApart
  BY JobsParts DEF IInv
<1>2. /\ media \in [Clips -> [Files -> Places]]
      /\ job \in [Clips -> {"none", "staged", "converting", "converted", "half", "placed", "deleting", "unlinking"}]
  BY <1>1 DEF TypeOK
<1> USE DEF world, bounds
<1>3. ASSUME NEW c \in Clips, NEW j, job' = [job EXCEPT ![c] = j], \A d \in Clips \ {c} : media'[d] = media[d],
             j = "half" => media'[c].original = "stored", j = "placed" => Whole(c)'
      PROVE  FilesApart'
  <2>1. job'[c] = j /\ \A d \in Clips \ {c} : job'[d] = job[d] /\ media'[d] = media[d]
    BY <1>2, <1>3
  <2> QED BY <1>1, <1>3, <2>1 DEF FilesApart, Whole
<1>4. ASSUME UNCHANGED <<media, job>> PROVE FilesApart'
  BY <1>1, <1>4 DEF FilesApart, Whole
<1>5. ASSUME UNCHANGED job, phase # "serving" PROVE FilesApart'
  BY <1>1, <1>5 DEF FilesApart, Lifecycle
<1>6. CASE UNCHANGED vars
  BY <1>4, <1>6 DEF vars
<1>7. CASE Commit \/ WriteFails \/ ScanOver \/ Serve
  BY <1>4, <1>7 DEF Commit, WriteFails, ScanOver, Serve
<1>8. CASE Exit
  BY <1>8 DEF Exit, FilesApart
<1>9. CASE Connect
  BY <1>4, <1>9 DEF Connect
<1>10. ASSUME NEW c \in Clips, ScanRecord(c) \/ CreateClip(c) \/ ArchiveClip(c) PROVE FilesApart'
  BY <1>4, <1>10 DEF ScanRecord, CreateClip, ArchiveClip
<1>11. ASSUME NEW c \in Clips, NEW h \in Files, SetAside(c, h) \/ LoseFile(c, h) PROVE FilesApart'
  BY <1>5, <1>11 DEF SetAside, LoseFile
<1>12. ASSUME NEW c \in Clips, NEW h \in Files, Unlink(c, h) PROVE FilesApart'
  <2>1. job[c] = "unlinking" /\ UNCHANGED job /\ \A d \in Clips \ {c} : media'[d] = media[d]
    BY <1>2, <1>12 DEF Unlink
  <2> QED BY <1>1, <2>1 DEF FilesApart, Whole
<1>13. ASSUME NEW a, Respond(a) \/ RespondFailed(a) PROVE FilesApart'
  BY <1>4, <1>13 DEF Respond, RespondFailed
<1>14. ASSUME NEW f \in Flows, CreateDraft(f) \/ PublishFlow(f) \/ DeleteFlow(f) PROVE FilesApart'
  BY <1>4, <1>14 DEF CreateDraft, PublishFlow, DeleteFlow
<1>15. ASSUME NEW f \in Flows, NEW c \in Clips \cup {None}, EditFlow(f, c) PROVE FilesApart'
  BY <1>4, <1>15 DEF EditFlow
<1>16. ASSUME NEW c \in Clips, DeleteClip(c) \/ StartConversion(c) \/ DeletionFlushed(c) \/ ClipDeleted(c) \/ CreateUploaded(c)
       PROVE  FilesApart'
  <2>1. UNCHANGED media /\ \E j \in {"none", "deleting", "converting", "unlinking"} : job' = [job EXCEPT ![c] = j]
    BY <1>16 DEF DeleteClip, StartConversion, DeletionFlushed, ClipDeleted, CreateUploaded
  <2> QED BY <1>3, <2>1
<1>17. ASSUME NEW c \in Clips, StageUpload(c) \/ Converted(c) \/ RejectUpload(c) \/ AbandonUpload(c) PROVE FilesApart'
  <2>1. \A d \in Clips \ {c} : media'[d] = media[d]
    BY <1>2, <1>17 DEF StageUpload, Converted, RejectUpload, AbandonUpload, Abandoned
  <2>2. \E j \in {"none", "staged", "converted"} : job' = [job EXCEPT ![c] = j]
    BY <1>17 DEF StageUpload, Converted, RejectUpload, AbandonUpload, Abandoned
  <2> QED BY <1>3, <2>1, <2>2
<1>18. ASSUME NEW c \in Clips, MoveOriginal(c) PROVE FilesApart'
  <2>1. media'[c].original = "stored" /\ \A d \in Clips \ {c} : media'[d] = media[d]
    BY <1>2, <1>18 DEF MoveOriginal, Files
  <2> QED BY <1>3, <1>18, <2>1 DEF MoveOriginal
<1>19. ASSUME NEW c \in Clips, MoveCanonical(c) PROVE FilesApart'
  <2>1. media'[c].canonical = "stored" /\ media'[c].original = media[c].original /\ \A d \in Clips \ {c} : media'[d] = media[d]
    BY <1>2, <1>19 DEF MoveCanonical, Files
  <2>2. media[c].original = "stored"
    BY <1>1, <1>19 DEF MoveCanonical, FilesApart
  <2>3. Whole(c)'
    BY <2>1, <2>2 DEF Whole, Files
  <2> QED BY <1>3, <1>19, <2>1, <2>3 DEF MoveCanonical
<1> QED BY <1>6, <1>7, <1>8, <1>9, <1>10, <1>11, <1>12, <1>13, <1>14, <1>15, <1>16, <1>17, <1>18, <1>19
        DEF Next, BootStep, UploadStep

LEMMA JobsStep ==
  ASSUME IInv, [Next]_vars
  PROVE  JobsAreApart'
BY RecordsApartStep, FilesApartStep DEF JobsAreApart, RecordsApart, FilesApart

-----------------------------------------------------------------------------
(* What a boot leaves of the records. *)

\* The boot's view of a clip.
Kept(c) ==
  /\ clipRow[c] = None <=> clips[c] = None
  /\ clips[c] # None => clipRow[c].files = clips[c].files
  /\ \A i \in Ahead("clip", c) : clips[c] # None /\ writes[i][3] # None /\ writes[i][3].files = clips[c].files
  /\ c \in toScan => clips[c] # None

LEMMA BootKeepsStep ==
  ASSUME IInv, [Next]_vars
  PROVE  BootKeeps'
<1>1. TypeOK /\ LibraryTypes /\ Lifecycle
  BY DEF IInv, TypeOK, LibraryTypes
<1>2. BootKeeps <=> (phase \in {"scanning", "sweeping"} => \A c \in Clips : Kept(c))
  BY DEF BootKeeps, Kept
<1>3. SUFFICES ASSUME phase' \in {"scanning", "sweeping"} PROVE \A c \in Clips : Kept(c)'
  BY DEF BootKeeps, Kept
<1>4. ASSUME phase \in {"scanning", "sweeping"} PROVE \A c \in Clips : Kept(c)
  BY <1>2, <1>4 DEF IInv
<1> USE DEF cache, rows, world, bounds
<1>5. ASSUME phase \in {"scanning", "sweeping"}, UNCHANGED <<clips, clipRow, writes, toScan>> PROVE \A c \in Clips : Kept(c)'
  BY <1>4, <1>5 DEF Kept, Ahead
<1>6. CASE UNCHANGED vars
  BY <1>3, <1>5, <1>6 DEF vars
<1>7. CASE Commit \/ AnswerLost
  <2>1. phase \in {"scanning", "sweeping"} /\ UNCHANGED <<clips, toScan>>
    BY <1>3, <1>7 DEF Commit, AnswerLost, WriteFails
  <2>2. ASSUME NEW kind, NEW x, NEW r, Committed(kind, x, r),
               \A c \in Clips : clipRow'[c] = IF kind = "clip" /\ x = c THEN r ELSE clipRow[c],
               NEW c \in Clips
        PROVE  Kept(c)'
    <3>1. MovedUp /\ 1 \in Ahead(kind, x) /\ writes[1][3] = r
      BY <2>2 DEF Committed
    <3>2. \A i \in Ahead("clip", c)' : i + 1 \in Ahead("clip", c) /\ writes'[i] = writes[i + 1]
      BY <3>1, AheadMoved
    <3>3. Kept(c)
      BY <1>4, <2>1
    <3>4. /\ clipRow'[c] = None <=> clips[c] = None
          /\ clips[c] # None => clipRow'[c].files = clips[c].files
      BY <2>2, <3>1, <3>3 DEF Kept
    <3> QED BY <2>1, <3>2, <3>3, <3>4 DEF Kept
  <2>3. ASSUME NEW d \in Clips, NEW r \in ClipRecord \cup {None}, ClipCommitted(d, r), NEW c \in Clips PROVE Kept(c)'
    <3>1. \A e \in Clips : clipRow'[e] = IF "clip" = "clip" /\ d = e THEN r ELSE clipRow[e]
      BY <1>1, <2>3 DEF ClipCommitted, LibraryTypes
    <3> QED BY <2>2, <2>3, <3>1 DEF ClipCommitted
  <2>4. ASSUME NEW f \in Flows, NEW r, Committed("flow", f, r), UNCHANGED clipRow, NEW c \in Clips PROVE Kept(c)'
    <3>1. \A e \in Clips : clipRow'[e] = IF "flow" = "clip" /\ f = e THEN r ELSE clipRow[e]
      BY <2>4
    <3> QED BY <2>2, <2>4, <3>1
  <2> QED BY <1>1, <1>7, <2>3, <2>4, CommitDoes DEF FlowCommitted, FlowForgotten
<1>8. CASE NothingWritten
  <2>1. phase \in {"scanning", "sweeping"} /\ UNCHANGED <<clips, clipRow, toScan>> /\ writes' = <<>>
    BY <1>3, <1>8 DEF WriteFails, NothingWritten
  <2>2. \A c \in Clips : Ahead("clip", c)' = {}
    BY <2>1 DEF Ahead
  <2> QED BY <1>4, <2>1, <2>2 DEF Kept
<1>9. CASE Exit
  BY <1>3, <1>9 DEF Exit
<1>10. CASE Connect
  <2>1. clips' = clipRow' /\ writes' = <<>> /\ toScan' = {c \in Clips : clips'[c] # None}
    BY <1>1, <1>10 DEF Connect, Loads, Lifecycle
  <2>2. \A c \in Clips : Ahead("clip", c)' = {}
    BY <2>1 DEF Ahead
  <2> QED BY <2>1, <2>2 DEF Kept
<1>11. CASE ScanOver
  BY <1>5, <1>11 DEF ScanOver
<1>12. CASE Serve
  BY <1>3, <1>12 DEF Serve
<1>13. ASSUME NEW c \in Clips, ScanRecord(c) PROVE \A d \in Clips : Kept(d)'
  <2>1. phase = "scanning" /\ c \in toScan /\ toScan' = toScan \ {c} /\ UNCHANGED clipRow
    BY <1>13 DEF ScanRecord
  <2>2. Kept(c) /\ clips[c] # None /\ clips[c] \in ClipRecord
    BY <1>1, <1>4, <2>1 DEF Kept, LibraryTypes
  <2>3. CASE UNCHANGED <<clips, writes>>
    BY <1>4, <2>1, <2>3 DEF Kept, Ahead
  <2>4. CASE SaveClip(c, [clips[c] EXCEPT !.status = "archived"])
    <3>1. PICK r : r = [clips[c] EXCEPT !.status = "archived"]
      OBVIOUS
    <3>2. r \in ClipRecord /\ r # None /\ r.files = clips[c].files
      BY <2>2, <3>1, NoneIsNoRecord DEF ClipRecord
    <3>3. PICK x : x = <<"clip", c, r>>
      OBVIOUS
    <3>4. x[1] = "clip" /\ x[2] = c /\ x[3] = r
      BY <3>3
    <3>5. PICK n \in Nat : Joined(n, x)
      BY <1>1, <2>4, <3>1, <3>3, Joins DEF SaveClip, LibraryTypes
    <3>6. clips'[c] = r /\ \A d \in Clips : d # c => clips'[d] = clips[d]
      BY <1>1, <2>4, <3>1 DEF SaveClip, LibraryTypes
    <3>7. /\ Ahead("clip", c)' = Ahead("clip", c) \cup {n} /\ writes'[n] = x
          /\ \A i \in Ahead("clip", c) : writes'[i] = writes[i]
      BY <3>4, <3>5, AheadJoined
    <3>8. Kept(c)'
      BY <2>1, <2>2, <3>2, <3>4, <3>6, <3>7 DEF Kept
    <3>9. ASSUME NEW d \in Clips, d # c PROVE Kept(d)'
      <4>1. Ahead("clip", d)' = Ahead("clip", d) /\ \A i \in Ahead("clip", d) : writes'[i] = writes[i]
        BY <3>4, <3>5, <3>9, AheadJoined
      <4> QED BY <1>4, <2>1, <3>6, <3>9, <4>1 DEF Kept
    <3> QED BY <3>8, <3>9
  <2> QED BY <1>13, <2>3, <2>4 DEF ScanRecord
<1>14. ASSUME NEW c \in Clips, NEW h \in Files, SetAside(c, h) PROVE \A d \in Clips : Kept(d)'
  BY <1>5, <1>14 DEF SetAside
<1>15. ASSUME NEW c \in Clips, NEW h \in Files, Unlink(c, h) PROVE FALSE
  BY <1>1, <1>3, <1>15 DEF Unlink, Lifecycle
<1>16. ASSUME NEW c \in Clips, NEW h \in Files, LoseFile(c, h) PROVE FALSE
  BY <1>3, <1>16 DEF LoseFile
<1>17. ASSUME NEW a, Respond(a) \/ RespondFailed(a) PROVE \A d \in Clips : Kept(d)'
  BY <1>3, <1>5, <1>17 DEF Respond, RespondFailed
<1>18. ASSUME Request, UNCHANGED phase PROVE FALSE
  BY <1>3, <1>18 DEF Request
<1>19. ASSUME NEW f \in Flows, CreateDraft(f) \/ PublishFlow(f) \/ DeleteFlow(f) PROVE FALSE
  BY <1>18, <1>19 DEF CreateDraft, PublishFlow, DeleteFlow, Writable
<1>20. ASSUME NEW f \in Flows, NEW c \in Clips \cup {None}, EditFlow(f, c) PROVE FALSE
  BY <1>18, <1>20 DEF EditFlow, Writable
<1>21. ASSUME NEW c \in Clips, CreateClip(c) \/ ArchiveClip(c) \/ DeleteClip(c) \/ StageUpload(c) PROVE FALSE
  BY <1>18, <1>21 DEF CreateClip, ArchiveClip, DeleteClip, StageUpload, Writable
<1>22. ASSUME NEW c \in Clips, UploadStep(c) \/ DeletionFlushed(c) \/ ClipDeleted(c) PROVE FALSE
  <2>1. job[c] # "none" /\ UNCHANGED phase
    BY <1>22 DEF UploadStep, StartConversion, Converted, MoveOriginal, MoveCanonical, RejectUpload,
           AbandonUpload, Abandoned, CreateUploaded, DeletionFlushed, ClipDeleted
  <2> QED BY <1>1, <1>3, <2>1 DEF Lifecycle
<1> QED BY <1>6, <1>7, <1>8, <1>9, <1>10, <1>11, <1>12, <1>13, <1>14, <1>15, <1>16, <1>17, <1>19, <1>20, <1>21, <1>22
        DEF Next, BootStep, WriteFails, NothingWritten, AnswerLost

-----------------------------------------------------------------------------
(* The files that records name. *)

\* No record of c, in memory, in the database or between them, names files.
Unnamed(c) ==
  /\ clips[c] # None => ~clips[c].files
  /\ clipRow[c] # None => ~clipRow[c].files
  /\ \A i \in Ahead("clip", c) : writes[i][3] # None => ~writes[i][3].files

\* A step takes a file from a clip only where nothing names it or where it is lost.
FilesStay(c) ==
  \/ Whole(c) => Whole(c)'
  \/ Still /\ UNCHANGED phase /\ (Unnamed(c) \/ (c \in lost' /\ phase = "down"))

LEMMA InWorkIsUnnamed ==
  ASSUME RecordsApart, NEW c \in Clips, job[c] \notin {"none", "deleting"}
  PROVE  Unnamed(c)
  BY DEF RecordsApart, Unnamed

LEMMA FilesStaySteps ==
  ASSUME IInv, [Next]_vars, NEW c \in Clips
  PROVE  FilesStay(c)
<1>1. TypeOK /\ RecordsApart /\ BootKeeps
  BY JobsParts DEF IInv
<1>2. media \in [Clips -> [Files -> Places]]
  BY <1>1 DEF TypeOK
<1> USE DEF world, bounds, cache, rows
<1>3. ASSUME media'[c] = media[c] PROVE FilesStay(c)
  BY <1>3 DEF FilesStay, Whole
<1>4. ASSUME UNCHANGED media PROVE FilesStay(c)
  BY <1>3, <1>4
<1>5. CASE UNCHANGED vars
  BY <1>4, <1>5 DEF vars
<1>6. CASE Commit \/ WriteFails \/ Exit \/ ScanOver \/ Serve \/ Connect
  BY <1>4, <1>6 DEF Commit, WriteFails, Exit, ScanOver, Serve, Connect
<1>7. ASSUME NEW d \in Clips, ScanRecord(d) \/ CreateClip(d) \/ ArchiveClip(d) \/ DeleteClip(d) \/ StartConversion(d)
                              \/ DeletionFlushed(d) \/ ClipDeleted(d) \/ CreateUploaded(d)
      PROVE  FilesStay(c)
  BY <1>4, <1>7 DEF ScanRecord, CreateClip, ArchiveClip, DeleteClip, StartConversion, DeletionFlushed, ClipDeleted, CreateUploaded
<1>8. ASSUME NEW a, Respond(a) \/ RespondFailed(a) PROVE FilesStay(c)
  BY <1>4, <1>8 DEF Respond, RespondFailed
<1>9. ASSUME NEW f \in Flows, CreateDraft(f) \/ PublishFlow(f) \/ DeleteFlow(f) PROVE FilesStay(c)
  BY <1>4, <1>9 DEF CreateDraft, PublishFlow, DeleteFlow
<1>10. ASSUME NEW f \in Flows, NEW d \in Clips \cup {None}, EditFlow(f, d) PROVE FilesStay(c)
  BY <1>4, <1>10 DEF EditFlow
<1>11. ASSUME NEW d \in Clips, StageUpload(d) \/ Converted(d) \/ MoveOriginal(d) \/ MoveCanonical(d)
                               \/ RejectUpload(d) \/ AbandonUpload(d)
       PROVE  FilesStay(c)
  <2>1. CASE d # c
    <3>1. media'[c] = media[c]
      BY <1>2, <1>11, <2>1 DEF StageUpload, Converted, MoveOriginal, MoveCanonical, RejectUpload, AbandonUpload, Abandoned
    <3> QED BY <1>3, <3>1
  <2>2. CASE d = c
    <3>1. Unnamed(c)
      <4>1. CASE StageUpload(d)
        <5>1. clips[c] = None /\ clipRow[c] = None /\ job[c] = "none"
          BY <2>2, <4>1 DEF StageUpload, NewClipId
        <5> QED BY <1>1, <5>1 DEF RecordsApart, Unnamed
      <4>2. CASE ~StageUpload(d)
        <5>1. job[c] \notin {"none", "deleting"}
          BY <1>11, <2>2, <4>2 DEF Converted, MoveOriginal, MoveCanonical, RejectUpload, AbandonUpload
        <5> QED BY <1>1, <5>1, InWorkIsUnnamed
      <4> QED BY <4>1, <4>2
    <3>2. Still /\ UNCHANGED phase
      BY <1>11 DEF StageUpload, Converted, MoveOriginal, MoveCanonical, RejectUpload, AbandonUpload, Abandoned, Still
    <3> QED BY <3>1, <3>2 DEF FilesStay
  <2> QED BY <2>1, <2>2
<1>12. ASSUME NEW d \in Clips, NEW h \in Files, SetAside(d, h) \/ Unlink(d, h) \/ LoseFile(d, h) PROVE FilesStay(c)
  <2>1. CASE d # c
    <3>1. media'[c] = media[c]
      BY <1>2, <1>12, <2>1 DEF SetAside, Unlink, LoseFile
    <3> QED BY <1>3, <3>1
  <2>2. CASE d = c /\ LoseFile(d, h)
    BY <2>2 DEF LoseFile, FilesStay, Still
  <2>3. CASE d = c /\ Unlink(d, h)
    <3>1. Unnamed(c)
      BY <1>1, <2>3, InWorkIsUnnamed DEF Unlink
    <3> QED BY <2>3, <3>1 DEF Unlink, FilesStay, Still
  <2>4. CASE d = c /\ SetAside(d, h) /\ media[c][h] = "staged"
    BY <2>4 DEF FilesStay, Whole
  <2>5. CASE d = c /\ SetAside(d, h) /\ media[c][h] # "staged"
    <3>1. clips[c] # None => ~clips[c].files
      BY <2>5 DEF SetAside, Unclaimed
    <3>2. Unnamed(c)
      BY <1>1, <2>5, <3>1 DEF SetAside, BootKeeps, Unnamed
    <3> QED BY <2>5, <3>2 DEF SetAside, FilesStay, Still
  <2> QED BY <1>12, <2>1, <2>2, <2>3, <2>4, <2>5
<1> QED BY <1>5, <1>6, <1>7, <1>8, <1>9, <1>10, <1>11, <1>12 DEF Next, BootStep, UploadStep

\* A clip the boot has looked at and left ready has its files.
LEMMA ScannedSteps ==
  ASSUME IInv, [Next]_vars
  PROVE  /\ phase' # "scanning" => toScan' = {}
         /\ lost \subseteq lost'
         /\ \A c \in Clips : (phase' # "down" /\ c \notin toScan' /\ clips'[c] # None /\ clips'[c].files
                                /\ clips'[c].status = "ready")
              => Whole(c) \/ (phase # "down" /\ c \notin toScan)
<1>1. TypeOK /\ LibraryTypes /\ Lifecycle /\ (phase # "scanning" => toScan = {})
  BY DEF IInv, TypeOK, LibraryTypes, BytesFollow
<1> USE DEF world, bounds, cache, rows
<1>2. ASSUME UNCHANGED <<phase, toScan>>, lost \subseteq lost', phase # "down" \/ UNCHANGED clips
      PROVE  /\ phase' # "scanning" => toScan' = {}
             /\ lost \subseteq lost'
             /\ \A c \in Clips : (phase' # "down" /\ c \notin toScan' /\ clips'[c] # None /\ clips'[c].files
                                    /\ clips'[c].status = "ready")
                  => Whole(c) \/ (phase # "down" /\ c \notin toScan)
  BY <1>1, <1>2
<1>3. CASE UNCHANGED vars
  BY <1>2, <1>3 DEF vars
<1>4. CASE Commit \/ WriteFails
  BY <1>2, <1>4 DEF Commit, WriteFails
<1>5. CASE Exit
  BY <1>5 DEF Exit
<1>6. CASE ScanOver \/ Serve
  BY <1>1, <1>6 DEF ScanOver, Serve
<1>7. CASE Connect
  BY <1>7 DEF Connect
<1>8. ASSUME NEW c \in Clips, ScanRecord(c)
      PROVE  /\ phase' # "scanning" => toScan' = {}
             /\ lost \subseteq lost'
             /\ \A d \in Clips : (phase' # "down" /\ d \notin toScan' /\ clips'[d] # None /\ clips'[d].files
                                    /\ clips'[d].status = "ready")
                  => Whole(d) \/ (phase # "down" /\ d \notin toScan)
  <2>1. phase = "scanning" /\ phase' = "scanning" /\ toScan' = toScan \ {c} /\ lost' = lost
    BY <1>8 DEF ScanRecord
  <2>2. \A d \in Clips : d # c /\ d \notin toScan' => d \notin toScan
    BY <2>1
  <2>3. (clips'[c] # None /\ clips'[c].files /\ clips'[c].status = "ready") => Whole(c)
    <3>1. CASE FileMissing(c) /\ clips[c].status # "archived"
      <4>1. clips' = [clips EXCEPT ![c] = [clips[c] EXCEPT !.status = "archived"]]
        BY <1>8, <3>1 DEF ScanRecord, SaveClip
      <4>2. clips[c] \in ClipRecord
        <5>1. clips[c] # None
          BY <1>8, <2>1 DEF ScanRecord, IInv, BootKeeps
        <5> QED BY <1>1, <5>1 DEF LibraryTypes
      <4>3. clips'[c].status = "archived"
        BY <1>1, <4>1, <4>2 DEF LibraryTypes, ClipRecord
      <4> QED BY <4>3
    <3>2. CASE ~(FileMissing(c) /\ clips[c].status # "archived")
      <4>1. clips' = clips
        BY <1>8, <3>2 DEF ScanRecord
      <4> QED BY <3>2, <4>1 DEF FileMissing, Whole
    <3> QED BY <3>1, <3>2
  <2> QED BY <2>1, <2>2, <2>3
<1>9. ASSUME NEW c \in Clips, NEW h \in Files, SetAside(c, h) \/ Unlink(c, h) \/ LoseFile(c, h)
      PROVE  UNCHANGED <<phase, toScan, clips>> /\ lost \subseteq lost'
  BY <1>9 DEF SetAside, Unlink, LoseFile
<1>10. ASSUME NEW a, Respond(a) \/ RespondFailed(a) PROVE UNCHANGED <<phase, toScan, clips, lost>>
  BY <1>10 DEF Respond, RespondFailed
<1>11. ASSUME NEW f \in Flows, CreateDraft(f) \/ PublishFlow(f) \/ DeleteFlow(f) PROVE UNCHANGED <<phase, toScan, clips, lost>>
  BY <1>11 DEF CreateDraft, PublishFlow, DeleteFlow
<1>12. ASSUME NEW f \in Flows, NEW c \in Clips \cup {None}, EditFlow(f, c) PROVE UNCHANGED <<phase, toScan, clips, lost>>
  BY <1>12 DEF EditFlow
<1>13. ASSUME NEW c \in Clips, CreateClip(c) \/ ArchiveClip(c) \/ DeleteClip(c) \/ StageUpload(c) 
       PROVE  UNCHANGED <<phase, toScan, lost>> /\ phase # "down"
  BY <1>13 DEF CreateClip, ArchiveClip, DeleteClip, StageUpload, Writable, Request
<1>14. ASSUME NEW c \in Clips, UploadStep(c) \/ DeletionFlushed(c) \/ ClipDeleted(c)
       PROVE  UNCHANGED <<phase, toScan, lost>> /\ phase # "down"
  <2>1. job[c] # "none" /\ UNCHANGED <<phase, toScan, lost>>
    BY <1>14 DEF UploadStep, StartConversion, Converted, MoveOriginal, MoveCanonical, RejectUpload,
           AbandonUpload, Abandoned, CreateUploaded, DeletionFlushed, ClipDeleted
  <2> QED BY <1>1, <2>1 DEF Lifecycle
<1> QED BY <1>2, <1>3, <1>4, <1>5, <1>6, <1>7, <1>8, <1>9, <1>10, <1>11, <1>12, <1>13, <1>14 DEF Next, BootStep

\* No record begins to name files a clip does not have.
LEMMA UnnamedStays ==
  ASSUME LibraryTypes, Lifecycle, LibraryStep, NEW c \in Clips, Unnamed(c), ~Whole(c)
  PROVE  Unnamed(c)'
<1>1. writes \in Seq(Write)
  BY DEF LibraryTypes
<1> USE DEF cache, rows
<1>2. ASSUME UNCHANGED <<clips, clipRow>>, Ahead("clip", c)' = Ahead("clip", c),
             \A i \in Ahead("clip", c) : writes'[i] = writes[i]
      PROVE  Unnamed(c)'
  BY <1>2 DEF Unnamed
<1>3. ASSUME UNCHANGED clips, MovedUp, clipRow'[c] # clipRow[c] => 1 \in Ahead("clip", c) /\ clipRow'[c] = writes[1][3]
      PROVE  Unnamed(c)'
  <2>1. \A i \in Ahead("clip", c)' : i + 1 \in Ahead("clip", c) /\ writes'[i] = writes[i + 1]
    BY <1>3, AheadMoved
  <2>2. clipRow'[c] # None => ~clipRow'[c].files
    BY <1>3 DEF Unnamed
  <2>3. \A i \in Ahead("clip", c)' : writes'[i][3] # None => ~writes'[i][3].files
    BY <2>1 DEF Unnamed
  <2> QED BY <1>3, <2>2, <2>3 DEF Unnamed
<1>4. ASSUME writes' = <<>> PROVE Ahead("clip", c)' = {}
  BY <1>4 DEF Ahead
<1>5. CASE Still
  BY <1>2, <1>5 DEF Still, Ahead
<1>6. CASE NothingWritten \/ Exit
  BY <1>4, <1>6 DEF WriteFails, NothingWritten, Exit, Unnamed
<1>7. CASE Connect
  <2>1. clips' = clipRow' /\ writes' = <<>>
    BY <1>7 DEF Connect, Loads, Lifecycle
  <2>2. clipRow'[c] = clipRow[c] \/ clipRow'[c] = DemoRecord
    BY <1>7 DEF Connect, SeededClips
  <2> QED BY <1>4, <2>1, <2>2, Records DEF Unnamed
<1>8. ASSUME NEW d \in Clips, NEW r \in ClipRecord \cup {None}, ClipSaved(d, r) PROVE Unnamed(c)'
  <2>1. PICK x : x = <<"clip", d, r>>
    OBVIOUS
  <2>2. PICK n \in Nat : Joined(n, x)
    BY <1>1, <1>8, <2>1, Joins DEF ClipSaved, SaveClip
  <2>3. x[1] = "clip" /\ x[2] = d /\ x[3] = r
    BY <2>1
  <2>4. clipRow' = clipRow /\ (d = c => clips'[c] = r) /\ (d # c => clips'[c] = clips[c])
    BY <1>8 DEF ClipSaved, SaveClip, LibraryTypes
  <2>5. CASE d = c
    <3>1. r # None => ~r.files
      BY <1>8, <2>5 DEF ClipSaved, NamesItsFiles, Unnamed
    <3>2. /\ Ahead("clip", c)' = Ahead("clip", c) \cup {n} /\ writes'[n] = x
          /\ \A i \in Ahead("clip", c) : writes'[i] = writes[i]
      BY <2>2, <2>3, <2>5, AheadJoined
    <3> QED BY <2>3, <2>4, <2>5, <3>1, <3>2 DEF Unnamed
  <2>6. CASE d # c
    <3>1. Ahead("clip", c)' = Ahead("clip", c) /\ \A i \in Ahead("clip", c) : writes'[i] = writes[i]
      BY <2>2, <2>3, <2>6, AheadJoined
    <3> QED BY <2>4, <2>6, <3>1 DEF Unnamed
  <2> QED BY <2>5, <2>6
<1>9. ASSUME NEW f \in Flows, NEW r \in FlowRecord, FlowSaved(f, r) \/ FlowDropped(f) PROVE Unnamed(c)'
  <2>1. PICK s : writes' = Append(writes, <<"flow", f, s>>)
    BY <1>9 DEF FlowSaved, SaveFlow, FlowDropped, DropFlow
  <2>2. PICK x : x = <<"flow", f, s>>
    OBVIOUS
  <2>3. PICK n \in Nat : Joined(n, x)
    BY <1>1, <2>1, <2>2, Joins
  <2>4. x[1] # "clip"
    BY <2>2
  <2>5. UNCHANGED <<clips, clipRow>>
    BY <1>9 DEF FlowSaved, FlowDropped
  <2> QED BY <1>2, <2>3, <2>4, <2>5, AheadJoined
<1>10. ASSUME NEW d \in Clips, NEW r \in ClipRecord \cup {None}, ClipCommitted(d, r) PROVE Unnamed(c)'
  <2>1. MovedUp /\ 1 \in Ahead("clip", d) /\ writes[1][3] = r /\ UNCHANGED clips /\ clipRow' = [clipRow EXCEPT ![d] = r]
    BY <1>10 DEF ClipCommitted, Committed
  <2>2. (d = c => clipRow'[c] = r) /\ (d # c => clipRow'[c] = clipRow[c])
    BY <2>1 DEF LibraryTypes
  <2> QED BY <1>3, <2>1, <2>2
<1>11. ASSUME NEW f \in Flows, NEW r \in FlowRecord, FlowCommitted(f, r) \/ FlowForgotten(f) PROVE Unnamed(c)'
  BY <1>3, <1>11 DEF FlowCommitted, FlowForgotten, Committed
<1>12. EmptyDraft \in FlowRecord
  BY Records
<1> QED BY <1>5, <1>6, <1>7, <1>8, <1>9, <1>10, <1>11, <1>12 DEF LibraryStep

LEMMA ClipsChange ==
  ASSUME LibraryTypes, LibraryStep, phase # "down", phase' # "down", NEW c \in Clips, clips'[c] # clips[c]
  PROVE  \E r \in ClipRecord \cup {None} : ClipSaved(c, r) /\ clips'[c] = r
<1> USE DEF cache, rows
<1>1. ~Still /\ ~NothingWritten /\ ~Exit /\ ~Connect
  BY DEF Still, WriteFails, NothingWritten, Exit, Connect
<1>2. \A d \in Clips, r \in ClipRecord \cup {None} : ~ClipCommitted(d, r)
  BY DEF ClipCommitted, Committed
<1>3. \A f \in Flows, r \in FlowRecord : ~FlowSaved(f, r) /\ ~FlowCommitted(f, r)
  BY DEF FlowSaved, FlowCommitted, Committed
<1>4. \A f \in Flows : ~FlowDropped(f) /\ ~FlowForgotten(f)
  BY DEF FlowDropped, FlowForgotten, Committed
<1>5. PICK d \in Clips, r \in ClipRecord \cup {None} : ClipSaved(d, r)
  BY <1>1, <1>2, <1>3, <1>4 DEF LibraryStep
<1>6. d = c /\ clips'[c] = r
  BY <1>5 DEF ClipSaved, SaveClip, LibraryTypes
<1> QED BY <1>5, <1>6

\* A ready clip the boot is done with.
Offered(c) ==
  phase # "down" /\ c \notin toScan /\ clips[c] # None /\ clips[c].files /\ clips[c].status = "ready"

LEMMA BytesParts ==
  BytesFollow <=> /\ \A c \in Clips \ lost : Unnamed(c) \/ Whole(c)
                  /\ \A c \in Clips : Offered(c) => Whole(c)
                  /\ phase # "scanning" => toScan = {}
  BY DEF BytesFollow, Unnamed, Offered

LEMMA BytesStep ==
  ASSUME IInv, [Next]_vars
  PROVE  BytesFollow'
<1>1. TypeOK /\ LibraryTypes /\ Lifecycle /\ LibraryStep
  BY LibrarySteps DEF IInv, TypeOK, LibraryTypes
<1>2. /\ \A c \in Clips \ lost : Unnamed(c) \/ Whole(c)
      /\ \A c \in Clips : Offered(c) => Whole(c)
  BY BytesParts DEF IInv
<1>3. ASSUME Still, NEW c \in Clips, Unnamed(c) PROVE Unnamed(c)'
  BY <1>3 DEF Still, cache, rows, Unnamed, Ahead
<1>4. ASSUME NEW c \in Clips \ lost' PROVE (Unnamed(c) \/ Whole(c))'
  <2>1. c \in Clips \ lost
    BY ScannedSteps
  <2>2. CASE Whole(c)
    <3>1. FilesStay(c)
      BY FilesStaySteps
    <3> QED BY <1>3, <2>2, <3>1 DEF FilesStay
  <2>3. CASE ~Whole(c)
    <3>1. Unnamed(c)
      BY <1>2, <2>1, <2>3
    <3> QED BY <1>1, <2>3, <3>1, UnnamedStays
  <2> QED BY <2>2, <2>3
<1>5. ASSUME NEW c \in Clips, Offered(c)' PROVE Whole(c)'
  <2>1. Whole(c) \/ (phase # "down" /\ c \notin toScan)
    BY <1>5, ScannedSteps DEF Offered
  <2>2. Whole(c)
    <3> SUFFICES ASSUME phase # "down", c \notin toScan PROVE Whole(c)
      BY <2>1
    <3>1. CASE clips'[c] = clips[c]
      BY <1>2, <1>5, <3>1 DEF Offered
    <3>2. CASE clips'[c] # clips[c]
      <4>1. PICK r \in ClipRecord \cup {None} : ClipSaved(c, r) /\ clips'[c] = r
        BY <1>1, <1>5, <3>2, ClipsChange DEF Offered
      <4> QED BY <1>5, <4>1 DEF Offered, ClipSaved, NamesItsFiles
    <3> QED BY <3>1, <3>2
  <2>3. FilesStay(c)
    BY FilesStaySteps
  <2> QED BY <1>5, <2>2, <2>3 DEF FilesStay, Still, cache, Unnamed, Offered
<1>6. phase' # "scanning" => toScan' = {}
  BY ScannedSteps
<1> QED BY <1>4, <1>5, <1>6 DEF BytesFollow, Unnamed, Offered

-----------------------------------------------------------------------------
(* What was told. *)

\* The steps that save a clip; a deletion alone saves none.
LEMMA ClipSavers ==
  ASSUME BootKeeps, LibraryTypes, [Next]_vars, NEW c \in Clips, NEW r \in ClipRecord \cup {None}, ClipSaved(c, r)
  PROVE  /\ ScanRecord(c) \/ CreateClip(c) \/ ArchiveClip(c) \/ DeleteClip(c) \/ CreateUploaded(c)
         /\ r = None => DeleteClip(c)
<1>1. writes' # writes /\ writes' # <<>> /\ (writes # <<>> => writes' # Tail(writes)) /\ ~(\E f, s : writes' = Append(writes, <<"flow", f, s>>))
  BY OneWrite
<1>2. Next
  BY <1>1 DEF vars
<1>3. \A d \in Clips : \A s \in ClipRecord \cup {None} : SaveClip(d, s) => d = c /\ s = r
  BY SavedOnce
<1>4. ASSUME NEW d \in Clips, clips[d] \in ClipRecord PROVE [clips[d] EXCEPT !.status = "archived"] \in ClipRecord
  BY <1>4 DEF ClipRecord
<1>5. ~Commit /\ ~WriteFails /\ ~Exit /\ ~Connect /\ ~ScanOver /\ ~Serve
  BY <1>1 DEF Commit, WriteFails, Exit, Connect, ScanOver, Serve
<1>6. \A d \in Clips, h \in Files : ~SetAside(d, h) /\ ~Unlink(d, h) /\ ~LoseFile(d, h)
  BY <1>1 DEF SetAside, Unlink, LoseFile
<1>7. \A a \in asks : ~Respond(a) /\ ~RespondFailed(a)
  BY <1>1 DEF Respond, RespondFailed
<1>8. \A f \in Flows : ~CreateDraft(f) /\ ~PublishFlow(f) /\ ~DeleteFlow(f)
  BY <1>1 DEF CreateDraft, PublishFlow, DeleteFlow, SaveFlow, DropFlow
<1>9. \A f \in Flows, d \in Clips \cup {None} : ~EditFlow(f, d)
  BY <1>1 DEF EditFlow, SaveFlow
<1>10. \A d \in Clips : /\ ~StageUpload(d) /\ ~StartConversion(d) /\ ~Converted(d) /\ ~MoveOriginal(d) /\ ~MoveCanonical(d)
                        /\ ~RejectUpload(d) /\ ~AbandonUpload(d) /\ ~DeletionFlushed(d) /\ ~ClipDeleted(d)
  BY <1>1 DEF StageUpload, StartConversion, Converted, MoveOriginal, MoveCanonical, RejectUpload, AbandonUpload, Abandoned,
              DeletionFlushed, ClipDeleted
<1>11. PICK d \in Clips : ScanRecord(d) \/ CreateClip(d) \/ ArchiveClip(d) \/ DeleteClip(d) \/ CreateUploaded(d)
  BY <1>2, <1>5, <1>6, <1>7, <1>8, <1>9, <1>10 DEF Next, BootStep, UploadStep
<1>12. CASE ScanRecord(d)
  <2>1. SaveClip(d, [clips[d] EXCEPT !.status = "archived"])
    BY <1>1, <1>12 DEF ScanRecord
  <2>2. clips[d] # None /\ clips[d] \in ClipRecord
    BY <1>12 DEF ScanRecord, BootKeeps, LibraryTypes
  <2> QED BY <1>3, <1>4, <1>12, <2>1, <2>2, NoneIsNoRecord
<1>13. CASE CreateClip(d)
  BY <1>3, <1>13, Records, NoneIsNoRecord DEF CreateClip
<1>14. CASE ArchiveClip(d)
  <2>1. SaveClip(d, [clips[d] EXCEPT !.status = "archived"]) /\ clips[d] \in ClipRecord
    BY <1>14 DEF ArchiveClip, LibraryTypes
  <2> QED BY <1>3, <1>4, <1>14, <2>1, NoneIsNoRecord
<1>15. CASE DeleteClip(d)
  BY <1>3, <1>15 DEF DeleteClip
<1>16. CASE CreateUploaded(d)
  <2>1. SaveClip(d, UploadedRecord)
    BY <1>1, <1>16 DEF CreateUploaded
  <2> QED BY <1>3, <1>16, <2>1, Records, NoneIsNoRecord
<1> QED BY <1>11, <1>12, <1>13, <1>14, <1>15, <1>16

LEMMA OtherFacts ==
  /\ \A c, d : <<"clip", c>> # <<"clip deleted", d>> /\ <<"clip", c>> # <<"flow deleted", d>> /\ <<"clip", c>> # <<"published", d>>
               /\ <<"clip deleted", c>> # <<"flow deleted", d>> /\ <<"clip deleted", c>> # <<"published", d>>
               /\ <<"flow deleted", c>> # <<"published", d>>
  /\ \A c, d : (<<"clip", c>> = <<"clip", d>> => c = d) /\ (<<"clip deleted", c>> = <<"clip deleted", d>> => c = d)
               /\ (<<"flow deleted", c>> = <<"flow deleted", d>> => c = d) /\ (<<"published", c>> = <<"published", d>> => c = d)
  OBVIOUS

\* What is told comes from an answer that waited for the flush, or from a deletion that
\* removed both files; what is told of a clip is taken into account by what follows.
ToldBy ==
  /\ \A a \in told' \ told :
        \/ a \in asks /\ Flushed /\ Still /\ UNCHANGED <<phase, job>>
        \/ \E c \in Clips : a = <<"clip deleted", c>> /\ job[c] = "unlinking" /\ job'[c] = "none" /\ Still /\ UNCHANGED phase
  /\ \A c \in Clips : DeleteClip(c) => <<"clip", c>> \notin told'
  /\ \A c \in Clips : <<"clip deleted", c>> \in told => job[c] = "none" /\ job'[c] = "none" /\ ~CreateClip(c)

LEMMA ToldSteps ==
  ASSUME IInv, [Next]_vars
  PROVE  ToldBy
<1>1. /\ TypeOK /\ RecordsApart
      /\ \A c \in Clips : <<"clip deleted", c>> \in told => clips[c] = None /\ job[c] = "none"
      /\ job \in [Clips -> {"none", "staged", "converting", "converted", "half", "placed", "deleting", "unlinking"}]
  BY JobsParts DEF IInv, ToldStands, TypeOK
<1>2. \A c \in Clips : DeleteClip(c) => <<"clip", c>> \notin told'
  BY DEF DeleteClip
<1>3. \A c \in Clips : <<"clip deleted", c>> \in told => ~CreateClip(c)
  BY DEF CreateClip, NewClipId
<1>4. ASSUME told' \subseteq told,
             \A c \in Clips : job[c] = "none" /\ clips[c] = None /\ <<"clip deleted", c>> \in told => job'[c] = "none"
      PROVE  ToldBy
  BY <1>1, <1>2, <1>3, <1>4 DEF ToldBy
<1>5. ASSUME told' = told, UNCHANGED job PROVE ToldBy
  BY <1>4, <1>5
<1> USE DEF world, bounds, cache, rows
<1>6. CASE UNCHANGED vars
  BY <1>5, <1>6 DEF vars
<1>7. CASE Commit \/ WriteFails \/ ScanOver \/ Serve \/ Connect
  BY <1>5, <1>7 DEF Commit, WriteFails, ScanOver, Serve, Connect
<1>8. CASE Exit
  BY <1>4, <1>8 DEF Exit
<1>9. ASSUME NEW c \in Clips, ScanRecord(c) \/ CreateClip(c) \/ ArchiveClip(c) PROVE ToldBy
  BY <1>5, <1>9 DEF ScanRecord, CreateClip, ArchiveClip
<1>10. ASSUME NEW c \in Clips, NEW h \in Files, SetAside(c, h) \/ LoseFile(c, h) \/ Unlink(c, h) PROVE ToldBy
  BY <1>5, <1>10 DEF SetAside, LoseFile, Unlink
<1>11. ASSUME NEW a \in asks, Respond(a) PROVE ToldBy
  <2>1. told' = told \cup {a} /\ UNCHANGED job /\ Flushed /\ Still /\ UNCHANGED phase
    BY <1>11 DEF Respond, Still
  <2> QED BY <1>1, <1>2, <1>3, <2>1 DEF ToldBy
<1>12. ASSUME NEW a \in asks, RespondFailed(a) PROVE ToldBy
  BY <1>5, <1>12 DEF RespondFailed
<1>13. ASSUME NEW f \in Flows, CreateDraft(f) \/ PublishFlow(f) \/ DeleteFlow(f) PROVE ToldBy
  BY <1>5, <1>13 DEF CreateDraft, PublishFlow, DeleteFlow
<1>14. ASSUME NEW f \in Flows, NEW c \in Clips \cup {None}, EditFlow(f, c) PROVE ToldBy
  BY <1>5, <1>14 DEF EditFlow
<1>15. ASSUME NEW c \in Clips, NEW j, job' = [job EXCEPT ![c] = j], told' \subseteq told,
              job[c] # "none" \/ clips[c] # None \/ <<"clip deleted", c>> \notin told \/ j = "none"
       PROVE  ToldBy
  <2>1. \A d \in Clips : job'[d] = IF d = c THEN j ELSE job[d]
    BY <1>1, <1>15
  <2> QED BY <1>4, <1>15, <2>1
<1>16. ASSUME NEW c \in Clips, DeleteClip(c) PROVE ToldBy
  BY <1>15, <1>16 DEF DeleteClip
<1>17. ASSUME NEW c \in Clips, StageUpload(c) PROVE ToldBy
  BY <1>15, <1>17 DEF StageUpload, NewClipId
<1>18. ASSUME NEW c \in Clips, StartConversion(c) \/ Converted(c) \/ MoveOriginal(c) \/ MoveCanonical(c) \/ RejectUpload(c)
                               \/ AbandonUpload(c) \/ CreateUploaded(c) \/ DeletionFlushed(c)
       PROVE  ToldBy
  <2>1. job[c] # "none" /\ told' = told
    BY <1>18 DEF StartConversion, Converted, MoveOriginal, MoveCanonical, RejectUpload, AbandonUpload, Abandoned,
                 CreateUploaded, DeletionFlushed
  <2>2. \E j : job' = [job EXCEPT ![c] = j]
    BY <1>18 DEF StartConversion, Converted, MoveOriginal, MoveCanonical, RejectUpload, AbandonUpload, Abandoned,
                 CreateUploaded, DeletionFlushed
  <2> QED BY <1>15, <2>1, <2>2
<1>19. ASSUME NEW c \in Clips, ClipDeleted(c) PROVE ToldBy
  <2>1. job[c] = "unlinking" /\ Still /\ UNCHANGED phase /\ (told' = told \/ told' = told \cup {<<"clip deleted", c>>})
    BY <1>19 DEF ClipDeleted, Still
  <2>2. \A d \in Clips : job'[d] = IF d = c THEN "none" ELSE job[d]
    BY <1>1, <1>19 DEF ClipDeleted
  <2>3. \A a \in told' \ told : a = <<"clip deleted", c>>
    BY <2>1
  <2> QED BY <1>1, <1>2, <1>3, <2>1, <2>2, <2>3 DEF ToldBy
<1> QED BY <1>6, <1>7, <1>8, <1>9, <1>10, <1>11, <1>12, <1>13, <1>14, <1>16, <1>17, <1>18, <1>19
        DEF Next, BootStep, UploadStep

LEMMA VersionRowsStay ==
  ASSUME LibraryStep
  PROVE  versionRow \subseteq versionRow'
<1> USE DEF cache, rows
<1>1. CASE Still \/ NothingWritten \/ Exit \/ Connect
  BY <1>1 DEF Still, WriteFails, NothingWritten, Exit, Connect
<1>2. ASSUME NEW c \in Clips, NEW r, ClipSaved(c, r) \/ ClipCommitted(c, r) PROVE versionRow \subseteq versionRow'
  BY <1>2 DEF ClipSaved, ClipCommitted
<1>3. ASSUME NEW f \in Flows, NEW r, FlowSaved(f, r) \/ FlowCommitted(f, r) \/ FlowDropped(f) \/ FlowForgotten(f)
      PROVE  versionRow \subseteq versionRow'
  BY <1>3 DEF FlowSaved, FlowCommitted, FlowDropped, FlowForgotten
<1> QED BY <1>1, <1>2, <1>3, Records DEF LibraryStep

\* A deleted flow stays deleted.
LEMMA DeletedStays ==
  ASSUME LibraryTypes, LibraryStep, NEW f \in Flows, GoneForGood(f), flowRow[f] # None, flowRow[f].deleted
  PROVE  flowRow'[f] # None /\ flowRow'[f].deleted
<1> USE DEF cache, rows
<1>1. Ahead("flow", f) = {}
  BY DEF GoneForGood
<1>2. CASE Still \/ NothingWritten \/ Exit
  BY <1>2 DEF Still, WriteFails, NothingWritten, Exit
<1>3. CASE Connect
  BY <1>3 DEF Connect, EmptyDatabase
<1>4. ASSUME NEW c \in Clips, NEW r, ClipSaved(c, r) \/ ClipCommitted(c, r) PROVE flowRow'[f] # None /\ flowRow'[f].deleted
  BY <1>4 DEF ClipSaved, ClipCommitted
<1>5. ASSUME NEW g \in Flows, NEW r, FlowSaved(g, r) \/ FlowDropped(g) PROVE flowRow'[f] # None /\ flowRow'[f].deleted
  BY <1>5 DEF FlowSaved, FlowDropped
<1>6. ASSUME NEW g \in Flows, NEW r, FlowCommitted(g, r) \/ FlowForgotten(g) PROVE flowRow'[f] # None /\ flowRow'[f].deleted
  <2>1. g # f
    BY <1>1, <1>6 DEF FlowCommitted, FlowForgotten, Committed
  <2> QED BY <1>6, <2>1 DEF FlowCommitted, FlowForgotten, LibraryTypes
<1> QED BY <1>2, <1>3, <1>4, <1>5, <1>6, Records DEF LibraryStep

\* The row of a clip that is not being deleted stays, and so does the clip in memory.
Standing(c) == clipRow[c] # None /\ (phase # "down" => clips[c] # None)

LEMMA StandingStays ==
  ASSUME LibraryTypes, RecordsApart, LibraryStep, NEW c \in Clips, Standing(c), ~ClipSaved(c, None)
  PROVE  Standing(c)'
<1> USE DEF cache, rows
<1>1. CASE Still
  BY <1>1 DEF Still, Standing
<1>2. CASE NothingWritten \/ Exit
  BY <1>2 DEF WriteFails, NothingWritten, Exit, Standing
<1>3. CASE Connect
  BY <1>3 DEF Connect, EmptyDatabase, Loads, Standing
<1>4. ASSUME Up, UNCHANGED clipRow, clips'[c] # None PROVE Standing(c)'
  BY <1>4 DEF Standing
<1>5. ASSUME NEW d \in Clips, NEW r \in ClipRecord \cup {None}, ClipSaved(d, r) PROVE Standing(c)'
  <2>1. clips'[c] # None
    <3>1. CASE d = c
      BY <1>5, <3>1 DEF ClipSaved, SaveClip, LibraryTypes
    <3>2. CASE d # c
      BY <1>5, <3>2 DEF ClipSaved, SaveClip, LibraryTypes, Up, Standing
    <3> QED BY <3>1, <3>2
  <2> QED BY <1>4, <1>5, <2>1 DEF ClipSaved
<1>6. ASSUME NEW d \in Clips, NEW r \in ClipRecord \cup {None}, ClipCommitted(d, r) PROVE Standing(c)'
  <2>1. clips[c] # None /\ UNCHANGED clips
    BY <1>6 DEF ClipCommitted, Committed, Up, Standing
  <2>2. 1 \in Ahead("clip", d) /\ writes[1][3] = r
    BY <1>6 DEF ClipCommitted, Committed
  <2>3. d = c => r # None
    BY <2>1, <2>2 DEF RecordsApart
  <2>4. clipRow'[c] # None
    BY <1>6, <2>3 DEF ClipCommitted, LibraryTypes, Standing
  <2> QED BY <2>1, <2>4 DEF Standing
<1>7. ASSUME NEW f \in Flows, NEW r, FlowSaved(f, r) \/ FlowDropped(f) PROVE Standing(c)'
  BY <1>4, <1>7 DEF FlowSaved, FlowDropped, Up, Standing
<1>8. ASSUME NEW f \in Flows, NEW r, FlowCommitted(f, r) \/ FlowForgotten(f) PROVE Standing(c)'
  BY <1>4, <1>8 DEF FlowCommitted, FlowForgotten, Committed, Up, Standing
<1> QED BY <1>1, <1>2, <1>3, <1>5, <1>6, <1>7, <1>8, Records DEF LibraryStep

\* A deleted clip stays away.
Away(c) == clipRow[c] = None /\ clips[c] = None

LEMMA AwayStays ==
  ASSUME LibraryTypes, RecordsApart, LibraryStep, NEW c \in Clips, Away(c), job[c] = "none",
         flowRow[DemoFlow] # None, \A r \in ClipRecord \cup {None} : ~ClipSaved(c, r)
  PROVE  Away(c)'
<1> USE DEF cache, rows
<1>1. Ahead("clip", c) = {}
  BY DEF RecordsApart, Away
<1>2. CASE Still \/ NothingWritten \/ Exit
  BY <1>2 DEF Still, WriteFails, NothingWritten, Exit, Away
<1>3. CASE Connect
  BY <1>3 DEF Connect, EmptyDatabase, Loads, Away
<1>4. ASSUME NEW d \in Clips, NEW r \in ClipRecord \cup {None}, ClipSaved(d, r) PROVE Away(c)'
  <2>1. d # c
    BY <1>4
  <2> QED BY <1>4, <2>1 DEF ClipSaved, SaveClip, LibraryTypes, Away
<1>5. ASSUME NEW d \in Clips, NEW r \in ClipRecord \cup {None}, ClipCommitted(d, r) PROVE Away(c)'
  <2>1. d # c
    BY <1>1, <1>5 DEF ClipCommitted, Committed
  <2> QED BY <1>5, <2>1 DEF ClipCommitted, Committed, LibraryTypes, Away
<1>6. ASSUME NEW f \in Flows, NEW r, FlowSaved(f, r) \/ FlowDropped(f) PROVE Away(c)'
  BY <1>6 DEF FlowSaved, FlowDropped, Away
<1>7. ASSUME NEW f \in Flows, NEW r, FlowCommitted(f, r) \/ FlowForgotten(f) PROVE Away(c)'
  BY <1>7 DEF FlowCommitted, FlowForgotten, Committed, Away
<1> QED BY <1>2, <1>3, <1>4, <1>5, <1>6, <1>7, Records DEF LibraryStep

LEMMA ToldStep ==
  ASSUME IInv, [Next]_vars
  PROVE  ToldStands'
<1>1. TypeOK /\ LibraryTypes /\ LibraryStep /\ RecordsApart /\ BootKeeps /\ ToldBy /\ Lifecycle /\ \A f \in Flows : GoneForGood(f)
  BY LibrarySteps, ToldSteps, JobsParts, NumbersParts DEF IInv, TypeOK, LibraryTypes
<1>2. ASSUME Flushed, Still
      PROVE  /\ \A v \in Version : <<"published", v>> \in asks => v \in versionRow
             /\ \A f \in Flows : <<"flow deleted", f>> \in asks => flowRow[f] # None /\ flowRow[f].deleted
             /\ \A c \in Clips : <<"clip", c>> \in asks => Standing(c)
             /\ \A c \in Clips : <<"clip deleted", c>> \notin asks
             /\ UNCHANGED rows
  <2>1. AsksAreTrue /\ storeOk /\ phase # "down" /\ DOMAIN writes = {} /\ \A kind, x : Ahead(kind, x) = {}
    BY <1>2, NothingAhead DEF IInv, Flushed
  <2>2. \A c \in Clips : clipRow[c] = clips[c]
    BY <2>1 DEF IInv, RowsCatchUp, CatchesUp
  <2> QED BY <1>2, <2>1, <2>2 DEF AsksAreTrue, Still, Standing
<1>3. ASSUME NEW v \in Version, <<"published", v>> \in told' PROVE v \in versionRow'
  <2>1. CASE <<"published", v>> \in told
    BY <1>1, <2>1, VersionRowsStay DEF IInv, ToldStands
  <2>2. CASE <<"published", v>> \notin told
    <3>1. <<"published", v>> \in asks /\ Flushed /\ Still
      BY <1>1, <1>3, <2>2, OtherFacts DEF ToldBy
    <3> QED BY <1>2, <3>1 DEF rows
  <2> QED BY <2>1, <2>2
<1>4. ASSUME NEW f \in Flows, <<"flow deleted", f>> \in told' PROVE flowRow'[f] # None /\ flowRow'[f].deleted
  <2>1. CASE <<"flow deleted", f>> \in told
    BY <1>1, <2>1, DeletedStays DEF IInv, ToldStands
  <2>2. CASE <<"flow deleted", f>> \notin told
    <3>1. <<"flow deleted", f>> \in asks /\ Flushed /\ Still
      BY <1>1, <1>4, <2>2, OtherFacts DEF ToldBy
    <3> QED BY <1>2, <3>1 DEF rows
  <2> QED BY <2>1, <2>2
<1>5. ASSUME NEW c \in Clips, <<"clip", c>> \in told' PROVE Standing(c)'
  <2>1. CASE <<"clip", c>> \in told
    <3>1. Standing(c)
      BY <2>1 DEF IInv, ToldStands, Standing
    <3>2. ~ClipSaved(c, None)
      BY <1>1, <1>5, ClipSavers DEF ToldBy
    <3> QED BY <1>1, <3>1, <3>2, StandingStays
  <2>2. CASE <<"clip", c>> \notin told
    <3>1. <<"clip", c>> \in asks /\ Flushed /\ Still /\ UNCHANGED phase
      BY <1>1, <1>5, <2>2, OtherFacts DEF ToldBy
    <3> QED BY <1>2, <3>1 DEF rows, cache, Standing, Still
  <2> QED BY <2>1, <2>2
<1>6. ASSUME NEW c \in Clips, <<"clip deleted", c>> \in told' PROVE Away(c)' /\ job'[c] = "none"
  <2>1. CASE <<"clip deleted", c>> \in told
    <3>1. Away(c) /\ job[c] = "none" /\ job'[c] = "none" /\ flowRow[DemoFlow] # None
      BY <1>1, <2>1 DEF IInv, ToldStands, Away, ToldBy, Lifecycle
    <3>2. \A r \in ClipRecord \cup {None} : ~ClipSaved(c, r)
      <4>1. ~ScanRecord(c)
        BY <1>1, <3>1 DEF ScanRecord, BootKeeps, Away
      <4>2. ~CreateClip(c)
        BY <1>1, <2>1 DEF ToldBy
      <4>3. ~ArchiveClip(c) /\ ~DeleteClip(c) /\ ~CreateUploaded(c)
        BY <3>1 DEF ArchiveClip, DeleteClip, CreateUploaded, Away
      <4> QED BY <1>1, <4>1, <4>2, <4>3, ClipSavers
    <3> QED BY <1>1, <3>1, <3>2, AwayStays
  <2>2. CASE <<"clip deleted", c>> \notin told
    <3>1. job[c] = "unlinking" /\ job'[c] = "none" /\ Still
      <4>1. ~(<<"clip deleted", c>> \in asks /\ Flushed /\ Still)
        BY <1>2
      <4> QED BY <1>1, <1>6, <2>2, <4>1, OtherFacts DEF ToldBy
    <3>2. Away(c)
      BY <1>1, <3>1 DEF RecordsApart, Away
    <3> QED BY <3>1, <3>2 DEF Still, Away, cache, rows
  <2> QED BY <2>1, <2>2
<1> QED BY <1>3, <1>4, <1>5, <1>6 DEF ToldStands, Standing, Away

-----------------------------------------------------------------------------
(* What waits to be told. *)

\* A version is in the database or on its way; a flow is deleted, or will be.
OnItsWay(v) == v \in versionRow \/ \E i \in DOMAIN writes : Publishes(i, v)
Going(f) == flows[f] = None /\ ((flowRow[f] # None /\ flowRow[f].deleted) \/ Ahead("flow", f) # {})

LEMMA AsksParts ==
  AsksAreTrue <=>
    (storeOk =>
        /\ \A v \in Version : <<"published", v>> \in asks => OnItsWay(v)
        /\ \A f \in Flows : <<"flow deleted", f>> \in asks => Going(f)
        /\ \A c \in Clips : <<"clip", c>> \in asks => clips[c] # None
        /\ \A c \in Clips : <<"clip deleted", c>> \notin asks)
  BY DEF AsksAreTrue, OnItsWay, Going

LEMMA OnItsWayStays ==
  ASSUME LibraryTypes, LibraryStep, phase # "down", phase' # "down", storeOk', NEW v \in Version, OnItsWay(v)
  PROVE  OnItsWay(v)'
<1> USE DEF cache, rows
<1>1. writes \in Seq(Write) /\ versionRow \subseteq versionRow'
  BY VersionRowsStay DEF LibraryTypes
<1>2. CASE v \in versionRow
  BY <1>1, <1>2 DEF OnItsWay
<1> SUFFICES ASSUME NEW i \in DOMAIN writes, Publishes(i, v) PROVE OnItsWay(v)'
  BY <1>2 DEF OnItsWay
<1>3. i \in Ahead("flow", v[1]) /\ writes[i][3] # None /\ writes[i][3].status = "published"
      /\ writes[i][3].version = v[2] /\ writes[i][3].clip = v[3]
  BY DEF Publishes
<1>4. ASSUME NEW x, writes' = Append(writes, x) PROVE OnItsWay(v)'
  <2>1. PICK n \in Nat : Joined(n, x)
    BY <1>1, <1>4, Joins
  <2>2. i \in DOMAIN writes' /\ writes'[i] = writes[i]
    BY <2>1 DEF Joined
  <2>3. Publishes(i, v)'
    BY <1>3, <2>2 DEF Publishes, Ahead
  <2> QED BY <2>2, <2>3 DEF OnItsWay
<1>5. ASSUME MovedUp, i # 1 PROVE OnItsWay(v)'
  <2>1. i \in Nat /\ i >= 1 /\ i - 1 \in Ahead("flow", v[1])'
    BY <1>3, <1>5, AheadMoved
  <2>2. i - 1 \in DOMAIN writes' /\ writes'[i - 1] = writes[(i - 1) + 1]
    BY <1>5, <2>1 DEF Ahead, MovedUp
  <2>3. (i - 1) + 1 = i
    BY <2>1
  <2>4. Publishes(i - 1, v)'
    BY <1>3, <2>1, <2>2, <2>3 DEF Publishes
  <2> QED BY <2>2, <2>4 DEF OnItsWay
<1>6. CASE Still
  BY <1>6 DEF Still, OnItsWay, Publishes, Ahead
<1>7. CASE NothingWritten \/ Exit \/ Connect
  BY <1>7 DEF WriteFails, NothingWritten, Exit, Connect
<1>8. ASSUME NEW c \in Clips, NEW r, ClipSaved(c, r) PROVE OnItsWay(v)'
  BY <1>4, <1>8 DEF ClipSaved, SaveClip
<1>9. ASSUME NEW f \in Flows, NEW r, FlowSaved(f, r) \/ FlowDropped(f) PROVE OnItsWay(v)'
  BY <1>4, <1>9 DEF FlowSaved, SaveFlow, FlowDropped, DropFlow
<1>10. ASSUME NEW c \in Clips, NEW r, ClipCommitted(c, r) PROVE OnItsWay(v)'
  <2>1. MovedUp /\ 1 \in Ahead("clip", c)
    BY <1>10 DEF ClipCommitted, Committed
  <2>2. i # 1
    BY <1>3, <2>1, HeadIsOne
  <2> QED BY <1>5, <2>1, <2>2
<1>11. ASSUME NEW f \in Flows, FlowForgotten(f) PROVE OnItsWay(v)'
  <2>1. MovedUp /\ writes[1][3] = None
    BY <1>11 DEF FlowForgotten, Committed
  <2> QED BY <1>3, <1>5, <2>1
<1>12. ASSUME NEW f \in Flows, NEW r \in FlowRecord, FlowCommitted(f, r) PROVE OnItsWay(v)'
  <2>1. MovedUp /\ 1 \in Ahead("flow", f) /\ writes[1][3] = r
        /\ versionRow' = IF r.status = "published" THEN versionRow \cup {<<f, r.version, r.clip>>} ELSE versionRow
    BY <1>12 DEF FlowCommitted, Committed
  <2>2. CASE i = 1
    <3>1. v[1] = f
      BY <1>3, <2>1, <2>2, HeadIsOne
    <3>2. v = <<f, r.version, r.clip>> /\ r.status = "published"
      BY <1>3, <2>1, <2>2, <3>1, VersionFields
    <3> QED BY <2>1, <3>2 DEF OnItsWay
  <2> QED BY <1>5, <2>1, <2>2
<1> QED BY <1>6, <1>7, <1>8, <1>9, <1>10, <1>11, <1>12, Records DEF LibraryStep

LEMMA GoingStays ==
  ASSUME LibraryTypes, LibraryStep, phase # "down", phase' # "down", storeOk', NEW f \in Flows, Going(f), GoneForGood(f), NumbersGoUp,
         storeOk => CatchesUp("flow", f, Live(f), flows[f])
  PROVE  Going(f)'
<1> USE DEF cache, rows
<1>1. writes \in Seq(Write)
  BY DEF LibraryTypes
<1>2. CASE flowRow[f] # None /\ flowRow[f].deleted
  <2>1. flowRow'[f] # None /\ flowRow'[f].deleted
    BY <1>2, DeletedStays
  <2>2. flows'[f] = None
    <3>1. CASE Still
      BY <3>1 DEF Still, Going
    <3>2. CASE NothingWritten \/ Exit \/ Connect
      BY <3>2 DEF WriteFails, NothingWritten, Exit, Connect
    <3>3. ASSUME NEW c \in Clips, NEW r, ClipSaved(c, r) \/ ClipCommitted(c, r) PROVE flows'[f] = None
      BY <3>3 DEF ClipSaved, ClipCommitted, Committed, Going
    <3>4. ASSUME NEW g \in Flows, NEW r, FlowCommitted(g, r) \/ FlowForgotten(g) PROVE flows'[f] = None
      BY <3>4 DEF FlowCommitted, FlowForgotten, Committed, Going
    <3>5. ASSUME NEW g \in Flows, NEW r, FlowSaved(g, r) \/ FlowDropped(g) PROVE flows'[f] = None
      <4>1. g # f
        BY <1>2, <3>5 DEF FlowSaved, FlowDropped, Going
      <4> QED BY <3>5, <4>1 DEF FlowSaved, SaveFlow, FlowDropped, DropFlow, LibraryTypes, Going
    <3> QED BY <3>1, <3>2, <3>3, <3>4, <3>5, Records DEF LibraryStep
  <2> QED BY <2>1, <2>2 DEF Going
<1>3. CASE Ahead("flow", f) # {}
  <2>1. ASSUME NEW x, writes' = Append(writes, x) PROVE Ahead("flow", f)' # {}
    <3>1. PICK n \in Nat : Joined(n, x)
      BY <1>1, <2>1, Joins
    <3> QED BY <1>3, <3>1, AheadJoined
  <2>2. ASSUME MovedUp, 1 \notin Ahead("flow", f) PROVE Ahead("flow", f)' # {}
    BY <1>3, <2>2, AheadMoved
  <2>3. CASE Still
    BY <2>3 DEF Still, Going, Ahead
  <2>4. CASE NothingWritten \/ Exit \/ Connect
    BY <2>4 DEF WriteFails, NothingWritten, Exit, Connect
  <2>5. ASSUME NEW c \in Clips, NEW r, ClipSaved(c, r) PROVE Going(f)'
    BY <2>1, <2>5 DEF ClipSaved, SaveClip, Going
  <2>6. ASSUME NEW g \in Flows, NEW r, FlowSaved(g, r) \/ FlowDropped(g) PROVE Going(f)'
    <3>1. g # f
      BY <1>3, <2>6 DEF FlowSaved, FlowDropped, Going
    <3>2. flows'[f] = None
      BY <2>6, <3>1 DEF FlowSaved, SaveFlow, FlowDropped, DropFlow, LibraryTypes, Going
    <3>3. Ahead("flow", f)' # {}
      BY <2>1, <2>6 DEF FlowSaved, SaveFlow, FlowDropped, DropFlow
    <3> QED BY <3>2, <3>3 DEF Going
  <2>7. ASSUME NEW c \in Clips, NEW r, ClipCommitted(c, r) PROVE Going(f)'
    <3>1. MovedUp /\ 1 \in Ahead("clip", c) /\ UNCHANGED flows
      BY <2>7 DEF ClipCommitted, Committed
    <3>2. 1 \notin Ahead("flow", f)
      BY <3>1, HeadIsOne
    <3> QED BY <2>2, <3>1, <3>2 DEF Going
  <2>8. ASSUME NEW g \in Flows, NEW r, Committed("flow", g, r), UNCHANGED flows, g # f PROVE Going(f)'
    <3>1. MovedUp /\ 1 \in Ahead("flow", g)
      BY <2>8 DEF Committed
    <3>2. 1 \notin Ahead("flow", f)
      BY <2>8, <3>1, HeadIsOne
    <3> QED BY <2>2, <2>8, <3>1, <3>2 DEF Going
  <2>9. ASSUME NEW r \in FlowRecord, FlowCommitted(f, r) PROVE Going(f)'
    <3>1. MovedUp /\ 1 \in Ahead("flow", f) /\ writes[1][3] = r /\ UNCHANGED flows /\ storeOk
      BY <2>9 DEF FlowCommitted, Committed, Up
    <3>2. Ahead("flow", f)' # {}
      <4> SUFFICES ASSUME Ahead("flow", f)' = {} PROVE FALSE
        OBVIOUS
      <4>1. \A i \in Ahead("flow", f) : i = 1
        BY <3>1, AheadMoved
      <4>2. writes[1][3] = flows[f]
        BY <3>1, <4>1 DEF CatchesUp
      <4> QED BY <3>1, <4>2, NoneIsNoRecord DEF Going
    <3> QED BY <3>1, <3>2 DEF Going
  <2>10. ASSUME FlowForgotten(f) PROVE Going(f)'
    <3>1. flowRow'[f] = [deleted |-> TRUE, flow |-> flowRow[f].flow] /\ UNCHANGED flows
      BY <2>10 DEF FlowForgotten, Committed, LibraryTypes
    <3>2. flowRow'[f] # None
      <4>1. flowRow[f].flow \in FlowRecord
        BY <2>10, ForgottenRow, LiveTypes
      <4> QED BY <3>1, <4>1, NoneIsNoRecord
    <3> QED BY <3>1, <3>2 DEF Going
  <2> QED BY <2>3, <2>4, <2>5, <2>6, <2>7, <2>8, <2>9, <2>10, Records DEF LibraryStep, FlowCommitted, FlowForgotten, Committed
<1> QED BY <1>2, <1>3 DEF Going

\* An answer waits behind the write it is about.
AskedFor(a) ==
  \/ \E v \in Version : a = <<"published", v>> /\ OnItsWay(v)'
  \/ \E f \in Flows : a = <<"flow deleted", f>> /\ Going(f)'
  \/ \E c \in Clips : a = <<"clip", c>> /\ clips'[c] # None
AskedBy ==
  /\ \A a \in asks' \ asks : AskedFor(a)
  /\ asks' # {} => phase # "down" /\ phase' # "down"
  /\ \A c \in Clips : DeleteClip(c) => <<"clip", c>> \notin asks'

LEMMA AskedSteps ==
  ASSUME IInv, [Next]_vars
  PROVE  AskedBy
<1>1. TypeOK /\ LibraryTypes /\ Lifecycle /\ writes \in Seq(Write)
  BY DEF IInv, TypeOK, LibraryTypes
<1>2. \A c \in Clips : DeleteClip(c) => <<"clip", c>> \notin asks'
  BY DEF DeleteClip
<1> USE DEF world, bounds, cache, rows
<1>3. ASSUME asks' \subseteq asks, phase' # "down" \/ phase' = phase PROVE AskedBy
  BY <1>1, <1>2, <1>3 DEF AskedBy, Lifecycle
<1>4. ASSUME phase = "serving", UNCHANGED phase, NEW a, asks' = asks \cup {a}, AskedFor(a) PROVE AskedBy
  BY <1>2, <1>4 DEF AskedBy
<1>5. CASE UNCHANGED vars
  BY <1>3, <1>5 DEF vars
<1>6. CASE Commit \/ WriteFails \/ ScanOver \/ Serve \/ Connect
  BY <1>3, <1>6 DEF Commit, WriteFails, ScanOver, Serve, Connect
<1>7. CASE Exit
  BY <1>2, <1>7 DEF Exit, AskedBy
<1>8. ASSUME NEW c \in Clips, ScanRecord(c) \/ ArchiveClip(c) \/ DeleteClip(c) \/ StageUpload(c) \/ StartConversion(c)
                 \/ Converted(c) \/ MoveOriginal(c) \/ MoveCanonical(c) \/ RejectUpload(c) \/ AbandonUpload(c)
                 \/ DeletionFlushed(c) \/ ClipDeleted(c)
      PROVE  AskedBy
  <2>1. asks' \subseteq asks /\ phase' = phase
    BY <1>8 DEF ScanRecord, ArchiveClip, DeleteClip, StageUpload, StartConversion, Converted, MoveOriginal, MoveCanonical,
                RejectUpload, AbandonUpload, Abandoned, DeletionFlushed, ClipDeleted
  <2> QED BY <1>3, <2>1
<1>9. ASSUME NEW c \in Clips, NEW h \in Files, SetAside(c, h) \/ LoseFile(c, h) \/ Unlink(c, h) PROVE AskedBy
  BY <1>3, <1>9 DEF SetAside, LoseFile, Unlink
<1>10. ASSUME NEW a, Respond(a) \/ RespondFailed(a) PROVE AskedBy
  BY <1>3, <1>10 DEF Respond, RespondFailed
<1>11. ASSUME NEW f \in Flows, CreateDraft(f) PROVE AskedBy
  BY <1>3, <1>11 DEF CreateDraft
<1>12. ASSUME NEW f \in Flows, NEW c \in Clips \cup {None}, EditFlow(f, c) PROVE AskedBy
  BY <1>3, <1>12 DEF EditFlow
<1>13. ASSUME NEW f \in Flows, PublishFlow(f) PROVE AskedBy
  <2>1. PICK r : r = [flows[f] EXCEPT !.version = @ + 1, !.status = "published"]
    OBVIOUS
  <2>2. flows[f] \in FlowRecord /\ flows[f].version < MaxVersions /\ phase = "serving" /\ UNCHANGED phase
        /\ asks' = asks \cup {<<"published", <<f, flows[f].version + 1, flows[f].clip>>>>}
        /\ writes' = Append(writes, <<"flow", f, r>>)
    BY <1>1, <1>13, <2>1 DEF PublishFlow, SaveFlow, Writable, Request, LibraryTypes
  <2>3. r \in FlowRecord /\ r.status = "published" /\ r.version = flows[f].version + 1 /\ r.clip = flows[f].clip
        /\ flows[f].version + 1 \in 1 .. MaxVersions /\ r.clip \in Clips \cup {None}
    <3>1. flows[f].version \in Nat /\ MaxVersions \in Nat
      BY <2>2 DEF FlowRecord
    <3>2. flows[f].version + 1 \in 0 .. MaxVersions /\ flows[f].version + 1 \in 1 .. MaxVersions
      BY <2>2, <3>1
    <3> QED BY <2>1, <2>2, <3>2 DEF FlowRecord
  <2>4. PICK v : v = <<f, flows[f].version + 1, flows[f].clip>>
    OBVIOUS
  <2>5. v \in Version /\ v[1] = f /\ v[2] = r.version /\ v[3] = r.clip
    BY <2>3, <2>4, VersionFields
  <2>6. PICK x : x = <<"flow", f, r>>
    OBVIOUS
  <2>7. x[1] = "flow" /\ x[2] = f /\ x[3] = r
    BY <2>6
  <2>8. PICK n \in Nat : Joined(n, x)
    BY <1>1, <2>2, <2>6, Joins
  <2>9. n \in DOMAIN writes' /\ writes'[n] = x
    BY <2>8 DEF Joined
  <2>10. Publishes(n, v)'
    BY <2>3, <2>5, <2>7, <2>9, NoneIsNoRecord DEF Publishes, Ahead
  <2>11. OnItsWay(v)'
    BY <2>9, <2>10 DEF OnItsWay
  <2> QED BY <1>4, <2>2, <2>4, <2>5, <2>11 DEF AskedFor
<1>14. ASSUME NEW f \in Flows, DeleteFlow(f) PROVE AskedBy
  <2>1. /\ phase = "serving" /\ UNCHANGED phase /\ asks' = asks \cup {<<"flow deleted", f>>}
        /\ writes' = Append(writes, <<"flow", f, None>>) /\ flows'[f] = None
    BY <1>1, <1>14 DEF DeleteFlow, DropFlow, Writable, Request, LibraryTypes
  <2>2. PICK x : x = <<"flow", f, None>>
    OBVIOUS
  <2>3. x[1] = "flow" /\ x[2] = f
    BY <2>2
  <2>4. PICK n \in Nat : Joined(n, x)
    BY <1>1, <2>1, <2>2, Joins
  <2>5. Ahead("flow", f)' # {}
    BY <2>3, <2>4, AheadJoined
  <2> QED BY <1>4, <2>1, <2>5 DEF AskedFor, Going
<1>15. ASSUME NEW c \in Clips, CreateClip(c) PROVE AskedBy
  <2>1. clips'[c] = DemoRecord
    BY <1>1, <1>15 DEF CreateClip, SaveClip, LibraryTypes
  <2> QED BY <1>4, <1>15, <2>1, Records, NoneIsNoRecord DEF CreateClip, Writable, Request, AskedFor
<1>16. ASSUME NEW c \in Clips, CreateUploaded(c) PROVE AskedBy
  <2>1. phase = "serving" /\ UNCHANGED phase
    BY <1>1, <1>16 DEF CreateUploaded, Lifecycle
  <2>2. CASE storeOk
    <3>1. clips'[c] = UploadedRecord /\ asks' = asks \cup {<<"clip", c>>}
      BY <1>1, <1>16, <2>2 DEF CreateUploaded, SaveClip, LibraryTypes
    <3> QED BY <1>4, <2>1, <3>1, Records, NoneIsNoRecord DEF AskedFor
  <2>3. CASE ~storeOk
    BY <1>3, <1>16, <2>1, <2>3 DEF CreateUploaded
  <2> QED BY <2>2, <2>3
<1> QED BY <1>5, <1>6, <1>7, <1>8, <1>9, <1>10, <1>11, <1>12, <1>13, <1>14, <1>15, <1>16 DEF Next, BootStep, UploadStep

LEMMA AsksStep ==
  ASSUME IInv, [Next]_vars
  PROVE  AsksAreTrue'
<1>1. TypeOK /\ LibraryTypes /\ LibraryStep /\ BootKeeps /\ AskedBy /\ Lifecycle /\ NumbersGoUp /\ \A f \in Flows : GoneForGood(f)
  BY LibrarySteps, AskedSteps, NumbersParts DEF IInv, TypeOK, LibraryTypes
<1>2. SUFFICES ASSUME storeOk', asks' # {}
               PROVE  /\ \A v \in Version : <<"published", v>> \in asks' => OnItsWay(v)'
                      /\ \A f \in Flows : <<"flow deleted", f>> \in asks' => Going(f)'
                      /\ \A c \in Clips : <<"clip", c>> \in asks' => clips'[c] # None
                      /\ \A c \in Clips : <<"clip deleted", c>> \notin asks'
  BY DEF AsksAreTrue, OnItsWay, Going
<1>3. phase # "down" /\ phase' # "down"
  BY <1>1, <1>2 DEF AskedBy
<1>4. storeOk
  <2>1. ~NothingWritten /\ ~Exit /\ ~Connect
    BY <1>2, <1>3 DEF WriteFails, NothingWritten, Exit, Connect
  <2> QED BY <1>1, <1>2, <2>1 DEF LibraryStep, Still, ClipSaved, ClipCommitted, FlowSaved, FlowCommitted, FlowDropped,
                                  FlowForgotten, Committed, Up
<1>5. /\ \A v \in Version : <<"published", v>> \in asks => OnItsWay(v)
      /\ \A f \in Flows : <<"flow deleted", f>> \in asks => Going(f)
      /\ \A c \in Clips : <<"clip", c>> \in asks => clips[c] # None
      /\ \A c \in Clips : <<"clip deleted", c>> \notin asks
  BY <1>4, AsksParts DEF IInv
<1>6. \A a \in asks' : a \in asks \/ AskedFor(a)
  BY <1>1 DEF AskedBy
<1>7. ASSUME NEW v \in Version, <<"published", v>> \in asks' PROVE OnItsWay(v)'
  <2>1. CASE <<"published", v>> \in asks
    BY <1>1, <1>2, <1>3, <1>5, <2>1, OnItsWayStays
  <2>2. CASE AskedFor(<<"published", v>>)
    BY <2>2, OtherFacts DEF AskedFor
  <2> QED BY <1>6, <1>7, <2>1, <2>2
<1>8. ASSUME NEW f \in Flows, <<"flow deleted", f>> \in asks' PROVE Going(f)'
  <2>1. CASE <<"flow deleted", f>> \in asks
    <3>1. CatchesUp("flow", f, Live(f), flows[f])
      BY <1>3, <1>4 DEF IInv, RowsCatchUp
    <3> QED BY <1>1, <1>2, <1>3, <1>5, <2>1, <3>1, GoingStays
  <2>2. CASE AskedFor(<<"flow deleted", f>>)
    BY <2>2, OtherFacts DEF AskedFor
  <2> QED BY <1>6, <1>8, <2>1, <2>2
<1>9. ASSUME NEW c \in Clips, <<"clip", c>> \in asks' PROVE clips'[c] # None
  <2>1. CASE <<"clip", c>> \in asks
    <3> SUFFICES ASSUME clips'[c] = None PROVE FALSE
      OBVIOUS
    <3>1. clips'[c] # clips[c]
      BY <1>5, <2>1
    <3>2. ClipSaved(c, None)
      BY <1>1, <1>3, <3>1, ClipsChange
    <3> QED BY <1>1, <1>9, <3>2, ClipSavers DEF AskedBy
  <2>2. CASE AskedFor(<<"clip", c>>)
    BY <2>2, OtherFacts DEF AskedFor
  <2> QED BY <1>6, <1>9, <2>1, <2>2
<1>10. ASSUME NEW c \in Clips, <<"clip deleted", c>> \in asks' PROVE FALSE
  BY <1>5, <1>6, <1>10, OtherFacts DEF AskedFor
<1> QED BY <1>7, <1>8, <1>9, <1>10

-----------------------------------------------------------------------------
(* The invariant. *)

LEMMA IInvInit ==
  ASSUME Init
  PROVE  IInv
<1>1. DOMAIN writes = {} /\ \A kind, x : Ahead(kind, x) = {}
  BY NothingAhead DEF Init
<1>2. /\ \A c \in Clips : clips[c] = None /\ clipRow[c] = None /\ job[c] = "none"
      /\ \A f \in Flows : flows[f] = None /\ flowRow[f] = None
      /\ versions = {} /\ versionRow = {} /\ storeOk = TRUE /\ asks = {} /\ told = {} /\ phase = "down" /\ toScan = {}
  BY DEF Init
<1>3. TypeOK
  <2>1. writes \in Seq(Write)
    <3>1. <<>> \in Seq(Write)
      OBVIOUS
    <3> QED BY <3>1 DEF Init
  <2>2. media \in [Clips -> [Files -> Places]]
    BY Records DEF Init
  <2>3. lost = {} /\ requests \in 0 .. MaxRequests /\ exits \in 0 .. MaxExits /\ troubles \in 0 .. MaxTroubles
    BY DEF Init
  <2>4. /\ clips \in [Clips -> ClipRecord \cup {None}] /\ clipRow \in [Clips -> ClipRecord \cup {None}]
        /\ flows \in [Flows -> FlowRecord \cup {None}]
        /\ flowRow \in [Flows -> [deleted : BOOLEAN, flow : FlowRecord] \cup {None}]
        /\ job \in [Clips -> {"none", "staged", "converting", "converted", "half", "placed", "deleting", "unlinking"}]
    BY DEF Init
  <2> QED BY <1>2, <2>1, <2>2, <2>3, <2>4 DEF TypeOK
<1>4. Lifecycle /\ RowsCatchUp /\ JobsAreApart /\ BytesFollow /\ BootKeeps
  BY <1>1, <1>2, DemoFlow \in Flows DEF Init, Lifecycle, RowsCatchUp, JobsAreApart, BytesFollow, BootKeeps
<1>5. NumbersGoUp /\ VersionsFollow /\ ToldStands /\ AsksAreTrue
  BY <1>1, <1>2 DEF NumbersGoUp, NumbersAreTaken, SeededAt, VersionsFollow, ToldStands, AsksAreTrue
<1> QED BY <1>3, <1>4, <1>5 DEF IInv

LEMMA IInvStep ==
  ASSUME IInv, [Next]_vars
  PROVE  IInv'
<1>1. LibraryStep /\ Lifecycle'
  BY LibrarySteps, LifecycleStep
<1>2. RowsCatchUp' /\ NumbersGoUp' /\ VersionsFollow'
  BY <1>1, RowsCatchUpStep, NumbersStep, VersionsStep
<1> QED BY <1>1, <1>2, TypeStep, JobsStep, BytesStep, BootKeepsStep, ToldStep, AsksStep DEF IInv

\* Every reachable state of the library is one of IInv: rows and memory differ by the writes
\* on their way and nothing else, whatever is interrupted (store.ts, prisma-store.ts).
THEOREM ClipLibraryInvariance == Spec => []IInv
<1>1. Init => IInv
  BY IInvInit
<1>2. IInv /\ [Next]_vars => IInv'
  BY IInvStep
<1> QED BY <1>1, <1>2, PTL DEF Spec

\* A recorded clip has its audio, and one that can be chosen can be heard: app.ts upload and
\* delete, uploads.ts, and the boot of clip-reconciliation.ts.
THEOREM BytesHold == Spec => []RecordedBytesExist
<1>1. IInv => RecordedBytesExist
  BY DEF IInv, BytesFollow, RecordedBytesExist
<1> QED BY <1>1, ClipLibraryInvariance, PTL

\* A published version keeps its clip and its number: app.ts PUT and publish, store.ts
\* saveFlow and deleteClip.
THEOREM VersionsHold == Spec => []VersionsStand
<1>1. ASSUME IInv PROVE VersionsStand
  <2>1. \A v \in versionRow \cup versions : KeepsItsClip(v)
    BY <1>1 DEF IInv, VersionsFollow, KeepsItsClip
  <2> QED BY <1>1, <2>1 DEF IInv, NumbersGoUp, VersionsStand
<1> QED BY <1>1, ClipLibraryInvariance, PTL

\* What the operator was told is in the database, over crashes and failed writes: the flush
\* before each response of app.ts, the seeding guard of prisma-store.ts.
THEOREM AcknowledgedHolds == Spec => []AcknowledgedIsDurable
<1>1. ASSUME IInv PROVE AcknowledgedIsDurable
  <2>1. ToldStands /\ told \subseteq Fact
    BY <1>1 DEF IInv, TypeOK
  <2> SUFFICES ASSUME NEW a \in told
               PROVE  /\ a[1] = "published" => a[2] \in versionRow
                      /\ a[1] = "flow deleted" => flowRow[a[2]].deleted
                      /\ a[1] = "clip" => clipRow[a[2]] # None
                      /\ a[1] = "clip deleted" => clipRow[a[2]] = None
    BY DEF AcknowledgedIsDurable
  <2>2. a \in Fact
    BY <2>1
  <2>3. CASE \E c \in Clips : a = <<"clip", c>>
    <3>1. PICK c \in Clips : a = <<"clip", c>>
      BY <2>3
    <3>2. a[1] = "clip" /\ a[2] = c
      BY <3>1
    <3> QED BY <2>1, <3>1, <3>2 DEF ToldStands
  <2>4. CASE \E c \in Clips : a = <<"clip deleted", c>>
    <3>1. PICK c \in Clips : a = <<"clip deleted", c>>
      BY <2>4
    <3>2. a[1] = "clip deleted" /\ a[2] = c
      BY <3>1
    <3> QED BY <2>1, <3>1, <3>2 DEF ToldStands
  <2>5. CASE \E f \in Flows : a = <<"flow deleted", f>>
    <3>1. PICK f \in Flows : a = <<"flow deleted", f>>
      BY <2>5
    <3>2. a[1] = "flow deleted" /\ a[2] = f
      BY <3>1
    <3> QED BY <2>1, <3>1, <3>2 DEF ToldStands
  <2>6. CASE \E v \in Version : a = <<"published", v>>
    <3>1. PICK v \in Version : a = <<"published", v>>
      BY <2>6
    <3>2. a[1] = "published" /\ a[2] = v
      BY <3>1
    <3> QED BY <2>1, <3>1, <3>2 DEF ToldStands
  <2> QED BY <2>2, <2>3, <2>4, <2>5, <2>6, FactKinds
<1> QED BY <1>1, ClipLibraryInvariance, PTL
=============================================================================
