---------------------------- MODULE ClipLibrary ----------------------------
(***************************************************************************)
(* What an operator builds: flows, their published versions, and the clips *)
(* they play.  Each is kept three times: in the cache every request reads, *)
(* in the database the writes reach one after the other, and (the audio)   *)
(* in files the database knows nothing about.  The module models the HTTP  *)
(* handlers that change them, the conversion of an upload, the durable     *)
(* writes, and the boot that brings the three back together.               *)
(*                                                                         *)
(* A handler that reads, checks and saves without waiting on anything else *)
(* is one action; the wait for the flush, the conversion and every rename  *)
(* or unlink are steps of their own, and the process may die before any of *)
(* them.  A graph is reduced to the one clip it plays.  The flow that the  *)
(* program keeps for inbound callbacks is no operator's and is left out.   *)
(***************************************************************************)
EXTENDS Naturals, FiniteSets, Sequences

CONSTANTS
    Clips,           \* the identifiers a clip can get
    DemoClips,       \* those of the demonstration data: no stored audio
    Flows,           \* the identifiers a flow can get
    DemoFlow,        \* the demonstration flow, published once
    DemoVersion,     \* as this version, those before it being of no row
    DemoClip,        \* the clip it plays
    None,            \* no record; a graph that plays nothing
    MaxVersions,     \* bound: the version a flow can be published as
    MaxQueue,        \* bound: writes waiting when a request is taken
    MaxRequests,     \* bound: requests that change something
    MaxExits,        \* bound: deaths of the process
    MaxLosses,       \* bound: clips a file is lost of
    MaxTroubles,     \* bound: database writes that fail
    MaxConversions   \* uploads converted at a time

ASSUME ClipAssumption ==
    /\ DemoClips \subseteq Clips /\ DemoClip \in DemoClips /\ DemoFlow \in Flows
    /\ None \notin Clips
    /\ MaxVersions \in Nat /\ DemoVersion \in 1 .. MaxVersions /\ MaxQueue \in Nat \ {0} /\ MaxRequests \in Nat \ {0}
    /\ MaxConversions \in Nat \ {0}
    /\ MaxExits \in Nat /\ MaxLosses \in Nat /\ MaxTroubles \in Nat

VARIABLES
    clips,           \* the cache's clips, flows and published versions
    flows,
    versions,
    clipRow,         \* the same in the database
    flowRow,
    versionRow,
    writes,          \* the writes on their way to the database
    storeOk,         \* no write has failed since the boot
    media,           \* where the two files of a clip are
    job,             \* what a request is doing with the files of a clip
    asks,            \* the answers waiting for a flush
    told,            \* the answers given
    phase,           \* of the process
    toScan,          \* the records the boot has yet to compare with the files
    lost,            \* clips whose files were removed from outside
    requests, exits, troubles

cache == <<clips, flows, versions>>
rows == <<clipRow, flowRow, versionRow>>
bounds == <<lost, exits, troubles>>
world == <<requests, bounds>>
vars == <<cache, rows, writes, storeOk, media, job, asks, told, phase, toScan, world>>

\* the places in the queue of the writes of one record
Ahead(kind, x) == {i \in DOMAIN writes : writes[i][1] = kind /\ writes[i][2] = x}

Files == {"original", "canonical"}
Places == {"absent", "staged", "stored", "orphaned"}
ClipRecord == [status : {"ready", "archived"}, files : BOOLEAN]
FlowRecord == [version : 0 .. MaxVersions, status : {"draft", "published"}, clip : Clips \cup {None}]
ASSUME NoneIsNothing ==
    None \notin ClipRecord \cup FlowRecord \cup [deleted : BOOLEAN, flow : FlowRecord]

Version == Flows \X (1 .. MaxVersions) \X (Clips \cup {None})
Fact == {<<"clip", c>> : c \in Clips} \cup {<<"clip deleted", c>> : c \in Clips}
        \cup {<<"flow deleted", f>> : f \in Flows} \cup {<<"published", v>> : v \in Version}
Write == {<<"clip", c, r>> : c \in Clips, r \in ClipRecord \cup {None}}
         \cup {<<"flow", f, r>> : f \in Flows, r \in FlowRecord \cup {None}}

TypeOK ==
    /\ clips \in [Clips -> ClipRecord \cup {None}] /\ clipRow \in [Clips -> ClipRecord \cup {None}]
    /\ flows \in [Flows -> FlowRecord \cup {None}]
    /\ flowRow \in [Flows -> [deleted : BOOLEAN, flow : FlowRecord] \cup {None}]
    /\ versions \subseteq Version /\ versionRow \subseteq Version
    /\ writes \in Seq(Write) /\ storeOk \in BOOLEAN
    /\ media \in [Clips -> [Files -> Places]]
    /\ job \in [Clips -> {"none", "staged", "converting", "converted", "half", "placed", "deleting", "unlinking"}]
    /\ asks \subseteq Fact /\ told \subseteq Fact
    /\ phase \in {"down", "scanning", "sweeping", "serving"} /\ toScan \subseteq Clips
    /\ lost \subseteq Clips /\ requests \in 0 .. MaxRequests /\ exits \in 0 .. MaxExits /\ troubles \in 0 .. MaxTroubles

NoFiles == [h \in Files |-> "absent"]
DemoRecord == [status |-> "ready", files |-> FALSE]
Seed == [version |-> DemoVersion, status |-> "published", clip |-> DemoClip]

Init ==
    /\ clips = [c \in Clips |-> None] /\ clipRow = clips
    /\ flows = [f \in Flows |-> None] /\ flowRow = flows
    /\ versions = {} /\ versionRow = {}
    /\ writes = <<>> /\ storeOk = TRUE
    /\ media = [c \in Clips |-> NoFiles] /\ job = [c \in Clips |-> "none"]
    /\ asks = {} /\ told = {} /\ phase = "down" /\ toScan = {}
    /\ lost = {} /\ requests = 0 /\ exits = 0 /\ troubles = 0

(***************************************************************************)
(* The store.  A request is refused once a write has failed.               *)
(***************************************************************************)
Request == phase = "serving" /\ requests < MaxRequests /\ requests' = requests + 1
Writable == Request /\ storeOk /\ Len(writes) < MaxQueue

SaveClip(c, r) ==
    /\ clips' = [clips EXCEPT ![c] = r]
    /\ writes' = Append(writes, <<"clip", c, r>>)

\* a publication is refused when its version exists
SaveFlow(f, r) ==
    /\ r.status = "published" => ~ \E c \in Clips \cup {None} : <<f, r.version, c>> \in versions
    /\ flows' = [flows EXCEPT ![f] = r]
    /\ versions' = IF r.status = "published" THEN versions \cup {<<f, r.version, r.clip>>} ELSE versions
    /\ writes' = Append(writes, <<"flow", f, r>>)

\* a flow and the version it publishes are one transaction; a deletion only
\* marks the flow, a later save would take the mark away
Written(w) ==
    IF w[1] = "clip"
    THEN /\ clipRow' = [clipRow EXCEPT ![w[2]] = w[3]]
         /\ UNCHANGED <<flowRow, versionRow>>
    ELSE /\ flowRow' = [flowRow EXCEPT ![w[2]] =
               IF w[3] = None THEN [deleted |-> TRUE, flow |-> @.flow]
               ELSE [deleted |-> FALSE, flow |-> w[3]]]
         /\ versionRow' = IF w[3] # None /\ w[3].status = "published"
                          THEN versionRow \cup {<<w[2], w[3].version, w[3].clip>>} ELSE versionRow
         /\ UNCHANGED clipRow

Commit ==
    /\ phase # "down" /\ storeOk /\ writes # <<>>
    /\ Written(Head(writes))
    /\ writes' = Tail(writes)
    /\ UNCHANGED <<cache, storeOk, media, job, asks, told, phase, toScan, world>>

\* a write fails, or is committed and its answer lost, which the process cannot
\* tell from it; those behind it are never tried
WriteFails ==
    /\ phase # "down" /\ storeOk /\ writes # <<>> /\ troubles < MaxTroubles
    /\ UNCHANGED rows \/ Written(Head(writes))
    /\ storeOk' = FALSE /\ writes' = <<>> /\ troubles' = troubles + 1
    /\ UNCHANGED <<requests, cache, media, job, asks, told, phase, toScan, lost, exits>>

Flushed == phase # "down" /\ storeOk /\ writes = <<>>

\* flush returns to a waiting handler, which answers; after a failure it
\* throws and the operator is told of an error
Respond(a) ==
    /\ a \in asks /\ Flushed
    /\ asks' = asks \ {a} /\ told' = told \cup {a}
    /\ UNCHANGED <<cache, rows, writes, storeOk, media, job, phase, toScan, world>>

RespondFailed(a) ==
    /\ a \in asks /\ ~ storeOk
    /\ asks' = asks \ {a}
    /\ UNCHANGED <<cache, rows, writes, storeOk, media, job, told, phase, toScan, world>>

(***************************************************************************)
(* Flows.                                                                  *)
(***************************************************************************)
\* the identifier is random: no record has had it, nor one on its way
NewFlowId(f) == flows[f] = None /\ flowRow[f] = None /\ Ahead("flow", f) = {}

EmptyDraft == [version |-> 0, status |-> "draft", clip |-> None]

CreateDraft(f) ==
    /\ Writable /\ NewFlowId(f)
    /\ SaveFlow(f, EmptyDraft)
    /\ UNCHANGED <<rows, storeOk, media, job, asks, told, phase, toScan, bounds>> /\ UNCHANGED clips

\* an edit is a draft of the version last published, whatever the request says
SavedAs(f, c) == [version |-> flows[f].version, status |-> "draft", clip |-> c]

EditFlow(f, c) ==
    /\ Writable /\ flows[f] # None
    /\ SaveFlow(f, SavedAs(f, c))
    /\ UNCHANGED <<rows, storeOk, media, job, asks, told, phase, toScan, bounds>> /\ UNCHANGED clips

Playable(c) == c # None => clips[c] # None /\ clips[c].status = "ready"

PublishFlow(f) ==
    /\ Writable /\ flows[f] # None
    /\ Playable(flows[f].clip) /\ flows[f].version < MaxVersions
    /\ SaveFlow(f, [flows[f] EXCEPT !.version = @ + 1, !.status = "published"])
    /\ asks' = asks \cup {<<"published", <<f, flows[f].version + 1, flows[f].clip>>>>}
    /\ UNCHANGED <<rows, storeOk, media, job, told, phase, toScan, bounds>> /\ UNCHANGED clips

\* the versions of a deleted flow stay
DropFlow(f) ==
    /\ flows' = [flows EXCEPT ![f] = None]
    /\ writes' = Append(writes, <<"flow", f, None>>)

DeleteFlow(f) ==
    /\ Writable /\ flows[f] # None
    /\ DropFlow(f)
    /\ asks' = asks \cup {<<"flow deleted", f>>}
    /\ UNCHANGED <<rows, storeOk, media, job, told, phase, toScan, bounds>> /\ UNCHANGED <<clips, versions>>

(***************************************************************************)
(* Uploads.  The file is received into a staging directory, converted      *)
(* there, and both files are renamed into the library before the record    *)
(* that names them is created.                                             *)
(***************************************************************************)
NewClipId(c) ==
    /\ clips[c] = None /\ clipRow[c] = None /\ media[c] = NoFiles /\ job[c] = "none"
    /\ c \notin DemoClips
    /\ {<<"clip", c>>, <<"clip deleted", c>>} \cap (asks \cup told) = {}

\* a clip described without audio
CreateClip(c) ==
    /\ Writable /\ NewClipId(c)
    /\ SaveClip(c, DemoRecord)
    /\ asks' = asks \cup {<<"clip", c>>}
    /\ UNCHANGED <<rows, storeOk, media, job, told, phase, toScan, bounds>> /\ UNCHANGED <<flows, versions>>

StageUpload(c) ==
    /\ Request /\ NewClipId(c)
    /\ media' = [media EXCEPT ![c].original = "staged"] /\ job' = [job EXCEPT ![c] = "staged"]
    /\ UNCHANGED <<cache, rows, writes, storeOk, asks, told, phase, toScan, bounds>>

Converting == {c \in Clips : job[c] \in {"converting", "converted", "half"}}

StartConversion(c) ==
    /\ job[c] = "staged" /\ Cardinality(Converting) < MaxConversions
    /\ job' = [job EXCEPT ![c] = "converting"]
    /\ UNCHANGED <<cache, rows, writes, storeOk, media, asks, told, phase, toScan, world>>

Converted(c) ==
    /\ job[c] = "converting"
    /\ media' = [media EXCEPT ![c].canonical = "staged"] /\ job' = [job EXCEPT ![c] = "converted"]
    /\ UNCHANGED <<cache, rows, writes, storeOk, asks, told, phase, toScan, world>>

MoveOriginal(c) ==
    /\ job[c] = "converted"
    /\ media' = [media EXCEPT ![c].original = "stored"] /\ job' = [job EXCEPT ![c] = "half"]
    /\ UNCHANGED <<cache, rows, writes, storeOk, asks, told, phase, toScan, world>>

MoveCanonical(c) ==
    /\ job[c] = "half"
    /\ media' = [media EXCEPT ![c].canonical = "stored"] /\ job' = [job EXCEPT ![c] = "placed"]
    /\ UNCHANGED <<cache, rows, writes, storeOk, asks, told, phase, toScan, world>>

Abandoned(c) ==
    /\ media' = [media EXCEPT ![c] = NoFiles] /\ job' = [job EXCEPT ![c] = "none"]
    /\ UNCHANGED <<cache, rows, writes, storeOk, asks, told, phase, toScan, world>>

\* a form without a name, a conversion too many, or audio that is not what its
\* name says, too long, or cannot be decoded: what was staged is taken away
RejectUpload(c) == job[c] \in {"staged", "converting"} /\ Abandoned(c)

\* a rename fails: so is what was already moved
AbandonUpload(c) == job[c] \in {"converted", "half"} /\ Abandoned(c)

\* with the store failed the record is refused and the files stay where they are
UploadedRecord == [status |-> "ready", files |-> TRUE]

CreateUploaded(c) ==
    /\ job[c] = "placed"
    /\ job' = [job EXCEPT ![c] = "none"]
    /\ IF storeOk
       THEN SaveClip(c, UploadedRecord) /\ asks' = asks \cup {<<"clip", c>>}
       ELSE UNCHANGED <<clips, writes, asks>>
    /\ UNCHANGED <<rows, storeOk, media, told, phase, toScan, world>> /\ UNCHANGED <<flows, versions>>

(***************************************************************************)
(* Deletion of a clip: an archive mark when a published version plays it,  *)
(* else the record first and its files after the flush.                    *)
(***************************************************************************)
\* mutant: the graphs in use are asked instead of their published versions
ReferencedByFlow(c) == \E f \in Flows : flows[f] # None /\ flows[f].clip = c

ReferencedByVersion(c) == \E v \in versions : v[3] = c

ArchiveClip(c) ==
    /\ Writable /\ clips[c] # None /\ ReferencedByVersion(c)
    /\ SaveClip(c, [clips[c] EXCEPT !.status = "archived"])
    /\ UNCHANGED <<rows, storeOk, media, job, asks, told, phase, toScan, bounds>> /\ UNCHANGED <<flows, versions>>

DeleteClip(c) ==
    /\ Writable /\ clips[c] # None /\ ~ ReferencedByVersion(c)
    /\ SaveClip(c, None)
    /\ job' = [job EXCEPT ![c] = "deleting"]
    /\ asks' = asks \ {<<"clip", c>>} /\ told' = told \ {<<"clip", c>>}
    /\ UNCHANGED <<rows, storeOk, media, phase, toScan, bounds>> /\ UNCHANGED <<flows, versions>>

\* mutant: the files go without waiting for the flush
UnlinksAtOnce(c) ==
    /\ job[c] = "deleting" /\ job' = [job EXCEPT ![c] = "unlinking"]
    /\ UNCHANGED <<cache, rows, writes, storeOk, media, asks, told, phase, toScan, world>>

\* flush returned, or it threw and the files are left alone
DeletionFlushed(c) ==
    /\ job[c] = "deleting"
    /\ \/ Flushed /\ job' = [job EXCEPT ![c] = "unlinking"]
       \/ ~ storeOk /\ job' = [job EXCEPT ![c] = "none"]
    /\ UNCHANGED <<cache, rows, writes, storeOk, media, asks, told, phase, toScan, world>>

Unlink(c, h) ==
    /\ job[c] = "unlinking" /\ media[c][h] = "stored"
    /\ media' = [media EXCEPT ![c][h] = "absent"]
    /\ UNCHANGED <<cache, rows, writes, storeOk, job, asks, told, phase, toScan, world>>

\* every unlink is over; those that failed leave their file to the next boot
ClipDeleted(c) ==
    /\ job[c] = "unlinking"
    /\ job' = [job EXCEPT ![c] = "none"]
    /\ told' = IF media[c] = NoFiles THEN told \cup {<<"clip deleted", c>>} ELSE told
    /\ UNCHANGED <<cache, rows, writes, storeOk, media, asks, phase, toScan, world>>

(***************************************************************************)
(* The process dies, and boots: rows are loaded, an empty database gets    *)
(* the demonstration data, records are compared with the files, and files  *)
(* no record names are set aside before the first request is taken.        *)
(***************************************************************************)
Exit ==
    /\ phase # "down" /\ (storeOk => exits < MaxExits)
    /\ phase' = "down" /\ exits' = IF storeOk THEN exits + 1 ELSE exits
    /\ clips' = [c \in Clips |-> None] /\ flows' = [f \in Flows |-> None] /\ versions' = {}
    /\ writes' = <<>> /\ storeOk' = TRUE
    /\ job' = [c \in Clips |-> "none"] /\ asks' = {} /\ toScan' = {}
    /\ UNCHANGED <<requests, rows, media, told, lost, troubles>>

\* while the process is down a clip volume may be restored without a file
LoseFile(c, h) ==
    /\ phase = "down" /\ media[c][h] = "stored" /\ Cardinality(lost) < MaxLosses
    /\ media' = [media EXCEPT ![c][h] = "absent"] /\ lost' = lost \cup {c}
    /\ UNCHANGED <<requests, cache, rows, writes, storeOk, job, asks, told, phase, toScan, exits, troubles>>

\* mutant: a database without a live flow is taken for an empty one
NothingLive == \A f \in Flows : flowRow[f] # None => flowRow[f].deleted

EmptyDatabase ==
    /\ \A f \in Flows : flowRow[f] = None
    /\ versionRow = {}
    /\ \A c \in Clips : clipRow[c] = None

SeededClips == [c \in Clips |-> IF c \in DemoClips THEN DemoRecord ELSE clipRow[c]]
SeededFlows == [flowRow EXCEPT ![DemoFlow] = [deleted |-> FALSE, flow |-> Seed]]

\* the library in memory is that of the rows, without the flows that are deleted
Loads ==
    /\ clips' = clipRow' /\ versions' = versionRow'
    /\ flows' = [f \in Flows |-> IF flowRow'[f] = None \/ flowRow'[f].deleted THEN None ELSE flowRow'[f].flow]

Connect ==
    /\ phase = "down"
    /\ IF EmptyDatabase
       THEN /\ clipRow' = SeededClips /\ flowRow' = SeededFlows
            /\ versionRow' = versionRow \cup {<<DemoFlow, DemoVersion, DemoClip>>}
       ELSE UNCHANGED rows
    /\ Loads
    /\ phase' = "scanning" /\ toScan' = {c \in Clips : clips'[c] # None}
    /\ UNCHANGED <<writes, storeOk, media, job, asks, told, world>>

FileMissing(c) == clips[c].files /\ \E h \in Files : media[c][h] # "stored"

ScanRecord(c) ==
    /\ phase = "scanning" /\ c \in toScan /\ storeOk
    /\ toScan' = toScan \ {c}
    /\ IF FileMissing(c) /\ clips[c].status # "archived"
       THEN SaveClip(c, [clips[c] EXCEPT !.status = "archived"])
       ELSE UNCHANGED <<clips, writes>>
    /\ UNCHANGED <<rows, storeOk, media, job, asks, told, phase, world>> /\ UNCHANGED <<flows, versions>>

ScanOver ==
    /\ phase = "scanning" /\ toScan = {} /\ Flushed
    /\ phase' = "sweeping"
    /\ UNCHANGED <<cache, rows, writes, storeOk, media, job, asks, told, toScan, world>>

\* mutant: the staging directory is not looked into
UnclaimedInLibrary(c, h) == media[c][h] = "stored" /\ (clips[c] # None => ~ clips[c].files)

Unclaimed(c, h) ==
    \/ media[c][h] = "staged"
    \/ media[c][h] = "stored" /\ (clips[c] # None => ~ clips[c].files)

SetAside(c, h) ==
    /\ phase = "sweeping" /\ Unclaimed(c, h)
    /\ media' = [media EXCEPT ![c][h] = "orphaned"]
    /\ UNCHANGED <<cache, rows, writes, storeOk, job, asks, told, phase, toScan, world>>

Serve ==
    /\ phase = "sweeping" /\ \A c \in Clips, h \in Files : ~ Unclaimed(c, h)
    /\ phase' = "serving"
    /\ UNCHANGED <<cache, rows, writes, storeOk, media, job, asks, told, toScan, world>>

(***************************************************************************)
(* The specification.                                                      *)
(***************************************************************************)
\* what the process does of itself with the files of a clip; each ends
UploadStep(c) ==
    StartConversion(c) \/ Converted(c) \/ MoveOriginal(c) \/ MoveCanonical(c) \/ RejectUpload(c) \/ AbandonUpload(c) \/ CreateUploaded(c)

BootStep ==
    \/ Connect \/ ScanOver \/ Serve
    \/ \E c \in Clips : ScanRecord(c)
    \/ \E c \in Clips, h \in Files : SetAside(c, h)

\* a boot that meets a failed store ends the process, and it is started again
BootRefused == phase # "serving" /\ ~ storeOk /\ Exit

Next ==
    \/ Commit \/ WriteFails \/ Exit \/ BootStep
    \/ \E a \in asks : Respond(a) \/ RespondFailed(a)
    \/ \E f \in Flows : CreateDraft(f) \/ PublishFlow(f) \/ DeleteFlow(f)
    \/ \E f \in Flows, c \in Clips \cup {None} : EditFlow(f, c)
    \/ \E c \in Clips :
        \/ CreateClip(c) \/ StageUpload(c) \/ UploadStep(c)
        \/ ArchiveClip(c) \/ DeleteClip(c) \/ DeletionFlushed(c) \/ ClipDeleted(c)
    \/ \E c \in Clips, h \in Files : Unlink(c, h) \/ LoseFile(c, h)

Spec == Init /\ [][Next]_vars

\* the process gets on with its own work and is restarted when it dies
FairSpec ==
    /\ Spec
    /\ WF_vars(Commit) /\ WF_vars(BootStep) /\ WF_vars(BootRefused)
    /\ \A c \in Clips : WF_vars(UploadStep(c))

(***************************************************************************)
(* Properties.                                                             *)
(***************************************************************************)

\* The record of an uploaded clip never outlives its audio: whatever moment
\* the process dies at, a row that names files finds both of them in the
\* library, unless they were taken away from outside.  An upload moves its
\* files before the record is made, a deletion waits for the flush before it
\* unlinks (app.ts upload and delete, uploads.ts, clip-reconciliation.ts).
\* And a clip the operator can choose can be heard: while requests are served,
\* a ready clip that names files has both, also when some were lost while the
\* process was down.
Whole(c) == \A h \in Files : media[c][h] = "stored"
RecordedBytesExist ==
    /\ \A c \in Clips \ lost : clipRow[c] # None /\ clipRow[c].files => Whole(c)
    /\ phase = "serving" =>
        \A c \in Clips : clips[c] # None /\ clips[c].files /\ clips[c].status = "ready" => Whole(c)

\* A published version stands.  It keeps the clip it plays, also when its flow
\* is deleted or edited afterwards and whatever was written last before a
\* crash: a call or a report may still need it (store.ts deleteClip).  Its
\* number is taken once, and its flow carries the newest through every edit,
\* crash, lost answer and restart: the versions of a flow are those from the
\* first it was published as up to the one it carries, none left out, so that
\* no later publication meets a version that exists and is refused (app.ts PUT
\* and publish, store.ts saveFlow).  The first is 1, and for the demonstration
\* flow the version it was seeded at.
KeepsItsClip(v) ==
    v[3] # None => IF v \in versionRow THEN clipRow[v[3]] # None ELSE clips[v[3]] # None
FirstVersion(f) == IF f = DemoFlow THEN DemoVersion ELSE 1
NumbersAreTaken(f) ==
    flowRow[f] # None =>
        \A n \in 1 .. MaxVersions :
            (\E c \in Clips \cup {None} : <<f, n, c>> \in versionRow)
                <=> FirstVersion(f) <= n /\ n <= flowRow[f].flow.version
VersionsStand ==
    /\ \A v \in versionRow \cup versions : KeepsItsClip(v)
    /\ \A f \in Flows : NumbersAreTaken(f)
    /\ \A v, w \in versionRow : v[1] = w[1] /\ v[2] = w[2] => v = w

\* What the operator was told is on record and stays so, over crashes and
\* failed writes: a published version as it was published, a created clip
\* until its deletion is asked for, a deletion for good, even of the demonstration data
\* (flush before each response; the seeding guard of prisma-store.ts).
AcknowledgedIsDurable ==
    \A a \in told :
        /\ a[1] = "published" => a[2] \in versionRow
        /\ a[1] = "flow deleted" => flowRow[a[2]].deleted
        /\ a[1] = "clip" => clipRow[a[2]] # None
        /\ a[1] = "clip deleted" => clipRow[a[2]] = None

\* Received bytes do not stay in the staging directory: the upload finishes
\* or is abandoned, and one cut short by a crash is set aside by the next
\* boot (uploads.ts finally, clip-reconciliation.ts).
UploadsSettle ==
    \A c \in Clips : []<>(\A h \in Files : media[c][h] # "staged")
=============================================================================
