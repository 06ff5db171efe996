------------------------------ MODULE CallBook ------------------------------
(***************************************************************************)
(* The call records of the store as two writers share them: the inbound    *)
(* tracker (server/inbound-callbacks.ts) and the orchestrator              *)
(* (server/orchestrator.ts), over Postgres' queue of writes, with what     *)
(* FreeSWITCH records of each channel.                                     *)
(*                                                                         *)
(* A callback is a call that FreeSWITCH answers by itself, a dial is one   *)
(* the orchestrator places; dialing, permissions and the conversation are  *)
(* the business of other modules.  An action is the code between two       *)
(* awaits.                                                                 *)
(***************************************************************************)
EXTENDS FiniteSets, Integers, Sequences

CONSTANTS
  Callbacks, Dials,   \* the calls of either kind
  Ceiling,            \* maxConcurrentCalls
  MaxLosses,          \* bound on losses of the connection
  MaxExits,           \* bound on exits of the process
  MaxStops,           \* bound on stops by operators
  MaxTroubles,        \* bound on the three together
  None

Calls == Callbacks \union Dials

ASSUME CallAssumption == IsFiniteSet(Calls) /\ Callbacks \intersect Dials = {}
ASSUME CeilingAssumption == Ceiling \in Nat \ {0}
ASSUME BoundAssumption == MaxLosses \in Nat /\ MaxExits \in Nat /\ MaxStops \in Nat /\ MaxTroubles \in Nat

VARIABLES
  call,        \* the records in memory: status, and whether a recording is named
  row, writes, \* the records in Postgres; the transactions waiting, in order
  up, booted,  \* the process runs; its first reconciliation is over
  serving,     \* and so is its first purge: the API listens
  conn,        \* connected to FreeSWITCH
  channel,     \* per call: "idle", "up", "over"
  tape,        \* per call, its recorder: "never", "on", "off"
  disk,        \* per call, its file: "absent", "fresh", "stale"
  aged,        \* calls whose record is older than the retention period
  expired,     \* calls whose recording, named or not, would be past its expiry
  inbox,       \* events the tracker has still to receive
  tracker,     \* what the tracker is at, and whether it refuses the call
  refused,     \* callbacks found above the ceiling (history)
  answering,   \* per dial, where answer() is
  terminations,\* calls with a hangup under way
  rec, reconciling,                \* reconcile(): its step; whether dialing waits for it
  todo, awaits,                    \* the calls it has listed, the hangup it waits for
  losses, exits, stops             \* how often, against the bounds

world == <<channel, tape, disk, aged, expired>>
records == <<call, row, writes>>
process == <<up, booted, serving, exits>>
inbound == <<inbox, tracker, refused>>
control == <<answering, terminations>>
reconciler == <<rec, todo, awaits, reconciling>>
link == <<conn, losses>>
bookVars == <<records, world, process, inbound, control, reconciler, link, stops>>

Record == [status : {"none", "active", "ended", "failed"}, file : BOOLEAN]
Listed == [is : Record, remote : BOOLEAN]   \* a copy; whether FreeSWITCH has a channel of it
NoRecord == [status |-> "none", file |-> FALSE]
Idle == [at |-> "idle", call |-> None, refuse |-> FALSE]
Active == {c \in Calls : call[c].status = "active"}
Terminal(c) == call[c].status \in {"ended", "failed"}

BookTypeOK ==
  /\ call \in [Calls -> Record] /\ row \in [Calls -> Record]
  /\ writes \in Seq([call : Calls, is : Record])
  /\ up \in BOOLEAN /\ booted \in BOOLEAN /\ serving \in BOOLEAN /\ conn \in BOOLEAN
  /\ channel \in [Calls -> {"idle", "up", "over"}]
  /\ tape \in [Calls -> {"never", "on", "off"}]
  /\ disk \in [Calls -> {"absent", "fresh", "stale"}]
  /\ aged \in SUBSET Calls /\ expired \in SUBSET Calls
  /\ inbox \in Seq([name : {"answer", "hangup"}, call : Callbacks])
  /\ tracker \in [at : {"idle", "saving", "killing"}, call : Callbacks \union {None}, refuse : BOOLEAN]
  /\ refused \in SUBSET Callbacks
  /\ answering \in [Dials -> {"no", "starting", "naming"}]
  /\ terminations \in SUBSET Calls
  /\ rec \in {"none", "asked", "settling"} /\ reconciling \in BOOLEAN
  /\ DOMAIN todo \subseteq Calls /\ \A c \in DOMAIN todo : todo[c] \in Listed
  /\ awaits \in Calls \union {None}
  /\ losses \in 0..MaxLosses /\ exits \in 0..MaxExits /\ stops \in 0..MaxStops

BookInit ==
  /\ call = [c \in Calls |-> NoRecord] /\ row = call /\ writes = <<>>
  /\ up = TRUE /\ booted = TRUE /\ serving = TRUE /\ conn = TRUE
  /\ channel = [c \in Calls |-> "idle"] /\ tape = [c \in Calls |-> "never"]
  /\ disk = [c \in Calls |-> "absent"] /\ aged = {} /\ expired = {}
  /\ inbox = <<>> /\ tracker = Idle /\ refused = {}
  /\ answering = [d \in Dials |-> "no"] /\ terminations = {}
  /\ rec = "none" /\ todo = << >> /\ awaits = None /\ reconciling = FALSE
  /\ losses = 0 /\ exits = 0 /\ stops = 0

MayTrouble == losses + exits + stops < MaxTroubles

-----------------------------------------------------------------------------
(* The store: a save changes the cache at once and queues a transaction;    *)
(* flush() returns when none is left.                                       *)

Save(c, r) ==
  /\ call' = [call EXCEPT ![c] = r]
  /\ writes' = Append(writes, [call |-> c, is |-> r])

Flushed == writes = <<>>

Commit ==
  /\ up /\ writes # <<>>
  /\ row' = [row EXCEPT ![Head(writes).call] = Head(writes).is]
  /\ writes' = Tail(writes)
  /\ UNCHANGED <<call, world, process, inbound, control, reconciler, link, stops>>

(* complete(): nothing when the record is over already.                      *)
Complete(c, status) ==
  IF c \in Active THEN Save(c, [call[c] EXCEPT !.status = status])
  ELSE UNCHANGED <<call, writes>>

(* The channel of c ends, and with it its recording; the event is heard on  *)
(* a connection only.                                                       *)
Ends(c) ==
  /\ channel' = [channel EXCEPT ![c] = "over"]
  /\ tape' = [tape EXCEPT ![c] = IF @ = "on" THEN "off" ELSE @]
  /\ inbox' = IF c \in Callbacks /\ channel[c] = "up" /\ conn /\ up
                THEN Append(inbox, [name |-> "hangup", call |-> c]) ELSE inbox
  /\ UNCHANGED <<disk, aged, expired>>

-----------------------------------------------------------------------------
(* The inbound tracker.  Its events are received one after the other.       *)

(* FreeSWITCH answers, and records a message or not.                        *)
CallIn(c) ==
  /\ channel[c] = "idle"
  /\ channel' = [channel EXCEPT ![c] = "up"]
  /\ \E message \in BOOLEAN :
       /\ tape' = [tape EXCEPT ![c] = IF message THEN "on" ELSE "never"]
       /\ disk' = [disk EXCEPT ![c] = IF message THEN "fresh" ELSE "absent"]
  /\ inbox' = IF conn /\ up THEN Append(inbox, [name |-> "answer", call |-> c]) ELSE inbox
  /\ UNCHANGED <<records, aged, expired, process, tracker, refused, control, reconciler, link, stops>>

Receives(name, c) ==
  /\ up /\ tracker.at = "idle"
  /\ inbox # <<>> /\ Head(inbox) = [name |-> name, call |-> c]
  /\ inbox' = Tail(inbox)

Created(c) == aged' = IF call[c].status = "none" THEN aged \ {c} ELSE aged

(* Fault of a mutant: one callback more than the lines.                     *)
AnswerOneTooMany(c) ==
  LET full == Cardinality(Active) > Ceiling IN
  /\ Receives("answer", c) /\ call[c].status = "none"
  /\ Save(c, [status |-> "active", file |-> FALSE])
  /\ tracker' = [at |-> "saving", call |-> c, refuse |-> full]
  /\ refused' = IF full THEN refused \union {c} ELSE refused
  /\ Created(c)
  /\ UNCHANGED <<row, channel, tape, disk, expired, process, control, reconciler, link, stops>>

(* The slots are counted before the callback takes its own; it takes it     *)
(* whatever the count.                                                      *)
ReceiveAnswer(c) ==
  LET full == Cardinality(Active) >= Ceiling IN
  /\ Receives("answer", c)
  /\ IF call[c].status # "none"
       THEN UNCHANGED <<call, writes, tracker, refused, aged>>
       ELSE /\ Save(c, [status |-> "active", file |-> FALSE])
            /\ tracker' = [at |-> "saving", call |-> c, refuse |-> full]
            /\ refused' = IF full THEN refused \union {c} ELSE refused
            /\ Created(c)
  /\ UNCHANGED <<row, channel, tape, disk, expired, process, control, reconciler, link, stops>>

(* What it recorded is attached when its file is there.                     *)
Taped(c) == tape[c] # "never"

(* A hangup ends the call; after an operator's stop it may still bring the  *)
(* recording.  It expires a period after the end.                           *)
ReceiveHangup(c) ==
  /\ Receives("hangup", c)
  /\ IF Terminal(c)
       THEN IF ~call[c].file /\ Taped(c)
              THEN /\ Save(c, [call[c] EXCEPT !.file = TRUE])
                   /\ tracker' = [at |-> "saving", call |-> c, refuse |-> FALSE]
              ELSE UNCHANGED <<call, writes, tracker>>
       ELSE /\ Save(c, [status |-> "ended", file |-> Taped(c)])
            /\ tracker' = [at |-> "saving", call |-> c, refuse |-> FALSE]
  /\ expired' = IF Terminal(c) THEN expired ELSE expired \ {c}
  /\ Created(c)
  /\ UNCHANGED <<row, channel, tape, disk, process, refused, control, reconciler, link, stops>>

ReceiveSaved ==
  /\ up /\ tracker.at = "saving" /\ Flushed
  /\ tracker' = IF tracker.refuse THEN [tracker EXCEPT !.at = "killing"] ELSE Idle
  /\ UNCHANGED <<records, world, process, inbox, refused, control, reconciler, link, stops>>

(* The kill was confirmed: the copy made when the call was answered is      *)
(* saved, whatever the record says by now.  A channel being torn down still *)
(* confirms a kill.                                                         *)
RefusalConfirmed ==
  LET c == tracker.call IN
  /\ up /\ conn /\ tracker.at = "killing"
  /\ Ends(c)
  /\ Save(c, [status |-> "failed", file |-> FALSE])
  /\ tracker' = [at |-> "saving", call |-> c, refuse |-> FALSE]
  /\ UNCHANGED <<row, process, refused, control, reconciler, link, stops>>

(* The gateway refuses, knows the channel no more, or the connection was    *)
(* lost: the slot is kept.                                                  *)
RefusalFails ==
  /\ up /\ tracker.at = "killing"
  /\ tracker' = Idle
  /\ UNCHANGED <<records, world, process, inbox, refused, control, reconciler, link, stops>>

-----------------------------------------------------------------------------
(* The orchestrator's calls, and the recordings it starts.                  *)

Dial(d) ==
  /\ up /\ serving /\ ~reconciling /\ call[d].status = "none"
  /\ Cardinality(Active) < Ceiling
  /\ Save(d, [status |-> "active", file |-> FALSE])
  /\ Created(d)
  /\ UNCHANGED <<row, channel, tape, disk, expired, process, inbound, control, reconciler, link, stops>>

(* The callee answers a dial that is on record; answer() starts unless the  *)
(* event is lost or the call is being ended.                                *)
Answered(d) ==
  /\ row[d].status = "active" /\ call[d].status = "active" /\ channel[d] = "idle"
  /\ channel' = [channel EXCEPT ![d] = "up"]
  /\ answering' = IF up /\ conn /\ ~reconciling /\ d \notin terminations
                    THEN [answering EXCEPT ![d] = "starting"] ELSE answering
  /\ UNCHANGED <<records, tape, disk, aged, expired, process, inbound, terminations, reconciler, link, stops>>

(* No answer, or the originate failed.                                       *)
NotAnswered(d) ==
  /\ up /\ d \in Active /\ channel[d] = "idle"
  /\ Complete(d, "failed")
  /\ UNCHANGED <<row, world, process, inbound, control, reconciler, link, stops>>

(* Fault of a mutant: no second look at the call after the awaits.          *)
NamesAnyway(d) ==
  /\ up /\ answering[d] = "starting"
  /\ Save(d, [status |-> "active", file |-> TRUE])
  /\ answering' = [answering EXCEPT ![d] = "naming"]
  /\ UNCHANGED <<row, world, process, inbound, terminations, reconciler, link, stops>>

(* After the detection and the audio stream were started: the recording is  *)
(* named before it begins, and its expiry is set.                           *)
NameRecording(d) ==
  /\ up /\ answering[d] = "starting"
  /\ IF d \in Active \ terminations
       THEN /\ Save(d, [status |-> "active", file |-> TRUE]) /\ expired' = expired \ {d}
            /\ answering' = [answering EXCEPT ![d] = "naming"]
       ELSE /\ answering' = [answering EXCEPT ![d] = "no"]
            /\ UNCHANGED <<call, writes, expired>>
  /\ UNCHANGED <<row, channel, tape, disk, aged, process, inbound, terminations, reconciler, link, stops>>

(* The recording starts on a live channel; when it cannot, the call fails.  *)
StartRecording(d) ==
  /\ up /\ answering[d] = "naming" /\ Flushed
  /\ answering' = [answering EXCEPT ![d] = "no"]
  /\ IF conn /\ channel[d] = "up"
       THEN /\ tape' = [tape EXCEPT ![d] = "on"]
            /\ disk' = [disk EXCEPT ![d] = "fresh"]
            /\ UNCHANGED terminations
       ELSE /\ terminations' = IF d \in Active THEN terminations \union {d} ELSE terminations
            /\ UNCHANGED <<tape, disk>>
  /\ UNCHANGED <<records, channel, aged, expired, process, inbound, reconciler, link, stops>>

Stop(c) ==
  /\ serving /\ stops < MaxStops /\ MayTrouble /\ c \in Active \ terminations
  /\ terminations' = terminations \union {c} /\ stops' = stops + 1
  /\ UNCHANGED <<records, world, process, inbound, answering, reconciler, link>>

(* reconcile() goes on to the next call when the hangup it waits for is     *)
(* over.                                                                    *)
Without(c) == [b \in DOMAIN todo \ {c} |-> todo[b]]
RecGoesOn(c) ==
  /\ awaits' = IF c = awaits THEN None ELSE awaits
  /\ todo' = IF c = awaits THEN Without(c) ELSE todo

HangupConfirmed(c) ==
  /\ up /\ conn /\ c \in terminations
  /\ terminations' = terminations \ {c}
  /\ Ends(c) /\ Complete(c, "ended") /\ RecGoesOn(c)
  /\ UNCHANGED <<row, process, tracker, refused, answering, rec, reconciling, link, stops>>

(* Unless the call is over by now the slot is kept, and a reconciliation    *)
(* that waits for this hangup fails.                                        *)
HangupFails(c) ==
  /\ up /\ c \in terminations
  /\ terminations' = terminations \ {c}
  /\ IF c = awaits /\ c \in Active
       THEN rec' = "none" /\ todo' = << >> /\ awaits' = None
       ELSE RecGoesOn(c) /\ UNCHANGED rec
  /\ UNCHANGED <<records, world, process, inbound, answering, reconciling, link, stops>>

(* A channel ends by itself; the orchestrator completes a dial from the     *)
(* event, and leaves a callback to the tracker.                             *)
HangUp(c) ==
  /\ channel[c] = "up"
  /\ Ends(c)
  /\ IF c \in Dials /\ up /\ conn THEN Complete(c, "ended") ELSE UNCHANGED <<call, writes>>
  /\ UNCHANGED <<row, process, tracker, refused, control, reconciler, link, stops>>

-----------------------------------------------------------------------------
(* The connection, and reconcile(), which closes what it finds active.      *)

Drop ==
  /\ conn /\ losses < MaxLosses /\ MayTrouble
  /\ conn' = FALSE /\ losses' = losses + 1
  /\ reconciling' = (reconciling \/ (up /\ booted))
  /\ UNCHANGED <<records, world, process, inbound, control, rec, todo, awaits, stops>>

Reconnect ==
  /\ ~conn /\ conn' = TRUE
  /\ rec' = IF up /\ booted /\ rec = "none" THEN "asked" ELSE rec
  /\ reconciling' = (reconciling \/ (up /\ booted))
  /\ UNCHANGED <<records, world, process, inbound, control, todo, awaits, losses, stops>>

RecListed ==
  /\ up /\ rec = "asked" /\ conn
  /\ rec' = "settling" /\ todo' = [c \in Active |-> [is |-> call[c], remote |-> channel[c] = "up"]]
  /\ UNCHANGED <<records, world, process, inbound, control, awaits, reconciling, link, stops>>

RecFails ==
  /\ up /\ booted /\ rec = "asked" /\ ~conn
  /\ rec' = "none"
  /\ UNCHANGED <<records, world, process, inbound, control, todo, awaits, reconciling, link, stops>>

(* One call after the other.  With a channel, finish() is awaited: it joins *)
(* the hangup under way.  Without one, the copy that was listed is          *)
(* completed, whatever the record says by now.                              *)
RecHangsUp(c) ==
  /\ up /\ rec = "settling" /\ awaits = None /\ c \in DOMAIN todo \intersect Active /\ todo[c].remote
  /\ terminations' = terminations \union {c} /\ awaits' = c
  /\ UNCHANGED <<records, world, process, inbound, answering, rec, todo, reconciling, link, stops>>

RecSettles(c) ==
  /\ up /\ rec = "settling" /\ awaits = None /\ c \in DOMAIN todo
  /\ c \in Active => ~todo[c].remote
  /\ todo' = Without(c)
  /\ IF c \in Active THEN Save(c, [todo[c].is EXCEPT !.status = "failed"])
     ELSE UNCHANGED <<call, writes>>
  /\ UNCHANGED <<row, world, process, inbound, control, rec, awaits, reconciling, link, stops>>

RecDone ==
  /\ up /\ rec = "settling" /\ DOMAIN todo = {} /\ Flushed
  /\ rec' = "none" /\ reconciling' = FALSE /\ booted' = TRUE
  /\ UNCHANGED <<records, world, up, serving, exits, inbound, control, todo, awaits, link, stops>>

-----------------------------------------------------------------------------
(* A process that exits loses its events and its promises, and the cache    *)
(* falls back to the rows.                                                  *)
ProcessEnds ==
  /\ up' = FALSE /\ booted' = FALSE /\ serving' = FALSE
  /\ call' = row /\ writes' = <<>>
  /\ inbox' = <<>> /\ tracker' = Idle
  /\ answering' = [d \in Dials |-> "no"] /\ terminations' = {}
  /\ rec' = "none" /\ todo' = << >> /\ awaits' = None /\ reconciling' = TRUE

Exit ==
  /\ up /\ exits < MaxExits /\ MayTrouble
  /\ ProcessEnds /\ exits' = exits + 1
  /\ UNCHANGED <<row, world, refused, link, stops>>

(* Boot: the rows are loaded, the tracker attached, the calls reconciled.   *)
Restart ==
  /\ ~up /\ conn /\ up' = TRUE /\ rec' = "asked"
  /\ UNCHANGED <<records, world, booted, serving, exits, inbound, control>>
  /\ UNCHANGED <<todo, awaits, reconciling, link, stops>>

(* A boot whose reconciliation fails is given up.                           *)
BootFails ==
  /\ up /\ ~booted
  /\ rec = "none" \/ (rec = "asked" /\ ~conn)
  /\ ProcessEnds
  /\ UNCHANGED <<row, world, refused, exits, link, stops>>

ChannelEnds == \E c \in Calls : HangUp(c)

(* What the process does once it was called upon.                           *)
ApiStep ==
  \/ Commit \/ ReceiveSaved \/ RefusalConfirmed \/ RefusalFails
  \/ \E c \in Callbacks : ReceiveAnswer(c) \/ ReceiveHangup(c)
  \/ \E d \in Dials : NameRecording(d) \/ StartRecording(d)
  \/ \E c \in Calls : HangupConfirmed(c) \/ HangupFails(c) \/ RecHangsUp(c) \/ RecSettles(c)
  \/ RecListed \/ RecFails \/ RecDone \/ Restart \/ BootFails

BookNext ==
  \/ ApiStep \/ ChannelEnds
  \/ \E c \in Callbacks : CallIn(c)
  \/ \E d \in Dials : Dial(d) \/ Answered(d) \/ NotAnswered(d)
  \/ \E c \in Calls : Stop(c)
  \/ Drop \/ Reconnect \/ Exit
=============================================================================
