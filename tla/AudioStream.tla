---------------------------- MODULE AudioStream ----------------------------
(***************************************************************************)
(* One call's audio in the media worker (openAudio of worker.ts): frames   *)
(* arrive from the gateway from answer to hangup, while the connection to  *)
(* the speech provider is opened, replaced when a listen window asks for   *)
(* another endpointing, lost and opened again.  Frames that arrive during  *)
(* an opening wait in a bounded buffer; without a connection they are      *)
(* dropped.  Beside it the optional capture writes the same frames to a    *)
(* file (pcm-capture.ts).                                                  *)
(*                                                                         *)
(* A window is the endpointing it asks for.  How windows are opened, and   *)
(* how a reply travels to the API, is the subject of Conversation.         *)
(***************************************************************************)
EXTENDS SpeechTurns

CONSTANTS
    Tunings,        \* endpointings of the listen nodes
    Warmup,         \* that of the flow's first listen node, known at the upgrade
    None,           \* no window, no connection
    MaxFrames,      \* frames of the longest call the worker accepts
    BufferSize,     \* frames kept while a connection opens
    MaxConnections, \* bound: connections asked for
    MaxWindows      \* bound: windows pushed to the worker

ASSUME StreamAssumption ==
    /\ Warmup \in Tunings /\ None \notin Tunings \cup (Nat \ {0})
    /\ MaxFrames \in Nat \ {0} /\ BufferSize \in Nat \ {0}
    /\ MaxConnections \in Nat \ {0} /\ MaxWindows \in Nat

VARIABLES
    closed,         \* the call's audio is over
    arrived,        \* frames accepted so far
    askedAt,        \* those accepted before the newest connection was asked for
    buffered,       \* those that wait for the connection to open
    asked,          \* connections asked for so far: the newest one's number
    socket,         \* of each connection
    opening,        \* the attempt under way
    owner,          \* the attempt whose callbacks may act
    stream,         \* the connection in use
    openedWith,     \* the endpointing it was asked for
    sent,           \* the frames each connection was given
    window,         \* the open listen window
    pushes,         \* windows pushed so far
    \* the capture
    taping,         \* "preparing" its directory, "writing", "failed" or off
    ending,         \* it was told that the audio is over
    listed,         \* the frames in its list
    filed,          \* those in the file
    sidecar         \* the list is on disk

audio == <<closed, arrived, buffered>>
connections == <<asked, askedAt, socket, opening, owner, stream, openedWith, sent>>
tape == <<taping, ending, listed, filed, sidecar>>
vars == <<audio, connections, window, pushes, tape, turns, engine>>

Frames == 1 .. MaxFrames
Connections == 1 .. MaxConnections

TypeOK ==
    /\ TurnsTypeOK
    /\ closed \in BOOLEAN /\ arrived \in 0 .. MaxFrames /\ askedAt \in 0 .. MaxFrames
    /\ buffered \in Seq(Frames) /\ Len(buffered) <= BufferSize
    /\ asked \in 0 .. MaxConnections
    /\ socket \in [Connections -> {"none", "connecting", "open", "closed"}]
    /\ {opening, owner, stream} \subseteq Connections \cup {None}
    /\ openedWith \in Tunings \cup {None} /\ window \in Tunings \cup {None}
    /\ sent \in [Connections -> Seq(Frames)]
    /\ pushes \in 0 .. MaxWindows
    /\ taping \in {"off", "preparing", "writing", "failed"}
    /\ ending \in BOOLEAN /\ sidecar \in BOOLEAN
    /\ listed \in 0 .. MaxFrames /\ filed \in 0 .. MaxFrames

(***************************************************************************)
(* The provider connection.                                                *)
(***************************************************************************)

Aborted == {opening, stream}
\* mutant: frames that waited for a lost connection are kept for the next one
BufferKept == UNCHANGED buffered

BufferEmptied == buffered' = <<>>

\* dropProvider: whatever was opened or under way is aborted, and forgotten
Dropped ==
    /\ opening' = None /\ owner' = None /\ stream' = None /\ openedWith' = None
    /\ BufferEmptied
    /\ socket' = [k \in Connections |-> IF k \in Aborted THEN "closed" ELSE socket[k]]
    /\ UNCHANGED <<asked, askedAt, sent>>

\* openProvider drops the connection there is, unless it is as asked for
Opens(ms) ==
    IF openedWith = ms
    THEN UNCHANGED <<connections, buffered, turns>>
    ELSE /\ asked' = asked + 1 /\ askedAt' = arrived
         /\ opening' = asked + 1 /\ owner' = asked + 1 /\ stream' = None /\ openedWith' = ms
         /\ BufferEmptied
         /\ socket' = [k \in Connections |->
                IF k = asked + 1 THEN "connecting"
                ELSE IF k \in Aborted THEN "closed" ELSE socket[k]]
         /\ UNCHANGED sent /\ Quietened

CanOpen(ms) == openedWith # ms => asked < MaxConnections

\* the window pushed before the upgrade, if any, else the first listen node's
Init ==
    /\ engine \in {"nova", "flux"} /\ Quiet
    /\ closed = FALSE /\ arrived = 0 /\ buffered = <<>>
    /\ window \in Tunings \cup {None} /\ pushes = 0
    /\ asked = 1 /\ askedAt = 0 /\ opening = 1 /\ owner = 1 /\ stream = None
    /\ openedWith = (IF window = None THEN Warmup ELSE window)
    /\ socket = [k \in Connections |-> IF k = 1 THEN "connecting" ELSE "none"]
    /\ sent = [k \in Connections |-> <<>>]
    /\ taping \in {"off", "preparing"} /\ ending = FALSE
    /\ listed = 0 /\ filed = 0 /\ sidecar = FALSE

\* the frames that waited are written first, in the order they came
Flushes(k) == sent' = [sent EXCEPT ![k] = buffered]

Opened ==
    /\ opening # None /\ ~ closed
    /\ socket' = [socket EXCEPT ![opening] = "open"]
    /\ Flushes(opening)
    /\ stream' = opening /\ opening' = None /\ buffered' = <<>>
    /\ UNCHANGED <<closed, arrived, asked, askedAt, owner, openedWith, window, pushes, tape, turns, engine>>

\* the reply of the open window is lost, and the next window opens a
\* connection again
Fails ==
    /\ Dropped /\ window' = None /\ Quietened
    /\ UNCHANGED <<closed, arrived, pushes, tape, engine>>

\* a refused handshake, a socket that closes, an error, an unreadable message,
\* too much unsent audio; nova also has a heartbeat that can fail
NovaFails == engine = "nova" /\ ~ closed /\ owner # None /\ Fails
FluxFails == engine = "flux" /\ ~ closed /\ owner # None /\ Fails

\* a handshake that takes too long
ConnectionTimesOut == ~ closed /\ opening # None /\ Fails

\* the API pushes a window, or closes the one it opened
PushWindow(ms) ==
    /\ ~ closed /\ pushes < MaxWindows /\ CanOpen(ms)
    /\ pushes' = pushes + 1 /\ window' = ms
    /\ Opens(ms)
    /\ UNCHANGED <<closed, arrived, tape, engine>>

CloseWindow ==
    /\ window # None /\ window' = None
    /\ UNCHANGED <<audio, connections, pushes, tape, turns, engine>>

\* a message of the provider acts while its connection is the one in use; a
\* reply belongs to the open window, which it closes
Receives ==
    /\ ~ closed /\ stream # None /\ owner = stream
    /\ Message
    /\ window' = IF heard' # heard THEN None ELSE window
    /\ UNCHANGED <<audio, connections, pushes, tape>>

(***************************************************************************)
(* The capture.                                                            *)
(***************************************************************************)
TapesFrame ==
    /\ listed' = IF taping \in {"preparing", "writing"} /\ ~ ending THEN arrived + 1 ELSE listed
    /\ UNCHANGED <<taping, ending, filed, sidecar>>

TapeEnds ==
    /\ ending' = (taping # "off")
    /\ UNCHANGED <<taping, listed, filed, sidecar>>

\* mutant: the directory is of no use once the audio is over
PreparedInTime ==
    /\ taping = "preparing" /\ ~ ending /\ taping' = "writing"
    /\ UNCHANGED <<audio, connections, window, pushes, turns, engine, ending, listed, filed, sidecar>>

\* the directory is there: the frames that waited are written, and the file is
\* closed if the audio is over already
Prepared ==
    /\ taping = "preparing" /\ taping' = "writing"
    /\ UNCHANGED <<audio, connections, window, pushes, turns, engine, ending, listed, filed, sidecar>>

FileFrame ==
    /\ taping = "writing" /\ filed < listed
    /\ filed' = filed + 1
    /\ UNCHANGED <<audio, connections, window, pushes, turns, engine, taping, ending, listed, sidecar>>

\* the list follows when the file is complete
Complete == taping = "writing" /\ filed = listed

WriteSidecar ==
    /\ ending /\ Complete /\ ~ sidecar
    /\ sidecar' = TRUE
    /\ UNCHANGED <<audio, connections, window, pushes, turns, engine, taping, ending, listed, filed>>

\* a directory or a file that cannot be written, or a disk that falls behind;
\* a file that fails while it is being closed runs the callback that writes
\* the list all the same
CaptureFails ==
    /\ taping \in {"preparing", "writing"} /\ ~ sidecar
    /\ taping' = "failed"
    /\ sidecar' \in {FALSE, taping = "writing" /\ ending}
    /\ UNCHANGED <<audio, connections, window, pushes, turns, engine, ending, listed, filed>>

(***************************************************************************)
(* The gateway's audio.                                                    *)
(***************************************************************************)
\* closeAudio, by itself or after audioFailed
Closes ==
    /\ closed' = TRUE /\ window' = None
    /\ Dropped /\ Quietened
    /\ UNCHANGED <<arrived, pushes, engine>>

\* the gateway hangs up, its socket fails, or it sends half a sample
AudioEnds == ~ closed /\ Closes /\ TapeEnds

\* a call that has lasted too long
Overlong == ~ closed /\ arrived = MaxFrames /\ Closes /\ TapeEnds

HasRoom == Len(buffered) < BufferSize

Sends(k) == sent' = [sent EXCEPT ![k] = Append(@, arrived + 1)]

\* a frame goes to the connection in use, waits for the one that opens, or is
\* dropped
Frame ==
    /\ ~ closed /\ arrived < MaxFrames
    /\ arrived' = arrived + 1 /\ TapesFrame
    /\ \/ stream # None /\ Sends(stream) /\ UNCHANGED buffered
       \/ stream = None /\ opening # None /\ HasRoom
          /\ buffered' = Append(buffered, arrived + 1) /\ UNCHANGED sent
       \/ stream = None /\ opening = None /\ UNCHANGED <<buffered, sent>>
    /\ UNCHANGED <<closed, asked, askedAt, socket, opening, owner, stream, openedWith, window, pushes, turns, engine>>

\* a full buffer: the connection that opens is given up
BufferFull ==
    /\ ~ closed /\ arrived < MaxFrames /\ stream = None /\ opening # None
    /\ ~ HasRoom
    /\ arrived' = arrived + 1 /\ TapesFrame
    /\ Dropped /\ window' = None /\ Quietened
    /\ UNCHANGED <<closed, pushes, engine>>

CaptureStep == Prepared \/ FileFrame \/ WriteSidecar

Next ==
    \/ Opened \/ NovaFails \/ FluxFails \/ ConnectionTimesOut \/ CloseWindow \/ Receives
    \/ \E ms \in Tunings : PushWindow(ms)
    \/ Frame \/ BufferFull \/ AudioEnds \/ Overlong
    \/ CaptureStep \/ CaptureFails

Spec == Init /\ [][Next]_vars

\* timers fire, and the disk answers
FairSpec == Spec /\ WF_vars(ConnectionTimesOut) /\ WF_vars(CaptureStep)

(***************************************************************************)
(* Properties.                                                             *)
(***************************************************************************)

\* What a connection is given is every frame since it was asked for, in order
\* and once, whether it waited for the opening or not: the times of the
\* provider's words, from which latencies are computed, count from its first
\* frame (worker.ts buffer, deepgram.ts audioOriginAt).
TimelineIsWhole ==
    LET stretch == [i \in 1 .. arrived - askedAt |-> askedAt + i] IN
    /\ opening # None => buffered = stretch
    /\ stream # None => sent[stream] = stretch

\* No connection is left open behind the call's back: one that connects or is
\* open is the one in use, or the one to be, and there is at most one.
NoStrayConnection ==
    \A k \in Connections : socket[k] \in {"connecting", "open"} => k = asked /\ ~ closed /\ k \in {opening, stream}

\* An open window has a connection with the endpointing its node asked for,
\* open or opening, whatever was lost before (worker.ts retune, providerFailed).
WindowHasProvider ==
    window # None => openedWith = window /\ (opening # None \/ stream # None)

\* What the worker is told is what the provider ended, reply for reply, over
\* repeated results, markers that come twice or after the flag, and empty
\* turns; and what waits is what was said since: no reply is lost after the
\* first, and none is told again (deepgram.ts per-utterance state).
HeardIsSaid ==
    /\ heard = said
    /\ due = IF completed THEN <<>> ELSE pieces

\* Every reply, not only the first, is announced before it is told, so that
\* the silence timeout of its window stops (onSpeechStarted).
ReplyIsAnnounced == ~ surprised

\* A capture that did not fail lists what is in its file, and that is every
\* frame of the call, however early the call ended (pcm-capture.ts).
ListMatchesFile == sidecar /\ taping # "failed" => filed = listed /\ listed = arrived

\* Nothing lingers: an attempt to connect does not last, and once the audio is
\* over its capture comes to an end, its list on disk or its failure reported
\* (worker.ts connection deadline, pcm-capture.ts close).
NothingLingers ==
    []<>(/\ opening = None
         /\ closed /\ taping # "off" => sidecar \/ taping = "failed")
=============================================================================
