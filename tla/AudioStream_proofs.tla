------------------------- MODULE AudioStream_proofs -------------------------
(***************************************************************************)
(* Proofs about AudioStream and SpeechTurns: the inductive invariant, and  *)
(* with it the safety properties, for any number of frames, connections,   *)
(* windows, endpointings and words, and any size of the two buffers.       *)
(***************************************************************************)
EXTENDS AudioStream, TLAPS

-----------------------------------------------------------------------------
\* The invariant of the proofs: the types, the safety properties above, and what
\* makes them inductive.  There is one connection or attempt, the newest, exactly
\* while an endpointing is remembered, and only during the audio.
OneConnection ==
    /\ asked >= 1 /\ askedAt <= arrived
    /\ opening # None => opening = asked /\ stream = None
    /\ stream # None => stream = asked
    /\ openedWith # None <=> (opening # None \/ stream # None)
    /\ openedWith # None => ~ closed
    /\ \A k \in Connections : k > asked => socket[k] = "none"

\* The last final word is remembered, and nothing later; flux keeps no pieces.
LastIsSeen ==
    /\ \A i \in DOMAIN seen : seen[i] <= word
    /\ engine = "nova" /\ word > 0 => seen # <<>> /\ seen[Len(seen)] = word
    /\ engine = "flux" => ~ completed /\ pieces = <<>>

\* A reply that is under way has been announced.
UnderWayIsNoticed == ~ completed /\ (speaking \/ pieces # <<>>) => noticed

\* A capture that works lists what arrived, and its list is the last it writes.
TapeIsCurrent ==
    /\ taping \in {"preparing", "writing"} => listed = arrived
    /\ ending => closed
    /\ filed <= listed
    /\ sidecar /\ taping # "failed" => taping = "writing" /\ ending

IInv ==
    /\ TypeOK
    /\ OneConnection /\ NoStrayConnection /\ WindowHasProvider /\ TimelineIsWhole
    /\ LastIsSeen /\ HeardIsSaid /\ UnderWayIsNoticed /\ ReplyIsAnnounced
    /\ TapeIsCurrent /\ ListMatchesFile

-----------------------------------------------------------------------------
(* Facts about the data. *)

\* The frames from the one after a to the n-th after it.
Stretch(a, n) == [i \in 1 .. n |-> a + i]

LEMMA StretchGrows ==
  ASSUME NEW a \in Nat, NEW n \in Nat
  PROVE  Append(Stretch(a, n), a + n + 1) = Stretch(a, n + 1)
<1> DEFINE longer == Append(Stretch(a, n), a + n + 1)
<1>1. Stretch(a, n) \in Seq(Nat) /\ Len(Stretch(a, n)) = n
  BY DEF Stretch
<1>2. longer \in Seq(Nat) /\ Len(longer) = n + 1
  BY <1>1
<1>3. \A i \in 1 .. n + 1 : longer[i] = a + i
  BY <1>1, SMT DEF Stretch
<1>4. longer = [i \in 1 .. n + 1 |-> longer[i]]
  BY <1>2
<1> QED
  BY <1>3, <1>4 DEF Stretch

LEMMA StretchBegins == \A a \in Nat : Stretch(a, 0) = <<>>
  BY DEF Stretch

\* What the limits are.
LEMMA Limits ==
  /\ MaxFrames \in Nat /\ MaxConnections \in Nat \ {0} /\ MaxWindows \in Nat /\ BufferSize \in Nat
  /\ MaxWords \in Nat \ {0} /\ SeenSize \in Nat \ {0}
  /\ Warmup \in Tunings /\ None \notin Tunings /\ None \notin Connections
  BY StreamAssumption, TurnsAssumption DEF Connections

-----------------------------------------------------------------------------
(* Types. *)

LEMMA RememberedType ==
  ASSUME TurnsTypeOK, NEW w \in Words
  PROVE  Remembered(w) \in Seq(Words) /\ Len(Remembered(w)) <= SeenSize
<1>1. CASE Len(seen) < SeenSize
  BY <1>1, Limits DEF TurnsTypeOK, Remembered
<1>2. CASE ~ (Len(seen) < SeenSize)
  <2>1. seen # <<>> /\ Tail(seen) \in Seq(Words) /\ Len(Tail(seen)) = Len(seen) - 1
    BY <1>2, Limits DEF TurnsTypeOK
  <2> QED
    BY <1>2, <2>1, Limits DEF TurnsTypeOK, Remembered
<1> QED BY <1>1, <1>2

\* What the provider says of the next word, or of none.
LEMMA SaysType ==
  ASSUME TurnsTypeOK, NEW w \in 0 .. MaxWords, NEW ends \in BOOLEAN, Says(w, ends)
  PROVE  word' \in 0 .. MaxWords /\ due' \in Seq(Words) /\ said' \in Seq(Reply)
<1> DEFINE all == IF w > word THEN Append(due, w) ELSE due
<1>1. all \in Seq(Words)
  <2>1. w > word => w \in Words
    BY Limits DEF TurnsTypeOK, Words
  <2>2. due \in Seq(Words)
    BY DEF TurnsTypeOK
  <2> QED BY <2>1, <2>2
<1>2. <<>> \in Seq(Words)
  OBVIOUS
<1>3. Append(said, all) \in Seq(Reply)
  BY <1>1 DEF TurnsTypeOK, Reply
<1> QED
  BY <1>1, <1>2, <1>3 DEF TurnsTypeOK, Says

LEMMA ReportedType ==
  ASSUME TurnsTypeOK, NEW begins \in BOOLEAN
  PROVE  /\ \A r \in Seq(Words) : Reported(begins, r) =>
              heard' \in Seq(Reply) /\ noticed' \in BOOLEAN /\ surprised' \in BOOLEAN
         /\ NotReported(begins) =>
              heard' \in Seq(Reply) /\ noticed' \in BOOLEAN /\ surprised' \in BOOLEAN
<1>1. heard \in Seq(Reply) /\ noticed \in BOOLEAN /\ surprised \in BOOLEAN
  BY DEF TurnsTypeOK
<1>2. ASSUME NEW r \in Seq(Words), Reported(begins, r)
      PROVE  heard' \in Seq(Reply) /\ noticed' \in BOOLEAN /\ surprised' \in BOOLEAN
  <2>1. r \in Reply
    BY DEF Reply
  <2>2. heard' \in Seq(Reply)
    BY <1>1, <1>2, <2>1 DEF Reported
  <2> QED BY <1>1, <1>2, <2>2 DEF Reported
<1>3. ASSUME NotReported(begins)
      PROVE  heard' \in Seq(Reply) /\ noticed' \in BOOLEAN /\ surprised' \in BOOLEAN
  BY <1>1, <1>3 DEF NotReported
<1> QED BY <1>2, <1>3

LEMMA ResultsType ==
  ASSUME TurnsTypeOK, NEW w \in 0 .. MaxWords, NEW final \in BOOLEAN, NEW ends \in BOOLEAN,
         Results(w, final, ends)
  PROVE  TurnsTypeOK'
<1> DEFINE kept == IF Reopens(w) THEN <<>> ELSE pieces
           p == IF final /\ Fresh(w) THEN Append(kept, w) ELSE kept
           c == completed /\ ~ Reopens(w)
<1>1. Fresh(w) \in BOOLEAN /\ Reopens(w) \in BOOLEAN /\ Begins(w) \in BOOLEAN /\ c \in BOOLEAN
  BY DEF Fresh, Reopens, Begins, TurnsTypeOK
<1>2. Fresh(w) => w \in Words
  BY Limits DEF Fresh, Words
<1>3. p \in Seq(Words) /\ <<>> \in Seq(Words)
  BY <1>2 DEF TurnsTypeOK
<1>4. seen' \in Seq(Words) /\ Len(seen') <= SeenSize
  BY <1>2, RememberedType DEF Results, TurnsTypeOK
<1>5. word' \in 0 .. MaxWords /\ due' \in Seq(Words) /\ said' \in Seq(Reply)
  BY SaysType DEF Results, provider, TurnsTypeOK
<1>6. speaking' \in BOOLEAN /\ engine' = engine
  BY <1>1 DEF Results, TurnsTypeOK
<1>7. /\ completed' \in BOOLEAN /\ pieces' \in Seq(Words)
      /\ heard' \in Seq(Reply) /\ noticed' \in BOOLEAN /\ surprised' \in BOOLEAN
  <2>1. CASE ends
    <3>1. Finished(Begins(w), p, c)
      BY <2>1 DEF Results
    <3> HIDE DEF p, c
    <3> QED BY <1>1, <1>3, <3>1, ReportedType DEF Finished
  <2>2. CASE ~ ends
    <3>1. completed' = c /\ pieces' = p /\ NotReported(Begins(w))
      BY <2>2 DEF Results
    <3> HIDE DEF p, c
    <3> QED BY <1>1, <1>3, <3>1, ReportedType
  <2> QED BY <2>1, <2>2
<1> QED
  BY <1>4, <1>5, <1>6, <1>7 DEF TurnsTypeOK

LEMMA MessageType ==
  ASSUME TurnsTypeOK, Message
  PROVE  TurnsTypeOK'
<1>1. CASE \E w \in 0 .. MaxWords, final, ends \in BOOLEAN : Results(w, final, ends)
  BY <1>1, ResultsType
<1>2. CASE UtteranceEnd
  <2>1. word' \in 0 .. MaxWords /\ due' \in Seq(Words) /\ said' \in Seq(Reply)
    <3>1. Says(0, TRUE)
      BY <1>2, Zenon DEF UtteranceEnd
    <3>2. 0 \in 0 .. MaxWords
      BY Limits
    <3> QED BY <3>1, <3>2, SaysType
  <2>2. /\ completed' \in BOOLEAN /\ pieces' \in Seq(Words)
        /\ heard' \in Seq(Reply) /\ noticed' \in BOOLEAN /\ surprised' \in BOOLEAN
    <3>1. \/ completed' = TRUE /\ pieces' = <<>> /\ Reported(FALSE, pieces)
          \/ completed' = completed /\ pieces' = pieces /\ NotReported(FALSE)
      BY <1>2, Zenon DEF UtteranceEnd, Finished
    <3>2. pieces \in Seq(Words) /\ completed \in BOOLEAN /\ <<>> \in Seq(Words)
      BY DEF TurnsTypeOK
    <3> QED BY <3>1, <3>2, ReportedType
  <2> QED BY <1>2, <2>1, <2>2 DEF UtteranceEnd, TurnsTypeOK
<1>3. CASE StartOrUpdate
  <2>1. heard' \in Seq(Reply) /\ noticed' \in BOOLEAN /\ surprised' \in BOOLEAN
    BY <1>3, ReportedType DEF StartOrUpdate, TurnsTypeOK
  <2> QED BY <1>3, <2>1 DEF StartOrUpdate, provider, TurnsTypeOK
<1>4. CASE \E w \in 0 .. MaxWords : EndOfTurn(w)
  <2> PICK w \in 0 .. MaxWords : EndOfTurn(w)
    BY <1>4
  <2>1. word' \in 0 .. MaxWords /\ due' \in Seq(Words) /\ said' \in Seq(Reply)
    BY SaysType DEF EndOfTurn
  <2>2. w # 0 => <<w>> \in Seq(Words)
    BY DEF Words
  <2>3. heard' \in Seq(Reply) /\ noticed' \in BOOLEAN /\ surprised' \in BOOLEAN
    BY <2>2, ReportedType DEF EndOfTurn, TurnsTypeOK
  <2> QED BY <2>1, <2>3 DEF EndOfTurn, TurnsTypeOK
<1> QED BY <1>1, <1>2, <1>3, <1>4 DEF Message

LEMMA QuietType ==
  /\ Quiet /\ engine \in {"nova", "flux"} => TurnsTypeOK
  /\ Quietened /\ engine' = engine /\ TurnsTypeOK => TurnsTypeOK'
<1>1. /\ <<>> \in Seq(Words) /\ <<>> \in Seq(Reply) /\ 0 \in 0 .. MaxWords
      /\ Len(<<>>) <= SeenSize
  BY Limits
<1> QED BY <1>1, Zenon DEF Quiet, Quietened, TurnsTypeOK

LEMMA TurnsUnchangedType == TurnsTypeOK /\ UNCHANGED <<turns, engine>> => TurnsTypeOK'
  BY DEF TurnsTypeOK, turns, handler, reports, provider

\* The parts of TypeOK that are not about turns.
AudioTypeOK ==
  /\ closed \in BOOLEAN /\ arrived \in 0 .. MaxFrames
  /\ buffered \in Seq(Frames) /\ Len(buffered) <= BufferSize

ConnectionsTypeOK ==
  /\ askedAt \in 0 .. MaxFrames /\ asked \in 0 .. MaxConnections
  /\ socket \in [Connections -> {"none", "connecting", "open", "closed"}]
  /\ opening \in Connections \cup {None} /\ owner \in Connections \cup {None}
  /\ stream \in Connections \cup {None}
  /\ openedWith \in Tunings \cup {None}
  /\ sent \in [Connections -> Seq(Frames)]

WindowTypeOK == window \in Tunings \cup {None} /\ pushes \in 0 .. MaxWindows

TapeTypeOK ==
  /\ taping \in {"off", "preparing", "writing", "failed"}
  /\ ending \in BOOLEAN /\ sidecar \in BOOLEAN
  /\ listed \in 0 .. MaxFrames /\ filed \in 0 .. MaxFrames

LEMMA TypeParts ==
  TypeOK <=> TurnsTypeOK /\ AudioTypeOK /\ ConnectionsTypeOK /\ WindowTypeOK /\ TapeTypeOK
  BY DEF TypeOK, AudioTypeOK, ConnectionsTypeOK, WindowTypeOK, TapeTypeOK

LEMMA TypeInit == Init => TypeOK
<1> SUFFICES ASSUME Init PROVE TypeOK
  OBVIOUS
<1>1. TurnsTypeOK
  BY QuietType DEF Init
<1>2. AudioTypeOK
  <2>1. closed = FALSE /\ arrived = 0 /\ buffered = <<>>
    BY Zenon DEF Init
  <2>2. <<>> \in Seq(Frames) /\ Len(<<>>) <= BufferSize /\ 0 \in 0 .. MaxFrames
    BY Limits
  <2> QED BY <2>1, <2>2, Zenon DEF AudioTypeOK
<1>3. ConnectionsTypeOK
  <2>1. /\ window \in Tunings \cup {None}
        /\ asked = 1 /\ askedAt = 0 /\ opening = 1 /\ owner = 1 /\ stream = None
        /\ openedWith = (IF window = None THEN Warmup ELSE window)
        /\ socket = [k \in Connections |-> IF k = 1 THEN "connecting" ELSE "none"]
        /\ sent = [k \in Connections |-> <<>>]
    BY Zenon DEF Init
  <2>2. 1 \in Connections /\ 0 \in 0 .. MaxFrames /\ 1 \in 0 .. MaxConnections
    BY Limits DEF Connections
  <2>3. openedWith \in Tunings \cup {None}
    BY <2>1, Limits
  <2> QED BY <2>1, <2>2, <2>3 DEF ConnectionsTypeOK
<1>4. WindowTypeOK /\ TapeTypeOK
  <2>1. /\ window \in Tunings \cup {None} /\ pushes = 0
        /\ taping \in {"off", "preparing"} /\ ending = FALSE
        /\ listed = 0 /\ filed = 0 /\ sidecar = FALSE
    BY Zenon DEF Init
  <2>2. 0 \in 0 .. MaxFrames /\ 0 \in 0 .. MaxWindows
    BY Limits
  <2>3. taping \in {"off", "preparing", "writing", "failed"}
    BY <2>1
  <2> QED BY <2>1, <2>2, <2>3, Zenon DEF WindowTypeOK, TapeTypeOK
<1> QED BY <1>1, <1>2, <1>3, <1>4, TypeParts

\* A connection that is dropped, or replaced by one with the endpointing ms.
LEMMA DroppedType ==
  ASSUME AudioTypeOK, ConnectionsTypeOK, Dropped
  PROVE  /\ ConnectionsTypeOK'
         /\ closed' \in BOOLEAN /\ arrived' \in 0 .. MaxFrames => AudioTypeOK'
  BY Limits DEF AudioTypeOK, ConnectionsTypeOK, Dropped, BufferEmptied

LEMMA OpensType ==
  ASSUME AudioTypeOK, ConnectionsTypeOK, TurnsTypeOK, NEW ms \in Tunings,
         CanOpen(ms), Opens(ms), UNCHANGED <<closed, arrived, engine>>
  PROVE  ConnectionsTypeOK' /\ AudioTypeOK' /\ TurnsTypeOK'
<1>1. CASE openedWith = ms
  BY <1>1, TurnsUnchangedType DEF Opens, connections, AudioTypeOK, ConnectionsTypeOK
<1>2. CASE openedWith # ms
  <2>1. asked < MaxConnections /\ asked + 1 \in Connections
    BY <1>2, Limits DEF CanOpen, ConnectionsTypeOK, Connections
  <2>2. ConnectionsTypeOK'
    BY <1>2, <2>1, Limits DEF Opens, AudioTypeOK, ConnectionsTypeOK, Connections
  <2>3. AudioTypeOK' /\ TurnsTypeOK'
    BY <1>2, QuietType, Limits DEF Opens, BufferEmptied, AudioTypeOK
  <2> QED BY <2>2, <2>3
<1> QED BY <1>1, <1>2

LEMMA FrameType ==
  ASSUME AudioTypeOK, ConnectionsTypeOK, Frame
  PROVE  AudioTypeOK' /\ ConnectionsTypeOK'
<1>1. arrived' \in 0 .. MaxFrames /\ arrived + 1 \in Frames
  BY Limits DEF Frame, AudioTypeOK, Frames
<1>2. buffered' \in Seq(Frames) /\ Len(buffered') <= BufferSize
  BY <1>1, Limits DEF Frame, AudioTypeOK, HasRoom
<1>3. sent' \in [Connections -> Seq(Frames)]
  <2>1. \A k \in Connections : Append(sent[k], arrived + 1) \in Seq(Frames)
    BY <1>1 DEF ConnectionsTypeOK
  <2> QED BY <2>1 DEF Frame, ConnectionsTypeOK, Sends
<1> QED BY <1>1, <1>2, <1>3 DEF Frame, AudioTypeOK, ConnectionsTypeOK

LEMMA TypeStep ==
  ASSUME TypeOK, [Next]_vars
  PROVE  TypeOK'
<1>0. TurnsTypeOK /\ AudioTypeOK /\ ConnectionsTypeOK /\ WindowTypeOK /\ TapeTypeOK
  BY TypeParts
<1> SUFFICES TurnsTypeOK' /\ AudioTypeOK' /\ ConnectionsTypeOK' /\ WindowTypeOK' /\ TapeTypeOK'
  BY DEF TypeOK, AudioTypeOK, ConnectionsTypeOK, WindowTypeOK, TapeTypeOK
<1> USE DEF audio, connections, tape
<1>1. CASE Opened
  <2>1. sent' \in [Connections -> Seq(Frames)]
    BY <1>0, <1>1 DEF Opened, Flushes, AudioTypeOK, ConnectionsTypeOK
  <2>2. AudioTypeOK'
    BY <1>0, <1>1, Limits DEF Opened, AudioTypeOK
  <2>3. socket' \in [Connections -> {"none", "connecting", "open", "closed"}]
    BY <1>0, <1>1 DEF Opened, ConnectionsTypeOK
  <2>4. ConnectionsTypeOK'
    BY <1>0, <1>1, <2>1, <2>3 DEF Opened, ConnectionsTypeOK
  <2> QED BY <1>0, <1>1, <2>2, <2>4, TurnsUnchangedType DEF Opened, WindowTypeOK, TapeTypeOK
<1>2. CASE NovaFails \/ FluxFails \/ ConnectionTimesOut
  <2>1. Fails
    BY <1>2 DEF NovaFails, FluxFails, ConnectionTimesOut
  <2> QED BY <1>0, <2>1, DroppedType, QuietType
          DEF Fails, AudioTypeOK, WindowTypeOK, TapeTypeOK
<1>3. CASE CloseWindow
  BY <1>0, <1>3, TurnsUnchangedType
  DEF CloseWindow, AudioTypeOK, ConnectionsTypeOK, WindowTypeOK, TapeTypeOK
<1>4. CASE Receives
  BY <1>0, <1>4, MessageType
  DEF Receives, AudioTypeOK, ConnectionsTypeOK, WindowTypeOK, TapeTypeOK
<1>5. CASE \E ms \in Tunings : PushWindow(ms)
  <2> PICK ms \in Tunings : PushWindow(ms)
    BY <1>5
  <2>1. AudioTypeOK' /\ ConnectionsTypeOK' /\ TurnsTypeOK'
    BY <1>0, OpensType DEF PushWindow
  <2>2. WindowTypeOK' /\ TapeTypeOK'
    BY <1>0, Limits DEF PushWindow, WindowTypeOK, TapeTypeOK
  <2> QED BY <2>1, <2>2
<1>6. CASE Frame
  <2>1. AudioTypeOK' /\ ConnectionsTypeOK'
    BY <1>0, <1>6, FrameType
  <2>2. TurnsTypeOK' /\ WindowTypeOK'
    BY <1>0, <1>6, TurnsUnchangedType DEF Frame, WindowTypeOK
  <2>3. TapeTypeOK'
    BY <1>0, <1>6, Limits DEF Frame, TapesFrame, TapeTypeOK, AudioTypeOK
  <2> QED BY <2>1, <2>2, <2>3
<1>7. CASE BufferFull
  <2>1. arrived' \in 0 .. MaxFrames
    BY <1>0, <1>7, Limits DEF BufferFull, AudioTypeOK
  <2>2. AudioTypeOK' /\ ConnectionsTypeOK' /\ TurnsTypeOK' /\ WindowTypeOK'
    BY <1>0, <1>7, <2>1, DroppedType, QuietType DEF BufferFull, AudioTypeOK, WindowTypeOK
  <2>3. TapeTypeOK'
    BY <1>0, <1>7, Limits DEF BufferFull, TapesFrame, TapeTypeOK, AudioTypeOK
  <2> QED BY <2>2, <2>3
<1>8. CASE AudioEnds \/ Overlong
  <2>1. Closes /\ TapeEnds
    BY <1>8 DEF AudioEnds, Overlong
  <2>2. AudioTypeOK' /\ ConnectionsTypeOK' /\ TurnsTypeOK' /\ WindowTypeOK'
    BY <1>0, <2>1, DroppedType, QuietType DEF Closes, AudioTypeOK, WindowTypeOK
  <2>3. TapeTypeOK'
    BY <1>0, <2>1 DEF TapeEnds, TapeTypeOK
  <2> QED BY <2>2, <2>3
<1>9. CASE CaptureStep \/ CaptureFails
  <2>1. AudioTypeOK' /\ ConnectionsTypeOK' /\ TurnsTypeOK' /\ WindowTypeOK'
    BY <1>0, <1>9, TurnsUnchangedType
    DEF CaptureStep, CaptureFails, Prepared, FileFrame, WriteSidecar,
        AudioTypeOK, ConnectionsTypeOK, WindowTypeOK
  <2>2. CASE CaptureStep
    <3>1. CASE Prepared
      BY <1>0, <2>1, <3>1 DEF Prepared, TapeTypeOK
    <3>2. CASE FileFrame
      BY <1>0, <2>1, <3>2, Limits DEF FileFrame, TapeTypeOK
    <3>3. CASE WriteSidecar
      BY <1>0, <2>1, <3>3 DEF WriteSidecar, TapeTypeOK
    <3> QED BY <2>2, <3>1, <3>2, <3>3 DEF CaptureStep
  <2>3. CASE CaptureFails
    <3>1. sidecar' \in {FALSE, taping = "writing" /\ ending}
      BY <2>3 DEF CaptureFails
    <3>2. sidecar' \in BOOLEAN
      BY <3>1
    <3>3. taping' = "failed" /\ UNCHANGED <<ending, listed, filed>>
      BY <2>3 DEF CaptureFails
    <3> QED BY <1>0, <2>1, <3>2, <3>3 DEF TapeTypeOK
  <2> QED BY <1>9, <2>2, <2>3
<1>10. CASE UNCHANGED vars
  BY <1>0, <1>10, TurnsUnchangedType
  DEF vars, AudioTypeOK, ConnectionsTypeOK, WindowTypeOK, TapeTypeOK
<1> QED
  BY <1>1, <1>2, <1>3, <1>4, <1>5, <1>6, <1>7, <1>8, <1>9, <1>10 DEF Next

-----------------------------------------------------------------------------
(* One connection at a time, and one for every open window. *)

ConnectionInv == OneConnection /\ NoStrayConnection /\ WindowHasProvider

LEMMA ConnectionInit == Init => ConnectionInv
<1> SUFFICES ASSUME Init PROVE ConnectionInv
  OBVIOUS
<1>1. /\ closed = FALSE /\ arrived = 0 /\ window \in Tunings \cup {None}
      /\ asked = 1 /\ askedAt = 0 /\ opening = 1 /\ stream = None
      /\ openedWith = (IF window = None THEN Warmup ELSE window)
      /\ socket = [k \in Connections |-> IF k = 1 THEN "connecting" ELSE "none"]
  BY Zenon DEF Init
<1>2. 1 \in Connections
  BY Limits DEF Connections
<1>3. openedWith # None
  BY <1>1, Limits
<1>4. OneConnection
  BY <1>1, <1>2, <1>3, Limits DEF OneConnection, Connections
<1>5. NoStrayConnection
  BY <1>1, <1>2 DEF NoStrayConnection
<1>6. WindowHasProvider
  BY <1>1, <1>2, Limits DEF WindowHasProvider
<1> QED BY <1>4, <1>5, <1>6 DEF ConnectionInv

LEMMA DroppedIsGone ==
  ASSUME TypeOK, ConnectionInv, Dropped, window' = None, arrived' \in {arrived, arrived + 1}
  PROVE  ConnectionInv'
<1>1. /\ \A k \in Connections : socket'[k] \notin {"connecting", "open"}
      /\ \A k \in Connections : k > asked => socket'[k] = "none"
  BY Limits DEF TypeOK, ConnectionInv, OneConnection, NoStrayConnection, Dropped, Aborted, Connections
<1>2. OneConnection'
  BY <1>1 DEF TypeOK, ConnectionInv, OneConnection, Dropped
<1> QED BY <1>1, <1>2 DEF ConnectionInv, NoStrayConnection, WindowHasProvider

LEMMA OpenedIsOne ==
  ASSUME TypeOK, ConnectionInv, NEW ms \in Tunings, CanOpen(ms), Opens(ms),
         ~ closed, UNCHANGED <<closed, arrived>>, window' = ms
  PROVE  ConnectionInv'
<1>0. ms # None
  BY Limits
<1>1. CASE openedWith = ms
  BY <1>0, <1>1
  DEF Opens, connections, ConnectionInv, OneConnection, NoStrayConnection, WindowHasProvider
<1>2. CASE openedWith # ms
  <2>1. /\ asked' = asked + 1 /\ asked' \in Connections /\ asked' # None
        /\ opening' = asked' /\ stream' = None /\ openedWith' = ms /\ askedAt' = arrived
    BY <1>2, Limits DEF Opens, CanOpen, TypeOK, Connections
  <2>2. socket' = [k \in Connections |->
          IF k = asked + 1 THEN "connecting" ELSE IF k \in Aborted THEN "closed" ELSE socket[k]]
    BY <1>2 DEF Opens
  <2>3. \A k \in Connections : /\ k > asked' => socket'[k] = "none"
                               /\ socket'[k] \in {"connecting", "open"} => k = asked'
    BY <2>1, <2>2, Limits
    DEF TypeOK, ConnectionInv, OneConnection, NoStrayConnection, Aborted, Connections
  <2>4. OneConnection'
    BY <1>0, <2>1, <2>3 DEF TypeOK, ConnectionInv, OneConnection
  <2> QED BY <1>0, <2>1, <2>3, <2>4 DEF ConnectionInv, NoStrayConnection, WindowHasProvider
<1> QED BY <1>1, <1>2

LEMMA ConnectionStep ==
  ASSUME TypeOK, ConnectionInv, [Next]_vars
  PROVE  ConnectionInv'
<1> USE DEF audio, connections, tape
<1>1. CASE Opened
  <2>1. opening = asked /\ opening \in Connections /\ stream' = opening /\ opening' = None
    BY <1>1 DEF Opened, TypeOK, ConnectionInv, OneConnection
  <2>2. socket' = [socket EXCEPT ![opening] = "open"]
    BY <1>1 DEF Opened
  <2>3. \A k \in Connections : k # asked => socket'[k] = socket[k]
    BY <2>1, <2>2 DEF TypeOK
  <2>4. OneConnection'
    BY <1>1, <2>1, <2>3, Limits DEF Opened, TypeOK, ConnectionInv, OneConnection
  <2> QED BY <1>1, <2>1, <2>3, <2>4, Limits
          DEF Opened, TypeOK, ConnectionInv, OneConnection, NoStrayConnection, WindowHasProvider
<1>2. CASE NovaFails \/ FluxFails \/ ConnectionTimesOut
  BY <1>2, DroppedIsGone DEF NovaFails, FluxFails, ConnectionTimesOut, Fails
<1>3. CASE CloseWindow
  BY <1>3 DEF CloseWindow, ConnectionInv, OneConnection, NoStrayConnection, WindowHasProvider
<1>4. CASE Receives
  BY <1>4 DEF Receives, ConnectionInv, OneConnection, NoStrayConnection, WindowHasProvider
<1>5. CASE \E ms \in Tunings : PushWindow(ms)
  BY <1>5, OpenedIsOne DEF PushWindow
<1>6. CASE Frame
  BY <1>6 DEF Frame, TypeOK, ConnectionInv, OneConnection, NoStrayConnection, WindowHasProvider
<1>7. CASE BufferFull
  BY <1>7, DroppedIsGone DEF BufferFull
<1>8. CASE AudioEnds \/ Overlong
  BY <1>8, DroppedIsGone DEF AudioEnds, Overlong, Closes
<1>9. CASE CaptureStep \/ CaptureFails
  <2>1. UNCHANGED <<closed, arrived, asked, askedAt, socket, opening, stream, openedWith, window>>
    BY <1>9 DEF CaptureStep, CaptureFails, Prepared, FileFrame, WriteSidecar
  <2> QED BY <2>1 DEF ConnectionInv, OneConnection, NoStrayConnection, WindowHasProvider
<1>10. CASE UNCHANGED vars
  BY <1>10 DEF vars, ConnectionInv, OneConnection, NoStrayConnection, WindowHasProvider
<1> QED
  BY <1>1, <1>2, <1>3, <1>4, <1>5, <1>6, <1>7, <1>8, <1>9, <1>10 DEF Next

-----------------------------------------------------------------------------
(* What a connection is given. *)

LEMMA TimelineAsStretch ==
  TimelineIsWhole <=>
    /\ opening # None => buffered = Stretch(askedAt, arrived - askedAt)
    /\ stream # None => sent[stream] = Stretch(askedAt, arrived - askedAt)
  BY DEF TimelineIsWhole, Stretch

LEMMA TimelineInit == Init => TimelineIsWhole
<1> SUFFICES ASSUME Init PROVE TimelineIsWhole
  OBVIOUS
<1>1. arrived = 0 /\ askedAt = 0 /\ buffered = <<>> /\ stream = None
  BY Zenon DEF Init
<1> QED BY <1>1, StretchBegins, TimelineAsStretch

LEMMA TimelineStep ==
  ASSUME TypeOK, ConnectionInv, TimelineIsWhole, [Next]_vars
  PROVE  TimelineIsWhole'
<1> DEFINE whole == Stretch(askedAt, arrived - askedAt)
<1>a. /\ opening # None => buffered = whole
      /\ stream # None => sent[stream] = whole
  BY TimelineAsStretch
<1>b. SUFFICES /\ opening' # None => buffered' = Stretch(askedAt', arrived' - askedAt')
               /\ stream' # None => sent'[stream'] = Stretch(askedAt', arrived' - askedAt')
  BY DEF TimelineIsWhole, Stretch
<1> USE DEF audio, connections, tape
<1>1. CASE Opened
  BY <1>1, <1>a DEF Opened, Flushes, TypeOK, ConnectionInv, OneConnection
<1>2. CASE NovaFails \/ FluxFails \/ ConnectionTimesOut
  BY <1>2 DEF NovaFails, FluxFails, ConnectionTimesOut, Fails, Dropped
<1>3. CASE CloseWindow
  BY <1>3, <1>a DEF CloseWindow
<1>4. CASE Receives
  BY <1>4, <1>a DEF Receives
<1>5. CASE \E ms \in Tunings : PushWindow(ms)
  <2> PICK ms \in Tunings : PushWindow(ms)
    BY <1>5
  <2>1. CASE openedWith = ms
    BY <2>1, <1>a DEF PushWindow, Opens
  <2>2. CASE openedWith # ms
    <3>1. /\ askedAt' = arrived /\ arrived' = arrived /\ buffered' = <<>> /\ stream' = None
          /\ arrived \in Nat
      BY <2>2, Limits DEF PushWindow, Opens, BufferEmptied, TypeOK
    <3> QED BY <3>1, StretchBegins
  <2> QED BY <2>1, <2>2
<1>6. CASE Frame
  <2>1. /\ askedAt \in Nat /\ arrived - askedAt \in Nat /\ arrived' = arrived + 1
        /\ askedAt' = askedAt /\ stream' = stream /\ opening' = opening
    BY <1>6, Limits DEF Frame, TypeOK, ConnectionInv, OneConnection
  <2>2. Append(whole, arrived + 1) = Stretch(askedAt', arrived' - askedAt')
    <3>1. askedAt + (arrived - askedAt) + 1 = arrived + 1 /\ (arrived - askedAt) + 1 = arrived' - askedAt'
      BY <2>1, Limits DEF TypeOK
    <3> QED BY <2>1, <3>1, StretchGrows
  <2>3. CASE stream # None
    <3>1. sent'[stream] = Append(sent[stream], arrived + 1) /\ opening = None
      BY <1>6, <2>3 DEF Frame, Sends, TypeOK, ConnectionInv, OneConnection
    <3> QED BY <1>a, <2>1, <2>2, <2>3, <3>1
  <2>4. CASE stream = None
    BY <1>6, <1>a, <2>1, <2>2, <2>4 DEF Frame
  <2> QED BY <2>3, <2>4
<1>7. CASE BufferFull
  BY <1>7 DEF BufferFull, Dropped
<1>8. CASE AudioEnds \/ Overlong
  BY <1>8 DEF AudioEnds, Overlong, Closes, Dropped
<1>9. CASE CaptureStep \/ CaptureFails
  BY <1>9, <1>a DEF CaptureStep, CaptureFails, Prepared, FileFrame, WriteSidecar
<1>10. CASE UNCHANGED vars
  BY <1>10, <1>a DEF vars
<1> QED
  BY <1>1, <1>2, <1>3, <1>4, <1>5, <1>6, <1>7, <1>8, <1>9, <1>10 DEF Next

-----------------------------------------------------------------------------
(* The capture. *)

TapeInv == TapeIsCurrent /\ ListMatchesFile

LEMMA TapeInit == Init => TapeInv
<1> SUFFICES ASSUME Init PROVE TapeInv
  OBVIOUS
<1>1. arrived = 0 /\ ending = FALSE /\ listed = 0 /\ filed = 0 /\ sidecar = FALSE
  BY Zenon DEF Init
<1> QED BY <1>1 DEF TapeInv, TapeIsCurrent, ListMatchesFile

LEMMA TapeStep ==
  ASSUME TypeOK, TapeInv, [Next]_vars
  PROVE  TapeInv'
<1> USE DEF TapeInv, TapeIsCurrent, ListMatchesFile, audio, tape
<1>1. CASE Opened
  BY <1>1 DEF Opened
<1>2. CASE NovaFails \/ FluxFails \/ ConnectionTimesOut
  BY <1>2 DEF NovaFails, FluxFails, ConnectionTimesOut, Fails
<1>3. CASE CloseWindow \/ Receives
  BY <1>3 DEF CloseWindow, Receives
<1>4. CASE \E ms \in Tunings : PushWindow(ms)
  BY <1>4 DEF PushWindow
<1>5. CASE Frame \/ BufferFull
  <2>1. ~ closed /\ arrived' = arrived + 1 /\ TapesFrame /\ closed' = closed
    BY <1>5 DEF Frame, BufferFull
  <2>2. ~ ending /\ ending' = ending
    BY <2>1 DEF TapesFrame
  <2>3. filed' <= listed'
    BY <2>1, Limits DEF TapesFrame, TypeOK
  <2>4. ~ (sidecar /\ taping # "failed") /\ taping' = taping /\ sidecar' = sidecar
    BY <2>1, <2>2 DEF TapesFrame
  <2>5. taping \in {"preparing", "writing"} => listed' = arrived'
    BY <2>1, <2>2 DEF TapesFrame
  <2> QED BY <2>2, <2>3, <2>4, <2>5
<1>6. CASE AudioEnds \/ Overlong
  <2>1. ~ closed /\ closed' = TRUE /\ arrived' = arrived /\ TapeEnds
    BY <1>6 DEF AudioEnds, Overlong, Closes
  <2> QED BY <2>1 DEF TapeEnds, TypeOK
<1>7. CASE Prepared
  BY <1>7 DEF Prepared, TypeOK
<1>8. CASE FileFrame
  BY <1>8, Limits DEF FileFrame, TypeOK
<1>9. CASE WriteSidecar
  BY <1>9 DEF WriteSidecar, Complete, TypeOK
<1>10. CASE CaptureFails
  BY <1>10 DEF CaptureFails, TypeOK
<1>11. CASE UNCHANGED vars
  BY <1>11 DEF vars
<1> QED
  BY <1>1, <1>2, <1>3, <1>4, <1>5, <1>6, <1>7, <1>8, <1>9, <1>10, <1>11 DEF Next, CaptureStep

-----------------------------------------------------------------------------
(* What the caller said, and what was told of it. *)

TurnsInv == LastIsSeen /\ HeardIsSaid /\ UnderWayIsNoticed /\ ReplyIsAnnounced

\* News is exactly the next word, though only the last few are remembered: the
\* provider repeats no other word than its last.
LEMMA FreshIsNext ==
  ASSUME TurnsTypeOK, LastIsSeen, engine = "nova",
         NEW w \in 0 .. MaxWords, w \in {0, word + 1} \/ w = word
  PROVE  Fresh(w) <=> w > word
<1>1. word \in Nat /\ seen \in Seq(Words) /\ \A i \in DOMAIN seen : seen[i] \in Nat /\ seen[i] <= word
  BY Limits DEF TurnsTypeOK, LastIsSeen, Words
<1>2. w = word + 1 => Fresh(w)
  BY <1>1 DEF Fresh
<1>3. w = word /\ w # 0 => ~ Fresh(w)
  BY <1>1 DEF Fresh, LastIsSeen
<1> QED BY <1>1, <1>2, <1>3 DEF Fresh

LEMMA RememberedLast ==
  ASSUME TurnsTypeOK, LastIsSeen, NEW w \in Words, w > word
  PROVE  /\ Remembered(w) # <<>> /\ Remembered(w)[Len(Remembered(w))] = w
         /\ \A i \in DOMAIN Remembered(w) : Remembered(w)[i] <= w
<1>1. w \in Nat /\ word \in Nat /\ seen \in Seq(Words) /\ \A i \in 1 .. Len(seen) : seen[i] \in Nat /\ seen[i] <= w
  BY Limits DEF TurnsTypeOK, LastIsSeen, Words
<1> DEFINE kept == IF Len(seen) < SeenSize THEN seen ELSE Tail(seen)
<1>2. kept \in Seq(Words) /\ \A i \in 1 .. Len(kept) : kept[i] <= w
  <2>1. CASE Len(seen) < SeenSize
    BY <1>1, <2>1
  <2>2. CASE ~ (Len(seen) < SeenSize)
    <3>1. /\ seen # <<>> /\ Tail(seen) \in Seq(Words) /\ Len(Tail(seen)) = Len(seen) - 1
          /\ \A i \in 1 .. Len(Tail(seen)) : Tail(seen)[i] = seen[i + 1]
      BY <1>1, <2>2, Limits
    <3> QED BY <1>1, <2>2, <3>1
  <2> QED BY <2>1, <2>2
<1> HIDE DEF kept
<1>3. /\ Append(kept, w) # <<>> /\ Append(kept, w)[Len(Append(kept, w))] = w
      /\ \A i \in DOMAIN Append(kept, w) : Append(kept, w)[i] <= w
  <2>1. /\ Len(Append(kept, w)) = Len(kept) + 1 /\ Len(kept) \in Nat
        /\ Append(kept, w) \in Seq(Words) /\ Append(kept, w)[Len(kept) + 1] = w
        /\ \A i \in 1 .. Len(kept) : Append(kept, w)[i] = kept[i]
    BY <1>2
  <2>2. \A i \in 1 .. Len(kept) + 1 : Append(kept, w)[i] <= w
    BY <1>1, <1>2, <2>1
  <2>3. DOMAIN Append(kept, w) = 1 .. Len(kept) + 1 /\ Append(kept, w) # <<>>
    BY <2>1
  <2> QED BY <2>1, <2>2, <2>3
<1> QED BY <1>3 DEF Remembered, kept

LEMMA QuietTurns ==
  /\ Quiet => TurnsInv
  /\ Quietened => TurnsInv'
<1>1. ASSUME Quiet PROVE TurnsInv
  BY <1>1 DEF Quiet, TurnsInv, LastIsSeen, HeardIsSaid, UnderWayIsNoticed, ReplyIsAnnounced
<1>2. ASSUME Quietened PROVE TurnsInv'
  BY <1>2 DEF Quietened, TurnsInv, LastIsSeen, HeardIsSaid, UnderWayIsNoticed, ReplyIsAnnounced
<1> QED BY <1>1, <1>2

LEMMA TurnsUnchanged == TurnsInv /\ UNCHANGED <<turns, engine>> => TurnsInv'
  BY DEF turns, handler, reports, provider,
         TurnsInv, LastIsSeen, HeardIsSaid, UnderWayIsNoticed, ReplyIsAnnounced

LEMMA ResultsKeep ==
  ASSUME TurnsTypeOK, TurnsInv, NEW w \in 0 .. MaxWords, NEW final \in BOOLEAN, NEW ends \in BOOLEAN,
         Results(w, final, ends)
  PROVE  TurnsInv'
<1> DEFINE kept == IF Reopens(w) THEN <<>> ELSE pieces
           p == IF final /\ Fresh(w) THEN Append(kept, w) ELSE kept
           c == completed /\ ~ Reopens(w)
           all == IF w > word THEN Append(due, w) ELSE due
<1>0. engine = "nova" /\ engine' = engine /\ (ends => final)
  BY DEF Results
<1>1. Fresh(w) <=> w > word
  <2>1. w \in {0, word + 1} \/ w = word
    BY DEF Results
  <2> QED BY <1>0, <2>1, FreshIsNext DEF TurnsInv
<1>2. w > word => w \in Words
  BY Limits DEF Words, TurnsTypeOK
<1>3. /\ Fresh(w) \in BOOLEAN /\ Reopens(w) \in BOOLEAN /\ Begins(w) \in BOOLEAN
      /\ completed \in BOOLEAN /\ speaking \in BOOLEAN /\ noticed \in BOOLEAN /\ surprised \in BOOLEAN
      /\ pieces \in Seq(Words) /\ due \in Seq(Words)
  BY DEF Fresh, Reopens, Begins, TurnsTypeOK
\* what the handler keeps is what the provider has not yet ended
<1>4. final => p = (IF c THEN pieces ELSE all)
  BY <1>1, <1>3 DEF TurnsInv, HeardIsSaid, Reopens
<1>5. c => ~ Fresh(w) /\ due = <<>> /\ all = due
  BY <1>1, <1>3 DEF TurnsInv, HeardIsSaid, Reopens
\* and a reply that is under way after this message has been announced by it or before
<1>6. ~ c /\ (speaking \/ Fresh(w) \/ p # <<>>) => noticed \/ Begins(w)
  <2>1. CASE Fresh(w)
    BY <1>3, <2>1 DEF TurnsInv, UnderWayIsNoticed, Begins, Reopens
  <2>2. CASE ~ Fresh(w)
    BY <1>3, <2>2 DEF TurnsInv, UnderWayIsNoticed, Begins, Reopens
  <2> QED BY <2>1, <2>2
<1>7. LastIsSeen'
  <2>1. CASE final /\ Fresh(w)
    <3>1. seen' = Remembered(w) /\ word' = w
      BY <1>1, <2>1 DEF Results, Says
    <3> QED BY <1>0, <1>1, <1>2, <2>1, <3>1, RememberedLast DEF TurnsInv, LastIsSeen
  <2>2. CASE ~ (final /\ Fresh(w))
    <3>1. seen' = seen /\ word' = word
      BY <1>1, <2>2 DEF Results, Says, provider
    <3> QED BY <1>0, <3>1 DEF TurnsInv, LastIsSeen
  <2> QED BY <2>1, <2>2
<1>8. speaking' = (speaking \/ Fresh(w))
  BY DEF Results
<1>9. HeardIsSaid' /\ UnderWayIsNoticed' /\ ReplyIsAnnounced'
  <2>1. CASE ends /\ p # <<>> /\ ~ c
    <3>1. /\ completed' = TRUE /\ pieces' = <<>> /\ Reported(Begins(w), p)
          /\ Says(w, ends)
      BY <1>0, <2>1 DEF Results, Finished
    <3>2. p = all
      BY <1>0, <1>4, <2>1
    <3>3. due' = <<>> /\ said' = Append(said, all) /\ heard' = Append(heard, p)
      BY <2>1, <3>1, <3>2 DEF Says, Reported
    <3>4. surprised' = FALSE
      BY <1>3, <1>6, <2>1, <3>1 DEF Reported, TurnsInv, ReplyIsAnnounced
    <3> HIDE DEF p, c, all
    <3> QED BY <3>1, <3>2, <3>3, <3>4 DEF TurnsInv, HeardIsSaid, UnderWayIsNoticed, ReplyIsAnnounced
  <2>2. CASE ~ (ends /\ p # <<>> /\ ~ c)
    <3>1. completed' = c /\ pieces' = p /\ NotReported(Begins(w))
      BY <2>2 DEF Results, Finished
    <3>2. noticed' = (noticed \/ Begins(w)) /\ heard' = heard /\ surprised' = surprised
      BY <3>1 DEF NotReported
    <3>3. said' = said /\ due' = IF c THEN <<>> ELSE p
      <4>1. CASE ~ final
        <5>1. due' = due /\ said' = said
          BY <4>1 DEF Results, provider
        <5> QED BY <1>3, <4>1, <5>1 DEF TurnsInv, HeardIsSaid, Reopens
      <4>2. CASE final /\ ~ ends
        <5>1. due' = all /\ said' = said
          BY <4>2 DEF Results, Says
        <5> QED BY <1>4, <1>5, <4>2, <5>1
      <4>3. CASE ends
        <5>1. all = <<>>
          BY <1>0, <1>4, <1>5, <2>2, <4>3
        <5>2. due' = <<>> /\ said' = said
          BY <1>0, <4>3, <5>1 DEF Results, Says
        <5> QED BY <1>0, <1>4, <4>3, <5>1, <5>2
      <4> QED BY <4>1, <4>2, <4>3
    <3> HIDE DEF p, c, all
    <3> QED BY <1>6, <1>8, <3>1, <3>2, <3>3 DEF TurnsInv, HeardIsSaid, UnderWayIsNoticed, ReplyIsAnnounced
  <2> QED BY <2>1, <2>2
<1> QED BY <1>7, <1>9 DEF TurnsInv

LEMMA UtteranceEndKeeps ==
  ASSUME TurnsTypeOK, TurnsInv, UtteranceEnd
  PROVE  TurnsInv'
<1>1. /\ engine = "nova" /\ engine' = engine /\ speaking' = speaking /\ seen' = seen
      /\ Says(0, TRUE) /\ Finished(FALSE, pieces, completed)
  BY Zenon DEF UtteranceEnd
<1>2. /\ word' = word /\ due' = <<>>
      /\ said' = IF due # <<>> THEN Append(said, due) ELSE said
  BY <1>1, Limits DEF Says, TurnsTypeOK
<1>3. LastIsSeen'
  BY <1>1, <1>2 DEF TurnsInv, LastIsSeen
<1>4. CASE pieces # <<>> /\ ~ completed
  <2>1. /\ completed' = TRUE /\ pieces' = <<>> /\ heard' = Append(heard, pieces)
        /\ surprised' = (surprised \/ ~ (noticed \/ FALSE))
    BY <1>1, <1>4 DEF Finished, Reported
  <2> QED BY <1>2, <1>3, <1>4, <2>1 DEF TurnsInv, HeardIsSaid, UnderWayIsNoticed, ReplyIsAnnounced
<1>5. CASE ~ (pieces # <<>> /\ ~ completed)
  <2>1. /\ completed' = completed /\ pieces' = pieces /\ heard' = heard /\ surprised' = surprised
        /\ noticed' = (noticed \/ FALSE)
    BY <1>1, <1>5 DEF Finished, NotReported
  <2>2. noticed' = noticed
    BY <2>1 DEF TurnsTypeOK
  <2> QED BY <1>1, <1>2, <1>3, <1>5, <2>1, <2>2
          DEF TurnsInv, HeardIsSaid, UnderWayIsNoticed, ReplyIsAnnounced
<1> QED BY <1>4, <1>5

LEMMA FluxKeeps ==
  ASSUME TurnsTypeOK, TurnsInv, StartOrUpdate \/ \E w \in 0 .. MaxWords : EndOfTurn(w)
  PROVE  TurnsInv'
<1>0. engine = "flux" /\ ~ completed /\ pieces = <<>> /\ due = <<>>
  BY DEF TurnsInv, LastIsSeen, HeardIsSaid, StartOrUpdate, EndOfTurn
<1>1. CASE StartOrUpdate
  BY <1>0, <1>1
  DEF StartOrUpdate, NotReported, provider,
      TurnsInv, LastIsSeen, HeardIsSaid, UnderWayIsNoticed, ReplyIsAnnounced
<1>2. CASE \E w \in 0 .. MaxWords : EndOfTurn(w)
  <2> PICK w \in 0 .. MaxWords : EndOfTurn(w)
    BY <1>2
  <2>1. /\ engine' = engine /\ completed' = completed /\ pieces' = pieces /\ seen' = seen
        /\ speaking' = FALSE /\ w \in {0, word + 1} /\ Says(w, TRUE)
    BY DEF EndOfTurn
  <2>2. CASE w = 0
    <3>1. heard' = heard /\ surprised' = surprised
      BY <2>2 DEF EndOfTurn, NotReported
    <3>2. word' = word /\ due' = <<>> /\ said' = said
      BY <1>0, <2>1, <2>2, Limits DEF Says, TurnsTypeOK
    <3> QED BY <1>0, <2>1, <3>1, <3>2
            DEF TurnsInv, LastIsSeen, HeardIsSaid, UnderWayIsNoticed, ReplyIsAnnounced
  <2>3. CASE w # 0
    <3>1. heard' = Append(heard, <<w>>) /\ surprised' = (surprised \/ ~ (noticed \/ ~ speaking))
      BY <2>3 DEF EndOfTurn, Reported
    <3>2. word' = w /\ w > word /\ w \in Words /\ due' = <<>> /\ said' = Append(said, <<w>>)
      BY <1>0, <2>1, <2>3, Limits DEF Says, TurnsTypeOK, Words
    <3>3. ~ surprised'
      BY <1>0, <3>1 DEF TurnsInv, UnderWayIsNoticed, ReplyIsAnnounced
    <3>4. \A i \in DOMAIN seen' : seen'[i] <= word'
      BY <2>1, <3>2, Limits DEF TurnsInv, LastIsSeen, TurnsTypeOK, Words
    <3> QED BY <1>0, <2>1, <3>1, <3>2, <3>3, <3>4
            DEF TurnsInv, LastIsSeen, HeardIsSaid, UnderWayIsNoticed, ReplyIsAnnounced
  <2> QED BY <2>2, <2>3
<1> QED BY <1>1, <1>2

LEMMA TurnsStep ==
  ASSUME TypeOK, TurnsInv, [Next]_vars
  PROVE  TurnsInv'
<1>1. CASE Opened \/ CloseWindow \/ Frame
  BY <1>1, TurnsUnchanged DEF Opened, CloseWindow, Frame
<1>2. CASE NovaFails \/ FluxFails \/ ConnectionTimesOut
  BY <1>2, QuietTurns DEF NovaFails, FluxFails, ConnectionTimesOut, Fails
<1>3. CASE Receives
  BY <1>3, ResultsKeep, UtteranceEndKeeps, FluxKeeps, TypeParts DEF Receives, Message
<1>4. CASE \E ms \in Tunings : PushWindow(ms)
  BY <1>4, QuietTurns, TurnsUnchanged DEF PushWindow, Opens
<1>5. CASE BufferFull \/ AudioEnds \/ Overlong
  BY <1>5, QuietTurns DEF BufferFull, AudioEnds, Overlong, Closes
<1>6. CASE CaptureStep \/ CaptureFails
  BY <1>6, TurnsUnchanged DEF CaptureStep, CaptureFails, Prepared, FileFrame, WriteSidecar
<1>7. CASE UNCHANGED vars
  BY <1>7, TurnsUnchanged DEF vars
<1> QED BY <1>1, <1>2, <1>3, <1>4, <1>5, <1>6, <1>7 DEF Next

-----------------------------------------------------------------------------
(* The theorems. *)

LEMMA IInvParts == IInv <=> TypeOK /\ ConnectionInv /\ TimelineIsWhole /\ TurnsInv /\ TapeInv
  BY DEF IInv, ConnectionInv, TurnsInv, TapeInv

LEMMA IInvInit == Init => IInv
<1>1. Init => TurnsInv
  BY QuietTurns DEF Init
<1> QED BY <1>1, TypeInit, ConnectionInit, TimelineInit, TapeInit, IInvParts

LEMMA IInvStep == IInv /\ [Next]_vars => IInv'
<1> SUFFICES ASSUME IInv, [Next]_vars PROVE IInv'
  OBVIOUS
<1>1. TypeOK /\ ConnectionInv /\ TimelineIsWhole /\ TurnsInv /\ TapeInv
  BY IInvParts
<1>2. TypeOK' /\ ConnectionInv' /\ TimelineIsWhole' /\ TurnsInv' /\ TapeInv'
  BY <1>1, TypeStep, ConnectionStep, TimelineStep, TurnsStep, TapeStep
<1> QED BY <1>2 DEF IInv, ConnectionInv, TurnsInv, TapeInv

\* The inductive invariant holds in every reachable state of a call's audio
\* (openAudio of worker.ts with deepgram.ts, deepgram-flux.ts, pcm-capture.ts).
THEOREM SpeechInvariance == Spec => []IInv
  BY IInvInit, IInvStep, PTL DEF Spec

\* Whatever is lost, replaced or late, the connection in use was given every
\* frame since it was asked for, once and in order (worker.ts buffer).
THEOREM TimelineHolds == Spec => []TimelineIsWhole
<1>1. IInv => TimelineIsWhole
  BY DEF IInv
<1> QED BY <1>1, SpeechInvariance, PTL

\* No provider connection outlives the call's need of it (dropProvider).
THEOREM NoStrayHolds == Spec => []NoStrayConnection
<1>1. IInv => NoStrayConnection
  BY DEF IInv
<1> QED BY <1>1, SpeechInvariance, PTL

\* An open window always has its connection (retune, providerFailed).
THEOREM WindowsHaveProviders == Spec => []WindowHasProvider
<1>1. IInv => WindowHasProvider
  BY DEF IInv
<1> QED BY <1>1, SpeechInvariance, PTL

\* Replies are told as they were ended, whatever is repeated, and with any
\* number of remembered results (deepgram.ts seen, completed, pieces).
THEOREM HeardHolds == Spec => []HeardIsSaid
<1>1. IInv => HeardIsSaid
  BY DEF IInv
<1> QED BY <1>1, SpeechInvariance, PTL

\* Every reply is announced before it is told (onSpeechStarted).
THEOREM AnnouncedHolds == Spec => []ReplyIsAnnounced
<1>1. IInv => ReplyIsAnnounced
  BY DEF IInv
<1> QED BY <1>1, SpeechInvariance, PTL

\* A capture that did not fail is complete and lists what it holds.
THEOREM CaptureHolds == Spec => []ListMatchesFile
<1>1. IInv => ListMatchesFile
  BY DEF IInv
<1> QED BY <1>1, SpeechInvariance, PTL
=============================================================================
