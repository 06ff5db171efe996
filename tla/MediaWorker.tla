---------------------------- MODULE MediaWorker ----------------------------
(***************************************************************************)
(* The media worker's entry of one call (media-worker/worker.ts): the      *)
(* window the API last opened, the audio socket of the gateway, the        *)
(* speech provider's stream, and the transcripts on their way to the API.  *)
(*                                                                         *)
(* The entries of other calls matter only where MAX_CALLS and              *)
(* MAX_RESERVATIONS refuse this one, which may happen at any time.  Speech *)
(* heard outside a window changes nothing and is not an action.            *)
(***************************************************************************)
EXTENDS MediaNet

VARIABLES
  window,     \* entry.window: its id and endpointing
  life,       \* of the reservation: "none", "armed", or "spent" after its timer
  audio,      \* "none", "connecting" during the lookup, "open"
  stream,     \* the provider's stream, and the endpointing it was opened with
  reported,   \* speakingReportedFor
  receipts,   \* transcripts being delivered, each as the request in flight
  sockets,    \* audio sockets so far
  spoken      \* history: the window of each utterance submitted

workerVars == <<window, life, audio, stream, reported, receipts, sockets, spoken>>

NoWindow == [id |-> 0, tuning |-> None]
Window(w, t) == [id |-> w, tuning |-> t]
NoStream == [at |-> "none", tuning |-> None]

WorkerTypes ==
  /\ window \in {NoWindow} \cup {Window(w, t) : w \in Windows, t \in Tunings}
  /\ life \in {"none", "armed", "spent"} /\ audio \in {"none", "connecting", "open"}
  /\ stream \in {NoStream} \cup [at : {"opening", "open"}, tuning : Tunings]
  /\ reported \in Windows \cup {0}
  /\ receipts \subseteq Transcripts \cap awaiting
  /\ sockets \in 0..MaxSockets
  /\ spoken \in [Utterances -> Windows \cup {0}]

WorkerInit ==
  /\ window = NoWindow /\ life = "none" /\ audio = "none" /\ stream = NoStream
  /\ reported = 0 /\ receipts = {} /\ sockets = 0
  /\ spoken = [u \in Utterances |-> 0]

\* reserve(): an entry found is used as it is.
Reserves == life' = IF life = "none" THEN "armed" ELSE life

\* release(): the entry goes when nothing holds it, and its timer with it.
HeldByAudio == audio' # "none" \/ window' # NoWindow  \* mutant
Held == audio' # "none" \/ receipts' # {} \/ window' # NoWindow
Released == /\ life' = IF Held THEN life ELSE "none"
            /\ reported' = IF Held THEN reported ELSE 0

-----------------------------------------------------------------------------
(* handleWindow() *)

\* openProvider(): the stream at hand serves unless it was opened with another value.
Tuned(t) == IF stream.tuning = t THEN stream ELSE [at |-> "opening", tuning |-> t]

OpenWindow(w, t) ==
  /\ Open(w, t) \in requests
  /\ \/ /\ window' = Window(w, t) /\ Reserves
        /\ stream' = IF audio = "open" THEN Tuned(t) ELSE stream
        /\ Answers(Open(w, t), Ok)
     \/ life = "none" /\ Answers(Open(w, t), Failed) /\ UNCHANGED <<window, life, stream>>
  /\ UNCHANGED <<audio, reported, receipts, sockets, spoken>>

CloseWindow(w) ==
  /\ Close(w) \in requests /\ Takes(Close(w))
  /\ UNCHANGED <<audio, stream, receipts, sockets, spoken>>
  /\ \/ window.id = w /\ window' = NoWindow /\ Released
     \/ window.id # w /\ UNCHANGED <<window, life, reported>>

-----------------------------------------------------------------------------
(* The audio socket *)

\* An upgrade; with one before it, or with five calls on, it is refused.
Connect ==
  /\ audio = "none" /\ sockets < MaxSockets
  /\ sockets' = sockets + 1 /\ audio' = "connecting" /\ Reserves
  /\ Asks(Lookup(sockets + 1))
  /\ UNCHANGED <<window, stream, reported, receipts, spoken>>

\* A window pushed while the lookup was in flight is newer than its reply.
Looked(body) ==
  IF body.win # 0 /\ window = NoWindow THEN Window(body.win, body.tuning) ELSE window
FirstTuningOfLookup(body) == body.tuning  \* mutant
FirstTuning(body) == IF Looked(body) = NoWindow THEN body.tuning ELSE Looked(body).tuning
Accept(body) ==
  /\ audio = "connecting" /\ Replied(Lookup(sockets), body) /\ Settles(Lookup(sockets))
  /\ body.code = "active"
  /\ window' = Looked(body)
  /\ UNCHANGED <<receipts, sockets, spoken>>
  /\ \/ audio' = "open" /\ stream' = Tuned(FirstTuning(body)) /\ UNCHANGED <<life, reported>>
     \/ audio' = "none" /\ UNCHANGED stream /\ Released  \* the socket went before the reply

\* abandon(): the lookup failed, says the call is over, or the socket went first.
Abandon ==
  /\ audio = "connecting" /\ audio' = "none" /\ Settles(Lookup(sockets))
  /\ UNCHANGED <<window, stream, receipts, sockets, spoken>> /\ Released

\* closeAudio(): without audio there is no listening.
AudioEnds ==
  /\ audio = "open" /\ audio' = "none" /\ stream' = NoStream /\ window' = NoWindow
  /\ UNCHANGED <<receipts, sockets, spoken>> /\ Released
LostTurn == IF window = NoWindow THEN {} ELSE {Failure(window.id)}
AudioCloses == AudioEnds /\ UNCHANGED net
AudioFails == AudioEnds /\ Notifies(LostTurn, {})

-----------------------------------------------------------------------------
(* The speech provider *)

ProviderOpens ==
  /\ stream.at = "opening" /\ stream' = [stream EXCEPT !.at = "open"]
  /\ UNCHANGED <<window, life, audio, reported, receipts, sockets, spoken, net>>

\* providerFailed(): the turn it lands in is lost, the audio is not.
ProviderFails ==
  /\ stream.at # "none" /\ stream' = NoStream /\ window' = NoWindow
  /\ Notifies(LostTurn, {})
  /\ UNCHANGED <<life, audio, reported, receipts, sockets, spoken>>

SpeechStarts ==
  /\ stream.at = "open" /\ window # NoWindow /\ reported # window.id
  /\ reported' = window.id /\ Notifies({Speaking(window.id)}, {})
  /\ UNCHANGED <<window, life, audio, stream, receipts, sockets, spoken>>

\* utterance(), and the first attempt of deliver().
Utter(u) ==
  /\ stream.at = "open" /\ window # NoWindow
  /\ spoken[u] = 0 /\ \A v \in 1..(u - 1) : spoken[v] # 0
  /\ spoken' = [spoken EXCEPT ![u] = window.id] /\ window' = NoWindow
  /\ LET r == Transcript(window.id, u, 1) IN
       receipts' = receipts \cup {r} /\ Asks(r)
  /\ UNCHANGED <<life, audio, stream, reported, sockets>>

-----------------------------------------------------------------------------
(* deliver() *)

MayRetry(r) == r.attempt < Attempts
Unsettled(r) == r \in receipts /\ \A body \in {Ok, Closed} : ~Replied(r, body)
Delivered(r) ==
  /\ r \in receipts /\ (Replied(r, Ok) \/ Replied(r, Closed)) /\ Settles(r)
  /\ receipts' = receipts \ {r}
  /\ UNCHANGED <<window, audio, stream, sockets, spoken>> /\ Released

\* A 5xx or a timeout: the same receipt again, or the API is told.
Again(r) == Transcript(r.win, r.utt, r.attempt + 1)
Retry(r) ==
  /\ Unsettled(r) /\ MayRetry(r)
  /\ receipts' = (receipts \ {r}) \cup {Again(r)}
  /\ Exchange({}, {Again(r)}, {r}, {})
  /\ UNCHANGED <<window, life, audio, stream, reported, sockets, spoken>>
GiveUp(r) ==
  /\ Unsettled(r) /\ ~MayRetry(r)
  /\ receipts' = receipts \ {r} /\ Notifies({Failure(r.win)}, {r})
  /\ UNCHANGED <<window, audio, stream, sockets, spoken>> /\ Released

-----------------------------------------------------------------------------
(* The end *)

\* The reservation's timer: fail() the audio, abandon the upgrade, drop the window.
LifetimeEnds ==
  /\ life = "armed" /\ life' = IF receipts = {} THEN "none" ELSE "spent"
  /\ reported' = IF receipts = {} THEN 0 ELSE reported
  /\ audio' = "none" /\ stream' = NoStream /\ window' = NoWindow
  /\ Notifies(IF audio = "open" THEN LostTurn ELSE {},
              IF audio = "connecting" THEN {Lookup(sockets)} ELSE {})
  /\ UNCHANGED <<receipts, sockets, spoken>>

\* close() or a crash: the new worker knows no call.
Exit ==
  /\ life' = "none" /\ audio' = "none" /\ stream' = NoStream /\ window' = NoWindow
  /\ reported' = 0 /\ receipts' = {}
  /\ Exchange({}, {}, receipts \cup {Lookup(n) : n \in 1..MaxSockets}, {})
  /\ UNCHANGED <<sockets, spoken>>
=============================================================================
