---------------------------- MODULE Conversation ----------------------------
(***************************************************************************)
(* One answered call: the API's ListenTurns and the MediaWorker over the   *)
(* requests between them.                                                  *)
(***************************************************************************)
EXTENDS ListenTurns, MediaWorker

vars == <<net, apiVars, workerVars>>

Init == NetInit /\ ApiInit /\ WorkerInit
\* A step of one side leaves the other side as it is.
Next ==
  \/ Stop /\ UNCHANGED workerVars
  \/ Completes /\ UNCHANGED workerVars
  \/ HangupRefused /\ UNCHANGED workerVars
  \/ PlaybackStopped /\ UNCHANGED workerVars
  \/ TimerFires /\ UNCHANGED workerVars
  \/ TurnStarts /\ UNCHANGED workerVars
  \/ TranscriptStarts /\ UNCHANGED workerVars
  \/ NoSpeechStarts /\ UNCHANGED workerVars
  \/ EntrySaved /\ UNCHANGED workerVars
  \/ WindowOpened /\ UNCHANGED workerVars
  \/ WindowNotOpened /\ UNCHANGED workerVars
  \/ ClosingSaved /\ UNCHANGED workerVars
  \/ Routes /\ UNCHANGED workerVars
  \/ ClipStarts /\ UNCHANGED workerVars
  \/ FinishRetried /\ UNCHANGED workerVars
  \/ FinishAwaited /\ UNCHANGED workerVars
  \/ \E r \in requests : TranscriptArrives(r) /\ UNCHANGED workerVars
  \/ \E w \in Windows : SpeechStarted(w) /\ UNCHANGED workerVars
  \/ \E w \in Windows : MediaError(w) /\ UNCHANGED workerVars
  \/ \E n \in 1..MaxSockets : WindowLookedUp(n) /\ UNCHANGED workerVars
  \/ Connect /\ UNCHANGED apiVars
  \/ Abandon /\ UNCHANGED apiVars
  \/ AudioCloses /\ UNCHANGED apiVars
  \/ AudioFails /\ UNCHANGED apiVars
  \/ ProviderOpens /\ UNCHANGED apiVars
  \/ ProviderFails /\ UNCHANGED apiVars
  \/ SpeechStarts /\ UNCHANGED apiVars
  \/ LifetimeEnds /\ UNCHANGED apiVars
  \/ Exit /\ UNCHANGED apiVars
  \/ \E w \in Windows, t \in Tunings : OpenWindow(w, t) /\ UNCHANGED apiVars
  \/ \E w \in Windows : CloseWindow(w) /\ UNCHANGED apiVars
  \/ \E body \in Statuses : Accept(body) /\ UNCHANGED apiVars
  \/ \E u \in Utterances : Utter(u) /\ UNCHANGED apiVars
  \/ \E r \in receipts : Delivered(r) /\ UNCHANGED apiVars
  \/ \E r \in receipts : Retry(r) /\ UNCHANGED apiVars
  \/ \E r \in receipts : GiveUp(r) /\ UNCHANGED apiVars
Spec == Init /\ [][Next]_vars

-----------------------------------------------------------------------------
(* Properties *)

TypeOK == NetTypes /\ ApiTypes /\ WorkerTypes

\* A window is answered with an utterance spoken in it, however late a transcript
\* arrives, is retried, or comes after the next window opened.
HeardWhereSpoken == \A w \in Windows : heard[w] # 0 => spoken[heard[w]] = w

\* A 2xx for a transcript means this utterance moved the call on: the worker never
\* drops a receipt the API passed over.
AcknowledgedIsHeard ==
  \A a \in replies : a.to.kind = "transcript" /\ a.body = Ok => heard[a.to.win] = a.to.utt

\* The window being listened to has the endpointing its node asked for, and with audio
\* a provider stream opened with it, whether the window was pushed or looked up, before
\* the audio or over the stream of another.
WindowIsHeardAsAsked ==
  /\ window.id # 0 /\ window.id = win => window.tuning = tuning
  /\ window.id # 0 /\ audio = "open" => stream.tuning = window.tuning

\* A reservation, one of 25, is held exactly while a socket, a window or a receipt
\* needs it: a receipt still being delivered outlives the audio with its entry.
ReservedWhileInUse ==
  life # "none" <=> audio # "none" \/ window # NoWindow \/ receipts # {}

\* An open window has a timer, or its noSpeech() in the queue: no turn waits forever.
\* The exception is a turn in which a hangup was refused: finish() had cleared its timer,
\* and the next hangup is up to an operator or a reconnection.
Awaited(w) == timer.win = w \/ \E i \in DOMAIN jobs : jobs[i] = NoSpeech(w)
NoTurnWithoutEnd ==
  TurnIsOpen /\ ~finishing /\ (\A i \in DOMAIN refused : refused[i] # win) => Awaited(win)
=============================================================================
