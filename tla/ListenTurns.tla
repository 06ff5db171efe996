---------------------------- MODULE ListenTurns ----------------------------
(***************************************************************************)
(* The conversation of one answered call in CallOrchestrator               *)
(* (server/orchestrator.ts): clips, listen windows, their timers, the      *)
(* transcripts and notices the media worker posts.                         *)
(*                                                                         *)
(* Work that moves the conversation on is queued per call (enqueue());     *)
(* speech notices, media errors, hangups and finish() are not, and run     *)
(* at any await of the job at the head.  The store is healthy here, and    *)
(* no shutdown or reconciliation runs: CallLifecycle has those.  finish()  *)
(* is one step to its start and one to its outcome: the channel is gone,   *)
(* or its hangup is not confirmed and the call goes on.                    *)
(***************************************************************************)
EXTENDS MediaNet, Sequences

CONSTANTS
  Endpointing,    \* what the listen node of each window asks for
  MaxRefusals     \* bound on the hangups that are not confirmed

ASSUME TurnAssumption == Endpointing \in [Windows -> Tunings] /\ MaxRefusals \in Nat

VARIABLES
  status,     \* "playing" (or answered), "listening", "classifying", "over"
  win,        \* listenWindowId, or 0
  opened,     \* windows drawn so far
  tuning,     \* the endpointing of the listen node last entered
  last,       \* lastListenWindowId and lastUtteranceId
  timer,      \* listenTimers: the timer armed, and its window
  speaking,   \* speakingWindows
  clip,       \* TRUE while a clip plays whose end is still to be reported
  jobs,       \* operations: the call's serial queue, the running job first
  step,       \* where the running job stands
  finishing,  \* a finish() is in terminations
  heard,      \* history: the utterance each window was answered with
  refused     \* history: the window each refused hangup left without its timer, or 0

turnVars == <<win, opened, tuning, last, speaking, clip, heard, refused>>
apiVars == <<status, timer, jobs, step, finishing, turnVars>>

NoTimer == [kind |-> "none", win |-> 0]
Timer(kind, w) == [kind |-> kind, win |-> w]
Turn == [kind |-> "turn"]
NoSpeech(w) == [kind |-> "noSpeech", win |-> w]
Jobs == {Turn} \cup {NoSpeech(w) : w \in Windows} \cup Transcripts

ApiTypes ==
  /\ status \in {"playing", "listening", "classifying", "over"}
  /\ win \in Windows \cup {0} /\ opened \in Windows \cup {0} /\ speaking \in Windows \cup {0}
  /\ tuning \in Tunings \cup {None}
  /\ last \in [win : Windows \cup {0}, utt : Utterances \cup {0}]
  /\ timer.kind \in {"none", "silence", "speaking"} /\ timer.win \in Windows \cup {0}
  /\ clip \in BOOLEAN /\ finishing \in BOOLEAN
  /\ jobs \in Seq(Jobs)
  /\ step \in {"none", "playing", "entering", "posting", "closing", "routing", "failing", "refailing"}
  /\ heard \in [Windows -> Utterances \cup {0}] /\ refused \in Seq(Windows \cup {0})

\* answer(): the stream is started, and the flow advances from its start node.
ApiInit ==
  /\ status = "playing" /\ win = 0 /\ opened = 0 /\ speaking = 0 /\ clip = FALSE
  /\ tuning = None /\ heard = [w \in Windows |-> 0]
  /\ last = [win |-> 0, utt |-> 0] /\ timer = NoTimer
  /\ jobs = <<Turn>> /\ step = "none" /\ finishing = FALSE /\ refused = <<>>

Active == status # "over"
Acts == Active /\ ~finishing

-----------------------------------------------------------------------------
(* finish() and complete() *)

\* finish() returns for a terminal call, and joins the termination in flight.
Finishes ==
  /\ finishing' = Active
  /\ timer' = IF Acts THEN NoTimer ELSE timer
  /\ UNCHANGED status
Unfinished == UNCHANGED <<status, timer, finishing>>

\* The operator, the duration limit, the voicemail detector or a shutdown ends the call.
Stop ==
  /\ Acts /\ Finishes
  /\ UNCHANGED <<jobs, step, turnVars, net>>

\* complete(): a hangup event, which may come at any time, or the hangup that finish()
\* asked for is confirmed.
Completes ==
  /\ Active
  /\ status' = "over" /\ win' = 0 /\ timer' = NoTimer /\ finishing' = FALSE
  /\ UNCHANGED <<opened, tuning, last, speaking, clip, heard, refused, jobs, step, net>>

\* A listening call once enterListening() is over.
TurnIsOpen == status = "listening" /\ step \notin {"entering", "posting"}

\* The hangup fails: finish() rejects and forgets the termination.  The call stays where
\* it is, without the timers that finish() cleared.
HangupRefused ==
  /\ finishing /\ finishing' = FALSE
  /\ Len(refused) < MaxRefusals
  /\ refused' = Append(refused, IF TurnIsOpen THEN win ELSE 0)
  /\ UNCHANGED <<status, timer, jobs, step, net>>
  /\ UNCHANGED <<win, opened, tuning, last, speaking, clip, heard>>

-----------------------------------------------------------------------------
(* What arrives outside the queue *)

PlaybackStopped ==
  /\ clip /\ clip' = FALSE
  /\ jobs' = IF Acts THEN Append(jobs, Turn) ELSE jobs
  /\ UNCHANGED <<status, timer, step, finishing, net>>
  /\ UNCHANGED <<win, opened, tuning, last, speaking, heard, refused>>

\* POST /api/calls/:id/transcript
TranscriptArrives(r) ==
  /\ r \in requests \cap Transcripts
  /\ jobs' = Append(jobs, r) /\ Takes(r)
  /\ UNCHANGED <<step, turnVars>> /\ Unfinished

\* The timer fires: noSpeech() joins the queue.
TimerFires ==
  /\ timer.kind # "none"
  /\ jobs' = Append(jobs, NoSpeech(timer.win)) /\ timer' = NoTimer
  /\ UNCHANGED <<status, step, finishing, turnVars, net>>

\* speechStarted(): one bounded wait in place of the silence timeout.
InWindow(w) == status = "listening" /\ win = w
NoGrace(w) == NoTimer  \* mutant
Grace(w) == Timer("speaking", w)
SpeechStarted(w) ==
  /\ Speaking(w) \in requests /\ Takes(Speaking(w))
  /\ IF InWindow(w) /\ Acts /\ speaking # w
       THEN speaking' = w /\ timer' = Grace(w)
       ELSE UNCHANGED <<speaking, timer>>
  /\ UNCHANGED <<status, jobs, step, finishing>>
  /\ UNCHANGED <<win, opened, tuning, last, clip, heard, refused>>

\* mediaError()
MediaError(w) ==
  /\ Failure(w) \in requests /\ Takes(Failure(w))
  /\ IF InWindow(w) THEN Finishes ELSE Unfinished
  /\ UNCHANGED <<jobs, step, turnVars>>

\* GET /api/media/calls/:id/window: listenWindow()
CurrentWindow ==
  IF status = "listening" THEN Status("active", win, tuning)
  ELSE IF Active THEN Status("active", 0, Warmup) ELSE Status("over", 0, None)
WindowLookedUp(n) ==
  /\ Lookup(n) \in requests /\ Answers(Lookup(n), CurrentWindow)
  /\ UNCHANGED apiVars

-----------------------------------------------------------------------------
(* The jobs *)

Job == Head(jobs)
Running(kind) == jobs # <<>> /\ step = "none" /\ Job.kind = kind

\* The job is over; a transcript's request is answered.
JobEnds(body, settled) ==
  /\ jobs' = Tail(jobs) /\ step' = "none"
  /\ Exchange({}, {}, settled, IF Job.kind = "transcript" THEN {Reply(Job, body)} ELSE {})

\* enterListening(), to the save of its transition.
EntersListening(settled) ==
  /\ opened < MaxWindows
  /\ opened' = opened + 1 /\ win' = opened + 1
  /\ tuning' = Endpointing[opened + 1]
  /\ status' = "listening" /\ speaking' = 0 /\ step' = "entering"
  /\ UNCHANGED <<timer, finishing, last, clip, heard, refused, jobs>>
  /\ Exchange({}, {}, settled, {})

\* playNode(), to the save of its transition.
PlaysClip(settled) ==
  /\ status' = "playing" /\ clip' = TRUE /\ step' = "playing"
  /\ UNCHANGED <<timer, finishing, win, opened, tuning, last, speaking, heard, refused, jobs>>
  /\ Exchange({}, {}, settled, {})

\* An end node, a flow that cannot go on, or an await that threw: finish() is awaited.
Fails(settled) ==
  /\ Finishes /\ step' = "failing"
  /\ UNCHANGED <<jobs, turnVars>> /\ Exchange({}, {}, settled, {})
Returns(settled) == JobEnds(Ok, settled) /\ UNCHANGED turnVars /\ Unfinished

\* advance(): nothing once the call is over or being finished.
Advances(settled) ==
  \/ Acts /\ (EntersListening(settled) \/ PlaysClip(settled) \/ Fails(settled))
  \/ ~Acts /\ Returns(settled)

\* playbackStopped(), and the end of answer().
TurnStarts ==
  /\ Running("turn")
  /\ IF status = "playing" THEN Advances({}) ELSE Returns({})

\* classifyTranscript() and noSpeech() to their first save.
AlreadyHeardOrOver(r) == (last.win = r.win /\ last.utt = r.utt) \/ ~Acts  \* mutant
AlreadyHeard(r) == last.win = r.win /\ last.utt = r.utt
WaitsForAny(w) == status = "listening" /\ ~finishing  \* mutant
WaitsFor(w) == InWindow(w) /\ ~finishing
LeavesWindow ==
  /\ timer' = NoTimer /\ win' = 0 /\ status' = "classifying" /\ step' = "closing"
  /\ UNCHANGED <<finishing, opened, tuning, speaking, clip>>
TranscriptStarts ==
  /\ Running("transcript")
  /\ \/ AlreadyHeard(Job) /\ Returns({})
     \/ ~AlreadyHeard(Job) /\ ~WaitsFor(Job.win)
          /\ JobEnds(Closed, {}) /\ UNCHANGED turnVars /\ Unfinished
     \/ ~AlreadyHeard(Job) /\ WaitsFor(Job.win)
          /\ LeavesWindow /\ last' = [win |-> win, utt |-> Job.utt]
          /\ heard' = [heard EXCEPT ![win] = Job.utt]
          /\ UNCHANGED <<refused, jobs, net>>
NoSpeechStarts ==
  /\ Running("noSpeech")
  /\ \/ ~WaitsFor(Job.win) /\ Returns({})
     \/ WaitsFor(Job.win) /\ LeavesWindow /\ UNCHANGED <<last, heard, refused, jobs, net>>

\* The awaits.  A call that ends meanwhile has win = 0; the job keeps its own copy.
EntrySaved ==
  /\ step = "entering" /\ step' = "posting"
  /\ Asks(Open(opened, tuning))
  /\ UNCHANGED <<jobs, turnVars>> /\ Unfinished
Silence(w) == Timer("silence", w)
WindowOpened ==
  LET r == Open(opened, tuning) IN
  /\ step = "posting" /\ Replied(r, Ok)
  /\ timer' = IF Acts THEN Silence(opened) ELSE timer
  /\ JobEnds(Ok, {r})
  /\ UNCHANGED <<status, finishing, turnVars>>
WindowNotOpened ==
  LET r == Open(opened, tuning) IN
  /\ step = "posting" /\ GivenUp(r) /\ ~Replied(r, Ok) /\ Fails({r})
\* stopListening() swallows the failure of its request; the classifier runs after it,
\* and nothing is looked at before both are over.
ClosingSaved ==
  /\ step = "closing" /\ step' = "routing"
  /\ Notifies({Close(Job.win)}, {})
  /\ UNCHANGED <<jobs, turnVars>> /\ Unfinished
\* The classifier, the route and the fallback.
Routes == step = "routing" /\ (Advances({}) \/ Fails({}))
ClipStarts == step = "playing" /\ (Returns({}) \/ Fails({}))
\* advance() awaited a finish() that rejected: the catch around it calls finish() again.
FinishRetried ==
  /\ step = "failing" /\ Acts
  /\ Finishes /\ step' = "refailing"
  /\ UNCHANGED <<jobs, turnVars, net>>
FinishAwaited ==
  /\ step \in {"failing", "refailing"} /\ ~finishing
  /\ \E body \in {Ok, Failed} : JobEnds(body, {})
  /\ UNCHANGED turnVars /\ Unfinished
=============================================================================
