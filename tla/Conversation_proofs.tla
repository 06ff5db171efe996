------------------------- MODULE Conversation_proofs -------------------------
(***************************************************************************)
(* Proofs about one answered call, for any number of windows, utterances,  *)
(* sockets, notices and attempts, and any endpointing values.              *)
(*                                                                         *)
(* IInv of Conversation is inductive.  The steps of the API are sorted by  *)
(* what they do to the queue (ApiStep); each part of IInv has a lemma for  *)
(* the steps of the API and one for those of the worker.                   *)
(*                                                                         *)
(* The last part is about FlowRun, which shares no variable with it: the   *)
(* flow such a call follows.  FlowInv is its inductive invariant.          *)
(***************************************************************************)
EXTENDS Conversation, FlowRun, WellFoundedInduction, TLAPS

USE NetAssumption, TurnAssumption

-----------------------------------------------------------------------------
(* The invariant of the proofs. *)

\* Windows are drawn in order, and the call is in the latest or in none.  What is known of
\* the latest, on its way to the worker, back, or there, is what its node asked for.
Known(w, t) == w <= opened /\ (w = opened => t = tuning)
WindowsInOrder ==
  /\ win = IF status = "listening" THEN opened ELSE 0
  /\ status = "listening" \/ step \in {"entering", "posting"} => opened # 0
  /\ opened # 0 => tuning \in Tunings
  /\ \A w \in Windows, t \in Tunings : Open(w, t) \in requests => Known(w, t)
  /\ \A a \in replies : a.body.code = "active" =>
       a.body.tuning \in Tunings /\ (a.body.win # 0 => Known(a.body.win, a.body.tuning))
  /\ window.id # 0 => Known(window.id, window.tuning)

\* A provider stream has its audio, and during a window the tuning of that window.
StreamServesAudio ==
  /\ stream.at # "none" => audio = "open"
  /\ window.id # 0 /\ audio = "open" => stream.tuning = window.tuning

\* A transcript says where its utterance was spoken: on its way, in the queue, in a receipt.
Queued == {jobs[i] : i \in DOMAIN jobs}
TranscriptsAreTrue ==
  /\ \A r \in Transcripts \cap (requests \cup receipts \cup Queued) : spoken[r.utt] = r.win
  /\ \A u \in Utterances : spoken[u] <= opened

\* The job under way is at the head of the queue, and a window it left is not the call's again.
JobUnderWay ==
  /\ step # "none" => jobs # <<>>
  /\ step \in {"closing", "routing"} => status # "listening"
  /\ step = "closing" => Job.kind # "turn"
  /\ step # "none" /\ Job.kind = "noSpeech" => Job.win # win
  /\ step # "none" /\ Job.kind = "transcript" => heard[Job.win] = Job.utt
  /\ \A j \in Queued : j.kind = "noSpeech" => j.win <= opened
  /\ timer.kind # "none" => timer.win \in 1..opened

\* A window is answered once, and the last answer is remembered.
AnsweredOnce ==
  /\ \A w \in Windows : w > opened \/ w = win => heard[w] = 0
  /\ last.win # 0 => heard[last.win] = last.utt

IInv ==
  /\ TypeOK
  /\ WindowsInOrder /\ StreamServesAudio /\ TranscriptsAreTrue /\ JobUnderWay /\ AnsweredOnce
  /\ HeardWhereSpoken /\ AcknowledgedIsHeard /\ ReservedWhileInUse /\ NoTurnWithoutEnd

-----------------------------------------------------------------------------
(* Requests, jobs and windows. *)

LEMMA WindowNumbers ==
  /\ Windows \subseteq Nat \ {0} /\ Utterances \subseteq Nat \ {0} /\ 1..MaxSockets \subseteq Nat
  /\ 1 \in 1..Attempts
  BY DEF Windows, Utterances

LEMMA TranscriptFields ==
  ASSUME NEW r \in Transcripts
  PROVE  /\ r.kind = "transcript" /\ r.win \in Windows /\ r.utt \in Utterances /\ r.attempt \in 1..Attempts
         /\ r \in Requests /\ r \in Jobs
  BY DEF Transcripts, Transcript, Requests, Jobs

LEMMA RequestKinds ==
  /\ \A w \in Windows, t \in Tunings : Open(w, t) \in Requests /\ Open(w, t) \notin Transcripts
  /\ \A n \in 1..MaxSockets : Lookup(n) \in Requests /\ Lookup(n) \notin Transcripts
  /\ \A w \in Windows : {Close(w), Speaking(w), Failure(w)} \subseteq Requests \ Transcripts
  /\ \A r \in Requests : r.kind = "transcript" <=> r \in Transcripts
<1>1. \A r \in Transcripts : r.kind = "transcript"
  BY TranscriptFields
<1>2. \A w, t, n : /\ Open(w, t).kind = "open" /\ Lookup(n).kind = "lookup" /\ Close(w).kind = "close"
                   /\ Speaking(w).kind = "speaking" /\ Failure(w).kind = "error"
  BY DEF Open, Lookup, Close, Speaking, Failure
<1>3. /\ \A w \in Windows, t \in Tunings : Open(w, t) \in Requests
      /\ \A n \in 1..MaxSockets : Lookup(n) \in Requests
      /\ \A w \in Windows : {Close(w), Speaking(w), Failure(w)} \subseteq Requests
      /\ Transcripts \subseteq Requests
  BY DEF Requests, Notices
<1>4. ASSUME NEW r \in Requests
      PROVE  \/ r \in Transcripts
             \/ \E w, t, n : r \in {Open(w, t), Lookup(n), Close(w), Speaking(w), Failure(w)}
  BY DEF Requests, Notices
<1>5. \A r \in Requests : r.kind = "transcript" => r \in Transcripts
  BY <1>2, <1>4
<1> QED BY <1>1, <1>2, <1>3, <1>5

LEMMA JobKinds ==
  /\ Turn \in Jobs /\ \A w \in Windows : NoSpeech(w) \in Jobs
  /\ \A j \in Jobs : /\ j.kind = "transcript" <=> j \in Transcripts
                     /\ j.kind = "noSpeech" => j.win \in Windows /\ j = NoSpeech(j.win)
                     /\ j.kind \in {"turn", "noSpeech", "transcript"}
  /\ \A w : NoSpeech(w).kind = "noSpeech" /\ NoSpeech(w).win = w
  /\ Turn.kind = "turn"
<1>1. (\A w : NoSpeech(w).kind = "noSpeech" /\ NoSpeech(w).win = w) /\ Turn.kind = "turn"
  BY DEF NoSpeech, Turn
<1>2. \A r \in Transcripts : r.kind = "transcript"
  BY TranscriptFields
<1>3. \A j \in Jobs : j = Turn \/ (\E w \in Windows : j = NoSpeech(w)) \/ j \in Transcripts
  BY DEF Jobs
<1>4. Turn \in Jobs /\ \A w \in Windows : NoSpeech(w) \in Jobs
  BY DEF Jobs
<1> QED BY <1>1, <1>2, <1>3, <1>4

LEMMA BodyKinds ==
  /\ {Ok, Closed, Failed} \subseteq Bodies /\ Statuses \subseteq Bodies
  /\ \A code, w, t : /\ Status(code, w, t).code = code
                     /\ Status(code, w, t).win = w /\ Status(code, w, t).tuning = t
                     /\ code \in {"active", "over"} => Status(code, w, t) # Ok
  /\ Ok.code = "ok" /\ Closed.code = "closed" /\ Failed.code = "failed"
  /\ Ok # Closed /\ Ok # Failed
  /\ \A body \in Statuses : /\ body.code \in {"active", "over"} /\ body.win \in Windows \cup {0}
                            /\ body.tuning \in Tunings \cup {None}
  BY DEF Bodies, Statuses, Status, Ok, Closed, Failed

LEMMA JobJoins ==
  ASSUME jobs \in Seq(Jobs), NEW x \in Jobs, jobs' = Append(jobs, x)
  PROVE  /\ jobs' \in Seq(Jobs) /\ jobs' # <<>> /\ Queued' = Queued \cup {x}
         /\ jobs # <<>> => Job' = Job
<1>1. /\ jobs' \in Seq(Jobs) /\ DOMAIN jobs' = 1..(Len(jobs) + 1) /\ DOMAIN jobs = 1..Len(jobs)
      /\ Len(jobs) \in Nat /\ jobs'[Len(jobs) + 1] = x /\ \A i \in 1..Len(jobs) : jobs'[i] = jobs[i]
  OBVIOUS
<1>2. Len(jobs) + 1 \in DOMAIN jobs' /\ DOMAIN jobs' = DOMAIN jobs \cup {Len(jobs) + 1}
  BY <1>1
<1>3. jobs' # <<>> /\ (jobs # <<>> => Head(jobs') = Head(jobs))
  OBVIOUS
<1> QED BY <1>1, <1>2, <1>3 DEF Queued, Job

LEMMA JobLeaves ==
  ASSUME jobs \in Seq(Jobs), jobs # <<>>, jobs' = Tail(jobs)
  PROVE  /\ jobs' \in Seq(Jobs) /\ Job \in Jobs /\ Job \in Queued
         /\ Queued' \subseteq Queued /\ Queued \subseteq Queued' \cup {Job}
<1>1. /\ jobs' \in Seq(Jobs) /\ Len(jobs) \in Nat \ {0} /\ DOMAIN jobs' = 1..(Len(jobs) - 1)
      /\ DOMAIN jobs = 1..Len(jobs) /\ Job \in Jobs /\ Job = jobs[1]
      /\ \A i \in 1..(Len(jobs) - 1) : jobs'[i] = jobs[i + 1]
  BY DEF Job
<1>2. 1 \in DOMAIN jobs /\ \A i \in DOMAIN jobs' : i + 1 \in DOMAIN jobs
  BY <1>1
<1>3. \A i \in DOMAIN jobs : i = 1 \/ (i - 1 \in DOMAIN jobs' /\ (i - 1) + 1 = i)
  BY <1>1
<1> QED BY <1>1, <1>2, <1>3 DEF Queued

\* The job at the head.
LEMMA HeadJob ==
  ASSUME jobs \in Seq(Jobs), jobs # <<>>
  PROVE  Job \in Jobs /\ Job \in Queued
<1>1. Job = jobs[1] /\ 1 \in DOMAIN jobs /\ Job \in Jobs
  BY DEF Job
<1> QED BY <1>1 DEF Queued

-----------------------------------------------------------------------------
(* The steps, sorted. *)

\* A job ends, and tells the worker so if it was a transcript.
JobOver(settled) ==
  /\ step' = "none" /\ jobs # <<>> /\ jobs' = Tail(jobs)
  /\ UNCHANGED turnVars
  /\ \E body \in {Ok, Closed, Failed} :
       /\ Exchange({}, {}, settled, IF Job.kind = "transcript" THEN {Reply(Job, body)} ELSE {})
       /\ body = Ok /\ Job.kind = "transcript" => AlreadyHeard(Job) \/ step # "none"
  /\ Job.kind = "noSpeech" /\ step = "none" => ~WaitsFor(Job.win)

JobEnds_ == JobOver({}) /\ Unfinished /\ step \notin {"entering", "posting"}
OpenEnds ==
  /\ step = "posting" /\ JobOver({Open(opened, tuning)})
  /\ timer' = IF Acts THEN Silence(opened) ELSE timer
  /\ UNCHANGED <<status, finishing>>

\* The turn goes on from a clip that ended or from a window that was left.
Proceeds == (Running("turn") /\ status = "playing") \/ step = "routing"
JobFails ==
  \/ (Proceeds \/ step = "playing") /\ Fails({})
  \/ step = "posting" /\ Fails({Open(opened, tuning)})

Leaves == WaitsFor(Job.win) /\ LeavesWindow /\ UNCHANGED <<jobs, net>>
Heard == /\ Running("transcript") /\ Leaves
         /\ last' = [win |-> win, utt |-> Job.utt] /\ heard' = [heard EXCEPT ![win] = Job.utt]
         /\ UNCHANGED refused
Unheard == Running("noSpeech") /\ Leaves /\ UNCHANGED <<last, heard, refused>>

\* A hangup is refused, or finish() is called again: the conversation itself stays.
Refinishes == HangupRefused \/ FinishRetried

ApiStep ==
  \/ Stop \/ Completes \/ PlaybackStopped \/ TimerFires \/ JobEnds_ \/ OpenEnds \/ JobFails
  \/ Heard \/ Unheard \/ EntrySaved \/ ClosingSaved \/ Refinishes
  \/ Proceeds /\ Acts /\ EntersListening({})
  \/ Proceeds /\ Acts /\ PlaysClip({})
  \/ \E r \in requests : TranscriptArrives(r)
  \/ \E w \in Windows : SpeechStarted(w) \/ MediaError(w)
  \/ \E n \in 1..MaxSockets : WindowLookedUp(n)

WorkerStep ==
  \/ Connect \/ Abandon \/ AudioCloses \/ AudioFails \/ ProviderOpens \/ ProviderFails
  \/ SpeechStarts \/ LifetimeEnds \/ Exit
  \/ \E w \in Windows, t \in Tunings : OpenWindow(w, t)
  \/ \E w \in Windows : CloseWindow(w)
  \/ \E body \in Statuses : Accept(body)
  \/ \E u \in Utterances : Utter(u)
  \/ \E r \in receipts : Delivered(r) \/ Retry(r) \/ GiveUp(r)

LEMMA Ends ==
  ASSUME NEW settled, NEW body \in {Ok, Closed, Failed}, JobEnds(body, settled), UNCHANGED turnVars,
         jobs # <<>>,
         body = Ok /\ Job.kind = "transcript" => AlreadyHeard(Job) \/ step # "none",
         Job.kind = "noSpeech" /\ step = "none" => ~WaitsFor(Job.win)
  PROVE  JobOver(settled)
  BY DEF JobEnds, JobOver

LEMMA SortedSteps ==
  ASSUME [Next]_vars, step # "none" => jobs # <<>>
  PROVE  \/ UNCHANGED vars
         \/ ApiStep /\ UNCHANGED workerVars
         \/ WorkerStep /\ UNCHANGED apiVars
<1>1. ASSUME Returns({}), jobs # <<>>, Job.kind = "transcript" => AlreadyHeard(Job) \/ step # "none",
             Job.kind = "noSpeech" /\ step = "none" => ~WaitsFor(Job.win), step \notin {"entering", "posting"}
      PROVE  ApiStep
  BY <1>1, Ends, Zenon DEF Returns, JobEnds_, ApiStep
<1>2. TurnStarts => ApiStep
  <2> SUFFICES ASSUME TurnStarts PROVE ApiStep
    OBVIOUS
  <2>1. Running("turn") /\ jobs # <<>> /\ Job.kind # "transcript" /\ Job.kind # "noSpeech"
        /\ step \notin {"entering", "posting"}
    BY DEF TurnStarts, Running
  <2>2. CASE Returns({})
    BY <1>1, <2>1, <2>2
  <2>3. CASE status = "playing" /\ Acts /\ (EntersListening({}) \/ PlaysClip({}) \/ Fails({}))
    BY <2>1, <2>3, Zenon DEF ApiStep, Proceeds, JobFails
  <2> QED BY <2>2, <2>3, Zenon DEF TurnStarts, Advances
<1>3. TranscriptStarts => ApiStep
  <2> SUFFICES ASSUME TranscriptStarts PROVE ApiStep
    OBVIOUS
  <2>1. Running("transcript") /\ jobs # <<>> /\ Job.kind = "transcript" /\ Job.kind # "noSpeech"
        /\ step = "none" /\ step \notin {"entering", "posting"}
    BY DEF TranscriptStarts, Running
  <2>2. CASE AlreadyHeard(Job) /\ Returns({})
    BY <1>1, <2>1, <2>2
  <2>3. CASE JobEnds(Closed, {}) /\ UNCHANGED turnVars /\ Unfinished
    BY <2>1, <2>3, Ends, BodyKinds, Zenon DEF JobEnds_, ApiStep
  <2>4. CASE ~AlreadyHeard(Job) /\ WaitsFor(Job.win)
    BY <2>1, <2>4, Zenon DEF TranscriptStarts, Heard, Leaves, ApiStep
  <2> QED BY <2>2, <2>3, <2>4, Zenon DEF TranscriptStarts
<1>4. NoSpeechStarts => ApiStep
  <2> SUFFICES ASSUME NoSpeechStarts PROVE ApiStep
    OBVIOUS
  <2>1. Running("noSpeech") /\ jobs # <<>> /\ Job.kind # "transcript" /\ Job.kind = "noSpeech"
        /\ step \notin {"entering", "posting"}
    BY DEF NoSpeechStarts, Running
  <2>2. CASE ~WaitsFor(Job.win) /\ Returns({})
    BY <1>1, <2>1, <2>2
  <2>3. CASE WaitsFor(Job.win) /\ LeavesWindow /\ UNCHANGED <<last, heard, refused, jobs, net>>
    BY <2>1, <2>3 DEF Unheard, Leaves, ApiStep, net
  <2> QED BY <2>2, <2>3, Zenon DEF NoSpeechStarts
<1>5. WindowOpened => ApiStep
  <2> SUFFICES ASSUME WindowOpened PROVE OpenEnds
    BY Zenon DEF ApiStep
  <2>1. step = "posting" /\ JobEnds(Ok, {Open(opened, tuning)}) /\ UNCHANGED turnVars
        /\ timer' = (IF Acts THEN Silence(opened) ELSE timer) /\ UNCHANGED <<status, finishing>>
    BY DEF WindowOpened
  <2>2. JobOver({Open(opened, tuning)})
    BY <2>1, Ends
  <2> QED BY <2>1, <2>2 DEF OpenEnds
<1>6. WindowNotOpened => ApiStep
  BY Zenon DEF WindowNotOpened, JobFails, ApiStep
<1>7. Routes => ApiStep
  <2> SUFFICES ASSUME Routes PROVE ApiStep
    OBVIOUS
  <2>1. step = "routing" /\ Proceeds /\ jobs # <<>> /\ step # "none" /\ step \notin {"entering", "posting"}
    BY DEF Routes, Proceeds
  <2>2. CASE Returns({})
    BY <1>1, <2>1, <2>2
  <2>3. CASE (Acts /\ (EntersListening({}) \/ PlaysClip({}))) \/ Fails({})
    BY <2>1, <2>3, Zenon DEF ApiStep, JobFails
  <2> QED BY <2>2, <2>3, Zenon DEF Routes, Advances
<1>8. ClipStarts => ApiStep
  <2> SUFFICES ASSUME ClipStarts PROVE ApiStep
    OBVIOUS
  <2>1. step = "playing" /\ jobs # <<>> /\ step # "none" /\ step \notin {"entering", "posting"}
    BY DEF ClipStarts
  <2>2. CASE Returns({})
    BY <1>1, <2>1, <2>2
  <2>3. CASE Fails({})
    BY <2>1, <2>3, Zenon DEF ApiStep, JobFails
  <2> QED BY <2>2, <2>3, Zenon DEF ClipStarts
<1>9. FinishAwaited => ApiStep
  <2> SUFFICES ASSUME FinishAwaited PROVE JobEnds_
    BY Zenon DEF ApiStep
  <2>1. step # "none" /\ jobs # <<>> /\ UNCHANGED turnVars /\ Unfinished
        /\ step \notin {"entering", "posting"}
    BY DEF FinishAwaited
  <2>2. PICK body \in {Ok, Failed} : JobEnds(body, {})
    BY DEF FinishAwaited
  <2>3. JobOver({})
    BY <2>1, <2>2, Ends
  <2> QED BY <2>1, <2>3 DEF JobEnds_
<1>10. ASSUME Next PROVE (ApiStep /\ UNCHANGED workerVars) \/ (WorkerStep /\ UNCHANGED apiVars)
  BY <1>2, <1>3, <1>4, <1>5, <1>6, <1>7, <1>8, <1>9, <1>10, Zenon DEF Next, ApiStep, Refinishes, WorkerStep
<1> QED BY <1>10

-----------------------------------------------------------------------------
(* Types. *)

LEMMA ExchangeTypes ==
  ASSUME NetTypes, NEW takes, NEW asks, asks \subseteq Requests, NEW settles, NEW answers,
         \A a \in answers : a.body \in Bodies /\ a.to \notin settles,
         Exchange(takes, asks, settles, answers)
  PROVE  /\ NetTypes' /\ awaiting' = (awaiting \ settles) \cup asks
         /\ requests' \subseteq requests \cup asks
         /\ \A a \in replies' : a \in replies \/ a \in answers
  BY DEF NetTypes, Exchange

LEMMA NotifiesTypes ==
  ASSUME NetTypes, NEW notices, notices \subseteq Requests, NEW settles, Notifies(notices, settles)
  PROVE  /\ NetTypes' /\ awaiting' = awaiting \ settles
         /\ requests' \subseteq requests \cup notices /\ replies' \subseteq replies
  BY DEF NetTypes, Notifies

LEMMA ReplyFields == \A r, body : Reply(r, body).to = r /\ Reply(r, body).body = body
  BY DEF Reply

\* Requests that steps of the API leave awaited: those of the worker.
LEMMA JobOverTypes ==
  ASSUME TypeOK, NEW settled, settled \cap Transcripts = {}, JobOver(settled)
  PROVE  /\ NetTypes' /\ awaiting' = awaiting \ settled /\ requests' \subseteq requests
         /\ jobs' \in Seq(Jobs) /\ step' = "none" /\ UNCHANGED turnVars
         /\ Job \in Jobs /\ Job \in Queued /\ Queued' \subseteq Queued /\ Queued \subseteq Queued' \cup {Job}
         /\ \A a \in replies' : a \in replies \/ (Job \in Transcripts /\ a.to = Job /\ a.body \in {Ok, Closed, Failed}
              /\ (a.body = Ok => AlreadyHeard(Job) \/ step # "none"))
<1> USE DEF TypeOK
<1>1. jobs \in Seq(Jobs) /\ jobs # <<>> /\ jobs' = Tail(jobs)
  BY DEF JobOver, ApiTypes
<1>2. PICK body \in {Ok, Closed, Failed} :
         /\ Exchange({}, {}, settled, IF Job.kind = "transcript" THEN {Reply(Job, body)} ELSE {})
         /\ body = Ok /\ Job.kind = "transcript" => AlreadyHeard(Job) \/ step # "none"
  BY DEF JobOver
<1>3. Job \in Jobs /\ (Job.kind = "transcript" <=> Job \in Transcripts)
  BY <1>1, HeadJob, JobKinds
<1>4. PICK answers : answers = IF Job.kind = "transcript" THEN {Reply(Job, body)} ELSE {}
  OBVIOUS
<1>5. \A a \in answers : a.to = Job /\ a.body = body /\ Job \in Transcripts /\ a.body \in Bodies /\ a.to \notin settled
  BY <1>3, <1>4, BodyKinds, ReplyFields
<1>8. /\ NetTypes' /\ awaiting' = (awaiting \ settled) \cup {} /\ requests' \subseteq requests \cup {}
      /\ \A a \in replies' : a \in replies \/ a \in answers
  <2>1. Exchange({}, {}, settled, answers)
    BY <1>2, <1>4
  <2>2. NetTypes /\ {} \subseteq Requests
    OBVIOUS
  <2>3. \A a \in answers : a.body \in Bodies /\ a.to \notin settled
    BY <1>5
  <2> QED BY <2>1, <2>3 DEF Exchange, NetTypes
<1>6. step' = "none" /\ UNCHANGED turnVars
  BY DEF JobOver
<1>7. /\ jobs' \in Seq(Jobs) /\ Job \in Queued
      /\ Queued' \subseteq Queued /\ Queued \subseteq Queued' \cup {Job}
  BY <1>1, JobLeaves
<1> QED BY <1>2, <1>3, <1>5, <1>6, <1>7, <1>8

\* finish(): the call is being finished from here on, unless it is over.
LEMMA FinishesDoes ==
  ASSUME Finishes
  PROVE  /\ finishing' \in BOOLEAN /\ (finishing' <=> Active) /\ status' = status
         /\ timer' \in {timer, NoTimer} /\ (~Acts => timer' = timer)
<1>1. finishing' = Active /\ status' = status
  BY Zenon DEF Finishes
<1>2. Active \in BOOLEAN
  BY DEF Active
<1>3. timer' \in {timer, NoTimer} /\ (~Acts => timer' = timer)
  BY DEF Finishes
<1> QED BY <1>1, <1>2, <1>3, Zenon

LEMMA RefinishDoes ==
  ASSUME Refinishes
  PROVE  /\ UNCHANGED <<status, win, opened, tuning, last, speaking, clip, heard, jobs, net>>
         /\ timer' \in {timer, NoTimer}
         /\ step' = step \/ (step = "failing" /\ step' = "refailing")
<1>1. CASE HangupRefused
  BY <1>1 DEF HangupRefused
<1>2. CASE FinishRetried
  BY <1>2, FinishesDoes DEF FinishRetried, turnVars
<1> QED BY <1>1, <1>2 DEF Refinishes

LEMMA ApiTypesStep ==
  ASSUME IInv, ApiStep, UNCHANGED workerVars
  PROVE  TypeOK'
<1>1. /\ TypeOK /\ NetTypes /\ ApiTypes /\ WorkerTypes
      /\ WindowsInOrder /\ JobUnderWay /\ jobs \in Seq(Jobs)
  BY DEF IInv, TypeOK, ApiTypes
<1>2. SUFFICES NetTypes' /\ ApiTypes' /\ (awaiting \cap Transcripts \subseteq awaiting')
  BY <1>1 DEF TypeOK, WorkerTypes, workerVars
<1> USE DEF net, turnVars, Timer, NoTimer
<1>3. CASE Stop
  <2>1. UNCHANGED <<jobs, step, turnVars, net>>
    BY <1>3 DEF Stop
  <2>2. finishing' \in BOOLEAN /\ status' = status /\ timer' \in {timer, NoTimer}
    BY <1>3, FinishesDoes DEF Stop
  <2> QED BY <1>1, <2>1, <2>2 DEF NetTypes, ApiTypes
<1>4. CASE Completes
  BY <1>1, <1>4 DEF Completes, NetTypes, ApiTypes
<1>5. CASE PlaybackStopped
  <2>1. jobs' \in Seq(Jobs)
    BY <1>1, <1>5, JobKinds DEF PlaybackStopped
  <2>2. clip' \in BOOLEAN /\ UNCHANGED <<status, timer, step, finishing, net, win, opened, tuning, last, speaking, heard, refused>>
    BY <1>5 DEF PlaybackStopped
  <2> QED BY <1>1, <2>1, <2>2 DEF NetTypes, ApiTypes
<1>6. CASE TimerFires
  <2>1. timer.win \in Windows
    BY <1>1, <1>6, WindowNumbers DEF TimerFires, JobUnderWay, ApiTypes, Windows
  <2>2. jobs' \in Seq(Jobs)
    BY <1>1, <1>6, <2>1, JobKinds DEF TimerFires
  <2> QED BY <1>1, <1>6, <2>2 DEF TimerFires, NetTypes, ApiTypes
<1>7. CASE JobEnds_
  <2>1. NetTypes' /\ awaiting' = awaiting /\ jobs' \in Seq(Jobs) /\ step' = "none" /\ UNCHANGED turnVars
    <3>1. {} \cap Transcripts = {} /\ JobOver({}) /\ awaiting \ {} = awaiting
      BY <1>7 DEF JobEnds_
    <3> QED BY <1>1, <3>1, JobOverTypes
  <2> QED BY <1>1, <1>7, <2>1 DEF JobEnds_, Unfinished, ApiTypes
<1>8. CASE OpenEnds
  <2>1. opened \in Windows /\ tuning \in Tunings
    BY <1>1, <1>8, WindowNumbers DEF OpenEnds, WindowsInOrder, ApiTypes
  <2>2. {Open(opened, tuning)} \cap Transcripts = {}
    BY <2>1, RequestKinds
  <2>3. NetTypes' /\ awaiting' = awaiting \ {Open(opened, tuning)} /\ jobs' \in Seq(Jobs) /\ step' = "none" /\ UNCHANGED turnVars
    BY <1>1, <1>8, <2>2, JobOverTypes DEF OpenEnds
  <2> QED BY <1>1, <1>8, <2>1, <2>2, <2>3 DEF OpenEnds, Silence, ApiTypes
<1>9. CASE JobFails
  <2>1. CASE Fails({})
    <3>1. finishing' \in BOOLEAN /\ status' = status /\ timer' \in {timer, NoTimer}
      BY <2>1, FinishesDoes DEF Fails
    <3>2. step' = "failing" /\ UNCHANGED <<jobs, turnVars>> /\ Exchange({}, {}, {}, {})
      BY <2>1 DEF Fails
    <3> QED BY <1>1, <3>1, <3>2 DEF Exchange, NetTypes, ApiTypes
  <2>2. CASE step = "posting" /\ Fails({Open(opened, tuning)})
    <3>1. opened \in Windows /\ tuning \in Tunings
      BY <1>1, <2>2, WindowNumbers DEF WindowsInOrder, ApiTypes
    <3>2. Open(opened, tuning) \notin Transcripts
      BY <3>1, RequestKinds
    <3>3. finishing' \in BOOLEAN /\ status' = status /\ timer' \in {timer, NoTimer}
      BY <2>2, FinishesDoes DEF Fails
    <3>4. step' = "failing" /\ UNCHANGED <<jobs, turnVars>> /\ Exchange({}, {}, {Open(opened, tuning)}, {})
      BY <2>2 DEF Fails
    <3> QED BY <1>1, <3>2, <3>3, <3>4 DEF Exchange, NetTypes, ApiTypes
  <2> QED BY <1>9, <2>1, <2>2 DEF JobFails
<1>10. CASE Heard \/ Unheard
  <2>1. Leaves /\ win \in Windows /\ (Heard => Job.utt \in Utterances)
    <3>1. jobs # <<>> /\ Leaves /\ (Heard => Job.kind = "transcript")
      BY <1>10 DEF Heard, Unheard, Running
    <3>2. Job \in Jobs
      BY <1>1, <3>1, HeadJob
    <3>3. win \in Windows
      BY <1>1, <3>1, WindowNumbers DEF Leaves, WaitsFor, InWindow, WindowsInOrder, ApiTypes
    <3> QED BY <3>1, <3>2, <3>3, JobKinds, TranscriptFields
  <2>2. /\ last' \in [win : Windows \cup {0}, utt : Utterances \cup {0}] /\ heard' \in [Windows -> Utterances \cup {0}]
        /\ UNCHANGED refused
    BY <1>1, <1>10, <2>1 DEF Heard, Unheard, ApiTypes
  <2> QED BY <1>1, <2>1, <2>2 DEF Leaves, LeavesWindow, NetTypes, ApiTypes
<1>11. CASE EntrySaved
  <2>1. opened \in Windows /\ tuning \in Tunings
    BY <1>1, <1>11, WindowNumbers DEF EntrySaved, WindowsInOrder, ApiTypes
  <2>2. Open(opened, tuning) \in Requests
    BY <2>1, RequestKinds
  <2> QED BY <1>1, <1>11, <2>2 DEF EntrySaved, Asks, Exchange, Unfinished, NetTypes, ApiTypes
<1>12. CASE ClosingSaved
  <2>1. jobs # <<>> /\ Job.kind # "turn"
    BY <1>1, <1>12 DEF ClosingSaved, JobUnderWay
  <2>2. Job.win \in Windows
    BY <1>1, <2>1, HeadJob, JobKinds, TranscriptFields
  <2>3. Close(Job.win) \in Requests
    BY <2>2, RequestKinds
  <2> QED BY <1>1, <1>12, <2>3 DEF ClosingSaved, Notifies, Unfinished, NetTypes, ApiTypes
<1>13. CASE EntersListening({})
  <2>1. opened + 1 \in Windows
    BY <1>1, <1>13, WindowNumbers DEF EntersListening, Windows, ApiTypes
  <2>2. tuning' \in Tunings
    BY <1>13, <2>1 DEF EntersListening
  <2> QED BY <1>1, <1>13, <2>1, <2>2 DEF EntersListening, Exchange, NetTypes, ApiTypes
<1>14. CASE PlaysClip({})
  BY <1>1, <1>14 DEF PlaysClip, Exchange, NetTypes, ApiTypes
<1>15. ASSUME NEW r \in requests, TranscriptArrives(r) PROVE NetTypes' /\ ApiTypes' /\ (awaiting \cap Transcripts \subseteq awaiting')
  <2>1. r \in Jobs
    BY <1>15, TranscriptFields DEF TranscriptArrives
  <2>2. jobs' \in Seq(Jobs)
    BY <1>1, <1>15, <2>1 DEF TranscriptArrives
  <2> QED BY <1>1, <1>15, <2>2 DEF TranscriptArrives, Takes, Exchange, Unfinished, NetTypes, ApiTypes
<1>16. ASSUME NEW w \in Windows, SpeechStarted(w) PROVE NetTypes' /\ ApiTypes' /\ (awaiting \cap Transcripts \subseteq awaiting')
  BY <1>1, <1>16 DEF SpeechStarted, Grace, Takes, Exchange, NetTypes, ApiTypes
<1>17. ASSUME NEW w \in Windows, MediaError(w) PROVE NetTypes' /\ ApiTypes' /\ (awaiting \cap Transcripts \subseteq awaiting')
  <2>1. finishing' \in BOOLEAN /\ status' = status /\ timer' \in {timer, NoTimer}
    BY <1>1, <1>17, FinishesDoes DEF MediaError, Unfinished, ApiTypes
  <2>2. UNCHANGED <<jobs, step, turnVars>> /\ Exchange({Failure(w)}, {}, {}, {})
    BY <1>17 DEF MediaError, Takes
  <2> QED BY <1>1, <2>1, <2>2 DEF Exchange, NetTypes, ApiTypes
<1>18. ASSUME NEW n \in 1..MaxSockets, WindowLookedUp(n)
       PROVE  NetTypes' /\ ApiTypes' /\ (awaiting \cap Transcripts \subseteq awaiting')
  <2>1. CurrentWindow \in Bodies
    <3>1. CurrentWindow \in Statuses
      <4>1. \A code \in {"active", "over"}, w \in Windows \cup {0}, t \in Tunings \cup {None} :
              Status(code, w, t) \in Statuses
        BY DEF Statuses
      <4>2. win \in Windows \cup {0} /\ tuning \in Tunings \cup {None}
        BY <1>1 DEF ApiTypes
      <4> QED BY <4>1, <4>2 DEF CurrentWindow
    <3> QED BY <3>1, BodyKinds
  <2>2. Reply(Lookup(n), CurrentWindow).to = Lookup(n) /\ Reply(Lookup(n), CurrentWindow).body = CurrentWindow
    BY ReplyFields
  <2>3. NetTypes' /\ awaiting' = awaiting
    BY <1>1, <1>18, <2>1, <2>2 DEF WindowLookedUp, Answers, Exchange, NetTypes
  <2> QED BY <1>1, <1>18, <2>3 DEF WindowLookedUp, apiVars, ApiTypes
<1>19. CASE Refinishes
  <2>1. finishing' \in BOOLEAN
    BY <1>19, FinishesDoes DEF Refinishes, HangupRefused, FinishRetried
  <2>2. refused' \in Seq(Windows \cup {0})
    <3>1. win \in Windows \cup {0} /\ refused \in Seq(Windows \cup {0})
      BY <1>1 DEF ApiTypes
    <3>2. refused' = refused \/ refused' = Append(refused, win) \/ refused' = Append(refused, 0)
      BY <1>19 DEF Refinishes, HangupRefused, FinishRetried
    <3> QED BY <3>1, <3>2
  <2> QED BY <1>1, <1>19, <2>1, <2>2, RefinishDoes DEF NetTypes, ApiTypes
<1> QED BY <1>3, <1>4, <1>5, <1>6, <1>7, <1>8, <1>9, <1>10, <1>11, <1>12, <1>13, <1>14, <1>15, <1>16, <1>17, <1>18, <1>19
        DEF ApiStep

LEMMA WindowFields ==
  /\ \A w, t : Window(w, t).id = w /\ Window(w, t).tuning = t
  /\ NoWindow.id = 0 /\ NoWindow.tuning = None /\ NoStream.at = "none" /\ NoStream.tuning = None
  /\ \A w \in Windows : \A t : Window(w, t) # NoWindow
<1>1. /\ \A w, t : Window(w, t).id = w /\ Window(w, t).tuning = t
      /\ NoWindow.id = 0 /\ NoWindow.tuning = None /\ NoStream.at = "none" /\ NoStream.tuning = None
  BY DEF Window, NoWindow, NoStream
<1> QED BY <1>1, WindowNumbers

\* The window the worker has, and the tuning of its provider's stream.
LEMMA WorkerFields ==
  ASSUME WorkerTypes
  PROVE  /\ window.id \in Windows \cup {0} /\ (window.id = 0 <=> window = NoWindow)
         /\ window.id # 0 => window.tuning \in Tunings /\ window = Window(window.id, window.tuning)
         /\ stream.at # "none" => stream.tuning \in Tunings
         /\ stream.at = "none" => stream = NoStream
<1>1. window = NoWindow \/ \E w \in Windows, t \in Tunings : window = Window(w, t)
  BY DEF WorkerTypes
<1>2. stream = NoStream \/ stream \in [at : {"opening", "open"}, tuning : Tunings]
  BY DEF WorkerTypes
<1>3. stream \in [at : {"opening", "open"}, tuning : Tunings] => stream.at # "none" /\ stream.tuning \in Tunings
  OBVIOUS
<1> QED BY <1>1, <1>2, <1>3, WindowFields, WindowNumbers

LEMMA TunedTypes ==
  ASSUME WorkerTypes, NEW t \in Tunings
  PROVE  /\ Tuned(t) \in [at : {"opening", "open"}, tuning : Tunings] /\ Tuned(t).tuning = t
         /\ Tuned(t).at # "none"
<1>1. CASE stream.tuning = t
  <2>1. stream # NoStream
    BY <1>1, WindowFields
  <2> QED BY <1>1, <2>1 DEF Tuned, WorkerTypes
<1>2. CASE stream.tuning # t
  BY <1>2 DEF Tuned
<1> QED BY <1>1, <1>2

LEMMA LostTurnTypes ==
  ASSUME WorkerTypes
  PROVE  LostTurn \subseteq Requests /\ LostTurn \cap Transcripts = {}
<1>1. CASE window = NoWindow
  BY <1>1 DEF LostTurn
<1>2. CASE window # NoWindow
  BY <1>2, WorkerFields, RequestKinds DEF LostTurn
<1> QED BY <1>1, <1>2

LEMMA ReleasedTypes ==
  ASSUME WorkerTypes, Released
  PROVE  life' \in {"none", "armed", "spent"} /\ reported' \in Windows \cup {0}
  BY DEF Released, WorkerTypes

\* The next delivery of a receipt.
LEMMA AgainIsTranscript ==
  ASSUME NEW r \in Transcripts, MayRetry(r)
  PROVE  Again(r) \in Transcripts /\ Again(r).win = r.win /\ Again(r).utt = r.utt
<1>1. r.attempt + 1 \in 1..Attempts
  BY TranscriptFields DEF MayRetry
<1> QED BY <1>1, TranscriptFields DEF Again, Transcripts, Transcript

LEMMA WorkerTypesStep ==
  ASSUME IInv, WorkerStep, UNCHANGED apiVars
  PROVE  TypeOK'
<1>1. /\ TypeOK /\ NetTypes /\ ApiTypes /\ WorkerTypes
      /\ WindowsInOrder /\ StreamServesAudio
  BY DEF IInv, TypeOK
<1>2. SUFFICES NetTypes' /\ WorkerTypes'
  BY <1>1 DEF TypeOK, ApiTypes, apiVars, turnVars
<1> USE DEF net
<1>3. CASE Connect
  <2>1. sockets + 1 \in 1..MaxSockets
    BY <1>1, <1>3 DEF Connect, WorkerTypes
  <2> QED BY <1>1, <1>3, <2>1, RequestKinds DEF Connect, Reserves, Asks, Exchange, NetTypes, WorkerTypes
<1>4. CASE Abandon
  <2>1. Lookup(sockets) \notin Transcripts
    BY TranscriptFields DEF Lookup
  <2>2. /\ audio' = "none" /\ Exchange({}, {}, {Lookup(sockets)}, {})
        /\ UNCHANGED <<window, stream, receipts, sockets, spoken>> /\ Released
    BY <1>4 DEF Abandon, Settles
  <2>3. life' \in {"none", "armed", "spent"} /\ reported' \in Windows \cup {0}
    BY <1>1, <2>2, ReleasedTypes
  <2> QED BY <1>1, <2>1, <2>2, <2>3 DEF Exchange, NetTypes, WorkerTypes
<1>5. CASE AudioCloses \/ AudioFails
  <2>1. /\ audio' = "none" /\ stream' = NoStream /\ window' = NoWindow
        /\ UNCHANGED <<receipts, sockets, spoken>> /\ Released
    BY <1>5 DEF AudioCloses, AudioFails, AudioEnds
  <2>2. life' \in {"none", "armed", "spent"} /\ reported' \in Windows \cup {0}
    BY <1>1, <2>1, ReleasedTypes
  <2>3. NetTypes' /\ awaiting' = awaiting
    BY <1>1, <1>5, LostTurnTypes DEF AudioCloses, AudioFails, Notifies, NetTypes
  <2> QED BY <1>1, <2>1, <2>2, <2>3 DEF WorkerTypes
<1>6. CASE ProviderOpens
  <2>1. stream' \in [at : {"opening", "open"}, tuning : Tunings]
    BY <1>1, <1>6, WindowFields DEF ProviderOpens, WorkerTypes
  <2> QED BY <1>1, <1>6, <2>1 DEF ProviderOpens, NetTypes, WorkerTypes
<1>7. CASE ProviderFails
  BY <1>1, <1>7, LostTurnTypes DEF ProviderFails, Notifies, NetTypes, WorkerTypes
<1>8. CASE SpeechStarts
  <2>1. window.id \in Windows /\ Speaking(window.id) \in Requests
    BY <1>1, <1>8, WorkerFields, RequestKinds DEF SpeechStarts
  <2> QED BY <1>1, <1>8, <2>1 DEF SpeechStarts, Notifies, NetTypes, WorkerTypes
<1>9. CASE LifetimeEnds
  <2>1. Lookup(sockets) \notin Transcripts
    BY TranscriptFields DEF Lookup
  <2>2. NetTypes' /\ (awaiting \cap Transcripts \subseteq awaiting')
    BY <1>1, <1>9, <2>1, LostTurnTypes DEF LifetimeEnds, Notifies, NetTypes
  <2> QED BY <1>1, <1>9, <2>2 DEF LifetimeEnds, WorkerTypes
<1>10. CASE Exit
  BY <1>1, <1>10 DEF Exit, Exchange, NetTypes, WorkerTypes
<1>11. ASSUME NEW w \in Windows, NEW t \in Tunings, OpenWindow(w, t) PROVE NetTypes' /\ WorkerTypes'
  <2>1. Ok \in Bodies /\ Failed \in Bodies
    BY BodyKinds
  <2>2. NetTypes' /\ awaiting' = awaiting
    BY <1>1, <1>11, <2>1, ReplyFields DEF OpenWindow, Answers, Exchange, NetTypes
  <2>3. UNCHANGED <<audio, reported, receipts, sockets, spoken>> /\ life' \in {"none", "armed", "spent"}
    BY <1>1, <1>11 DEF OpenWindow, Reserves, WorkerTypes
  <2>4. window' \in {window, Window(w, t)} /\ stream' \in {stream, Tuned(t)}
    BY <1>11 DEF OpenWindow
  <2> QED BY <1>1, <2>2, <2>3, <2>4, TunedTypes DEF WorkerTypes
<1>12. ASSUME NEW w \in Windows, CloseWindow(w) PROVE NetTypes' /\ WorkerTypes'
  <2>1. life' \in {"none", "armed", "spent"} /\ reported' \in Windows \cup {0} /\ window' \in {window, NoWindow}
    BY <1>1, <1>12, ReleasedTypes DEF CloseWindow, WorkerTypes
  <2> QED BY <1>1, <1>12, <2>1 DEF CloseWindow, Takes, Exchange, NetTypes, WorkerTypes
<1>13. ASSUME NEW body \in Statuses, Accept(body) PROVE NetTypes' /\ WorkerTypes'
  <2>1. body.code = "active" /\ Reply(Lookup(sockets), body) \in replies
    BY <1>13 DEF Accept, Replied
  <2>2. body.tuning \in Tunings /\ body.win \in Windows \cup {0}
    BY <1>1, <2>1, ReplyFields, BodyKinds DEF WindowsInOrder
  <2>3. Looked(body) \in {window, Window(body.win, body.tuning)} /\ (Looked(body) # window => body.win # 0)
    BY DEF Looked
  <2>4. Looked(body) \in {NoWindow} \cup {Window(w, t) : w \in Windows, t \in Tunings}
    BY <1>1, <2>2, <2>3 DEF WorkerTypes
  <2>5. FirstTuning(body) \in Tunings
    BY <2>2, <2>4, WindowFields DEF FirstTuning
  <2>6. Lookup(sockets) \notin Transcripts
    BY TranscriptFields DEF Lookup
  <2>7. /\ Exchange({}, {}, {Lookup(sockets)}, {}) /\ window' = Looked(body)
        /\ UNCHANGED <<receipts, sockets, spoken>>
    BY <1>13 DEF Accept, Settles
  <2>8. CASE audio' = "open" /\ stream' = Tuned(FirstTuning(body)) /\ UNCHANGED <<life, reported>>
    BY <1>1, <2>4, <2>5, <2>6, <2>7, <2>8, TunedTypes DEF Exchange, NetTypes, WorkerTypes
  <2>9. CASE audio' = "none" /\ UNCHANGED stream /\ Released
    BY <1>1, <2>4, <2>6, <2>7, <2>9, ReleasedTypes DEF Exchange, NetTypes, WorkerTypes
  <2> QED BY <1>13, <2>8, <2>9 DEF Accept
<1>14. ASSUME NEW u \in Utterances, Utter(u) PROVE NetTypes' /\ WorkerTypes'
  <2>1. window.id \in Windows
    BY <1>1, <1>14, WorkerFields DEF Utter
  <2>2. Transcript(window.id, u, 1) \in Transcripts /\ Transcript(window.id, u, 1) \in Requests
    BY <2>1, WindowNumbers, TranscriptFields DEF Transcripts
  <2> QED BY <1>1, <1>14, <2>1, <2>2 DEF Utter, Asks, Exchange, NetTypes, WorkerTypes
<1>15. ASSUME NEW r \in receipts, Delivered(r) PROVE NetTypes' /\ WorkerTypes'
  <2>1. life' \in {"none", "armed", "spent"} /\ reported' \in Windows \cup {0}
    BY <1>1, <1>15, ReleasedTypes DEF Delivered
  <2> QED BY <1>1, <1>15, <2>1 DEF Delivered, Settles, Exchange, NetTypes, WorkerTypes
<1>16. ASSUME NEW r \in receipts, Retry(r) PROVE NetTypes' /\ WorkerTypes'
  <2>1. r \in Transcripts /\ Again(r) \in Transcripts /\ Again(r) \in Requests
    BY <1>1, <1>16, AgainIsTranscript, TranscriptFields DEF Retry, WorkerTypes
  <2> QED BY <1>1, <1>16, <2>1 DEF Retry, Exchange, NetTypes, WorkerTypes
<1>17. ASSUME NEW r \in receipts, GiveUp(r) PROVE NetTypes' /\ WorkerTypes'
  <2>1. life' \in {"none", "armed", "spent"} /\ reported' \in Windows \cup {0}
    BY <1>1, <1>17, ReleasedTypes DEF GiveUp
  <2>2. Failure(r.win) \in Requests
    BY <1>1, TranscriptFields, RequestKinds DEF WorkerTypes
  <2> QED BY <1>1, <1>17, <2>1, <2>2 DEF GiveUp, Notifies, NetTypes, WorkerTypes
<1> QED BY <1>3, <1>4, <1>5, <1>6, <1>7, <1>8, <1>9, <1>10, <1>11, <1>12, <1>13, <1>14, <1>15, <1>16, <1>17
        DEF WorkerStep

-----------------------------------------------------------------------------
(* Windows are drawn in order. *)

\* Those of the call itself, and what is known of the latest elsewhere.
CallsWindow ==
  /\ win = IF status = "listening" THEN opened ELSE 0
  /\ status = "listening" \/ step \in {"entering", "posting"} => opened # 0
  /\ opened # 0 => tuning \in Tunings
KnownElsewhere ==
  /\ \A w \in Windows, t \in Tunings : Open(w, t) \in requests => Known(w, t)
  /\ \A a \in replies : a.body.code = "active" =>
       a.body.tuning \in Tunings /\ (a.body.win # 0 => Known(a.body.win, a.body.tuning))
  /\ window.id # 0 => Known(window.id, window.tuning)

LEMMA WindowsParts == WindowsInOrder <=> CallsWindow /\ KnownElsewhere
  BY DEF WindowsInOrder, CallsWindow, KnownElsewhere

\* No window is drawn, and nothing new is said of one.
LEMMA NothingNewKnown ==
  ASSUME KnownElsewhere, UNCHANGED <<opened, tuning, window>>,
         \A w \in Windows, t \in Tunings : Open(w, t) \in requests' => Open(w, t) \in requests \/ Known(w, t),
         \A a \in replies' : a \in replies \/ a.body.code # "active"
  PROVE  KnownElsewhere'
  BY DEF KnownElsewhere, Known

LEMMA OpensApart ==
  /\ \A w \in Windows, t \in Tunings : Open(w, t) \notin Transcripts
  /\ \A w, t, v : Open(w, t) \notin {Close(v), Speaking(v), Failure(v)}
  /\ \A w, t, n : Open(w, t) # Lookup(n)
  /\ \A w, t, v, s : Open(w, t) = Open(v, s) => w = v /\ t = s
<1>1. \A w, t, n : /\ Open(w, t).kind = "open" /\ Lookup(n).kind = "lookup" /\ Close(w).kind = "close"
                   /\ Speaking(w).kind = "speaking" /\ Failure(w).kind = "error"
                   /\ Open(w, t).win = w /\ Open(w, t).tuning = t
  BY DEF Open, Lookup, Close, Speaking, Failure
<1> QED BY <1>1, RequestKinds

LEMMA ApiWindowsStep ==
  ASSUME IInv, ApiStep, UNCHANGED workerVars
  PROVE  WindowsInOrder'
<1>1. /\ TypeOK /\ NetTypes /\ ApiTypes /\ WorkerTypes /\ JobUnderWay
      /\ CallsWindow /\ KnownElsewhere /\ jobs \in Seq(Jobs) /\ UNCHANGED window /\ opened \in Nat
  BY WindowsParts, WindowNumbers DEF IInv, TypeOK, workerVars, ApiTypes
<1>2. SUFFICES CallsWindow' /\ KnownElsewhere'
  BY WindowsParts DEF WindowsInOrder, CallsWindow, KnownElsewhere
<1> USE DEF net, turnVars
<1>3. CASE Stop
  <2>1. UNCHANGED <<requests, replies, win, opened, tuning, step>> /\ status' = status
    BY <1>3, FinishesDoes DEF Stop
  <2> QED BY <1>1, <2>1, NothingNewKnown DEF CallsWindow
<1>4. CASE Completes
  BY <1>1, <1>4, NothingNewKnown DEF Completes, CallsWindow
<1>5. CASE PlaybackStopped
  BY <1>1, <1>5, NothingNewKnown DEF PlaybackStopped, CallsWindow
<1>6. CASE TimerFires
  BY <1>1, <1>6, NothingNewKnown DEF TimerFires, CallsWindow
<1>7. CASE JobEnds_
  <2>1. {} \cap Transcripts = {} /\ JobOver({}) /\ status' = status
    BY <1>7 DEF JobEnds_, Unfinished
  <2>2. /\ requests' \subseteq requests /\ step' = "none" /\ UNCHANGED <<win, opened, tuning>>
        /\ \A a \in replies' : a \in replies \/ a.body \in {Ok, Closed, Failed}
    BY <1>1, <2>1, JobOverTypes
  <2> QED BY <1>1, <2>1, <2>2, BodyKinds, NothingNewKnown DEF CallsWindow
<1>8. CASE OpenEnds
  <2>1. opened \in Windows /\ tuning \in Tunings
    BY <1>1, <1>8, WindowNumbers DEF OpenEnds, CallsWindow, ApiTypes
  <2>2. {Open(opened, tuning)} \cap Transcripts = {} /\ JobOver({Open(opened, tuning)}) /\ status' = status
    BY <1>8, <2>1, RequestKinds DEF OpenEnds
  <2>3. /\ requests' \subseteq requests /\ step' = "none" /\ UNCHANGED <<win, opened, tuning>>
        /\ \A a \in replies' : a \in replies \/ a.body \in {Ok, Closed, Failed}
    BY <1>1, <2>2, JobOverTypes
  <2> QED BY <1>1, <2>2, <2>3, BodyKinds, NothingNewKnown DEF CallsWindow
<1>9. CASE JobFails
  <2>1. PICK settled : Fails(settled)
    BY <1>9 DEF JobFails
  <2>2. status' = status /\ step' = "failing" /\ UNCHANGED <<jobs, turnVars>> /\ Exchange({}, {}, settled, {})
    BY <2>1, FinishesDoes DEF Fails
  <2> QED BY <1>1, <2>2, NothingNewKnown DEF Exchange, CallsWindow
<1>10. CASE Heard \/ Unheard
  <2>1. LeavesWindow /\ UNCHANGED <<net>>
    BY <1>10 DEF Heard, Unheard, Leaves
  <2> QED BY <1>1, <2>1, NothingNewKnown DEF LeavesWindow, CallsWindow
<1>11. CASE EntrySaved
  <2>1. Known(opened, tuning) /\ opened \in Windows /\ tuning \in Tunings
    BY <1>1, <1>11, WindowNumbers DEF EntrySaved, CallsWindow, ApiTypes, Known
  <2>2. /\ requests' = requests \cup {Open(opened, tuning)} /\ replies' \subseteq replies
        /\ step' = "posting" /\ step = "entering" /\ UNCHANGED <<status, win, opened, tuning>>
    BY <1>11 DEF EntrySaved, Asks, Exchange, Unfinished
  <2>3. \A w \in Windows, t \in Tunings : Open(w, t) \in requests' => Open(w, t) \in requests \/ Known(w, t)
    BY <2>1, <2>2, OpensApart
  <2> QED BY <1>1, <2>2, <2>3, NothingNewKnown DEF CallsWindow
<1>12. CASE ClosingSaved
  <2>1. /\ requests' \subseteq requests \cup {Close(Job.win)} /\ replies' \subseteq replies
        /\ step' = "routing" /\ UNCHANGED <<status, win, opened, tuning>>
    BY <1>12 DEF ClosingSaved, Notifies, Unfinished
  <2> QED BY <1>1, <2>1, OpensApart, NothingNewKnown DEF CallsWindow
<1>13. CASE EntersListening({})
  <2>1. /\ opened' = opened + 1 /\ win' = opened' /\ tuning' \in Tunings /\ status' = "listening"
        /\ requests' = requests /\ replies' \subseteq replies
    <3>1. opened + 1 \in Windows
      BY <1>1, <1>13 DEF EntersListening, Windows
    <3> QED BY <1>13, <3>1 DEF EntersListening, Exchange
  <2>2. \A w \in Windows \cup {0} : \A t : Known(w, t) => Known(w, t)'
    <3>1. Windows \cup {0} \subseteq Nat
      BY WindowNumbers
    <3> QED BY <1>1, <2>1, <3>1 DEF Known
  <2>3. \A a \in replies : a.body.code = "active" => a.body.win \in Windows \cup {0}
    <3> SUFFICES ASSUME NEW a \in replies, a.body.code = "active" PROVE a.body \in Statuses
      BY BodyKinds
    <3> QED BY <1>1, BodyKinds DEF NetTypes, Bodies
  <2>4. window.id \in Windows \cup {0}
    BY <1>1, WorkerFields
  <2>5. CallsWindow'
    BY <1>1, <2>1 DEF CallsWindow
  <2>6. KnownElsewhere'
    BY <1>1, <2>1, <2>2, <2>3, <2>4, WindowNumbers DEF KnownElsewhere
  <2> QED BY <2>5, <2>6
<1>14. CASE Proceeds /\ PlaysClip({})
  <2>1. status # "listening"
    BY <1>1, <1>14 DEF Proceeds, JobUnderWay
  <2> QED BY <1>1, <1>14, <2>1, NothingNewKnown DEF PlaysClip, Exchange, CallsWindow
<1>15. ASSUME NEW r \in requests, TranscriptArrives(r) PROVE CallsWindow' /\ KnownElsewhere'
  BY <1>1, <1>15, NothingNewKnown DEF TranscriptArrives, Takes, Exchange, Unfinished, CallsWindow
<1>16. ASSUME NEW w \in Windows, SpeechStarted(w) PROVE CallsWindow' /\ KnownElsewhere'
  BY <1>1, <1>16, NothingNewKnown DEF SpeechStarted, Takes, Exchange, CallsWindow
<1>17. ASSUME NEW w \in Windows, MediaError(w) PROVE CallsWindow' /\ KnownElsewhere'
  <2>1. status' = status
    BY <1>17, FinishesDoes DEF MediaError, Unfinished
  <2>2. UNCHANGED <<step, turnVars>> /\ Exchange({Failure(w)}, {}, {}, {})
    BY <1>17 DEF MediaError, Takes
  <2> QED BY <1>1, <2>1, <2>2, NothingNewKnown DEF Exchange, CallsWindow
<1>18. ASSUME NEW n \in 1..MaxSockets, WindowLookedUp(n) PROVE CallsWindow' /\ KnownElsewhere'
  <2>1. /\ UNCHANGED <<status, win, opened, tuning, step>> /\ requests' \subseteq requests
        /\ \A a \in replies' : a \in replies \/ a = Reply(Lookup(n), CurrentWindow)
    BY <1>18 DEF WindowLookedUp, apiVars, Answers, Exchange
  <2>2. CurrentWindow.code = "active" =>
          CurrentWindow.tuning \in Tunings /\ (CurrentWindow.win # 0 => Known(CurrentWindow.win, CurrentWindow.tuning))
    BY <1>1, BodyKinds DEF CurrentWindow, CallsWindow, Known
  <2>3. CallsWindow'
    BY <1>1, <2>1 DEF CallsWindow
  <2>4. KnownElsewhere'
    BY <1>1, <2>1, <2>2, ReplyFields DEF KnownElsewhere, Known
  <2> QED BY <2>3, <2>4
<1>19. CASE Refinishes
  <2>1. /\ UNCHANGED <<requests, replies, status, win, opened, tuning>>
        /\ step' = step \/ step' = "refailing"
    BY <1>19, RefinishDoes
  <2> QED BY <1>1, <2>1, NothingNewKnown DEF CallsWindow
<1> QED BY <1>3, <1>4, <1>5, <1>6, <1>7, <1>8, <1>9, <1>10, <1>11, <1>12, <1>13, <1>14, <1>15, <1>16, <1>17, <1>18, <1>19
        DEF ApiStep

LEMMA WorkerWindowsStep ==
  ASSUME IInv, WorkerStep, UNCHANGED apiVars
  PROVE  WindowsInOrder'
<1>1. /\ TypeOK /\ NetTypes /\ ApiTypes /\ WorkerTypes
      /\ CallsWindow /\ KnownElsewhere /\ UNCHANGED <<status, win, opened, tuning, step>>
  BY WindowsParts DEF IInv, TypeOK, apiVars, turnVars
<1>2. CallsWindow'
  BY <1>1 DEF CallsWindow
<1>3. SUFFICES KnownElsewhere'
  BY <1>2 DEF WindowsInOrder, CallsWindow, KnownElsewhere
<1>4. ASSUME \A w \in Windows, t \in Tunings : Open(w, t) \in requests' => Open(w, t) \in requests,
             \A a \in replies' : a \in replies \/ a.body.code # "active",
             window' \in {window, NoWindow}
      PROVE  KnownElsewhere'
  <2>1. window'.id = 0 \/ window' = window
    BY <1>4, WindowFields
  <2> QED BY <1>1, <1>4, <2>1 DEF KnownElsewhere, Known
<1> USE DEF net
<1>5. CASE Connect
  BY <1>4, <1>5, OpensApart DEF Connect, Asks, Exchange
<1>6. CASE Abandon
  BY <1>4, <1>6 DEF Abandon, Settles, Exchange
<1>7. \A w \in Windows, t \in Tunings : Open(w, t) \notin LostTurn
  BY <1>1, LostTurnTypes, OpensApart DEF LostTurn
<1>8. CASE AudioCloses \/ AudioFails \/ ProviderFails \/ LifetimeEnds
  BY <1>4, <1>7, <1>8 DEF AudioCloses, AudioFails, AudioEnds, ProviderFails, LifetimeEnds, Notifies
<1>9. CASE ProviderOpens
  BY <1>4, <1>9 DEF ProviderOpens
<1>10. CASE SpeechStarts
  BY <1>4, <1>10, OpensApart DEF SpeechStarts, Notifies
<1>11. CASE Exit
  BY <1>4, <1>11 DEF Exit, Exchange
<1>12. ASSUME NEW w \in Windows, NEW t \in Tunings, OpenWindow(w, t) PROVE KnownElsewhere'
  <2>1. /\ requests' \subseteq requests /\ Known(w, t)
        /\ window' = window \/ window' = Window(w, t)
        /\ \A a \in replies' : a \in replies \/ a.body \in {Ok, Failed}
    BY <1>1, <1>12, ReplyFields DEF OpenWindow, Answers, Exchange, KnownElsewhere
  <2>2. \A a \in replies' : a \in replies \/ a.body.code # "active"
    BY <2>1, BodyKinds
  <2> QED BY <1>1, <2>1, <2>2, WindowFields DEF KnownElsewhere, Known
<1>13. ASSUME NEW w \in Windows, CloseWindow(w) PROVE KnownElsewhere'
  BY <1>4, <1>13 DEF CloseWindow, Takes, Exchange
<1>14. ASSUME NEW body \in Statuses, Accept(body) PROVE KnownElsewhere'
  <2>1. body.code = "active" /\ Reply(Lookup(sockets), body) \in replies
    BY <1>14 DEF Accept, Replied
  <2>2. body.win # 0 => Known(body.win, body.tuning)
    BY <1>1, <2>1, ReplyFields DEF KnownElsewhere
  <2>3. window' = window \/ (window' = Window(body.win, body.tuning) /\ body.win # 0)
    BY <1>14 DEF Accept, Looked
  <2>4. requests' \subseteq requests /\ replies' \subseteq replies
    BY <1>14 DEF Accept, Settles, Exchange
  <2> QED BY <1>1, <2>2, <2>3, <2>4, WindowFields DEF KnownElsewhere, Known
<1>15. ASSUME NEW u \in Utterances, Utter(u) PROVE KnownElsewhere'
  <2>1. Transcript(window.id, u, 1) \in Transcripts
    BY <1>1, <1>15, WorkerFields, WindowNumbers DEF Utter, Transcripts
  <2> QED BY <1>4, <1>15, <2>1, OpensApart DEF Utter, Asks, Exchange
<1>16. ASSUME NEW r \in receipts, Delivered(r) PROVE KnownElsewhere'
  BY <1>4, <1>16 DEF Delivered, Settles, Exchange
<1>17. ASSUME NEW r \in receipts, Retry(r) PROVE KnownElsewhere'
  <2>1. Again(r) \in Transcripts
    BY <1>1, <1>17, AgainIsTranscript DEF Retry, WorkerTypes
  <2> QED BY <1>4, <1>17, <2>1, OpensApart DEF Retry, Exchange
<1>18. ASSUME NEW r \in receipts, GiveUp(r) PROVE KnownElsewhere'
  BY <1>4, <1>18, OpensApart DEF GiveUp, Notifies
<1> QED BY <1>5, <1>6, <1>8, <1>9, <1>10, <1>11, <1>12, <1>13, <1>14, <1>15, <1>16, <1>17, <1>18
        DEF WorkerStep

-----------------------------------------------------------------------------
(* The worker's stream and its reservation. *)

LEMMA ReleasedWhenFree ==
  ASSUME ReservedWhileInUse, Released,
         Held => audio # "none" \/ window # NoWindow \/ receipts # {}
  PROVE  ReservedWhileInUse'
  BY DEF ReservedWhileInUse, Released, Held

LEMMA WorkerStreamStep ==
  ASSUME IInv, WorkerStep, UNCHANGED apiVars
  PROVE  StreamServesAudio' /\ ReservedWhileInUse'
<1>1. /\ WorkerTypes /\ StreamServesAudio /\ ReservedWhileInUse /\ WindowsInOrder /\ NetTypes
  BY DEF IInv, TypeOK
<1>2. NoWindow.id = 0 /\ NoStream.at = "none"
  BY WindowFields
<1>3. ASSUME window' = NoWindow PROVE window'.id = 0
  BY <1>2, <1>3
<1>4. CASE Connect
  BY <1>1, <1>4 DEF Connect, Reserves, StreamServesAudio, ReservedWhileInUse
<1>5. CASE Abandon
  <2>1. audio = "connecting" /\ audio' = "none" /\ UNCHANGED <<window, stream, receipts>> /\ Released
    BY <1>5 DEF Abandon
  <2>2. stream.at = "none"
    BY <1>1, <2>1 DEF StreamServesAudio
  <2> QED BY <1>1, <2>1, <2>2, ReleasedWhenFree DEF StreamServesAudio
<1>6. CASE AudioCloses \/ AudioFails
  <2>1. /\ audio = "open" /\ audio' = "none" /\ stream' = NoStream /\ window' = NoWindow
        /\ UNCHANGED receipts /\ Released
    BY <1>6 DEF AudioCloses, AudioFails, AudioEnds
  <2> QED BY <1>1, <1>2, <1>3, <2>1, ReleasedWhenFree DEF StreamServesAudio
<1>7. CASE ProviderOpens
  <2>1. stream.at = "opening" /\ stream' = [stream EXCEPT !.at = "open"] /\ UNCHANGED <<window, life, audio, receipts>>
    BY <1>7 DEF ProviderOpens
  <2>2. stream'.tuning = stream.tuning /\ audio = "open"
    BY <1>1, <2>1, <1>2 DEF WorkerTypes, StreamServesAudio
  <2> QED BY <1>1, <2>1, <2>2 DEF StreamServesAudio, ReservedWhileInUse
<1>8. CASE ProviderFails
  <2>1. /\ stream.at # "none" /\ stream' = NoStream /\ window' = NoWindow /\ UNCHANGED <<life, audio, receipts>>
    BY <1>8 DEF ProviderFails
  <2>2. audio = "open"
    BY <1>1, <2>1 DEF StreamServesAudio
  <2> QED BY <1>1, <1>2, <1>3, <2>1, <2>2 DEF StreamServesAudio, ReservedWhileInUse
<1>9. CASE SpeechStarts
  BY <1>1, <1>9 DEF SpeechStarts, StreamServesAudio, ReservedWhileInUse
<1>10. CASE LifetimeEnds
  BY <1>1, <1>2, <1>3, <1>10 DEF LifetimeEnds, StreamServesAudio, ReservedWhileInUse
<1>11. CASE Exit
  BY <1>1, <1>2, <1>3, <1>11 DEF Exit, StreamServesAudio, ReservedWhileInUse
<1>12. ASSUME NEW w \in Windows, NEW t \in Tunings, OpenWindow(w, t)
       PROVE  StreamServesAudio' /\ ReservedWhileInUse'
  <2>1. UNCHANGED <<audio, receipts>>
    BY <1>12 DEF OpenWindow
  <2>2. CASE /\ window' = Window(w, t) /\ Reserves /\ stream' = IF audio = "open" THEN Tuned(t) ELSE stream
    <3>1. window' # NoWindow /\ window'.tuning = t /\ life' # "none"
      BY <2>2, WindowFields DEF Reserves
    <3>2. audio = "open" => stream'.tuning = t
      BY <1>1, <2>2, TunedTypes
    <3> QED BY <1>1, <2>1, <2>2, <3>1, <3>2 DEF StreamServesAudio, ReservedWhileInUse
  <2>3. CASE UNCHANGED <<window, life, stream>>
    BY <1>1, <2>1, <2>3 DEF StreamServesAudio, ReservedWhileInUse
  <2> QED BY <1>12, <2>2, <2>3 DEF OpenWindow
<1>13. ASSUME NEW w \in Windows, CloseWindow(w) PROVE StreamServesAudio' /\ ReservedWhileInUse'
  <2>1. UNCHANGED <<audio, stream, receipts>>
    BY <1>13 DEF CloseWindow
  <2>2. CASE window' = NoWindow /\ Released
    BY <1>1, <1>3, <2>1, <2>2, ReleasedWhenFree DEF StreamServesAudio, Held
  <2>3. CASE UNCHANGED <<window, life>>
    BY <1>1, <2>1, <2>3 DEF StreamServesAudio, ReservedWhileInUse
  <2> QED BY <1>13, <2>2, <2>3 DEF CloseWindow
<1>14. ASSUME NEW body \in Statuses, Accept(body) PROVE StreamServesAudio' /\ ReservedWhileInUse'
  <2>1. /\ audio = "connecting" /\ window' = Looked(body) /\ body.code = "active"
        /\ UNCHANGED receipts /\ Reply(Lookup(sockets), body) \in replies
    BY <1>14 DEF Accept, Replied
  <2>2. body.tuning \in Tunings /\ body.win \in Windows \cup {0}
    BY <1>1, <2>1, ReplyFields, BodyKinds DEF WindowsInOrder
  <2>3. window' \in {NoWindow} \cup {Window(w, t) : w \in Windows, t \in Tunings}
    BY <1>1, <2>1, <2>2 DEF Looked, WorkerTypes
  <2>4. FirstTuning(body) \in Tunings /\ (window'.id # 0 => FirstTuning(body) = window'.tuning)
    BY <2>1, <2>2, <2>3, WindowFields DEF FirstTuning
  <2>5. CASE audio' = "open" /\ stream' = Tuned(FirstTuning(body)) /\ UNCHANGED <<life, reported>>
    <3>1. stream'.tuning = FirstTuning(body)
      BY <1>1, <2>4, <2>5, TunedTypes
    <3> QED BY <1>1, <2>1, <2>4, <2>5, <3>1 DEF StreamServesAudio, ReservedWhileInUse
  <2>6. CASE audio' = "none" /\ UNCHANGED stream /\ Released
    <3>1. stream.at = "none"
      BY <1>1, <2>1 DEF StreamServesAudio
    <3> QED BY <1>1, <2>1, <2>6, <3>1, ReleasedWhenFree DEF StreamServesAudio
  <2> QED BY <1>14, <2>5, <2>6 DEF Accept
<1>15. ASSUME NEW u \in Utterances, Utter(u) PROVE StreamServesAudio' /\ ReservedWhileInUse'
  <2>1. window' = NoWindow /\ window # NoWindow /\ receipts' # {} /\ UNCHANGED <<life, audio, stream>>
    BY <1>15 DEF Utter
  <2> QED BY <1>1, <1>3, <2>1 DEF StreamServesAudio, ReservedWhileInUse
<1>16. ASSUME NEW r \in receipts, Delivered(r) PROVE StreamServesAudio' /\ ReservedWhileInUse'
  <2>1. receipts' = receipts \ {r} /\ UNCHANGED <<window, audio, stream>> /\ Released
    BY <1>16 DEF Delivered
  <2> QED BY <1>1, <2>1, ReleasedWhenFree DEF StreamServesAudio
<1>17. ASSUME NEW r \in receipts, Retry(r) PROVE StreamServesAudio' /\ ReservedWhileInUse'
  BY <1>1, <1>17 DEF Retry, StreamServesAudio, ReservedWhileInUse
<1>18. ASSUME NEW r \in receipts, GiveUp(r) PROVE StreamServesAudio' /\ ReservedWhileInUse'
  <2>1. receipts' = receipts \ {r} /\ UNCHANGED <<window, audio, stream>> /\ Released
    BY <1>18 DEF GiveUp
  <2> QED BY <1>1, <2>1, ReleasedWhenFree DEF StreamServesAudio
<1> QED BY <1>4, <1>5, <1>6, <1>7, <1>8, <1>9, <1>10, <1>11, <1>12, <1>13, <1>14, <1>15, <1>16, <1>17, <1>18
        DEF WorkerStep

-----------------------------------------------------------------------------
(* The worker's transcripts. *)

\* No utterance is submitted: a transcript on its way was on its way, or is a retry.
LEMMA SaidBefore ==
  ASSUME TranscriptsAreTrue, UNCHANGED <<spoken, opened, jobs>>,
         \A r \in Transcripts \cap (requests' \cup receipts') :
           \E s \in Transcripts \cap (requests \cup receipts) : s.utt = r.utt /\ s.win = r.win
  PROVE  TranscriptsAreTrue'
<1>1. Queued' = Queued
  BY DEF Queued
<1> QED BY <1>1 DEF TranscriptsAreTrue

\* The API does not move: what it holds is true as long as its past answers stand.
LEMMA ApiStands ==
  ASSUME JobUnderWay, AnsweredOnce, AcknowledgedIsHeard, NoTurnWithoutEnd, UNCHANGED apiVars,
         \A a \in replies' : a \in replies \/ a.to.kind # "transcript"
  PROVE  JobUnderWay' /\ AnsweredOnce' /\ AcknowledgedIsHeard' /\ NoTurnWithoutEnd'
<1>1. UNCHANGED <<status, timer, jobs, step, finishing, win, opened, last, heard, refused>>
  BY DEF apiVars, turnVars
<1>2. Queued' = Queued /\ Job' = Job
  BY <1>1 DEF Queued, Job
<1>3. JobUnderWay'
  BY <1>1, <1>2 DEF JobUnderWay
<1>4. AnsweredOnce' /\ AcknowledgedIsHeard'
  BY <1>1 DEF AnsweredOnce, AcknowledgedIsHeard
<1>5. NoTurnWithoutEnd'
  BY <1>1 DEF NoTurnWithoutEnd, TurnIsOpen, Awaited
<1> QED BY <1>3, <1>4, <1>5

LEMMA WorkerTranscriptsStep ==
  ASSUME IInv, WorkerStep, UNCHANGED apiVars
  PROVE  /\ TranscriptsAreTrue' /\ HeardWhereSpoken'
         /\ JobUnderWay' /\ AnsweredOnce' /\ AcknowledgedIsHeard' /\ NoTurnWithoutEnd'
<1>1. /\ NetTypes /\ ApiTypes /\ WorkerTypes /\ UNCHANGED <<opened, jobs, heard>>
      /\ WindowsInOrder /\ TranscriptsAreTrue /\ HeardWhereSpoken
      /\ JobUnderWay /\ AnsweredOnce /\ AcknowledgedIsHeard /\ NoTurnWithoutEnd
  BY DEF IInv, TypeOK, apiVars, turnVars
<1>2. receipts \subseteq Transcripts
  BY <1>1 DEF WorkerTypes
\* The steps that submit nothing.
<1>3. ASSUME UNCHANGED spoken,
             \A r \in Transcripts \cap (requests' \cup receipts') :
               \E s \in Transcripts \cap (requests \cup receipts) : s.utt = r.utt /\ s.win = r.win,
             \A a \in replies' : a \in replies \/ a.to.kind # "transcript"
      PROVE  /\ TranscriptsAreTrue' /\ HeardWhereSpoken'
             /\ JobUnderWay' /\ AnsweredOnce' /\ AcknowledgedIsHeard' /\ NoTurnWithoutEnd'
  BY <1>1, <1>3, SaidBefore, ApiStands DEF HeardWhereSpoken
<1>4. ASSUME UNCHANGED spoken, receipts' \subseteq receipts, replies' \subseteq replies,
             Transcripts \cap requests' \subseteq requests
      PROVE  /\ TranscriptsAreTrue' /\ HeardWhereSpoken'
             /\ JobUnderWay' /\ AnsweredOnce' /\ AcknowledgedIsHeard' /\ NoTurnWithoutEnd'
  <2>1. \A r \in Transcripts \cap (requests' \cup receipts') :
          \E s \in Transcripts \cap (requests \cup receipts) : s.utt = r.utt /\ s.win = r.win
    BY <1>4
  <2> QED BY <1>3, <1>4, <2>1
<1> USE DEF net
<1>5. CASE Connect
  <2>1. Lookup(sockets + 1) \notin Transcripts
    BY TranscriptFields DEF Lookup
  <2> QED BY <1>4, <1>5, <2>1 DEF Connect, Asks, Exchange
<1>6. CASE Abandon
  BY <1>4, <1>6 DEF Abandon, Settles, Exchange
<1>7. CASE AudioCloses \/ AudioFails \/ ProviderFails \/ LifetimeEnds
  BY <1>1, <1>4, <1>7, LostTurnTypes DEF AudioCloses, AudioFails, AudioEnds, ProviderFails, LifetimeEnds, Notifies
<1>8. CASE ProviderOpens
  BY <1>4, <1>8 DEF ProviderOpens
<1>9. CASE SpeechStarts
  <2>1. Speaking(window.id) \notin Transcripts
    BY TranscriptFields DEF Speaking
  <2> QED BY <1>4, <1>9, <2>1 DEF SpeechStarts, Notifies
<1>10. CASE Exit
  BY <1>4, <1>10 DEF Exit, Exchange
<1>11. ASSUME NEW w \in Windows, NEW t \in Tunings, OpenWindow(w, t)
       PROVE  /\ TranscriptsAreTrue' /\ HeardWhereSpoken'
              /\ JobUnderWay' /\ AnsweredOnce' /\ AcknowledgedIsHeard' /\ NoTurnWithoutEnd'
  <2>1. /\ requests' \subseteq requests /\ UNCHANGED <<spoken, receipts>>
        /\ \A a \in replies' : a \in replies \/ a.to = Open(w, t)
    BY <1>11, ReplyFields DEF OpenWindow, Answers, Exchange
  <2>2. \A a \in replies' : a \in replies \/ a.to.kind # "transcript"
    BY <2>1 DEF Open
  <2>3. \A r \in Transcripts \cap (requests' \cup receipts') :
          \E s \in Transcripts \cap (requests \cup receipts) : s.utt = r.utt /\ s.win = r.win
    BY <2>1
  <2> QED BY <1>3, <2>1, <2>2, <2>3
<1>12. ASSUME NEW w \in Windows, CloseWindow(w)
       PROVE  /\ TranscriptsAreTrue' /\ HeardWhereSpoken'
              /\ JobUnderWay' /\ AnsweredOnce' /\ AcknowledgedIsHeard' /\ NoTurnWithoutEnd'
  BY <1>4, <1>12 DEF CloseWindow, Takes, Exchange
<1>13. ASSUME NEW body \in Statuses, Accept(body)
       PROVE  /\ TranscriptsAreTrue' /\ HeardWhereSpoken'
              /\ JobUnderWay' /\ AnsweredOnce' /\ AcknowledgedIsHeard' /\ NoTurnWithoutEnd'
  BY <1>4, <1>13 DEF Accept, Settles, Exchange
<1>14. ASSUME NEW u \in Utterances, Utter(u)
       PROVE  /\ TranscriptsAreTrue' /\ HeardWhereSpoken'
              /\ JobUnderWay' /\ AnsweredOnce' /\ AcknowledgedIsHeard' /\ NoTurnWithoutEnd'
  <2>1. /\ spoken[u] = 0 /\ spoken' = [spoken EXCEPT ![u] = window.id] /\ window # NoWindow
        /\ requests' = requests \cup {Transcript(window.id, u, 1)}
        /\ receipts' = receipts \cup {Transcript(window.id, u, 1)}
        /\ replies' \subseteq replies
    BY <1>14 DEF Utter, Asks, Exchange
  <2>2. window.id \in Windows /\ window.id <= opened
    BY <1>1, <2>1, WorkerFields, WindowNumbers DEF WindowsInOrder, Known
  <2>3. PICK x : x = Transcript(window.id, u, 1)
    OBVIOUS
  <2>4. x.utt = u /\ x.win = window.id
    BY <2>3 DEF Transcript
  <2>5. spoken \in [Utterances -> Windows \cup {0}] /\ Queued' = Queued
    BY <1>1 DEF WorkerTypes, Queued
  <2>6. spoken'[u] = window.id /\ \A v \in Utterances \ {u} : spoken'[v] = spoken[v]
    BY <2>1, <2>5
  <2>7. \A r \in Transcripts \cap (requests \cup receipts \cup Queued) : r.utt # u
    BY <1>1, <2>1, TranscriptFields, WindowNumbers DEF TranscriptsAreTrue
  <2>8. \A r \in Transcripts \cap (requests' \cup receipts' \cup Queued') : spoken'[r.utt] = r.win
    BY <1>1, <2>1, <2>3, <2>4, <2>5, <2>6, <2>7, TranscriptFields DEF TranscriptsAreTrue
  <2>9. TranscriptsAreTrue'
    BY <1>1, <2>2, <2>6, <2>8 DEF TranscriptsAreTrue
  <2>10. HeardWhereSpoken'
    <3>1. \A w \in Windows : heard[w] # 0 => heard[w] \in Utterances \ {u}
      BY <1>1, <2>1, WindowNumbers DEF HeardWhereSpoken, ApiTypes
    <3> QED BY <1>1, <2>6, <3>1 DEF HeardWhereSpoken
  <2> QED BY <1>1, <2>1, <2>9, <2>10, ApiStands
<1>15. ASSUME NEW r \in receipts, Delivered(r)
       PROVE  /\ TranscriptsAreTrue' /\ HeardWhereSpoken'
              /\ JobUnderWay' /\ AnsweredOnce' /\ AcknowledgedIsHeard' /\ NoTurnWithoutEnd'
  BY <1>4, <1>15 DEF Delivered, Settles, Exchange
<1>16. ASSUME NEW r \in receipts, Retry(r)
       PROVE  /\ TranscriptsAreTrue' /\ HeardWhereSpoken'
              /\ JobUnderWay' /\ AnsweredOnce' /\ AcknowledgedIsHeard' /\ NoTurnWithoutEnd'
  <2>1. r \in Transcripts /\ Again(r).win = r.win /\ Again(r).utt = r.utt
    BY <1>2, <1>16, AgainIsTranscript DEF Retry
  <2>2. /\ requests' = requests \cup {Again(r)} /\ receipts' = (receipts \ {r}) \cup {Again(r)}
        /\ replies' \subseteq replies /\ UNCHANGED spoken
    BY <1>16 DEF Retry, Exchange
  <2>3. \A q \in Transcripts \cap (requests' \cup receipts') :
          \E s \in Transcripts \cap (requests \cup receipts) : s.utt = q.utt /\ s.win = q.win
    BY <1>16, <2>1, <2>2
  <2> QED BY <1>3, <2>2, <2>3
<1>17. ASSUME NEW r \in receipts, GiveUp(r)
       PROVE  /\ TranscriptsAreTrue' /\ HeardWhereSpoken'
              /\ JobUnderWay' /\ AnsweredOnce' /\ AcknowledgedIsHeard' /\ NoTurnWithoutEnd'
  <2>1. Failure(r.win) \notin Transcripts
    BY TranscriptFields DEF Failure
  <2> QED BY <1>4, <1>17, <2>1 DEF GiveUp, Notifies
<1> QED BY <1>5, <1>6, <1>7, <1>8, <1>9, <1>10, <1>11, <1>12, <1>13, <1>14, <1>15, <1>16, <1>17
        DEF WorkerStep

-----------------------------------------------------------------------------
(* The transcripts the API holds. *)

\* It holds those it held and those sent to it, and submits none.
HoldsOnlySent ==
  /\ Transcripts \cap requests' \subseteq requests
  /\ Transcripts \cap Queued' \subseteq Queued \cup requests
  /\ opened' \in {opened, opened + 1}

LEMMA SameQueue == ASSUME UNCHANGED jobs PROVE Queued' = Queued /\ Job' = Job
  BY DEF Queued, Job

LEMMA ApiHolds ==
  ASSUME IInv, ApiStep
  PROVE  HoldsOnlySent
<1>1. /\ TypeOK /\ ApiTypes /\ WindowsInOrder /\ JobUnderWay /\ jobs \in Seq(Jobs)
  BY DEF IInv, TypeOK, ApiTypes
<1> USE DEF net, turnVars
<1>2. ASSUME UNCHANGED <<jobs, opened>>, requests' \subseteq requests PROVE HoldsOnlySent
  BY <1>2, SameQueue DEF HoldsOnlySent
<1>3. CASE Stop
  BY <1>2, <1>3 DEF Stop
<1>4. CASE Completes
  BY <1>2, <1>4 DEF Completes
<1>5. CASE PlaybackStopped
  <2>1. UNCHANGED <<opened, requests>> /\ jobs' \in {jobs, Append(jobs, Turn)}
    BY <1>5 DEF PlaybackStopped
  <2>2. Turn \notin Transcripts
    BY JobKinds
  <2>3. Queued' \subseteq Queued \cup {Turn}
    BY <1>1, <2>1, SameQueue, JobJoins, JobKinds
  <2> QED BY <2>1, <2>2, <2>3 DEF HoldsOnlySent
<1>6. CASE TimerFires
  <2>1. UNCHANGED <<opened, requests>> /\ jobs' = Append(jobs, NoSpeech(timer.win)) /\ timer.kind # "none"
    BY <1>6 DEF TimerFires
  <2>2. timer.win \in Windows
    BY <1>1, <2>1, WindowNumbers DEF JobUnderWay, ApiTypes, Windows
  <2>3. NoSpeech(timer.win) \in Jobs /\ NoSpeech(timer.win) \notin Transcripts
    BY <2>2, JobKinds, TranscriptFields DEF NoSpeech
  <2>4. Queued' = Queued \cup {NoSpeech(timer.win)}
    BY <1>1, <2>1, <2>3, JobJoins
  <2> QED BY <2>1, <2>3, <2>4 DEF HoldsOnlySent
<1>7. ASSUME NEW settled, settled \cap Transcripts = {}, JobOver(settled) PROVE HoldsOnlySent
  BY <1>1, <1>7, JobOverTypes DEF HoldsOnlySent
<1>8. CASE JobEnds_
  BY <1>7, <1>8 DEF JobEnds_
<1>9. CASE OpenEnds
  <2>1. opened \in Windows /\ tuning \in Tunings
    BY <1>1, <1>9, WindowNumbers DEF OpenEnds, WindowsInOrder, ApiTypes
  <2> QED BY <1>7, <1>9, <2>1, RequestKinds DEF OpenEnds
<1>10. CASE JobFails
  BY <1>2, <1>10 DEF JobFails, Fails, Exchange
<1>11. CASE Heard \/ Unheard
  BY <1>2, <1>11 DEF Heard, Unheard, Leaves, LeavesWindow
<1>12. CASE EntrySaved
  <2>1. opened \in Windows /\ tuning \in Tunings
    BY <1>1, <1>12, WindowNumbers DEF EntrySaved, WindowsInOrder, ApiTypes
  <2>2. requests' = requests \cup {Open(opened, tuning)} /\ UNCHANGED <<jobs, opened>>
    BY <1>12 DEF EntrySaved, Asks, Exchange
  <2> QED BY <2>1, <2>2, RequestKinds, SameQueue DEF HoldsOnlySent
<1>13. CASE ClosingSaved
  <2>1. requests' \subseteq requests \cup {Close(Job.win)} /\ UNCHANGED <<jobs, opened>>
    BY <1>13 DEF ClosingSaved, Notifies
  <2>2. Close(Job.win) \notin Transcripts
    BY TranscriptFields DEF Close
  <2> QED BY <2>1, <2>2, SameQueue DEF HoldsOnlySent
<1>14. CASE EntersListening({})
  BY <1>14, SameQueue DEF EntersListening, Exchange, HoldsOnlySent
<1>15. CASE PlaysClip({})
  BY <1>2, <1>15 DEF PlaysClip, Exchange
<1>16. ASSUME NEW r \in requests, TranscriptArrives(r) PROVE HoldsOnlySent
  <2>1. r \in Transcripts /\ jobs' = Append(jobs, r) /\ requests' \subseteq requests /\ UNCHANGED opened
    BY <1>16 DEF TranscriptArrives, Takes, Exchange
  <2>2. Queued' = Queued \cup {r}
    BY <1>1, <2>1, TranscriptFields, JobJoins
  <2> QED BY <2>1, <2>2 DEF HoldsOnlySent
<1>17. ASSUME NEW w \in Windows, SpeechStarted(w) PROVE HoldsOnlySent
  BY <1>2, <1>17 DEF SpeechStarted, Takes, Exchange
<1>18. ASSUME NEW w \in Windows, MediaError(w) PROVE HoldsOnlySent
  BY <1>2, <1>18 DEF MediaError, Takes, Exchange
<1>19. ASSUME NEW n \in 1..MaxSockets, WindowLookedUp(n) PROVE HoldsOnlySent
  BY <1>2, <1>19 DEF WindowLookedUp, Answers, Exchange, apiVars
<1>20. CASE Refinishes
  BY <1>2, <1>20, RefinishDoes
<1> QED BY <1>3, <1>4, <1>5, <1>6, <1>8, <1>9, <1>10, <1>11, <1>12, <1>13, <1>14, <1>15, <1>16, <1>17, <1>18, <1>19, <1>20
        DEF ApiStep

\* Only a transcript that is heard answers a window.
LEMMA AnswersAreHeard ==
  ASSUME ApiStep
  PROVE  Heard \/ UNCHANGED <<heard, last>>
<1> USE DEF turnVars
<1>1. CASE Stop \/ Completes \/ PlaybackStopped \/ TimerFires \/ Unheard \/ EntrySaved \/ ClosingSaved
  BY <1>1 DEF Stop, Completes, PlaybackStopped, TimerFires, Unheard, EntrySaved, ClosingSaved
<1>2. CASE JobEnds_ \/ OpenEnds \/ JobFails
  BY <1>2 DEF JobEnds_, OpenEnds, JobOver, JobFails, Fails
<1>3. CASE EntersListening({}) \/ PlaysClip({})
  BY <1>3 DEF EntersListening, PlaysClip
<1>4. ASSUME NEW r \in requests, TranscriptArrives(r) PROVE UNCHANGED <<heard, last>>
  BY <1>4 DEF TranscriptArrives
<1>5. ASSUME NEW w \in Windows, SpeechStarted(w) \/ MediaError(w) PROVE UNCHANGED <<heard, last>>
  BY <1>5 DEF SpeechStarted, MediaError
<1>6. ASSUME NEW n \in 1..MaxSockets, WindowLookedUp(n) PROVE UNCHANGED <<heard, last>>
  BY <1>6 DEF WindowLookedUp, apiVars
<1>7. CASE Refinishes
  BY <1>7, RefinishDoes
<1> QED BY <1>1, <1>2, <1>3, <1>4, <1>5, <1>6, <1>7 DEF ApiStep

\* The window left is the latest, and the transcript at the head was spoken in it.
LEMMA HeardDoes ==
  ASSUME IInv, Heard
  PROVE  /\ Job \in Transcripts \cap Queued /\ Job.win = win /\ win \in Windows /\ win = opened
         /\ Job.utt \in Utterances /\ spoken[Job.utt] = win
         /\ heard[win] = 0 /\ heard'[win] = Job.utt /\ \A w \in Windows \ {win} : heard'[w] = heard[w]
         /\ last' = [win |-> win, utt |-> Job.utt]
<1>1. /\ ApiTypes /\ WindowsInOrder /\ TranscriptsAreTrue /\ AnsweredOnce /\ jobs \in Seq(Jobs)
  BY DEF IInv, TypeOK, ApiTypes
<1>2. jobs # <<>> /\ Job.kind = "transcript" /\ status = "listening" /\ win = Job.win
      /\ last' = [win |-> win, utt |-> Job.utt] /\ heard' = [heard EXCEPT ![win] = Job.utt]
  BY DEF Heard, Running, Leaves, WaitsFor, InWindow
<1>3. Job \in Transcripts \cap Queued
  BY <1>1, <1>2, HeadJob, JobKinds
<1>4. Job.win \in Windows /\ Job.utt \in Utterances /\ win = opened
  BY <1>1, <1>2, <1>3, TranscriptFields DEF WindowsInOrder
<1>5. spoken[Job.utt] = win /\ heard[win] = 0
  BY <1>1, <1>2, <1>3, <1>4 DEF TranscriptsAreTrue, AnsweredOnce
<1> QED BY <1>1, <1>2, <1>3, <1>4, <1>5 DEF ApiTypes

LEMMA ApiTranscriptsStep ==
  ASSUME IInv, ApiStep, UNCHANGED workerVars
  PROVE  TranscriptsAreTrue' /\ HeardWhereSpoken' /\ StreamServesAudio' /\ ReservedWhileInUse'
<1>1. /\ ApiTypes /\ WorkerTypes /\ TranscriptsAreTrue /\ HeardWhereSpoken /\ StreamServesAudio /\ ReservedWhileInUse
      /\ UNCHANGED <<window, life, audio, stream, receipts, spoken>>
  BY DEF IInv, TypeOK, workerVars
<1>2. StreamServesAudio' /\ ReservedWhileInUse'
  BY <1>1 DEF StreamServesAudio, ReservedWhileInUse
<1>3. TranscriptsAreTrue'
  <2>1. Windows \cup {0} \subseteq Nat
    BY WindowNumbers
  <2>2. opened \in Nat
    BY <1>1, <2>1 DEF ApiTypes
  <2>3. \A u \in Utterances : spoken[u] \in Nat
    BY <1>1, <2>1 DEF WorkerTypes
  <2>4. \A r \in Transcripts \cap (requests' \cup receipts' \cup Queued') : spoken'[r.utt] = r.win
    BY <1>1, ApiHolds DEF HoldsOnlySent, TranscriptsAreTrue
  <2>5. \A u \in Utterances : spoken'[u] <= opened'
    BY <1>1, <2>2, <2>3, ApiHolds DEF HoldsOnlySent, TranscriptsAreTrue
  <2> QED BY <2>4, <2>5 DEF TranscriptsAreTrue
<1>4. HeardWhereSpoken'
  <2>1. CASE Heard
    BY <1>1, <2>1, HeardDoes DEF HeardWhereSpoken
  <2>2. CASE UNCHANGED heard
    BY <1>1, <2>2 DEF HeardWhereSpoken
  <2> QED BY <2>1, <2>2, AnswersAreHeard
<1> QED BY <1>2, <1>3, <1>4

-----------------------------------------------------------------------------
(* The job under way. *)

\* What is at the head, where it stands, and what of the past it has behind it.
HeadStands ==
  /\ step # "none" => jobs # <<>>
  /\ step \in {"closing", "routing"} => status # "listening"
  /\ step = "closing" => Job.kind # "turn"
  /\ step # "none" /\ Job.kind = "noSpeech" => Job.win # win
  /\ step # "none" /\ Job.kind = "transcript" => heard[Job.win] = Job.utt
WindowsPast ==
  /\ \A j \in Queued : j.kind = "noSpeech" => j.win <= opened
  /\ timer.kind # "none" => timer.win \in 1..opened

LEMMA JobParts == JobUnderWay <=> HeadStands /\ WindowsPast
  BY DEF JobUnderWay, HeadStands, WindowsPast

\* One more job behind the others.
LEMMA JoinsBehind ==
  ASSUME HeadStands, \A j \in Queued : j.kind = "noSpeech" => j.win <= opened,
         jobs \in Seq(Jobs), NEW x \in Jobs, jobs' = Append(jobs, x),
         x.kind = "noSpeech" => x.win <= opened, UNCHANGED <<status, step, win, opened, heard>>
  PROVE  HeadStands' /\ \A j \in Queued' : j.kind = "noSpeech" => j.win <= opened'
<1>1. jobs' # <<>> /\ Queued' = Queued \cup {x} /\ (jobs # <<>> => Job' = Job)
  BY JobJoins
<1>2. HeadStands'
  BY <1>1 DEF HeadStands
<1> QED BY <1>1, <1>2

\* The head stays, at another step.
LEMMA HeadMoves ==
  ASSUME HeadStands, UNCHANGED <<jobs, heard>>, step' # "none" => jobs # <<>>,
         step' \in {"closing", "routing"} => status' # "listening",
         step' = "closing" => Job.kind # "turn",
         step' # "none" /\ Job.kind = "noSpeech" => Job.win # win',
         step' # "none" => step # "none" \/ Job.kind # "transcript"
  PROVE  HeadStands'
<1>1. Job' = Job
  BY SameQueue
<1> QED BY <1>1 DEF HeadStands

LEMMA TimersPast ==
  ASSUME WindowsPast, UNCHANGED jobs, opened' = opened, timer' \in {timer, NoTimer}
  PROVE  WindowsPast'
<1>1. Queued' = Queued /\ NoTimer.kind = "none"
  BY SameQueue DEF NoTimer
<1> QED BY <1>1 DEF WindowsPast

LEMMA ApiJobStep ==
  ASSUME IInv, ApiStep
  PROVE  JobUnderWay'
<1>1. /\ TypeOK /\ NetTypes /\ ApiTypes /\ WorkerTypes /\ WindowsInOrder /\ AnsweredOnce
      /\ HeadStands /\ WindowsPast /\ jobs \in Seq(Jobs)
  BY JobParts DEF IInv, TypeOK, ApiTypes
<1>2. SUFFICES HeadStands' /\ WindowsPast'
  BY DEF JobUnderWay, HeadStands, WindowsPast
<1>3. opened \in Nat /\ win \in Nat /\ timer.win \in Nat
  <2>1. Windows \cup {0} \subseteq Nat
    BY WindowNumbers
  <2> QED BY <1>1, <2>1 DEF ApiTypes
\* A window at the head is drawn, and not the 0 of no window.
<1>4. ASSUME jobs # <<>> PROVE Job \in Jobs /\ (Job.kind = "noSpeech" => Job.win # 0 /\ Job.win <= opened /\ Job.win \in Nat)
  BY <1>1, <1>4, HeadJob, JobKinds, WindowNumbers DEF WindowsPast
<1> USE DEF net, turnVars
<1>5. ASSUME UNCHANGED <<jobs, step, win, opened, heard>>, status' = status, timer' \in {timer, NoTimer}
      PROVE  HeadStands' /\ WindowsPast'
  <2>1. HeadStands'
    <3>1. Job' = Job
      BY <1>5, SameQueue
    <3> QED BY <1>1, <1>5, <3>1 DEF HeadStands
  <2> QED BY <1>1, <1>5, <2>1, TimersPast
<1>6. CASE Stop
  BY <1>5, <1>6, FinishesDoes DEF Stop
<1>7. CASE Completes
  <2>1. UNCHANGED <<jobs, step, heard, opened>> /\ status' = "over" /\ win' = 0 /\ timer' = NoTimer
    BY <1>7 DEF Completes
  <2>2. HeadStands'
    BY <1>1, <1>4, <2>1, HeadMoves DEF HeadStands
  <2> QED BY <1>1, <2>1, <2>2, TimersPast
<1>8. CASE PlaybackStopped
  <2>1. UNCHANGED <<status, timer, step, win, opened, heard>> /\ jobs' \in {jobs, Append(jobs, Turn)}
    BY <1>8 DEF PlaybackStopped
  <2>2. CASE jobs' = jobs
    BY <1>5, <2>1, <2>2
  <2>3. CASE jobs' = Append(jobs, Turn)
    <3>1. Turn \in Jobs /\ Turn.kind # "noSpeech"
      BY JobKinds
    <3>2. HeadStands' /\ \A j \in Queued' : j.kind = "noSpeech" => j.win <= opened'
      BY <1>1, <2>1, <2>3, <3>1, JoinsBehind DEF WindowsPast
    <3> QED BY <1>1, <2>1, <3>2 DEF WindowsPast
  <2> QED BY <2>1, <2>2, <2>3
<1>9. CASE TimerFires
  <2>1. /\ timer.kind # "none" /\ jobs' = Append(jobs, NoSpeech(timer.win)) /\ timer' = NoTimer
        /\ UNCHANGED <<status, step, win, opened, heard>>
    BY <1>9 DEF TimerFires
  <2>2. timer.win \in Windows /\ timer.win <= opened
    BY <1>1, <1>3, <2>1, WindowNumbers DEF WindowsPast, ApiTypes, Windows
  <2>3. PICK x \in Jobs : x = NoSpeech(timer.win) /\ x.win = timer.win
    BY <2>2, JobKinds
  <2>4. HeadStands' /\ \A j \in Queued' : j.kind = "noSpeech" => j.win <= opened'
    BY <1>1, <2>1, <2>2, <2>3, JoinsBehind DEF WindowsPast
  <2> QED BY <2>1, <2>4 DEF WindowsPast, NoTimer
<1>10. ASSUME NEW settled, settled \cap Transcripts = {}, JobOver(settled)
       PROVE  HeadStands' /\ \A j \in Queued' : j.kind = "noSpeech" => j.win <= opened'
  <2>1. step' = "none" /\ UNCHANGED turnVars /\ Queued' \subseteq Queued
    BY <1>1, <1>10, JobOverTypes
  <2> QED BY <1>1, <2>1 DEF HeadStands, WindowsPast
<1>11. CASE JobEnds_
  <2>1. JobOver({}) /\ {} \cap Transcripts = {} /\ UNCHANGED timer
    BY <1>11 DEF JobEnds_, Unfinished
  <2>2. opened' = opened
    BY <2>1 DEF JobOver
  <2> QED BY <1>1, <1>10, <2>1, <2>2 DEF WindowsPast
<1>12. CASE OpenEnds
  <2>1. opened \in Windows /\ tuning \in Tunings
    BY <1>1, <1>12, WindowNumbers DEF OpenEnds, WindowsInOrder, ApiTypes
  <2>2. /\ JobOver({Open(opened, tuning)}) /\ {Open(opened, tuning)} \cap Transcripts = {}
        /\ timer' \in {timer, Silence(opened)} /\ opened' = opened
    BY <1>12, <2>1, RequestKinds DEF OpenEnds, JobOver
  <2>3. timer'.kind # "none" => timer'.win \in 1..opened'
    BY <1>1, <1>3, <2>1, <2>2, WindowNumbers DEF WindowsPast, Silence, Timer
  <2> QED BY <1>10, <2>2, <2>3 DEF WindowsPast
\* The job under way goes on from what is behind it.
<1>13. ASSUME Proceeds
       PROVE  jobs # <<>> /\ (step # "none" \/ Job.kind = "turn")
              /\ (Job.kind = "noSpeech" => Job.win # win) /\ status # "listening"
  BY <1>1, <1>13 DEF Proceeds, Running, HeadStands
<1>14. CASE JobFails
  <2>1. jobs # <<>> /\ (step # "none" \/ Job.kind = "turn") /\ (Job.kind = "noSpeech" => Job.win # win)
    BY <1>1, <1>13, <1>14 DEF JobFails, HeadStands
  <2>2. status' = status /\ timer' \in {timer, NoTimer} /\ step' = "failing" /\ UNCHANGED <<jobs, win, opened, heard>>
    BY <1>14, FinishesDoes DEF JobFails, Fails
  <2>3. HeadStands'
    BY <1>1, <2>1, <2>2, HeadMoves
  <2> QED BY <1>1, <2>2, <2>3, TimersPast
<1>15. CASE Unheard
  <2>1. /\ Job.kind = "noSpeech" /\ jobs # <<>> /\ UNCHANGED <<jobs, heard, opened>> /\ timer' = NoTimer
        /\ win' = 0 /\ status' = "classifying" /\ step' = "closing"
    BY <1>15 DEF Unheard, Running, Leaves, LeavesWindow
  <2>2. HeadStands'
    BY <1>1, <1>4, <2>1, HeadMoves
  <2> QED BY <1>1, <2>1, <2>2, TimersPast
<1>16. CASE Heard
  <2>1. /\ Job.kind = "transcript" /\ jobs # <<>> /\ UNCHANGED <<jobs, opened>> /\ timer' = NoTimer
        /\ win' = 0 /\ status' = "classifying" /\ step' = "closing"
    BY <1>16 DEF Heard, Running, Leaves, LeavesWindow
  <2>2. Job' = Job
    BY <2>1, SameQueue
  <2>3. Job.win = win /\ heard'[win] = Job.utt
    BY <1>16, HeardDoes
  <2>4. HeadStands'
    BY <2>1, <2>2, <2>3 DEF HeadStands
  <2> QED BY <1>1, <2>1, <2>4, TimersPast
<1>17. CASE EntrySaved \/ ClosingSaved
  <2>1. /\ UNCHANGED <<status, timer, jobs, win, opened, heard>> /\ step # "none"
        /\ step' # "closing" /\ (step' = "routing" => step = "closing")
    BY <1>17 DEF EntrySaved, ClosingSaved, Unfinished
  <2>2. HeadStands'
    BY <1>1, <2>1, HeadMoves DEF HeadStands
  <2> QED BY <1>1, <2>1, <2>2, TimersPast
<1>18. CASE Proceeds /\ EntersListening({})
  <2>1. /\ UNCHANGED <<timer, jobs, heard>> /\ opened' = opened + 1 /\ win' = opened + 1 /\ step' = "entering"
    BY <1>18 DEF EntersListening
  <2>2. Job.kind = "noSpeech" => Job.win # win'
    BY <1>3, <1>4, <1>13, <1>18, <2>1
  <2>3. HeadStands'
    BY <1>1, <1>13, <1>18, <2>1, <2>2, HeadMoves
  <2>4. \A j \in Queued' : j.kind = "noSpeech" => j.win <= opened'
    <3> SUFFICES ASSUME NEW j \in Queued, j.kind = "noSpeech" PROVE j.win <= opened + 1
      BY <2>1, SameQueue
    <3>1. Queued \subseteq Jobs
      BY <1>1 DEF Queued
    <3>2. j.win \in Nat
      BY <3>1, JobKinds, WindowNumbers
    <3> QED BY <1>1, <1>3, <3>2 DEF WindowsPast
  <2>5. timer'.kind # "none" => timer'.win \in 1..opened'
    BY <1>1, <1>3, <2>1 DEF WindowsPast
  <2> QED BY <2>3, <2>4, <2>5 DEF WindowsPast
<1>19. CASE Proceeds /\ PlaysClip({})
  <2>1. /\ UNCHANGED <<timer, jobs, heard, win, opened>> /\ status' = "playing" /\ step' = "playing"
    BY <1>19 DEF PlaysClip
  <2>2. HeadStands'
    BY <1>1, <1>13, <1>19, <2>1, HeadMoves
  <2> QED BY <1>1, <2>1, <2>2, TimersPast
<1>20. ASSUME NEW r \in requests, TranscriptArrives(r) PROVE HeadStands' /\ WindowsPast'
  <2>1. r \in Transcripts /\ jobs' = Append(jobs, r) /\ UNCHANGED <<status, timer, step, win, opened, heard>>
    BY <1>20 DEF TranscriptArrives, Unfinished
  <2>2. r \in Jobs /\ r.kind # "noSpeech"
    BY <2>1, TranscriptFields
  <2>3. HeadStands' /\ \A j \in Queued' : j.kind = "noSpeech" => j.win <= opened'
    BY <1>1, <2>1, <2>2, JoinsBehind DEF WindowsPast
  <2> QED BY <1>1, <2>1, <2>3 DEF WindowsPast
<1>21. ASSUME NEW w \in Windows, SpeechStarted(w) PROVE HeadStands' /\ WindowsPast'
  <2>1. UNCHANGED <<status, jobs, step, win, opened, heard>> /\ (timer' = timer \/ (timer' = Grace(w) /\ InWindow(w)))
    BY <1>21 DEF SpeechStarted
  <2>2. CASE timer' = timer
    BY <1>5, <2>1, <2>2
  <2>3. CASE timer' = Grace(w) /\ InWindow(w)
    <3>1. w = opened /\ w \in 1..opened /\ timer'.win = w
      BY <1>1, <1>3, <2>3, WindowNumbers DEF WindowsInOrder, InWindow, Grace, Timer
    <3>2. Queued' = Queued /\ Job' = Job
      BY <2>1, SameQueue
    <3>3. HeadStands'
      BY <1>1, <2>1, <3>2 DEF HeadStands
    <3> QED BY <1>1, <2>1, <3>1, <3>2, <3>3 DEF WindowsPast
  <2> QED BY <2>1, <2>2, <2>3
<1>22. ASSUME NEW w \in Windows, MediaError(w) PROVE HeadStands' /\ WindowsPast'
  <2>1. UNCHANGED <<jobs, step, win, opened, heard>>
    BY <1>22 DEF MediaError
  <2>2. status' = status /\ timer' \in {timer, NoTimer}
    BY <1>22, FinishesDoes DEF MediaError, Unfinished
  <2> QED BY <1>5, <2>1, <2>2
<1>23. ASSUME NEW n \in 1..MaxSockets, WindowLookedUp(n) PROVE HeadStands' /\ WindowsPast'
  BY <1>5, <1>23 DEF WindowLookedUp, apiVars
<1>24. CASE Refinishes
  <2>1. /\ UNCHANGED <<status, jobs, win, opened, heard>> /\ timer' \in {timer, NoTimer}
        /\ step' = step \/ (step # "none" /\ step' = "refailing")
    BY <1>24, RefinishDoes
  <2>2. HeadStands'
    BY <1>1, <2>1, HeadMoves DEF HeadStands
  <2> QED BY <1>1, <2>1, <2>2, TimersPast
<1> QED BY <1>6, <1>7, <1>8, <1>9, <1>11, <1>12, <1>14, <1>15, <1>16, <1>17, <1>18, <1>19, <1>20, <1>21, <1>22, <1>23, <1>24
        DEF ApiStep

-----------------------------------------------------------------------------
(* The answers of the windows. *)

LEMMA WindowMoves ==
  ASSUME ApiStep
  PROVE  \/ opened' = opened /\ win' \in {win, 0}
         \/ opened' = opened + 1 /\ win' = opened'
<1> USE DEF turnVars
<1>1. CASE Stop \/ Completes \/ PlaybackStopped \/ TimerFires \/ EntrySaved \/ ClosingSaved
  BY <1>1 DEF Stop, Completes, PlaybackStopped, TimerFires, EntrySaved, ClosingSaved
<1>2. CASE JobEnds_ \/ OpenEnds \/ JobFails
  BY <1>2 DEF JobEnds_, OpenEnds, JobOver, JobFails, Fails
<1>3. CASE EntersListening({}) \/ PlaysClip({}) \/ Heard \/ Unheard
  BY <1>3 DEF EntersListening, PlaysClip, Heard, Unheard, Leaves, LeavesWindow
<1>4. ASSUME NEW r \in requests, TranscriptArrives(r) PROVE UNCHANGED <<opened, win>>
  BY <1>4 DEF TranscriptArrives
<1>5. ASSUME NEW w \in Windows, SpeechStarted(w) \/ MediaError(w) PROVE UNCHANGED <<opened, win>>
  BY <1>5 DEF SpeechStarted, MediaError
<1>6. ASSUME NEW n \in 1..MaxSockets, WindowLookedUp(n) PROVE UNCHANGED <<opened, win>>
  BY <1>6 DEF WindowLookedUp, apiVars
<1>7. CASE Refinishes
  BY <1>7, RefinishDoes
<1> QED BY <1>1, <1>2, <1>3, <1>4, <1>5, <1>6, <1>7 DEF ApiStep

\* What is answered to a transcript with a 2xx has moved the call on.
AnswersTrue ==
  \A a \in replies' : \/ a \in replies \/ a.to.kind # "transcript" \/ a.body # Ok
                      \/ a.to \in Transcripts /\ heard[a.to.win] = a.to.utt

LEMMA ApiAnswers ==
  ASSUME IInv, ApiStep
  PROVE  AnswersTrue
<1>1. TypeOK /\ ApiTypes /\ WindowsInOrder /\ JobUnderWay /\ AnsweredOnce /\ jobs \in Seq(Jobs)
  BY DEF IInv, TypeOK, ApiTypes
<1> USE DEF net
<1>2. CASE Stop \/ Completes \/ PlaybackStopped \/ TimerFires \/ Heard \/ Unheard
  BY <1>2 DEF Stop, Completes, PlaybackStopped, TimerFires, Heard, Unheard, Leaves, AnswersTrue
<1>3. CASE EntrySaved \/ ClosingSaved \/ JobFails \/ EntersListening({}) \/ PlaysClip({})
  BY <1>3 DEF EntrySaved, ClosingSaved, JobFails, Fails, EntersListening, PlaysClip, Asks, Exchange, Notifies, AnswersTrue
<1>4. ASSUME NEW settled, settled \cap Transcripts = {}, JobOver(settled) PROVE AnswersTrue
  <2>1. \A a \in replies' : a \in replies \/ (Job \in Transcripts /\ a.to = Job
              /\ (a.body = Ok => AlreadyHeard(Job) \/ step # "none"))
    BY <1>1, <1>4, JobOverTypes
  <2>2. Job \in Transcripts /\ AlreadyHeard(Job) => heard[Job.win] = Job.utt
    BY <1>1, TranscriptFields, WindowNumbers DEF AlreadyHeard, AnsweredOnce
  <2>3. Job \in Transcripts /\ step # "none" => heard[Job.win] = Job.utt
    BY <1>1, TranscriptFields DEF JobUnderWay
  <2> QED BY <2>1, <2>2, <2>3 DEF AnswersTrue
<1>5. CASE JobEnds_
  BY <1>4, <1>5 DEF JobEnds_
<1>6. CASE OpenEnds
  <2>1. opened \in Windows /\ tuning \in Tunings
    BY <1>1, <1>6, WindowNumbers DEF OpenEnds, WindowsInOrder, ApiTypes
  <2> QED BY <1>4, <1>6, <2>1, RequestKinds DEF OpenEnds
<1>7. ASSUME NEW r \in requests, TranscriptArrives(r) PROVE AnswersTrue
  BY <1>7 DEF TranscriptArrives, Takes, Exchange, AnswersTrue
<1>8. ASSUME NEW w \in Windows, SpeechStarted(w) \/ MediaError(w) PROVE AnswersTrue
  BY <1>8 DEF SpeechStarted, MediaError, Takes, Exchange, AnswersTrue
<1>9. ASSUME NEW n \in 1..MaxSockets, WindowLookedUp(n) PROVE AnswersTrue
  <2>1. \A a \in replies' : a \in replies \/ a.to = Lookup(n)
    BY <1>9, ReplyFields DEF WindowLookedUp, Answers, Exchange
  <2> QED BY <2>1 DEF Lookup, AnswersTrue
<1>10. CASE Refinishes
  BY <1>10, RefinishDoes DEF AnswersTrue
<1> QED BY <1>2, <1>3, <1>5, <1>6, <1>7, <1>8, <1>9, <1>10 DEF ApiStep

LEMMA ApiAnswersStep ==
  ASSUME IInv, ApiStep
  PROVE  AnsweredOnce' /\ AcknowledgedIsHeard'
<1>1. /\ TypeOK /\ NetTypes /\ ApiTypes /\ WindowsInOrder /\ AnsweredOnce /\ AcknowledgedIsHeard
  BY DEF IInv, TypeOK
<1>2. opened \in Nat /\ win \in Nat /\ (win # 0 => win = opened) /\ last.win \in Windows \cup {0}
  <2>1. Windows \cup {0} \subseteq Nat
    BY WindowNumbers
  <2> QED BY <1>1, <2>1 DEF ApiTypes, WindowsInOrder
\* An answer given stands.
<1>3. \A w \in Windows : heard[w] # 0 => heard'[w] = heard[w]
  BY HeardDoes, AnswersAreHeard
<1>4. \A w \in Windows : w > opened' \/ w = win' => heard'[w] = 0
  <2> SUFFICES ASSUME NEW w \in Windows, w > opened' \/ w = win' PROVE heard'[w] = 0
    OBVIOUS
  <2>1. w \in Nat /\ w # 0
    BY WindowNumbers
  <2>2. w > opened \/ w = win
    BY <1>2, <2>1, WindowMoves
  <2>3. heard[w] = 0
    BY <1>1, <2>2 DEF AnsweredOnce
  <2>4. CASE Heard
    <3>1. win' = 0 /\ opened' = opened /\ win = opened
      BY <1>1, <2>4, HeardDoes DEF Heard, Leaves, LeavesWindow
    <3>2. w # win
      BY <1>2, <2>1, <3>1
    <3> QED BY <2>3, <2>4, <3>2, HeardDoes
  <2> QED BY <2>3, <2>4, AnswersAreHeard
<1>5. last'.win # 0 => heard'[last'.win] = last'.utt
  <2>1. CASE Heard
    BY <2>1, HeardDoes
  <2>2. CASE UNCHANGED <<heard, last>>
    BY <1>1, <2>2 DEF AnsweredOnce
  <2> QED BY <2>1, <2>2, AnswersAreHeard
<1>6. AcknowledgedIsHeard'
  <2> SUFFICES ASSUME NEW a \in replies', a.to.kind = "transcript", a.body = Ok
               PROVE  heard'[a.to.win] = a.to.utt
    BY DEF AcknowledgedIsHeard
  <2>1. a \in replies => a.to \in Transcripts
    BY <1>1, RequestKinds DEF NetTypes
  <2>2. a.to \in Transcripts /\ heard[a.to.win] = a.to.utt
    BY <1>1, <2>1, ApiAnswers DEF AnswersTrue, AcknowledgedIsHeard
  <2>3. a.to.win \in Windows /\ a.to.utt # 0
    BY <2>2, TranscriptFields, WindowNumbers
  <2> QED BY <1>3, <2>2, <2>3
<1> QED BY <1>4, <1>5, <1>6 DEF AnsweredOnce

-----------------------------------------------------------------------------
(* Every turn ends. *)

LEMMA AwaitedQueued ==
  \A w : Awaited(w) <=> timer.win = w \/ NoSpeech(w) \in Queued
  BY DEF Awaited, Queued

\* While the call listens: what it waits for is not taken away.
LEMMA StillAwaited ==
  ASSUME NoTurnWithoutEnd, UNCHANGED <<win, refused>>,
         status' = "listening" /\ ~finishing' => /\ status = "listening" /\ ~finishing
                                                /\ step \notin {"entering", "posting"},
         timer'.win = timer.win \/ timer'.win = win \/ NoSpeech(timer.win) \in Queued',
         status = "listening" /\ ~finishing /\ NoSpeech(win) \in Queued => NoSpeech(win) \in Queued'
  PROVE  NoTurnWithoutEnd'
<1> SUFFICES ASSUME status' = "listening", ~finishing', \A i \in DOMAIN refused' : refused'[i] # win'
             PROVE  Awaited(win)'
  BY DEF NoTurnWithoutEnd, TurnIsOpen
<1>1. status = "listening" /\ ~finishing /\ (timer.win = win \/ NoSpeech(win) \in Queued)
  BY AwaitedQueued DEF NoTurnWithoutEnd, TurnIsOpen
<1>2. timer'.win = win \/ NoSpeech(win) \in Queued'
  BY <1>1
<1> QED BY <1>2 DEF Awaited, Queued, NoSpeech

LEMMA ApiEndsStep ==
  ASSUME IInv, ApiStep
  PROVE  NoTurnWithoutEnd'
<1>1. /\ TypeOK /\ ApiTypes /\ WindowsInOrder /\ JobUnderWay /\ NoTurnWithoutEnd /\ jobs \in Seq(Jobs)
  BY DEF IInv, TypeOK, ApiTypes
<1> USE DEF net, turnVars
\* The call is being finished, over, or no longer in the window.
<1>2. ASSUME status' # "listening" \/ finishing' = TRUE \/ step' \in {"entering", "posting"}
      PROVE  NoTurnWithoutEnd'
  BY <1>2 DEF NoTurnWithoutEnd, TurnIsOpen
<1>3. ASSUME Finishes PROVE NoTurnWithoutEnd'
  <2>1. status' = status /\ (status = "listening" => finishing')
    BY <1>3, FinishesDoes DEF Active
  <2> QED BY <2>1 DEF NoTurnWithoutEnd, TurnIsOpen
\* One more job, or none; the timer as it is.
<1>4. ASSUME Queued \subseteq Queued', UNCHANGED <<status, timer, step, finishing, win, refused>> PROVE NoTurnWithoutEnd'
  <2>1. CASE step \in {"entering", "posting"}
    BY <1>2, <1>4, <2>1
  <2>2. CASE step \notin {"entering", "posting"}
    BY <1>1, <1>4, <2>2, StillAwaited
  <2> QED BY <2>1, <2>2
<1>5. CASE Stop \/ JobFails
  BY <1>3, <1>5 DEF Stop, JobFails, Fails
<1>6. CASE Completes
  BY <1>2, <1>6 DEF Completes
<1>7. CASE PlaybackStopped
  <2>1. UNCHANGED <<status, timer, step, finishing, win, refused>> /\ jobs' \in {jobs, Append(jobs, Turn)}
    BY <1>7 DEF PlaybackStopped
  <2>2. Queued \subseteq Queued'
    BY <1>1, <2>1, SameQueue, JobJoins, JobKinds
  <2> QED BY <1>4, <2>1, <2>2
<1>8. CASE TimerFires
  <2>1. UNCHANGED <<status, step, finishing, win, refused>> /\ jobs' = Append(jobs, NoSpeech(timer.win)) /\ timer.kind # "none"
    BY <1>8 DEF TimerFires
  <2>2. timer.win \in Windows
    BY <1>1, <2>1, WindowNumbers DEF JobUnderWay, ApiTypes, Windows
  <2>3. Queued' = Queued \cup {NoSpeech(timer.win)}
    BY <1>1, <2>1, <2>2, JobKinds, JobJoins
  <2>4. CASE step \in {"entering", "posting"}
    BY <1>2, <2>1, <2>4
  <2>5. CASE step \notin {"entering", "posting"}
    BY <1>1, <2>1, <2>3, <2>5, StillAwaited
  <2> QED BY <2>4, <2>5
<1>9. CASE JobEnds_
  <2>1. /\ {} \cap Transcripts = {} /\ JobOver({}) /\ step \notin {"entering", "posting"}
        /\ UNCHANGED <<status, timer, finishing, win, refused>>
    BY <1>9 DEF JobEnds_, JobOver, Unfinished
  <2>2. Queued \subseteq Queued' \cup {Job}
    BY <1>1, <2>1, JobOverTypes
  <2>3. status = "listening" /\ ~finishing => Job # NoSpeech(win)
    BY <1>1, <2>1, JobKinds DEF JobOver, WaitsFor, InWindow, JobUnderWay
  <2> QED BY <1>1, <2>1, <2>2, <2>3, StillAwaited
<1>10. CASE OpenEnds
  <2>1. /\ timer' = (IF Acts THEN Silence(opened) ELSE timer)
        /\ UNCHANGED <<status, finishing, win, opened>>
    BY <1>10 DEF OpenEnds, JobOver
  <2>2. status = "listening" /\ ~finishing => timer'.win = win'
    BY <1>1, <2>1 DEF Acts, Active, Silence, Timer, WindowsInOrder
  <2> QED BY <2>1, <2>2 DEF NoTurnWithoutEnd, TurnIsOpen, Awaited
<1>11. CASE Heard \/ Unheard
  BY <1>2, <1>11 DEF Heard, Unheard, Leaves, LeavesWindow
<1>12. CASE EntrySaved
  BY <1>2, <1>12 DEF EntrySaved
<1>13. CASE ClosingSaved
  <2>1. status' # "listening"
    BY <1>1, <1>13 DEF ClosingSaved, Unfinished, JobUnderWay
  <2> QED BY <1>2, <2>1
<1>14. CASE EntersListening({}) \/ PlaysClip({})
  BY <1>2, <1>14 DEF EntersListening, PlaysClip
<1>15. ASSUME NEW r \in requests, TranscriptArrives(r) PROVE NoTurnWithoutEnd'
  <2>1. r \in Jobs /\ jobs' = Append(jobs, r) /\ UNCHANGED <<status, timer, step, finishing, win, refused>>
    BY <1>15, TranscriptFields DEF TranscriptArrives, Unfinished
  <2>2. Queued \subseteq Queued'
    BY <1>1, <2>1, JobJoins
  <2> QED BY <1>4, <2>1, <2>2
<1>16. ASSUME NEW w \in Windows, SpeechStarted(w) PROVE NoTurnWithoutEnd'
  <2>1. UNCHANGED <<status, step, finishing, win, refused, jobs>> /\ (timer' = timer \/ (timer' = Grace(w) /\ win = w))
    BY <1>16 DEF SpeechStarted, InWindow
  <2>2. Queued' = Queued /\ (timer' = timer \/ timer'.win = win)
    BY <2>1, SameQueue DEF Grace, Timer
  <2>3. CASE step \in {"entering", "posting"}
    BY <1>2, <2>1, <2>3
  <2>4. CASE step \notin {"entering", "posting"}
    BY <1>1, <2>1, <2>2, <2>4, StillAwaited
  <2> QED BY <2>3, <2>4
<1>17. ASSUME NEW w \in Windows, MediaError(w) PROVE NoTurnWithoutEnd'
  <2>1. UNCHANGED <<jobs, step, win, refused>> /\ (Finishes \/ Unfinished)
    BY <1>17 DEF MediaError
  <2> QED BY <1>3, <1>4, <2>1, SameQueue DEF Unfinished
<1>18. ASSUME NEW n \in 1..MaxSockets, WindowLookedUp(n) PROVE NoTurnWithoutEnd'
  BY <1>4, <1>18, SameQueue DEF WindowLookedUp, apiVars
\* A turn whose hangup is refused is one of those that refused names.
<1>19. CASE HangupRefused
  <2>1. /\ UNCHANGED <<status, step, win>>
        /\ refused' = Append(refused, IF TurnIsOpen THEN win ELSE 0)
    BY <1>19 DEF HangupRefused
  <2>2. ASSUME TurnIsOpen PROVE \E i \in DOMAIN refused' : refused'[i] = win'
    <3>1. refused' = Append(refused, win) /\ refused \in Seq(Windows \cup {0})
      BY <1>1, <2>1, <2>2 DEF ApiTypes
    <3>2. Len(refused) + 1 \in DOMAIN refused' /\ refused'[Len(refused) + 1] = win
      BY <3>1
    <3> QED BY <2>1, <3>2
  <2> QED BY <2>1, <2>2 DEF NoTurnWithoutEnd, TurnIsOpen
<1>20. CASE FinishRetried
  BY <1>3, <1>20 DEF FinishRetried
<1> QED BY <1>5, <1>6, <1>7, <1>8, <1>9, <1>10, <1>11, <1>12, <1>13, <1>14, <1>15, <1>16, <1>17, <1>18, <1>19, <1>20
        DEF ApiStep, Refinishes

-----------------------------------------------------------------------------
(* The theorems. *)

LEMMA IInvInit == Init => IInv
<1> SUFFICES ASSUME Init PROVE IInv
  OBVIOUS
<1> USE DEF Init, NetInit, ApiInit, WorkerInit
<1>1. jobs \in Seq(Jobs) /\ Queued = {Turn}
  <2>1. jobs = <<Turn>> /\ Turn \in Jobs
    BY JobKinds
  <2>2. DOMAIN jobs = {1} /\ jobs[1] = Turn
    BY <2>1
  <2> QED BY <2>1, <2>2 DEF Queued
<1>2. NoTimer.kind = "none" /\ NoTimer.win = 0
  BY DEF NoTimer
<1>3. NoWindow.id = 0 /\ NoStream.at = "none"
  BY WindowFields
<1>4. 0 \in 0..MaxSockets
  OBVIOUS
<1>5. ApiTypes
  <2>1. refused \in Seq(Windows \cup {0}) /\ timer = NoTimer
    OBVIOUS
  <2>2. /\ status = "playing" /\ step = "none" /\ clip \in BOOLEAN /\ finishing \in BOOLEAN
        /\ heard \in [Windows -> Utterances \cup {0}] /\ last \in [win : Windows \cup {0}, utt : Utterances \cup {0}]
    OBVIOUS
  <2> QED BY <1>1, <1>2, <2>1, <2>2 DEF ApiTypes
<1>6. NetTypes /\ WorkerTypes
  BY <1>4 DEF NetTypes, WorkerTypes
<1>7. WindowsInOrder /\ StreamServesAudio
  BY <1>3 DEF WindowsInOrder, StreamServesAudio
<1>8. TranscriptsAreTrue
  BY <1>1, JobKinds DEF TranscriptsAreTrue
<1>9. JobUnderWay /\ AnsweredOnce
  BY <1>1, <1>2, JobKinds DEF JobUnderWay, AnsweredOnce
<1>10. HeardWhereSpoken /\ AcknowledgedIsHeard /\ ReservedWhileInUse /\ NoTurnWithoutEnd
  BY DEF HeardWhereSpoken, AcknowledgedIsHeard, ReservedWhileInUse, NoTurnWithoutEnd, TurnIsOpen
<1> QED BY <1>5, <1>6, <1>7, <1>8, <1>9, <1>10 DEF IInv, TypeOK

LEMMA IInvStep == IInv /\ [Next]_vars => IInv'
<1> SUFFICES ASSUME IInv, [Next]_vars PROVE IInv'
  OBVIOUS
<1>1. step # "none" => jobs # <<>>
  BY DEF IInv, JobUnderWay
<1>2. CASE UNCHANGED vars
  <2>1. UNCHANGED net /\ UNCHANGED apiVars /\ UNCHANGED workerVars
    BY <1>2 DEF vars
  <2>2. /\ TypeOK /\ WindowsInOrder /\ StreamServesAudio /\ TranscriptsAreTrue /\ JobUnderWay /\ AnsweredOnce
        /\ HeardWhereSpoken /\ AcknowledgedIsHeard /\ ReservedWhileInUse /\ NoTurnWithoutEnd
    BY DEF IInv
  <2> USE DEF net, apiVars, turnVars, workerVars
  <2>3. Queued' = Queued /\ Job' = Job
    BY <2>1, SameQueue
  <2>4. TypeOK'
    BY <2>1, <2>2 DEF TypeOK, NetTypes, ApiTypes, WorkerTypes
  <2>5. WindowsInOrder' /\ StreamServesAudio'
    BY <2>1, <2>2 DEF WindowsInOrder, Known, StreamServesAudio
  <2>6. TranscriptsAreTrue' /\ HeardWhereSpoken' /\ ReservedWhileInUse'
    BY <2>1, <2>2, <2>3 DEF TranscriptsAreTrue, HeardWhereSpoken, ReservedWhileInUse
  <2>7. JobUnderWay' /\ AnsweredOnce' /\ AcknowledgedIsHeard' /\ NoTurnWithoutEnd'
    BY <2>1, <2>2, ApiStands
  <2> QED BY <2>4, <2>5, <2>6, <2>7 DEF IInv
<1>3. CASE ApiStep /\ UNCHANGED workerVars
  <2>1. TypeOK' /\ WindowsInOrder'
    BY <1>3, ApiTypesStep, ApiWindowsStep
  <2>2. TranscriptsAreTrue' /\ HeardWhereSpoken' /\ StreamServesAudio' /\ ReservedWhileInUse'
    BY <1>3, ApiTranscriptsStep
  <2>3. JobUnderWay' /\ AnsweredOnce' /\ AcknowledgedIsHeard' /\ NoTurnWithoutEnd'
    BY <1>3, ApiJobStep, ApiAnswersStep, ApiEndsStep
  <2> QED BY <2>1, <2>2, <2>3 DEF IInv
<1>4. CASE WorkerStep /\ UNCHANGED apiVars
  <2>1. TypeOK' /\ WindowsInOrder' /\ StreamServesAudio' /\ ReservedWhileInUse'
    BY <1>4, WorkerTypesStep, WorkerWindowsStep, WorkerStreamStep
  <2>2. /\ TranscriptsAreTrue' /\ HeardWhereSpoken'
        /\ JobUnderWay' /\ AnsweredOnce' /\ AcknowledgedIsHeard' /\ NoTurnWithoutEnd'
    BY <1>4, WorkerTranscriptsStep
  <2> QED BY <2>1, <2>2 DEF IInv
<1> QED BY <1>1, <1>2, <1>3, <1>4, SortedSteps

\* The inductive invariant holds in every reachable state of an answered call
\* (orchestrator.ts and worker.ts over the requests between them).
THEOREM ConversationInvariance == Spec => []IInv
  BY IInvInit, IInvStep, PTL DEF Spec

\* A window is answered with an utterance spoken in it, however late or how often
\* its transcript arrives (classifyTranscript, deliver).
THEOREM HeardHolds == Spec => []HeardWhereSpoken
<1>1. IInv => HeardWhereSpoken
  BY DEF IInv
<1> QED BY <1>1, ConversationInvariance, PTL

\* A receipt the worker may drop has moved its call on (classifyTranscript, deliver).
THEOREM AcknowledgedHolds == Spec => []AcknowledgedIsHeard
<1>1. IInv => AcknowledgedIsHeard
  BY DEF IInv
<1> QED BY <1>1, ConversationInvariance, PTL

\* The window listened to has the endpointing of its node, and so has the provider's
\* stream, whichever of window, audio and lookup came first (handleWindow, accept).
THEOREM WindowHolds == Spec => []WindowIsHeardAsAsked
<1>1. IInv => WindowIsHeardAsAsked
  <2> SUFFICES ASSUME IInv PROVE WindowIsHeardAsAsked
    OBVIOUS
  <2>1. WindowsInOrder /\ StreamServesAudio
    BY DEF IInv
  <2>2. window.id # 0 /\ window.id = win => window.tuning = tuning
    BY <2>1 DEF WindowsInOrder, Known
  <2>3. window.id # 0 /\ audio = "open" => stream.tuning = window.tuning
    BY <2>1 DEF StreamServesAudio
  <2> QED BY <2>2, <2>3 DEF WindowIsHeardAsAsked
<1> QED BY <1>1, ConversationInvariance, PTL

\* One of the worker's reservations is held exactly while the call needs it
\* (reserve, release, and the reservation's timer).
THEOREM ReservedHolds == Spec => []ReservedWhileInUse
<1>1. IInv => ReservedWhileInUse
  BY DEF IInv
<1> QED BY <1>1, ConversationInvariance, PTL

\* A call that listens has a timer armed or its noSpeech() queued, whatever is late,
\* lost or answered twice, but in a turn whose hangup was refused (armListenTimer,
\* speechStarted, enqueue, performTermination).
THEOREM TurnsEnd == Spec => []NoTurnWithoutEnd
<1>1. IInv => NoTurnWithoutEnd
  BY DEF IInv
<1> QED BY <1>1, ConversationInvariance, PTL

\* An answer stands: a window heard is never heard again with another utterance, and
\* no utterance answers two windows (lastListenWindowId, lastUtteranceId).
THEOREM AnswersStand ==
  Spec => [][\A w \in Windows : heard[w] # 0 => /\ heard'[w] = heard[w]
                                                /\ \A v \in Windows \ {w} : heard'[v] # heard[w]]_vars
<1>1. ASSUME IInv, [Next]_vars, IInv', NEW w \in Windows, heard[w] # 0
      PROVE  heard'[w] = heard[w] /\ \A v \in Windows \ {w} : heard'[v] # heard[w]
  <2>1. step # "none" => jobs # <<>>
    BY <1>1 DEF IInv, JobUnderWay
  <2>2. CASE UNCHANGED heard
    BY <1>1, <2>2, WindowNumbers DEF IInv, HeardWhereSpoken, TypeOK, ApiTypes
  <2>3. CASE ApiStep /\ UNCHANGED workerVars
    <3>1. heard'[w] = heard[w]
      BY <1>1, <2>3, HeardDoes, AnswersAreHeard
    <3>2. \A v \in Windows : heard'[v] # 0 => spoken[heard'[v]] = v
      BY <1>1, <2>3 DEF IInv, HeardWhereSpoken, workerVars
    <3> QED BY <1>1, <3>1, <3>2
  <2> QED BY <1>1, <2>1, <2>2, <2>3, SortedSteps DEF vars, apiVars, turnVars
<1>2. IInv /\ [Next]_vars /\ IInv' =>
        [\A w \in Windows : heard[w] # 0 => /\ heard'[w] = heard[w]
                                            /\ \A v \in Windows \ {w} : heard'[v] # heard[w]]_vars
  BY <1>1
<1> QED BY <1>2, ConversationInvariance, PTL DEF Spec

-----------------------------------------------------------------------------
(***************************************************************************)
(* A call that follows a published flow: FlowRun and FlowGraph, for every  *)
(* set of flows and of nodes, whatever the callee and the provider say.    *)
(*                                                                         *)
(* FlowInv adds to the properties what publication established             *)
(* (Published), that each node visited leads to the one the call is at     *)
(* (Walked), so that a second visit is a round of the flow, and which edge *)
(* may have been taken (Decided).  A search has no order here: what it     *)
(* finds is the least set closed under its edges.                          *)
(***************************************************************************)

(* The inductive invariant. *)

Suits(i, r) ==
  \/ Cond(flow, i).fallback \/ Unconditional(Cond(flow, i))
  \/ /\ Cond(flow, i).intent \in {Unset, r.intent}
     /\ Cond(flow, i).sentiment \in {Unset, r.sentiment}
     /\ Cond(flow, i).below # Unset => r.confidence < Cond(flow, i).below

\* What publication checked, and where the call then is.
Published ==
  /\ phase # "draft" => ValidFlow(flow) /\ node \in Ids(flow)
  /\ phase = "draft" => node = flow.start /\ visited = {}
  /\ phase = "playing" => target \in Ids(flow)
  /\ phase \in {"listening", "classifying"} => IsKind(flow, node, "listen")
Walked == phase = "routing" => \A id \in visited : LeadsTo(flow, id, node)
NoSurprise ==
  /\ phase # "over" => error = Unset
  /\ error \notin {"no node", "no clip"}
  /\ error = "no route" => IsKind(flow, node, "condition")
  /\ error = "loop" => Round(node)
Decided == result = reply /\ (took # 0 => reply # Unset /\ Suits(took, reply))

FlowInv ==
  /\ FlowTypes /\ Published /\ Walked /\ NoSurprise /\ Decided

(* Edges and routes. *)

\* A set of numbers has a least one.
LEMMA LeastOf ==
  ASSUME NEW S \in SUBSET Nat, S # {}
  PROVE  \E m \in S : \A k \in S : m <= k
<1>1. IsWellFoundedOn(OpToRel(<, Nat), Nat)
  BY NatLessThanWellFounded
<1>2. PICK m \in S : \A k \in S : ~(<<k, m>> \in OpToRel(<, Nat))
  BY <1>1, WFMin
<1>3. ASSUME NEW k \in S PROVE m <= k
  <2>1. <<k, m>> \in Nat \X Nat /\ ~(<<k, m>> \in OpToRel(<, Nat))
    BY <1>2
  <2>2. ~(k < m)
    BY <2>1 DEF OpToRel
  <2> QED BY <2>2
<1> QED BY <1>3

(* The edges of a flow, and the first of some of them. *)
LEMMA Edges ==
  ASSUME NEW f, IsFlow(f), NEW id
  PROVE  /\ DOMAIN f.edges \subseteq Nat \ {0} /\ Outgoing(f, id) \subseteq DOMAIN f.edges
         /\ \A i \in DOMAIN f.edges : f.edges[i] \in Edge /\ f.edges[i].cond \in Condition
         /\ \A i \in DOMAIN f.edges : f.edges[i].source \in NodeIds /\ f.edges[i].target \in NodeIds
<1>1. DOMAIN f.edges \subseteq Nat \ {0}
  BY DEF IsFlow
<1>2. \A i \in DOMAIN f.edges : f.edges[i] \in Edge
  BY DEF IsFlow
<1> QED BY <1>1, <1>2 DEF Edge, Outgoing

LEMMA FirstOfSome ==
  ASSUME NEW I \in SUBSET (Nat \ {0})
  PROVE  /\ I = {} => FirstOf(I) = 0
         /\ I # {} => FirstOf(I) \in I /\ FirstOf(I) # 0
<1>1. ASSUME I # {} PROVE FirstOf(I) \in I
  <2>1. \E m \in I : \A k \in I : m <= k
    BY <1>1, LeastOf
  <2> QED BY <1>1, <2>1 DEF FirstOf
<1> QED BY <1>1 DEF FirstOf

LEMMA MostSpecificOfSome ==
  ASSUME NEW f, IsFlow(f), NEW I \in SUBSET DOMAIN f.edges
  PROVE  MostSpecific(f, I) \subseteq I /\ (I # {} => MostSpecific(f, I) # {})
<1> DEFINE D == {3 - Specificity(Cond(f, i)) : i \in I}
<1>1. \A i \in I : Specificity(Cond(f, i)) \in 0..3
  BY DEF Specificity, Given
<1>2. ASSUME I # {} PROVE MostSpecific(f, I) # {}
  <2>1. D \in SUBSET Nat /\ D # {}
    BY <1>1, <1>2
  <2>2. PICK m \in D : \A k \in D : m <= k
    BY <2>1, LeastOf
  <2>3. PICK i \in I : m = 3 - Specificity(Cond(f, i))
    BY <2>2
  <2>4. \A j \in I : Specificity(Cond(f, j)) <= Specificity(Cond(f, i))
    <3> TAKE j \in I
    <3>1. m <= 3 - Specificity(Cond(f, j))
      BY <2>2
    <3> QED BY <1>1, <2>3, <3>1
  <2> QED BY <2>3, <2>4 DEF MostSpecific
<1> QED BY <1>2 DEF MostSpecific

(* The route of a node that leads on, and the route of a result. *)
LEMMA LinearRoute ==
  ASSUME NEW f, IsFlow(f), NEW id
  PROVE  LET i == PickLinearRoute(f, id) IN
         /\ i = 0 \/ i \in Outgoing(f, id)
         /\ Outgoing(f, id) # {} => i # 0
<1> DEFINE out == Outgoing(f, id)
           A == {i \in out : Unconditional(Cond(f, i))}
           B == Fallbacks(f, out)
<1>1. out \in SUBSET (Nat \ {0}) /\ A \subseteq out /\ B \subseteq out
  BY Edges DEF Fallbacks
<1>2. PickLinearRoute(f, id) = Or(FirstOf(A), Or(FirstOf(B), FirstOf(out)))
  BY DEF PickLinearRoute
<1> HIDE DEF out, A, B
<1>3. /\ FirstOf(A) = 0 \/ FirstOf(A) \in out
      /\ FirstOf(B) = 0 \/ FirstOf(B) \in out
      /\ FirstOf(out) = 0 \/ FirstOf(out) \in out
      /\ out # {} => FirstOf(out) # 0
  BY <1>1, FirstOfSome
<1> QED BY <1>2, <1>3 DEF Or, out

\* What an edge and the result it is taken on have to do with each other.
Fits(f, i, r) ==
  \/ Cond(f, i).fallback \/ Unconditional(Cond(f, i))
  \/ /\ Cond(f, i).intent \in {Unset, r.intent}
     /\ Cond(f, i).sentiment \in {Unset, r.sentiment}
     /\ Cond(f, i).below # Unset => r.confidence < Cond(f, i).below

LEMMA RouteOfResult ==
  ASSUME NEW f, IsFlow(f), NEW id, NEW r, NEW threshold
  PROVE  LET i == PickRoute(f, r, id, threshold) IN
         /\ i = 0 \/ (i \in Outgoing(f, id) /\ Fits(f, i, r))
         /\ Fallbacks(f, Outgoing(f, id)) # {} => i # 0
<1> DEFINE out == Outgoing(f, id)
           fall == Fallbacks(f, out)
           plain == {i \in out : Unconditional(Cond(f, i))}
           matching == {i \in out : Matches(Cond(f, i), r)}
           B(I) == {i \in I : Cond(f, i).below # Unset}
           rest == matching \ Fallbacks(f, matching)
           good == fall \union plain \union matching
           unsure == threshold # Unset /\ r.confidence < threshold
           low == Or(FirstOf(MostSpecific(f, B(matching))), Or(FirstOf(B(fall)), FirstOf(fall)))
           matched == Or(FirstOf(MostSpecific(f, rest)), FirstOf(MostSpecific(f, matching)))
           otherwise == Or(FirstOf(fall), FirstOf(plain))
<1>1. out \in SUBSET (Nat \ {0}) /\ out \in SUBSET DOMAIN f.edges
  BY Edges
<1>2. /\ fall \subseteq out /\ plain \subseteq out /\ matching \subseteq out
      /\ B(matching) \subseteq matching /\ B(fall) \subseteq fall /\ rest \subseteq matching
  BY DEF Fallbacks
<1>3. \A i \in good : i \in out /\ Fits(f, i, r)
  BY <1>2 DEF Fits, Fallbacks, Matches
<1>4. PickRoute(f, r, id, threshold) =
        IF unsure /\ low # 0 THEN low ELSE Or(matched, otherwise)
  BY DEF PickRoute
<1> HIDE DEF out, fall, plain, matching, B, rest
<1>5. ASSUME NEW I \in SUBSET good PROVE FirstOf(I) = 0 \/ FirstOf(I) \in good
  BY <1>1, <1>2, <1>3, FirstOfSome
<1>6. /\ MostSpecific(f, B(matching)) \subseteq matching
      /\ MostSpecific(f, rest) \subseteq matching
      /\ MostSpecific(f, matching) \subseteq matching
  BY <1>1, <1>2, MostSpecificOfSome
<1>7. low = 0 \/ low \in good
  <2>1. FirstOf(MostSpecific(f, B(matching))) = 0 \/ FirstOf(MostSpecific(f, B(matching))) \in good
    BY <1>2, <1>5, <1>6
  <2>2. FirstOf(B(fall)) = 0 \/ FirstOf(B(fall)) \in good
    BY <1>2, <1>5
  <2>3. FirstOf(fall) = 0 \/ FirstOf(fall) \in good
    BY <1>5
  <2> QED BY <2>1, <2>2, <2>3 DEF Or
<1>8. matched = 0 \/ matched \in good
  <2>1. FirstOf(MostSpecific(f, rest)) = 0 \/ FirstOf(MostSpecific(f, rest)) \in good
    BY <1>5, <1>6
  <2>2. FirstOf(MostSpecific(f, matching)) = 0 \/ FirstOf(MostSpecific(f, matching)) \in good
    BY <1>5, <1>6
  <2> QED BY <2>1, <2>2 DEF Or
<1>9. (otherwise = 0 \/ otherwise \in good) /\ (fall # {} => otherwise # 0)
  <2>1. FirstOf(fall) = 0 \/ FirstOf(fall) \in good
    BY <1>5
  <2>2. FirstOf(plain) = 0 \/ FirstOf(plain) \in good
    BY <1>5
  <2>3. fall # {} => FirstOf(fall) # 0
    BY <1>1, <1>2, FirstOfSome
  <2> QED BY <2>1, <2>2, <2>3 DEF Or
<1>10. PickRoute(f, r, id, threshold) = 0 \/ PickRoute(f, r, id, threshold) \in good
  BY <1>4, <1>7, <1>8, <1>9 DEF Or
<1>11. fall # {} => PickRoute(f, r, id, threshold) # 0
  BY <1>4, <1>9 DEF Or
<1> QED BY <1>3, <1>10, <1>11 DEF out, fall

(* Searches. *)
LEMMA SearchIsComplete ==
  ASSUME NEW f, IsFlow(f), NEW S \in SUBSET NodeIds, NEW T \in SUBSET NodeIds
  PROVE  /\ S \subseteq Search(f, S, T)
         /\ Targets(f, Search(f, S, T) \cap T) \subseteq Search(f, S, T)
         /\ Search(f, S, T) \in SUBSET NodeIds
<1>1. S \subseteq Search(f, S, T) /\ Search(f, S, T) \in SUBSET NodeIds
  BY DEF Search
<1>2. ASSUME NEW x \in Targets(f, Search(f, S, T) \cap T) PROVE x \in Search(f, S, T)
  <2>1. PICK id \in Search(f, S, T) \cap T : \E i \in Outgoing(f, id) : x = f.edges[i].target
    BY <1>2 DEF Targets
  <2>2. x \in NodeIds
    BY <2>1, Edges
  <2>3. ASSUME NEW C \in SUBSET NodeIds, S \subseteq C, Targets(f, C \cap T) \subseteq C
        PROVE  x \in C
    <3>1. id \in C
      BY <2>1, <2>3 DEF Search
    <3>2. x \in Targets(f, C \cap T)
      BY <2>1, <3>1 DEF Targets
    <3> QED BY <2>3, <3>2
  <2> QED BY <2>2, <2>3 DEF Search
<1> QED BY <1>1, <1>2

LEMMA FoundIsLeast ==
  ASSUME NEW f, NEW S, NEW C \in SUBSET NodeIds, S \subseteq C, Targets(f, C) \subseteq C
  PROVE  Found(f, S) \subseteq C
<1>1. C \cap NodeIds = C
  OBVIOUS
<1> QED BY <1>1 DEF Found, Search

(* A flow whose nodes are all found, and that listens, has a first listen. *)
LEMMA ListensAreFound ==
  ASSUME NEW f, IsFlow(f), ValidFlow(f)
  PROVE  FlowListens(f) <=> FirstListens(f) # {}
<1> DEFINE T == Ids(f) \ Listens(f)
           C == Search(f, {f.start}, T)
<1>1. T \in SUBSET NodeIds /\ {f.start} \in SUBSET NodeIds /\ Ids(f) \subseteq NodeIds
  BY DEF IsFlow, Ids
<1>2. f.start \in C /\ Targets(f, C \cap T) \subseteq C /\ C \in SUBSET NodeIds
  <2> HIDE DEF T
  <2>1. {f.start} \subseteq C /\ Targets(f, C \cap T) \subseteq C /\ C \in SUBSET NodeIds
    BY <1>1, SearchIsComplete
  <2> QED BY <2>1
<1>3. FirstListens(f) = C \cap Listens(f)
  BY DEF FirstListens
<1> HIDE DEF C
<1>4. ASSUME C \cap Listens(f) = {} PROVE Listens(f) = {}
  <2>1. C \cap Ids(f) \in SUBSET NodeIds /\ f.start \in C \cap Ids(f)
    BY <1>1, <1>2 DEF ValidFlow, StartIsValid, IsKind
  <2>2. Targets(f, C \cap Ids(f)) \subseteq C \cap Ids(f)
    <3>1. C \cap Ids(f) = C \cap T
      BY <1>4
    <3>2. \A i \in DOMAIN f.edges : f.edges[i].target \in Ids(f)
      BY DEF ValidFlow, EdgesConnect
    <3>3. Targets(f, C \cap Ids(f)) \subseteq Ids(f)
      BY <3>2, Edges DEF Targets
    <3> QED BY <1>2, <3>1, <3>3
  <2>3. Found(f, {f.start}) \subseteq C \cap Ids(f)
    BY <2>1, <2>2, FoundIsLeast
  <2>4. Ids(f) \subseteq C
    BY <2>3 DEF ValidFlow, AllReachable
  <2> QED BY <1>4, <2>4 DEF Listens
<1> QED BY <1>3, <1>4 DEF FlowListens

(* What is known of a published flow at one of its nodes. *)
LEMMA PublishedNode ==
  ASSUME FlowInv, phase # "draft"
  PROVE  /\ IsFlow(flow) /\ ValidFlow(flow) /\ node \in Ids(flow) /\ node \in NodeIds
         /\ flow.nodes[node] \in FlowNode
         /\ ~IsKind(flow, node, "end") => Outgoing(flow, node) # {}
         /\ flow.nodes[node].kind \in {"playClip", "retry"} => flow.nodes[node].clipReady
         /\ flow.nodes[node].kind \in {"listen", "classify"} => Fallbacks(flow, Outgoing(flow, node)) # {}
         /\ \A i \in Outgoing(flow, node) : /\ flow.edges[i].target \in Ids(flow) \cap NodeIds
                                            /\ i \in 0..Len(flow.edges) /\ i # 0
<1>1. IsFlow(flow) /\ ValidFlow(flow) /\ node \in Ids(flow) /\ node \in NodeIds
  BY DEF FlowInv, FlowTypes, Published
<1>2. flow.nodes[node] \in FlowNode
  BY <1>1 DEF IsFlow, Ids
<1>3. ~IsKind(flow, node, "end") => Outgoing(flow, node) # {}
  BY <1>1 DEF ValidFlow, LeadsOn
<1>4. flow.nodes[node].kind \in {"playClip", "retry"} => flow.nodes[node].clipReady
  BY <1>1 DEF ValidFlow, ClipsAreReady
<1>5. flow.nodes[node].kind \in {"listen", "classify"} => Fallbacks(flow, Outgoing(flow, node)) # {}
  BY <1>1 DEF ValidFlow, HasFallbacks, RequiresFallback
<1>6. ASSUME NEW i \in Outgoing(flow, node) 
      PROVE  /\ flow.edges[i].target \in Ids(flow) \cap NodeIds
             /\ i \in 0..Len(flow.edges) /\ i # 0
  <2>1. i \in DOMAIN flow.edges /\ DOMAIN flow.edges = 1..Len(flow.edges) /\ i \in Nat \ {0}
    BY <1>1, Edges DEF IsFlow
  <2>2. flow.edges[i].target \in Ids(flow)
    BY <1>1, <2>1 DEF ValidFlow, EdgesConnect
  <2> QED BY <1>1, <2>1, <2>2, Edges
<1> QED BY <1>1, <1>2, <1>3, <1>4, <1>5, <1>6

(* One step on from a node that passes on: what led to the node leads to the target. *)
LEMMA LeadsFurther ==
  ASSUME NEW f, IsFlow(f), NEW id \in Ids(f), Passing(f, id), NEW i \in Outgoing(f, id)
  PROVE  /\ LeadsTo(f, id, f.edges[i].target)
         /\ \A other : LeadsTo(f, other, id) => LeadsTo(f, other, f.edges[i].target)
<1>1. ASSUME NEW S, id \in S PROVE f.edges[i].target \in Passed(f, S)
  BY <1>1 DEF Passed, Targets
<1> QED BY <1>1 DEF LeadsTo

LEMMA ResultsTyped ==
  Silent \in ClassifierResult /\ \A cues : Classifications(cues) \subseteq ClassifierResult
<1>1. \A cues : IntentOf(cues) \in {"interested", "callback", "not_interested", "unknown"}
  BY DEF IntentOf
<1>2. ASSUME NEW i \in {"interested", "callback", "not_interested", "unknown"}
      PROVE  Rule(i) \in ClassifierResult
  BY FlowAssumption DEF Rule, ClassifierResult
<1>3. Silent \in ClassifierResult
  BY FlowAssumption DEF Silent, ClassifierResult
<1> QED BY <1>1, <1>2, <1>3, FlowAssumption DEF Classifications

(* A step of a traversal that goes on, with the count and the visit of the node. *)
LEMMA Counting ==
  ASSUME FlowInv, NEW kinds, At(kinds), CountsAsVisited
  PROVE  /\ visited' \subseteq NodeIds /\ hops' \in 0..HopLimit
         /\ phase = "routing" /\ flow.nodes[node].kind \in kinds /\ visited' = visited \union {node}
<1>1. hops \in 0..HopLimit /\ hops # HopLimit /\ hops' = hops + 1
  BY DEF At, Tripped, CountsAsVisited, FlowInv, FlowTypes
<1>2. HopLimit \in Nat
  BY FlowAssumption
<1> QED BY <1>1, <1>2 DEF At, Tripped, CountsAsVisited, FlowInv, FlowTypes

(* The invariant over a step inside a traversal at a node that passes on. *)
LEMMA PassesOn ==
  ASSUME FlowInv, phase = "routing", Passing(flow, node), visited' = visited \union {node},
         flow' = flow, NEW i \in Outgoing(flow, node), Follows(i)
  PROVE  node' \in Ids(flow) /\ \A id \in visited' : LeadsTo(flow, id, node')
<1>1. /\ IsFlow(flow) /\ node \in Ids(flow) /\ node' = flow.edges[i].target
      /\ node' \in Ids(flow)
  BY PublishedNode DEF Follows
<1>2. LeadsTo(flow, node, node') /\ \A other : LeadsTo(flow, other, node) => LeadsTo(flow, other, node')
  BY <1>1, LeadsFurther
<1> QED BY <1>1, <1>2 DEF FlowInv, Walked

LEMMA Sets ==
  /\ Reasons = {"hops", "loop", "no node", "no route", "no clip", "no transcript"}
  /\ Unset \notin Reasons /\ 0 \in 0..HopLimit
<1>1. Unset \notin Reasons
  BY FlowAssumption
<1>2. 0 \in 0..HopLimit
  BY FlowAssumption
<1> QED BY <1>1, <1>2 DEF Reasons

(* What IInv says of a state, as every step below needs it. *)
LEMMA StateOf ==
  ASSUME FlowInv
  PROVE  /\ IsFlow(flow)
         /\ phase \in {"draft", "routing", "playing", "listening", "classifying", "over"}
         /\ node \in NodeIds /\ target \in NodeIds \union {Unset}
         /\ result \in Results /\ reply \in Results
         /\ visited \subseteq NodeIds /\ hops \in 0..HopLimit
         /\ attempts \in [NodeIds -> 0..10]
         /\ error \in Reasons \union {Unset} /\ said \in SUBSET Cues
         /\ took \in 0..Len(flow.edges)
         /\ result = reply /\ (took # 0 => reply # Unset /\ Suits(took, reply))
         /\ NoSurprise
  BY DEF FlowInv, FlowTypes, Decided

LEMMA AnswerStep ==
  ASSUME FlowInv, Answer
  PROVE  FlowInv'
<1>1. UNCHANGED <<flow, node, result, visited, hops, attempts, target, error, said, reply, took>>
  BY DEF Answer, counters, history
<1>2. /\ phase' = "routing" /\ node = flow.start /\ visited = {} /\ ValidFlow(flow)
      /\ node \in Ids(flow)
  BY DEF Answer, FlowInv, Published, ValidFlow, StartIsValid, IsKind
<1>3. FlowTypes'
  BY <1>1, <1>2 DEF FlowInv, FlowTypes
<1>4. Published' /\ Walked'
  BY <1>1, <1>2 DEF Published, Walked, IsKind
<1>5. NoSurprise'
  <2>1. error' = Unset
    BY <1>1 DEF FlowInv, NoSurprise, Answer
  <2> QED BY <2>1, Sets, StateOf DEF NoSurprise, Reasons
<1>6. Decided'
  BY <1>1 DEF FlowInv, Decided, Suits, Cond, Unconditional
<1> QED BY <1>3, <1>4, <1>5, <1>6 DEF FlowInv

(* Steps that leave the routing for good or for an event, the node as it was. *)
LEMMA StaysStep ==
  ASSUME FlowInv, phase \notin {"draft", "over"}, phase' \in {"over", "playing", "listening", "classifying"},
         UNCHANGED <<flow, node, result, reply, took>>,
         visited' \subseteq NodeIds, hops' \in 0..HopLimit, attempts' \in [NodeIds -> 0..10],
         target' \in NodeIds \union {Unset}, phase' = "playing" => target' \in Ids(flow),
         said' \in SUBSET Cues,
         phase' \in {"listening", "classifying"} => IsKind(flow, node, "listen"),
         \/ error' = error
         \/ phase' = "over" /\ error' \in {"hops", "no transcript"}
         \/ phase' = "over" /\ error' = "loop" /\ phase = "routing" /\ node \in visited
         \/ phase' = "over" /\ error' = "no route" /\ IsKind(flow, node, "condition")
  PROVE  FlowInv'
<1>1. FlowTypes'
  <2>1. error' \in Reasons \union {Unset}
    BY StateOf DEF Reasons
  <2> QED BY <2>1, StateOf DEF FlowTypes
<1>2. Published' /\ Walked'
  BY PublishedNode DEF Published, Walked, IsKind, Ids
<1>3. Decided'
  BY StateOf DEF Decided, Suits, Cond, Unconditional
<1>4. NoSurprise'
  <2>1. Round(node) => Round(node)'
    <3>1. flow' = flow /\ node' = node
      OBVIOUS
    <3> QED BY <3>1 DEF Round
  <2>2. IsKind(flow, node, "condition") => IsKind(flow, node, "condition")'
    BY DEF IsKind, Ids
  <2>3. phase = "routing" /\ node \in visited => Round(node)
    BY DEF FlowInv, Walked, Round
  <2>4. CASE error' = error
    <3>1. error' = Unset
      BY <2>4, StateOf DEF NoSurprise
    <3> QED BY <3>1, Sets, StateOf DEF NoSurprise
  <2>5. CASE phase' = "over" /\ error' \in {"hops", "no transcript"}
    BY <2>5, Sets, StateOf DEF NoSurprise
  <2>6. CASE phase' = "over" /\ error' = "loop" /\ phase = "routing" /\ node \in visited
    BY <2>1, <2>3, <2>6, Sets, StateOf DEF NoSurprise
  <2>7. CASE phase' = "over" /\ error' = "no route" /\ IsKind(flow, node, "condition")
    BY <2>2, <2>7, Sets, StateOf DEF NoSurprise
  <2> QED BY <2>4, <2>5, <2>6, <2>7
<1> QED BY <1>1, <1>2, <1>3, <1>4 DEF FlowInv

(* Steps to the target of an edge of the node, within a traversal or at its start. *)
LEMMA GoesStep ==
  ASSUME FlowInv, phase # "draft", phase' = "routing", UNCHANGED <<flow, target, error>>,
         NEW i \in Outgoing(flow, node), Follows(i),
         visited' = {} \/ (phase = "routing" /\ Passing(flow, node) /\ visited' = visited \union {node}),
         hops' \in 0..HopLimit, attempts' \in [NodeIds -> 0..10], said' \in SUBSET Cues,
         phase # "over",
         \/ UNCHANGED <<result, reply, took>>
         \/ result' = reply' /\ reply' \in ClassifierResult /\ reply' # Unset /\ took' = i /\ Suits(i, reply)'
  PROVE  FlowInv'
<1>1. /\ node' \in Ids(flow) /\ node' \in NodeIds /\ ValidFlow(flow)
      /\ i \in 0..Len(flow.edges) /\ node \in NodeIds
  BY PublishedNode DEF Follows
<1>2. FlowTypes'
  BY <1>1, StateOf DEF FlowTypes, Results
<1>3. Published'
  BY <1>1 DEF Published, Ids
<1>4. Walked'
  <2>1. CASE visited' = {}
    BY <2>1 DEF Walked
  <2>2. CASE phase = "routing" /\ Passing(flow, node) /\ visited' = visited \union {node}
    BY <2>2, PassesOn DEF Walked
  <2> QED BY <2>1, <2>2
<1>5. NoSurprise'
  <2>1. error' = Unset
    BY StateOf DEF NoSurprise
  <2> QED BY <2>1, Sets, StateOf DEF NoSurprise, Reasons
<1>6. Decided'
  BY StateOf DEF Decided, Suits, Cond, Unconditional
<1> QED BY <1>2, <1>3, <1>4, <1>5, <1>6 DEF FlowInv

LEMMA AttemptsCounted ==
  ASSUME FlowInv, flow.nodes[node].kind = "retry", phase # "draft", attempts[node] < MaxAttempts,
         attempts' = [attempts EXCEPT ![node] = @ + 1]
  PROVE  attempts' \in [NodeIds -> 0..10]
<1>1. flow.nodes[node].maxAttempts \in (1..10) \union {Unset} /\ node \in NodeIds
  BY PublishedNode DEF FlowNode
<1>2. MaxAttempts \in 1..10
  BY <1>1 DEF MaxAttempts, Setting
<1>3. attempts[node] \in 0..10 /\ attempts \in [NodeIds -> 0..10]
  BY <1>1, StateOf
<1>4. attempts[node] + 1 \in 0..10
  BY <1>2, <1>3
<1> QED BY <1>1, <1>3, <1>4

LEMMA TripsStep ==
  ASSUME FlowInv, Trips
  PROVE  FlowInv'
<1>1. phase = "routing" /\ phase' = "over" /\ Tripped
      /\ UNCHANGED <<flow, node, result, visited, hops, attempts, target, said, reply, took>>
  BY DEF Trips, FlowFails, counters, history
<1>2. error' = IF hops = HopLimit THEN "hops" ELSE IF node \in visited THEN "loop" ELSE "no node"
  BY DEF Trips, FlowFails
<1>3. node \in Ids(flow)
  BY <1>1, PublishedNode
<1>4. error' = "hops" \/ (error' = "loop" /\ node \in visited)
  BY <1>1, <1>2, <1>3 DEF Tripped
<1> QED BY <1>1, <1>4, StateOf, StaysStep

LEMMA StartStep ==
  ASSUME FlowInv, AtStart
  PROVE  FlowInv'
<1> DEFINE i == PickLinearRoute(flow, node)
<1>1. /\ At({"start"}) /\ CountsAsVisited
      /\ UNCHANGED <<flow, result, attempts, target, said, reply, took>>
      /\ IF i = 0 THEN FlowFails("no route") /\ UNCHANGED node
         ELSE Follows(i) /\ UNCHANGED <<phase, error>>
  BY DEF AtStart, history
<1>2. /\ phase = "routing" /\ flow.nodes[node].kind = "start"
      /\ visited' = visited \union {node} /\ hops' \in 0..HopLimit
  <2>1. At({"start"}) /\ CountsAsVisited
    BY DEF AtStart
  <2>2. flow.nodes[node].kind \in {"start"}
    BY <2>1, Counting
  <2> QED BY <2>1, <2>2, Counting
<1>3. i \in Outgoing(flow, node) /\ i # 0
  BY <1>2, PublishedNode, LinearRoute DEF IsKind
<1>4. Passing(flow, node)
  BY <1>2 DEF Passing
<1> HIDE DEF i
<1> QED BY <1>1, <1>2, <1>3, <1>4, StateOf, GoesStep

(* A clip of a published flow plays. *)
LEMMA PlaysStep ==
  ASSUME FlowInv, phase = "routing", visited' = visited \union {node}, hops' \in 0..HopLimit,
         flow.nodes[node].kind \in {"playClip", "retry"}, Plays,
         UNCHANGED <<flow, node, result, said, reply, took>>, attempts' \in [NodeIds -> 0..10]
  PROVE  FlowInv'
<1> DEFINE i == PickLinearRoute(flow, node)
<1>1. i \in Outgoing(flow, node) /\ i # 0
  BY PublishedNode, LinearRoute DEF IsKind
<1>2. flow.nodes[node].clipReady
  BY PublishedNode
<1>3. target' = flow.edges[i].target /\ phase' = "playing" /\ error' = error
  BY <1>1, <1>2 DEF Plays, Setting
<1>4. target' \in Ids(flow) \cap NodeIds
  BY <1>1, <1>3, PublishedNode
<1>5. visited' \subseteq NodeIds
  BY StateOf
<1> HIDE DEF i
<1> QED BY <1>3, <1>4, <1>5, StateOf, StaysStep

LEMMA ClipStep ==
  ASSUME FlowInv, AtClip
  PROVE  FlowInv'
<1>1. /\ At({"playClip"}) /\ CountsAsVisited /\ Plays
      /\ UNCHANGED <<flow, node, result, attempts, said, reply, took>>
  BY DEF AtClip, history
<1>2. /\ phase = "routing" /\ flow.nodes[node].kind = "playClip"
      /\ visited' = visited \union {node} /\ hops' \in 0..HopLimit
  BY <1>1, Counting
<1> QED BY <1>1, <1>2, StateOf, PlaysStep

LEMMA RetryStep ==
  ASSUME FlowInv, AtRetry
  PROVE  FlowInv'
<1> DEFINE fallback == FirstOf(Fallbacks(flow, Outgoing(flow, node)))
<1>1. /\ At({"retry"}) /\ CountsAsVisited
      /\ UNCHANGED <<flow, result, said, reply, took>>
  BY DEF AtRetry, history
<1>2. /\ phase = "routing" /\ flow.nodes[node].kind = "retry"
      /\ visited' = visited \union {node} /\ hops' \in 0..HopLimit
      /\ visited' \subseteq NodeIds
  BY <1>1, Counting
<1>3. CASE attempts[node] >= MaxAttempts
  <2>1. /\ UNCHANGED <<attempts, target>>
        /\ IF fallback = 0 THEN FlowEnds /\ UNCHANGED node
           ELSE Follows(fallback) /\ UNCHANGED <<phase, error>>
    BY <1>3 DEF AtRetry
  <2>2. CASE fallback = 0
    BY <1>1, <1>2, <2>1, <2>2, StateOf, StaysStep DEF FlowEnds
  <2>3. CASE fallback # 0
    <3>1. Fallbacks(flow, Outgoing(flow, node)) \in SUBSET (Nat \ {0})
      BY StateOf, Edges DEF Fallbacks
    <3>2. fallback \in Fallbacks(flow, Outgoing(flow, node))
      BY <2>3, <3>1, FirstOfSome
    <3>3. fallback \in Outgoing(flow, node) /\ Passing(flow, node)
      BY <1>2, <3>2 DEF Fallbacks, Passing
    <3> HIDE DEF fallback
    <3> QED BY <1>1, <1>2, <2>1, <2>3, <3>3, StateOf, GoesStep
  <2> QED BY <2>2, <2>3
<1>4. CASE ~(attempts[node] >= MaxAttempts)
  <2>1. attempts' = [attempts EXCEPT ![node] = @ + 1] /\ Plays /\ UNCHANGED node
    BY <1>4 DEF AtRetry
  <2>2. attempts[node] < MaxAttempts
    <3>1. flow.nodes[node].maxAttempts \in (1..10) \union {Unset} /\ node \in NodeIds
      BY <1>2, PublishedNode DEF FlowNode
    <3>2. MaxAttempts \in 1..10
      BY <3>1 DEF MaxAttempts, Setting
    <3>3. attempts[node] \in 0..10
      BY <3>1, StateOf
    <3> QED BY <1>4, <3>2, <3>3
  <2>3. attempts' \in [NodeIds -> 0..10]
    BY <1>2, <2>1, <2>2, AttemptsCounted
  <2> QED BY <1>1, <1>2, <2>1, <2>3, PlaysStep
<1> QED BY <1>3, <1>4

LEMMA ListenStep ==
  ASSUME FlowInv, AtListen
  PROVE  FlowInv'
<1>1. /\ At({"listen"}) /\ CountsAsVisited /\ phase' = "listening"
      /\ UNCHANGED <<flow, node, result, attempts, target, error, said, reply, took>>
  BY DEF AtListen, history
<1>2. /\ phase = "routing" /\ flow.nodes[node].kind = "listen" /\ hops' \in 0..HopLimit
      /\ visited' \subseteq NodeIds
  BY <1>1, Counting
<1>3. IsKind(flow, node, "listen")
  BY <1>2, PublishedNode DEF IsKind
<1> QED BY <1>1, <1>2, <1>3, StateOf, StaysStep

LEMMA EndStep ==
  ASSUME FlowInv, AtEnd
  PROVE  FlowInv'
<1>1. /\ At({"end"}) /\ CountsAsVisited /\ phase' = "over"
      /\ UNCHANGED <<flow, node, result, attempts, target, error, said, reply, took>>
  BY DEF AtEnd, FlowEnds, history
<1>2. phase = "routing" /\ hops' \in 0..HopLimit /\ visited' \subseteq NodeIds
  BY <1>1, Counting
<1> QED BY <1>1, <1>2, StateOf, StaysStep

LEMMA DecisionStep ==
  ASSUME FlowInv, AtDecision
  PROVE  FlowInv'
<1>0. PICK i : i = PickRoute(flow, result, node, Setting(node, "threshold"))
  OBVIOUS
<1>1. /\ At({"classify", "condition"}) /\ CountsAsVisited
      /\ UNCHANGED <<flow, result, attempts, target, said, reply>>
      /\ IF result = Unset THEN FlowFails("no transcript") /\ UNCHANGED <<node, took>>
         ELSE Decides(i)
  BY <1>0 DEF AtDecision
<1>2. phase = "routing" /\ flow.nodes[node].kind \in {"classify", "condition"}
      /\ visited' = visited \union {node} /\ hops' \in 0..HopLimit /\ visited' \subseteq NodeIds
  BY <1>1, Counting
<1>3. /\ i = 0 \/ (i \in Outgoing(flow, node) /\ Fits(flow, i, result))
      /\ Fallbacks(flow, Outgoing(flow, node)) # {} => i # 0
  BY <1>0, StateOf, RouteOfResult
<1>4. CASE result = Unset
  BY <1>1, <1>2, <1>4, StateOf, StaysStep DEF FlowFails
<1>5. CASE result # Unset /\ i = 0
  <2>1. IsKind(flow, node, "condition")
    BY <1>2, <1>3, <1>5, PublishedNode DEF IsKind
  <2>2. FlowFails("no route") /\ UNCHANGED <<node, took>>
    BY <1>1, <1>5 DEF Decides
  <2> QED BY <1>1, <1>2, <2>1, <2>2, StateOf, StaysStep DEF FlowFails
<1>6. CASE result # Unset /\ i # 0
  <2>1. i \in Outgoing(flow, node) /\ Fits(flow, i, result) /\ Passing(flow, node)
    BY <1>2, <1>3, <1>6 DEF Passing
  <2>2. Follows(i) /\ took' = i /\ phase' = "routing" /\ UNCHANGED error
    BY <1>1, <1>6 DEF Decides
  <2>3. result' = reply' /\ reply' \in ClassifierResult /\ reply' # Unset /\ reply' = result
    BY <1>1, <1>6, StateOf DEF Results
  <2>4. Suits(i, reply)'
    BY <1>1, <2>1, <2>3 DEF Suits, Fits, Cond, Unconditional
  <2> QED BY <1>1, <1>2, <2>1, <2>2, <2>3, <2>4, StateOf, GoesStep
<1> QED BY <1>4, <1>5, <1>6

LEMMA PlaybackStep ==
  ASSUME FlowInv, PlaybackRoutes
  PROVE  FlowInv'
<1>1. /\ phase = "playing" /\ phase' = "routing" /\ node' = target /\ visited' = {}
      /\ UNCHANGED <<flow, result, hops, attempts, target, error, said, reply, took>>
  BY DEF PlaybackRoutes, TraversalBegins, history
<1>2. node' \in Ids(flow) /\ node' \in NodeIds /\ ValidFlow(flow)
  BY <1>1, PublishedNode DEF FlowInv, Published, IsFlow, Ids
<1>3. FlowTypes'
  BY <1>1, <1>2, StateOf DEF FlowTypes
<1>4. Published' /\ Walked'
  BY <1>1, <1>2 DEF Published, Walked, Ids
<1>5. NoSurprise'
  <2>1. error' = Unset
    BY <1>1, StateOf DEF NoSurprise
  <2> QED BY <2>1, Sets, StateOf DEF NoSurprise, Reasons
<1>6. Decided'
  BY <1>1, StateOf DEF Decided, Suits, Cond, Unconditional
<1> QED BY <1>3, <1>4, <1>5, <1>6 DEF FlowInv

(* The window is over: a decision on what it came to, which a fallback always allows. *)
LEMMA WindowStep ==
  ASSUME FlowInv, phase \in {"listening", "classifying"}, NEW decided \in ClassifierResult, decided # Unset,
         result' = decided, reply' = decided, visited' = {}, hops' \in 0..HopLimit, said' \in SUBSET Cues,
         UNCHANGED <<flow, attempts, target>>,
         NEW i \in Outgoing(flow, node), i # 0, Decides(i), Fits(flow, i, decided)
  PROVE  FlowInv'
<1>1. Follows(i) /\ took' = i /\ phase' = "routing" /\ UNCHANGED error
  BY DEF Decides
<1>2. Suits(i, reply)'
  BY DEF Suits, Fits, Cond, Unconditional
<1> QED BY <1>1, <1>2, StateOf, GoesStep

LEMMA SilenceStep ==
  ASSUME FlowInv, NoSpeechRoutes
  PROVE  FlowInv'
<1> DEFINE I == Fallbacks(flow, Outgoing(flow, node))
<1>1. /\ phase = "listening" /\ result' = Silent /\ reply' = Silent /\ visited' = {}
      /\ hops' = hops
      /\ Decides(FirstOf(I)) /\ UNCHANGED <<flow, attempts, target, said>>
  BY DEF NoSpeechRoutes, Keeps, TraversalBegins, GoesOn
<1>2. flow.nodes[node].kind = "listen"
  BY <1>1 DEF FlowInv, Published, IsKind
<1>3. I # {} /\ I \in SUBSET (Nat \ {0})
  BY <1>1, <1>2, PublishedNode, Edges DEF Fallbacks
<1>4. FirstOf(I) \in I /\ FirstOf(I) # 0
  BY <1>3, FirstOfSome
<1>5. FirstOf(I) \in Outgoing(flow, node) /\ Fits(flow, FirstOf(I), Silent)
  BY <1>4 DEF Fallbacks, Fits
<1>6. /\ Silent \in ClassifierResult /\ Silent # Unset /\ hops' \in 0..HopLimit
      /\ said' \in SUBSET Cues
  BY <1>1, ResultsTyped, StateOf, FlowAssumption
<1> QED BY <1>1, <1>4, <1>5, <1>6, WindowStep

LEMMA ReplyStep ==
  ASSUME FlowInv, Classified
  PROVE  FlowInv'
<1>1. PICK decided \in Classifications(said) :
        Keeps(decided) /\ reply' = decided /\ Decides(PickRoute(flow, decided, node, Unset))
  BY DEF Classified
<1> DEFINE i == PickRoute(flow, decided, node, Unset)
<1>2. /\ phase = "classifying" /\ visited' = {} /\ hops' = 0 /\ said' = {}
      /\ UNCHANGED <<flow, attempts, target>>
      /\ result' = decided /\ reply' = decided /\ Decides(i)
  BY <1>1 DEF Classified, TraversalBegins, Keeps
<1>3. flow.nodes[node].kind = "listen"
  BY <1>2 DEF FlowInv, Published, IsKind
<1>4. i \in Outgoing(flow, node) /\ i # 0 /\ Fits(flow, i, decided)
  BY <1>2, <1>3, PublishedNode, RouteOfResult
<1>5. decided \in ClassifierResult /\ decided # Unset
  BY <1>1, ResultsTyped, StateOf, FlowAssumption
<1> HIDE DEF i
<1>6. hops' \in 0..HopLimit
  <2>1. 0 \in 0..HopLimit
    BY Sets, StateOf
  <2>2. hops' = 0
    BY <1>2
  <2> QED BY <2>1, <2>2
<1> QED BY <1>2, <1>4, <1>5, <1>6, WindowStep

LEMMA HearsStep ==
  ASSUME FlowInv, NEW cues \in Sayings, Hears(cues)
  PROVE  FlowInv'
<1>1. /\ phase = "listening" /\ phase' = "classifying" /\ said' = cues
      /\ UNCHANGED <<flow, node, result, visited, hops, attempts, target, error, reply, took>>
  BY DEF Hears, counters, history
<1>2. IsKind(flow, node, "listen") /\ said' \in SUBSET Cues
  BY <1>1, FlowAssumption DEF FlowInv, Published
<1> QED BY <1>1, <1>2, StateOf, StaysStep

LEMMA HangsUpStep ==
  ASSUME FlowInv, HangsUp
  PROVE  FlowInv'
<1>1. /\ phase \notin {"draft", "over"} /\ phase' = "over"
      /\ UNCHANGED <<flow, node, result, visited, hops, attempts, target, error, said, reply, took>>
  BY DEF HangsUp, FlowEnds, counters, history
<1> QED BY <1>1, StateOf, StaysStep

LEMMA InitStep == FlowInit => FlowInv
<1> SUFFICES ASSUME FlowInit PROVE FlowInv
  OBVIOUS
<1>1. IsFlow(flow) /\ flow.start \in NodeIds
  BY FlowAssumption DEF FlowInit, IsFlow
<1>2. 0 \in 0..HopLimit
  BY Sets
<1>3. 0 \in 0..Len(flow.edges)
  <2>1. flow.edges = flow.edges /\ 1..Len(flow.edges) = DOMAIN flow.edges
    BY <1>1 DEF IsFlow
  <2> QED BY <2>1
<1>4. attempts \in [NodeIds -> 0..10]
  BY DEF FlowInit
<1>5. FlowTypes
  BY <1>1, <1>2, <1>3, <1>4 DEF FlowInit, FlowTypes, Results
<1>6. Published /\ Walked /\ Decided
  BY DEF FlowInit, Published, Walked, Decided
<1>7. NoSurprise
  BY Sets DEF FlowInit, NoSurprise, Reasons
<1> QED BY <1>5, <1>6, <1>7 DEF FlowInv

LEMMA StutterStep ==
  ASSUME FlowInv, UNCHANGED flowVars
  PROVE  FlowInv'
<1>1. UNCHANGED <<flow, phase, node, result, visited, hops, attempts, target, error, said, reply, took>>
  BY DEF flowVars, counters, history
<1>2. FlowTypes'
  BY <1>1 DEF FlowInv, FlowTypes
<1>3. Published'
  BY <1>1 DEF FlowInv, Published, IsKind, Ids
<1>4. Walked'
  BY <1>1 DEF FlowInv, Walked
<1>5. NoSurprise'
  <2>1. (Round(node) => Round(node)') /\ (IsKind(flow, node, "condition") => IsKind(flow, node, "condition")')
    BY <1>1 DEF Round, IsKind, Ids
  <2> QED BY <1>1, <2>1 DEF FlowInv, NoSurprise
<1>6. Decided'
  BY <1>1 DEF FlowInv, Decided, Suits, Cond, Unconditional
<1> QED BY <1>2, <1>3, <1>4, <1>5, <1>6 DEF FlowInv

LEMMA StepKeeps == FlowInv /\ [FlowNext]_flowVars => FlowInv'
<1> SUFFICES ASSUME FlowInv, [FlowNext]_flowVars PROVE FlowInv'
  OBVIOUS
<1>1. CASE Answer
  BY <1>1, AnswerStep
<1>2. CASE Advance
  BY <1>2, TripsStep, StartStep, ClipStep, RetryStep, ListenStep, DecisionStep, EndStep DEF
     Advance
<1>3. CASE PlaybackRoutes
  BY <1>3, PlaybackStep
<1>4. CASE NoSpeechRoutes
  BY <1>4, SilenceStep
<1>5. CASE Classified
  BY <1>5, ReplyStep
<1>6. CASE HangsUp
  BY <1>6, HangsUpStep
<1>7. CASE \E cues \in Sayings : Hears(cues)
  BY <1>7, HearsStep
<1>8. CASE UNCHANGED flowVars
  BY <1>8, StutterStep
<1> QED BY <1>1, <1>2, <1>3, <1>4, <1>5, <1>6, <1>7, <1>8 DEF FlowNext

\* The inductive invariant of a call that follows its flow holds from the draft to the end of
\* the call.  (CallOrchestrator.advance)
THEOREM FlowInvariance == FlowSpec => []FlowInv
<1> QED BY InitStep, StepKeeps, PTL DEF FlowSpec

\* The state of the call keeps its types: the hops and the attempts of every retry node stay
\* within their limits.  (incrementTraversal, retryAttempts)
THEOREM FlowTypesHold == FlowSpec => []FlowTypes
<1>1. FlowInv => FlowTypes
  BY DEF FlowInv
<1> QED BY <1>1, FlowInvariance, PTL

\* A published flow never fails for a missing node, clip or route, but for a reply no edge of
\* a condition node fits; a loop is one of the flow; and a flow that listens has a listen node
\* for the warm-up to find.  (validateFlow, advance, firstListenEndpointingMs)
THEOREM PublishedRuns == FlowSpec => []PublishedFlowRuns
<1>1. FlowInv => PublishedFlowRuns
  <2> SUFFICES ASSUME FlowInv PROVE PublishedFlowRuns
    OBVIOUS
  <2>1. phase = "routing" => IsFlow(flow) /\ ValidFlow(flow)
    BY DEF FlowInv, FlowTypes, Published
  <2>2. phase = "routing" => (FlowListens(flow) <=> FirstListens(flow) # {})
    BY <2>1, ListensAreFound
  <2> QED BY <2>2 DEF FlowInv, NoSurprise, PublishedFlowRuns
<1> QED BY <1>1, FlowInvariance, PTL

\* The edge a decision takes fits what the last window came to, or is a fallback or without a
\* condition.  (pickRoute, noSpeech)
THEOREM RouteSuits == FlowSpec => []RouteSuitsReply
<1>1. FlowInv => RouteSuitsReply
  BY DEF FlowInv, Decided, Suits, RouteSuitsReply
<1> QED BY <1>1, FlowInvariance, PTL
=============================================================================
