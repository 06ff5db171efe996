------------------------------ MODULE MediaNet ------------------------------
(***************************************************************************)
(* The HTTP requests between the API and the media worker of one call.     *)
(*                                                                         *)
(* A request is handled at most once, at any later time or never, also     *)
(* after its sender has stopped waiting: fetch() is aborted by a timeout,  *)
(* the handler at the other end is not.  A retry is a request of its own.  *)
(* A request handled never is one that was lost.                           *)
(***************************************************************************)
EXTENDS Naturals, FiniteSets

CONSTANTS
  MaxWindows,     \* bound on the listen windows the flow opens
  MaxUtterances,  \* bound on the utterances submitted
  Attempts,       \* deliveries of one transcript: three in worker.ts
  MaxNotices,     \* bound on the notices in flight; one sent beyond it is lost
  MaxSockets,     \* bound on the audio sockets the gateway opens
  Tunings,        \* the endpointing values of the flow's listen nodes
  Warmup,         \* that of the first listen node reachable from the start
  None            \* "no value"; not a tuning

ASSUME NetAssumption ==
  /\ MaxWindows \in Nat /\ MaxUtterances \in Nat /\ MaxSockets \in Nat /\ MaxNotices \in Nat
  /\ Attempts \in Nat \ {0}
  /\ Warmup \in Tunings /\ None \notin Tunings

Windows == 1..MaxWindows       \* window ids, in the order they are drawn; 0 is none
Utterances == 1..MaxUtterances

Open(w, t) == [kind |-> "open", win |-> w, tuning |-> t]
Close(w) == [kind |-> "close", win |-> w]
Lookup(n) == [kind |-> "lookup", socket |-> n]
Transcript(w, u, n) == [kind |-> "transcript", win |-> w, utt |-> u, attempt |-> n]
Speaking(w) == [kind |-> "speaking", win |-> w]
Failure(w) == [kind |-> "error", win |-> w]

Transcripts == {Transcript(w, u, n) : w \in Windows, u \in Utterances, n \in 1..Attempts}
Notices == UNION {{Close(w), Speaking(w), Failure(w)} : w \in Windows}
Requests == {Open(w, t) : w \in Windows, t \in Tunings}
              \cup {Lookup(n) : n \in 1..MaxSockets}
              \cup Transcripts
              \cup Notices

\* "closed" is the 409 of ListenWindowClosedError, "failed" any 5xx; the lookup is
\* answered with the window the call is in and an endpointing to start with.
Ok == [code |-> "ok"]
Closed == [code |-> "closed"]
Failed == [code |-> "failed"]
Status(code, w, t) == [code |-> code, win |-> w, tuning |-> t]
Statuses == {Status(code, w, t) : code \in {"active", "over"},
                                  w \in Windows \cup {0}, t \in Tunings \cup {None}}
Bodies == {Ok, Closed, Failed} \cup Statuses

VARIABLES
  requests,  \* sent and not yet handled
  awaiting,  \* those whose sender waits for the reply
  replies    \* on their way to a sender that waits

net == <<requests, awaiting, replies>>

Reply(r, body) == [to |-> r, body |-> body]

NetTypes ==
  /\ requests \subseteq Requests /\ awaiting \subseteq Requests
  /\ \A a \in replies : a.to \in awaiting /\ a.body \in Bodies

NetInit == requests = {} /\ awaiting = {} /\ replies = {}

\* One step of a process: the requests it takes up, those it sends and awaits, those
\* it awaits no more, and its answers.
Exchange(takes, asks, settles, answers) ==
  /\ requests' = (requests \ takes) \cup asks
  /\ awaiting' = (awaiting \ settles) \cup asks
  /\ replies' = {a \in replies : a.to \notin settles} \cup {a \in answers : a.to \in awaiting}

Takes(r) == Exchange({r}, {}, {}, {})
Asks(r) == Exchange({}, {r}, {}, {})
Answers(r, body) == Exchange({r}, {}, {}, {Reply(r, body)})
Settles(r) == Exchange({}, {}, {r}, {})

\* Notices are requests whose outcome makes no difference to their sender.
Room == Cardinality(requests \cap Notices) < MaxNotices
Notifies(notices, settles) ==
  /\ requests' = IF Room THEN requests \cup notices ELSE requests
  /\ awaiting' = awaiting \ settles
  /\ replies' = {a \in replies : a.to \notin settles}

\* What a sender may find out about a request it awaits: a reply, or a timeout.
Replied(r, body) == Reply(r, body) \in replies
GivenUp(r) == r \in awaiting
=============================================================================
