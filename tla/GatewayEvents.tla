--------------------------- MODULE GatewayEvents ---------------------------
(***************************************************************************)
(* The events of FreeSWITCH as FreeSwitchEslAdapter (server/telephony.ts)  *)
(* turns them into telephony events, over the connection of EslClient:     *)
(* duplicates are dropped, and the result of an originate job is matched   *)
(* with its call although it may come before the reply that names the job. *)
(*                                                                         *)
(* A job is identified with the originate command that started it.  The    *)
(* gateway numbers its events from the start of its core; restarting it    *)
(* starts a new core and ends every connection.                            *)
(***************************************************************************)
EXTENDS EslClient

CONSTANTS
  Originates,     \* the commands that start an originate job
  ForeignJobs,    \* jobs of other clients of the gateway
  SeenLimit,      \* events remembered against duplicates (2048)
  EarlyLimit,     \* results remembered before their job is known (128)
  MaxCores,       \* bound on starts of the gateway
  MaxCopies       \* bound on duplicated events

ASSUME OriginateAssumption == Originates \subseteq Commands
ASSUME LimitAssumption == SeenLimit \in Nat \ {0} /\ EarlyLimit \in Nat \ {0}
ASSUME EventBoundAssumption == MaxCores \in Nat \ {0} /\ MaxCopies \in Nat

VARIABLES
  core, sequence,  \* of the gateway
  job,         \* per job, at the gateway: "none", "running", "over"
  flying,      \* events sent and not received
  copies,      \* how many were duplicated
  seen,        \* seenEvents, oldest first
  accepted,    \* events that were not taken for duplicates, in order (history)
  ignored,     \* events that were (history)
  jobs,        \* originates whose job is known and whose result is not
  early,       \* earlyJobs, oldest first
  named,       \* originates whose reply was read (history)
  told         \* per originate, how many results the orchestrator heard (history)

adapter == <<seen, accepted, ignored, jobs, early, named, told>>
gateway == <<core, sequence, job, flying, copies>>
vars == <<client, adapter, gateway>>

AllJobs == Originates \union ForeignJobs
Event == [core : Nat, sequence : Nat, job : AllJobs]

TypeOK ==
  /\ ClientTypeOK
  /\ core \in Nat /\ sequence \in Nat
  /\ job \in [AllJobs -> {"none", "running", "over"}]
  /\ flying \in SUBSET Event /\ copies \in Nat
  /\ seen \in Seq(Event) /\ Len(seen) <= SeenLimit
  /\ accepted \in Seq(Event) /\ ignored \in SUBSET Event
  /\ jobs \in SUBSET Originates /\ early \in Seq(AllJobs) /\ Len(early) <= EarlyLimit
  /\ named \in SUBSET Originates /\ told \in [Originates -> Nat]

Init ==
  /\ ClientInit
  /\ core = 1 /\ sequence = 0 /\ flying = {} /\ copies = 0
  /\ job = [j \in AllJobs |-> IF j \in ForeignJobs THEN "running" ELSE "none"]
  /\ seen = <<>> /\ accepted = <<>> /\ ignored = {}
  /\ jobs = {} /\ early = <<>> /\ named = {} /\ told = [o \in Originates |-> 0]

-----------------------------------------------------------------------------
(* Bounded tables that forget their oldest entry. *)

Holds(table, entry) == \E i \in DOMAIN table : table[i] = entry
Remember(table, entry, limit) ==
  LET kept == IF Len(table) >= limit THEN Tail(table) ELSE table IN
  IF Holds(kept, entry) THEN kept ELSE Append(kept, entry)
Without(table, entry) ==
  LET at == CHOOSE i \in DOMAIN table : table[i] = entry
  IN  [i \in 1..(Len(table) - 1) |-> table[IF i < at THEN i ELSE i + 1]]

SameSequence(d, e) == d.sequence = e.sequence                         \* mutant
\* seenEvents is keyed by the core and the sequence number of an event.
SameKey(d, e) == d.core = e.core /\ d.sequence = e.sequence
Duplicate(e) == \E i \in DOMAIN seen : SameKey(seen[i], e)

-----------------------------------------------------------------------------

Tells(o) == told' = [told EXCEPT ![o] = @ + 1]

\* jobResult: tell the call of a known job, keep the result of an unknown one.
JobResult(j) ==
  IF j \in jobs
  THEN jobs' = jobs \ {j} /\ Tells(j) /\ UNCHANGED early
  ELSE early' = Remember(early, j, EarlyLimit) /\ UNCHANGED <<jobs, told>>

\* receive; `stays` when the gateway sends the event once more.
Receive(e, stays) ==
  /\ e \in flying
  /\ IF stays THEN copies < MaxCopies /\ copies' = copies + 1 /\ UNCHANGED flying
     ELSE flying' = flying \ {e} /\ UNCHANGED copies
  /\ IF Duplicate(e)
     THEN ignored' = ignored \union {e} /\ UNCHANGED <<seen, accepted, jobs, early, told>>
     ELSE /\ seen' = Remember(seen, e, SeenLimit) /\ accepted' = Append(accepted, e)
          /\ JobResult(e.job) /\ UNCHANGED ignored
  /\ UNCHANGED <<client, core, sequence, job, named>>

IgnoresEarly(o) == FALSE                                              \* mutant
\* originate() goes on after its reply: the job gets its call, an early result is used now.
UsesEarly(o) == Holds(early, o)
OriginateNamed(o) ==
  /\ cmd[o] = "ok" /\ o \notin named /\ named' = named \union {o}
  /\ IF UsesEarly(o)
     THEN early' = Without(early, o) /\ Tells(o) /\ UNCHANGED jobs
     ELSE jobs' = jobs \union {o} /\ UNCHANGED <<early, told>>
  /\ UNCHANGED <<client, gateway, seen, accepted, ignored>>

-----------------------------------------------------------------------------
(* The gateway (external). *)

Subscribed == \E s \in Sockets : sock[s] = "ready"

\* A job ends; its event reaches the connections subscribed at that moment.
JobEnds(j) ==
  /\ job[j] = "running" /\ job' = [job EXCEPT ![j] = "over"]
  /\ sequence' = sequence + 1
  /\ flying' = IF Subscribed
               THEN flying \union {[core |-> core, sequence |-> sequence + 1, job |-> j]} ELSE flying
  /\ UNCHANGED <<client, adapter, core, copies>>

\* Events on a connection that is gone are lost.
FlyingLost == flying' = IF \E s \in Sockets : sock'[s] = "ready" THEN flying ELSE {}

GatewayStarts(c, outcome) ==
  /\ GatewayRuns(c, outcome)
  /\ job' = IF c \in Originates /\ outcome = "ok" THEN [job EXCEPT ![c] = "running"] ELSE job
  /\ UNCHANGED <<adapter, core, sequence, flying, copies>>

GatewayRestarts ==
  /\ core < MaxCores /\ core' = core + 1 /\ sequence' = 0
  /\ job' = [j \in AllJobs |-> IF job[j] = "running" THEN "over" ELSE job[j]]
  /\ \/ ~Subscribed /\ UNCHANGED client
     \/ \E s \in Sockets : SocketCloses(s) /\ sock[s] = "ready"
  /\ flying' = {} /\ UNCHANGED <<adapter, copies>>

AndAdapterStays == UNCHANGED <<adapter, core, sequence, job, copies>>
Connection == ClientStep /\ FlyingLost /\ AndAdapterStays
Traffic ==
  \/ \E c \in Commands, outcome \in {"ok", "rejected"} : GatewayStarts(c, outcome)
  \/ \E c \in Commands : Replies(c) /\ FlyingLost /\ AndAdapterStays
  \/ \E c \in Commands : GatewayLoses(c) /\ UNCHANGED <<adapter, gateway>>
Events ==
  \/ \E e \in flying, stays \in BOOLEAN : Receive(e, stays)
  \/ \E o \in Originates : OriginateNamed(o)

Next == Connection \/ Traffic \/ Events \/ GatewayRestarts \/ \E j \in AllJobs : JobEnds(j)

\* Promises resolve, sockets answer or time out and their handles close, prepare() of a guard
\* returns, and what was written is answered unless the connection is lost.
SocketOpens(s) == (SocketReady(s) \/ (sock[s] = "opening" /\ SocketFails(s))) /\ FlyingLost /\ AndAdapterStays
HandleCloses(s) == sock[s] = "destroyed" /\ SocketCloses(s) /\ FlyingLost /\ AndAdapterStays
HeadGoesOn(c) == HeadSteps(c) /\ FlyingLost /\ AndAdapterStays
IsAnswered(c) == Replies(c) /\ FlyingLost /\ AndAdapterStays
IsRun(c) == \E outcome \in {"ok", "rejected"} : GatewayStarts(c, outcome)
Fairness ==
  /\ \A s \in Sockets : WF_vars(SocketOpens(s)) /\ WF_vars(HandleCloses(s))
  /\ \A c \in Commands : WF_vars(HeadGoesOn(c)) /\ WF_vars(IsAnswered(c)) /\ WF_vars(IsRun(c))

Spec == Init /\ [][Next]_vars
FairSpec == Spec /\ Fairness

-----------------------------------------------------------------------------
(* Properties. *)

Results(j) == {i \in DOMAIN accepted : accepted[i].job = j}

\* An event counts twice only if at least SeenLimit others were accepted in between, and one
\* that was dropped had been accepted: reconnections do not repeat events, and a restarted
\* gateway, which numbers its events afresh, is heard.  (receive)
EventsCountOnce ==
  /\ \A i, k \in DOMAIN accepted : i < k /\ accepted[i] = accepted[k] => k - i > SeenLimit
  /\ \A e \in ignored : Holds(accepted, e)

\* Once the reply of an originate was read and the result of its job was received, in either
\* order, the orchestrator has heard that result exactly once, unless EarlyLimit events were
\* accepted after the result, so that it was given up.  (originate, jobResult)
ResultIsTold ==
  \A o \in Originates :
    /\ told[o] <= 1 /\ (told[o] = 1 => o \in named /\ Results(o) # {})
    /\ o \in named /\ told[o] = 0 =>
         Results(o) = {} \/ \E i \in Results(o) : Len(accepted) - i >= EarlyLimit

\* Every command that was issued settles, whatever the sockets and the gateway do.
\* (command: a failure releases the queue)
EveryCommandSettles == queue # <<>> ~> queue = <<>>
=============================================================================
