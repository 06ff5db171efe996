------------------------- MODULE GatewayEvents_proofs -------------------------
(***************************************************************************)
(* Proofs about the connection to FreeSWITCH and its events, for every set *)
(* of commands and jobs, every number of sockets and every size of the two *)
(* tables.                                                                 *)
(*                                                                         *)
(* ClientInv, of the connection, is inductive by itself: the adapter and   *)
(* the gateway only leave it alone or take one of its steps.  The parts of *)
(* IInv about events rest on what Remember and Without do to a table.      *)
(*                                                                         *)
(* The last part is about OutcomeDelivery, which shares no variable with   *)
(* it: what is reported of a call.  DeliveryInv is its inductive invariant.*)
(***************************************************************************)
EXTENDS GatewayEvents, OutcomeDelivery, SequenceTheorems, TLAPS

USE SocketAssumption, NoneIsNothing, OriginateAssumption, LimitAssumption, EventBoundAssumption

-----------------------------------------------------------------------------
\* The invariant of the connection: one is being made at a time, and when one is ready no
\* other socket can still report anything.
OneConnection ==
  \A s \in Sockets :
    /\ sock[s] = "opening" => connecting = s
    /\ sock[s] = "ready" =>
         (ready \/ closed) /\ \A r \in Sockets \ {s} : sock[r] \in {"new", "closed"}

OnTheWire(c) == wire[c] \in {"sent", "ok", "rejected"}
\* A reply that can still be read is the one the client waits for.
RepliesMatch ==
  \A c \in Commands : OnTheWire(c) =>
    /\ via[c] \in Sockets /\ sock[via[c]] \notin {"new", "opening"}
    /\ sock[via[c]] = "ready" => pending = c \/ (closed /\ pending = None)

PendingIsHead == pending # None => Runs(pending) /\ cmd[pending] = "written"
RunsAreCounted ==
  \A c \in Commands :
    /\ wire[c] \in {"none", "sent"} => ran[c] = 0
    /\ wire[c] \in {"ok", "rejected"} => ran[c] = 1
    /\ cmd[c] \in {"none", "queued", "connecting", "preparing"} => wire[c] = "none"

ClientInv ==
  /\ ClientTypeOK /\ OneConnection /\ RepliesMatch /\ PendingIsHead /\ RunsAreCounted
  /\ CommandsRunAsReported

\* The invariant of the proofs: events have one key each, seenEvents is the end of what was
\* accepted, and a result whose reply was not read is remembered near the end of earlyJobs.
Sent == flying \union {accepted[i] : i \in DOMAIN accepted}
KeysAreUnique ==
  /\ \A e \in Sent : e.core <= core /\ (e.core = core => e.sequence <= sequence)
  /\ \A d, e \in Sent : SameKey(d, e) => d = e

SeenIsLatest ==
  /\ Len(seen) <= Len(accepted) /\ Len(seen) \in {Len(accepted), SeenLimit}
  /\ \A i \in 1..Len(seen) : seen[i] = accepted[Len(accepted) - Len(seen) + i]

GivenUp(i) == Len(accepted) - i >= EarlyLimit
Remembered(o, i) ==
  o \notin named /\ \E p \in DOMAIN early : early[p] = o /\ Len(early) - p <= Len(accepted) - i
ResultsAreKept ==
  /\ \A p \in DOMAIN early : Results(early[p]) # {}
  /\ \A o \in Originates :
       /\ told[o] = IF o \in named \ jobs THEN 1 ELSE 0
       /\ o \in jobs => o \in named
       /\ told[o] = 1 => Results(o) # {}
       /\ told[o] = 0 /\ Results(o) # {} => \E i \in Results(o) : GivenUp(i) \/ Remembered(o, i)

IInv == TypeOK /\ ClientInv /\ KeysAreUnique /\ SeenIsLatest /\ EventsCountOnce /\ ResultsAreKept

-----------------------------------------------------------------------------
(* The connection. *)

LEMMA TailIsQueue ==
  ASSUME NEW T, NEW s \in Seq(T), s # <<>>
  PROVE  Tail(s) \in Seq(T) /\ Head(s) \in T
  BY HeadTailProperties

\* What the rejection of the command in flight leaves.
Rejection ==
  /\ pending' = None /\ answer' = answer
  /\ queue' \in Seq(Commands) /\ cmd' \in [Commands -> {"none", "queued", "connecting",
       "preparing", "written"} \union Outcomes]
  /\ awaits' \in Sockets \union {0}
  /\ \A c \in Commands : IF c = pending THEN cmd'[c] = "unknown" ELSE cmd'[c] = cmd[c]

LEMMA RejectsPendingIs ==
  ASSUME ClientInv, RejectsPending
  PROVE  Rejection
<1> USE DEF ClientInv, ClientTypeOK
<1>1. CASE pending = None
  BY <1>1 DEF RejectsPending, Rejection, chain
<1>2. CASE pending # None
  <2>1. pending \in Commands /\ queue # <<>>
    BY <1>2 DEF PendingIsHead, Runs
  <2>2. Tail(queue) \in Seq(Commands)
    BY <2>1, TailIsQueue
  <2> QED BY <1>2, <2>1, <2>2 DEF RejectsPending, Settles, Rejection, Outcomes
<1> QED BY <1>1, <1>2

\* The invariant after a socket failed or closed: the command in flight was rejected, the
\* socket reports nothing more, and no other one was ready.
LEMMA SocketEnds ==
  ASSUME ClientInv, NEW s \in Sockets, sock[s] \notin {"new", "closed"}, Rejection,
         NEW end \in {"destroyed", "closed"}, sock' = [sock EXCEPT ![s] = end],
         connected' \in [Sockets -> {"pending", "resolved", "rejected"}],
         connecting' = (IF connecting = s THEN 0 ELSE connecting),
         socket' \in {socket, 0}, timer' \in Nat, closed' = closed,
         ready' \in {ready, FALSE}, ready' = ready \/ end = "closed",
         end = "destroyed" => sock[s] # "destroyed",
         UNCHANGED network
  PROVE  ClientInv'
<1> USE DEF ClientInv, network
<1>1. ClientTypeOK'
  BY DEF ClientTypeOK, Rejection
<1>2. \A t \in Sockets \ {s} : sock[t] # "ready"
  BY DEF OneConnection
<1>3. OneConnection'
  BY <1>2 DEF OneConnection, ClientTypeOK
<1>4. RepliesMatch'
  BY <1>2 DEF RepliesMatch, OnTheWire, ClientTypeOK
<1>5. PendingIsHead'
  BY DEF PendingIsHead, Rejection
<1>6. RunsAreCounted'
  BY DEF RunsAreCounted, Rejection
<1>7. CommandsRunAsReported'
  BY DEF CommandsRunAsReported, Rejection
<1> QED BY <1>1, <1>3, <1>4, <1>5, <1>6, <1>7

LEMMA SocketFailsKeeps ==
  ASSUME ClientInv, NEW s \in Sockets, SocketFails(s)
  PROVE  ClientInv'
<1>1. Rejection
  BY RejectsPendingIs DEF SocketFails, Fails
<1>2. connected' \in [Sockets -> {"pending", "resolved", "rejected"}]
  BY DEF SocketFails, Fails, ClientInv, ClientTypeOK
<1> QED BY <1>1, <1>2, SocketEnds DEF SocketFails, ClientInv, ClientTypeOK

LEMMA SocketClosesKeeps ==
  ASSUME ClientInv, NEW s \in Sockets, SocketCloses(s)
  PROVE  ClientInv'
<1>1. Rejection
  BY RejectsPendingIs DEF SocketCloses, Fails
<1>2. connected' \in [Sockets -> {"pending", "resolved", "rejected"}]
  BY DEF SocketCloses, Fails, ClientInv, ClientTypeOK
<1>3. timer' \in Nat
  BY DEF SocketCloses, Rearms, ClientInv, ClientTypeOK
<1> QED BY <1>1, <1>2, <1>3, SocketEnds DEF SocketCloses, ClientInv, ClientTypeOK

LEMMA SocketReadyKeeps ==
  ASSUME ClientInv, NEW s \in Sockets, SocketReady(s)
  PROVE  ClientInv'
<1> USE DEF ClientInv, network, chain
<1>1. ClientTypeOK'
  BY DEF ClientTypeOK, SocketReady
<1>2. \A t \in Sockets \ {s} : sock[t] \in {"new", "closed"}
  BY DEF OneConnection, SocketReady, ClientTypeOK
<1>3. OneConnection'
  BY <1>2 DEF OneConnection, SocketReady, ClientTypeOK
<1>4. RepliesMatch'
  BY DEF RepliesMatch, OnTheWire, ClientTypeOK, SocketReady
<1>5. (PendingIsHead /\ RunsAreCounted /\ CommandsRunAsReported)'
  BY DEF PendingIsHead, RunsAreCounted, CommandsRunAsReported, SocketReady, Runs
<1> QED BY <1>1, <1>3, <1>4, <1>5

\* A socket is opened only where there is no connection and none is being made.
LEMMA OpensKeeps ==
  ASSUME ClientInv, NEW s \in Sockets, NEW timers \in Nat, Opens(s, timers),
         ~closed, ~ready, connecting = 0, UNCHANGED <<ready, closed, pending, connected>>
  PROVE  OneConnection' /\ (UNCHANGED network => RepliesMatch')
         /\ socket' \in Sockets /\ connecting' \in Sockets /\ timer' \in Nat
         /\ sock' \in [Sockets -> {"new", "opening", "ready", "destroyed", "closed"}]
<1> USE DEF ClientInv, network, Opens
<1>1. sock[s] = "new"
  BY DEF Fresh
<1>2. \A t \in Sockets : sock[t] \notin {"opening", "ready"}
  BY DEF OneConnection, Sockets
<1>3. OneConnection'
  BY <1>1, <1>2 DEF OneConnection, ClientTypeOK
<1>4. UNCHANGED network => RepliesMatch'
  BY <1>1, <1>2 DEF RepliesMatch, OnTheWire, ClientTypeOK
<1>5. timer' \in Nat
  BY DEF Fewer
<1> QED BY <1>3, <1>4, <1>5 DEF ClientTypeOK

LEMMA ReconnectsKeeps ==
  ASSUME ClientInv, Reconnects
  PROVE  ClientInv'
<1> USE DEF ClientInv, network, chain
<1>1. (PendingIsHead /\ RunsAreCounted /\ CommandsRunAsReported)'
  BY DEF PendingIsHead, RunsAreCounted, CommandsRunAsReported, Reconnects, Runs
<1>2. timer - 1 \in Nat
  BY DEF Reconnects, ClientTypeOK
<1>3. CASE closed \/ ready \/ connecting # 0
  BY <1>1, <1>2, <1>3 DEF Reconnects, ClientTypeOK, OneConnection, RepliesMatch, OnTheWire
<1>4. CASE ~(closed \/ ready \/ connecting # 0)
  <2>1. PICK s \in Sockets : Opens(s, timer - 1)
    BY <1>4 DEF Reconnects
  <2>2. /\ OneConnection' /\ RepliesMatch' /\ socket' \in Sockets /\ connecting' \in Sockets
        /\ timer' \in Nat /\ sock' \in [Sockets -> {"new", "opening", "ready", "destroyed", "closed"}]
    BY <1>2, <1>4, <2>1, OpensKeeps DEF Reconnects
  <2> QED BY <1>1, <2>2 DEF Reconnects, ClientTypeOK
<1> QED BY <1>3, <1>4

LEMMA CloseKeeps ==
  ASSUME ClientInv, Close
  PROVE  ClientInv'
<1> USE DEF ClientInv, network
<1>1. Rejection
  BY RejectsPendingIs DEF Close
<1>2. ClientTypeOK'
  <2>1. sock' \in [Sockets -> {"new", "opening", "ready", "destroyed", "closed"}]
    BY DEF ClientTypeOK, Close
  <2>2. timer' \in Nat
    BY DEF ClientTypeOK, Close, Fewer
  <2>3. UNCHANGED <<socket, connecting, connected, wire, via, ran>> /\ ready' = FALSE /\ closed' = TRUE
    BY DEF Close
  <2> QED BY <1>1, <2>1, <2>2, <2>3 DEF ClientTypeOK, Rejection
<1>3. \A t \in Sockets : sock'[t] = sock[t] \/ (sock'[t] = "destroyed" /\ t = socket /\ sock[t] \in {"opening", "ready"})
  BY DEF Close
<1>4. OneConnection'
  BY <1>3 DEF OneConnection, Close, ClientTypeOK
<1>5. RepliesMatch'
  BY <1>1, <1>3 DEF RepliesMatch, OnTheWire, Close, Rejection
<1>6. (PendingIsHead /\ RunsAreCounted /\ CommandsRunAsReported)'
  BY <1>1 DEF PendingIsHead, RunsAreCounted, CommandsRunAsReported, Close, Rejection
<1> QED BY <1>2, <1>4, <1>5, <1>6

-----------------------------------------------------------------------------
(* The commands. *)

LEMMA HeadIsNotPending ==
  ASSUME ClientInv, NEW c \in Commands, Runs(c), cmd[c] # "written"
  PROVE  pending = None
  BY DEF ClientInv, PendingIsHead, Runs

\* The invariant after the head took a step before its write, or was withdrawn there.
LEMMA HeadMoves ==
  ASSUME ClientInv, NEW c \in Commands, Runs(c), cmd[c] \in {"queued", "connecting", "preparing"},
         NEW step \in {"connecting", "preparing", "unsent"}, cmd' = [cmd EXCEPT ![c] = step],
         queue' \in Seq(Commands), awaits' \in Sockets \union {0}, answer' = answer,
         UNCHANGED <<pending, network>>
  PROVE  (PendingIsHead /\ RunsAreCounted /\ CommandsRunAsReported)'
         /\ queue' \in Seq(Commands) /\ awaits' \in Sockets \union {0} /\ answer' = answer
         /\ cmd' \in [Commands -> {"none", "queued", "connecting", "preparing", "written"} \union Outcomes]
<1> USE DEF ClientInv, ClientTypeOK, network
<1>1. pending = None
  BY HeadIsNotPending
<1>2. wire[c] = "none"
  BY DEF RunsAreCounted
<1>3. PendingIsHead'
  BY <1>1 DEF PendingIsHead
<1>4. RunsAreCounted' /\ CommandsRunAsReported'
  BY <1>2 DEF RunsAreCounted, CommandsRunAsReported
<1> QED BY <1>3, <1>4 DEF Outcomes

LEMMA SettlesShortens ==
  ASSUME ClientInv, NEW c \in Commands, queue # <<>>, NEW outcome, Settles(c, outcome)
  PROVE  queue' \in Seq(Commands) /\ awaits' = 0 /\ cmd' = [cmd EXCEPT ![c] = outcome]
<1>1. Tail(queue) \in Seq(Commands)
  BY TailIsQueue DEF ClientInv, ClientTypeOK
<1> QED BY <1>1 DEF Settles

\* Sockets and replies are as they were.
LEMMA SocketsKeep ==
  ASSUME ClientInv, UNCHANGED <<fields, sock, network>>
  PROVE  OneConnection' /\ RepliesMatch'
  BY DEF ClientInv, OneConnection, RepliesMatch, OnTheWire, fields, network

LEMMA IssueKeeps ==
  ASSUME ClientInv, NEW c \in Commands, Issue(c)
  PROVE  ClientInv'
<1> USE DEF ClientInv, Issue
<1>1. OneConnection' /\ RepliesMatch'
  BY SocketsKeep
<1>2. queue' \in Seq(Commands) /\ (queue # <<>> => queue' # <<>> /\ Head(queue') = Head(queue))
  <2>1. queue \in Seq(Commands) /\ queue' = Append(queue, c)
    BY DEF ClientTypeOK
  <2> QED BY <2>1, AppendProperties
<1>3. ClientTypeOK'
  BY <1>2 DEF ClientTypeOK, fields, network
<1>4. pending # None => pending # c /\ pending \in Commands
  BY DEF PendingIsHead, ClientTypeOK
<1>5. PendingIsHead'
  BY <1>2, <1>4 DEF PendingIsHead, Runs, fields, ClientTypeOK
<1>6. (RunsAreCounted /\ CommandsRunAsReported)'
  BY DEF RunsAreCounted, CommandsRunAsReported, network, ClientTypeOK
<1> QED BY <1>1, <1>3, <1>5, <1>6

LEMMA HeadConnectsKeeps ==
  ASSUME ClientInv, NEW c \in Commands, HeadConnects(c)
  PROVE  ClientInv'
<1> USE DEF ClientInv
<1>1. Runs(c) /\ queue # <<>> /\ cmd[c] = "queued" /\ UNCHANGED <<connected, network>>
  BY DEF HeadConnects, Runs
<1>2. CASE closed /\ Settles(c, "unsent") /\ UNCHANGED <<answer, fields, sock>>
  <2>1. queue' \in Seq(Commands) /\ awaits' = 0 /\ cmd' = [cmd EXCEPT ![c] = "unsent"]
    BY <1>1, <1>2, SettlesShortens
  <2> QED BY <1>1, <1>2, <2>1, HeadMoves, SocketsKeep DEF ClientTypeOK, fields, network
<1>3. CASE At(c, "preparing") /\ UNCHANGED <<fields, sock, awaits>>
  BY <1>1, <1>3, HeadMoves, SocketsKeep DEF At, ClientTypeOK, fields, network
<1>4. CASE connecting # 0 /\ At(c, "connecting") /\ awaits' = connecting /\ UNCHANGED <<fields, sock>>
  BY <1>1, <1>4, HeadMoves, SocketsKeep DEF At, ClientTypeOK, fields, network
<1>5. CASE /\ ~closed /\ ~ready /\ connecting = 0
           /\ \E s \in Sockets : Opens(s, timer) /\ awaits' = s
           /\ At(c, "connecting") /\ UNCHANGED <<ready, closed, pending>>
  <2>1. PICK s \in Sockets : Opens(s, timer) /\ awaits' = s
    BY <1>5
  <2>2. /\ OneConnection' /\ RepliesMatch' /\ socket' \in Sockets /\ connecting' \in Sockets
        /\ timer' \in Nat /\ sock' \in [Sockets -> {"new", "opening", "ready", "destroyed", "closed"}]
    BY <1>1, <1>5, <2>1, OpensKeeps DEF ClientTypeOK
  <2> QED BY <1>1, <1>5, <2>1, <2>2, HeadMoves DEF At, ClientTypeOK, network
<1> QED BY <1>2, <1>3, <1>4, <1>5 DEF HeadConnects

LEMMA HeadConnectedKeeps ==
  ASSUME ClientInv, NEW c \in Commands, HeadConnected(c)
  PROVE  ClientInv'
<1> USE DEF ClientInv
<1>1. /\ Runs(c) /\ queue # <<>> /\ cmd[c] = "connecting"
      /\ UNCHANGED <<fields, sock, connected, network>>
  BY DEF HeadConnected, Runs
<1>2. CASE At(c, "preparing") /\ awaits' = 0
  BY <1>1, <1>2, HeadMoves, SocketsKeep DEF At, ClientTypeOK, fields, network
<1>3. CASE Settles(c, "unsent") /\ UNCHANGED answer
  <2>1. queue' \in Seq(Commands) /\ awaits' = 0 /\ cmd' = [cmd EXCEPT ![c] = "unsent"]
    BY <1>1, <1>3, SettlesShortens
  <2> QED BY <1>1, <1>3, <2>1, HeadMoves, SocketsKeep DEF ClientTypeOK, fields, network
<1> QED BY <1>2, <1>3 DEF HeadConnected

LEMMA WithdrawsKeeps ==
  ASSUME ClientInv, NEW c \in Commands, Withdraws(c)
  PROVE  ClientInv'
<1> USE DEF ClientInv
<1>1. /\ Runs(c) /\ queue # <<>> /\ cmd[c] = "preparing" /\ Settles(c, "unsent")
      /\ UNCHANGED <<fields, sock, connected, answer, network>>
  BY DEF Withdraws, Runs
<1>2. queue' \in Seq(Commands) /\ awaits' = 0 /\ cmd' = [cmd EXCEPT ![c] = "unsent"]
  BY <1>1, SettlesShortens
<1> QED BY <1>1, <1>2, HeadMoves, SocketsKeep DEF ClientTypeOK, fields, network

LEMMA WritesKeeps ==
  ASSUME ClientInv, NEW c \in Commands, Writes(c)
  PROVE  ClientInv'
<1> USE DEF ClientInv, ClientTypeOK
<1>1. /\ Runs(c) /\ cmd[c] = "preparing" /\ pending = None /\ wire[c] = "none" /\ ran[c] = 0
      /\ socket \in Sockets /\ ~closed /\ pending' = c /\ cmd' = [cmd EXCEPT ![c] = "written"]
      /\ UNCHANGED <<queue, answer, socket, ready, connecting, timer, closed, sock, connected,
                     awaits, ran>>
  BY HeadIsNotPending DEF Writes, MayWrite, At, RunsAreCounted
<1>2. /\ \A d \in Commands : d # c => wire'[d] = wire[d] /\ via'[d] = via[d]
      /\ wire'[c] = "none" \/ (wire'[c] = "sent" /\ via'[c] = socket /\ sock[socket] = "ready")
      /\ wire' \in [Commands -> {"none", "sent", "ok", "rejected", "over"}]
      /\ via' \in [Commands -> Sockets \union {0}]
  <2>1. CASE sock[socket] = "ready"
    <3>1. wire' = [wire EXCEPT ![c] = "sent"] /\ via' = [via EXCEPT ![c] = socket]
      BY <2>1 DEF Writes
    <3> QED BY <1>1, <2>1, <3>1
  <2>2. CASE sock[socket] # "ready"
    BY <1>1, <2>2 DEF Writes
  <2> QED BY <2>1, <2>2
<1>3. ClientTypeOK'
  BY <1>1, <1>2
<1>4. OneConnection'
  BY <1>1 DEF OneConnection
<1>5. \A d \in Commands : OnTheWire(d) => sock[via[d]] # "ready"
  BY <1>1 DEF RepliesMatch
<1>6. RepliesMatch'
  BY <1>1, <1>2, <1>5 DEF RepliesMatch, OnTheWire
<1>7. PendingIsHead'
  BY <1>1 DEF PendingIsHead, Runs
<1>8. RunsAreCounted' /\ CommandsRunAsReported'
  BY <1>1, <1>2 DEF RunsAreCounted, CommandsRunAsReported
<1> QED BY <1>3, <1>4, <1>6, <1>7, <1>8

LEMMA RepliesKeeps ==
  ASSUME ClientInv, NEW c \in Commands, Replies(c)
  PROVE  ClientInv'
<1> USE DEF ClientInv
<1>1. /\ wire[c] \in {"ok", "rejected"} /\ via[c] \in Sockets /\ sock[via[c]] = "ready"
      /\ pending = c \/ pending = None
      /\ wire' = [wire EXCEPT ![c] = "over"] /\ ran[c] = 1
      /\ UNCHANGED <<socket, ready, timer, closed, via, ran>>
  BY DEF Replies, RepliesMatch, OnTheWire, RunsAreCounted
<1>2. CASE pending = c
  <2>1. /\ Settles(c, wire[c]) /\ pending' = None /\ answer' = [answer EXCEPT ![c] = c]
        /\ UNCHANGED <<connecting, sock, connected>>
    BY <1>2 DEF Replies
  <2>2. queue # <<>> /\ cmd[c] = "written"
    BY <1>2 DEF PendingIsHead, Runs
  <2>3. queue' \in Seq(Commands) /\ awaits' = 0 /\ cmd' = [cmd EXCEPT ![c] = wire[c]]
    BY <2>1, <2>2, SettlesShortens
  <2>4. ClientTypeOK'
    BY <1>1, <2>1, <2>3 DEF ClientTypeOK, Outcomes
  <2>5. OneConnection'
    BY <1>1, <2>1 DEF OneConnection
  <2>6. RepliesMatch'
    BY <1>1, <1>2, <2>1 DEF RepliesMatch, OnTheWire, ClientTypeOK
  <2>7. PendingIsHead' /\ RunsAreCounted'
    BY <1>1, <2>1, <2>3 DEF PendingIsHead, RunsAreCounted, ClientTypeOK
  <2>8. CommandsRunAsReported'
    BY <1>1, <2>1, <2>3 DEF CommandsRunAsReported, ClientTypeOK
  <2> QED BY <2>4, <2>5, <2>6, <2>7, <2>8
<1>3. CASE pending = None
  <2>1. /\ sock' = [sock EXCEPT ![via[c]] = "destroyed"] /\ Fails(via[c])
        /\ connecting' = (IF connecting = via[c] THEN 0 ELSE connecting)
    BY <1>3 DEF Replies
  <2>2. pending' = None /\ UNCHANGED chain
    BY <1>3, <2>1 DEF Fails, RejectsPending
  <2>3. \A t \in Sockets \ {via[c]} : sock[t] # "ready"
    BY <1>1 DEF OneConnection
  <2>4. ClientTypeOK'
    BY <1>1, <2>1, <2>2 DEF ClientTypeOK, Fails, chain
  <2>5. OneConnection'
    BY <1>1, <2>1, <2>3 DEF OneConnection, ClientTypeOK
  <2>6. RepliesMatch'
    BY <1>1, <2>1, <2>3 DEF RepliesMatch, OnTheWire, ClientTypeOK
  <2>7. (PendingIsHead /\ RunsAreCounted /\ CommandsRunAsReported)'
    BY <1>1, <2>2 DEF PendingIsHead, RunsAreCounted, CommandsRunAsReported, chain, ClientTypeOK
  <2> QED BY <2>4, <2>5, <2>6, <2>7
<1> QED BY <1>1, <1>2, <1>3

LEMMA GatewayRunsKeeps ==
  ASSUME ClientInv, NEW c \in Commands, NEW outcome \in {"ok", "rejected"}, GatewayRuns(c, outcome)
  PROVE  ClientInv'
<1> USE DEF ClientInv, GatewayRuns, ClientTypeOK
<1>1. wire[c] = "sent" /\ ran[c] = 0 /\ cmd[c] \notin {"ok", "rejected", "unsent"}
  BY DEF RunsAreCounted, CommandsRunAsReported
<1>2. ClientTypeOK'
  BY DEF fields, chain
<1>3. OneConnection' /\ RepliesMatch' /\ PendingIsHead'
  BY <1>1 DEF OneConnection, RepliesMatch, OnTheWire, PendingIsHead, Runs, fields, chain
<1>4. RunsAreCounted' /\ CommandsRunAsReported'
  BY <1>1 DEF RunsAreCounted, CommandsRunAsReported, chain
<1> QED BY <1>2, <1>3, <1>4

LEMMA GatewayLosesKeeps ==
  ASSUME ClientInv, NEW c \in Commands, GatewayLoses(c)
  PROVE  ClientInv'
<1> USE DEF ClientInv, GatewayLoses, ClientTypeOK
<1>1. ClientTypeOK'
  BY DEF fields, chain
<1>2. OneConnection' /\ RepliesMatch' /\ PendingIsHead'
  BY DEF OneConnection, RepliesMatch, OnTheWire, PendingIsHead, Runs, fields, chain
<1>3. RunsAreCounted' /\ CommandsRunAsReported'
  BY DEF RunsAreCounted, CommandsRunAsReported, chain
<1> QED BY <1>1, <1>2, <1>3

ClientMoves ==
  \/ UNCHANGED client
  \/ \E s \in Sockets : SocketReady(s) \/ SocketFails(s) \/ SocketCloses(s)
  \/ Reconnects \/ Close
  \/ \E c \in Commands :
       \/ Issue(c) \/ HeadConnects(c) \/ HeadConnected(c) \/ Writes(c) \/ Withdraws(c) \/ Replies(c)
       \/ GatewayLoses(c) \/ \E outcome \in {"ok", "rejected"} : GatewayRuns(c, outcome)

LEMMA ClientIsKept ==
  ASSUME ClientInv, ClientMoves
  PROVE  ClientInv'
<1>1. CASE UNCHANGED client
  BY <1>1 DEF client, fields, chain, network, ClientInv, ClientTypeOK, OneConnection, RepliesMatch,
              OnTheWire, PendingIsHead, Runs, RunsAreCounted, CommandsRunAsReported
<1>2. CASE \E s \in Sockets : SocketReady(s) \/ SocketFails(s) \/ SocketCloses(s)
  BY <1>2, SocketReadyKeeps, SocketFailsKeeps, SocketClosesKeeps, Zenon
<1>3. CASE \E c \in Commands : HeadConnects(c) \/ HeadConnected(c) \/ Writes(c) \/ Withdraws(c)
  BY <1>3, HeadConnectsKeeps, HeadConnectedKeeps, WritesKeeps, WithdrawsKeeps, Zenon
<1>4. CASE \E c \in Commands :
             \/ Issue(c) \/ Replies(c) \/ GatewayLoses(c)
             \/ \E outcome \in {"ok", "rejected"} : GatewayRuns(c, outcome)
  BY <1>4, IssueKeeps, RepliesKeeps, GatewayLosesKeeps, GatewayRunsKeeps, Zenon
<1> QED BY <1>1, <1>2, <1>3, <1>4, ReconnectsKeeps, CloseKeeps, Zenon DEF ClientMoves

LEMMA EveryStepMovesTheClient ==
  ASSUME [Next]_vars
  PROVE  ClientMoves
<1>1. CASE UNCHANGED vars
  BY <1>1, Zenon DEF vars, ClientMoves
<1>2. CASE Connection
  BY <1>2, Zenon DEF Connection, ClientStep, HeadSteps, ClientMoves
<1>3. CASE Traffic
  BY <1>3, Zenon DEF Traffic, GatewayStarts, ClientMoves
<1>4. CASE Events \/ \E j \in AllJobs : JobEnds(j)
  BY <1>4, Zenon DEF Events, Receive, OriginateNamed, JobEnds, ClientMoves
<1>5. CASE GatewayRestarts
  BY <1>5, Zenon DEF GatewayRestarts, ClientMoves
<1> QED BY <1>1, <1>2, <1>3, <1>4, <1>5, Zenon DEF Next

LEMMA ClientStarts == Init => ClientInv
<1> SUFFICES ASSUME Init PROVE ClientInv
  OBVIOUS
<1> USE DEF Init, ClientInit
<1>1. ClientTypeOK
  <2>1. /\ sock \in [Sockets -> {"new", "opening", "ready", "destroyed", "closed"}]
        /\ connected \in [Sockets -> {"pending", "resolved", "rejected"}]
        /\ queue \in Seq(Commands)
        /\ cmd \in [Commands -> {"none", "queued", "connecting", "preparing", "written"} \union Outcomes]
    OBVIOUS
  <2>2. /\ wire \in [Commands -> {"none", "sent", "ok", "rejected", "over"}]
        /\ via \in [Commands -> Sockets \union {0}] /\ ran \in [Commands -> Nat]
        /\ answer \in [Commands -> Commands \union {None}]
    OBVIOUS
  <2>3. /\ socket \in Sockets \union {0} /\ connecting \in Sockets \union {0} /\ awaits \in Sockets \union {0}
        /\ ready \in BOOLEAN /\ timer \in Nat /\ closed \in BOOLEAN /\ pending \in Commands \union {None}
    OBVIOUS
  <2> QED BY <2>1, <2>2, <2>3 DEF ClientTypeOK
<1>2. OneConnection /\ RepliesMatch /\ PendingIsHead /\ RunsAreCounted /\ CommandsRunAsReported
  BY DEF OneConnection, RepliesMatch, OnTheWire, PendingIsHead, RunsAreCounted, CommandsRunAsReported
<1> QED BY <1>1, <1>2 DEF ClientInv

\* A command that resolved or was refused was answered by its own reply and ran once, one that
\* was withdrawn before its write never runs, and none runs twice, with any number of commands
\* and of lost connections.  (EslClient.command, connect, rejectPending)
THEOREM CommandsRunAsReportedHolds == Spec => []CommandsRunAsReported
<1>1. Init => ClientInv
  BY ClientStarts
<1>2. ClientInv /\ [Next]_vars => ClientInv'
  BY ClientIsKept, EveryStepMovesTheClient
<1>3. ClientInv => CommandsRunAsReported
  BY DEF ClientInv
<1> QED BY <1>1, <1>2, <1>3, PTL DEF Spec

-----------------------------------------------------------------------------
(* The two tables. *)

Kept(table, limit) == IF Len(table) >= limit THEN Tail(table) ELSE table

LEMMA KeptTable ==
  ASSUME NEW T, NEW table \in Seq(T), NEW limit \in Nat \ {0}, Len(table) <= limit
  PROVE  /\ Kept(table, limit) \in Seq(T) /\ Len(Kept(table, limit)) < limit
         /\ Len(Kept(table, limit)) = IF Len(table) = limit THEN limit - 1 ELSE Len(table)
         /\ \A q \in 1..Len(Kept(table, limit)) :
              Kept(table, limit)[q] = table[q + Len(table) - Len(Kept(table, limit))]
<1>1. CASE Len(table) = limit
  <2>1. table # <<>> /\ Kept(table, limit) = Tail(table)
    BY <1>1 DEF Kept
  <2>2. /\ Tail(table) \in Seq(T) /\ Len(Tail(table)) = Len(table) - 1
        /\ \A i \in 1..Len(Tail(table)) : Tail(table)[i] = table[i + 1]
    BY <2>1, HeadTailProperties
  <2> QED BY <1>1, <2>1, <2>2
<1>2. CASE Len(table) < limit
  <2>1. Kept(table, limit) = table /\ Len(table) \in Nat
    BY <1>2 DEF Kept
  <2> QED BY <1>2, <2>1
<1> QED BY <1>1, <1>2

LEMMA RememberNew ==
  ASSUME NEW T, NEW table \in Seq(T), NEW limit \in Nat \ {0}, Len(table) <= limit,
         NEW entry \in T, ~Holds(Kept(table, limit), entry)
  PROVE  /\ Remember(table, entry, limit) \in Seq(T)
         /\ Len(Remember(table, entry, limit)) = IF Len(table) = limit THEN limit ELSE Len(table) + 1
         /\ Remember(table, entry, limit)[Len(Remember(table, entry, limit))] = entry
         /\ \A q \in 1..Len(Remember(table, entry, limit)) - 1 :
              Remember(table, entry, limit)[q]
                = table[q + Len(table) + 1 - Len(Remember(table, entry, limit))]
<1> DEFINE kept == Kept(table, limit)
           r == Remember(table, entry, limit)
<1>1. r = Append(kept, entry)
  BY DEF Remember, Kept
<1>2. /\ kept \in Seq(T) /\ Len(kept) = IF Len(table) = limit THEN limit - 1 ELSE Len(table)
      /\ \A q \in 1..Len(kept) : kept[q] = table[q + Len(table) - Len(kept)]
  BY KeptTable
<1> HIDE DEF kept, r
<1>3. /\ r \in Seq(T) /\ Len(r) = Len(kept) + 1 /\ r[Len(kept) + 1] = entry
      /\ \A i \in 1..Len(kept) : r[i] = kept[i]
  BY <1>1, <1>2, AppendProperties
<1>4. Len(table) \in Nat /\ Len(kept) \in Nat
  BY <1>2
<1>5. \A q \in 1..Len(r) - 1 : r[q] = table[q + Len(table) + 1 - Len(r)]
  <2> SUFFICES ASSUME NEW q \in 1..Len(r) - 1 PROVE r[q] = table[q + Len(table) + 1 - Len(r)]
    OBVIOUS
  <2>1. q \in 1..Len(kept) /\ q + Len(table) + 1 - Len(r) = q + Len(table) - Len(kept)
    BY <1>3, <1>4
  <2> QED BY <1>2, <1>3, <2>1
<1>6. Len(r) = (IF Len(table) = limit THEN limit ELSE Len(table) + 1) /\ r[Len(r)] = entry
  BY <1>2, <1>3, <1>4
<1> QED BY <1>3, <1>5, <1>6 DEF r

LEMMA RememberOld ==
  ASSUME NEW table, NEW limit, NEW entry, Holds(Kept(table, limit), entry)
  PROVE  Remember(table, entry, limit) = Kept(table, limit)
  BY DEF Remember, Kept

LEMMA OnePlaceBack ==
  ASSUME NEW n \in Nat, NEW m \in Nat, m = n - 1 \/ m = n, NEW q \in 1..m
  PROVE  q + n - m \in 1..n
  OBVIOUS

LEMMA PlaceKept ==
  ASSUME NEW n \in Nat, NEW m \in Nat, m = n - 1 \/ m = n, NEW p \in 1..n, m = n \/ p # 1
  PROVE  \E q \in 1..m : q + n - m = p /\ m - q <= n - p + 1 /\ m + 1 - q <= n - p + 1
<1> DEFINE q == p - (n - m)
<1>1. q \in 1..m /\ q + n - m = p /\ m - q <= n - p + 1 /\ m + 1 - q <= n - p + 1
  OBVIOUS
<1> QED BY <1>1

\* What jobResult and receive rely on: the table stays within its bound, holds the new entry
\* and nothing else that it did not hold, and an entry moves back by at most one place.
Remembers(T, table, entry, limit, r) ==
  /\ r \in Seq(T) /\ Len(r) <= limit
  /\ \A q \in DOMAIN r : r[q] = entry \/ Holds(table, r[q])
  /\ \A p \in DOMAIN table :
       \/ p = 1 /\ Len(table) = limit
       \/ \E q \in DOMAIN r : r[q] = table[p] /\ Len(r) - q <= Len(table) - p + 1
  /\ ~Holds(table, entry) => \E q \in DOMAIN r : r[q] = entry /\ q = Len(r)

LEMMA Remembering ==
  ASSUME NEW T, NEW table \in Seq(T), NEW limit \in Nat \ {0}, Len(table) <= limit, NEW entry \in T,
         NEW r, r = Remember(table, entry, limit)
  PROVE  Remembers(T, table, entry, limit, r)
<1> USE DEF Remembers
<1> DEFINE kept == Kept(table, limit)
           n == Len(table)
           m == Len(kept)
<1>1. /\ kept \in Seq(T) /\ m < limit /\ m = (IF n = limit THEN limit - 1 ELSE n)
      /\ \A q \in 1..m : kept[q] = table[q + n - m]
  BY KeptTable
<1>2. DOMAIN table = 1..n /\ n \in Nat /\ n <= limit /\ DOMAIN kept = 1..m /\ m \in Nat
  BY <1>1
<1>3. CASE Holds(kept, entry)
  <2>1. r = kept /\ Len(r) = m
    BY <1>3, RememberOld
  <2> HIDE DEF kept, n, m
  <2>2. (m = n - 1 /\ n = limit) \/ m = n
    BY <1>1, <1>2
  <2>3. \A q \in DOMAIN kept : Holds(table, kept[q])
    BY <1>1, <1>2, <2>2, OnePlaceBack DEF Holds
  <2>4. Holds(table, entry)
    BY <1>3, <2>3 DEF Holds
  <2>5. ASSUME NEW p \in DOMAIN table, ~(p = 1 /\ n = limit)
        PROVE  \E q \in DOMAIN r : r[q] = table[p] /\ Len(r) - q <= n - p + 1
    <3>1. PICK q \in 1..m : q + n - m = p /\ m - q <= n - p + 1
      BY <1>2, <2>2, <2>5, PlaceKept
    <3> QED BY <1>1, <1>2, <2>1, <3>1
  <2>6. r \in Seq(T) /\ Len(r) <= limit /\ \A q \in DOMAIN r : Holds(table, r[q])
    BY <1>1, <1>2, <2>1, <2>3
  <2> QED BY <2>4, <2>5, <2>6, Zenon DEF n
<1>4. CASE ~Holds(kept, entry)
  <2>1. /\ r \in Seq(T) /\ Len(r) = (IF n = limit THEN limit ELSE n + 1)
        /\ r[Len(r)] = entry /\ \A q \in 1..Len(r) - 1 : r[q] = table[q + n + 1 - Len(r)]
    BY <1>4, RememberNew
  <2> HIDE DEF kept, n, m
  <2>2. Len(r) = m + 1 /\ ((m = n - 1 /\ n = limit) \/ m = n)
    BY <1>1, <1>2, <2>1
  <2>3. DOMAIN r = 1..m + 1
    BY <2>1, <2>2
  <2>4. \A q \in 1..m : r[q] = table[q + n - m]
    BY <1>2, <2>1, <2>2
  <2>5. m + 1 \in DOMAIN r /\ r[m + 1] = entry /\ Len(r) <= limit /\ DOMAIN r = 1..m \union {m + 1}
    BY <1>1, <1>2, <2>1, <2>2, <2>3
  <2>6. \A q \in DOMAIN r : r[q] = entry \/ Holds(table, r[q])
    BY <1>2, <2>2, <2>4, <2>5, OnePlaceBack DEF Holds
  <2>7. ASSUME NEW p \in DOMAIN table, ~(p = 1 /\ n = limit)
        PROVE  \E q \in DOMAIN r : r[q] = table[p] /\ Len(r) - q <= n - p + 1
    <3>1. PICK q \in 1..m : q + n - m = p /\ m + 1 - q <= n - p + 1
      BY <1>2, <2>2, <2>7, PlaceKept
    <3>2. q \in DOMAIN r /\ r[q] = table[p]
      BY <2>4, <2>5, <3>1
    <3>3. Len(r) - q <= n - p + 1
      BY <1>2, <2>2, <3>1
    <3> QED BY <3>2, <3>3
  <2> QED BY <2>1, <2>2, <2>5, <2>6, <2>7 DEF n
<1> QED BY <1>3, <1>4

\* An entry that is taken out leaves the others, none farther from the end.
TakenOut(T, table, entry, w) ==
  /\ w \in Seq(T) /\ Len(w) = Len(table) - 1
  /\ \A q \in DOMAIN w : Holds(table, w[q])
  /\ \A p \in DOMAIN table : table[p] # entry =>
       \E q \in DOMAIN w : w[q] = table[p] /\ Len(w) - q <= Len(table) - p

LEMMA TakingOut ==
  ASSUME NEW T, NEW table \in Seq(T), NEW entry, Holds(table, entry),
         NEW w, w = Without(table, entry)
  PROVE  TakenOut(T, table, entry, w)
<1> DEFINE at == CHOOSE i \in DOMAIN table : table[i] = entry
<1>1. at \in DOMAIN table /\ table[at] = entry
  BY DEF Holds
<1>2. w = [i \in 1..(Len(table) - 1) |-> table[IF i < at THEN i ELSE i + 1]]
  BY DEF Without
<1> HIDE DEF at
<1>3. DOMAIN table = 1..Len(table) /\ Len(table) \in Nat \ {0} /\ at \in 1..Len(table)
  BY <1>1
<1>4. \A i \in 1..(Len(table) - 1) : (IF i < at THEN i ELSE i + 1) \in 1..Len(table)
  BY <1>3
<1>5. w \in [1..(Len(table) - 1) -> T]
  BY <1>2, <1>3, <1>4
<1>6. w \in Seq(T) /\ Len(w) = Len(table) - 1 /\ DOMAIN w = 1..(Len(table) - 1)
  <2>1. Len(table) - 1 \in Nat
    BY <1>3
  <2>2. w \in Seq(T)
    BY <1>5, <2>1, SeqDef
  <2> QED BY <1>5, <2>1, <2>2
<1>7. \A q \in DOMAIN w : Holds(table, w[q])
  BY <1>2, <1>3, <1>4, <1>6 DEF Holds
<1>8. ASSUME NEW p \in DOMAIN table, table[p] # entry
      PROVE  \E q \in DOMAIN w : w[q] = table[p] /\ Len(w) - q <= Len(table) - p
  <2>1. CASE p < at
    <3>1. p \in DOMAIN w /\ w[p] = table[p]
      BY <1>2, <1>3, <1>6, <2>1
    <3> QED BY <1>3, <1>6, <3>1
  <2>2. CASE p > at
    <3>1. p - 1 \in DOMAIN w /\ w[p - 1] = table[p]
      BY <1>2, <1>3, <1>6, <2>2
    <3> QED BY <1>3, <1>6, <3>1
  <2> QED BY <1>1, <1>3, <1>8, <2>1, <2>2
<1> QED BY <1>6, <1>7, <1>8 DEF TakenOut

-----------------------------------------------------------------------------
(* The events. *)

\* The steps that leave the adapter alone, and lose at most some events.
Quiet ==
  /\ UNCHANGED <<adapter, core, sequence, copies>> /\ flying' \in SUBSET flying
  /\ job' \in [AllJobs -> {"none", "running", "over"}]
EventMoves ==
  \/ Quiet
  \/ \E j \in AllJobs : JobEnds(j)
  \/ GatewayRestarts
  \/ \E e \in flying, stays \in BOOLEAN : Receive(e, stays)
  \/ \E o \in Originates : OriginateNamed(o)

LEMMA EveryStepMovesEvents ==
  ASSUME TypeOK, [Next]_vars
  PROVE  EventMoves
<1>1. job \in [AllJobs -> {"none", "running", "over"}]
  BY DEF TypeOK
<1>2. CASE UNCHANGED vars
  BY <1>1, <1>2 DEF vars, gateway, Quiet, EventMoves
<1>3. CASE Connection
  BY <1>1, <1>3 DEF Connection, FlyingLost, AndAdapterStays, Quiet, EventMoves
<1>4. CASE Traffic
  <2>1. CASE \E c \in Commands, outcome \in {"ok", "rejected"} : GatewayStarts(c, outcome)
    BY <1>1, <2>1 DEF GatewayStarts, Quiet, EventMoves
  <2>2. CASE \E c \in Commands : Replies(c) /\ FlyingLost /\ AndAdapterStays
    BY <1>1, <2>2 DEF FlyingLost, AndAdapterStays, Quiet, EventMoves
  <2>3. CASE \E c \in Commands : GatewayLoses(c) /\ UNCHANGED <<adapter, gateway>>
    BY <1>1, <2>3 DEF gateway, Quiet, EventMoves
  <2> QED BY <1>4, <2>1, <2>2, <2>3, Zenon DEF Traffic
<1>5. CASE Events
  BY <1>5, Zenon DEF Events, EventMoves
<1>6. CASE GatewayRestarts \/ \E j \in AllJobs : JobEnds(j)
  BY <1>6, Zenon DEF EventMoves
<1> QED BY <1>2, <1>3, <1>4, <1>5, <1>6, Zenon DEF Next

EventInv == TypeOK /\ KeysAreUnique /\ SeenIsLatest /\ EventsCountOnce /\ ResultsAreKept

LEMMA SentAreEvents ==
  ASSUME TypeOK
  PROVE  /\ Sent \subseteq Event /\ DOMAIN accepted = 1..Len(accepted) /\ Len(accepted) \in Nat
         /\ \A e \in Sent : e.core \in Nat /\ e.sequence \in Nat /\ e.job \in AllJobs
<1>1. accepted \in Seq(Event) /\ flying \subseteq Event
  BY DEF TypeOK
<1>2. DOMAIN accepted = 1..Len(accepted) /\ Len(accepted) \in Nat
  BY <1>1
<1>3. Sent \subseteq Event
  BY <1>1, <1>2 DEF Sent
<1> QED BY <1>2, <1>3 DEF Event

\* What was accepted, and what was made of it, stays: only the keys can be disturbed.
LEMMA AdapterStays ==
  ASSUME EventInv, ClientTypeOK', UNCHANGED adapter, core' \in Nat, sequence' \in Nat, copies' \in Nat,
         flying' \subseteq Event, job' \in [AllJobs -> {"none", "running", "over"}], KeysAreUnique'
  PROVE  EventInv'
<1> USE DEF EventInv, adapter
<1>1. TypeOK'
  BY DEF TypeOK
<1>2. SeenIsLatest' /\ EventsCountOnce'
  BY DEF SeenIsLatest, EventsCountOnce, Holds
<1>3. ResultsAreKept'
  BY DEF ResultsAreKept, Results, GivenUp, Remembered
<1> QED BY <1>1, <1>2, <1>3

LEMMA QuietKeeps ==
  ASSUME EventInv, ClientTypeOK', Quiet
  PROVE  EventInv'
<1>1. Sent' \subseteq Sent
  BY DEF Quiet, Sent, adapter
<1>2. KeysAreUnique'
  BY <1>1 DEF EventInv, KeysAreUnique, SameKey, Quiet
<1> QED BY <1>2, AdapterStays DEF Quiet, EventInv, TypeOK

LEMMA JobEndsKeeps ==
  ASSUME EventInv, ClientTypeOK', NEW j \in AllJobs, JobEnds(j)
  PROVE  EventInv'
<1> USE DEF EventInv, JobEnds
<1> DEFINE new == [core |-> core, sequence |-> sequence + 1, job |-> j]
<1>1. core \in Nat /\ sequence \in Nat /\ flying \subseteq Event /\ sequence' = sequence + 1 /\ core' = core
  BY DEF TypeOK
<1>2. new \in Event /\ new.core = core /\ new.sequence = sequence + 1
  BY <1>1 DEF Event
<1> HIDE DEF new
<1>3. flying' \subseteq flying \union {new}
  BY DEF new
<1>4. Sent' \subseteq Sent \union {new}
  BY <1>3 DEF Sent, adapter
<1>5. \A e \in Sent : e.core <= core /\ e.sequence \in Nat /\ (e.core = core => e.sequence <= sequence)
  BY SentAreEvents DEF KeysAreUnique
<1>6. \A e \in Sent : ~SameKey(e, new) /\ ~SameKey(new, e)
  BY <1>1, <1>2, <1>5 DEF SameKey
<1>7. \A e \in Sent' : e.core <= core' /\ (e.core = core' => e.sequence <= sequence')
  BY <1>1, <1>2, <1>4, <1>5
<1>8. \A d, e \in Sent' : SameKey(d, e) => d = e
  BY <1>4, <1>6 DEF KeysAreUnique
<1>9. KeysAreUnique'
  BY <1>7, <1>8 DEF KeysAreUnique, SameKey
<1>10. job' \in [AllJobs -> {"none", "running", "over"}] /\ flying' \subseteq Event /\ copies' \in Nat
  BY <1>2, <1>3 DEF TypeOK
<1> QED BY <1>1, <1>9, <1>10, AdapterStays

LEMMA GatewayRestartsKeeps ==
  ASSUME EventInv, ClientTypeOK', GatewayRestarts
  PROVE  EventInv'
<1> USE DEF EventInv, GatewayRestarts
<1>1. core \in Nat /\ core' = core + 1 /\ sequence' = 0 /\ copies' \in Nat /\ UNCHANGED adapter
      /\ job' \in [AllJobs -> {"none", "running", "over"}] /\ flying' = {}
  BY DEF TypeOK
<1>2. Sent' \subseteq Sent
  BY <1>1 DEF Sent, adapter
<1>3. \A e \in Sent : e.core < core'
  BY <1>1, SentAreEvents DEF KeysAreUnique
<1>4. \A e \in Sent' : e.core <= core' /\ (e.core = core' => e.sequence <= sequence')
  BY <1>1, <1>2, <1>3, SentAreEvents
<1>5. KeysAreUnique'
  BY <1>2, <1>4 DEF KeysAreUnique, SameKey
<1> QED BY <1>1, <1>5, AdapterStays

-----------------------------------------------------------------------------
(* Receiving an event. *)

LEMMA DuplicateWasAccepted ==
  ASSUME EventInv, NEW e \in flying
  PROVE  /\ Duplicate(e) => Holds(accepted, e)
         /\ ~Duplicate(e) => ~Holds(seen, e)
<1> USE DEF EventInv
<1>1. CASE Duplicate(e)
  <2>1. PICK i \in DOMAIN seen : SameKey(seen[i], e)
    BY <1>1 DEF Duplicate
  <2>2. i \in 1..Len(seen) /\ Len(seen) \in Nat /\ Len(accepted) \in Nat /\ DOMAIN accepted = 1..Len(accepted)
    BY SentAreEvents DEF TypeOK
  <2>3. Len(accepted) - Len(seen) + i \in DOMAIN accepted
    <3> DEFINE l == Len(seen)
               a == Len(accepted)
    <3>1. l <= a
      BY DEF SeenIsLatest
    <3> HIDE DEF l, a
    <3>2. l \in Nat /\ a \in Nat /\ i \in 1..l
      BY <2>2 DEF l, a
    <3>3. a - l + i \in 1..a
      BY <3>1, <3>2
    <3> QED BY <2>2, <3>3, Zenon DEF l, a
  <2>4. seen[i] = accepted[Len(accepted) - Len(seen) + i]
    BY <2>2 DEF SeenIsLatest
  <2>5. seen[i] \in Sent /\ e \in Sent
    BY <2>3, <2>4 DEF Sent
  <2>6. seen[i] = e
    BY <2>1, <2>5 DEF KeysAreUnique
  <2> QED BY <1>1, <2>3, <2>4, <2>6 DEF Holds
<1>2. CASE ~Duplicate(e)
  BY <1>2 DEF Duplicate, Holds, SameKey
<1> QED BY <1>1, <1>2

\* An event that is accepted.
Accepts(e) ==
  /\ e \in flying /\ flying' \subseteq flying /\ copies' \in Nat /\ ~Duplicate(e)
  /\ seen' = Remember(seen, e, SeenLimit) /\ accepted' = Append(accepted, e)
  /\ JobResult(e.job) /\ UNCHANGED <<ignored, core, sequence, job, named>>

LEMMA AcceptedGrows ==
  ASSUME EventInv, NEW e \in flying, accepted' = Append(accepted, e)
  PROVE  /\ e \in Event /\ e \in Sent /\ e.job \in AllJobs
         /\ accepted' \in Seq(Event) /\ Len(accepted') = Len(accepted) + 1
         /\ DOMAIN accepted' = 1..Len(accepted) + 1
         /\ \A i \in 1..Len(accepted) : accepted'[i] = accepted[i]
         /\ accepted'[Len(accepted) + 1] = e
<1>1. accepted \in Seq(Event) /\ e \in Event
  BY DEF EventInv, TypeOK
<1>2. accepted' \in Seq(Event) /\ Len(accepted') = Len(accepted) + 1
      /\ (\A i \in 1..Len(accepted) : accepted'[i] = accepted[i]) /\ accepted'[Len(accepted) + 1] = e
  BY <1>1, AppendProperties
<1>3. DOMAIN accepted' = 1..Len(accepted) + 1
  BY <1>2
<1> QED BY <1>1, <1>2, <1>3 DEF Sent, Event

\* The bounds of seenEvents as plain numbers: a is what was accepted, l what is remembered.
LEMMA LatestMoves ==
  ASSUME NEW a \in Nat, NEW l \in Nat, l <= a, NEW limit \in Nat, l <= limit,
         NEW m \in Nat, IF l = limit THEN m = limit ELSE m = l + 1, NEW q \in 1..m - 1
  PROVE  q + l + 1 - m \in 1..l /\ a - l + (q + l + 1 - m) = a + 1 - m + q
         /\ a + 1 - m + q \in 1..a
  OBVIOUS

LEMMA SeenStaysLatest ==
  ASSUME EventInv, NEW e \in flying, Accepts(e)
  PROVE  SeenIsLatest' /\ seen' \in Seq(Event) /\ Len(seen') <= SeenLimit
<1> DEFINE a == Len(accepted)
           l == Len(seen)
           m == Len(seen')
<1>1. /\ seen \in Seq(Event) /\ e \in Event /\ l \in Nat /\ a \in Nat /\ l <= a /\ l <= SeenLimit
      /\ SeenLimit \in Nat \ {0} /\ l \in {a, SeenLimit}
      /\ \A i \in 1..l : seen[i] = accepted[a - l + i]
  BY SentAreEvents DEF EventInv, TypeOK, SeenIsLatest
<1>2. /\ accepted' \in Seq(Event) /\ Len(accepted') = a + 1 /\ accepted'[a + 1] = e
      /\ \A i \in 1..a : accepted'[i] = accepted[i]
  BY AcceptedGrows DEF Accepts
<1>3. ~Holds(Kept(seen, SeenLimit), e)
  <2>1. ~Holds(seen, e)
    BY DuplicateWasAccepted DEF Accepts
  <2>2. /\ Kept(seen, SeenLimit) \in Seq(Event)
        /\ Len(Kept(seen, SeenLimit)) = l - 1 \/ Len(Kept(seen, SeenLimit)) = l
        /\ \A q \in 1..Len(Kept(seen, SeenLimit)) :
             Kept(seen, SeenLimit)[q] = seen[q + l - Len(Kept(seen, SeenLimit))]
    BY <1>1, KeptTable
  <2> DEFINE k == Kept(seen, SeenLimit)
             n == Len(k)
  <2>3. DOMAIN k = 1..n /\ n \in Nat /\ DOMAIN seen = 1..l
    BY <1>1, <2>2
  <2> HIDE DEF n, k, l
  <2>4. n = l - 1 \/ n = l
    BY <2>2 DEF n, k, l
  <2>5. \A q \in 1..n : k[q] = seen[q + l - n]
    BY <2>2, Zenon DEF n, k, l
  <2>6. \A q \in 1..n : q + l - n \in DOMAIN seen
    BY <1>1, <2>3, <2>4, OnePlaceBack
  <2>7. \A q \in DOMAIN k : k[q] # e
    BY <2>1, <2>3, <2>5, <2>6, Zenon DEF Holds
  <2> QED BY <2>7, Zenon DEF Holds, k
<1>4. /\ seen' \in Seq(Event) /\ m = (IF l = SeenLimit THEN SeenLimit ELSE l + 1) /\ seen'[m] = e
      /\ \A q \in 1..m - 1 : seen'[q] = seen[q + l + 1 - m]
  BY <1>1, <1>3, RememberNew DEF Accepts
<1> HIDE DEF a, l, m
<1>5. m \in Nat /\ m <= SeenLimit /\ m <= a + 1 /\ m \in {a + 1, SeenLimit} /\ m >= 1
      /\ (IF l = SeenLimit THEN m = SeenLimit ELSE m = l + 1)
  BY <1>1, <1>4
<1>6. ASSUME NEW i \in 1..m PROVE seen'[i] = accepted'[a + 1 - m + i]
  <2>1. CASE i = m
    <3>1. a + 1 - m + i = a + 1
      BY <1>1, <1>5, <2>1
    <3> QED BY <1>2, <1>4, <2>1, <3>1
  <2>2. CASE i # m
    <3>1. i \in 1..m - 1
      BY <1>5, <2>2
    <3>2. i + l + 1 - m \in 1..l /\ a - l + (i + l + 1 - m) = a + 1 - m + i /\ a + 1 - m + i \in 1..a
      BY <1>1, <1>5, <3>1, LatestMoves
    <3>3. seen'[i] = seen[i + l + 1 - m] /\ seen[i + l + 1 - m] = accepted[a + 1 - m + i]
      BY <1>1, <1>4, <3>1, <3>2
    <3>4. accepted'[a + 1 - m + i] = accepted[a + 1 - m + i]
      BY <1>2, <3>2
    <3> QED BY <3>3, <3>4
  <2> QED BY <2>1, <2>2
<1>7. SeenIsLatest'
  <2>1. \A i \in 1..m : Len(accepted') - m + i = a + 1 - m + i
    BY <1>1, <1>2, <1>5
  <2>2. \A i \in 1..m : seen'[i] = accepted'[Len(accepted') - m + i]
    BY <1>6, <2>1
  <2> QED BY <1>2, <1>5, <2>2 DEF SeenIsLatest, m
<1> QED BY <1>4, <1>5, <1>7 DEF m

LEMMA EventsStillCountOnce ==
  ASSUME EventInv, NEW e \in flying, Accepts(e)
  PROVE  EventsCountOnce'
<1> DEFINE a == Len(accepted)
           l == Len(seen)
<1>1. /\ l \in Nat /\ a \in Nat /\ l <= a /\ SeenLimit \in Nat \ {0} /\ l \in {a, SeenLimit}
      /\ DOMAIN accepted = 1..a /\ DOMAIN seen = 1..l
      /\ \A i \in 1..l : seen[i] = accepted[a - l + i]
  BY SentAreEvents DEF EventInv, TypeOK, SeenIsLatest
<1>2. /\ DOMAIN accepted' = 1..a + 1 /\ accepted'[a + 1] = e
      /\ \A i \in 1..a : accepted'[i] = accepted[i]
  BY AcceptedGrows DEF Accepts
<1>3. ~Holds(seen, e)
  BY DuplicateWasAccepted DEF Accepts
<1> HIDE DEF a, l
<1>4. \A i \in 1..a : accepted[i] = e => (a + 1) - i > SeenLimit
  <2> SUFFICES ASSUME NEW i \in 1..a, accepted[i] = e PROVE (a + 1) - i > SeenLimit
    OBVIOUS
  <2>1. CASE i > a - l
    <3>1. i - (a - l) \in 1..l /\ a - l + (i - (a - l)) = i
      BY <1>1, <2>1
    <3>2. seen[i - (a - l)] = e
      BY <1>1, <3>1
    <3> QED BY <1>1, <1>3, <3>1, <3>2 DEF Holds
  <2>2. CASE ~(i > a - l)
    BY <1>1, <2>2
  <2> QED BY <2>1, <2>2
<1>5. ASSUME NEW i \in DOMAIN accepted', NEW k \in DOMAIN accepted', i < k, accepted'[i] = accepted'[k]
      PROVE  k - i > SeenLimit
  <2>1. CASE k = a + 1
    <3>1. i \in 1..a
      BY <1>1, <1>2, <1>5, <2>1
    <3> QED BY <1>2, <1>4, <1>5, <2>1, <3>1
  <2>2. CASE k # a + 1
    <3>1. i \in 1..a /\ k \in 1..a
      BY <1>1, <1>2, <1>5, <2>2
    <3> QED BY <1>1, <1>2, <1>5, <3>1 DEF EventInv, EventsCountOnce
  <2> QED BY <2>1, <2>2
<1>6. ASSUME NEW d \in ignored PROVE Holds(accepted', d)
  <2>1. PICK i \in 1..a : accepted[i] = d
    BY <1>1 DEF EventInv, EventsCountOnce, Holds
  <2>2. i \in DOMAIN accepted' /\ accepted'[i] = d
    BY <1>1, <1>2, <2>1
  <2> QED BY <2>2 DEF Holds
<1>7. ignored' = ignored
  BY DEF Accepts
<1> QED BY <1>5, <1>6, <1>7 DEF EventsCountOnce, Holds

-----------------------------------------------------------------------------
(* The results of jobs. *)

\* The results that are kept when the job of an accepted event is one of a known call.
LEMMA KnownResultIsTold ==
  ASSUME EventInv, NEW e \in flying, Accepts(e), e.job \in jobs
  PROVE  ResultsAreKept' /\ early' = early /\ jobs' \subseteq Originates /\ told' \in [Originates -> Nat]
<1> USE DEF EventInv
<1> DEFINE a == Len(accepted)
           j == e.job
<1>1. /\ a \in Nat /\ DOMAIN accepted = 1..a /\ DOMAIN accepted' = 1..a + 1 /\ Len(accepted') = a + 1
      /\ accepted'[a + 1] = e /\ \A i \in 1..a : accepted'[i] = accepted[i]
  BY AcceptedGrows, SentAreEvents DEF Accepts
<1>2. /\ jobs' = jobs \ {j} /\ told' = [told EXCEPT ![j] = @ + 1] /\ early' = early /\ named' = named
      /\ j \in Originates /\ j \in named /\ told[j] = 0
  BY DEF Accepts, JobResult, Tells, TypeOK, ResultsAreKept
<1> HIDE DEF a
<1>3. \A o : Results(o) \subseteq Results(o)'
  BY <1>1 DEF Results
<1>4. a + 1 \in Results(j)'
  BY <1>1 DEF Results
<1>5. told'[j] = 1 /\ \A o \in Originates \ {j} : told'[o] = told[o]
  BY <1>2 DEF TypeOK
<1>6. ASSUME NEW o \in Originates
      PROVE  /\ told'[o] = IF o \in named' \ jobs' THEN 1 ELSE 0
             /\ o \in jobs' => o \in named'
             /\ told'[o] = 1 => Results(o)' # {}
             /\ told'[o] = 0 /\ Results(o)' # {} =>
                  \E i \in Results(o)' : GivenUp(i)' \/ Remembered(o, i)'
  <2>1. CASE o = j
    BY <1>2, <1>4, <1>5, <2>1 DEF ResultsAreKept
  <2>2. CASE o # j
    <3>1. Results(o)' = Results(o)
      BY <1>1, <2>2 DEF Results
    <3>2. \A i \in Results(o) : (GivenUp(i) => GivenUp(i)') /\ (Remembered(o, i) => Remembered(o, i)')
      <4> SUFFICES ASSUME NEW i \in Results(o)
                   PROVE  (GivenUp(i) => GivenUp(i)') /\ (Remembered(o, i) => Remembered(o, i)')
        OBVIOUS
      <4>1. i \in Nat /\ a = Len(accepted)
        BY <1>1 DEF Results, a
      <4>2. GivenUp(i) => GivenUp(i)'
        BY <1>1, <4>1 DEF GivenUp
      <4>3. ASSUME Remembered(o, i) PROVE Remembered(o, i)'
        <5>1. PICK p \in DOMAIN early : early[p] = o /\ Len(early) - p <= a - i
          BY <4>1, <4>3 DEF Remembered
        <5>2. Len(early) \in Nat /\ p \in Nat
          BY DEF TypeOK
        <5>3. Len(early) - p <= a + 1 - i
          BY <1>1, <4>1, <5>1, <5>2
        <5>4. /\ o \notin named' /\ p \in DOMAIN early' /\ early'[p] = o
              /\ Len(early') - p <= Len(accepted') - i
          BY <1>1, <1>2, <4>1, <4>3, <5>1, <5>2, <5>3 DEF Remembered
        <5> QED BY <5>4, Zenon DEF Remembered
      <4> QED BY <4>2, <4>3
    <3> QED BY <1>2, <1>5, <2>2, <3>1, <3>2 DEF ResultsAreKept
  <2> QED BY <2>1, <2>2
<1>7. \A p \in DOMAIN early' : Results(early[p])' # {}
  BY <1>2, <1>3 DEF ResultsAreKept
<1>8. told' \in [Originates -> Nat] /\ jobs' \subseteq Originates
  BY <1>2 DEF TypeOK
<1> QED BY <1>2, <1>6, <1>7, <1>8 DEF ResultsAreKept

LEMMA UnknownResultIsKept ==
  ASSUME EventInv, NEW e \in flying, Accepts(e), e.job \notin jobs
  PROVE  /\ ResultsAreKept' /\ early' \in Seq(AllJobs) /\ Len(early') <= EarlyLimit
         /\ UNCHANGED <<jobs, told>>
<1> USE DEF EventInv
<1> DEFINE a == Len(accepted)
           j == e.job
<1>1. /\ a \in Nat /\ DOMAIN accepted = 1..a /\ DOMAIN accepted' = 1..a + 1 /\ Len(accepted') = a + 1
      /\ accepted'[a + 1] = e /\ (\A i \in 1..a : accepted'[i] = accepted[i]) /\ j \in AllJobs
  BY AcceptedGrows, SentAreEvents DEF Accepts
<1>2. early' = Remember(early, j, EarlyLimit) /\ UNCHANGED <<jobs, told, named>>
  BY DEF Accepts, JobResult
<1>3. early \in Seq(AllJobs) /\ Len(early) <= EarlyLimit /\ EarlyLimit \in Nat \ {0}
      /\ DOMAIN early = 1..Len(early) /\ Len(early) \in Nat
  BY DEF TypeOK
<1>4. /\ early' \in Seq(AllJobs) /\ Len(early') <= EarlyLimit
      /\ \A q \in DOMAIN early' : early'[q] = j \/ Holds(early, early'[q])
      /\ \A p \in DOMAIN early :
           \/ p = 1 /\ Len(early) = EarlyLimit
           \/ \E q \in DOMAIN early' : early'[q] = early[p] /\ Len(early') - q <= Len(early) - p + 1
      /\ ~Holds(early, j) => \E q \in DOMAIN early' : early'[q] = j /\ q = Len(early')
  <2>1. j \in AllJobs
    BY <1>1
  <2> HIDE DEF j
  <2>2. early' = Remember(early, j, EarlyLimit)
    BY <1>2
  <2>3. Remembers(AllJobs, early, j, EarlyLimit, early')
    BY <1>3, <2>1, <2>2, Remembering, Zenon
  <2> QED BY <2>3, Zenon DEF Remembers
<1> HIDE DEF a
<1>5. \A o : Results(o) \subseteq Results(o)'
  BY <1>1 DEF Results
<1>6. a + 1 \in Results(j)'
  BY <1>1 DEF Results
<1>7. \A p \in DOMAIN early' : Results(early[p])' # {}
  BY <1>4, <1>5, <1>6 DEF ResultsAreKept, Holds
<1>8. ASSUME NEW o \in Originates, told'[o] = 0, Results(o)' # {}
      PROVE  \E i \in Results(o)' : GivenUp(i)' \/ Remembered(o, i)'
  <2>1. CASE Results(o) = {}
    <3>1. o = j
      BY <1>1, <1>8, <2>1 DEF Results
    <3>2. o \notin named /\ ~Holds(early, o)
      BY <1>2, <1>8, <2>1, <3>1 DEF ResultsAreKept, Holds
    <3>3. PICK q \in DOMAIN early' : early'[q] = o /\ q = Len(early')
      BY <1>4, <3>1, <3>2
    <3>4. Len(early') - q <= Len(accepted') - (a + 1)
      BY <1>1, <1>4, <3>3
    <3>0. PICK i \in Results(o)' : i = a + 1
      BY <1>6, <3>1
    <3>5. o \notin named' /\ Len(early') - q <= Len(accepted') - i
      BY <1>2, <3>2, <3>4, <3>0
    <3>6. Remembered(o, i)'
      BY <3>3, <3>5, Zenon DEF Remembered
    <3> QED BY <3>5, <3>6
  <2>2. CASE Results(o) # {}
    <3>1. PICK i \in Results(o) : GivenUp(i) \/ Remembered(o, i)
      BY <1>2, <1>8, <2>2 DEF ResultsAreKept
    <3>2. i \in Nat /\ a = Len(accepted)
      BY <1>1 DEF Results, a
    <3>3. CASE GivenUp(i)
      BY <1>1, <1>3, <1>5, <3>2, <3>3 DEF GivenUp
    <3>4. CASE Remembered(o, i)
      <4>1. PICK p \in 1..Len(early) : early[p] = o /\ Len(early) - p <= a - i
        BY <1>3, <3>2, <3>4 DEF Remembered
      <4>2. CASE p = 1 /\ Len(early) = EarlyLimit
        <5>1. EarlyLimit <= a + 1 - i
          BY <1>1, <1>3, <3>2, <4>1, <4>2
        <5> QED BY <1>1, <1>3, <1>5, <3>2, <5>1 DEF GivenUp
      <4>3. CASE ~(p = 1 /\ Len(early) = EarlyLimit)
        <5>1. PICK q \in DOMAIN early' : early'[q] = o /\ Len(early') - q <= Len(early) - p + 1
          BY <1>3, <1>4, <4>1, <4>3
        <5>2. Len(early') \in Nat /\ q \in Nat
          BY <1>4
        <5>3. Len(early') - q <= a + 1 - i
          BY <1>1, <1>3, <3>2, <4>1, <5>1, <5>2
        <5>4. o \notin named' /\ Len(early') - q <= Len(accepted') - i
          BY <1>1, <1>2, <3>2, <3>4, <5>2, <5>3 DEF Remembered
        <5>5. Remembered(o, i)'
          BY <5>1, <5>4, Zenon DEF Remembered
        <5> QED BY <1>5, <5>5
      <4> QED BY <4>2, <4>3
    <3> QED BY <3>1, <3>3, <3>4
  <2> QED BY <2>1, <2>2
<1>9. \A o \in Originates :
        /\ told'[o] = IF o \in named' \ jobs' THEN 1 ELSE 0
        /\ o \in jobs' => o \in named'
        /\ told'[o] = 1 => Results(o)' # {}
  BY <1>2, <1>5 DEF ResultsAreKept
<1> QED BY <1>2, <1>4, <1>7, <1>8, <1>9 DEF ResultsAreKept

LEMMA ReceiveKeeps ==
  ASSUME EventInv, ClientTypeOK', NEW e \in flying, NEW stays \in BOOLEAN, Receive(e, stays)
  PROVE  EventInv'
<1>1. UNCHANGED <<core, sequence, job, named>> /\ flying' \subseteq flying /\ copies' \in Nat
  BY DEF Receive, EventInv, TypeOK
<1>2. Sent' \subseteq Sent
  <2>1. CASE UNCHANGED accepted
    BY <1>1, <2>1 DEF Sent
  <2>2. CASE accepted' = Append(accepted, e)
    <3>1. \A i \in DOMAIN accepted' : accepted'[i] \in Sent
      <4> SUFFICES ASSUME NEW i \in DOMAIN accepted' PROVE accepted'[i] \in Sent
        OBVIOUS
      <4>1. CASE i = Len(accepted) + 1
        BY <2>2, <4>1, AcceptedGrows
      <4>2. CASE i # Len(accepted) + 1
        <5>1. i \in 1..Len(accepted) /\ i \in DOMAIN accepted
          BY <2>2, <4>2, AcceptedGrows, SentAreEvents DEF EventInv
        <5>2. accepted'[i] = accepted[i]
          BY <2>2, <5>1, AcceptedGrows
        <5> QED BY <5>1, <5>2 DEF Sent
      <4> QED BY <4>1, <4>2
    <3> QED BY <1>1, <3>1 DEF Sent
  <2> QED BY <2>1, <2>2 DEF Receive
<1>3. KeysAreUnique'
  BY <1>1, <1>2 DEF EventInv, KeysAreUnique, SameKey
<1>4. flying' \subseteq Event /\ job' \in [AllJobs -> {"none", "running", "over"}] /\ core' \in Nat
      /\ sequence' \in Nat /\ named' \subseteq Originates
  BY <1>1 DEF EventInv, TypeOK
<1>5. CASE Duplicate(e)
  <2>1. ignored' = ignored \union {e} /\ UNCHANGED <<seen, accepted, jobs, early, told>>
    BY <1>5 DEF Receive
  <2>2. Holds(accepted, e) /\ e \in Event
    BY <1>5, DuplicateWasAccepted DEF EventInv, TypeOK
  <2>3. TypeOK'
    BY <1>1, <1>4, <2>1, <2>2 DEF EventInv, TypeOK
  <2>4. SeenIsLatest' /\ EventsCountOnce'
    BY <2>1, <2>2 DEF EventInv, SeenIsLatest, EventsCountOnce, Holds
  <2>5. ResultsAreKept'
    BY <1>1, <2>1 DEF EventInv, ResultsAreKept, Results, GivenUp, Remembered
  <2> QED BY <1>3, <2>3, <2>4, <2>5 DEF EventInv
<1>6. CASE ~Duplicate(e)
  <2>1. Accepts(e)
    BY <1>1, <1>6 DEF Receive, Accepts
  <2>2. SeenIsLatest' /\ EventsCountOnce' /\ seen' \in Seq(Event) /\ Len(seen') <= SeenLimit
    BY <2>1, SeenStaysLatest, EventsStillCountOnce
  <2>3. /\ ResultsAreKept' /\ early' \in Seq(AllJobs) /\ Len(early') <= EarlyLimit
        /\ jobs' \subseteq Originates /\ told' \in [Originates -> Nat]
    <3>1. /\ early \in Seq(AllJobs) /\ Len(early) <= EarlyLimit /\ jobs \subseteq Originates
          /\ told \in [Originates -> Nat]
      BY DEF EventInv, TypeOK
    <3>2. CASE e.job \in jobs
      BY <2>1, <3>1, <3>2, KnownResultIsTold
    <3>3. CASE e.job \notin jobs
      BY <2>1, <3>1, <3>3, UnknownResultIsKept
    <3> QED BY <3>2, <3>3
  <2>4. accepted' \in Seq(Event) /\ ignored' \subseteq Event
    BY <2>1, AcceptedGrows DEF Accepts, EventInv, TypeOK
  <2>5. TypeOK'
    BY <1>1, <1>4, <2>2, <2>3, <2>4 DEF TypeOK
  <2> QED BY <1>3, <2>2, <2>3, <2>5 DEF EventInv
<1> QED BY <1>5, <1>6

-----------------------------------------------------------------------------
(* Reading the reply of an originate. *)

LEMMA OriginateNamedKeeps ==
  ASSUME EventInv, ClientTypeOK', NEW o \in Originates, OriginateNamed(o)
  PROVE  EventInv'
<1> USE DEF EventInv
<1>1. /\ UNCHANGED <<core, sequence, job, flying, copies, seen, accepted, ignored>>
      /\ o \notin named /\ named' = named \union {o} /\ o \notin jobs /\ told[o] = 0
  BY DEF OriginateNamed, gateway, ResultsAreKept
<1>2. KeysAreUnique' /\ SeenIsLatest' /\ EventsCountOnce'
  BY <1>1 DEF KeysAreUnique, Sent, SameKey, SeenIsLatest, EventsCountOnce, Holds
<1>3. \A j : Results(j)' = Results(j)
  BY <1>1 DEF Results
<1>4. early \in Seq(AllJobs) /\ Len(early) <= EarlyLimit /\ Len(early) \in Nat /\ Len(accepted) \in Nat
      /\ DOMAIN early = 1..Len(early) /\ EarlyLimit \in Nat
  BY SentAreEvents DEF TypeOK
<1>5. CASE UsesEarly(o)
  <2>1. early' = Without(early, o) /\ told' = [told EXCEPT ![o] = @ + 1] /\ jobs' = jobs
    BY <1>5 DEF OriginateNamed, Tells
  <2>2. Holds(early, o) /\ Results(o) # {}
    BY <1>5 DEF UsesEarly, Holds, ResultsAreKept
  <2>3. TakenOut(AllJobs, early, o, early')
    BY <1>4, <2>1, <2>2, TakingOut, Zenon
  <2>4. told'[o] = 1 /\ \A r \in Originates \ {o} : told'[r] = told[r]
    BY <1>1, <2>1 DEF TypeOK
  <2>5. early' \in Seq(AllJobs) /\ Len(early') <= EarlyLimit /\ Len(early') \in Nat
    BY <1>4, <2>3 DEF TakenOut
  <2>6. \A p \in DOMAIN early' : Results(early[p])' # {}
    BY <1>3, <2>3 DEF TakenOut, ResultsAreKept, Holds
  <2>7. ASSUME NEW r \in Originates, NEW i \in Results(r), r # o, Remembered(r, i)
        PROVE  Remembered(r, i)'
    <3>1. r \notin named /\ i \in Nat
      BY <2>7, SentAreEvents DEF Remembered, Results
    <3>2. PICK p \in 1..Len(early) : early[p] = r /\ Len(early) - p <= Len(accepted) - i
      BY <1>4, <2>7 DEF Remembered
    <3>3. PICK q \in DOMAIN early' : early'[q] = r /\ Len(early') - q <= Len(early) - p
      BY <1>4, <2>3, <2>7, <3>2 DEF TakenOut
    <3>4. q \in Nat
      BY <2>5
    <3>5. Len(early') - q <= Len(accepted') - i
      BY <1>1, <1>4, <2>5, <3>1, <3>2, <3>3, <3>4
    <3>6. r \notin named'
      BY <1>1, <2>7, <3>1
    <3> QED BY <3>3, <3>5, <3>6, Zenon DEF Remembered
  <2>8. \A i : GivenUp(i)' <=> GivenUp(i)
    BY <1>1 DEF GivenUp
  <2>9. ASSUME NEW r \in Originates
        PROVE  /\ told'[r] = IF r \in named' \ jobs' THEN 1 ELSE 0
               /\ r \in jobs' => r \in named'
               /\ told'[r] = 1 => Results(r)' # {}
               /\ told'[r] = 0 /\ Results(r)' # {} =>
                    \E i \in Results(r)' : GivenUp(i)' \/ Remembered(r, i)'
    <3>1. CASE r = o
      BY <1>1, <1>3, <2>1, <2>2, <2>4, <3>1
    <3>2. CASE r # o
      <4>1. told'[r] = told[r] /\ (r \in named' <=> r \in named) /\ jobs' = jobs
        BY <1>1, <2>1, <2>4, <3>2
      <4> QED BY <1>3, <2>7, <2>8, <3>2, <4>1 DEF ResultsAreKept
    <3> QED BY <3>1, <3>2
  <2>10. ResultsAreKept'
    BY <2>6, <2>9 DEF ResultsAreKept
  <2>11. TypeOK'
    BY <1>1, <2>1, <2>5 DEF TypeOK
  <2> QED BY <1>2, <2>10, <2>11
<1>6. CASE ~UsesEarly(o)
  <2>1. jobs' = jobs \union {o} /\ early' = early /\ told' = told
    BY <1>6 DEF OriginateNamed
  <2>2. \A i : ~Remembered(o, i)
    BY <1>6 DEF UsesEarly, Holds, Remembered
  <2>3. \A r \in Originates, i \in Nat : r # o /\ Remembered(r, i) => Remembered(r, i)'
    BY <1>1, <2>1 DEF Remembered
  <2>4. \A i : GivenUp(i)' <=> GivenUp(i)
    BY <1>1 DEF GivenUp
  <2>5. \A p \in DOMAIN early' : Results(early[p])' # {}
    BY <1>3, <2>1 DEF ResultsAreKept
  <2>6. ASSUME NEW r \in Originates
        PROVE  /\ told'[r] = IF r \in named' \ jobs' THEN 1 ELSE 0
               /\ r \in jobs' => r \in named'
               /\ told'[r] = 1 => Results(r)' # {}
               /\ told'[r] = 0 /\ Results(r)' # {} =>
                    \E i \in Results(r)' : GivenUp(i)' \/ Remembered(r, i)'
    <3>1. CASE r = o
      BY <1>1, <1>3, <2>1, <2>2, <2>4, <3>1 DEF ResultsAreKept
    <3>2. CASE r # o
      <4>1. told'[r] = told[r] /\ (r \in named' <=> r \in named) /\ (r \in jobs' <=> r \in jobs)
        BY <1>1, <2>1, <3>2
      <4>2. Results(r) \subseteq Nat
        BY DEF Results, TypeOK
      <4>3. \A i \in Results(r) : Remembered(r, i) => Remembered(r, i)'
        BY <2>3, <3>2, <4>2
      <4>4. Results(r)' = Results(r)
        BY <1>3
      <4> QED BY <1>3, <2>4, <4>1, <4>3, <4>4 DEF ResultsAreKept
    <3> QED BY <3>1, <3>2
  <2>7. ResultsAreKept'
    BY <2>5, <2>6 DEF ResultsAreKept
  <2>8. TypeOK'
    BY <1>1, <2>1 DEF TypeOK
  <2> QED BY <1>2, <2>7, <2>8
<1> QED BY <1>5, <1>6

-----------------------------------------------------------------------------
(* The invariant. *)

LEMMA EventsStart == Init => EventInv
<1> SUFFICES ASSUME Init PROVE EventInv
  OBVIOUS
<1> USE DEF Init
<1>1. ClientTypeOK
  BY ClientStarts DEF ClientInv
<1>2. TypeOK
  <2>1. job \in [AllJobs -> {"none", "running", "over"}]
    OBVIOUS
  <2>2. seen \in Seq(Event) /\ Len(seen) = 0 /\ accepted \in Seq(Event) /\ early \in Seq(AllJobs) /\ Len(early) = 0
    BY EmptySeq
  <2> QED BY <1>1, <2>1, <2>2 DEF TypeOK
<1>3. DOMAIN accepted = {} /\ DOMAIN early = {} /\ Len(seen) = 0 /\ Len(accepted) = 0
  OBVIOUS
<1>4. Sent = {} /\ \A j : Results(j) = {}
  BY <1>3 DEF Sent, Results
<1>5. KeysAreUnique /\ SeenIsLatest /\ EventsCountOnce
  BY <1>3, <1>4 DEF KeysAreUnique, SeenIsLatest, EventsCountOnce
<1>6. ResultsAreKept
  BY <1>3, <1>4 DEF ResultsAreKept
<1> QED BY <1>2, <1>5, <1>6 DEF EventInv

LEMMA EventsAreKept ==
  ASSUME EventInv, ClientTypeOK', [Next]_vars
  PROVE  EventInv'
<1>1. EventMoves
  BY EveryStepMovesEvents DEF EventInv
<1> QED BY <1>1, QuietKeeps, JobEndsKeeps, GatewayRestartsKeeps, ReceiveKeeps, OriginateNamedKeeps, Zenon
        DEF EventMoves

\* IInv of GatewayEvents: one connection is made at a time, each reply that can still be read
\* is the awaited one, keys tell events apart, and results wait where their call will look.
\* (EslClient, FreeSwitchEslAdapter)
THEOREM GatewayInvariance == Spec => []IInv
<1>1. Init => ClientInv /\ EventInv
  BY ClientStarts, EventsStart
<1>2. ClientInv /\ EventInv /\ [Next]_vars => (ClientInv /\ EventInv)'
  <2> SUFFICES ASSUME ClientInv, EventInv, [Next]_vars PROVE ClientInv' /\ EventInv'
    OBVIOUS
  <2>1. ClientInv'
    BY ClientIsKept, EveryStepMovesTheClient
  <2>2. ClientTypeOK'
    BY <2>1 DEF ClientInv
  <2> QED BY <2>1, <2>2, EventsAreKept
<1>3. ClientInv /\ EventInv => IInv
  BY DEF IInv, EventInv
<1> QED BY <1>1, <1>2, <1>3, PTL DEF Spec

\* The fields of the client, of the adapter and of the gateway have their types; the two
\* tables stay within their bounds.  (FreeSwitchEslAdapter, EslClient)
THEOREM TypesHold == Spec => []TypeOK
<1>1. IInv => TypeOK
  BY DEF IInv
<1> QED BY <1>1, GatewayInvariance, PTL

\* An event counts twice only if at least SeenLimit others were accepted in between, and one
\* that was dropped had been accepted, whatever the connections and restarts of the gateway,
\* and however many copies it sends.  (FreeSwitchEslAdapter.receive)
THEOREM EventsCountOnceHolds == Spec => []EventsCountOnce
<1>1. IInv => EventsCountOnce
  BY DEF IInv
<1> QED BY <1>1, GatewayInvariance, PTL

\* The result of every originate whose reply was read is heard exactly once, whichever of the
\* two came first, unless it was given up for later events.
\* (FreeSwitchEslAdapter.originate, jobResult)
THEOREM ResultIsToldHolds == Spec => []ResultIsTold
<1>1. IInv => ResultIsTold
  <2> SUFFICES ASSUME IInv, NEW o \in Originates
               PROVE  /\ told[o] <= 1 /\ (told[o] = 1 => o \in named /\ Results(o) # {})
                      /\ o \in named /\ told[o] = 0 =>
                           Results(o) = {} \/ \E i \in Results(o) : Len(accepted) - i >= EarlyLimit
    BY DEF ResultIsTold
  <2>1. /\ told[o] = IF o \in named \ jobs THEN 1 ELSE 0
        /\ told[o] = 1 => Results(o) # {}
        /\ told[o] = 0 /\ Results(o) # {} => \E i \in Results(o) : GivenUp(i) \/ Remembered(o, i)
    BY DEF IInv, ResultsAreKept
  <2> QED BY <2>1 DEF GivenUp, Remembered
<1> QED BY <1>1, GatewayInvariance, PTL

-----------------------------------------------------------------------------
(***************************************************************************)
(* What leaves the system when a call is over: OutcomeDelivery, and that   *)
(* its committed outbox implements Outbox, for any number of calls,        *)
(* attempts, restarts and faults.                                          *)
(***************************************************************************)

\* What the proofs need about one entry: the row is behind the cache by at most the
\* save whose flush is awaited, and history agrees with both.
EntryBooks(c) ==
  /\ posts[c] <= row[c].attempts /\ row[c].attempts <= delivery[c].attempts
  /\ row[c].status \in {"delivered", "failed"} => delivery[c].status = row[c].status
  /\ delivery[c].status \in {"delivered", "failed"} => row[c].status # "none"
  /\ delivery[c].status = "none" => delivery[c].attempts = 0 /\ row[c].status = "none"
  /\ row[c].status = "none" => row[c].attempts = 0
  /\ c \in todo => delivery[c].status = "pending" /\ row[c].status = "pending"
  /\ c \in cur => delivery[c].status = "pending" /\ row[c].status = "pending"
  /\ c \in cur /\ pc = "committing" => posts[c] < delivery[c].attempts
History(c) ==
  /\ net[c] = "arrived" => got[c]
  /\ net[c] # "idle" => posts[c] > 0
  /\ delivery[c].status = "delivered" => got[c]
CallBooks(c) ==
  /\ callRow[c].over => call[c] = callRow[c]
  /\ delivery[c].status # "none" => call[c].over
  /\ row[c].status # "none" => callRow[c].over

DispatcherBooks ==
  /\ pc \notin {"committing", "posted"} => cur = {}
  /\ pc = "committing" => sent < Batch
  /\ cur \cap todo = {}

\* The inductive invariant of OutcomeDelivery.
DeliveryInv ==
  /\ OutcomeTypes /\ DispatcherBooks
  /\ \A c \in Calls : EntryBooks(c) /\ History(c) /\ CallBooks(c)

\* What the updates of an entry do to its fields.
LEMMA EntryUpdates ==
  ASSUME NEW e \in Entry
  PROVE  /\ \A s \in {"pending", "delivered", "failed"} :
              /\ WithStatus(e, s) \in Entry
              /\ WithStatus(e, s).status = s /\ WithStatus(e, s).attempts = e.attempts
         /\ DueNow(e) \in Entry /\ DueNow(e).status = e.status
         /\ DueNow(e).attempts = e.attempts
         /\ e.attempts < Limit => Tried(e) \in Entry
         /\ Tried(e).status = e.status /\ Tried(e).attempts = e.attempts + 1
         /\ e.status \in {"none", "pending", "delivered", "failed"} /\ e.attempts \in 0..Limit
<1> USE OutcomeAssumption DEF Entry
<1>1. \A s \in {"pending", "delivered", "failed"} :
        /\ WithStatus(e, s) \in Entry
        /\ WithStatus(e, s).status = s /\ WithStatus(e, s).attempts = e.attempts
  BY DEF WithStatus
<1>2. DueNow(e) \in Entry /\ DueNow(e).status = e.status /\ DueNow(e).attempts = e.attempts
  BY DEF DueNow
<1>3. e.attempts < Limit => Tried(e) \in Entry
  BY DEF Tried
<1>4. Tried(e).status = e.status /\ Tried(e).attempts = e.attempts + 1
  BY DEF Tried
<1> QED BY <1>1, <1>2, <1>3, <1>4

\* The entries every call begins with and gets.
LEMMA EntryValues ==
  /\ NoEntry \in Entry /\ NoEntry.status = "none" /\ NoEntry.attempts = 0
  /\ NewEntry \in Entry /\ NewEntry.status = "pending" /\ NewEntry.attempts = 0
  BY OutcomeAssumption DEF Entry, NoEntry, NewEntry

\* The initial state: nothing is over, announced or requested.
LEMMA DeliveryBegins == OutcomeInit => DeliveryInv
<1> SUFFICES ASSUME OutcomeInit PROVE DeliveryInv
  OBVIOUS
<1> USE OutcomeAssumption DEF OutcomeInit
<1>1. ProcessTypes
  BY DEF ProcessTypes
<1>2. BoundTypes
  BY DEF BoundTypes
<1>3. DispatcherTypes /\ NetworkTypes
  BY DEF DispatcherTypes, NetworkTypes
<1>4. StoreTypes
  BY EntryValues DEF StoreTypes, CallRecord
<1>5. DispatcherBooks
  BY DEF DispatcherBooks
<1>6. ASSUME NEW c \in Calls PROVE EntryBooks(c) /\ History(c) /\ CallBooks(c)
  BY EntryValues DEF EntryBooks, History, CallBooks
<1> QED BY <1>1, <1>2, <1>3, <1>4, <1>5, <1>6 DEF DeliveryInv, OutcomeTypes

\* The process keeps its types.
LEMMA ProcessStep == DeliveryInv /\ [OutcomeNext]_outcomeVars => ProcessTypes'
<1> SUFFICES ASSUME DeliveryInv, [OutcomeNext]_outcomeVars PROVE ProcessTypes'
  OBVIOUS
<1> USE OutcomeAssumption
        DEF DeliveryInv, OutcomeTypes, ProcessTypes, process, bounds, cache, rows, dispatcher, requests,
            Rejects, Returns
<1>1. CASE Tick
  BY <1>1 DEF Tick
<1>2. CASE List
  BY <1>2 DEF List
<1>3. CASE Saved
  BY <1>3 DEF Saved
<1>4. ASSUME NEW c \in Calls, GiveUp(c) PROVE ProcessTypes'
  BY <1>4 DEF GiveUp
<1>5. ASSUME NEW c \in Calls, Attempt(c) PROVE ProcessTypes'
  BY <1>5 DEF Attempt
<1>6. ASSUME NEW c \in Calls, Send(c) PROVE ProcessTypes'
  BY <1>6 DEF Send
<1>7. ASSUME NEW c \in Calls, Reply(c) PROVE ProcessTypes'
  BY <1>7 DEF Reply
<1>8. CASE StoreFails
  BY <1>8 DEF StoreFails
<1>9. CASE Crash
  BY <1>9 DEF Crash, Down
<1>10. CASE Shutdown
  BY <1>10 DEF Shutdown
<1>11. CASE Exit
  BY <1>11 DEF Exit, Down
<1>12. CASE Restart
  BY <1>12 DEF Restart
<1>13. ASSUME
        \/ TickDone \/ CommitWebhook \/ SetEndpoint \/ ClearEndpoint \/ UNCHANGED outcomeVars
        \/ \E c \in Calls : NotDue(c) \/ CommitCall(c) \/ CommitDelivery(c)
        \/ \E c \in Calls : CallEnds(c) \/ Elapse(c) \/ Arrive(c)
      PROVE  ProcessTypes'
  BY <1>13 DEF outcomeVars, TickDone, NotDue, CommitWebhook, CommitCall, CommitDelivery, SetEndpoint,
         ClearEndpoint, CallEnds, Elapse, Arrive
<1> QED BY <1>1, <1>2, <1>3, <1>4, <1>5, <1>6, <1>7, <1>8, <1>9, <1>10, <1>11, <1>12, <1>13
       DEF OutcomeNext, Dispatch, Commit

\* The bounded counters stay in their bounds.
LEMMA BoundStep == DeliveryInv /\ [OutcomeNext]_outcomeVars => BoundTypes'
<1> SUFFICES ASSUME DeliveryInv, [OutcomeNext]_outcomeVars PROVE BoundTypes'
  OBVIOUS
<1> USE OutcomeAssumption
        DEF DeliveryInv, OutcomeTypes, BoundTypes, process, bounds, cache, rows, dispatcher, requests,
            Rejects, Returns
<1>1. CASE StoreFails
  BY <1>1 DEF StoreFails
<1>2. CASE SetEndpoint
  BY <1>2 DEF SetEndpoint
<1>3. CASE Crash
  BY <1>3 DEF Crash, Down
<1>4. CASE Shutdown
  BY <1>4 DEF Shutdown
<1>5. CASE Exit
  BY <1>5 DEF Exit, Down
<1>6. ASSUME
        \/ Tick \/ List \/ TickDone \/ Saved \/ CommitWebhook
        \/ ClearEndpoint \/ Restart \/ UNCHANGED outcomeVars
        \/ \E c \in Calls : NotDue(c) \/ GiveUp(c) \/ Attempt(c)
        \/ \E c \in Calls : Send(c) \/ Reply(c) \/ CommitCall(c) \/ CommitDelivery(c) \/ CallEnds(c) \/ Elapse(c) \/ Arrive(c)
      PROVE  BoundTypes'
  BY <1>6 DEF outcomeVars, Tick, List, TickDone, Saved, NotDue, GiveUp, Attempt, Send, Reply,
         CommitWebhook, CommitCall, CommitDelivery, ClearEndpoint, Restart, CallEnds,
         Elapse, Arrive
<1> QED BY <1>1, <1>2, <1>3, <1>4, <1>5, <1>6
       DEF OutcomeNext, Dispatch, Commit

\* Records keep their types, in memory and committed.
LEMMA StoreTypeStep == DeliveryInv /\ [OutcomeNext]_outcomeVars => StoreTypes'
<1> SUFFICES ASSUME DeliveryInv, [OutcomeNext]_outcomeVars PROVE StoreTypes'
  OBVIOUS
<1> USE OutcomeAssumption, EntryUpdates, EntryValues
        DEF DeliveryInv, OutcomeTypes, StoreTypes, BoundTypes, process, bounds, cache, rows, dispatcher,
            requests, Rejects, Returns
<1>1. CASE Tick
  BY <1>1 DEF Tick, Announces
<1>2. ASSUME NEW c \in Calls, GiveUp(c) PROVE StoreTypes'
  BY <1>2 DEF GiveUp
<1>3. ASSUME NEW c \in Calls, Attempt(c) PROVE StoreTypes'
  BY <1>3 DEF Attempt, Spent, StopsHere
<1>4. ASSUME NEW c \in Calls, Reply(c) PROVE StoreTypes'
  BY <1>4 DEF Reply, Acknowledged, Result
<1>5. CASE CommitWebhook
  BY <1>5 DEF CommitWebhook
<1>6. ASSUME NEW c \in Calls, CommitCall(c) PROVE StoreTypes'
  BY <1>6 DEF CommitCall
<1>7. ASSUME NEW c \in Calls, CommitDelivery(c) PROVE StoreTypes'
  BY <1>7 DEF CommitDelivery
<1>8. CASE SetEndpoint
  BY <1>8 DEF SetEndpoint
<1>9. CASE ClearEndpoint
  BY <1>9 DEF ClearEndpoint
<1>10. CASE Crash
  BY <1>10 DEF Crash, Down
<1>11. CASE Exit
  BY <1>11 DEF Exit, Down
<1>12. ASSUME NEW c \in Calls, CallEnds(c) PROVE StoreTypes'
  BY <1>12 DEF CallEnds, CallRecord
<1>13. ASSUME NEW c \in Calls, Elapse(c) PROVE StoreTypes'
  BY <1>13 DEF Elapse
<1>14. ASSUME
        \/ List \/ TickDone \/ Saved \/ StoreFails \/ Shutdown
        \/ Restart \/ UNCHANGED outcomeVars
        \/ \E c \in Calls : NotDue(c) \/ Send(c) \/ Arrive(c)
      PROVE  StoreTypes'
  BY <1>14 DEF outcomeVars, List, TickDone, Saved, NotDue, Send, StoreFails, Shutdown, Restart,
         Arrive
<1> QED BY <1>1, <1>2, <1>3, <1>4, <1>5, <1>6, <1>7, <1>8, <1>9, <1>10, <1>11, <1>12, <1>13, <1>14
       DEF OutcomeNext, Dispatch, Commit

\* The dispatcher keeps its types.
LEMMA DispatcherTypeStep == DeliveryInv /\ [OutcomeNext]_outcomeVars => DispatcherTypes'
<1> SUFFICES ASSUME DeliveryInv, [OutcomeNext]_outcomeVars PROVE DispatcherTypes'
  OBVIOUS
<1> USE OutcomeAssumption
        DEF DeliveryInv, OutcomeTypes, DispatcherTypes, DispatcherBooks, process, bounds, cache, rows,
            dispatcher, requests, Rejects, Returns
<1>1. CASE Tick
  BY <1>1 DEF Tick, Announces
<1>2. CASE List
  BY <1>2 DEF List, Flushed, Pending
<1>3. CASE TickDone
  BY <1>3 DEF TickDone
<1>4. CASE Saved
  BY <1>4 DEF Saved
<1>5. ASSUME NEW c \in Calls, NotDue(c) PROVE DispatcherTypes'
  BY <1>5 DEF NotDue
<1>6. ASSUME NEW c \in Calls, GiveUp(c) PROVE DispatcherTypes'
  BY <1>6 DEF GiveUp
<1>7. ASSUME NEW c \in Calls, Attempt(c) PROVE DispatcherTypes'
  BY <1>7 DEF Attempt, Spent, StopsHere
<1>8. ASSUME NEW c \in Calls, Send(c) PROVE DispatcherTypes'
  BY <1>8 DEF Send, MayPost, Flushed
<1>9. ASSUME NEW c \in Calls, Reply(c) PROVE DispatcherTypes'
  BY <1>9 DEF Reply, Acknowledged, Result
<1>10. CASE Crash
  BY <1>10 DEF Crash, Down
<1>11. CASE Exit
  BY <1>11 DEF Exit, Down
<1>12. ASSUME
        \/ CommitWebhook \/ StoreFails \/ SetEndpoint \/ ClearEndpoint \/ Shutdown
        \/ Restart \/ UNCHANGED outcomeVars
        \/ \E c \in Calls : CommitCall(c) \/ CommitDelivery(c) \/ CallEnds(c)
        \/ \E c \in Calls : Elapse(c) \/ Arrive(c)
      PROVE  DispatcherTypes'
  BY <1>12 DEF outcomeVars, CommitWebhook, CommitCall, CommitDelivery, StoreFails, SetEndpoint,
         ClearEndpoint, Shutdown, Restart, CallEnds, Elapse, Arrive
<1> QED BY <1>1, <1>2, <1>3, <1>4, <1>5, <1>6, <1>7, <1>8, <1>9, <1>10, <1>11, <1>12
       DEF OutcomeNext, Dispatch, Commit

\* So does the network: the committed attempts bound the requests.
LEMMA NetworkStep == DeliveryInv /\ [OutcomeNext]_outcomeVars => NetworkTypes'
<1> SUFFICES ASSUME DeliveryInv, [OutcomeNext]_outcomeVars PROVE NetworkTypes'
  OBVIOUS
<1> USE OutcomeAssumption DEF DeliveryInv, OutcomeTypes, NetworkTypes, requests
<1>1. ASSUME NEW c \in Calls, Send(c) PROVE NetworkTypes'
  <2>1. CASE UNCHANGED requests
    BY <2>1
  <2>2. CASE ~ UNCHANGED requests
    <3>1. /\ pc = "committing" /\ c \in cur
          /\ net' = [net EXCEPT ![c] = "flying"]
          /\ posts' = [posts EXCEPT ![c] = @ + 1] /\ got' = got
      BY <1>1, <2>2 DEF Send
    <3>2. posts[c] < delivery[c].attempts /\ delivery[c].attempts \in 0..Limit
      BY <3>1, EntryUpdates DEF EntryBooks, StoreTypes
    <3>3. posts[c] + 1 \in 0..Limit
      BY <3>2
    <3> QED BY <3>1, <3>3
  <2> QED BY <2>1, <2>2
<1>2. ASSUME NEW c \in Calls, Arrive(c) PROVE NetworkTypes'
  BY <1>2 DEF Arrive
<1>3. ASSUME
        \/ Tick \/ List \/ TickDone \/ Saved \/ CommitWebhook
        \/ StoreFails \/ SetEndpoint \/ ClearEndpoint \/ Crash \/ Shutdown
        \/ Exit \/ Restart \/ UNCHANGED outcomeVars
        \/ \E c \in Calls : NotDue(c) \/ GiveUp(c) \/ Attempt(c)
        \/ \E c \in Calls : Reply(c) \/ CommitCall(c) \/ CommitDelivery(c) \/ CallEnds(c) \/ Elapse(c)
      PROVE  UNCHANGED requests
  BY <1>3 DEF outcomeVars, Tick, List, TickDone, Saved, NotDue, GiveUp, Attempt, Reply,
         CommitWebhook, CommitCall, CommitDelivery, StoreFails, SetEndpoint, ClearEndpoint,
         Crash, Down, Shutdown, Exit, Restart, CallEnds, Elapse
<1>4. UNCHANGED requests => NetworkTypes'
  OBVIOUS
<1> QED BY <1>1, <1>2, <1>3, <1>4
       DEF OutcomeNext, Dispatch, Commit

\* The dispatcher has one current delivery, and only around its request.
LEMMA DispatcherStep == DeliveryInv /\ [OutcomeNext]_outcomeVars => DispatcherBooks'
<1> SUFFICES ASSUME DeliveryInv, [OutcomeNext]_outcomeVars PROVE DispatcherBooks'
  OBVIOUS
<1> USE OutcomeAssumption
        DEF DeliveryInv, OutcomeTypes, DispatcherTypes, DispatcherBooks, process, bounds, cache, rows,
            dispatcher, requests, Rejects, Returns
<1>1. CASE Tick
  BY <1>1 DEF Tick, Announces
<1>2. CASE List
  BY <1>2 DEF List, Flushed, Pending
<1>3. CASE TickDone
  BY <1>3 DEF TickDone
<1>4. CASE Saved
  BY <1>4 DEF Saved
<1>5. ASSUME NEW c \in Calls, NotDue(c) PROVE DispatcherBooks'
  BY <1>5 DEF NotDue
<1>6. ASSUME NEW c \in Calls, GiveUp(c) PROVE DispatcherBooks'
  BY <1>6 DEF GiveUp
<1>7. ASSUME NEW c \in Calls, Attempt(c) PROVE DispatcherBooks'
  BY <1>7 DEF Attempt, Spent, StopsHere
<1>8. ASSUME NEW c \in Calls, Send(c) PROVE DispatcherBooks'
  BY <1>8 DEF Send, MayPost, Flushed
<1>9. ASSUME NEW c \in Calls, Reply(c) PROVE DispatcherBooks'
  BY <1>9 DEF Reply, Acknowledged, Result
<1>10. CASE Crash
  BY <1>10 DEF Crash, Down
<1>11. CASE Exit
  BY <1>11 DEF Exit, Down
<1>12. ASSUME
        \/ CommitWebhook \/ StoreFails \/ SetEndpoint \/ ClearEndpoint \/ Shutdown
        \/ Restart \/ UNCHANGED outcomeVars
        \/ \E c \in Calls : CommitCall(c) \/ CommitDelivery(c) \/ CallEnds(c)
        \/ \E c \in Calls : Elapse(c) \/ Arrive(c)
      PROVE  DispatcherBooks'
  BY <1>12 DEF outcomeVars, CommitWebhook, CommitCall, CommitDelivery, StoreFails, SetEndpoint,
         ClearEndpoint, Shutdown, Restart, CallEnds, Elapse, Arrive
<1> QED BY <1>1, <1>2, <1>3, <1>4, <1>5, <1>6, <1>7, <1>8, <1>9, <1>10, <1>11, <1>12
       DEF OutcomeNext, Dispatch, Commit

\* The books of every call survive every step.
LEMMA BooksStep ==
  ASSUME DeliveryInv, [OutcomeNext]_outcomeVars, OutcomeTypes', NEW d \in Calls
  PROVE  EntryBooks(d)' /\ History(d)' /\ CallBooks(d)'
<1> USE OutcomeAssumption, EntryUpdates, EntryValues
        DEF DeliveryInv, OutcomeTypes, StoreTypes, DispatcherTypes, NetworkTypes, DispatcherBooks,
            EntryBooks, History, CallBooks, process, bounds, cache, rows,
            dispatcher, requests, Rejects, Returns
<1>1. CASE Tick
  BY <1>1 DEF Tick, Announces
<1>2. CASE List
  BY <1>2 DEF List, Flushed, Pending
<1>3. CASE TickDone
  BY <1>3 DEF TickDone
<1>4. CASE Saved
  BY <1>4 DEF Saved
<1>5. ASSUME NEW c \in Calls, NotDue(c) PROVE EntryBooks(d)' /\ History(d)' /\ CallBooks(d)'
  BY <1>5 DEF NotDue
<1>6. ASSUME NEW c \in Calls, GiveUp(c) PROVE EntryBooks(d)' /\ History(d)' /\ CallBooks(d)'
  BY <1>6 DEF GiveUp
<1>7. ASSUME NEW c \in Calls, Attempt(c) PROVE EntryBooks(d)' /\ History(d)' /\ CallBooks(d)'
  BY <1>7 DEF Attempt, Spent, StopsHere
<1>8. ASSUME NEW c \in Calls, Send(c) PROVE EntryBooks(d)' /\ History(d)' /\ CallBooks(d)'
  BY <1>8 DEF Send, MayPost, Flushed
<1>9. ASSUME NEW c \in Calls, Reply(c) PROVE EntryBooks(d)' /\ History(d)' /\ CallBooks(d)'
  BY <1>9 DEF Reply, Acknowledged, Result
<1>10. ASSUME NEW c \in Calls, CommitCall(c) PROVE EntryBooks(d)' /\ History(d)' /\ CallBooks(d)'
  BY <1>10 DEF CommitCall
<1>11. ASSUME NEW c \in Calls, CommitDelivery(c) PROVE EntryBooks(d)' /\ History(d)' /\ CallBooks(d)'
  BY <1>11 DEF CommitDelivery
<1>12. CASE Crash
  BY <1>12 DEF Crash, Down
<1>13. CASE Exit
  BY <1>13 DEF Exit, Down
<1>14. ASSUME NEW c \in Calls, CallEnds(c) PROVE EntryBooks(d)' /\ History(d)' /\ CallBooks(d)'
  BY <1>14 DEF CallEnds, CallRecord
<1>15. ASSUME NEW c \in Calls, Elapse(c) PROVE EntryBooks(d)' /\ History(d)' /\ CallBooks(d)'
  BY <1>15 DEF Elapse
<1>16. ASSUME NEW c \in Calls, Arrive(c) PROVE EntryBooks(d)' /\ History(d)' /\ CallBooks(d)'
  BY <1>16 DEF Arrive
<1>17. ASSUME
        \/ CommitWebhook \/ StoreFails \/ SetEndpoint \/ ClearEndpoint \/ Shutdown
        \/ Restart \/ UNCHANGED outcomeVars
      PROVE  EntryBooks(d)' /\ History(d)' /\ CallBooks(d)'
  BY <1>17 DEF outcomeVars, CommitWebhook, StoreFails, SetEndpoint, ClearEndpoint, Shutdown, Restart
<1> QED BY <1>1, <1>2, <1>3, <1>4, <1>5, <1>6, <1>7, <1>8, <1>9, <1>10, <1>11, <1>12, <1>13, <1>14,
           <1>15, <1>16, <1>17
       DEF OutcomeNext, Dispatch, Commit

LEMMA IInvStep == DeliveryInv /\ [OutcomeNext]_outcomeVars => DeliveryInv'
<1> SUFFICES ASSUME DeliveryInv, [OutcomeNext]_outcomeVars PROVE DeliveryInv'
  OBVIOUS
<1>1. OutcomeTypes' /\ DispatcherBooks'
  BY ProcessStep, BoundStep, StoreTypeStep, DispatcherTypeStep, NetworkStep, DispatcherStep
     DEF OutcomeTypes
<1>2. \A d \in Calls : (EntryBooks(d) /\ History(d) /\ CallBooks(d))'
  BY <1>1, BooksStep
<1> QED BY <1>1, <1>2 DEF DeliveryInv

\* The inductive invariant holds for any number of calls, attempts, restarts and faults
\* (OutcomeDispatcher.dispatch, PrismaStore).
THEOREM OutcomeInvariance == OutcomeSpec => []DeliveryInv
  BY DeliveryBegins, IInvStep, PTL DEF OutcomeSpec

\* Every request was committed as an attempt before it was made (dispatch(): flush, then
\* fetch), so no crash lets a delivery be requested more than Limit times.
THEOREM PostsOnRecordHolds == OutcomeSpec => []PostsOnRecord
<1>1. DeliveryInv => PostsOnRecord
  BY DEF DeliveryInv, EntryBooks, PostsOnRecord
<1> QED BY <1>1, OutcomeInvariance, PTL

\* An announced outcome belongs to a call whose terminal record is committed.
THEOREM AnnouncedIsOverHolds == OutcomeSpec => []AnnouncedIsOver
<1>1. DeliveryInv => AnnouncedIsOver
  BY DEF DeliveryInv, CallBooks, AnnouncedIsOver
<1> QED BY <1>1, OutcomeInvariance, PTL

-----------------------------------------------------------------------------
(* The refinement *)

\* Only five actions touch the rows of deliveries, the requests or the recipient.
LEMMA OutboxStep == DeliveryInv /\ [OutcomeNext]_outcomeVars => [Promise!ObNext]_(Promise!obVars)
<1> SUFFICES ASSUME DeliveryInv, [OutcomeNext]_outcomeVars PROVE [Promise!ObNext]_(Promise!obVars)
  OBVIOUS
<1> USE OutcomeAssumption DEF Promise!obVars
<1>1. ASSUME NEW c \in Calls, CommitDelivery(c) PROVE [Promise!ObNext]_(Promise!obVars)
  <2>1. UNCHANGED <<posts, got>> /\ row' = [row EXCEPT ![c] = delivery[c]]
    BY <1>1 DEF CommitDelivery, requests
  <2>2. [d \in Calls |-> row'[d].status]
          = [[d \in Calls |-> row[d].status] EXCEPT ![c] = delivery[c].status]
    BY <2>1 DEF DeliveryInv, OutcomeTypes, StoreTypes
  <2>3. CASE delivery[c].status = row[c].status
    BY <2>1, <2>2, <2>3 DEF DeliveryInv, OutcomeTypes, StoreTypes
  <2>4. CASE row[c].status = "none" /\ delivery[c].status # "none"
    <3>1. delivery[c].status = "pending"
      BY <2>4 DEF DeliveryInv, OutcomeTypes, StoreTypes, EntryBooks, Entry
    <3>2. Promise!Announce(c)
      BY <2>1, <2>2, <2>4, <3>1 DEF Promise!Announce
    <3> QED BY <3>2 DEF Promise!ObNext
  <2>5. CASE row[c].status = "pending" /\ delivery[c].status # "pending"
    <3>1. delivery[c].status \in {"none", "delivered", "failed"}
      BY <2>5 DEF DeliveryInv, OutcomeTypes, StoreTypes, Entry
    <3>2. delivery[c].status # "none"
      BY <2>5 DEF DeliveryInv, EntryBooks
    <3>3. delivery[c].status = "delivered" => got[c]
      BY DEF DeliveryInv, History
    <3>4. Promise!Settle(c)
      BY <2>1, <2>2, <2>5, <3>1, <3>2, <3>3 DEF Promise!Settle
    <3> QED BY <3>4 DEF Promise!ObNext
  <2> QED BY <2>3, <2>4, <2>5 DEF DeliveryInv, OutcomeTypes, StoreTypes, EntryBooks, Entry
<1>2. ASSUME NEW c \in Calls, Send(c) PROVE [Promise!ObNext]_(Promise!obVars)
  <2>1. CASE UNCHANGED requests
    BY <1>2, <2>1 DEF Send, rows, requests
  <2>2. CASE ~ UNCHANGED requests
    <3>1. MayPost /\ posts' = [posts EXCEPT ![c] = @ + 1] /\ got' = got /\ row' = row
          /\ c \in cur /\ pc = "committing"
      BY <1>2, <2>2 DEF Send, rows
    <3>2. row[c].status = "pending" /\ posts[c] < Limit
      BY <3>1 DEF DeliveryInv, OutcomeTypes, StoreTypes, NetworkTypes, Entry, EntryBooks
    <3>3. Promise!Post(c)
      BY <3>1, <3>2 DEF Promise!Post
    <3> QED BY <3>3 DEF Promise!ObNext
  <2> QED BY <2>1, <2>2
<1>3. ASSUME NEW c \in Calls, Arrive(c) PROVE [Promise!ObNext]_(Promise!obVars)
  <2>1. posts[c] > 0 /\ got' = [got EXCEPT ![c] = TRUE] /\ UNCHANGED <<row, posts>>
    BY <1>3 DEF Arrive, rows, DeliveryInv, History
  <2>2. Promise!Accept(c)
    BY <2>1 DEF Promise!Accept
  <2> QED BY <2>2 DEF Promise!ObNext
<1>4. ASSUME NEW c \in Calls, Elapse(c) PROVE UNCHANGED Promise!obVars
  <2>1. \A d \in Calls : row'[d].status = row[d].status
    BY <1>4, EntryUpdates DEF Elapse, DeliveryInv, OutcomeTypes, StoreTypes
  <2> QED BY <1>4, <2>1 DEF Elapse, requests
<1>5. ASSUME NEW c \in Calls,
             CallEnds(c) \/ CommitCall(c) \/ NotDue(c) \/ GiveUp(c) \/ Attempt(c) \/ Reply(c)
      PROVE UNCHANGED Promise!obVars
  BY <1>5 DEF CallEnds, CommitCall, NotDue, GiveUp, Attempt, Reply, rows, requests
<1>6. ASSUME \/ Tick \/ List \/ TickDone \/ Saved \/ CommitWebhook \/ StoreFails
             \/ SetEndpoint \/ ClearEndpoint \/ Shutdown \/ Restart \/ UNCHANGED outcomeVars
      PROVE UNCHANGED Promise!obVars
  BY <1>6 DEF Tick, List, TickDone, Saved, CommitWebhook, StoreFails, SetEndpoint, ClearEndpoint,
              Shutdown, Restart, outcomeVars, rows, requests
<1>7. ASSUME Crash \/ Exit PROVE UNCHANGED Promise!obVars
  BY <1>7 DEF Crash, Exit, Down, rows, requests
<1> QED BY <1>1, <1>2, <1>3, <1>4, <1>5, <1>6, <1>7 DEF OutcomeNext, Dispatch, Commit

LEMMA OutboxInit == OutcomeInit => Promise!ObInit
  BY DEF OutcomeInit, Promise!ObInit, NoEntry

\* The committed outbox implements Outbox, over all crashes and restarts: one settled
\* result per call, delivered only if the recipient accepted a request.
THEOREM OutboxRefinement == OutcomeSpec => ImplementsOutbox
  BY OutboxInit, OutboxStep, OutcomeInvariance, PTL DEF OutcomeSpec, ImplementsOutbox, Promise!ObSpec
=============================================================================
