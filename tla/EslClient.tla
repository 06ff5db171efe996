----------------------------- MODULE EslClient -----------------------------
(***************************************************************************)
(* The event-socket connection to FreeSWITCH: EslClient (server/esl.ts).   *)
(* Commands are serialised through a chain of promises, written on one     *)
(* authenticated socket, answered in order and never replayed; a lost      *)
(* socket rejects the command in flight and is replaced after a delay.     *)
(*                                                                         *)
(* Node reports a failed or destroyed socket twice: 'error', and later,    *)
(* when its handle is closed, 'close'.  Promise continuations run between  *)
(* the two.  The gateway runs a command it received, even when the socket  *)
(* it came by is gone.                                                     *)
(***************************************************************************)
EXTENDS Naturals, Sequences, FiniteSets

CONSTANTS
  Commands,      \* commands issued, each once
  MaxSockets,    \* bound on connection attempts; the last one succeeds and holds
  None

ASSUME SocketAssumption == MaxSockets \in Nat \ {0}
ASSUME NoneIsNothing == None \notin Commands

VARIABLES
  \* fields of the client; a socket is a number, 0 is none
  socket, ready, connecting, timer, closed, pending,   \* timer: how many are armed
  sock,       \* per socket: "new", "opening", "ready", "destroyed" ('close' still to come), "closed"
  connected,  \* the promise of its connection: "pending", "resolved", "rejected"
  queue,      \* commands whose promise is not settled, in order; the head is the one that runs
  cmd,        \* "none", "queued", "connecting", "preparing", "written", and then the outcome
  awaits,     \* the socket whose connection the head awaits
  wire,       \* per command, at the gateway: "none", "sent", "ok" or "rejected" (its reply is
              \* on the way), "over"
  via,        \* the socket a command was written on
  ran,        \* how often the gateway ran it (history)
  answer      \* the command whose reply settled it (history)

fields == <<socket, ready, connecting, timer, closed, pending>>
chain == <<queue, cmd, awaits, answer>>
network == <<wire, via, ran>>
client == <<fields, sock, connected, chain, network>>

Sockets == 1..MaxSockets
Outcomes == {"ok", "rejected", "unsent", "unknown"}

ClientTypeOK ==
  /\ socket \in Sockets \union {0} /\ connecting \in Sockets \union {0}
  /\ ready \in BOOLEAN /\ timer \in Nat /\ closed \in BOOLEAN
  /\ pending \in Commands \union {None}
  /\ sock \in [Sockets -> {"new", "opening", "ready", "destroyed", "closed"}]
  /\ connected \in [Sockets -> {"pending", "resolved", "rejected"}]
  /\ queue \in Seq(Commands)
  /\ cmd \in [Commands -> {"none", "queued", "connecting", "preparing", "written"} \union Outcomes]
  /\ awaits \in Sockets \union {0}
  /\ wire \in [Commands -> {"none", "sent", "ok", "rejected", "over"}]
  /\ via \in [Commands -> Sockets \union {0}]
  /\ ran \in [Commands -> Nat]
  /\ answer \in [Commands -> Commands \union {None}]

ClientInit ==
  /\ socket = 0 /\ ready = FALSE /\ connecting = 0 /\ timer = 0 /\ closed = FALSE
  /\ pending = None
  /\ sock = [s \in Sockets |-> "new"] /\ connected = [s \in Sockets |-> "pending"]
  /\ queue = <<>> /\ cmd = [c \in Commands |-> "none"] /\ awaits = 0
  /\ wire = [c \in Commands |-> "none"] /\ via = [c \in Commands |-> 0]
  /\ ran = [c \in Commands |-> 0] /\ answer = [c \in Commands |-> None]

Runs(c) == queue # <<>> /\ c = Head(queue)
Settles(c, outcome) ==
  /\ queue' = Tail(queue) /\ cmd' = [cmd EXCEPT ![c] = outcome] /\ awaits' = 0

-----------------------------------------------------------------------------
(* connect() and the events of a socket. *)

Fresh(s) == sock[s] = "new" /\ \A r \in 1..(s - 1) : sock[r] # "new"

Fewer(timers) == IF timers = 0 THEN 0 ELSE timers - 1

\* A new socket takes the place of whatever this.socket was; of the armed timers the one
\* that is still remembered is cleared.
Opens(s, timers) ==
  /\ Fresh(s)
  /\ sock' = [sock EXCEPT ![s] = "opening"]
  /\ socket' = s /\ connecting' = s /\ timer' = Fewer(timers)

\* Authenticated and subscribed: connect() resolves.  That takes several turns of the event
\* loop, the 'close' of an older socket comes in the turn of its 'error'.
SocketReady(s) ==
  /\ sock[s] = "opening" /\ \A r \in Sockets : sock[r] # "destroyed"
  /\ sock' = [sock EXCEPT ![s] = "ready"] /\ connected' = [connected EXCEPT ![s] = "resolved"]
  /\ ready' = TRUE /\ connecting' = (IF connecting = s THEN 0 ELSE connecting)
  /\ UNCHANGED <<socket, timer, closed, pending, chain, network>>

RequeuesPending ==                                                    \* mutant
  /\ pending' = None /\ UNCHANGED <<queue, awaits, answer>>
  /\ cmd' = IF pending = None THEN cmd ELSE [cmd EXCEPT ![pending] = "queued"]
\* fail(): the promise of the connection and the command in flight are rejected.
RejectsPending ==
  IF pending = None
  THEN UNCHANGED <<pending, chain>>
  ELSE pending' = None /\ Settles(pending, "unknown") /\ UNCHANGED answer
FailsConnectionOnly(s) ==                                             \* mutant
  /\ connected' = [connected EXCEPT ![s] = IF @ = "pending" THEN "rejected" ELSE @]
  /\ UNCHANGED <<pending, chain>>
Fails(s) ==
  /\ connected' = [connected EXCEPT ![s] = IF @ = "pending" THEN "rejected" ELSE @]
  /\ RejectsPending

MayFail(s) == s < MaxSockets \/ closed

\* 'error': the network, the authentication and its time-out, an invalid frame, a notice of
\* disconnection, the time-out of a command.
SocketFails(s) ==
  /\ sock[s] \in {"opening", "ready"} /\ MayFail(s)
  /\ sock' = [sock EXCEPT ![s] = "destroyed"]
  /\ Fails(s) /\ connecting' = (IF connecting = s THEN 0 ELSE connecting)
  /\ UNCHANGED <<socket, ready, timer, closed, network>>

Rearms == timer' = IF closed THEN timer ELSE timer + 1

\* 'close': after an error, or because the gateway ended the session.
SocketCloses(s) ==
  /\ sock[s] = "destroyed" \/ (sock[s] \in {"opening", "ready"} /\ MayFail(s))
  /\ sock' = [sock EXCEPT ![s] = "closed"]
  /\ ready' = FALSE /\ socket' = 0 /\ Rearms
  /\ Fails(s) /\ connecting' = (IF connecting = s THEN 0 ELSE connecting)
  /\ UNCHANGED <<closed, network>>

\* connect() of the timer returns at once when there is, or will be, a connection.
Reconnects ==
  /\ timer > 0
  /\ IF closed \/ ready \/ connecting # 0
     THEN timer' = timer - 1 /\ UNCHANGED <<sock, socket, connecting>>
     ELSE \E s \in Sockets : Opens(s, timer - 1)
  /\ UNCHANGED <<ready, closed, pending, connected, chain, network>>

Close ==
  /\ ~closed /\ closed' = TRUE /\ ready' = FALSE /\ timer' = Fewer(timer)
  /\ sock' = [s \in Sockets |-> IF s = socket /\ sock[s] \in {"opening", "ready"}
                                THEN "destroyed" ELSE sock[s]]
  /\ RejectsPending
  /\ UNCHANGED <<socket, connecting, connected, network>>

-----------------------------------------------------------------------------
(* command(): the head of the chain. *)

Issue(c) ==
  /\ cmd[c] = "none"
  /\ cmd' = [cmd EXCEPT ![c] = "queued"] /\ queue' = Append(queue, c)
  /\ UNCHANGED <<fields, sock, connected, awaits, answer, network>>

At(c, step) == cmd' = [cmd EXCEPT ![c] = step] /\ UNCHANGED <<queue, answer>>

\* await this.connect()
HeadConnects(c) ==
  /\ Runs(c) /\ cmd[c] = "queued"
  /\ \/ /\ closed /\ Settles(c, "unsent") /\ UNCHANGED <<answer, fields, sock>>
     \/ /\ ~closed /\ ready /\ At(c, "preparing") /\ UNCHANGED <<fields, sock, awaits>>
     \/ /\ ~closed /\ ~ready /\ connecting # 0
        /\ At(c, "connecting") /\ awaits' = connecting /\ UNCHANGED <<fields, sock>>
     \/ /\ ~closed /\ ~ready /\ connecting = 0
        /\ \E s \in Sockets : Opens(s, timer) /\ awaits' = s
        /\ At(c, "connecting") /\ UNCHANGED <<ready, closed, pending>>
  /\ UNCHANGED <<connected, network>>

HeadConnected(c) ==
  /\ Runs(c) /\ cmd[c] = "connecting"
  /\ \/ connected[awaits] = "resolved" /\ At(c, "preparing") /\ awaits' = 0
     \/ connected[awaits] = "rejected" /\ Settles(c, "unsent") /\ UNCHANGED answer
  /\ UNCHANGED <<fields, sock, connected, network>>

\* The check before the write: there is a connection, and the guard does not throw.
MayWrite == ready /\ socket # 0 /\ ~closed

Writes(c) ==
  /\ Runs(c) /\ cmd[c] = "preparing" /\ MayWrite
  /\ At(c, "written") /\ pending' = c
  /\ IF sock[socket] = "ready"
     THEN wire' = [wire EXCEPT ![c] = "sent"] /\ via' = [via EXCEPT ![c] = socket]
     ELSE UNCHANGED <<wire, via>>
  /\ UNCHANGED <<socket, ready, connecting, timer, closed, sock, connected, awaits, ran>>

\* Disconnected before the write, or prepare() or check() of the guard refuses.
Withdraws(c) ==
  /\ Runs(c) /\ cmd[c] = "preparing"
  /\ Settles(c, "unsent")
  /\ UNCHANGED <<fields, sock, connected, answer, network>>

\* A reply settles whatever command is pending; without one the connection is invalid.
Replies(c) ==
  /\ wire[c] \in {"ok", "rejected"} /\ sock[via[c]] = "ready"
  /\ wire' = [wire EXCEPT ![c] = "over"]
  /\ IF pending # None
     THEN /\ Settles(pending, wire[c]) /\ pending' = None
          /\ answer' = [answer EXCEPT ![pending] = c]
          /\ UNCHANGED <<connecting, sock, connected>>
     ELSE /\ sock' = [sock EXCEPT ![via[c]] = "destroyed"] /\ Fails(via[c])
          /\ connecting' = (IF connecting = via[c] THEN 0 ELSE connecting)
  /\ UNCHANGED <<socket, ready, timer, closed, via, ran>>

-----------------------------------------------------------------------------
(* The gateway (external). *)

GatewayRuns(c, outcome) ==
  /\ wire[c] = "sent"
  /\ ran' = [ran EXCEPT ![c] = @ + 1]
  /\ wire' = [wire EXCEPT ![c] = outcome]
  /\ UNCHANGED <<fields, sock, connected, chain, via>>

\* The command, or its reply, was on a socket that is gone.
GatewayLoses(c) ==
  /\ wire[c] \in {"sent", "ok", "rejected"} /\ sock[via[c]] # "ready"
  /\ wire' = [wire EXCEPT ![c] = "over"]
  /\ UNCHANGED <<fields, sock, connected, chain, via, ran>>

HeadSteps(c) == HeadConnects(c) \/ HeadConnected(c) \/ Writes(c) \/ Withdraws(c)
ClientStep ==
  \/ \E s \in Sockets : SocketReady(s) \/ SocketFails(s) \/ SocketCloses(s)
  \/ Reconnects \/ Close
  \/ \E c \in Commands :
       Issue(c) \/ HeadSteps(c)

-----------------------------------------------------------------------------
(* Properties. *)

\* A command that resolved or was refused by FreeSWITCH was answered by its own reply and ran
\* once; one that was withdrawn before the write never runs, not even after a reconnection;
\* none runs twice.  (command, rejectPending)
CommandsRunAsReported ==
  \A c \in Commands :
    /\ ran[c] <= 1
    /\ cmd[c] \in {"ok", "rejected"} => answer[c] = c /\ ran[c] = 1
    /\ cmd[c] = "unsent" => wire[c] = "none"
=============================================================================
