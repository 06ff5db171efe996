--------------------------- MODULE CallLifecycle ---------------------------
(***************************************************************************)
(* The life of an outbound call, from the request that reserves a trunk    *)
(* slot to the terminal record that frees it: CallOrchestrator             *)
(* (server/orchestrator.ts) over the write-behind PrismaStore and the      *)
(* FreeSWITCH gateway it drives through one ESL connection.                *)
(*                                                                         *)
(* The API process runs one JavaScript statement sequence at a time, so    *)
(* an action is the code between two awaits and every await is a place     *)
(* where any other handler, timer, event, connection change or crash may   *)
(* come first.  pendingStarts is incremented and decremented between the   *)
(* same two awaits, so it is zero whenever anybody else runs and is not a  *)
(* variable.  ESL commands are issued in any order here (the queue of      *)
(* esl.ts is FIFO), which only adds behaviours.                            *)
(***************************************************************************)
EXTENDS Naturals, FiniteSets

CONSTANTS
  Calls,             \* the call identifiers start() will draw, one dial each
  Ceiling,           \* min(5, maxConcurrentCalls)
  Evidence,          \* ids of the permission records the destination may have
  None,              \* "no value"; not an Evidence
  Conversational,    \* TRUE: flows have listen nodes, so turns are taken
  MaxChanges,        \* bound on changes of the permission record in force
  MaxDrops,          \* bound on ESL connection losses
  MaxCrashes,        \* bound on process exits that are not a failed boot
  MaxStoreFailures   \* bound on failed database transactions

ASSUME CeilingAssumption == Ceiling \in 1..5
ASSUME SwitchAssumption == Conversational \in BOOLEAN
ASSUME BoundAssumption == MaxChanges \in Nat /\ MaxDrops \in Nat /\ MaxCrashes \in Nat /\ MaxStoreFailures \in Nat
ASSUME CallsAssumption == IsFiniteSet(Calls)

\* Why a call is over.  The reason fixes whether the status is ended or failed.
Reasons == {"START_FAILED", "NO_ANSWER", "ALLOTTED_TIMEOUT", "AUTOMATION_FAILED",
            "FLOW_COMPLETED", "STOPPED", "INTERRUPTED", "SERVICE_SHUTDOWN",
            "HANGUP", "ORIGINATE_FAILED"}

ASSUME NoneAssumption == None \notin Evidence /\ None \notin Calls /\ None \notin Reasons

VARIABLES
  phase,       \* of the process: "down", "booting" (initialize), "serving"
  stop,        \* shutdown: "no", "begun" (stopping), "draining" (finish sent)
  reconciling, \* the flag that closes dialing
  rec,         \* the running reconcile() operation
  call,        \* the store's in-memory call records
  row,         \* the committed Postgres rows
  flushing,    \* who awaits the flush of a save of this call
  storeOk,     \* FALSE once a transaction failed: latched until restart
  start,       \* where start() of the call stands
  term,        \* where the finish() in terminations stands
  again,       \* calls whose timer or flow handler retries an unconfirmed finish()
  why,         \* terminationReasons
  timers,      \* schedules: originate and maximum-duration timers
  op,          \* the operation at the head of the call's serial queue
  conn,        \* the ESL connection: "up", "lost", or "down" in a new process
  chan,        \* the channel at the gateway; "job": bgapi accepted, not created yet
  news,        \* gateway events on their way to the API
  overlooked,  \* history: channels a hangup or a listing looked for before they existed
  evidence,    \* the permission record in force, or None
  changes, drops, crashes, failures    \* bounded counters

world == <<phase, evidence, changes, drops, crashes, failures>>
gateway == <<conn, chan, news, overlooked>>
finishing == <<call, flushing, term, why, timers>>
vars == <<stop, reconciling, rec, row, storeOk, start, again, op, finishing, gateway, world>>

\* "queued" stands for queued, dialing and ringing, which every guard here
\* treats alike; "answered" for answered, playing, listening and classifying.
Statuses == {"absent", "queued", "answered", "over"}
Record == [status : Statuses, intent : Reasons \cup {None},
           reason : Reasons \cup {None}, auth : Evidence \cup {None}]
NoRecord == [status |-> "absent", intent |-> None, reason |-> None, auth |-> None]

\* Everyone who can await a flush on behalf of a call.
Roles == {"start", "term", "op", "rec"}

Active(c) == call[c].status \in {"queued", "answered"}
ActiveCalls == {c \in Calls : Active(c)}
Live(c) == chan[c] \in {"ringing", "up"}
LiveCalls == {c \in Calls : Live(c)}
Dialed(c) == chan[c] = "job" \/ Live(c)

FinishingTypes ==
  /\ call \in [Calls -> Record]
  /\ flushing \in [Calls -> SUBSET Roles]
  /\ term \in [Calls -> {"none", "saving", "killing", "completing", "retaining"}]
  /\ why \in [Calls -> Reasons \cup {None}]
  /\ timers \in [Calls -> SUBSET {"originate", "maxcall"}]
GatewayTypes ==
  /\ conn \in {"down", "up", "lost"}
  /\ chan \in [Calls -> {"none", "job", "ringing", "up", "gone"}]
  /\ news \in [Calls -> SUBSET {"answered", "hangup", "failed"}]
  /\ overlooked \in SUBSET Calls
WorldTypes ==
  /\ phase \in {"down", "booting", "serving"}
  /\ evidence \in Evidence \cup {None}
  /\ changes \in 0..MaxChanges /\ drops \in 0..MaxDrops
  /\ crashes \in 0..MaxCrashes /\ failures \in 0..MaxStoreFailures
Reconciliation == [pc : {"idle", "listing", "closing", "waiting", "recording", "failed"},
                   strays : SUBSET Calls, remote : SUBSET Calls, todo : SUBSET Calls,
                   cur : Calls \cup {None}]
Operation == [pc : {"idle", "answering", "wiring", "turn", "resaved", "ending"},
              intent : Reasons \cup {None}]

TypeOK ==
  /\ WorldTypes /\ GatewayTypes /\ FinishingTypes
  /\ stop \in {"no", "begun", "draining"}
  /\ reconciling \in BOOLEAN /\ storeOk \in BOOLEAN
  /\ rec \in Reconciliation
  /\ row \in [Calls -> Record]
  /\ start \in [Calls -> {"idle", "saving", "waiting", "prepared", "written", "done"}]
  /\ again \in SUBSET Calls
  /\ op \in [Calls -> Operation]

-----------------------------------------------------------------------------
(* The store: a save changes the cache at once, the row when it commits. *)

\* persist() of a record: the caller awaits the flush in the given role.
Await(c, role) == flushing' = [flushing EXCEPT ![c] = @ \cup {role}]

\* The flush resolves once the write is committed and rejects once the store failed.
Resumes(c, role) == role \notin flushing[c] \/ ~storeOk
Threw(c, role) == role \in flushing[c]

-----------------------------------------------------------------------------
(* finish() and complete() *)

\* The code of finish() up to its first await, for every call of T at once.
Intended(c, reason) == IF call[c].intent # None THEN call[c].intent ELSE reason
FinishAll(T, reason) ==
  /\ call' = [c \in Calls |-> IF c \in T /\ storeOk
                THEN [call[c] EXCEPT !.intent = Intended(c, reason)] ELSE call[c]]
  /\ flushing' = [c \in Calls |-> IF c \in T /\ storeOk
                    THEN flushing[c] \cup {"term"} ELSE flushing[c]]
  /\ term' = [c \in Calls |-> IF c \notin T THEN term[c]
                ELSE IF storeOk THEN "saving" ELSE "killing"]
  /\ why' = [c \in Calls |-> IF c \in T THEN Intended(c, reason) ELSE why[c]]
  /\ timers' = [c \in Calls |-> IF c \in T THEN {} ELSE timers[c]]

\* finish() returns at once for a terminal call and joins a termination in flight.
Finishable(S) == {c \in S : Active(c) /\ term[c] = "none"}
Finish(S, reason) == FinishAll(Finishable(S), reason)
NoFinish == UNCHANGED finishing

\* complete() of an active call: an intent wins over the reason given.  A failed
\* store refuses the record, after the timers were cancelled.
Final(c, reason) == IF call[c].intent # None THEN call[c].intent
                    ELSE IF why[c] # None THEN why[c] ELSE reason
TerminalRecord(c, reason) ==
  /\ call' = [call EXCEPT ![c] = [@ EXCEPT !.status = "over", !.intent = None,
                                           !.reason = Final(c, reason)]]
  /\ why' = [why EXCEPT ![c] = None]
  /\ timers' = [timers EXCEPT ![c] = {}]
Complete(c, reason) ==
  \/ storeOk /\ TerminalRecord(c, reason)
  \/ ~storeOk /\ timers' = [timers EXCEPT ![c] = {}] /\ UNCHANGED <<call, why>>

\* after(): a timer of a terminal call would do nothing and is left out.
Schedule(c, timer) == IF Active(c) THEN [timers EXCEPT ![c] = @ \cup {timer}] ELSE timers

RecIdle == [pc |-> "idle", strays |-> {}, remote |-> {}, todo |-> {}, cur |-> None]
RecListing == [RecIdle EXCEPT !.pc = "listing"]

\* reconcile() rejects: dialing stays closed, and a boot gives up.
RecFailed == IF phase = "booting" THEN [RecIdle EXCEPT !.pc = "failed"] ELSE RecIdle

\* The finish() promise settles; reconcile() may be awaiting it.
SettleOk(c) ==
  /\ term' = [term EXCEPT ![c] = "none"]
  /\ again' = again \ {c}
  /\ rec' = IF rec.pc = "waiting" /\ rec.cur = c
              THEN [rec EXCEPT !.pc = "closing", !.cur = None] ELSE rec
SettleFailed(c, left) ==
  /\ again' = again \ {c}
  /\ rec' = IF rec.pc = "waiting" /\ rec.cur = c THEN RecFailed ELSE rec
  /\ \/ c \in again /\ Active(c) /\ FinishAll({c}, "AUTOMATION_FAILED")
     \/ ~(c \in again /\ Active(c)) /\ term' = [term EXCEPT ![c] = "none"]
                                    /\ timers' = [timers EXCEPT ![c] = left]
                                    /\ UNCHANGED <<call, flushing, why>>

\* The intent is committed, or its failed write was logged: send uuid_kill.
TermSaved(c) ==
  /\ term[c] = "saving" /\ Resumes(c, "term")
  /\ term' = [term EXCEPT ![c] = "killing"]
  /\ UNCHANGED <<stop, reconciling, rec, call, row, flushing, storeOk, start, again, why,
                 timers, op, world, gateway>>

\* uuid_kill replied +OK, or "No such channel", which counts as the same: also when
\* the background originate has only not created the channel yet.
Overlooks(S) == overlooked' = overlooked \cup {c \in S : chan[c] = "job"}
KillReply(c) ==
  /\ term[c] = "killing" /\ conn = "up" /\ ~Live(c) /\ Overlooks({c})
  /\ \/ ~Active(c) /\ SettleOk(c) /\ UNCHANGED <<call, why, timers, flushing>>
     \/ Active(c) /\ storeOk /\ Complete(c, why[c]) /\ Await(c, "term")
                  /\ term' = [term EXCEPT ![c] = "completing"] /\ UNCHANGED <<rec, again>>
     \/ Active(c) /\ ~storeOk /\ SettleFailed(c, {})
  /\ UNCHANGED <<stop, reconciling, row, storeOk, start, op, world, conn, chan, news>>

\* The terminal record is committed, or lost: finish() sees a terminal call either way.
TermCompleted(c) ==
  /\ term[c] = "completing" /\ Resumes(c, "term")
  /\ SettleOk(c)
  /\ UNCHANGED <<stop, reconciling, call, row, flushing, storeOk, start, why, timers, op,
                 world, gateway>>

\* No reply before the connection went: the slot is kept and the record says so.
KillFails(c) ==
  /\ term[c] = "killing" /\ conn = "lost"
  /\ \/ ~Active(c) /\ SettleOk(c) /\ UNCHANGED <<call, why, timers, flushing>>
     \/ Active(c) /\ storeOk /\ Await(c, "term") /\ term' = [term EXCEPT ![c] = "retaining"]
                  /\ UNCHANGED <<rec, again, call, why, timers>>
     \/ Active(c) /\ ~storeOk /\ SettleFailed(c, timers[c])
  /\ UNCHANGED <<stop, reconciling, row, storeOk, start, op, world, gateway>>

TermRetained(c) ==
  /\ term[c] = "retaining" /\ Resumes(c, "term")
  /\ SettleFailed(c, timers[c])
  /\ UNCHANGED <<stop, reconciling, row, storeOk, start, op, world, gateway>>

-----------------------------------------------------------------------------
(* start(): reserve, persist, and originate under the command guard *)

\* assertDialState()
DialState(c) == storeOk /\ stop = "no" /\ ~reconciling /\ term[c] = "none" /\ Active(c)

\* The ceiling is checked against the cache, which the reservation joins at once.
HasCapacityByRow ==                                                            \* mutant
  Cardinality({c \in Calls : row[c].status \in {"queued", "answered"}}) < Ceiling
HasCapacity == Cardinality(ActiveCalls) < Ceiling

StartBegin(c) ==
  /\ phase = "serving" /\ stop = "no" /\ ~reconciling /\ storeOk
  /\ call[c].status = "absent" /\ start[c] = "idle"
  /\ HasCapacity
  /\ evidence # None
  /\ call' = [call EXCEPT ![c] = [NoRecord EXCEPT !.status = "queued", !.auth = evidence]]
  /\ Await(c, "start")
  /\ start' = [start EXCEPT ![c] = "saving"]
  /\ UNCHANGED <<stop, reconciling, rec, row, storeOk, term, again, why, timers, op, world,
                 gateway>>

\* start() gives up: finish(session, "failed", ...), then the error is rethrown.
StartFails(c) == Finish({c}, "START_FAILED") /\ start' = [start EXCEPT ![c] = "done"]

StartSaved(c) ==
  /\ start[c] = "saving" /\ Resumes(c, "start")
  /\ LET ok == ~Threw(c, "start") /\ stop = "no" /\ ~reconciling /\ Active(c)
               /\ term[c] = "none" /\ evidence # None
         timed == Schedule(c, "originate") IN
     \/ ok /\ start' = [start EXCEPT ![c] = "waiting"] /\ timers' = timed
           /\ UNCHANGED <<call, flushing, term, why>>
     \/ ~ok /\ Finishable({c}) # {} /\ StartFails(c)
     \/ ~ok /\ Finishable({c}) = {} /\ start' = [start EXCEPT ![c] = "done"]
            /\ timers' = (IF Threw(c, "start") THEN timers ELSE timed)
            /\ UNCHANGED <<call, flushing, term, why>>
  /\ UNCHANGED <<stop, reconciling, rec, row, storeOk, again, op, world, gateway>>

\* The command reaches the head of the queue: connect(), then guard.prepare().
StartPrepare(c) ==
  /\ start[c] = "waiting"
  /\ LET ok == conn = "up" /\ DialState(c) /\ evidence # None IN
     \/ ok /\ call' = [call EXCEPT ![c].auth = evidence] /\ Await(c, "start")
           /\ start' = [start EXCEPT ![c] = "prepared"] /\ UNCHANGED <<term, why, timers>>
     \/ ~ok /\ StartFails(c)
  /\ UNCHANGED <<stop, reconciling, rec, row, storeOk, again, op, world, gateway>>

\* guard.check() and the write of "bgapi originate", with nothing in between.
MayWriteOnOldPermission(c) == ~Threw(c, "start") /\ conn = "up" /\ DialState(c)    \* mutant
MayWriteUnguarded(c) == ~Threw(c, "start") /\ conn = "up"                          \* mutant
MayWrite(c) == ~Threw(c, "start") /\ conn = "up" /\ DialState(c) /\ evidence = call[c].auth
StartWrite(c) ==
  /\ start[c] = "prepared" /\ Resumes(c, "start")
  /\ \/ MayWrite(c) /\ chan' = [chan EXCEPT ![c] = "job"]
                    /\ start' = [start EXCEPT ![c] = "written"]
                    /\ UNCHANGED finishing
     \/ ~MayWrite(c) /\ StartFails(c) /\ UNCHANGED chan
  /\ UNCHANGED <<stop, reconciling, rec, row, storeOk, again, op, conn, news, overlooked,
                 world>>

\* The Job-UUID arrives, or a reply without one: "channel outcome is unknown".
StartReply(c) ==
  /\ start[c] = "written" /\ conn = "up"
  /\ \/ start' = [start EXCEPT ![c] = "done"] /\ NoFinish
     \/ StartFails(c)
  /\ UNCHANGED <<stop, reconciling, rec, row, storeOk, again, op, world, gateway>>

-----------------------------------------------------------------------------
(* Timers, the operator, and what the gateway reports *)

\* The originate timer; runScheduledAction() tries once more if finish() rejects.
NoAnswer(c) ==
  /\ "originate" \in timers[c]
  /\ \/ call[c].status = "queued" /\ again' = again \cup {c}
        /\ \/ Finishable({c}) # {} /\ Finish({c}, "NO_ANSWER")
           \/ Finishable({c}) = {} /\ timers' = [timers EXCEPT ![c] = @ \ {"originate"}]
                                   /\ UNCHANGED <<call, flushing, term, why>>
     \/ call[c].status # "queued" /\ timers' = [timers EXCEPT ![c] = @ \ {"originate"}]
                                  /\ UNCHANGED <<again, call, flushing, term, why>>
  /\ UNCHANGED <<stop, reconciling, rec, row, storeOk, start, op, world, gateway>>

MaxCall(c) ==
  /\ "maxcall" \in timers[c] /\ again' = again \cup {c}
  /\ \/ Finishable({c}) # {} /\ Finish({c}, "ALLOTTED_TIMEOUT")
     \/ Finishable({c}) = {} /\ timers' = [timers EXCEPT ![c] = @ \ {"maxcall"}]
                             /\ UNCHANGED <<call, flushing, term, why>>
  /\ UNCHANGED <<stop, reconciling, rec, row, storeOk, start, op, world, gateway>>

\* The operator, a voicemail beep or a media error ends the call.
Stop(c) ==
  /\ phase = "serving" /\ Finishable({c}) # {}
  /\ Finish({c}, "STOPPED")
  /\ UNCHANGED <<stop, reconciling, rec, row, storeOk, start, again, op, world, gateway>>

Hear(c, event) == event \in news[c] /\ news' = [news EXCEPT ![c] = @ \ {event}]

\* CHANNEL_HANGUP_COMPLETE completes the call at once, outside its queue.
HangupEvent(c) ==
  /\ phase # "down" /\ Hear(c, "hangup")
  /\ \/ Active(c) /\ Complete(c, "HANGUP")
     \/ ~Active(c) /\ UNCHANGED <<call, why, timers>>
  /\ UNCHANGED <<stop, reconciling, rec, row, flushing, storeOk, start, term, again, op,
                 conn, chan, overlooked, world>>

\* Other events take their turn in the call's queue and look at the call again there;
\* one that arrived before dialing closed is not told that it closed meanwhile.
Heeds(c) == stop = "no" /\ ~reconciling /\ Active(c) /\ term[c] = "none"

OriginateFailedEvent(c) ==
  /\ phase # "down" /\ op[c].pc = "idle" /\ Hear(c, "failed")
  /\ \/ Active(c) /\ term[c] = "none" /\ Complete(c, "ORIGINATE_FAILED")
     \/ ~Heeds(c) /\ UNCHANGED <<call, why, timers>>
  /\ UNCHANGED <<stop, reconciling, rec, row, flushing, storeOk, start, term, again, op,
                 conn, chan, overlooked, world>>

-----------------------------------------------------------------------------
(* The call's serial queue: answering, and the turns of the flow.  A handler *)
(* works on the copy it read at its start; only its intent can differ from   *)
(* the stored record when the copy is saved again.                           *)

OpAt(c, pc, intent) == op' = [op EXCEPT ![c] = [pc |-> pc, intent |-> intent]]
OpDone(c) == OpAt(c, "idle", None)
OpFails(c) == Finish({c}, "AUTOMATION_FAILED") /\ OpDone(c)

\* persist() of the handler's copy: refused only if the stored call is terminal.
SaveCopyBlindly(c, intent) ==           \* mutant: a terminal record is overwritten
  call' = [call EXCEPT ![c].intent = intent, ![c].status = "answered"] /\ Await(c, "op")
SaveCopy(c, intent) ==
  \/ Active(c) /\ call' = [call EXCEPT ![c].intent = intent] /\ Await(c, "op")
  \/ ~Active(c) /\ UNCHANGED <<call, flushing>>

AnsweredEvent(c) ==
  /\ phase # "down" /\ op[c].pc = "idle" /\ Hear(c, "answered")
  /\ LET heed == Heeds(c) /\ call[c].status = "queued" IN
     \/ heed /\ storeOk /\ call' = [call EXCEPT ![c].status = "answered"] /\ Await(c, "op")
             /\ OpAt(c, "answering", call[c].intent) /\ UNCHANGED <<term, why, timers>>
     \/ heed /\ ~storeOk /\ OpFails(c)
     \/ ~heed /\ NoFinish /\ UNCHANGED op
  /\ UNCHANGED <<stop, reconciling, rec, row, storeOk, start, again, conn, chan, overlooked,
                 world>>

AnswerSaved(c) ==
  /\ op[c].pc = "answering" /\ Resumes(c, "op")
  /\ \/ Threw(c, "op") /\ OpFails(c)
     \/ ~Threw(c, "op") /\ timers' = Schedule(c, "maxcall")
                        /\ OpAt(c, "wiring", op[c].intent)
                        /\ UNCHANGED <<call, flushing, term, why>>
  /\ UNCHANGED <<stop, reconciling, rec, row, storeOk, start, again, world, gateway>>

\* Beep detection, stream and recording commands, any of which may be refused, then
\* advance() to the first clip.
AnswerWired(c) ==
  /\ op[c].pc = "wiring"
  /\ LET wired == conn = "up" /\ chan[c] = "up" IN
     \/ wired /\ Heeds(c) /\ storeOk /\ SaveCopy(c, op[c].intent)
              /\ OpAt(c, "resaved", None) /\ UNCHANGED <<term, why, timers>>
     \/ wired /\ ~Heeds(c) /\ NoFinish /\ OpDone(c)
     \/ OpFails(c)
  /\ UNCHANGED <<stop, reconciling, rec, row, storeOk, start, again, world, gateway>>

\* A transcript or a silence in a listen window, up to the classified transition,
\* or a retry node's attempt count: a save whose copy is fresh.
Turn(c) ==
  /\ Conversational /\ phase # "down" /\ op[c].pc = "idle"
  /\ call[c].status = "answered" /\ term[c] = "none"
  /\ \/ storeOk /\ Await(c, "op") /\ OpAt(c, "turn", call[c].intent)
                /\ UNCHANGED <<call, term, why, timers>>
     \/ ~storeOk /\ OpFails(c)
  /\ UNCHANGED <<stop, reconciling, rec, row, storeOk, start, again, world, gateway>>

\* The branch taken, or the retry's clip: the same copy is saved after the await.
TurnRoutes(c) ==
  /\ op[c].pc = "turn" /\ Resumes(c, "op")
  /\ \/ storeOk /\ SaveCopy(c, op[c].intent) /\ OpAt(c, "resaved", None)
                /\ UNCHANGED <<term, why, timers>>
     \/ ~storeOk /\ OpFails(c)
  /\ UNCHANGED <<stop, reconciling, rec, row, storeOk, start, again, world, gateway>>

\* The clip or window command that ends a handler: advance() may stop short of it, and
\* it may be refused.
OpEnds(c) ==
  /\ op[c].pc = "resaved" /\ Resumes(c, "op")
  /\ \/ ~Threw(c, "op") /\ OpDone(c) /\ NoFinish
     \/ OpFails(c)
  /\ UNCHANGED <<stop, reconciling, rec, row, storeOk, start, again, world, gateway>>

\* PLAYBACK_STOP leads to the end node: a save of the fresh copy, then finish(),
\* which the catch around advance() tries once more.
FlowEnds(c) ==
  /\ phase # "down" /\ op[c].pc = "idle" /\ call[c].status = "answered" /\ Heeds(c)
  /\ \/ storeOk /\ Await(c, "op") /\ OpAt(c, "ending", None)
                /\ UNCHANGED <<call, term, why, timers>>
     \/ ~storeOk /\ OpFails(c)
  /\ UNCHANGED <<stop, reconciling, rec, row, storeOk, start, again, world, gateway>>

FlowEnded(c) ==
  /\ op[c].pc = "ending" /\ Resumes(c, "op")
  /\ \/ Threw(c, "op") /\ OpFails(c) /\ UNCHANGED again
     \/ ~Threw(c, "op") /\ Finish({c}, "FLOW_COMPLETED") /\ OpDone(c)
                        /\ again' = (IF Active(c) THEN again \cup {c} ELSE again)
  /\ UNCHANGED <<stop, reconciling, rec, row, storeOk, start, world, gateway>>

-----------------------------------------------------------------------------
(* reconcile(): at boot and on every ESL reconnection *)

\* listChannels(), then the active calls as the cache has them.
RecList ==
  /\ rec.pc = "listing" /\ conn = "up"
  /\ rec' = [pc |-> "closing", strays |-> LiveCalls \ ActiveCalls, remote |-> LiveCalls,
             todo |-> ActiveCalls, cur |-> None]
  /\ Overlooks(Calls)
  /\ UNCHANGED <<stop, reconciling, row, storeOk, start, again, op, world, conn, chan, news,
                 finishing>>

\* The listing, or a kill of an unknown MKTR channel, is not answered.
RecLosesLink ==
  /\ rec.pc = "listing" \/ (rec.pc = "closing" /\ rec.strays # {})
  /\ conn = "lost"
  /\ rec' = RecFailed
  /\ UNCHANGED <<stop, reconciling, row, storeOk, start, again, op, world, gateway,
                 finishing>>

RecSweeps(c) ==
  /\ rec.pc = "closing" /\ c \in rec.strays /\ conn = "up"
  /\ rec' = [rec EXCEPT !.strays = @ \ {c}]
  /\ \/ Live(c) /\ chan' = [chan EXCEPT ![c] = "gone"]
               /\ news' = [news EXCEPT ![c] = @ \cup {"hangup"}]
     \/ ~Live(c) /\ UNCHANGED <<chan, news>>
  /\ UNCHANGED <<stop, reconciling, row, storeOk, start, again, op, conn, overlooked, world,
                 finishing>>

RecTakesRemoteOnly(c) ==                \* mutant: vanished channels are left to time out
  rec.pc = "closing" /\ rec.strays = {} /\ c \in rec.todo \cap rec.remote
RecTakes(c) == rec.pc = "closing" /\ rec.strays = {} /\ c \in rec.todo

\* A call whose channel was listed: await finish(), also one already in flight.
RecFinishes(c) ==
  /\ RecTakes(c) /\ c \in rec.remote
  /\ Finish({c}, "INTERRUPTED")
  /\ rec' = IF Active(c) THEN [rec EXCEPT !.pc = "waiting", !.cur = c, !.todo = @ \ {c}]
                         ELSE [rec EXCEPT !.todo = @ \ {c}]
  /\ UNCHANGED <<stop, reconciling, row, storeOk, start, again, op, world, gateway>>

\* A call whose channel was not listed: await complete().
RecCompletes(c) ==
  /\ RecTakes(c) /\ c \notin rec.remote
  /\ \/ Active(c) /\ storeOk /\ Complete(c, "INTERRUPTED") /\ Await(c, "rec")
        /\ rec' = [rec EXCEPT !.pc = "recording", !.cur = c, !.todo = @ \ {c}]
     \/ ~Active(c) /\ rec' = [rec EXCEPT !.todo = @ \ {c}]
                   /\ UNCHANGED <<call, why, timers, flushing>>
     \/ Active(c) /\ ~storeOk /\ Complete(c, "INTERRUPTED") /\ rec' = RecFailed
                  /\ UNCHANGED flushing
  /\ UNCHANGED <<stop, reconciling, row, storeOk, start, term, again, op, world, gateway>>

RecRecorded ==
  /\ rec.pc = "recording" /\ Resumes(rec.cur, "rec")
  /\ rec' = IF Threw(rec.cur, "rec") THEN RecFailed
            ELSE [rec EXCEPT !.pc = "closing", !.cur = None]
  /\ UNCHANGED <<stop, reconciling, row, storeOk, start, again, op, world, gateway,
                 finishing>>

RecDone ==
  /\ rec.pc = "closing" /\ rec.strays = {} /\ rec.todo = {}
  /\ rec' = RecIdle
  /\ reconciling' = FALSE
  /\ phase' = "serving"
  /\ UNCHANGED <<stop, row, storeOk, start, again, op, evidence, changes, drops, crashes,
                 failures, gateway, finishing>>

-----------------------------------------------------------------------------
(* The ESL connection *)

\* The socket closes: the command in flight rejects and dialing closes.  Events
\* on their way are lost with it.
Drop ==
  /\ conn = "up" /\ drops < MaxDrops
  /\ conn' = "lost" /\ drops' = drops + 1
  /\ reconciling' = (reconciling \/ (phase = "serving" /\ stop = "no"))
  /\ \E lost \in SUBSET Calls : news' = [c \in Calls |-> IF c \in lost THEN {} ELSE news[c]]
  /\ LET unanswered == {c \in Calls : start[c] = "written"} IN
     /\ Finish(unanswered, "START_FAILED")
     /\ start' = [c \in Calls |-> IF c \in unanswered THEN "done" ELSE start[c]]
  /\ UNCHANGED <<phase, stop, rec, row, storeOk, again, op, chan, overlooked, evidence,
                 changes, crashes, failures>>

\* Authenticated again.  A reconcile() still running is joined, not restarted.
Reconnect ==
  /\ conn # "up" /\ phase # "down"
  /\ conn' = "up"
  /\ \/ phase = "serving" /\ stop = "no" /\ reconciling' = TRUE
        /\ rec' = IF rec.pc = "idle" THEN RecListing ELSE rec
     \/ ~(phase = "serving" /\ stop = "no") /\ UNCHANGED <<reconciling, rec>>
  /\ UNCHANGED <<stop, row, storeOk, start, again, op, chan, news, overlooked, world,
                 finishing>>

-----------------------------------------------------------------------------
(* The process and its database *)

\* Everything but the rows and the gateway is lost.
Exit ==
  /\ phase' = "down" /\ stop' = "no" /\ reconciling' = TRUE /\ rec' = RecIdle
  /\ call' = row /\ flushing' = [c \in Calls |-> {}] /\ storeOk' = TRUE
  /\ start' = [c \in Calls |-> "idle"] /\ term' = [c \in Calls |-> "none"] /\ again' = {}
  /\ why' = [c \in Calls |-> None] /\ timers' = [c \in Calls |-> {}]
  /\ op' = [c \in Calls |-> [pc |-> "idle", intent |-> None]]
  /\ conn' = "down" /\ news' = [c \in Calls |-> {}]
  /\ UNCHANGED <<row, chan, overlooked, evidence, changes, drops, failures>>

Crash == phase # "down" /\ crashes < MaxCrashes /\ crashes' = crashes + 1 /\ Exit

\* initialize() rejected: the top-level await ends the process.
BootFails == phase = "booting" /\ rec.pc = "failed" /\ Exit /\ UNCHANGED crashes

\* The constructor takes over the stored intents, initialize() reconciles.
Restart ==
  /\ phase = "down"
  /\ phase' = "booting" /\ rec' = RecListing
  /\ why' = [c \in Calls |-> IF Active(c) THEN call[c].intent ELSE None]
  /\ UNCHANGED <<stop, reconciling, call, row, flushing, storeOk, start, term, again,
                 timers, op, evidence, changes, drops, crashes, failures, gateway>>

\* SIGTERM: beginShutdown() at once, shutdown() after the background services drain.
BeginShutdown ==
  /\ phase = "serving" /\ stop = "no" /\ crashes < MaxCrashes
  /\ stop' = "begun" /\ crashes' = crashes + 1
  /\ UNCHANGED <<phase, reconciling, rec, row, storeOk, start, again, op, evidence, changes,
                 drops, failures, gateway, finishing>>

DrainCalls ==
  /\ stop = "begun"
  /\ stop' = "draining"
  /\ Finish(Calls, "SERVICE_SHUTDOWN")
  /\ UNCHANGED <<reconciling, rec, row, storeOk, start, again, op, world, gateway>>

\* Every hangup settled and the store flushed; the deadline instead is a Crash.
ShutdownExit ==
  /\ stop = "draining" /\ (\A c \in Calls : term[c] = "none")
  /\ storeOk => call = row
  /\ Exit /\ UNCHANGED crashes

Commit(c) ==
  /\ phase # "down" /\ storeOk /\ (flushing[c] # {} \/ call[c] # row[c])
  /\ row' = [row EXCEPT ![c] = call[c]]
  /\ flushing' = [flushing EXCEPT ![c] = {}]
  /\ UNCHANGED <<stop, reconciling, rec, call, storeOk, start, term, again, why, timers, op,
                 world, gateway>>

\* The failed transaction of some call may have reached the rows all the same.
StoreFails ==
  /\ phase # "down" /\ storeOk /\ failures < MaxStoreFailures
  /\ \E c \in Calls : /\ flushing[c] # {} \/ call[c] # row[c]
                      /\ row' \in {row, [row EXCEPT ![c] = call[c]]}
  /\ storeOk' = FALSE /\ failures' = failures + 1
  /\ UNCHANGED <<phase, stop, reconciling, rec, start, again, op, evidence, changes, drops,
                 crashes, gateway, finishing>>

\* saveConsent or saveDncClearance for the destination, or the clearance expires.
EvidenceChanges ==
  /\ phase = "serving" /\ changes < MaxChanges
  /\ changes' = changes + 1
  /\ \E e \in Evidence \cup {None} : e # evidence /\ evidence' = e
  /\ UNCHANGED <<phase, stop, reconciling, rec, row, storeOk, start, again, op, drops,
                 crashes, failures, gateway, finishing>>

-----------------------------------------------------------------------------
(* FreeSWITCH, as src/ uses it: events reach the API only over a live connection *)

Tell(c, events) == news' = IF conn = "up" THEN [news EXCEPT ![c] = @ \cup events] ELSE news
ApiSame == UNCHANGED <<stop, reconciling, rec, row, storeOk, start, again, op, conn, overlooked,
                       world, finishing>>

FsCreates(c) ==
  chan[c] = "job" /\ chan' = [chan EXCEPT ![c] = "ringing"] /\ UNCHANGED news /\ ApiSame

\* The background job reports -ERR: refused, busy, or its own originate_timeout.
FsRejects(c) ==
  /\ chan[c] \in {"job", "ringing"}
  /\ chan' = [chan EXCEPT ![c] = "gone"]
  /\ Tell(c, IF chan[c] = "job" THEN {"failed"} ELSE {"failed", "hangup"})
  /\ ApiSame

FsAnswers(c) ==
  /\ chan[c] = "ringing" /\ chan' = [chan EXCEPT ![c] = "up"]
  /\ Tell(c, {"answered"}) /\ ApiSame

\* The callee hangs up, or the channel's own sched_hangup limit strikes.
FsEnds(c) ==
  /\ chan[c] = "up" /\ chan' = [chan EXCEPT ![c] = "gone"]
  /\ Tell(c, {"hangup"}) /\ ApiSame

\* uuid_kill is executed; its reply is KillReply.
FsKills(c) ==
  /\ term[c] = "killing" /\ conn = "up" /\ Live(c)
  /\ chan' = [chan EXCEPT ![c] = "gone"]
  /\ Tell(c, {"hangup"}) /\ ApiSame

-----------------------------------------------------------------------------
Init ==
  /\ phase = "booting" /\ stop = "no" /\ reconciling = TRUE /\ rec = RecListing
  /\ call = [c \in Calls |-> NoRecord] /\ row = [c \in Calls |-> NoRecord]
  /\ flushing = [c \in Calls |-> {}] /\ storeOk = TRUE
  /\ start = [c \in Calls |-> "idle"] /\ term = [c \in Calls |-> "none"] /\ again = {}
  /\ why = [c \in Calls |-> None] /\ timers = [c \in Calls |-> {}]
  /\ op = [c \in Calls |-> [pc |-> "idle", intent |-> None]]
  /\ conn = "down" /\ chan = [c \in Calls |-> "none"] /\ news = [c \in Calls |-> {}]
  /\ overlooked = {}
  /\ evidence \in Evidence \cup {None}
  /\ changes = 0 /\ drops = 0 /\ crashes = 0 /\ failures = 0

Terminating(c) == TermSaved(c) \/ KillReply(c) \/ KillFails(c) \/ TermCompleted(c)
                  \/ TermRetained(c)
Starting(c) == StartSaved(c) \/ StartPrepare(c) \/ StartWrite(c) \/ StartReply(c)
Timing(c) == NoAnswer(c) \/ MaxCall(c)
Hearing(c) == HangupEvent(c) \/ OriginateFailedEvent(c) \/ AnsweredEvent(c)
Handling(c) == AnswerSaved(c) \/ AnswerWired(c) \/ TurnRoutes(c) \/ OpEnds(c)
               \/ FlowEnded(c)
Reconciling == RecList \/ RecLosesLink \/ RecRecorded \/ RecDone
               \/ \E c \in Calls : RecSweeps(c) \/ RecFinishes(c) \/ RecCompletes(c)
Gateway(c) == FsCreates(c) \/ FsRejects(c) \/ FsAnswers(c) \/ FsEnds(c) \/ FsKills(c)

Next ==
  \/ \E c \in Calls :
       \/ StartBegin(c) \/ Starting(c) \/ Terminating(c) \/ Timing(c) \/ Stop(c)
       \/ Hearing(c) \/ Handling(c) \/ Turn(c) \/ FlowEnds(c) \/ Commit(c) \/ Gateway(c)
  \/ Reconciling
  \/ Drop \/ Reconnect
  \/ Crash \/ BootFails \/ Restart \/ BeginShutdown \/ DrainCalls \/ ShutdownExit
  \/ StoreFails \/ EvidenceChanges

Spec == Init /\ [][Next]_vars

\* The event loop runs what is ready, the database commits, the client keeps
\* reconnecting, timers fire, the gateway executes commands and limits its
\* channels, and the container restarts a process that exits.  Nobody is obliged
\* to dial, to stop a call, to speak, or to break anything.
Fairness ==
  /\ \A c \in Calls : /\ WF_vars(Starting(c)) /\ WF_vars(Terminating(c)) /\ WF_vars(Timing(c))
                      /\ WF_vars(Hearing(c)) /\ WF_vars(Handling(c)) /\ WF_vars(Commit(c))
                      /\ WF_vars(FsCreates(c)) /\ WF_vars(FsRejects(c) \/ FsEnds(c))
                      /\ WF_vars(FsKills(c))
  /\ WF_vars(Reconciling) /\ WF_vars(Reconnect) /\ WF_vars(Restart) /\ WF_vars(BootFails)
  /\ WF_vars(DrainCalls) /\ WF_vars(ShutdownExit)

FairSpec == Spec /\ Fairness

-----------------------------------------------------------------------------
(* Properties *)

\* A dial has a slot: the running process counts its call as active, and so does the
\* row a restart would load.
HoldsSlot(c) == Active(c) /\ row[c].status \in {"queued", "answered"}

\* docs/decisions.md says "terminate the provider channel before releasing its logical
\* slot": a channel that is up at the gateway always has a slot.  The code does not keep
\* this: uuid_kill answered "No such channel" frees the slot of a dial whose channel the
\* background originate has yet to create.
NoOrphanChannel == \A c \in Calls : Live(c) => HoldsSlot(c)

\* That is the only way: a dial the gateway has accepted keeps its slot, in memory and in
\* its row, through every hangup, lost connection, failed transaction and exit, unless a
\* hangup or a reconciliation's listing looked for its channel before it existed.
OrphanWasOverlooked ==
  \A c \in Calls : Dialed(c) /\ c \notin overlooked => HoldsSlot(c)

\* However starts, hangups, reconnections and restarts interleave, the gateway never
\* carries, or is about to carry, more dials than the trunk has lines, those that were
\* overlooked apart.
TrunkCeiling == Cardinality({c \in Calls : Dialed(c) /\ c \notin overlooked}) <= Ceiling

\* While dialing is open, no more calls hold a slot than there are slots, wherever their
\* channels are.
SlotCeiling == ~reconciling => Cardinality(ActiveCalls) <= Ceiling

\* A terminal record is never touched again, in memory or in Postgres: a handler
\* that still holds an active copy of the call cannot resurrect it.
TerminalIsFinal ==
  [][\A c \in Calls :
       /\ row[c].status = "over" => row'[c] = row[c]
       /\ call[c].status = "over" /\ phase' # "down" => call'[c] = call[c]]_vars

\* At the instant the originate is written the committed row, not only the cache,
\* names the permission in force at that instant, and no reconciliation runs.
DialIsRecorded ==
  [][\A c \in Calls : chan[c] = "none" /\ chan'[c] # "none" =>
       /\ evidence # None /\ row[c].auth = evidence
       /\ row[c].status = "queued" /\ rec.pc = "idle"]_vars

\* Dialing reopens only once every call of before the restart or the reconnection
\* has a terminal record.
ReconcileLeavesNone ==
  [][reconciling /\ ~reconciling' => \A c \in Calls : call'[c].status \in {"absent", "over"}]_vars

\* Every call that holds a slot gives it back, unless a transaction fails meanwhile: the
\* process then refuses every save until it is restarted.
EveryCallEnds == \A c \in Calls : Active(c) /\ storeOk ~> ~Active(c) \/ ~storeOk

\* After a restart dialing is opened again, unless the connection is lost or a
\* transaction fails meanwhile.
DialingReopens ==
  reconciling /\ drops = 0 /\ storeOk ~> ~reconciling \/ drops > 0 \/ ~storeOk
=============================================================================
