------------------------ MODULE CallLifecycle_proofs ------------------------
(* Theorems about CallLifecycle for every value of its constants.           *)
EXTENDS CallLifecycle, FiniteSetTheorems, TLAPS

-----------------------------------------------------------------------------
(* The inductive invariant behind the safety properties, part by part *)

\* The row never runs ahead of the cache, and a terminal row is the cached record.
RowFollows ==
  \A c \in Calls : /\ row[c].status = "over" => call[c] = row[c]
                   /\ call[c].status = "absent" => row[c].status = "absent"

\* A start past its first flush has a row; one past prepare() has its permission there.
StartIsDurable ==
  \A c \in Calls :
    /\ start[c] # "idle" => call[c].status # "absent"
    /\ start[c] = "saving" /\ "start" \notin flushing[c] => row[c].status # "absent"
    /\ start[c] \in {"waiting", "prepared", "written"} => row[c].status # "absent"
    /\ start[c] = "prepared" => /\ call[c].auth # None
                                /\ "start" \in flushing[c] \/ row[c].auth = call[c].auth

\* One originate per call id, its row first, and no event of a channel before it.
ChannelHistory ==
  \A c \in Calls :
    /\ chan[c] = "none" => /\ news[c] = {}
                           /\ call[c].status # "answered" /\ row[c].status # "answered"
    /\ chan[c] # "none" => /\ row[c].status # "absent"
                           /\ start[c] \notin {"saving", "waiting", "prepared"}
    /\ {"hangup", "failed"} \cap news[c] # {} => chan[c] = "gone"

\* Dialing is closed while a reconciliation runs and while the process is down.
DialingClosed ==
  /\ rec.pc # "idle" => reconciling
  /\ phase = "down" => reconciling /\ rec.pc = "idle"

\* A reconciliation past its listing has every active call still before it.
RecCovers ==
  /\ rec.pc \in {"closing", "waiting", "recording"} =>
       \A c \in ActiveCalls : c \in rec.todo \/ (rec.pc = "waiting" /\ c = rec.cur)
  /\ \A c \in Calls : term[c] = "completing" => call[c].status = "over"

\* The dials no hangup and no listing has looked for in vain; behind a listing there are
\* none but those it found.
Held == {c \in Calls : Dialed(c) /\ c \notin overlooked}
RecSees == rec.pc \in {"closing", "waiting", "recording"} => Held \subseteq rec.remote

Books == RowFollows /\ StartIsDurable /\ ChannelHistory /\ DialingClosed /\ RecCovers
IInv == TypeOK /\ Books /\ SlotCeiling /\ RecSees /\ OrphanWasOverlooked /\ TrunkCeiling

-----------------------------------------------------------------------------
(* Types: what the operators the actions are built from do to them *)

LEMMA WorldStays == WorldTypes /\ UNCHANGED world => WorldTypes'
BY DEF WorldTypes, world

LEMMA GatewayStays == GatewayTypes /\ UNCHANGED gateway => GatewayTypes'
BY DEF GatewayTypes, gateway

LEMMA FinishingStays == FinishingTypes /\ UNCHANGED finishing => FinishingTypes'
BY DEF FinishingTypes, finishing

LEMMA RecTypes ==
  RecIdle \in Reconciliation /\ RecListing \in Reconciliation /\ RecFailed \in Reconciliation
BY DEF RecIdle, RecListing, RecFailed, Reconciliation

LEMMA AwaitTypes ==
  ASSUME FinishingTypes, NEW c \in Calls, NEW role \in Roles, Await(c, role)
  PROVE  flushing' \in [Calls -> SUBSET Roles]
BY DEF FinishingTypes, Await

LEMMA FinishAllTypes ==
  ASSUME FinishingTypes, NEW T \in SUBSET Calls, NEW reason \in Reasons, FinishAll(T, reason)
  PROVE  FinishingTypes'
<1>1. \A c \in Calls : call[c] \in Record /\ Intended(c, reason) \in Reasons
  BY NoneAssumption DEF FinishingTypes, Record, Intended
<1>2. call' \in [Calls -> Record]
  <2>1. \A c \in Calls : [call[c] EXCEPT !.intent = Intended(c, reason)] \in Record
    BY <1>1 DEF Record
  <2> QED BY <1>1, <2>1 DEF FinishAll
<1>3. flushing' \in [Calls -> SUBSET Roles]
  BY DEF FinishAll, FinishingTypes, Roles
<1>4. term' \in [Calls -> {"none", "saving", "killing", "completing", "retaining"}]
  BY DEF FinishAll, FinishingTypes
<1>5. why' \in [Calls -> Reasons \cup {None}]
  BY <1>1 DEF FinishAll, FinishingTypes
<1>6. timers' \in [Calls -> SUBSET {"originate", "maxcall"}]
  BY DEF FinishAll, FinishingTypes
<1> QED BY <1>2, <1>3, <1>4, <1>5, <1>6 DEF FinishingTypes

LEMMA FinishTypes ==
  ASSUME FinishingTypes, NEW S \in SUBSET Calls, NEW reason \in Reasons, Finish(S, reason)
  PROVE  FinishingTypes'
BY FinishAllTypes, Finishable(S) \in SUBSET Calls DEF Finish, Finishable

LEMMA CompleteTypes ==
  ASSUME FinishingTypes, NEW c \in Calls, NEW reason \in Reasons \cup {None}, Complete(c, reason)
  PROVE  /\ call' \in [Calls -> Record]
         /\ why' \in [Calls -> Reasons \cup {None}]
         /\ timers' \in [Calls -> SUBSET {"originate", "maxcall"}]
<1>1. call[c] \in Record /\ why[c] \in Reasons \cup {None} /\ Final(c, reason) \in Reasons \cup {None}
  BY DEF FinishingTypes, Record, Final
<1>2. [call[c] EXCEPT !.status = "over", !.intent = None, !.reason = Final(c, reason)] \in Record
  BY <1>1 DEF Record, Statuses
<1>3. CASE storeOk /\ TerminalRecord(c, reason)
  BY <1>2, <1>3 DEF TerminalRecord, FinishingTypes
<1>4. CASE timers' = [timers EXCEPT ![c] = {}] /\ UNCHANGED <<call, why>>
  BY <1>4 DEF FinishingTypes
<1> QED BY <1>3, <1>4 DEF Complete

LEMMA SettleOkTypes ==
  ASSUME TypeOK, NEW c \in Calls, SettleOk(c)
  PROVE  /\ term' \in [Calls -> {"none", "saving", "killing", "completing", "retaining"}]
         /\ again' \in SUBSET Calls
         /\ rec' \in Reconciliation
BY DEF TypeOK, FinishingTypes, SettleOk, Reconciliation

LEMMA SettleFailedTypes ==
  ASSUME TypeOK, NEW c \in Calls, NEW left \in SUBSET {"originate", "maxcall"},
         SettleFailed(c, left)
  PROVE  FinishingTypes' /\ again' \in SUBSET Calls /\ rec' \in Reconciliation
<1>1. again' \in SUBSET Calls /\ rec' \in Reconciliation
  BY RecTypes DEF TypeOK, SettleFailed
<1>2. CASE FinishAll({c}, "AUTOMATION_FAILED")
  BY <1>1, <1>2, FinishAllTypes DEF TypeOK, Reasons
<1>3. CASE /\ term' = [term EXCEPT ![c] = "none"]
           /\ timers' = [timers EXCEPT ![c] = left]
           /\ UNCHANGED <<call, flushing, why>>
  BY <1>1, <1>3 DEF TypeOK, FinishingTypes
<1> QED BY <1>2, <1>3 DEF SettleFailed

LEMMA OpTypes ==
  ASSUME TypeOK, NEW c \in Calls
  PROVE  /\ OpDone(c) => op' \in [Calls -> Operation]
         /\ OpFails(c) => FinishingTypes' /\ op' \in [Calls -> Operation]
         /\ \A pc \in {"answering", "wiring", "turn", "resaved", "ending"} :
              \A intent \in Reasons \cup {None} :
                OpAt(c, pc, intent) => op' \in [Calls -> Operation]
<1>1. [pc |-> "idle", intent |-> None] \in Operation
  BY DEF Operation
<1>2. OpDone(c) => op' \in [Calls -> Operation]
  BY <1>1 DEF OpDone, OpAt, TypeOK
<1>3. OpFails(c) => FinishingTypes'
  BY FinishTypes, {c} \in SUBSET Calls DEF OpFails, TypeOK, Reasons
<1>4. OpFails(c) => op' \in [Calls -> Operation]
  BY <1>1, <1>2 DEF OpFails, OpDone, OpAt, TypeOK
<1>5. ASSUME NEW pc \in {"answering", "wiring", "turn", "resaved", "ending"}, NEW intent \in Reasons \cup {None},
             OpAt(c, pc, intent)
      PROVE  op' \in [Calls -> Operation]
  <2>1. [pc |-> pc, intent |-> intent] \in Operation
    BY DEF Operation
  <2> QED BY <1>5, <2>1 DEF OpAt, TypeOK
<1> QED BY <1>2, <1>3, <1>4, <1>5

LEMMA SaveCopyTypes ==
  ASSUME TypeOK, NEW c \in Calls, SaveCopy(c, op[c].intent), UNCHANGED <<term, why, timers>>
  PROVE  FinishingTypes'
<1>1. call[c] \in Record /\ op[c].intent \in Reasons \cup {None}
  BY DEF TypeOK, FinishingTypes, Operation
<1>2. [call[c] EXCEPT !.intent = op[c].intent] \in Record
  BY <1>1 DEF Record
<1> QED BY <1>2 DEF SaveCopy, Await, TypeOK, FinishingTypes, Roles

LEMMA TerminatingTypes ==
  ASSUME TypeOK, NEW c \in Calls, Terminating(c)
  PROVE  TypeOK'
<1>1. CASE TermSaved(c)
  BY <1>1, WorldStays, GatewayStays DEF TypeOK, TermSaved, FinishingTypes
<1>2. CASE KillReply(c)
  <2>0. GatewayTypes'
    BY <1>2 DEF TypeOK, KillReply, Overlooks, GatewayTypes
  <2>1. CASE SettleOk(c) /\ UNCHANGED <<call, why, timers, flushing>>
    BY <1>2, <2>0, <2>1, SettleOkTypes, WorldStays DEF TypeOK, KillReply, FinishingTypes
  <2>2. CASE /\ Complete(c, why[c]) /\ Await(c, "term")
             /\ term' = [term EXCEPT ![c] = "completing"] /\ UNCHANGED <<rec, again>>
    BY <1>2, <2>0, <2>2, CompleteTypes, AwaitTypes, WorldStays
    DEF TypeOK, KillReply, FinishingTypes, Roles
  <2>3. CASE SettleFailed(c, {})
    BY <1>2, <2>0, <2>3, SettleFailedTypes, WorldStays DEF TypeOK, KillReply
  <2> QED BY <1>2, <2>1, <2>2, <2>3 DEF KillReply
<1>3. CASE TermCompleted(c)
  BY <1>3, SettleOkTypes, WorldStays, GatewayStays DEF TypeOK, TermCompleted, FinishingTypes
<1>4. CASE KillFails(c)
  <2>1. CASE SettleOk(c) /\ UNCHANGED <<call, why, timers, flushing>>
    BY <1>4, <2>1, SettleOkTypes, WorldStays, GatewayStays DEF TypeOK, KillFails, FinishingTypes
  <2>2. CASE /\ Await(c, "term") /\ term' = [term EXCEPT ![c] = "retaining"]
             /\ UNCHANGED <<rec, again, call, why, timers>>
    BY <1>4, <2>2, AwaitTypes, WorldStays, GatewayStays DEF TypeOK, KillFails, FinishingTypes, Roles
  <2>3. CASE SettleFailed(c, timers[c])
    <3>1. timers[c] \in SUBSET {"originate", "maxcall"}
      BY DEF TypeOK, FinishingTypes
    <3> QED BY <1>4, <2>3, <3>1, SettleFailedTypes, WorldStays, GatewayStays DEF TypeOK, KillFails
  <2> QED BY <1>4, <2>1, <2>2, <2>3 DEF KillFails
<1>5. CASE TermRetained(c)
  <2>1. timers[c] \in SUBSET {"originate", "maxcall"}
    BY DEF TypeOK, FinishingTypes
  <2> QED BY <1>5, <2>1, SettleFailedTypes, WorldStays, GatewayStays DEF TypeOK, TermRetained
<1> QED BY <1>1, <1>2, <1>3, <1>4, <1>5 DEF Terminating

LEMMA StartFailsTypes ==
  ASSUME TypeOK, NEW c \in Calls, StartFails(c)
  PROVE  /\ FinishingTypes'
         /\ start' \in [Calls -> {"idle", "saving", "waiting", "prepared", "written", "done"}]
BY FinishTypes, {c} \in SUBSET Calls DEF StartFails, TypeOK, Reasons

LEMMA StartingTypes ==
  ASSUME TypeOK, NEW c \in Calls, StartBegin(c) \/ Starting(c)
  PROVE  TypeOK'
<1>1. CASE StartBegin(c)
  BY <1>1, AwaitTypes, WorldStays, GatewayStays
  DEF TypeOK, StartBegin, FinishingTypes, WorldTypes, Roles, NoRecord, Record, Statuses
<1>2. CASE StartSaved(c)
  <2>1. \A timer \in {"originate", "maxcall"} :
          Schedule(c, timer) \in [Calls -> SUBSET {"originate", "maxcall"}]
    BY DEF TypeOK, FinishingTypes, Schedule
  <2>2. CASE StartFails(c)
    BY <1>2, <2>2, StartFailsTypes, WorldStays, GatewayStays DEF TypeOK, StartSaved
  <2>3. CASE /\ start' \in {[start EXCEPT ![c] = "waiting"], [start EXCEPT ![c] = "done"]}
             /\ timers' \in {timers, Schedule(c, "originate")}
             /\ UNCHANGED <<call, flushing, term, why>>
    BY <1>2, <2>1, <2>3, WorldStays, GatewayStays DEF TypeOK, StartSaved, FinishingTypes
  <2> QED BY <1>2, <2>2, <2>3 DEF StartSaved
<1>3. CASE StartPrepare(c)
  <2>1. CASE StartFails(c)
    BY <1>3, <2>1, StartFailsTypes, WorldStays, GatewayStays DEF TypeOK, StartPrepare
  <2>2. CASE /\ call' = [call EXCEPT ![c].auth = evidence] /\ Await(c, "start")
             /\ start' = [start EXCEPT ![c] = "prepared"] /\ UNCHANGED <<term, why, timers>>
    <3>1. call[c] \in Record /\ evidence \in Evidence \cup {None}
      BY DEF TypeOK, FinishingTypes, WorldTypes
    <3>2. [call[c] EXCEPT !.auth = evidence] \in Record
      BY <3>1 DEF Record
    <3> QED BY <1>3, <2>2, <3>2, AwaitTypes, WorldStays, GatewayStays
            DEF TypeOK, StartPrepare, FinishingTypes, Roles
  <2> QED BY <1>3, <2>1, <2>2 DEF StartPrepare
<1>4. CASE StartWrite(c)
  <2>1. CASE StartFails(c) /\ UNCHANGED chan
    BY <1>4, <2>1, StartFailsTypes, WorldStays DEF TypeOK, StartWrite, GatewayTypes
  <2>2. CASE /\ chan' = [chan EXCEPT ![c] = "job"]
             /\ start' = [start EXCEPT ![c] = "written"] /\ UNCHANGED finishing
    BY <1>4, <2>2, FinishingStays, WorldStays DEF TypeOK, StartWrite, GatewayTypes
  <2> QED BY <1>4, <2>1, <2>2 DEF StartWrite
<1>5. CASE StartReply(c)
  <2>1. CASE StartFails(c)
    BY <1>5, <2>1, StartFailsTypes, WorldStays, GatewayStays DEF TypeOK, StartReply
  <2>2. CASE start' = [start EXCEPT ![c] = "done"] /\ NoFinish
    BY <1>5, <2>2, FinishingStays, WorldStays, GatewayStays DEF TypeOK, StartReply, NoFinish
  <2> QED BY <1>5, <2>1, <2>2 DEF StartReply
<1> QED BY <1>1, <1>2, <1>3, <1>4, <1>5 DEF Starting

LEMMA TimingTypes ==
  ASSUME TypeOK, NEW c \in Calls, Timing(c) \/ Stop(c)
  PROVE  TypeOK'
<1>1. \A reason \in Reasons : Finish({c}, reason) => FinishingTypes'
  BY FinishTypes, {c} \in SUBSET Calls DEF TypeOK
<1>2. ASSUME NEW timer, timers' = [timers EXCEPT ![c] = @ \ {timer}],
             UNCHANGED <<call, flushing, term, why>>
      PROVE  FinishingTypes'
  BY <1>2 DEF TypeOK, FinishingTypes
<1>3. CASE NoAnswer(c)
  <2>1. FinishingTypes'
    BY <1>1, <1>2, <1>3 DEF NoAnswer, Reasons
  <2> QED BY <1>3, <2>1, WorldStays, GatewayStays DEF TypeOK, NoAnswer
<1>4. CASE MaxCall(c)
  <2>1. FinishingTypes'
    BY <1>1, <1>2, <1>4 DEF MaxCall, Reasons
  <2> QED BY <1>4, <2>1, WorldStays, GatewayStays DEF TypeOK, MaxCall
<1>5. CASE Stop(c)
  BY <1>1, <1>5, WorldStays, GatewayStays DEF TypeOK, Stop, Reasons
<1> QED BY <1>3, <1>4, <1>5 DEF Timing

LEMMA HearingTypes ==
  ASSUME TypeOK, NEW c \in Calls, Hearing(c)
  PROVE  TypeOK'
<1>1. \A event : Hear(c, event) => news' \in [Calls -> SUBSET {"answered", "hangup", "failed"}]
  BY DEF TypeOK, GatewayTypes, Hear
<1>2. \A reason \in Reasons : Complete(c, reason) =>
        /\ call' \in [Calls -> Record]
        /\ why' \in [Calls -> Reasons \cup {None}]
        /\ timers' \in [Calls -> SUBSET {"originate", "maxcall"}]
  BY CompleteTypes DEF TypeOK
<1>3. CASE HangupEvent(c)
  BY <1>1, <1>2, <1>3, WorldStays
  DEF TypeOK, HangupEvent, FinishingTypes, GatewayTypes, Reasons
<1>4. CASE OriginateFailedEvent(c)
  BY <1>1, <1>2, <1>4, WorldStays
  DEF TypeOK, OriginateFailedEvent, FinishingTypes, GatewayTypes, Reasons
<1>5. CASE AnsweredEvent(c)
  <2>1. GatewayTypes'
    BY <1>1, <1>5 DEF AnsweredEvent, TypeOK, GatewayTypes
  <2>2. CASE OpFails(c)
    BY <1>5, <2>1, <2>2, OpTypes, WorldStays DEF TypeOK, AnsweredEvent
  <2>3. CASE NoFinish /\ UNCHANGED op
    BY <1>5, <2>1, <2>3, FinishingStays, WorldStays DEF TypeOK, AnsweredEvent, NoFinish
  <2>4. CASE /\ call' = [call EXCEPT ![c].status = "answered"] /\ Await(c, "op")
             /\ OpAt(c, "answering", call[c].intent) /\ UNCHANGED <<term, why, timers>>
    <3>1. call[c] \in Record /\ call[c].intent \in Reasons \cup {None}
      BY DEF TypeOK, FinishingTypes, Record
    <3>2. [call[c] EXCEPT !.status = "answered"] \in Record
      BY <3>1 DEF Record, Statuses
    <3> QED BY <1>5, <2>1, <2>4, <3>1, <3>2, OpTypes, AwaitTypes, WorldStays
            DEF TypeOK, AnsweredEvent, FinishingTypes, Roles
  <2> QED BY <1>5, <2>2, <2>3, <2>4 DEF AnsweredEvent
<1> QED BY <1>3, <1>4, <1>5 DEF Hearing

LEMMA HandlingTypes ==
  ASSUME TypeOK, NEW c \in Calls, Handling(c) \/ Turn(c) \/ FlowEnds(c)
  PROVE  TypeOK'
<1>1. op[c].intent \in Reasons \cup {None} /\ call[c].intent \in Reasons \cup {None}
  BY DEF TypeOK, FinishingTypes, Operation, Record
<1>2. Await(c, "op") /\ UNCHANGED <<call, term, why, timers>> => FinishingTypes'
  BY AwaitTypes DEF TypeOK, FinishingTypes, Roles
<1>3. CASE AnswerSaved(c)
  <2>1. CASE OpFails(c)
    BY <1>3, <2>1, OpTypes, WorldStays, GatewayStays DEF TypeOK, AnswerSaved
  <2>2. CASE /\ timers' = Schedule(c, "maxcall") /\ OpAt(c, "wiring", op[c].intent)
             /\ UNCHANGED <<call, flushing, term, why>>
    BY <1>1, <1>3, <2>2, OpTypes, WorldStays, GatewayStays
    DEF TypeOK, AnswerSaved, FinishingTypes, Schedule
  <2> QED BY <1>3, <2>1, <2>2 DEF AnswerSaved
<1>4. CASE AnswerWired(c)
  <2>1. CASE OpFails(c)
    BY <1>4, <2>1, OpTypes, WorldStays, GatewayStays DEF TypeOK, AnswerWired
  <2>2. CASE NoFinish /\ OpDone(c)
    BY <1>4, <2>2, OpTypes, FinishingStays, WorldStays, GatewayStays
    DEF TypeOK, AnswerWired, NoFinish
  <2>3. CASE /\ SaveCopy(c, op[c].intent) /\ OpAt(c, "resaved", None)
             /\ UNCHANGED <<term, why, timers>>
    BY <1>4, <2>3, SaveCopyTypes, OpTypes, WorldStays, GatewayStays DEF TypeOK, AnswerWired
  <2> QED BY <1>4, <2>1, <2>2, <2>3 DEF AnswerWired
<1>5. CASE Turn(c)
  <2>1. CASE OpFails(c)
    BY <1>5, <2>1, OpTypes, WorldStays, GatewayStays DEF TypeOK, Turn
  <2>2. CASE /\ Await(c, "op") /\ OpAt(c, "turn", call[c].intent)
             /\ UNCHANGED <<call, term, why, timers>>
    BY <1>1, <1>2, <1>5, <2>2, OpTypes, WorldStays, GatewayStays DEF TypeOK, Turn
  <2> QED BY <1>5, <2>1, <2>2 DEF Turn
<1>6. CASE TurnRoutes(c)
  <2>1. CASE OpFails(c)
    BY <1>6, <2>1, OpTypes, WorldStays, GatewayStays DEF TypeOK, TurnRoutes
  <2>2. CASE /\ SaveCopy(c, op[c].intent) /\ OpAt(c, "resaved", None)
             /\ UNCHANGED <<term, why, timers>>
    BY <1>6, <2>2, SaveCopyTypes, OpTypes, WorldStays, GatewayStays DEF TypeOK, TurnRoutes
  <2> QED BY <1>6, <2>1, <2>2 DEF TurnRoutes
<1>7. CASE OpEnds(c)
  <2>1. CASE OpFails(c)
    BY <1>7, <2>1, OpTypes, WorldStays, GatewayStays DEF TypeOK, OpEnds
  <2>2. CASE OpDone(c) /\ NoFinish
    BY <1>7, <2>2, OpTypes, FinishingStays, WorldStays, GatewayStays DEF TypeOK, OpEnds, NoFinish
  <2> QED BY <1>7, <2>1, <2>2 DEF OpEnds
<1>8. CASE FlowEnds(c)
  <2>1. CASE OpFails(c)
    BY <1>8, <2>1, OpTypes, WorldStays, GatewayStays DEF TypeOK, FlowEnds
  <2>2. CASE /\ Await(c, "op") /\ OpAt(c, "ending", None)
             /\ UNCHANGED <<call, term, why, timers>>
    BY <1>2, <1>8, <2>2, OpTypes, WorldStays, GatewayStays DEF TypeOK, FlowEnds
  <2> QED BY <1>8, <2>1, <2>2 DEF FlowEnds
<1>9. CASE FlowEnded(c)
  <2>1. Finish({c}, "FLOW_COMPLETED") => FinishingTypes'
    BY FinishTypes, {c} \in SUBSET Calls DEF TypeOK, Reasons
  <2> QED BY <1>9, <2>1, OpTypes, WorldStays, GatewayStays DEF TypeOK, FlowEnded
<1> QED BY <1>3, <1>4, <1>5, <1>6, <1>7, <1>8, <1>9 DEF Handling

LEMMA ReconcilingTypes ==
  ASSUME TypeOK, Reconciling
  PROVE  TypeOK'
<1>1. CASE RecList
  <2>1. GatewayTypes'
    BY <1>1 DEF TypeOK, RecList, Overlooks, GatewayTypes
  <2> QED BY <1>1, <2>1, FinishingStays, WorldStays
          DEF TypeOK, RecList, Reconciliation, LiveCalls, ActiveCalls
<1>2. CASE RecLosesLink
  BY <1>2, RecTypes, FinishingStays, WorldStays, GatewayStays DEF TypeOK, RecLosesLink
<1>3. CASE RecRecorded
  <2>1. rec' \in Reconciliation
    BY <1>3, RecTypes DEF TypeOK, RecRecorded, Reconciliation
  <2> QED BY <1>3, <2>1, FinishingStays, WorldStays, GatewayStays DEF TypeOK, RecRecorded
<1>4. CASE RecDone
  BY <1>4, RecTypes, FinishingStays, GatewayStays DEF TypeOK, RecDone, WorldTypes
<1>5. ASSUME NEW c \in Calls, RecSweeps(c)
      PROVE  TypeOK'
  <2>1. rec' \in Reconciliation
    BY <1>5 DEF TypeOK, RecSweeps, Reconciliation
  <2> QED BY <1>5, <2>1, FinishingStays, WorldStays DEF TypeOK, RecSweeps, GatewayTypes
<1>6. ASSUME NEW c \in Calls, RecFinishes(c)
      PROVE  TypeOK'
  <2>1. rec' \in Reconciliation
    BY <1>6 DEF TypeOK, RecFinishes, Reconciliation
  <2>2. FinishingTypes'
    BY <1>6, FinishTypes, {c} \in SUBSET Calls DEF TypeOK, RecFinishes, Reasons
  <2> QED BY <1>6, <2>1, <2>2, WorldStays, GatewayStays DEF TypeOK, RecFinishes
<1>7. ASSUME NEW c \in Calls, RecCompletes(c)
      PROVE  TypeOK'
  <2>1. rec' \in Reconciliation
    <3>1. rec' \in {RecFailed, [rec EXCEPT !.todo = @ \ {c}],
                    [rec EXCEPT !.pc = "recording", !.cur = c, !.todo = @ \ {c}]}
      BY <1>7 DEF RecCompletes
    <3>2. [rec EXCEPT !.todo = @ \ {c}] \in Reconciliation
      BY DEF TypeOK, Reconciliation
    <3>3. [rec EXCEPT !.pc = "recording", !.cur = c, !.todo = @ \ {c}] \in Reconciliation
      BY DEF TypeOK, Reconciliation
    <3> QED BY <3>1, <3>2, <3>3, RecTypes
  <2>2. CASE /\ Complete(c, "INTERRUPTED") /\ (Await(c, "rec") \/ UNCHANGED flushing)
    BY <1>7, <2>1, <2>2, CompleteTypes, AwaitTypes, WorldStays, GatewayStays
    DEF TypeOK, RecCompletes, FinishingTypes, Roles, Reasons
  <2>3. CASE UNCHANGED <<call, why, timers, flushing>>
    BY <1>7, <2>1, <2>3, WorldStays, GatewayStays DEF TypeOK, RecCompletes, FinishingTypes
  <2> QED BY <1>7, <2>2, <2>3 DEF RecCompletes
<1> QED BY <1>1, <1>2, <1>3, <1>4, <1>5, <1>6, <1>7 DEF Reconciling

LEMMA ConnectionTypes ==
  ASSUME TypeOK, Drop \/ Reconnect
  PROVE  TypeOK'
<1>1. CASE Drop
  <2>1. FinishingTypes'
    BY <1>1, FinishTypes, {c \in Calls : start[c] = "written"} \in SUBSET Calls
    DEF TypeOK, Drop, Reasons
  <2>2. GatewayTypes' /\ WorldTypes'
    BY <1>1, BoundAssumption DEF TypeOK, Drop, GatewayTypes, WorldTypes
  <2> QED BY <1>1, <2>1, <2>2 DEF TypeOK, Drop
<1>2. CASE Reconnect
  BY <1>2, RecTypes, FinishingStays, WorldStays DEF TypeOK, Reconnect, GatewayTypes
<1> QED BY <1>1, <1>2

LEMMA ExitTypes ==
  ASSUME TypeOK, Exit, crashes' \in 0..MaxCrashes
  PROVE  TypeOK'
BY RecTypes DEF TypeOK, Exit, WorldTypes, GatewayTypes, FinishingTypes, Operation, Roles

LEMMA ProcessTypes ==
  ASSUME TypeOK, Crash \/ BootFails \/ Restart \/ BeginShutdown \/ DrainCalls \/ ShutdownExit
  PROVE  TypeOK'
<1>1. CASE Crash
  BY <1>1, ExitTypes, BoundAssumption DEF Crash, TypeOK, WorldTypes
<1>2. CASE BootFails \/ ShutdownExit
  BY <1>2, ExitTypes DEF BootFails, ShutdownExit, TypeOK, WorldTypes
<1>3. CASE Restart
  BY <1>3, RecTypes, GatewayStays DEF Restart, TypeOK, WorldTypes, FinishingTypes, Record
<1>4. CASE BeginShutdown
  BY <1>4, BoundAssumption, FinishingStays, GatewayStays DEF BeginShutdown, TypeOK, WorldTypes
<1>5. CASE DrainCalls
  BY <1>5, FinishTypes, WorldStays, GatewayStays DEF DrainCalls, TypeOK, Reasons
<1> QED BY <1>1, <1>2, <1>3, <1>4, <1>5

LEMMA StoreTypes ==
  ASSUME TypeOK, (\E c \in Calls : Commit(c)) \/ StoreFails \/ EvidenceChanges
  PROVE  TypeOK'
<1>1. ASSUME NEW c \in Calls, Commit(c)
      PROVE  TypeOK'
  BY <1>1, WorldStays, GatewayStays DEF Commit, TypeOK, FinishingTypes
<1>2. CASE StoreFails
  <2>1. row' \in [Calls -> Record]
    BY <1>2 DEF StoreFails, TypeOK, FinishingTypes
  <2>2. WorldTypes'
    BY <1>2, BoundAssumption DEF StoreFails, TypeOK, WorldTypes
  <2> QED BY <1>2, <2>1, <2>2, FinishingStays, GatewayStays DEF StoreFails, TypeOK
<1>3. CASE EvidenceChanges
  BY <1>3, BoundAssumption, FinishingStays, GatewayStays DEF EvidenceChanges, TypeOK, WorldTypes
<1> QED BY <1>1, <1>2, <1>3

LEMMA GatewayStepTypes ==
  ASSUME TypeOK, NEW c \in Calls, Gateway(c)
  PROVE  TypeOK'
<1>1. ApiSame /\ GatewayTypes' => TypeOK'
  BY FinishingStays, WorldStays DEF ApiSame, TypeOK
<1>2. ASSUME NEW events \in SUBSET {"answered", "hangup", "failed"}, Tell(c, events)
      PROVE  news' \in [Calls -> SUBSET {"answered", "hangup", "failed"}]
  BY <1>2 DEF TypeOK, GatewayTypes, Tell
<1>3. GatewayTypes' /\ ApiSame
  BY <1>2 DEF Gateway, FsCreates, FsRejects, FsAnswers, FsEnds, FsKills, ApiSame,
              TypeOK, GatewayTypes
<1> QED BY <1>1, <1>3

LEMMA TypeStep == TypeOK /\ [Next]_vars => TypeOK'
<1>1. TypeOK /\ UNCHANGED vars => TypeOK'
  BY FinishingStays, WorldStays, GatewayStays DEF vars, TypeOK
<1> QED BY <1>1, StartingTypes, TerminatingTypes, TimingTypes, HearingTypes, HandlingTypes,
           ReconcilingTypes, ConnectionTypes, ProcessTypes, StoreTypes, GatewayStepTypes
        DEF Next

-----------------------------------------------------------------------------
(* Kinds of steps.  The safety properties relate the cached records, the     *)
(* rows, the starts and the channels; every step is, for these, quiet or one *)
(* of a few kinds.                                                           *)

\* Statuses, permissions and terminal records stay, and so do start()'s flushes.
MildFinishing ==
  \A d \in Calls :
    /\ call'[d].status = call[d].status /\ call'[d].auth = call[d].auth
    /\ ~Active(d) => call'[d] = call[d]
    /\ "start" \in flushing'[d] <=> "start" \in flushing[d]
    /\ term'[d] = "completing" => term[d] = "completing"

StartsOnlyEnd ==
  \A d \in Calls : start'[d] = start[d] \/ (start[d] # "idle" /\ start'[d] = "done")
ChannelsStay ==
  /\ \A d \in Calls : chan'[d] = chan[d] /\ news'[d] \subseteq news[d]
  /\ overlooked \subseteq overlooked'

Quiet == MildFinishing /\ StartsOnlyEnd /\ ChannelsStay /\ UNCHANGED row

\* A call gets its terminal record; only HangupEvent, OriginateFailedEvent, KillReply
\* and RecCompletes do this.
Ending(c) ==
  /\ Active(c) /\ (~Dialed(c) \/ c \in overlooked')
  /\ call'[c].status = "over" /\ call'[c].auth = call[c].auth
  /\ \A d \in Calls : /\ d # c => call'[d] = call[d]
                      /\ "start" \in flushing'[d] <=> "start" \in flushing[d]
                      /\ term'[d] = "completing" => term[d] = "completing" \/ d = c
  /\ StartsOnlyEnd /\ ChannelsStay /\ UNCHANGED row

\* The gateway moves a channel on, and perhaps says so.
Moving(c) ==
  /\ chan[c] \in {"job", "ringing", "up"} /\ chan'[c] \in {"ringing", "up", "gone"}
  /\ \A d \in Calls : d # c => chan'[d] = chan[d] /\ news'[d] = news[d]
  /\ {"hangup", "failed"} \cap news'[c] # {} => chan'[c] = "gone"
  /\ UNCHANGED <<call, row, flushing, start, term, overlooked>>

\* The steps of start() that are not quiet: reserve, saved, prepare(), write.
Opening(c) ==
  /\ start[c] = "idle" /\ call[c].status = "absent" /\ ~reconciling
  /\ Cardinality(ActiveCalls) < Ceiling
  /\ call'[c].status = "queued" /\ start'[c] = "saving" /\ "start" \in flushing'[c]
  /\ \A d \in Calls : d # c => /\ call'[d] = call[d] /\ start'[d] = start[d]
                               /\ flushing'[d] = flushing[d]
  /\ UNCHANGED <<row, chan, news, overlooked, term>>
Advancing(c) ==
  /\ start[c] = "saving" /\ start'[c] = "waiting" /\ "start" \notin flushing[c]
  /\ \A d \in Calls : d # c => start'[d] = start[d]
  /\ UNCHANGED <<call, flushing, term, row, chan, news, overlooked>>
Preparing(c) ==
  /\ start[c] = "waiting" /\ start'[c] = "prepared" /\ "start" \in flushing'[c] /\ Active(c)
  /\ call'[c].status = call[c].status /\ call'[c].auth # None
  /\ \A d \in Calls : d # c => /\ call'[d] = call[d] /\ start'[d] = start[d]
                               /\ flushing'[d] = flushing[d]
  /\ UNCHANGED <<row, chan, news, overlooked, term>>
Writing(c) ==
  /\ start[c] = "prepared" /\ start'[c] = "written" /\ MayWrite(c)
  /\ chan'[c] = "job"
  /\ \A d \in Calls : d # c => chan'[d] = chan[d] /\ start'[d] = start[d]
  /\ UNCHANGED <<call, row, flushing, news, overlooked, term>>

Answering(c) ==
  /\ "answered" \in news[c] /\ Active(c)
  /\ call'[c].status = "answered" /\ call'[c].auth = call[c].auth
  /\ \A d \in Calls : /\ d # c => call'[d] = call[d]
                      /\ "start" \in flushing'[d] <=> "start" \in flushing[d]
  /\ StartsOnlyEnd /\ ChannelsStay /\ UNCHANGED <<row, term>>

\* Some rows catch up with the cache.
Committing ==
  /\ \A d \in Calls : /\ row'[d] \in {row[d], call[d]}
                      /\ "start" \in flushing'[d] => "start" \in flushing[d]
                      /\ "start" \notin flushing'[d] /\ "start" \in flushing[d] => row'[d] = call[d]
  /\ UNCHANGED <<call, start, chan, news, overlooked, term>>

Kind ==
  \/ Quiet \/ Committing \/ Exit
  \/ \E c \in Calls : \/ Opening(c) \/ Advancing(c) \/ Preparing(c) \/ Writing(c)
                      \/ Answering(c) \/ Ending(c) \/ Moving(c)

LEMMA FinishAllIsMild ==
  ASSUME FinishingTypes, NEW T \in SUBSET ActiveCalls, NEW reason, FinishAll(T, reason)
  PROVE  MildFinishing
<1> SUFFICES ASSUME NEW d \in Calls
             PROVE  /\ call'[d].status = call[d].status /\ call'[d].auth = call[d].auth
                    /\ ~Active(d) => call'[d] = call[d]
                    /\ "start" \in flushing'[d] <=> "start" \in flushing[d]
                    /\ term'[d] = "completing" => term[d] = "completing"
  BY DEF MildFinishing
<1>1. call[d] \in Record
  BY DEF FinishingTypes
<1>2. call'[d] = call[d] \/ (d \in T /\ call'[d] = [call[d] EXCEPT !.intent = Intended(d, reason)])
  BY DEF FinishAll
<1>3. call'[d].status = call[d].status /\ call'[d].auth = call[d].auth
  BY <1>1, <1>2 DEF Record
<1>4. ~Active(d) => call'[d] = call[d]
  BY <1>2 DEF ActiveCalls
<1> QED BY <1>3, <1>4 DEF FinishAll, FinishingTypes

LEMMA FinishIsMild ==
  ASSUME FinishingTypes, NEW S \in SUBSET Calls, NEW reason, Finish(S, reason)
  PROVE  MildFinishing
BY FinishAllIsMild, Finishable(S) \in SUBSET ActiveCalls DEF Finish, Finishable, ActiveCalls

LEMMA NoFinishIsMild == UNCHANGED <<call, flushing, term>> => MildFinishing
BY DEF MildFinishing

LEMMA AwaitIsMild ==
  ASSUME FinishingTypes, NEW c \in Calls, NEW role \in Roles \ {"start"}, Await(c, role),
         UNCHANGED <<call, term>>
  PROVE  MildFinishing
BY DEF Await, MildFinishing, FinishingTypes, Roles

LEMMA SettleOkIsMild ==
  ASSUME FinishingTypes, NEW c \in Calls, SettleOk(c), UNCHANGED <<call, flushing>>
  PROVE  MildFinishing
BY DEF SettleOk, MildFinishing, FinishingTypes

LEMMA SettleFailedIsMild ==
  ASSUME FinishingTypes, NEW c \in Calls, NEW left, SettleFailed(c, left)
  PROVE  MildFinishing
<1>1. CASE Active(c) /\ FinishAll({c}, "AUTOMATION_FAILED")
  BY <1>1, FinishAllIsMild, {c} \in SUBSET ActiveCalls DEF ActiveCalls
<1>2. CASE term' = [term EXCEPT ![c] = "none"] /\ UNCHANGED <<call, flushing, why>>
  BY <1>2 DEF MildFinishing, FinishingTypes
<1> QED BY <1>1, <1>2 DEF SettleFailed

LEMMA OpFailsIsMild ==
  ASSUME FinishingTypes, NEW c \in Calls, OpFails(c)
  PROVE  MildFinishing
BY FinishIsMild, {c} \in SUBSET Calls DEF OpFails

LEMMA SaveCopyIsMild ==
  ASSUME FinishingTypes, NEW c \in Calls, NEW intent, SaveCopy(c, intent), UNCHANGED term
  PROVE  MildFinishing
<1>1. \A d \in Calls : call[d] \in Record
  BY DEF FinishingTypes
<1>2. CASE Active(c) /\ call' = [call EXCEPT ![c].intent = intent] /\ Await(c, "op")
  <2>1. \A d \in Calls : call'[d] = call[d] \/ (d = c /\ call'[d] = [call[d] EXCEPT !.intent = intent])
    BY <1>2 DEF FinishingTypes
  <2>2. \A d \in Calls : call'[d].status = call[d].status /\ call'[d].auth = call[d].auth
    BY <1>1, <2>1 DEF Record
  <2>3. \A d \in Calls : ~Active(d) => call'[d] = call[d]
    BY <1>2, <2>1
  <2> QED BY <1>2, <2>2, <2>3 DEF Await, MildFinishing, FinishingTypes
<1> QED BY <1>2, NoFinishIsMild DEF SaveCopy

LEMMA TerminalRecordEnds ==
  ASSUME FinishingTypes, NEW c \in Calls, NEW reason, TerminalRecord(c, reason)
  PROVE  /\ call'[c].status = "over" /\ call'[c].auth = call[c].auth
         /\ \A d \in Calls : d # c => call'[d] = call[d]
<1>1. call[c] \in Record
  BY DEF FinishingTypes
<1>2. call'[c] = [call[c] EXCEPT !.status = "over", !.intent = None, !.reason = Final(c, reason)]
  BY DEF TerminalRecord, FinishingTypes
<1> QED BY <1>1, <1>2 DEF TerminalRecord, FinishingTypes, Record

LEMMA StayingIsQuiet ==
  /\ UNCHANGED gateway => ChannelsStay
  /\ \A S : Overlooks(S) /\ UNCHANGED <<chan, news>> => ChannelsStay
  /\ UNCHANGED start => StartsOnlyEnd
BY DEF ChannelsStay, StartsOnlyEnd, Overlooks, gateway

LEMMA StartFailsIsQuiet ==
  ASSUME TypeOK, NEW c \in Calls, StartFails(c), start[c] # "idle"
  PROVE  MildFinishing /\ StartsOnlyEnd
BY FinishIsMild, {c} \in SUBSET Calls DEF StartFails, StartsOnlyEnd, TypeOK

LEMMA TerminatingKind ==
  ASSUME TypeOK, NEW c \in Calls, Terminating(c)
  PROVE  Kind
<1>1. CASE TermSaved(c)
  BY <1>1, StayingIsQuiet DEF TermSaved, Kind, Quiet, MildFinishing, TypeOK, FinishingTypes
<1>2. CASE KillReply(c)
  <2>1. CASE SettleOk(c) /\ UNCHANGED <<call, why, timers, flushing>>
    BY <1>2, <2>1, SettleOkIsMild, StayingIsQuiet DEF KillReply, Kind, Quiet, TypeOK
  <2>2. CASE /\ Active(c) /\ storeOk /\ Complete(c, why[c]) /\ Await(c, "term")
             /\ term' = [term EXCEPT ![c] = "completing"]
    <3>1. TerminalRecord(c, why[c])
      BY <2>2 DEF Complete
    <3>2. /\ call'[c].status = "over" /\ call'[c].auth = call[c].auth
          /\ \A d \in Calls : d # c => call'[d] = call[d]
      BY <3>1, TerminalRecordEnds DEF TypeOK
    <3>3. \A d \in Calls : /\ "start" \in flushing'[d] <=> "start" \in flushing[d]
                           /\ term'[d] = "completing" => term[d] = "completing" \/ d = c
      BY <2>2 DEF Await, TypeOK, FinishingTypes
    <3>4. StartsOnlyEnd /\ ChannelsStay /\ UNCHANGED row
      BY <1>2, StayingIsQuiet DEF KillReply
    <3>6. ~Dialed(c) \/ c \in overlooked'
      BY <1>2 DEF KillReply, Overlooks, Dialed
    <3>5. Ending(c)
      BY <2>2, <3>2, <3>3, <3>4, <3>6 DEF Ending
    <3> QED BY <3>5 DEF Kind
  <2>3. CASE SettleFailed(c, {})
    BY <1>2, <2>3, SettleFailedIsMild, StayingIsQuiet DEF KillReply, Kind, Quiet, TypeOK
  <2> QED BY <1>2, <2>1, <2>2, <2>3 DEF KillReply
<1>3. CASE TermCompleted(c)
  BY <1>3, SettleOkIsMild, StayingIsQuiet DEF TermCompleted, Kind, Quiet, TypeOK
<1>4. CASE KillFails(c)
  <2>1. CASE SettleOk(c) /\ UNCHANGED <<call, why, timers, flushing>>
    BY <1>4, <2>1, SettleOkIsMild, StayingIsQuiet DEF KillFails, Kind, Quiet, TypeOK
  <2>2. CASE /\ Await(c, "term") /\ term' = [term EXCEPT ![c] = "retaining"]
             /\ UNCHANGED <<rec, again, call, why, timers>>
    BY <1>4, <2>2, StayingIsQuiet
    DEF KillFails, Kind, Quiet, MildFinishing, Await, TypeOK, FinishingTypes
  <2>3. CASE SettleFailed(c, timers[c])
    BY <1>4, <2>3, SettleFailedIsMild, StayingIsQuiet DEF KillFails, Kind, Quiet, TypeOK
  <2> QED BY <1>4, <2>1, <2>2, <2>3 DEF KillFails
<1>5. CASE TermRetained(c)
  BY <1>5, SettleFailedIsMild, StayingIsQuiet DEF TermRetained, Kind, Quiet, TypeOK
<1> QED BY <1>1, <1>2, <1>3, <1>4, <1>5 DEF Terminating

LEMMA StartingKind ==
  ASSUME TypeOK, NEW c \in Calls, StartBegin(c) \/ Starting(c)
  PROVE  Kind
<1>1. CASE StartBegin(c)
  <2>1. Opening(c)
    BY <1>1 DEF StartBegin, HasCapacity, Opening, Await, NoRecord, TypeOK, FinishingTypes, gateway
  <2> QED BY <2>1 DEF Kind
<1>2. CASE StartSaved(c)
  <2>1. CASE StartFails(c)
    BY <1>2, <2>1, StartFailsIsQuiet, StayingIsQuiet DEF StartSaved, Kind, Quiet
  <2>2. CASE start' = [start EXCEPT ![c] = "done"] /\ UNCHANGED <<call, flushing, term, why>>
    BY <1>2, <2>2, NoFinishIsMild, StayingIsQuiet
    DEF StartSaved, Kind, Quiet, StartsOnlyEnd, TypeOK
  <2>3. CASE /\ ~Threw(c, "start") /\ start' = [start EXCEPT ![c] = "waiting"]
             /\ UNCHANGED <<call, flushing, term, why>>
    <3>1. Advancing(c)
      BY <1>2, <2>3 DEF StartSaved, Advancing, Threw, TypeOK, gateway
    <3> QED BY <3>1 DEF Kind
  <2> QED BY <1>2, <2>1, <2>2, <2>3 DEF StartSaved
<1>3. CASE StartPrepare(c)
  <2>1. CASE StartFails(c)
    BY <1>3, <2>1, StartFailsIsQuiet, StayingIsQuiet DEF StartPrepare, Kind, Quiet
  <2>2. CASE /\ DialState(c) /\ evidence # None
             /\ call' = [call EXCEPT ![c].auth = evidence] /\ Await(c, "start")
             /\ start' = [start EXCEPT ![c] = "prepared"] /\ UNCHANGED <<term, why, timers>>
    <3>1. call[c] \in Record /\ call'[c] = [call[c] EXCEPT !.auth = evidence]
      BY <2>2 DEF TypeOK, FinishingTypes
    <3>2. call'[c].status = call[c].status /\ call'[c].auth # None
      BY <2>2, <3>1 DEF Record
    <3>3. Preparing(c)
      BY <1>3, <2>2, <3>2
      DEF StartPrepare, Preparing, Await, DialState, TypeOK, FinishingTypes, gateway
    <3> QED BY <3>3 DEF Kind
  <2> QED BY <1>3, <2>1, <2>2 DEF StartPrepare
<1>4. CASE StartWrite(c)
  <2>1. CASE StartFails(c) /\ UNCHANGED chan
    BY <1>4, <2>1, StartFailsIsQuiet DEF StartWrite, Kind, Quiet, ChannelsStay
  <2>2. CASE MayWrite(c) /\ UNCHANGED finishing
             /\ chan' = [chan EXCEPT ![c] = "job"]
             /\ start' = [start EXCEPT ![c] = "written"]
    <3>1. Writing(c)
      BY <1>4, <2>2 DEF StartWrite, Writing, finishing, TypeOK, GatewayTypes
    <3> QED BY <3>1 DEF Kind
  <2> QED BY <1>4, <2>1, <2>2 DEF StartWrite
<1>5. CASE StartReply(c)
  <2>1. CASE StartFails(c)
    BY <1>5, <2>1, StartFailsIsQuiet, StayingIsQuiet DEF StartReply, Kind, Quiet
  <2>2. CASE start' = [start EXCEPT ![c] = "done"] /\ NoFinish
    BY <1>5, <2>2, NoFinishIsMild, StayingIsQuiet
    DEF StartReply, NoFinish, finishing, Kind, Quiet, StartsOnlyEnd, TypeOK
  <2> QED BY <1>5, <2>1, <2>2 DEF StartReply
<1> QED BY <1>1, <1>2, <1>3, <1>4, <1>5 DEF Starting

LEMMA TimingKind ==
  ASSUME TypeOK, NEW c \in Calls, Timing(c) \/ Stop(c)
  PROVE  Kind
<1>1. \A reason : Finish({c}, reason) => MildFinishing
  BY FinishIsMild, {c} \in SUBSET Calls DEF TypeOK
<1>2. MildFinishing
  BY <1>1, NoFinishIsMild DEF Timing, NoAnswer, MaxCall, Stop
<1> QED BY <1>2, StayingIsQuiet DEF Timing, NoAnswer, MaxCall, Stop, Kind, Quiet

LEMMA HearingKind ==
  ASSUME TypeOK, ChannelHistory, NEW c \in Calls, Hearing(c)
  PROVE  Kind
<1>1. \A event : Hear(c, event) /\ UNCHANGED <<chan, overlooked>> => ChannelsStay
  BY DEF Hear, ChannelsStay, TypeOK, GatewayTypes
<1>2. ASSUME NEW reason, Active(c), Complete(c, reason), {"hangup", "failed"} \cap news[c] # {},
             ChannelsStay, UNCHANGED <<row, flushing, start, term>>
      PROVE  Quiet \/ Ending(c)
  <2>1. CASE TerminalRecord(c, reason)
    <3>1. /\ call'[c].status = "over" /\ call'[c].auth = call[c].auth
          /\ \A d \in Calls : d # c => call'[d] = call[d]
      BY <2>1, TerminalRecordEnds DEF TypeOK
    <3>2. ~Dialed(c)
      BY <1>2 DEF ChannelHistory, Dialed, Live
    <3>3. StartsOnlyEnd
      BY <1>2, StayingIsQuiet
    <3> QED BY <1>2, <3>1, <3>2, <3>3 DEF Ending
  <2>2. CASE UNCHANGED <<call, why>>
    BY <1>2, <2>2, NoFinishIsMild, StayingIsQuiet DEF Quiet
  <2> QED BY <1>2, <2>1, <2>2 DEF Complete
<1>3. CASE HangupEvent(c)
  <2>1. "hangup" \in news[c] /\ ChannelsStay
    BY <1>1, <1>3 DEF HangupEvent, Hear
  <2>2. CASE Active(c) /\ Complete(c, "HANGUP")
    BY <1>2, <1>3, <2>1, <2>2 DEF HangupEvent, Kind
  <2>3. CASE UNCHANGED <<call, why, timers>>
    BY <1>3, <2>1, <2>3, NoFinishIsMild, StayingIsQuiet DEF HangupEvent, Kind, Quiet
  <2> QED BY <1>3, <2>2, <2>3 DEF HangupEvent
<1>4. CASE OriginateFailedEvent(c)
  <2>1. "failed" \in news[c] /\ ChannelsStay
    BY <1>1, <1>4 DEF OriginateFailedEvent, Hear
  <2>2. CASE Active(c) /\ Complete(c, "ORIGINATE_FAILED")
    BY <1>2, <1>4, <2>1, <2>2 DEF OriginateFailedEvent, Kind
  <2>3. CASE UNCHANGED <<call, why, timers>>
    BY <1>4, <2>1, <2>3, NoFinishIsMild, StayingIsQuiet DEF OriginateFailedEvent, Kind, Quiet
  <2> QED BY <1>4, <2>2, <2>3 DEF OriginateFailedEvent
<1>5. CASE AnsweredEvent(c)
  <2>1. "answered" \in news[c] /\ ChannelsStay
    BY <1>1, <1>5 DEF AnsweredEvent, Hear
  <2>2. CASE OpFails(c)
    BY <1>5, <2>1, <2>2, OpFailsIsMild, StayingIsQuiet DEF AnsweredEvent, Kind, Quiet, TypeOK
  <2>3. CASE NoFinish
    BY <1>5, <2>1, <2>3, NoFinishIsMild, StayingIsQuiet
    DEF AnsweredEvent, NoFinish, finishing, Kind, Quiet
  <2>4. CASE /\ Active(c) /\ call' = [call EXCEPT ![c].status = "answered"] /\ Await(c, "op")
             /\ UNCHANGED <<term, why, timers>>
    <3>1. call[c] \in Record /\ call'[c] = [call[c] EXCEPT !.status = "answered"]
      BY <2>4 DEF TypeOK, FinishingTypes
    <3>2. call'[c].status = "answered" /\ call'[c].auth = call[c].auth
      BY <3>1 DEF Record
    <3>3. Answering(c)
      BY <1>5, <2>1, <2>4, <3>2, StayingIsQuiet
      DEF AnsweredEvent, Answering, Await, TypeOK, FinishingTypes
    <3> QED BY <3>3 DEF Kind
  <2> QED BY <1>5, <2>2, <2>3, <2>4 DEF AnsweredEvent, Heeds
<1> QED BY <1>3, <1>4, <1>5 DEF Hearing

LEMMA HandlingKind ==
  ASSUME TypeOK, NEW c \in Calls, Handling(c) \/ Turn(c) \/ FlowEnds(c)
  PROVE  Kind
<1>1. OpFails(c) => MildFinishing
  BY OpFailsIsMild DEF TypeOK
<1>2. \A intent : SaveCopy(c, intent) /\ UNCHANGED term => MildFinishing
  BY SaveCopyIsMild DEF TypeOK
<1>3. NoFinish => MildFinishing
  BY NoFinishIsMild DEF NoFinish, finishing
<1>4. Await(c, "op") /\ UNCHANGED <<call, term>> => MildFinishing
  BY AwaitIsMild DEF TypeOK, Roles
<1>5. UNCHANGED <<start, row, gateway>>
  BY DEF Handling, AnswerSaved, AnswerWired, Turn, TurnRoutes, OpEnds, FlowEnds, FlowEnded
<1>6. MildFinishing
  <2>1. AnswerSaved(c) => MildFinishing
    BY <1>1, NoFinishIsMild DEF AnswerSaved
  <2>2. AnswerWired(c) \/ OpEnds(c) => MildFinishing
    BY <1>1, <1>2, <1>3 DEF AnswerWired, OpEnds
  <2>3. TurnRoutes(c) => MildFinishing
    BY <1>1, <1>2 DEF TurnRoutes
  <2>4. Turn(c) \/ FlowEnds(c) => MildFinishing
    BY <1>1, <1>4 DEF Turn, FlowEnds
  <2>5. FlowEnded(c) => MildFinishing
    BY <1>1, FinishIsMild, {c} \in SUBSET Calls DEF FlowEnded, TypeOK
  <2> QED BY <2>1, <2>2, <2>3, <2>4, <2>5 DEF Handling
<1> QED BY <1>5, <1>6, StayingIsQuiet DEF Kind, Quiet

LEMMA ReconcilingKind ==
  ASSUME TypeOK, RecSees, Reconciling
  PROVE  Kind
<1>1. CASE RecList \/ RecLosesLink \/ RecRecorded \/ RecDone
  BY <1>1, NoFinishIsMild, StayingIsQuiet
  DEF RecList, RecLosesLink, RecRecorded, RecDone, finishing, Kind, Quiet
<1>2. ASSUME NEW c \in Calls, RecSweeps(c)
      PROVE  Kind
  <2>1. CASE /\ Live(c) /\ chan' = [chan EXCEPT ![c] = "gone"]
             /\ news' = [news EXCEPT ![c] = @ \cup {"hangup"}]
    <3>1. Moving(c)
      BY <1>2, <2>1 DEF RecSweeps, Moving, Live, finishing, TypeOK, GatewayTypes
    <3> QED BY <3>1 DEF Kind
  <2>2. CASE UNCHANGED <<chan, news>>
    BY <1>2, <2>2, NoFinishIsMild, StayingIsQuiet
    DEF RecSweeps, finishing, gateway, Kind, Quiet
  <2> QED BY <1>2, <2>1, <2>2 DEF RecSweeps
<1>3. ASSUME NEW c \in Calls, RecFinishes(c)
      PROVE  Kind
  BY <1>3, FinishIsMild, {c} \in SUBSET Calls, StayingIsQuiet
  DEF RecFinishes, Kind, Quiet, TypeOK
<1>4. ASSUME NEW c \in Calls, RecCompletes(c)
      PROVE  Kind
  <2>1. CASE Active(c) /\ storeOk /\ Complete(c, "INTERRUPTED") /\ Await(c, "rec")
    <3>1. /\ call'[c].status = "over" /\ call'[c].auth = call[c].auth
          /\ \A d \in Calls : d # c => call'[d] = call[d]
      BY <2>1, TerminalRecordEnds DEF Complete, TypeOK
    <3>2. \A d \in Calls : "start" \in flushing'[d] <=> "start" \in flushing[d]
      BY <2>1 DEF Await, TypeOK, FinishingTypes
    <3>3. UNCHANGED overlooked /\ (~Dialed(c) \/ c \in overlooked)
      BY <1>4 DEF RecCompletes, RecTakes, RecSees, Held, gateway
    <3>4. StartsOnlyEnd /\ ChannelsStay /\ UNCHANGED <<row, term>>
      BY <1>4, StayingIsQuiet DEF RecCompletes
    <3>5. Ending(c)
      BY <2>1, <3>1, <3>2, <3>3, <3>4 DEF Ending
    <3> QED BY <3>5 DEF Kind
  <2>2. CASE UNCHANGED <<call, flushing>>
    BY <1>4, <2>2, NoFinishIsMild, StayingIsQuiet DEF RecCompletes, Kind, Quiet
  <2> QED BY <1>4, <2>1, <2>2 DEF RecCompletes, Complete
<1> QED BY <1>1, <1>2, <1>3, <1>4 DEF Reconciling

LEMMA GatewayKind ==
  ASSUME TypeOK, ChannelHistory, NEW c \in Calls, Gateway(c)
  PROVE  Kind
<1>1. chan[c] \in {"job", "ringing", "up"} /\ chan'[c] \in {"ringing", "up", "gone"}
  BY DEF Gateway, FsCreates, FsRejects, FsAnswers, FsEnds, FsKills, Live, TypeOK, GatewayTypes
<1>2. \A d \in Calls : d # c => chan'[d] = chan[d] /\ news'[d] = news[d]
  BY DEF Gateway, FsCreates, FsRejects, FsAnswers, FsEnds, FsKills, Tell, TypeOK, GatewayTypes
<1>3. UNCHANGED <<call, row, flushing, start, term, overlooked>>
  BY DEF Gateway, FsCreates, FsRejects, FsAnswers, FsEnds, FsKills, ApiSame, finishing
<1>4. {"hangup", "failed"} \cap news[c] # {} => chan[c] = "gone"
  BY DEF ChannelHistory
<1>5. {"hangup", "failed"} \cap news'[c] # {} => chan'[c] = "gone"
  <2>1. CASE FsCreates(c)
    BY <1>1, <1>4, <2>1 DEF FsCreates, ChannelHistory
  <2>2. CASE FsAnswers(c)
    BY <1>4, <2>2 DEF FsAnswers, Tell, Live, TypeOK, GatewayTypes
  <2>3. CASE FsRejects(c) \/ FsEnds(c) \/ FsKills(c)
    BY <2>3 DEF FsRejects, FsEnds, FsKills, TypeOK, GatewayTypes
  <2> QED BY <2>1, <2>2, <2>3 DEF Gateway
<1>6. Moving(c)
  BY <1>1, <1>2, <1>3, <1>5 DEF Moving
<1> QED BY <1>6 DEF Kind

LEMMA StepKind ==
  ASSUME TypeOK, ChannelHistory, RecSees, [Next]_vars
  PROVE  Kind
<1>1. CASE UNCHANGED vars
  BY <1>1, NoFinishIsMild, StayingIsQuiet DEF vars, finishing, Kind, Quiet
<1>2. CASE Drop
  <2>1. MildFinishing
    BY <1>2, FinishIsMild, {c \in Calls : start[c] = "written"} \in SUBSET Calls DEF Drop, TypeOK
  <2>2. StartsOnlyEnd /\ ChannelsStay
    BY <1>2 DEF Drop, StartsOnlyEnd, ChannelsStay, TypeOK
  <2> QED BY <1>2, <2>1, <2>2 DEF Drop, Kind, Quiet
<1>3. CASE Reconnect \/ BeginShutdown \/ EvidenceChanges
  BY <1>3, NoFinishIsMild, StayingIsQuiet
  DEF Reconnect, BeginShutdown, EvidenceChanges, finishing, gateway, ChannelsStay, Kind, Quiet
<1>4. CASE Crash \/ BootFails \/ ShutdownExit
  BY <1>4 DEF Crash, BootFails, ShutdownExit, Kind
<1>5. CASE Restart
  BY <1>5, NoFinishIsMild, StayingIsQuiet DEF Restart, Kind, Quiet
<1>6. CASE DrainCalls
  BY <1>6, FinishIsMild, StayingIsQuiet DEF DrainCalls, Kind, Quiet, TypeOK
<1>7. ASSUME NEW c \in Calls, Commit(c)
      PROVE  Kind
  BY <1>7 DEF Commit, Committing, Kind, gateway, TypeOK, FinishingTypes
<1>8. CASE StoreFails
  BY <1>8 DEF StoreFails, Committing, Kind, gateway, finishing, TypeOK
<1> QED BY <1>1, <1>2, <1>3, <1>4, <1>5, <1>6, <1>7, <1>8, StartingKind, TerminatingKind,
           TimingKind, HearingKind, HandlingKind, ReconcilingKind, GatewayKind DEF Next

-----------------------------------------------------------------------------
(* The books are kept by every kind of step *)

LEMMA RowFollowsStep ==
  ASSUME TypeOK, RowFollows, Kind
  PROVE  RowFollows'
<1> SUFFICES ASSUME NEW d \in Calls
             PROVE  /\ row'[d].status = "over" => call'[d] = row'[d]
                    /\ call'[d].status = "absent" => row'[d].status = "absent"
  BY DEF RowFollows
<1>1. CASE Quiet
  BY <1>1 DEF RowFollows, Quiet, MildFinishing, Active
<1>2. CASE Committing
  BY <1>2 DEF RowFollows, Committing
<1>3. CASE Exit
  BY <1>3 DEF Exit
<1>4. ASSUME NEW c \in Calls, Opening(c) \/ Preparing(c) \/ Answering(c) \/ Ending(c)
      PROVE  /\ row'[d].status = "over" => call'[d] = row'[d]
             /\ call'[d].status = "absent" => row'[d].status = "absent"
  BY <1>4 DEF RowFollows, Opening, Preparing, Answering, Ending, Active
<1>5. ASSUME NEW c \in Calls, Advancing(c) \/ Writing(c) \/ Moving(c)
      PROVE  /\ row'[d].status = "over" => call'[d] = row'[d]
             /\ call'[d].status = "absent" => row'[d].status = "absent"
  BY <1>5 DEF RowFollows, Advancing, Writing, Moving
<1> QED BY <1>1, <1>2, <1>3, <1>4, <1>5 DEF Kind

LEMMA StartIsDurableStep ==
  ASSUME TypeOK, RowFollows, StartIsDurable, Kind
  PROVE  StartIsDurable'
<1> DEFINE Durable(d) ==
      /\ start[d] # "idle" => call[d].status # "absent"
      /\ start[d] = "saving" /\ "start" \notin flushing[d] => row[d].status # "absent"
      /\ start[d] \in {"waiting", "prepared", "written"} => row[d].status # "absent"
      /\ start[d] = "prepared" => /\ call[d].auth # None
                                  /\ "start" \in flushing[d] \/ row[d].auth = call[d].auth
<1> SUFFICES ASSUME NEW d \in Calls
             PROVE  Durable(d)'
  BY DEF StartIsDurable
<1>0. Durable(d)
  BY DEF StartIsDurable
<1>1. CASE Quiet
  BY <1>0, <1>1 DEF Quiet, MildFinishing, StartsOnlyEnd
<1>2. CASE Committing
  BY <1>0, <1>2 DEF RowFollows, Committing
<1>3. CASE Exit
  BY <1>3 DEF Exit
<1>4. ASSUME NEW c \in Calls, Opening(c) \/ Preparing(c)
      PROVE  Durable(d)'
  BY <1>0, <1>4 DEF Opening, Preparing
<1>5. ASSUME NEW c \in Calls, Advancing(c) \/ Writing(c) \/ Moving(c)
      PROVE  Durable(d)'
  BY <1>0, <1>5 DEF Advancing, Writing, Moving
<1>6. ASSUME NEW c \in Calls, Answering(c) \/ Ending(c)
      PROVE  Durable(d)'
  BY <1>0, <1>6 DEF Answering, Ending, StartsOnlyEnd
<1> QED BY <1>1, <1>2, <1>3, <1>4, <1>5, <1>6 DEF Kind

LEMMA ChannelHistoryStep ==
  ASSUME TypeOK, RowFollows, StartIsDurable, ChannelHistory, Kind
  PROVE  ChannelHistory'
<1> DEFINE History(d) ==
      /\ chan[d] = "none" => /\ news[d] = {}
                             /\ call[d].status # "answered" /\ row[d].status # "answered"
      /\ chan[d] # "none" => /\ row[d].status # "absent"
                             /\ start[d] \notin {"saving", "waiting", "prepared"}
      /\ {"hangup", "failed"} \cap news[d] # {} => chan[d] = "gone"
<1> SUFFICES ASSUME NEW d \in Calls
             PROVE  History(d)'
  BY DEF ChannelHistory
<1>0. History(d)
  BY DEF ChannelHistory
<1>1. CASE Quiet
  BY <1>0, <1>1 DEF Quiet, MildFinishing, StartsOnlyEnd, ChannelsStay
<1>2. CASE Committing
  BY <1>0, <1>2 DEF Committing, RowFollows
<1>3. CASE Exit
  BY <1>0, <1>3 DEF Exit
<1>4. ASSUME NEW c \in Calls, Opening(c)
      PROVE  History(d)'
  BY <1>0, <1>4 DEF Opening, RowFollows
<1>5. ASSUME NEW c \in Calls, Advancing(c) \/ Preparing(c)
      PROVE  History(d)'
  BY <1>0, <1>5 DEF Advancing, Preparing
<1>6. ASSUME NEW c \in Calls, Writing(c)
      PROVE  History(d)'
  BY <1>0, <1>6 DEF Writing, StartIsDurable
<1>7. ASSUME NEW c \in Calls, Answering(c) \/ Ending(c)
      PROVE  History(d)'
  BY <1>0, <1>7 DEF Answering, Ending, StartsOnlyEnd, ChannelsStay
<1>8. ASSUME NEW c \in Calls, Moving(c)
      PROVE  History(d)'
  BY <1>0, <1>8 DEF Moving
<1> QED BY <1>1, <1>2, <1>3, <1>4, <1>5, <1>6, <1>7, <1>8 DEF Kind

\* The steps that change the reconciliation under way.
RecActs == \/ RecList \/ RecLosesLink \/ RecRecorded
           \/ \E c \in Calls : \/ KillReply(c) \/ KillFails(c) \/ TermCompleted(c) \/ TermRetained(c)
                               \/ RecSweeps(c) \/ RecFinishes(c) \/ RecCompletes(c)

LEMMA RecMoves ==
  ASSUME TypeOK, [Next]_vars
  PROVE  \/ UNCHANGED <<rec, reconciling, phase>>
         \/ UNCHANGED <<rec, phase>> /\ reconciling' = TRUE
         \/ rec.pc # "idle" /\ UNCHANGED <<reconciling, phase>> /\ RecActs
         \/ RecDone \/ Exit \/ Restart
         \/ Reconnect /\ reconciling' = TRUE /\ UNCHANGED phase
<1>1. CASE UNCHANGED vars
  BY <1>1 DEF vars, world
<1>2. ASSUME NEW c \in Calls, KillReply(c) \/ KillFails(c) \/ TermCompleted(c) \/ TermRetained(c)
      PROVE  UNCHANGED <<reconciling, phase>> /\ (rec' = rec \/ rec.pc # "idle") /\ RecActs
  BY <1>2 DEF RecActs, KillReply, KillFails, TermCompleted, TermRetained, SettleOk, SettleFailed, world
<1>3. ASSUME NEW c \in Calls, TermSaved(c) \/ StartBegin(c) \/ Starting(c) \/ Timing(c) \/ Stop(c)
      PROVE  UNCHANGED <<rec, reconciling, phase>>
  BY <1>3 DEF TermSaved, StartBegin, Starting, StartSaved, StartPrepare, StartWrite, StartReply,
              Timing, NoAnswer, MaxCall, Stop, world
<1>4. ASSUME NEW c \in Calls, Hearing(c) \/ Handling(c) \/ Turn(c) \/ FlowEnds(c) \/ Commit(c)
      PROVE  UNCHANGED <<rec, reconciling, phase>>
  BY <1>4 DEF Hearing, HangupEvent, OriginateFailedEvent, AnsweredEvent, Handling, AnswerSaved,
              AnswerWired, Turn, TurnRoutes, OpEnds, FlowEnds, FlowEnded, Commit, world
<1>5. ASSUME NEW c \in Calls, Gateway(c)
      PROVE  UNCHANGED <<rec, reconciling, phase>>
  BY <1>5 DEF Gateway, FsCreates, FsRejects, FsAnswers, FsEnds, FsKills, ApiSame, world
<1>6. RecList \/ RecLosesLink \/ RecRecorded =>
        rec.pc # "idle" /\ UNCHANGED <<reconciling, phase>> /\ RecActs
  <2>1. RecList => rec.pc # "idle" /\ UNCHANGED <<reconciling, phase>> /\ RecActs
    BY DEF RecActs, RecList, world
  <2>2. RecLosesLink => rec.pc # "idle" /\ UNCHANGED <<reconciling, phase>> /\ RecActs
    BY DEF RecActs, RecLosesLink, world
  <2>3. RecRecorded => rec.pc # "idle" /\ UNCHANGED <<reconciling, phase>> /\ RecActs
    BY DEF RecActs, RecRecorded, world
  <2> QED BY <2>1, <2>2, <2>3
<1>7. ASSUME NEW c \in Calls, RecSweeps(c) \/ RecFinishes(c) \/ RecCompletes(c)
      PROVE  rec.pc # "idle" /\ UNCHANGED <<reconciling, phase>> /\ RecActs
  <2>1. CASE RecSweeps(c)
    BY <2>1 DEF RecActs, RecSweeps, RecTakes, world
  <2>2. CASE RecFinishes(c)
    BY <2>2 DEF RecActs, RecFinishes, RecTakes, world
  <2>3. CASE RecCompletes(c)
    BY <2>3 DEF RecActs, RecCompletes, RecTakes, world
  <2> QED BY <1>7, <2>1, <2>2, <2>3
<1>8. CASE Drop
  BY <1>8 DEF Drop, TypeOK
<1>9. CASE Reconnect
  BY <1>9 DEF Reconnect, world
<1>10. CASE Crash \/ BootFails \/ ShutdownExit
  BY <1>10 DEF Crash, BootFails, ShutdownExit
<1>11. CASE BeginShutdown \/ DrainCalls \/ StoreFails \/ EvidenceChanges
  BY <1>11 DEF BeginShutdown, DrainCalls, StoreFails, EvidenceChanges, world
<1> QED BY <1>1, <1>2, <1>3, <1>4, <1>5, <1>6, <1>7, <1>8, <1>9, <1>10, <1>11
        DEF Next, Terminating, Reconciling

LEMMA DialingClosedStep ==
  ASSUME TypeOK, DialingClosed, [Next]_vars
  PROVE  DialingClosed'
<1>1. CASE RecDone
  BY <1>1 DEF RecDone, RecIdle, DialingClosed
<1>2. CASE Exit
  BY <1>2 DEF Exit, RecIdle, DialingClosed
<1>3. CASE Restart
  BY <1>3 DEF Restart, DialingClosed
<1>4. CASE Reconnect /\ reconciling' = TRUE /\ UNCHANGED phase
  BY <1>4 DEF Reconnect, DialingClosed
<1> QED BY <1>1, <1>2, <1>3, <1>4, RecMoves DEF DialingClosed

\* No call becomes active but by start().
LEMMA ActiveShrinks ==
  ASSUME Kind, ~Exit
  PROVE  \/ ActiveCalls' \subseteq ActiveCalls
         \/ \E c \in Calls : Opening(c) /\ ActiveCalls' \subseteq ActiveCalls \cup {c}
<1>1. Quiet \/ Committing => ActiveCalls' \subseteq ActiveCalls
  BY DEF Quiet, MildFinishing, Committing, ActiveCalls, Active
<1>2. ASSUME NEW c \in Calls, Opening(c)
      PROVE  ActiveCalls' \subseteq ActiveCalls \cup {c}
  BY <1>2 DEF Opening, ActiveCalls, Active
<1>3. ASSUME NEW c \in Calls, Preparing(c) \/ Answering(c) \/ Ending(c)
      PROVE  ActiveCalls' \subseteq ActiveCalls
  BY <1>3 DEF Preparing, Answering, Ending, ActiveCalls, Active
<1>4. ASSUME NEW c \in Calls, Advancing(c) \/ Writing(c) \/ Moving(c)
      PROVE  ActiveCalls' \subseteq ActiveCalls
  BY <1>4 DEF Advancing, Writing, Moving, ActiveCalls, Active
<1> QED BY <1>1, <1>2, <1>3, <1>4 DEF Kind

LEMMA CompletingStep ==
  ASSUME RecCovers, Kind
  PROVE  \A d \in Calls : term'[d] = "completing" => call'[d].status = "over"
<1> SUFFICES ASSUME NEW d \in Calls, term'[d] = "completing"
             PROVE  call'[d].status = "over"
  OBVIOUS
<1>1. term[d] = "completing" => call[d].status = "over"
  BY DEF RecCovers
<1>2. CASE Quiet \/ Committing \/ Exit
  BY <1>1, <1>2 DEF Quiet, MildFinishing, Committing, Exit
<1>3. ASSUME NEW c \in Calls, Opening(c) \/ Preparing(c) \/ Answering(c) \/ Ending(c)
      PROVE  call'[d].status = "over"
  BY <1>1, <1>3 DEF Opening, Preparing, Answering, Ending, Active
<1>4. ASSUME NEW c \in Calls, Advancing(c) \/ Writing(c) \/ Moving(c)
      PROVE  call'[d].status = "over"
  BY <1>1, <1>4 DEF Advancing, Writing, Moving
<1> QED BY <1>2, <1>3, <1>4 DEF Kind

LEMMA RecCoversStep ==
  ASSUME TypeOK, DialingClosed, RecCovers, Kind, [Next]_vars
  PROVE  RecCovers'
<1> DEFINE Past == {"closing", "waiting", "recording"}
           Ahead(r) == r.todo \cup (IF r.pc = "waiting" THEN {r.cur} ELSE {})
<1>0. rec.pc \in Past => ActiveCalls \subseteq Ahead(rec)
  BY DEF RecCovers
<1> SUFFICES rec'.pc \in Past => ActiveCalls' \subseteq Ahead(rec')
  BY CompletingStep DEF RecCovers
<1> SUFFICES ASSUME rec'.pc \in Past
             PROVE  ActiveCalls' \subseteq Ahead(rec')
  OBVIOUS
<1>1. ~Exit /\ ~Restart /\ rec' # RecIdle /\ rec' # RecFailed
  BY DEF Exit, Restart, RecIdle, RecListing, RecFailed
<1>2. rec.pc # "idle" => ActiveCalls' \subseteq ActiveCalls
  BY <1>1, ActiveShrinks DEF DialingClosed, Opening
<1>3. rec \in Reconciliation
  BY DEF TypeOK
<1>4. CASE rec' = rec
  BY <1>0, <1>2, <1>4
<1>5. ASSUME NEW c \in Calls, KillReply(c) \/ KillFails(c) \/ TermCompleted(c) \/ TermRetained(c),
             rec' # rec
      PROVE  ActiveCalls' \subseteq Ahead(rec')
  <2>1. SettleOk(c) /\ ~Active(c)
    BY <1>1, <1>5 DEF KillReply, KillFails, TermCompleted, TermRetained, SettleFailed,
                      RecCovers, Active
  <2>2. rec.pc = "waiting" /\ rec.cur = c /\ rec' = [rec EXCEPT !.pc = "closing", !.cur = None]
    BY <1>5, <2>1 DEF SettleOk
  <2>3. c \notin ActiveCalls
    BY <2>1 DEF ActiveCalls
  <2>4. rec'.todo = rec.todo /\ rec'.pc = "closing"
    BY <1>3, <2>2 DEF Reconciliation
  <2> QED BY <1>0, <1>2, <2>2, <2>3, <2>4
<1>6. CASE RecList
  <2>1. rec'.todo = ActiveCalls /\ rec.pc = "listing"
    BY <1>6 DEF RecList
  <2> QED BY <1>2, <2>1
<1>7. CASE RecRecorded
  BY <1>0, <1>1, <1>2, <1>3, <1>7 DEF RecRecorded, Reconciliation
<1>8. ASSUME NEW c \in Calls, RecSweeps(c)
      PROVE  ActiveCalls' \subseteq Ahead(rec')
  BY <1>0, <1>2, <1>3, <1>8 DEF RecSweeps, Reconciliation
<1>9. ASSUME NEW c \in Calls, RecFinishes(c)
      PROVE  ActiveCalls' \subseteq Ahead(rec')
  <2>1. rec'.todo = rec.todo \ {c} /\ (Active(c) => rec'.pc = "waiting" /\ rec'.cur = c)
    BY <1>3, <1>9 DEF RecFinishes, Reconciliation
  <2> QED BY <1>0, <1>2, <1>9, <2>1 DEF RecFinishes, RecTakes, ActiveCalls
<1>10. ASSUME NEW c \in Calls, RecCompletes(c)
       PROVE  ActiveCalls' \subseteq Ahead(rec')
  <2>1. rec'.todo = rec.todo \ {c} /\ rec.pc = "closing"
    BY <1>1, <1>3, <1>10 DEF RecCompletes, RecTakes, Reconciliation
  <2>2. CASE ~Active(c)
    BY <1>0, <1>2, <2>1, <2>2 DEF ActiveCalls
  <2>3. CASE Complete(c, "INTERRUPTED") /\ storeOk
    <3>1. call'[c].status = "over"
      BY <2>3, TerminalRecordEnds DEF Complete, TypeOK
    <3> QED BY <1>0, <1>2, <2>1, <3>1 DEF ActiveCalls, Active
  <2> QED BY <1>1, <1>10, <2>2, <2>3 DEF RecCompletes
<1>11. rec' = rec \/ RecActs \/ Reconnect
  BY <1>1, RecMoves DEF RecDone
<1>12. (RecLosesLink \/ Reconnect) /\ rec' # rec => FALSE
  BY <1>1 DEF RecLosesLink, Reconnect, RecListing, RecIdle
<1> QED BY <1>4, <1>5, <1>6, <1>7, <1>8, <1>9, <1>10, <1>11, <1>12 DEF RecActs

LEMMA SlotCeilingStep ==
  ASSUME TypeOK, DialingClosed, RecCovers, SlotCeiling, Kind, [Next]_vars
  PROVE  SlotCeiling'
<1> SUFFICES ASSUME ~reconciling'
             PROVE  Cardinality(ActiveCalls') <= Ceiling
  BY DEF SlotCeiling
<1>1. IsFiniteSet(ActiveCalls)
  BY CallsAssumption, FS_Subset DEF ActiveCalls
<1>2. CASE RecDone
  <2>1. ActiveCalls = {} /\ UNCHANGED call
    BY <1>2 DEF RecDone, RecCovers, finishing
  <2>2. ActiveCalls' = {}
    BY <2>1 DEF ActiveCalls, Active
  <2> QED BY <2>2, FS_EmptySet, CeilingAssumption
<1>3. CASE ~RecDone
  <2>1. ~reconciling /\ ~Exit
    BY <1>3, RecMoves DEF Restart, Exit, DialingClosed, TypeOK
  <2>2. Cardinality(ActiveCalls) <= Ceiling
    BY <2>1 DEF SlotCeiling
  <2>3. CASE ActiveCalls' \subseteq ActiveCalls
    BY <1>1, <2>2, <2>3, FS_Subset, FS_CardinalityType, CeilingAssumption
  <2>4. ASSUME NEW c \in Calls, Opening(c), ActiveCalls' \subseteq ActiveCalls \cup {c}
        PROVE  Cardinality(ActiveCalls') <= Ceiling
    <3>1. /\ IsFiniteSet(ActiveCalls \cup {c})
          /\ Cardinality(ActiveCalls \cup {c}) \in {Cardinality(ActiveCalls), Cardinality(ActiveCalls) + 1}
      BY <1>1, FS_AddElement
    <3>2. Cardinality(ActiveCalls') <= Cardinality(ActiveCalls \cup {c})
      BY <2>4, <3>1, FS_Subset
    <3>3. Cardinality(ActiveCalls) \in Nat /\ Cardinality(ActiveCalls \cup {c}) \in Nat
          /\ Cardinality(ActiveCalls') \in Nat
      BY <1>1, <2>4, <3>1, FS_Subset, FS_CardinalityType
    <3> QED BY <2>4, <3>1, <3>2, <3>3, CeilingAssumption DEF Opening
  <2> QED BY <2>1, <2>3, <2>4, ActiveShrinks
<1> QED BY <1>2, <1>3

-----------------------------------------------------------------------------
(* The dials that were never overlooked *)

\* Only the write of an originate adds one.
LEMMA HeldShrinks ==
  ASSUME Kind
  PROVE  Held' \subseteq Held \/ \E c \in Calls : Writing(c) /\ Held' \subseteq Held \cup {c}
<1>1. Quiet \/ Committing \/ Exit => Held' \subseteq Held
  BY DEF Quiet, ChannelsStay, Committing, Exit, Held, Dialed, Live
<1>2. ASSUME NEW c \in Calls, Opening(c) \/ Advancing(c) \/ Preparing(c) \/ Answering(c) \/ Ending(c)
      PROVE  Held' \subseteq Held
  BY <1>2 DEF Opening, Advancing, Preparing, Answering, Ending, ChannelsStay, Held, Dialed, Live
<1>3. ASSUME NEW c \in Calls, Moving(c)
      PROVE  Held' \subseteq Held
  BY <1>3 DEF Moving, Held, Dialed, Live
<1>4. ASSUME NEW c \in Calls, Writing(c)
      PROVE  Held' \subseteq Held \cup {c}
  BY <1>4 DEF Writing, Held, Dialed, Live
<1> QED BY <1>1, <1>2, <1>3, <1>4 DEF Kind

LEMMA RecSeesStep ==
  ASSUME TypeOK, DialingClosed, RecSees, Kind, [Next]_vars
  PROVE  RecSees'
<1> SUFFICES ASSUME rec'.pc \in {"closing", "waiting", "recording"}
             PROVE  Held' \subseteq rec'.remote
  BY DEF RecSees
<1>1. rec \in Reconciliation /\ rec' # RecIdle /\ rec' # RecFailed /\ rec' # RecListing /\ ~Exit
  BY DEF TypeOK, RecIdle, RecFailed, RecListing, Exit
<1>2. rec.pc # "idle" => Held' \subseteq Held
  <2>1. ASSUME NEW c \in Calls, Writing(c)
        PROVE  rec.pc = "idle"
    BY <2>1 DEF Writing, MayWrite, DialState, DialingClosed
  <2> QED BY <2>1, HeldShrinks
<1>3. CASE RecList
  BY <1>3 DEF RecList, Overlooks, Held, Dialed, LiveCalls, Live
<1>4. CASE rec.pc \in {"closing", "waiting", "recording"} /\ rec'.remote = rec.remote
  BY <1>2, <1>4 DEF RecSees
<1>5. CASE rec' = rec
  BY <1>4, <1>5
<1>6. ASSUME RecActs, ~RecList, rec' # rec
      PROVE  rec.pc \in {"closing", "waiting", "recording"} /\ rec'.remote = rec.remote
  <2>1. ASSUME NEW c \in Calls, SettleOk(c)
        PROVE  rec.pc \in {"closing", "waiting", "recording"} /\ rec'.remote = rec.remote
    BY <1>1, <1>6, <2>1 DEF SettleOk, Reconciliation
  <2>2. ASSUME NEW c \in Calls, RecSweeps(c) \/ RecFinishes(c) \/ RecCompletes(c)
        PROVE  rec.pc \in {"closing", "waiting", "recording"} /\ rec'.remote = rec.remote
    BY <1>1, <2>2 DEF RecSweeps, RecFinishes, RecCompletes, RecTakes, Reconciliation
  <2>3. RecRecorded => rec.pc \in {"closing", "waiting", "recording"} /\ rec'.remote = rec.remote
    BY <1>1 DEF RecRecorded, Reconciliation
  <2>4. ~RecLosesLink /\ \A left : \A c \in Calls : ~SettleFailed(c, left)
    BY <1>1, <1>6 DEF RecLosesLink, SettleFailed
  <2> QED BY <1>6, <2>1, <2>2, <2>3, <2>4
          DEF RecActs, KillReply, KillFails, TermCompleted, TermRetained
<1>7. rec' = rec \/ RecActs
  BY <1>1, RecMoves DEF RecDone, Restart, Reconnect
<1> QED BY <1>3, <1>4, <1>5, <1>6, <1>7

LEMMA OverlookedStep ==
  ASSUME TypeOK, RowFollows, StartIsDurable, OrphanWasOverlooked, Kind
  PROVE  OrphanWasOverlooked'
<1> SUFFICES ASSUME NEW d \in Calls, Dialed(d)', d \notin overlooked'
             PROVE  HoldsSlot(d)'
  BY DEF OrphanWasOverlooked
<1>1. d \in Held => HoldsSlot(d)
  BY DEF OrphanWasOverlooked, Held
<1>2. d \in Held'
  BY DEF Held
<1>3. ASSUME NEW c \in Calls, Writing(c)
      PROVE  HoldsSlot(d)'
  <2>1. HoldsSlot(c)
    <3>1. row[c] \in Record
      BY DEF TypeOK
    <3>2. Active(c) /\ row[c].status # "absent"
      BY <1>3 DEF Writing, MayWrite, DialState, StartIsDurable
    <3>3. row[c].status # "over"
      BY <3>2 DEF RowFollows, Active
    <3> QED BY <3>1, <3>2, <3>3 DEF Record, Statuses, HoldsSlot
  <2>2. d = c \/ d \in Held
    BY <1>2, <1>3 DEF Writing, Held, Dialed, Live
  <2>3. UNCHANGED <<call, row>>
    BY <1>3 DEF Writing
  <2> QED BY <1>1, <2>1, <2>2, <2>3 DEF HoldsSlot, Active
<1>4. CASE Held' \subseteq Held
  <2>0. HoldsSlot(d)
    BY <1>1, <1>2, <1>4
  <2>1. CASE Quiet
    BY <2>0, <2>1 DEF Quiet, MildFinishing, HoldsSlot, Active
  <2>2. CASE Committing
    BY <2>0, <2>2 DEF Committing, HoldsSlot, Active
  <2>3. CASE Exit
    BY <2>0, <2>3 DEF Exit, HoldsSlot, Active
  <2>4. ASSUME NEW c \in Calls, Opening(c) \/ Preparing(c) \/ Advancing(c) \/ Moving(c)
        PROVE  HoldsSlot(d)'
    BY <2>0, <2>4 DEF Opening, Preparing, Advancing, Moving, HoldsSlot, Active
  <2>5. ASSUME NEW c \in Calls, Answering(c)
        PROVE  HoldsSlot(d)'
    BY <2>0, <2>5 DEF Answering, HoldsSlot, Active
  <2>6. ASSUME NEW c \in Calls, Ending(c)
        PROVE  HoldsSlot(d)'
    <3>1. d # c
      BY <2>6 DEF Ending, ChannelsStay, Dialed, Live
    <3> QED BY <2>0, <2>6, <3>1 DEF Ending, HoldsSlot, Active
  <2> QED BY <1>3, <2>1, <2>2, <2>3, <2>4, <2>5, <2>6 DEF Kind
<1> QED BY <1>3, <1>4, HeldShrinks

LEMMA TrunkCeilingStep ==
  ASSUME TypeOK, OrphanWasOverlooked, SlotCeiling, TrunkCeiling, Kind
  PROVE  TrunkCeiling'
<1>1. IsFiniteSet(Held) /\ IsFiniteSet(ActiveCalls)
  BY CallsAssumption, FS_Subset DEF Held, ActiveCalls
<1>2. TrunkCeiling <=> Cardinality(Held) <= Ceiling
  BY DEF TrunkCeiling, Held
<1>3. TrunkCeiling' <=> Cardinality(Held') <= Ceiling
  BY DEF TrunkCeiling, Held
<1>4. CASE Held' \subseteq Held
  BY <1>1, <1>2, <1>3, <1>4, FS_Subset, FS_CardinalityType, CeilingAssumption
<1>5. ASSUME NEW c \in Calls, Writing(c), Held' \subseteq Held \cup {c}
      PROVE  TrunkCeiling'
  <2>1. Held' \subseteq ActiveCalls /\ ~reconciling
    BY <1>5 DEF Writing, MayWrite, DialState, OrphanWasOverlooked, HoldsSlot, Held, ActiveCalls
  <2>2. Cardinality(ActiveCalls) <= Ceiling
    BY <2>1 DEF SlotCeiling
  <2> QED BY <1>1, <1>3, <2>1, <2>2, FS_Subset, FS_CardinalityType, CeilingAssumption
<1> QED BY <1>4, <1>5, HeldShrinks

-----------------------------------------------------------------------------
(* The theorems *)

LEMMA IInvInit == Init => IInv
<1> SUFFICES ASSUME Init
             PROVE  IInv
  OBVIOUS
<1>1. TypeOK
  BY BoundAssumption, RecTypes
  DEF Init, TypeOK, WorldTypes, GatewayTypes, FinishingTypes, Operation, Record, NoRecord, Statuses
<1>2. Books
  BY DEF Init, Books, RowFollows, StartIsDurable, ChannelHistory, DialingClosed, RecCovers,
         RecListing, RecIdle, NoRecord
<1>3. SlotCeiling /\ RecSees
  BY DEF Init, SlotCeiling, RecSees, RecListing, RecIdle
<1>4. Held = {}
  BY DEF Init, Held, Dialed, Live
<1>5. OrphanWasOverlooked /\ TrunkCeiling
  BY <1>4, FS_EmptySet, CeilingAssumption DEF OrphanWasOverlooked, TrunkCeiling, Held
<1> QED BY <1>1, <1>2, <1>3, <1>5 DEF IInv

LEMMA IInvStep == IInv /\ [Next]_vars => IInv'
<1> SUFFICES ASSUME IInv, [Next]_vars
             PROVE  IInv'
  OBVIOUS
<1>1. TypeOK /\ Books /\ SlotCeiling /\ RecSees /\ OrphanWasOverlooked /\ TrunkCeiling
  BY DEF IInv
<1>2. Kind
  BY <1>1, StepKind DEF Books
<1>3. Books'
  BY <1>1, <1>2, RowFollowsStep, StartIsDurableStep, ChannelHistoryStep, DialingClosedStep,
     RecCoversStep DEF Books
<1>4. SlotCeiling'
  BY <1>1, <1>2, SlotCeilingStep DEF Books
<1>5. RecSees' /\ OrphanWasOverlooked' /\ TrunkCeiling'
  BY <1>1, <1>2, RecSeesStep, OverlookedStep, TrunkCeilingStep DEF Books
<1> QED BY <1>1, <1>3, <1>4, <1>5, TypeStep DEF IInv

\* The invariant that the safety properties rest on.
THEOREM Invariance == Spec => []IInv
BY IInvInit, IInvStep, PTL DEF Spec

\* Every variable stays in its type.
THEOREM TypeCorrect == Spec => []TypeOK
<1>1. IInv => TypeOK
  BY DEF IInv
<1> QED BY <1>1, Invariance, PTL

\* While dialing is open, start() never holds more slots than the trunk has,
\* also across reconnections and restarts and whatever the gateway does late.
THEOREM SlotCeilingHolds == Spec => []SlotCeiling
<1>1. IInv => SlotCeiling
  BY DEF IInv
<1> QED BY <1>1, Invariance, PTL

\* A dial that the gateway has accepted keeps its slot, in memory and in its row, whatever
\* is lost, fails or restarts; only a hangup or a listing that looked for its channel
\* before it existed can free the slot under it.
THEOREM OverlookedHolds == Spec => []OrphanWasOverlooked
<1>1. IInv => OrphanWasOverlooked
  BY DEF IInv
<1> QED BY <1>1, Invariance, PTL

\* So the gateway's dials, apart from those, never outnumber the lines of the trunk.
THEOREM TrunkCeilingHolds == Spec => []TrunkCeiling
<1>1. IInv => TrunkCeiling
  BY DEF IInv
<1> QED BY <1>1, Invariance, PTL

\* No handler, late event or retried write touches a terminal record.
THEOREM TerminalRecordsStand == Spec => TerminalIsFinal
<1>1. ASSUME IInv, [Next]_vars
      PROVE  [\A c \in Calls :
                /\ row[c].status = "over" => row'[c] = row[c]
                /\ call[c].status = "over" /\ phase' # "down" => call'[c] = call[c]]_vars
  <2>1. Kind /\ RowFollows
    BY <1>1, StepKind DEF IInv, Books
  <2> SUFFICES ASSUME NEW d \in Calls
               PROVE  /\ row[d].status = "over" => row'[d] = row[d]
                      /\ call[d].status = "over" /\ phase' # "down" => call'[d] = call[d]
    OBVIOUS
  <2>2. Quiet \/ Committing \/ Exit =>
          /\ row[d].status = "over" => row'[d] = row[d]
          /\ call[d].status = "over" /\ phase' # "down" => call'[d] = call[d]
    BY <2>1 DEF Quiet, MildFinishing, Active, Committing, RowFollows, Exit
  <2>3. ASSUME NEW c \in Calls, Opening(c) \/ Preparing(c) \/ Answering(c) \/ Ending(c)
        PROVE  UNCHANGED row /\ (call[d].status = "over" => call'[d] = call[d])
    BY <2>3 DEF Opening, Preparing, Answering, Ending, Active
  <2>4. ASSUME NEW c \in Calls, Advancing(c) \/ Writing(c) \/ Moving(c)
        PROVE  UNCHANGED <<row, call>>
    BY <2>4 DEF Advancing, Writing, Moving
  <2> QED BY <2>1, <2>2, <2>3, <2>4 DEF Kind
<1> QED BY <1>1, Invariance, PTL DEF Spec, TerminalIsFinal

\* Whenever the originate is written, the committed row already names the permission then
\* in force, the call has not been answered or ended, and no reconciliation runs.
THEOREM DialsAreRecorded == Spec => DialIsRecorded
<1>1. ASSUME IInv, [Next]_vars
      PROVE  [\A c \in Calls : chan[c] = "none" /\ chan'[c] # "none" =>
                /\ evidence # None /\ row[c].auth = evidence
                /\ row[c].status = "queued" /\ rec.pc = "idle"]_vars
  <2>1. Kind /\ TypeOK /\ RowFollows /\ StartIsDurable /\ ChannelHistory /\ DialingClosed
    BY <1>1, StepKind DEF IInv, Books
  <2> SUFFICES ASSUME NEW d \in Calls, chan[d] = "none", chan'[d] # "none"
               PROVE  /\ evidence # None /\ row[d].auth = evidence
                      /\ row[d].status = "queued" /\ rec.pc = "idle"
    OBVIOUS
  <2>2. ~Quiet /\ ~Committing /\ ~Exit
    BY DEF Quiet, ChannelsStay, Committing, Exit
  <2>3. ASSUME NEW c \in Calls
        PROVE  /\ ~Opening(c) /\ ~Advancing(c) /\ ~Preparing(c) /\ ~Answering(c) /\ ~Ending(c)
               /\ ~Moving(c)
    BY DEF Opening, Advancing, Preparing, Answering, Ending, Moving, ChannelsStay
  <2>4. PICK c \in Calls : Writing(c)
    BY <2>1, <2>2, <2>3 DEF Kind
  <2>5. d = c
    BY <2>4 DEF Writing
  <2>6. /\ start[d] = "prepared" /\ "start" \notin flushing[d] /\ evidence = call[d].auth
        /\ ~reconciling /\ Active(d)
    BY <2>4, <2>5 DEF Writing, MayWrite, Threw, DialState
  <2>7. evidence # None /\ row[d].auth = evidence /\ row[d].status # "absent"
    BY <2>1, <2>6 DEF StartIsDurable
  <2>8. row[d].status \notin {"over", "answered"} /\ row[d] \in Record
    BY <2>1, <2>6 DEF RowFollows, ChannelHistory, Active, TypeOK
  <2>9. rec.pc = "idle"
    BY <2>1, <2>6 DEF DialingClosed
  <2> QED BY <2>7, <2>8, <2>9 DEF Record, Statuses
<1> QED BY <1>1, Invariance, PTL DEF Spec, DialIsRecorded

\* Dialing reopens, after a boot or a reconnection, only with every earlier call terminal.
THEOREM ReconcileSettlesAll == Spec => ReconcileLeavesNone
<1>1. ASSUME IInv, [Next]_vars
      PROVE  [reconciling /\ ~reconciling' =>
                \A c \in Calls : call'[c].status \in {"absent", "over"}]_vars
  <2>1. TypeOK /\ RecCovers
    BY <1>1 DEF IInv, Books
  <2> SUFFICES ASSUME reconciling, ~reconciling', NEW d \in Calls
               PROVE  call'[d].status \in {"absent", "over"}
    OBVIOUS
  <2>2. RecDone
    BY <1>1, <2>1, RecMoves DEF Exit, Restart
  <2>3. d \notin ActiveCalls /\ call'[d] = call[d]
    BY <2>1, <2>2 DEF RecDone, RecCovers, finishing
  <2>4. call[d] \in Record
    BY <2>1 DEF TypeOK, FinishingTypes
  <2> QED BY <2>3, <2>4 DEF ActiveCalls, Active, Record, Statuses
<1> QED BY <1>1, Invariance, PTL DEF Spec, ReconcileLeavesNone
=============================================================================
