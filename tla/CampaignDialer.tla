--------------------------- MODULE CampaignDialer ---------------------------
(***************************************************************************)
(* CampaignDialer (server/campaigns.ts): ticks and operator controls, one  *)
(* at a time, over the write-behind store and a call service whose calls   *)
(* end, fail, or keep an unconfirmed channel.  The call service is         *)
(* CallLifecycle seen from here: a dial is reserved, committed, originated *)
(* at most once, and answered; a boot settles every call of before.        *)
(*                                                                         *)
(* An action is the code between two awaits.  The rotation of campaigns *)
(* is left open, and so is time: dialIntervalMs and nextAttemptAt delay a  *)
(* dial, so a tick may find that they have passed for some waiting contact *)
(* or for none.  The n-th attempt of a contact identifies its call.        *)
(***************************************************************************)
EXTENDS Naturals, FiniteSets

CONSTANTS
  Contacts,        \* campaign contacts: one contact in one campaign
  Campaigns,
  Of,              \* the campaign of a contact
  MaxAttempts,     \* maxAttempts of the campaigns, 1..5
  Ceiling,         \* min(5, maxConcurrentCalls)
  MaxOutside,      \* bound on ends of the hours or of open dialing, and on other calls
  MaxControls,     \* bound on operator controls
  MaxRestarts,     \* bound on exits of the process
  MaxStoreFailures,\* bound on failed transactions
  MaxEvents        \* bound on the sum of these events

ASSUME OfAssumption == Of \in [Contacts -> Campaigns]
ASSUME AttemptAssumption == MaxAttempts \in 1..5 /\ Ceiling \in 1..5
ASSUME BoundAssumption == /\ MaxOutside \in Nat /\ MaxControls \in Nat
                          /\ MaxRestarts \in Nat /\ MaxStoreFailures \in Nat /\ MaxEvents \in Nat

VARIABLES
  phase,      \* of the process: "down", "serving", "closing" (dialer closed)
  storeOk,    \* FALSE once a transaction failed
  halted,     \* a tick rejected: no ticks or controls until restart
  hours,      \* within calling hours
  dialing,    \* the call service accepts starts (not reconciling)
  others,     \* active calls that are not of a campaign
  campaign, campaignRow,   \* status
  entry, row,              \* campaign contacts
  call, callRow,           \* the call of each attempt
  op,         \* the operation at the head of the dialer's queue
  dials,      \* originates sent (history)
  outside, controls, restarts, failures   \* bounded counters

world == <<hours, dialing, others, outside>>
process == <<phase, storeOk, halted>>
bounds == <<controls, restarts, failures>>
cache == <<campaign, entry, call>>
rows == <<campaignRow, row, callRow>>
vars == <<world, process, bounds, cache, rows, op, dials>>

Within(count, bound) == /\ count < bound
                        /\ outside + controls + restarts + failures < MaxEvents

Attempts == 1..MaxAttempts
Finished == {"completed", "skipped"}
\* "retry" is a call ended busy or unanswered, "final" one ended any other way.
CallStates == {"none", "active", "retry", "final"}
CampaignStatus == {"draft", "running", "paused", "stopped", "completed"}
\* callId 0: no lastCallId.
Entry == [status : {"pending", "dialing"} \cup Finished, attempts : 0..MaxAttempts,
          callId : 0..MaxAttempts]
NewEntry == [status |-> "pending", attempts |-> 0, callId |-> 0]
Idle == [pc |-> "idle", contacts |-> {}, campaigns |-> {}, was |-> NewEntry]
Operation == [pc : {"idle", "reconciled", "attempting", "calling", "dialed", "saving",
                    "controlled", "skipped", "ending"},
              contacts : SUBSET Contacts, campaigns : SUBSET Campaigns, was : Entry]

TypeOK ==
  /\ phase \in {"down", "serving", "closing"} /\ storeOk \in BOOLEAN /\ halted \in BOOLEAN
  /\ hours \in BOOLEAN /\ dialing \in BOOLEAN /\ others \in 0..outside
  /\ campaign \in [Campaigns -> CampaignStatus] /\ campaignRow \in [Campaigns -> CampaignStatus]
  /\ entry \in [Contacts -> Entry] /\ row \in [Contacts -> Entry]
  /\ call \in [Contacts -> [Attempts -> CallStates]]
  /\ callRow \in [Contacts -> [Attempts -> CallStates]]
  /\ op \in Operation
  /\ dials \in [Contacts -> 0..MaxAttempts]
  /\ outside \in 0..MaxOutside /\ controls \in 0..MaxControls
  /\ restarts \in 0..MaxRestarts /\ failures \in 0..MaxStoreFailures

\* Campaigns are created as drafts with all their contacts, in one transaction.
Init ==
  /\ phase = "serving" /\ storeOk = TRUE /\ halted = FALSE
  /\ hours = TRUE /\ dialing = TRUE /\ others = 0
  /\ campaign = [k \in Campaigns |-> "draft"]
  /\ campaignRow = campaign
  /\ entry = [e \in Contacts |-> NewEntry] /\ row = entry
  /\ call = [e \in Contacts |-> [n \in Attempts |-> "none"]] /\ callRow = call
  /\ op = Idle
  /\ dials = [e \in Contacts |-> 0]
  /\ outside = 0 /\ controls = 0 /\ restarts = 0 /\ failures = 0

-----------------------------------------------------------------------------
(* The store.  Transactions commit in the order of the saves: the call of  *)
(* a contact before the entry that takes its result, the entries before    *)
(* the campaign that they complete.                                        *)

Flushed == campaign = campaignRow /\ entry = row /\ call = callRow

CommitCall(e) ==
  /\ phase # "down" /\ storeOk /\ callRow[e] # call[e]
  /\ callRow' = [callRow EXCEPT ![e] = call[e]]
  /\ UNCHANGED <<world, process, bounds, cache, campaignRow, row, op, dials>>

CommitEntry(e) ==
  /\ phase # "down" /\ storeOk /\ row[e] # entry[e]
  /\ entry[e].status = "dialing" \/ callRow[e] = call[e]
  /\ row' = [row EXCEPT ![e] = entry[e]]
  /\ UNCHANGED <<world, process, bounds, cache, campaignRow, callRow, op, dials>>

CommitCampaign(k) ==
  /\ phase # "down" /\ storeOk /\ campaignRow[k] # campaign[k]
  /\ \A e \in Contacts : Of[e] = k => row[e] = entry[e]
  /\ campaignRow' = [campaignRow EXCEPT ![k] = campaign[k]]
  /\ UNCHANGED <<world, process, bounds, cache, row, callRow, op, dials>>

StoreFails ==
  /\ phase # "down" /\ storeOk /\ ~Flushed /\ Within(failures, MaxStoreFailures)
  /\ storeOk' = FALSE /\ failures' = failures + 1
  /\ UNCHANGED <<world, phase, halted, controls, restarts, cache, rows, op, dials>>

-----------------------------------------------------------------------------
(* Calls *)

ActiveCallCount == others + Cardinality({x \in Contacts \X Attempts : call[x[1]][x[2]] = "active"})
SetCall(e, n, state) == call' = [call EXCEPT ![e][n] = state]

\* The call ends: hangup event, timer, flow, or a later retry of its hangup.
CallEnds(e, n) ==
  /\ phase # "down" /\ storeOk /\ call[e][n] = "active"
  /\ \E state \in {"retry", "final"} : SetCall(e, n, state)
  /\ UNCHANGED <<world, process, bounds, campaign, entry, rows, op, dials>>

-----------------------------------------------------------------------------
(* reconcile() *)

\* The call of a dialing entry: the one it names, or the one made since its attempt.
Seen(e) == IF entry[e].callId # 0 THEN entry[e].callId
           ELSE IF entry[e].attempts # 0 /\ call[e][entry[e].attempts] # "none"
           THEN entry[e].attempts ELSE 0

RetriesAnything(e, outcome) == /\ campaign[Of[e]] # "stopped"          \* mutant
                               /\ outcome # "active" /\ entry[e].attempts < MaxAttempts
RetriesWhenStopped(e, outcome) == /\ outcome = "retry"                         \* mutant
                                  /\ entry[e].attempts < MaxAttempts
Retries(e, outcome) == /\ campaign[Of[e]] # "stopped"
                       /\ outcome = "retry" /\ entry[e].attempts < MaxAttempts
Ended(e, n, outcome) ==
  IF Retries(e, outcome) THEN [entry[e] EXCEPT !.status = "pending", !.callId = n]
  ELSE [entry[e] EXCEPT !.status = "completed", !.callId = n]

ReconciledWhenSeen(e) ==                                                      \* mutant
  LET n == Seen(e) IN
  IF entry[e].status # "dialing" \/ n = 0 THEN entry[e]
  ELSE IF call[e][n] = "active" THEN [entry[e] EXCEPT !.callId = n]
  ELSE Ended(e, n, call[e][n])
Reconciled(e) ==
  LET n == Seen(e) IN
  IF entry[e].status # "dialing" THEN entry[e]
  ELSE IF n = 0 THEN [entry[e] EXCEPT !.status = "skipped"]
  ELSE IF call[e][n] = "active" THEN [entry[e] EXCEPT !.callId = n]
  ELSE Ended(e, n, call[e][n])

Completes(k) == \A e \in Contacts : Of[e] = k => Reconciled(e).status \in Finished
Reconcile ==
  /\ entry' = [e \in Contacts |-> Reconciled(e)]
  /\ campaign' = [k \in Campaigns |-> IF campaign[k] = "running" /\ Completes(k)
                    THEN "completed" ELSE campaign[k]]

-----------------------------------------------------------------------------
(* A tick *)

Rejects == op' = Idle /\ halted' = TRUE
Keep == UNCHANGED halted

TickBegins ==
  /\ phase = "serving" /\ ~halted /\ op.pc = "idle"
  /\ \/ storeOk /\ Reconcile /\ op' = [Idle EXCEPT !.pc = "reconciled"] /\ Keep
     \/ ~storeOk /\ Rejects /\ UNCHANGED <<entry, campaign>>
  /\ UNCHANGED <<world, phase, storeOk, bounds, call, rows, dials>>

\* A flush that the operation awaits came back, or rejected.
Resumes(pc) == op.pc = pc /\ storeOk /\ Flushed
ByTick == op.campaigns = {}
Throws == op.pc \in {"reconciled", "attempting", "saving"} /\ ByTick /\ ~storeOk

TickRejects ==
  /\ Throws /\ Rejects
  /\ UNCHANGED <<world, phase, storeOk, bounds, cache, rows, dials>>

EligibleOfAny(e) == /\ campaign[Of[e]] # "draft" /\ hours               \* mutant
                    /\ entry[e].status = "pending"
Eligible(e) == campaign[Of[e]] = "running" /\ hours /\ entry[e].status = "pending"
MayDial == phase = "serving" /\ ActiveCallCount < Ceiling

\* A tick, or a control, is over: a tick also when no interval has passed.
OperationEnds ==
  /\ Resumes("reconciled") \/ Resumes("saving")
  /\ op' = Idle
  /\ UNCHANGED <<world, process, bounds, cache, rows, dials>>

\* The attempt is saved before the call is started.
TickAttempts(e) ==
  /\ Resumes("reconciled") /\ MayDial /\ Eligible(e) /\ entry[e].attempts < MaxAttempts
  /\ entry' = [entry EXCEPT ![e] = [status |-> "dialing", attempts |-> entry[e].attempts + 1, callId |-> 0]]
  /\ op' = [op EXCEPT !.pc = "attempting", !.contacts = {e}, !.was = entry[e]]
  /\ UNCHANGED <<world, process, bounds, campaign, call, rows, dials>>

Undo(e) == entry' = [entry EXCEPT ![e] = op.was]
Saving == op' = [Idle EXCEPT !.pc = "saving", !.campaigns = op.campaigns]

Starts == Resumes("attempting")

\* The dialer closed, calling hours ended or the trunk filled up meanwhile.
TickUndoes(e) ==
  /\ Starts /\ e \in op.contacts /\ ~(MayDial /\ hours)
  /\ Undo(e) /\ Saving
  /\ UNCHANGED <<world, process, bounds, campaign, call, rows, dials>>

\* start() refuses at once: reconciling, or no permission.  Its own ceiling cannot be
\* the reason, it was checked just before.
StartRefused(e) ==
  /\ Starts /\ e \in op.contacts /\ MayDial /\ hours
  /\ \/ entry' = [entry EXCEPT ![e] = [@ EXCEPT !.status = "skipped", !.attempts = op.was.attempts]]
     \/ ~dialing /\ entry' = [entry EXCEPT ![e].status = "completed"]
  /\ Saving
  /\ UNCHANGED <<world, process, bounds, campaign, call, rows, dials>>

\* start() reserves the call and awaits its commit.
StartReserves(e) ==
  /\ Starts /\ e \in op.contacts /\ MayDial /\ hours /\ dialing
  /\ SetCall(e, entry[e].attempts, "active")
  /\ op' = [op EXCEPT !.pc = "calling"]
  /\ UNCHANGED <<world, process, bounds, campaign, entry, rows, dials>>

\* The originate is written while the committed call is active and dialing is open.
Dial(e) ==
  /\ op.pc = "calling" /\ e \in op.contacts /\ storeOk /\ dialing
  /\ callRow[e][entry[e].attempts] = "active" /\ call[e][entry[e].attempts] = "active"
  /\ dials' = [dials EXCEPT ![e] = @ + 1] /\ op' = [op EXCEPT !.pc = "dialed"]
  /\ UNCHANGED <<world, process, bounds, cache, rows>>

StartReturns(e) ==
  /\ op.pc = "dialed" /\ e \in op.contacts
  /\ \/ storeOk /\ entry' = [entry EXCEPT ![e].callId = entry[e].attempts] /\ Saving /\ Keep
     \/ ~storeOk /\ Rejects /\ UNCHANGED entry
  /\ UNCHANGED <<world, phase, storeOk, bounds, campaign, call, rows, dials>>

\* Permission was withdrawn before the originate, and the call could be ended.
StartDenied(e) ==
  /\ op.pc = "calling" /\ e \in op.contacts /\ storeOk
  /\ SetCall(e, entry[e].attempts, IF call[e][entry[e].attempts] = "active" THEN "final"
                                  ELSE call[e][entry[e].attempts])
  /\ entry' = [entry EXCEPT ![e] = [@ EXCEPT !.status = "skipped", !.attempts = op.was.attempts]]
  /\ Saving
  /\ UNCHANGED <<world, process, bounds, campaign, rows, dials>>

\* start() fails: it ended the call, or found it ended, or could not confirm its end.
\* A call without an outcome counts as "completed", also when it is not over.
StartFails(e) ==
  /\ op.pc \in {"calling", "dialed"} /\ e \in op.contacts
  /\ LET n == entry[e].attempts IN
     \/ storeOk /\ \E state \in {"active", "final"} :
          LET after == IF call[e][n] = "active" THEN state ELSE call[e][n] IN
          /\ SetCall(e, n, after)
          /\ entry' = [entry EXCEPT ![e] = Ended(e, n, after)]
          /\ Saving /\ Keep
     \/ ~storeOk /\ Rejects /\ UNCHANGED <<entry, call>>
  /\ UNCHANGED <<world, phase, storeOk, bounds, campaign, rows, dials>>

-----------------------------------------------------------------------------
(* Controls *)

Controlled(k, status) ==
  /\ phase = "serving" /\ ~halted /\ storeOk /\ op.pc = "idle" /\ Within(controls, MaxControls)
  /\ campaign[k] \notin {"completed", "stopped"}
  /\ controls' = controls + 1
  /\ campaign' = [campaign EXCEPT ![k] = status]
  /\ UNCHANGED <<world, process, restarts, failures, entry, call, rows, dials>>

Start(k) == Controlled(k, "running") /\ op' = [Idle EXCEPT !.pc = "saving", !.campaigns = {k}]
Pause(k) == Controlled(k, "paused") /\ op' = [Idle EXCEPT !.pc = "saving", !.campaigns = {k}]
Stop(k) == Controlled(k, "stopped") /\ op' = [Idle EXCEPT !.pc = "controlled", !.campaigns = {k}]

\* The operator gets an error; later operations may still run.
ControlFails ==
  /\ op.pc # "idle" /\ ~ByTick /\ ~storeOk
  /\ op' = Idle
  /\ UNCHANGED <<world, process, bounds, cache, rows, dials>>

StopSkips(k) ==
  /\ Resumes("controlled") /\ k \in op.campaigns
  /\ entry' = [e \in Contacts |-> IF Of[e] = k /\ entry[e].status = "pending"
                 THEN [entry[e] EXCEPT !.status = "skipped"] ELSE entry[e]]
  /\ op' = [op EXCEPT !.pc = "skipped"]
  /\ UNCHANGED <<world, process, bounds, campaign, call, rows, dials>>

StopLists(k) ==
  /\ Resumes("skipped") /\ k \in op.campaigns
  /\ op' = [op EXCEPT !.pc = "ending", !.contacts =
              {e \in Contacts : Of[e] = k /\ entry[e].status = "dialing" /\ entry[e].callId # 0}]
  /\ UNCHANGED <<world, process, bounds, cache, rows, dials>>

\* calls.stop() of the next listed call: over, or its end could not be confirmed.
StopsCall(e) ==
  /\ op.pc = "ending" /\ storeOk /\ e \in op.contacts
  /\ \/ UNCHANGED call
     \/ call[e][entry[e].callId] = "active" /\ SetCall(e, entry[e].callId, "final")
  /\ op' = [op EXCEPT !.contacts = @ \ {e}]
  /\ UNCHANGED <<world, process, bounds, campaign, entry, rows, dials>>

StopReconciles ==
  /\ op.pc = "ending" /\ storeOk /\ op.contacts = {}
  /\ Reconcile /\ Saving
  /\ UNCHANGED <<world, process, bounds, call, rows, dials>>

-----------------------------------------------------------------------------
(* Time, other callers, the gateway, and the process *)

HoursEnd == /\ hours /\ Within(outside, MaxOutside)
            /\ hours' = FALSE /\ outside' = outside + 1
            /\ UNCHANGED <<dialing, others>>
HoursBegin == ~hours /\ hours' = TRUE /\ UNCHANGED <<dialing, others, outside>>
DialingCloses == /\ dialing /\ Within(outside, MaxOutside)
                 /\ dialing' = FALSE /\ outside' = outside + 1
                 /\ UNCHANGED <<hours, others>>
DialingReopens == ~dialing /\ dialing' = TRUE /\ UNCHANGED <<hours, others, outside>>
OtherStarts == /\ phase # "down" /\ dialing /\ ActiveCallCount < Ceiling /\ Within(outside, MaxOutside)
               /\ others' = others + 1 /\ outside' = outside + 1
               /\ UNCHANGED <<hours, dialing>>
OtherEnds == others > 0 /\ others' = others - 1 /\ UNCHANGED <<hours, dialing, outside>>

World == /\ HoursEnd \/ HoursBegin \/ DialingCloses \/ DialingReopens \/ OtherStarts \/ OtherEnds
         /\ UNCHANGED <<process, bounds, cache, rows, op, dials>>

\* The process is gone, and with it what was not committed.  The calls saved as active
\* are settled by the boot, before the dialer starts: as interrupted, unless the call's
\* saved intent was NO_ANSWER, or its channel is reported busy or unanswered meanwhile.
SettledCalls(unanswered) ==
  [e \in Contacts |-> [n \in Attempts |->
     IF callRow[e][n] # "active" THEN callRow[e][n]
     ELSE IF <<e, n>> \in unanswered THEN "retry" ELSE "final"]]
Down ==
  /\ phase' = "down" /\ storeOk' = TRUE /\ halted' = FALSE /\ op' = Idle
  /\ campaign' = campaignRow /\ entry' = row
  /\ \E unanswered \in SUBSET {x \in Contacts \X Attempts : callRow[x[1]][x[2]] = "active"} :
       call' = SettledCalls(unanswered)
  /\ callRow' = call' /\ others' = 0
  /\ UNCHANGED <<hours, dialing, outside, controls, failures, campaignRow, row, dials>>

Crash == phase # "down" /\ Within(restarts, MaxRestarts) /\ restarts' = restarts + 1 /\ Down

Close ==
  /\ phase = "serving" /\ Within(restarts, MaxRestarts)
  /\ phase' = "closing" /\ restarts' = restarts + 1
  /\ UNCHANGED <<world, storeOk, halted, controls, failures, cache, rows, op, dials>>

\* close() awaited the operation; then the calls are drained and the store closed.
Exit == /\ phase = "closing" /\ op.pc = "idle" /\ (Flushed \/ ~storeOk)
        /\ Down /\ UNCHANGED restarts

Restart ==
  /\ phase = "down" /\ phase' = "serving"
  /\ UNCHANGED <<world, storeOk, halted, bounds, cache, rows, op, dials>>

Tick == \/ TickBegins \/ TickRejects \/ OperationEnds
        \/ \E e \in Contacts : TickAttempts(e) \/ TickUndoes(e) \/ StartRefused(e)
             \/ StartReserves(e) \/ Dial(e) \/ StartReturns(e) \/ StartDenied(e) \/ StartFails(e)
Control == \/ ControlFails \/ StopReconciles
           \/ \E k \in Campaigns : StopSkips(k) \/ StopLists(k)
           \/ \E e \in Contacts : StopsCall(e)
Commit == \/ \E e \in Contacts : CommitCall(e) \/ CommitEntry(e)
          \/ \E k \in Campaigns : CommitCampaign(k)
Next == \/ Tick \/ Control \/ Commit \/ StoreFails \/ World
        \/ Crash \/ Close \/ Exit \/ Restart
        \/ \E k \in Campaigns : Start(k) \/ Pause(k) \/ Stop(k)
        \/ \E e \in Contacts, n \in Attempts : CallEnds(e, n)

Spec == Init /\ [][Next]_vars

\* What the process does by itself, and what happens around it in time: hours begin
\* again, reconciliation comes to an end, timers fire, calls end by theirs at the latest.
Works == Commit \/ Restart \/ Exit \/ Control \/ Tick
Passes == \/ World /\ (HoursBegin \/ DialingReopens \/ OtherEnds)
          \/ \E e \in Contacts, n \in Attempts : CallEnds(e, n)

\* Ticks repeat, Postgres answers, the container is restarted; time passes; and one
\* of the ticks that could dial comes after the intervals.
Fairness == /\ WF_vars(Works) /\ WF_vars(Passes)
            /\ SF_vars(\E e \in Contacts : TickAttempts(e))
FairSpec == Spec /\ Fairness

-----------------------------------------------------------------------------
(* Properties *)

\* A dial was saved as an attempt of its contact before it was sent, and the attempt
\* stays saved: no crash, undo or refusal takes back an attempt that rang (campaigns.ts:202).
DialsOnRecord == \A e \in Contacts : dials[e] <= row[e].attempts

\* A contact that waits for a further attempt has one left, in memory and in the
\* database: the "attempt_limit" branch of a tick is never taken (campaigns.ts:176, 195).
QueuedHasAttemptsLeft ==
  \A e \in Contacts : /\ entry[e].status = "pending" => entry[e].attempts < MaxAttempts
                      /\ row[e].status = "pending" => row[e].attempts < MaxAttempts

\* A campaign saved as completed has no contact saved as waiting or being called: it
\* cannot be started again, so such a contact would be lost (campaigns.ts:179).
CompletedIsComplete ==
  \A e \in Contacts : campaignRow[Of[e]] = "completed" => row[e].status \in Finished

\* As long as the process has not exited and the store works, a stop that is over
\* leaves no contact of its campaign waiting, and no result of a call makes one wait
\* again (campaigns.ts:135-139, 176).
StopsComeThrough ==
  \A e \in Contacts :
    restarts = 0 /\ phase = "serving" /\ storeOk /\ op.pc = "idle" /\ campaign[Of[e]] = "stopped"
    => entry[e].status # "pending"

\* A contact is dialed only while its campaign is saved as running, so never after
\* the answer to a pause or a stop (campaigns.ts:187, 127).
DialsAreWanted ==
  [][\A e \in Contacts : dials'[e] # dials[e] =>
       campaignRow[Of[e]] = "running" /\ row[e].status = "dialing"]_vars

\* A contact is dialed again only when every earlier call of it is on record as ended
\* busy or unanswered: not after one that was answered, that is or may be still up, or
\* that an exit cut off, unless the boot finds it unanswered (campaigns.ts:162-178).
RedialsFollowNoAnswer ==
  [][\A e \in Contacts : dials'[e] # dials[e] =>
       \A n \in Attempts : n < row[e].attempts => callRow[e][n] = "retry"]_vars

\* A running campaign comes to an end, unless an operator pauses or stops it or the
\* database fails, and also over restarts (campaigns.ts:162-179).
CampaignsFinish ==
  \A k \in Campaigns : campaign[k] = "running" ~> campaign[k] # "running" \/ ~storeOk
=============================================================================
