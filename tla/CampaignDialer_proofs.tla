----------------------- MODULE CampaignDialer_proofs -----------------------
(***************************************************************************)
(* Proofs about the campaign dialer, for any contacts, campaigns, attempt  *)
(* limits and bounds.                                                      *)
(*                                                                         *)
(* IInv of CampaignDialer is inductive.  A step is quiet (the entries, the *)
(* calls and their rows stay), a commit, a reconciliation, a step of the   *)
(* attempt in hand, a control or an exit; each part of IInv has a lemma    *)
(* with one step per kind.                                                 *)
(***************************************************************************)
EXTENDS CampaignDialer, TLAPS

USE OfAssumption, AttemptAssumption, BoundAssumption

-----------------------------------------------------------------------------
(* The invariant of the proofs. *)

InHand == {"attempting", "calling", "dialed"}

\* One attempt is in hand at a time: it counts one more than what it would be undone to,
\* its campaign runs, and from the reservation of its call on both are saved.
AttemptInHand ==
  /\ op.pc = "controlled" => \E k \in Campaigns : op.campaigns = {k}
  /\ op.pc \in InHand => \E e \in Contacts : op.contacts = {e}
  /\ op.pc \in InHand => \A e \in op.contacts :
       /\ entry[e].status = "dialing" /\ entry[e].callId = 0 /\ op.was.status = "pending"
       /\ entry[e].attempts = op.was.attempts + 1
       /\ campaign[Of[e]] = "running"
       /\ op.pc # "dialed" => dials[e] <= op.was.attempts
       /\ op.pc # "attempting" => /\ row[e] = entry[e] /\ campaignRow[Of[e]] = "running"
                                  /\ call[e][entry[e].attempts] # "none"

DialsCounted == \A e \in Contacts : dials[e] <= entry[e].attempts /\ dials[e] <= row[e].attempts

Named(r) == r.status = "dialing" => r.attempts >= 1 /\ r.callId \in {0, r.attempts}
DialingIsNamed == \A e \in Contacts : Named(entry[e]) /\ Named(row[e])

\* No call is ahead of a contact that is not finished, or whose attempt has no call yet.
NothingAhead ==
  \A e \in Contacts, n \in Attempts :
    \/ entry[e].status \notin Finished /\ n > entry[e].attempts
    \/ row[e].status \notin Finished /\ n > row[e].attempts
    \/ op.pc = "attempting" /\ e \in op.contacts /\ n >= entry[e].attempts
    => call[e][n] = "none" /\ callRow[e][n] = "none"

\* A call under way is that of the last attempt, which is saved as dialing or over.
ActiveIsCurrent ==
  \A e \in Contacts, n \in Attempts :
    /\ call[e][n] = "active" =>
         /\ entry[e].attempts = n /\ entry[e].status \in {"dialing", "completed"}
         /\ row[e].attempts = n /\ row[e].status \in {"dialing", "completed"}
    /\ callRow[e][n] \in {"retry", "final"} => call[e][n] = callRow[e][n]

\* The earlier calls of a contact that waits or is called again ended unanswered: in
\* the database, but for a contact whose last result is not committed yet.
Waits(r, n) == r.status = "pending" /\ n <= r.attempts
Redials(r, n) == r.status = "dialing" /\ n < r.attempts
PastUnanswered ==
  \A e \in Contacts, n \in Attempts :
    /\ Waits(entry[e], n) => call[e][n] = "retry"
    /\ Redials(entry[e], n) => callRow[e][n] = "retry"
    /\ Waits(row[e], n) \/ Redials(row[e], n) => callRow[e][n] = "retry"

CompletionIsDurable ==
  \A e \in Contacts :
    /\ campaign[Of[e]] = "completed" => entry[e].status \in Finished
    /\ campaignRow[Of[e]] = "completed" => campaign[Of[e]] = "completed" /\ row[e].status \in Finished

StopIsUnderWay ==
  /\ phase # "serving" => restarts > 0
  /\ restarts = 0 /\ storeOk => \A e \in Contacts :
       campaign[Of[e]] = "stopped" /\ entry[e].status = "pending" =>
         op.pc = "controlled" /\ Of[e] \in op.campaigns

IInv ==
  /\ TypeOK /\ AttemptInHand /\ DialsCounted /\ DialingIsNamed /\ NothingAhead /\ ActiveIsCurrent
  /\ PastUnanswered /\ CompletionIsDurable /\ StopIsUnderWay /\ QueuedHasAttemptsLeft

-----------------------------------------------------------------------------
(* Steps that leave the contacts, the campaigns and the calls alone. *)

Quiet ==
  /\ UNCHANGED <<cache, rows, dials>>
  /\ op' = op \/ op'.pc \notin InHand \cup {"controlled"}
  /\ op.pc = "controlled" => op' = op \/ ~storeOk
  /\ restarts' \in {restarts, restarts + 1} /\ (restarts' = 0 /\ storeOk' => storeOk)
  /\ phase' # "serving" => phase = phase' \/ restarts' > 0

LEMMA Kinds ==
  ASSUME TypeOK, StopIsUnderWay, [Next]_vars
  PROVE  \/ Quiet \/ Commit
         \/ Reconcile /\ UNCHANGED <<phase, storeOk, restarts, call, rows, dials>>
              /\ op.pc \in {"idle", "ending"} /\ op'.pc \in {"reconciled", "saving"}
         \/ \E e \in Contacts : \/ TickAttempts(e) \/ TickUndoes(e) \/ StartRefused(e) \/ StartReserves(e)
                                \/ Dial(e) \/ StartReturns(e) \/ StartDenied(e) \/ StartFails(e) \/ StopsCall(e)
         \/ \E k \in Campaigns : Start(k) \/ Pause(k) \/ Stop(k) \/ StopSkips(k)
         \/ \E e \in Contacts, n \in Attempts : CallEnds(e, n)
         \/ Crash \/ Exit
<1> USE DEF cache, rows, world, process, bounds
<1>1. restarts \in Nat /\ storeOk \in BOOLEAN
  BY DEF TypeOK
<1>2. CASE UNCHANGED vars
  BY <1>2, <1>1 DEF vars, Quiet
<1>3. CASE World
  BY <1>3, <1>1 DEF World, Quiet
<1>4. CASE StoreFails
  BY <1>4, <1>1 DEF StoreFails, Quiet
<1>5. CASE TickRejects \/ OperationEnds \/ ControlFails
  BY <1>5, <1>1 DEF TickRejects, Rejects, Throws, OperationEnds, ControlFails, Resumes, Idle, InHand, Quiet
<1>6. ASSUME NEW k \in Campaigns, StopLists(k) PROVE Quiet
  BY <1>6, <1>1 DEF StopLists, Resumes, InHand, Quiet, TypeOK, Operation
<1>7. CASE Close
  <2>1. restarts' = restarts + 1 /\ UNCHANGED <<storeOk, op, cache, rows, dials>>
    BY <1>7 DEF Close
  <2> QED BY <1>1, <2>1 DEF Quiet
<1>8. CASE Restart
  <2>1. phase' = "serving" /\ UNCHANGED <<restarts, storeOk, op, cache, rows, dials>>
    BY <1>8 DEF Restart
  <2> QED BY <1>1, <2>1 DEF Quiet
<1>9. CASE TickBegins
  <2>1. CASE storeOk /\ Reconcile /\ op' = [Idle EXCEPT !.pc = "reconciled"] /\ Keep
    BY <1>9, <2>1 DEF TickBegins, Idle
  <2>2. CASE ~storeOk /\ Rejects /\ UNCHANGED <<entry, campaign>>
    BY <1>9, <2>2, <1>1 DEF TickBegins, Rejects, Idle, InHand, Quiet
  <2> QED BY <1>9, <2>1, <2>2, Zenon DEF TickBegins
<1>10. CASE StopReconciles
  BY <1>10 DEF StopReconciles, Saving, Idle
<1>11. CASE Tick
  BY <1>5, <1>9, <1>11, Zenon DEF Tick
<1>12. CASE Control
  BY <1>5, <1>6, <1>10, <1>12, Zenon DEF Control
<1> QED BY <1>2, <1>3, <1>4, <1>7, <1>8, <1>11, <1>12, Zenon DEF Next

-----------------------------------------------------------------------------
(* Types. *)

LEMMA EntryTypes ==
  ASSUME TypeOK
  PROVE  /\ \A e \in Contacts : entry[e] \in Entry /\ row[e] \in Entry
         /\ \A e \in Contacts : entry[e].attempts \in 0..MaxAttempts /\ entry[e].callId \in 0..MaxAttempts
         /\ \A e \in Contacts, n \in Attempts : call[e][n] \in CallStates /\ callRow[e][n] \in CallStates
         /\ op.was \in Entry /\ MaxAttempts \in Nat /\ 0 \in 0..MaxAttempts
  BY DEF TypeOK, Entry, Operation

LEMMA CountsAsAttempt ==
  ASSUME NEW i \in 0..MaxAttempts, NEW j \in Nat, i = j + 1
  PROVE  i \in Attempts
  BY AttemptAssumption DEF Attempts

LEMMA SetCallTypes ==
  ASSUME TypeOK, NEW e \in Contacts, NEW n \in Attempts, NEW state \in CallStates, SetCall(e, n, state)
  PROVE  /\ call' \in [Contacts -> [Attempts -> CallStates]]
         /\ call'[e][n] = state
         /\ \A i \in Attempts : i # n => call'[e][i] = call[e][i]
         /\ \A x \in Contacts : x # e => call'[x] = call[x]
  BY DEF SetCall, TypeOK

LEMMA SeenTypes ==
  ASSUME TypeOK, NEW e \in Contacts
  PROVE  /\ Seen(e) \in 0..MaxAttempts
         /\ Seen(e) # 0 => Seen(e) \in Attempts /\ call[e][Seen(e)] \in CallStates
         /\ Seen(e) = 0 => entry[e].callId = 0 /\ (entry[e].attempts # 0 => call[e][entry[e].attempts] = "none")
<1>1. Seen(e) \in 0..MaxAttempts
  BY EntryTypes DEF Seen
<1>2. Seen(e) # 0 => Seen(e) \in Attempts
  BY <1>1, EntryTypes DEF Attempts
<1>3. Seen(e) = 0 => entry[e].callId = 0 /\ (entry[e].attempts # 0 => call[e][entry[e].attempts] = "none")
  BY DEF Seen
<1> QED BY <1>1, <1>2, <1>3, EntryTypes

\* The result of a call: a retry, or the end of the contact.
LEMMA EndedAsOne ==
  ASSUME TypeOK, NEW e \in Contacts, NEW n \in 0..MaxAttempts, NEW outcome
  PROVE  /\ Ended(e, n, outcome) \in Entry
         /\ Ended(e, n, outcome).attempts = entry[e].attempts
         /\ Retries(e, outcome) => Ended(e, n, outcome).status = "pending"
         /\ ~Retries(e, outcome) => Ended(e, n, outcome).status = "completed"
  BY EntryTypes DEF Ended, Entry, Finished

LEMMA ReconciledAsOne ==
  ASSUME TypeOK, NEW e \in Contacts
  PROVE  /\ Reconciled(e) \in Entry
         /\ Reconciled(e).attempts = entry[e].attempts
         /\ entry[e].status # "dialing" => Reconciled(e) = entry[e]
         /\ entry[e].status = "dialing" /\ Seen(e) = 0 => Reconciled(e).status = "skipped"
         /\ entry[e].status = "dialing" /\ Seen(e) # 0 /\ call[e][Seen(e)] = "active" =>
              Reconciled(e).status = "dialing" /\ Reconciled(e).callId = Seen(e)
         /\ entry[e].status = "dialing" /\ Seen(e) # 0 /\ call[e][Seen(e)] # "active" =>
              Reconciled(e) = Ended(e, Seen(e), call[e][Seen(e)])
<1> DEFINE n == Seen(e)
<1>1. n \in 0..MaxAttempts /\ entry[e] \in Entry
  BY SeenTypes, EntryTypes
<1>2. CASE entry[e].status # "dialing"
  BY <1>1, <1>2 DEF Reconciled
<1>3. CASE entry[e].status = "dialing" /\ n = 0
  BY <1>1, <1>3 DEF Reconciled, Entry, Finished
<1>4. CASE entry[e].status = "dialing" /\ n # 0 /\ call[e][n] = "active"
  BY <1>1, <1>4 DEF Reconciled, Entry
<1>5. CASE entry[e].status = "dialing" /\ n # 0 /\ call[e][n] # "active"
  BY <1>1, <1>5, EndedAsOne DEF Reconciled
<1> QED BY <1>2, <1>3, <1>4, <1>5

LEMMA ReconcileTypes ==
  ASSUME TypeOK, Reconcile
  PROVE  entry' \in [Contacts -> Entry] /\ campaign' \in [Campaigns -> CampaignStatus]
<1>1. entry' \in [Contacts -> Entry]
  BY ReconciledAsOne DEF Reconcile
<1>2. campaign' \in [Campaigns -> CampaignStatus]
  BY DEF Reconcile, TypeOK, CampaignStatus
<1> QED BY <1>1, <1>2

LEMMA OperationTypes ==
  /\ Idle \in Operation
  /\ \A ks \in SUBSET Campaigns : [Idle EXCEPT !.pc = "saving", !.campaigns = ks] \in Operation
  /\ \A ks \in SUBSET Campaigns : [Idle EXCEPT !.pc = "controlled", !.campaigns = ks] \in Operation
  /\ [Idle EXCEPT !.pc = "reconciled"] \in Operation
<1>1. NewEntry \in Entry
  BY DEF NewEntry, Entry
<1> QED BY <1>1 DEF Idle, Operation

LEMMA TypeStep ==
  ASSUME TypeOK, AttemptInHand, [Next]_vars
  PROVE  TypeOK'
<1> USE DEF TypeOK, cache, rows, world, process, bounds
<1>1. CASE UNCHANGED vars
  BY <1>1 DEF vars
<1>2. CASE World
  <2>1. UNCHANGED <<process, bounds, cache, rows, op, dials>>
    BY <1>2 DEF World
  <2>2. hours' \in BOOLEAN /\ dialing' \in BOOLEAN /\ outside' \in 0..MaxOutside /\ others' \in 0..outside'
    <3>1. hours \in BOOLEAN /\ dialing \in BOOLEAN /\ outside \in 0..MaxOutside /\ others \in 0..outside
      OBVIOUS
    <3>2. CASE HoursEnd \/ DialingCloses
      <4>1. /\ hours' \in BOOLEAN /\ dialing' \in BOOLEAN /\ others' = others
            /\ outside' = outside + 1 /\ outside < MaxOutside
        BY <3>1, <3>2 DEF HoursEnd, DialingCloses, Within
      <4> QED BY <3>1, <4>1
    <3>3. CASE HoursBegin \/ DialingReopens
      BY <3>1, <3>3 DEF HoursBegin, DialingReopens
    <3>4. CASE OtherStarts
      <4>1. /\ hours' = hours /\ dialing' = dialing /\ others' = others + 1
            /\ outside' = outside + 1 /\ outside < MaxOutside
        BY <3>4 DEF OtherStarts, Within
      <4> QED BY <3>1, <4>1
    <3>5. CASE OtherEnds
      BY <3>1, <3>5 DEF OtherEnds
    <3> QED BY <1>2, <3>2, <3>3, <3>4, <3>5, Zenon DEF World
  <2> QED BY <2>1, <2>2
<1>3. CASE StoreFails
  <2>1. failures' \in 0..MaxStoreFailures
    BY <1>3 DEF StoreFails, Within
  <2>2. storeOk' = FALSE /\ UNCHANGED <<world, phase, halted, controls, restarts, cache, rows, op, dials>>
    BY <1>3 DEF StoreFails
  <2> QED BY <2>1, <2>2
<1>4. CASE TickRejects \/ OperationEnds \/ ControlFails
  BY <1>4, OperationTypes DEF TickRejects, Rejects, OperationEnds, ControlFails
<1>5. ASSUME NEW k \in Campaigns, StopLists(k) \/ StopSkips(k) PROVE TypeOK'
  <2>1. CASE StopLists(k)
    BY <1>5, <2>1 DEF StopLists, Operation
  <2>2. CASE StopSkips(k)
    <3>1. \A e \in Contacts : [entry[e] EXCEPT !.status = "skipped"] \in Entry
      BY EntryTypes DEF Entry, Finished
    <3>2. entry' \in [Contacts -> Entry]
      BY <2>2, <3>1, EntryTypes DEF StopSkips
    <3>3. op' \in Operation
      BY <2>2 DEF StopSkips, Operation
    <3> QED BY <2>2, <3>2, <3>3 DEF StopSkips
  <2> QED BY <1>5, <2>1, <2>2
<1>6. CASE Close
  BY <1>6 DEF Close, Within
<1>7. CASE Restart
  BY <1>7 DEF Restart
<1>8. CASE TickBegins \/ StopReconciles
  <2>1. CASE Reconcile
    <3>1. op' \in Operation /\ halted' \in BOOLEAN
      <4>1. CASE TickBegins
        BY <4>1, OperationTypes DEF TickBegins, Keep, Rejects
      <4>2. CASE StopReconciles
        <5>1. op' = [Idle EXCEPT !.pc = "saving", !.campaigns = op.campaigns] /\ UNCHANGED halted
          BY <4>2 DEF StopReconciles, Saving
        <5>2. op.campaigns \in SUBSET Campaigns
          BY DEF Operation
        <5> QED BY <5>1, <5>2, OperationTypes
      <4> QED BY <1>8, <4>1, <4>2
    <3>2. UNCHANGED <<world, phase, storeOk, bounds, call, rows, dials>>
      BY <1>8 DEF TickBegins, StopReconciles
    <3> QED BY <2>1, <3>1, <3>2, ReconcileTypes
  <2>2. CASE ~Reconcile
    BY <1>8, <2>2, OperationTypes DEF TickBegins, StopReconciles, Rejects
  <2> QED BY <2>1, <2>2
<1>9. CASE \E e \in Contacts : CommitCall(e) \/ CommitEntry(e)
  BY <1>9 DEF CommitCall, CommitEntry
<1>10. CASE \E k \in Campaigns : CommitCampaign(k)
  BY <1>10 DEF CommitCampaign
<1>11. ASSUME NEW e \in Contacts, TickAttempts(e) PROVE TypeOK'
  <2>1. [status |-> "dialing", attempts |-> entry[e].attempts + 1, callId |-> 0] \in Entry
    BY <1>11, EntryTypes DEF TickAttempts, Entry
  <2>2. op' \in Operation
    BY <1>11, EntryTypes DEF TickAttempts, Operation
  <2> QED BY <1>11, <2>1, <2>2 DEF TickAttempts
<1>12. ASSUME NEW e \in Contacts, TickUndoes(e) PROVE TypeOK'
  <2>1. entry' \in [Contacts -> Entry]
    BY <1>12, EntryTypes DEF TickUndoes, Undo
  <2>2. op' \in Operation
    BY <1>12, OperationTypes DEF TickUndoes, Saving, Operation
  <2> QED BY <1>12, <2>1, <2>2 DEF TickUndoes
<1>13. ASSUME NEW e \in Contacts, StartRefused(e) PROVE TypeOK'
  <2>1. entry' \in [Contacts -> Entry]
    <3>1. [entry[e] EXCEPT !.status = "skipped", !.attempts = op.was.attempts] \in Entry
      BY EntryTypes DEF Entry, Finished
    <3>2. [entry[e] EXCEPT !.status = "completed"] \in Entry
      BY EntryTypes DEF Entry, Finished
    <3>3. \/ entry' = [entry EXCEPT ![e] = [entry[e] EXCEPT !.status = "skipped", !.attempts = op.was.attempts]]
          \/ entry' = [entry EXCEPT ![e] = [entry[e] EXCEPT !.status = "completed"]]
      BY <1>13 DEF StartRefused
    <3> QED BY <3>1, <3>2, <3>3
  <2>2. op' \in Operation
    BY <1>13, OperationTypes DEF StartRefused, Saving, Operation
  <2> QED BY <1>13, <2>1, <2>2 DEF StartRefused
<1>14. ASSUME NEW e \in Contacts, StartReserves(e) PROVE TypeOK'
  <2>1. call' \in [Contacts -> [Attempts -> CallStates]]
    BY <1>14 DEF StartReserves, SetCall, CallStates
  <2>2. op' \in Operation
    BY <1>14 DEF StartReserves, Operation
  <2> QED BY <1>14, <2>1, <2>2 DEF StartReserves
<1>15. ASSUME NEW e \in Contacts, Dial(e) PROVE TypeOK'
  <2>0. dials[e] + 1 \in 0..MaxAttempts
    BY <1>15, EntryTypes DEF Dial, AttemptInHand, InHand, Entry
  <2>1. dials' \in [Contacts -> 0..MaxAttempts]
    BY <1>15, <2>0 DEF Dial
  <2>2. op' \in Operation
    BY <1>15 DEF Dial, Operation
  <2> QED BY <1>15, <2>1, <2>2 DEF Dial
<1>16. ASSUME NEW e \in Contacts, StartReturns(e) PROVE TypeOK'
  <2>1. entry' \in [Contacts -> Entry]
    <3>1. [entry[e] EXCEPT !.callId = entry[e].attempts] \in Entry
      BY EntryTypes DEF Entry
    <3>2. entry' = entry \/ entry' = [entry EXCEPT ![e] = [entry[e] EXCEPT !.callId = entry[e].attempts]]
      BY <1>16 DEF StartReturns
    <3> QED BY <3>1, <3>2
  <2>2. op' \in Operation /\ halted' \in BOOLEAN
    BY <1>16, OperationTypes DEF StartReturns, Saving, Operation, Rejects, Keep
  <2> QED BY <1>16, <2>1, <2>2 DEF StartReturns
<1>17. ASSUME NEW e \in Contacts, StartDenied(e) PROVE TypeOK'
  <2>1. entry' \in [Contacts -> Entry]
    BY <1>17, EntryTypes DEF StartDenied, Entry, Finished
  <2>2. op' \in Operation
    BY <1>17, OperationTypes DEF StartDenied, Saving, Operation
  <2>3. call' \in [Contacts -> [Attempts -> CallStates]]
    BY <1>17 DEF StartDenied, SetCall, CallStates
  <2> QED BY <1>17, <2>1, <2>2, <2>3 DEF StartDenied
<1>18. ASSUME NEW e \in Contacts, StartFails(e) PROVE TypeOK'
  <2> DEFINE n == entry[e].attempts
  <2>1. CASE ~storeOk
    BY <1>18, <2>1, OperationTypes DEF StartFails, Rejects
  <2>2. CASE storeOk
    <3>1. PICK after : /\ SetCall(e, n, after) /\ after \in {"active", "final", call[e][n]}
                       /\ entry' = [entry EXCEPT ![e] = Ended(e, n, after)]
                       /\ Saving /\ Keep
      BY <1>18, <2>2, Zenon DEF StartFails
    <3>2. n \in 0..MaxAttempts
      BY EntryTypes
    <3>3. entry' \in [Contacts -> Entry]
      BY <3>1, <3>2, EndedAsOne
    <3>4. call' \in [Contacts -> [Attempts -> CallStates]]
      <4>1. n \in Attempts
        <5>1. op.pc \in InHand /\ e \in op.contacts
          BY <1>18 DEF StartFails, InHand
        <5>2. entry[e].attempts = op.was.attempts + 1
          BY <5>1, Zenon DEF AttemptInHand
        <5>3. op.was.attempts \in Nat
          BY EntryTypes DEF Entry
        <5> QED BY <3>2, <5>2, <5>3, CountsAsAttempt, Zenon
      <4>2. after \in CallStates
        <5>1. call[e][n] \in CallStates
          BY <4>1, EntryTypes
        <5> QED BY <3>1, <5>1 DEF CallStates
      <4> QED BY <3>1, <4>1, <4>2, SetCallTypes
    <3>5. op' \in Operation
      BY <3>1, OperationTypes DEF Saving, Operation
    <3> QED BY <1>18, <3>1, <3>3, <3>4, <3>5 DEF StartFails, Keep
  <2> QED BY <2>1, <2>2
<1>19. ASSUME NEW e \in Contacts, StopsCall(e) PROVE TypeOK'
  <2>1. call' \in [Contacts -> [Attempts -> CallStates]]
    <3>1. [call[e] EXCEPT ![entry[e].callId] = "final"] \in [Attempts -> CallStates]
      BY DEF CallStates
    <3>2. call' = call \/ call' = [call EXCEPT ![e] = [call[e] EXCEPT ![entry[e].callId] = "final"]]
      BY <1>19 DEF StopsCall, SetCall
    <3> QED BY <3>1, <3>2
  <2>2. op' \in Operation
    BY <1>19 DEF StopsCall, Operation
  <2> QED BY <1>19, <2>1, <2>2 DEF StopsCall
<1>20. ASSUME NEW k \in Campaigns, Start(k) \/ Pause(k) \/ Stop(k) PROVE TypeOK'
  <2>1. PICK status \in {"running", "paused", "stopped"} : Controlled(k, status)
    BY <1>20 DEF Start, Pause, Stop
  <2>2. op' \in Operation
    <3>1. {k} \in SUBSET Campaigns
      OBVIOUS
    <3> QED BY <1>20, <3>1, OperationTypes DEF Start, Pause, Stop
  <2>3. campaign' \in [Campaigns -> CampaignStatus]
    BY <2>1 DEF Controlled, CampaignStatus
  <2> QED BY <2>1, <2>2, <2>3 DEF Controlled, Within
<1>21. ASSUME NEW e \in Contacts, NEW n \in Attempts, CallEnds(e, n) PROVE TypeOK'
  <2>1. call' \in [Contacts -> [Attempts -> CallStates]]
    BY <1>21 DEF CallEnds, SetCall, CallStates
  <2> QED BY <1>21, <2>1 DEF CallEnds
<1>22. CASE Crash \/ Exit
  <2>1. Down /\ restarts' \in 0..MaxRestarts
    BY <1>22 DEF Crash, Exit, Within
  <2>2. PICK unanswered : call' = SettledCalls(unanswered) /\ callRow' = call'
    BY <2>1 DEF Down
  <2>3. SettledCalls(unanswered) \in [Contacts -> [Attempts -> CallStates]]
    BY DEF SettledCalls, CallStates
  <2>4. /\ phase' = "down" /\ storeOk' = TRUE /\ halted' = FALSE /\ op' \in Operation
        /\ campaign' = campaignRow /\ entry' = row
        /\ others' = 0 /\ UNCHANGED <<hours, dialing, outside, controls, failures, campaignRow, row, dials>>
    BY <2>1, OperationTypes DEF Down
  <2>5. 0 \in 0..outside
    OBVIOUS
  <2> QED BY <2>1, <2>2, <2>3, <2>4, <2>5
<1>23. CASE Tick
  BY <1>4, <1>8, <1>11, <1>12, <1>13, <1>14, <1>15, <1>16, <1>17, <1>18, <1>23, Zenon DEF Tick
<1>24. CASE Control
  BY <1>4, <1>5, <1>8, <1>19, <1>24, Zenon DEF Control
<1> QED BY <1>1, <1>2, <1>3, <1>6, <1>7, <1>9, <1>10, <1>20, <1>21, <1>22, <1>23, <1>24, Zenon DEF Next, Commit

-----------------------------------------------------------------------------
(* The attempt in hand. *)

\* What AttemptInHand says of the contact of a step of the attempt.
LEMMA InHandFacts ==
  ASSUME TypeOK, AttemptInHand, NEW e \in op.contacts, op.pc \in InHand
  PROVE  /\ e \in Contacts /\ op.contacts = {e} /\ Of[e] \in Campaigns
         /\ entry[e] \in Entry /\ entry[e].status = "dialing" /\ entry[e].callId = 0 /\ op.was.status = "pending"
         /\ entry[e].attempts \in Attempts /\ entry[e].attempts \in Nat
         /\ entry[e].attempts = op.was.attempts + 1 /\ op.was \in Entry /\ op.was.attempts \in Nat
         /\ campaign[Of[e]] = "running"
<1>1. e \in Contacts /\ op.contacts = {e}
  BY DEF AttemptInHand
<1>2. entry[e] \in Entry /\ op.was \in Entry
  BY <1>1, EntryTypes
<1>3. /\ entry[e].status = "dialing" /\ entry[e].callId = 0 /\ op.was.status = "pending"
      /\ entry[e].attempts = op.was.attempts + 1
      /\ campaign[Of[e]] = "running"
  BY DEF AttemptInHand
<1>4. entry[e].attempts \in 0..MaxAttempts /\ op.was.attempts \in 0..MaxAttempts
  BY <1>2 DEF Entry
<1> QED BY <1>1, <1>2, <1>3, <1>4 DEF Attempts

LEMMA CommitFacts ==
  ASSUME Commit
  PROVE  /\ UNCHANGED <<world, process, bounds, cache, op, dials>>
         /\ \/ \E e \in Contacts : /\ callRow' = [callRow EXCEPT ![e] = call[e]]
                                   /\ UNCHANGED <<campaignRow, row>>
            \/ \E e \in Contacts : /\ row' = [row EXCEPT ![e] = entry[e]] /\ row[e] # entry[e]
                                   /\ entry[e].status = "dialing" \/ callRow[e] = call[e]
                                   /\ UNCHANGED <<campaignRow, callRow>>
            \/ \E k \in Campaigns : /\ campaignRow' = [campaignRow EXCEPT ![k] = campaign[k]]
                                    /\ \A e \in Contacts : Of[e] = k => row[e] = entry[e]
                                    /\ UNCHANGED <<row, callRow>>
  BY Zenon DEF Commit, CommitCall, CommitEntry, CommitCampaign

LEMMA InHandStep ==
  ASSUME TypeOK, AttemptInHand, DialsCounted, StopIsUnderWay, [Next]_vars
  PROVE  AttemptInHand'
<1> USE DEF cache, rows
<1>1. ASSUME op'.pc \notin InHand \cup {"controlled"} PROVE AttemptInHand'
  BY <1>1 DEF AttemptInHand
<1>2. CASE Quiet
  BY <1>1, <1>2 DEF Quiet, AttemptInHand
<1>3. CASE Commit
  <2>1. UNCHANGED <<op, entry, campaign, call, dials>>
    BY <1>3, CommitFacts
  <2>2. \A e \in op.contacts : row[e] = entry[e] => row'[e] = entry[e]
    BY <1>3, CommitFacts DEF TypeOK, Operation
  <2>3. \A k \in Campaigns : campaignRow[k] = "running" /\ campaign[k] = "running" => campaignRow'[k] = "running"
    BY <1>3, CommitFacts DEF TypeOK
  <2> QED BY <2>1, <2>2, <2>3, InHandFacts DEF AttemptInHand
<1>4. CASE Reconcile /\ op'.pc \in {"reconciled", "saving"}
  BY <1>1, <1>4 DEF InHand
<1>5. ASSUME NEW e \in Contacts, TickAttempts(e) PROVE AttemptInHand'
  <2>1. /\ op'.pc = "attempting" /\ op'.contacts = {e} /\ op'.was = entry[e]
        /\ entry'[e].status = "dialing" /\ entry'[e].attempts = entry[e].attempts + 1 /\ entry'[e].callId = 0
        /\ entry[e].status = "pending" /\ campaign[Of[e]] = "running"
        /\ UNCHANGED <<campaign, rows, dials>>
    BY <1>5 DEF TickAttempts, Eligible, TypeOK, Operation
  <2> QED BY <2>1 DEF AttemptInHand, DialsCounted, InHand
<1>6. ASSUME NEW e \in Contacts, TickUndoes(e) \/ StartRefused(e) \/ StartDenied(e) \/ StopsCall(e)
      PROVE  AttemptInHand'
  BY <1>1, <1>6 DEF TickUndoes, StartRefused, StartDenied, StopsCall, Saving, Idle, InHand, TypeOK, Operation
<1>7. ASSUME NEW e \in Contacts, StartReserves(e) PROVE AttemptInHand'
  <2>1. /\ e \in op.contacts /\ op.pc = "attempting" /\ op.pc \in InHand /\ Flushed
        /\ SetCall(e, entry[e].attempts, "active") /\ op' = [op EXCEPT !.pc = "calling"]
        /\ UNCHANGED <<campaign, entry, rows, dials>>
    BY <1>7, Zenon DEF StartReserves, Starts, Resumes, InHand
  <2>2. call'[e][entry[e].attempts] = "active"
    BY <2>1, InHandFacts, SetCallTypes DEF CallStates
  <2>3. op'.pc = "calling" /\ op'.contacts = {e} /\ op'.was = op.was /\ op.contacts = {e}
    BY <2>1, InHandFacts DEF TypeOK, Operation
  <2> QED BY <2>1, <2>2, <2>3 DEF AttemptInHand, Flushed, InHand
<1>8. ASSUME NEW e \in Contacts, Dial(e) PROVE AttemptInHand'
  <2>1. /\ op.pc = "calling" /\ op'.pc = "dialed" /\ op'.contacts = op.contacts /\ op'.was = op.was
        /\ UNCHANGED <<cache, rows>>
    BY <1>8 DEF Dial, TypeOK, Operation
  <2> QED BY <2>1 DEF AttemptInHand, InHand
<1>9. ASSUME NEW e \in Contacts, StartReturns(e) \/ StartFails(e) PROVE AttemptInHand'
  <2>1. op' = Idle \/ op' = [Idle EXCEPT !.pc = "saving", !.campaigns = op.campaigns]
    BY <1>9, Zenon DEF StartReturns, StartFails, Saving, Rejects
  <2>2. Idle.pc = "idle" /\ [Idle EXCEPT !.pc = "saving", !.campaigns = op.campaigns].pc = "saving"
    BY DEF Idle
  <2>3. op'.pc \in {"idle", "saving"}
    BY <2>1, <2>2
  <2> QED BY <1>1, <2>3 DEF InHand
<1>10. ASSUME NEW k \in Campaigns, Start(k) \/ Pause(k) \/ StopSkips(k) PROVE AttemptInHand'
  BY <1>1, <1>10 DEF Start, Pause, StopSkips, Idle, InHand, TypeOK, Operation
<1>11. ASSUME NEW k \in Campaigns, Stop(k) PROVE AttemptInHand'
  BY <1>11 DEF Stop, Idle, InHand, AttemptInHand
<1>12. ASSUME NEW e \in Contacts, NEW n \in Attempts, CallEnds(e, n) PROVE AttemptInHand'
  <2>1. UNCHANGED <<campaign, entry, rows, op, dials>>
    BY <1>12 DEF CallEnds
  <2>2. \A x \in Contacts, i \in Attempts : call[x][i] # "none" => call'[x][i] # "none"
    BY <1>12 DEF CallEnds, SetCall, TypeOK
  <2> QED BY <2>1, <2>2, InHandFacts DEF AttemptInHand
<1>13. CASE Crash \/ Exit
  BY <1>1, <1>13 DEF Crash, Exit, Down, Idle, InHand
<1> QED BY Kinds, <1>2, <1>3, <1>4, <1>5, <1>6, <1>7, <1>8, <1>9, <1>10, <1>11, <1>12, <1>13, Zenon

-----------------------------------------------------------------------------
(* What a step makes of the entry of one contact. *)

\* The attempt in hand is taken back, refused, or over.
AttemptEnds(e) ==
  /\ e \in op.contacts /\ op.pc \in InHand /\ op'.pc \in {"idle", "saving"}
  /\ \A x \in Contacts : x # e => entry'[x] = entry[x] /\ call'[x] = call[x]
  /\ \A i \in Attempts : i # entry[e].attempts => call'[e][i] = call[e][i]
  /\ call'[e][entry[e].attempts] \in {call[e][entry[e].attempts], "final"}
  /\ call[e][entry[e].attempts] # "active" => call'[e] = call[e]
  /\ op.pc = "attempting" => call' = call
  /\ call' \in [Contacts -> [Attempts -> CallStates]]
  /\ entry'[e].status \in {"pending", "dialing"} \cup Finished
  /\ \/ entry'[e].attempts = entry[e].attempts
     \/ entry'[e].attempts = op.was.attempts /\ op.pc # "dialed"
  /\ \/ entry'[e] = op.was /\ op.pc = "attempting" /\ storeOk
     \/ entry'[e].status = "skipped" /\ call'[e][entry[e].attempts] # "active" /\ storeOk
     \/ entry'[e].status = "completed" /\ entry'[e].attempts = entry[e].attempts /\ storeOk
     \/ /\ entry'[e].status = "pending" /\ entry'[e].attempts = entry[e].attempts /\ op.pc # "attempting"
        /\ call'[e][entry[e].attempts] = "retry" /\ entry[e].attempts < MaxAttempts /\ storeOk
     \/ /\ entry'[e].status = "dialing" /\ entry'[e].attempts = entry[e].attempts
        /\ entry'[e].callId \in {0, entry[e].attempts} /\ call' = call
  /\ UNCHANGED <<phase, storeOk, restarts, campaign, rows, dials>>

LEMMA AttemptEnding ==
  ASSUME TypeOK, AttemptInHand, NothingAhead, NEW e \in Contacts,
         TickUndoes(e) \/ StartRefused(e) \/ StartReturns(e) \/ StartDenied(e) \/ StartFails(e)
  PROVE  AttemptEnds(e)
<1> DEFINE n == entry[e].attempts
<1> USE DEF process, bounds, world, rows
<1>1. e \in op.contacts /\ op.pc \in InHand
  BY Zenon DEF TickUndoes, StartRefused, StartReturns, StartDenied, StartFails, Starts, Resumes, InHand
<1>2. /\ n \in Attempts /\ entry[e] \in Entry /\ op.was \in Entry /\ entry[e].status = "dialing" /\ entry[e].callId = 0
      /\ call[e][n] \in CallStates
  BY <1>1, InHandFacts, EntryTypes
<1>3. op'.pc \in {"idle", "saving"}
  <2>1. op' = Idle \/ op' = [Idle EXCEPT !.pc = "saving", !.campaigns = op.campaigns]
    BY Zenon DEF TickUndoes, StartRefused, StartReturns, StartDenied, StartFails, Saving, Rejects
  <2>2. Idle.pc = "idle" /\ [Idle EXCEPT !.pc = "saving", !.campaigns = op.campaigns].pc = "saving"
    BY DEF Idle
  <2> QED BY <2>1, <2>2
<1>4. CASE TickUndoes(e)
  <2>1. op.pc = "attempting" /\ storeOk /\ entry' = [entry EXCEPT ![e] = op.was] /\ UNCHANGED <<phase, storeOk, restarts, campaign, call, rows, dials>>
    BY <1>4 DEF TickUndoes, Undo, Starts, Resumes
  <2> QED BY <1>1, <1>2, <1>3, <2>1 DEF AttemptEnds, TypeOK, Entry
<1>5. CASE StartRefused(e)
  <2>1. /\ op.pc = "attempting" /\ storeOk /\ UNCHANGED <<phase, storeOk, restarts, campaign, call, rows, dials>>
        /\ \/ entry' = [entry EXCEPT ![e] = [entry[e] EXCEPT !.status = "skipped", !.attempts = op.was.attempts]]
           \/ entry' = [entry EXCEPT ![e] = [entry[e] EXCEPT !.status = "completed"]]
    BY <1>5 DEF StartRefused, Starts, Resumes
  <2>2. call[e][n] = "none"
    BY <1>1, <1>2, <2>1 DEF NothingAhead, Attempts
  <2>3. /\ \A x \in Contacts : x # e => entry'[x] = entry[x]
        /\ entry'[e].status \in {"skipped", "completed"}
        /\ entry'[e].status = "completed" => entry'[e].attempts = n
        /\ entry'[e].attempts \in {n, op.was.attempts}
    <3>1. \A x \in Contacts : x # e => entry'[x] = entry[x]
      BY <2>1 DEF TypeOK
    <3>2. CASE entry' = [entry EXCEPT ![e] = [entry[e] EXCEPT !.status = "skipped", !.attempts = op.was.attempts]]
      <4>1. entry'[e] = [entry[e] EXCEPT !.status = "skipped", !.attempts = op.was.attempts]
        BY <3>2 DEF TypeOK
      <4> QED BY <1>2, <3>1, <4>1 DEF Entry
    <3>3. CASE entry' = [entry EXCEPT ![e] = [entry[e] EXCEPT !.status = "completed"]]
      <4>1. entry'[e] = [entry[e] EXCEPT !.status = "completed"]
        BY <3>3 DEF TypeOK
      <4> QED BY <1>2, <3>1, <4>1 DEF Entry
    <3> QED BY <2>1, <3>2, <3>3
  <2> QED BY <1>1, <1>2, <1>3, <2>1, <2>2, <2>3 DEF AttemptEnds, TypeOK, Finished
<1>6. CASE StartReturns(e)
  <2>1. /\ op.pc = "dialed" /\ UNCHANGED <<phase, storeOk, restarts, campaign, call, rows, dials>>
        /\ entry' = entry \/ entry' = [entry EXCEPT ![e] = [entry[e] EXCEPT !.callId = n]]
    BY <1>6 DEF StartReturns
  <2>2. /\ \A x \in Contacts : x # e => entry'[x] = entry[x]
        /\ entry'[e].status = "dialing" /\ entry'[e].attempts = n /\ entry'[e].callId \in {0, n}
    BY <1>2, <2>1 DEF TypeOK, Entry
  <2> QED BY <1>1, <1>2, <1>3, <2>1, <2>2 DEF AttemptEnds, TypeOK, Finished
<1>7. CASE StartDenied(e)
  <2> DEFINE state == IF call[e][n] = "active" THEN "final" ELSE call[e][n]
  <2>1. /\ op.pc = "calling" /\ storeOk /\ SetCall(e, n, state)
        /\ entry' = [entry EXCEPT ![e] = [entry[e] EXCEPT !.status = "skipped", !.attempts = op.was.attempts]]
        /\ UNCHANGED <<phase, storeOk, restarts, campaign, rows, dials>>
    BY <1>7 DEF StartDenied
  <2>2. state \in CallStates /\ state # "active" /\ state \in {call[e][n], "final"}
        /\ (call[e][n] # "active" => state = call[e][n])
    BY <1>2 DEF CallStates
  <2> HIDE DEF state
  <2>3. /\ call' \in [Contacts -> [Attempts -> CallStates]] /\ call'[e][n] = state
        /\ \A i \in Attempts : i # n => call'[e][i] = call[e][i]
        /\ \A x \in Contacts : x # e => call'[x] = call[x]
    BY <1>2, <2>1, <2>2, SetCallTypes
  <2>4. call[e][n] # "active" => call'[e] = call[e]
    BY <2>2, <2>3 DEF TypeOK
  <2>5. /\ \A x \in Contacts : x # e => entry'[x] = entry[x]
        /\ entry'[e].status = "skipped" /\ entry'[e].attempts = op.was.attempts
    BY <1>2, <2>1 DEF TypeOK, Entry
  <2> QED BY <1>1, <1>2, <1>3, <2>1, <2>2, <2>3, <2>4, <2>5 DEF AttemptEnds, Finished
<1>8. CASE StartFails(e)
  <2>1. UNCHANGED <<phase, storeOk, restarts, campaign, rows, dials>> /\ op.pc # "attempting"
    BY <1>8 DEF StartFails
  <2>2. CASE ~storeOk
    <3>1. UNCHANGED <<entry, call>>
      BY <1>8, <2>2 DEF StartFails
    <3> QED BY <1>1, <1>2, <1>3, <2>1, <3>1 DEF AttemptEnds, TypeOK, Finished
  <2>3. CASE storeOk
    <3>1. PICK state \in {"active", "final"} :
            LET after == IF call[e][n] = "active" THEN state ELSE call[e][n] IN
            SetCall(e, n, after) /\ entry' = [entry EXCEPT ![e] = Ended(e, n, after)]
      BY <1>8, <2>3, Zenon DEF StartFails
    <3> DEFINE after == IF call[e][n] = "active" THEN state ELSE call[e][n]
    <3>2. /\ after \in CallStates /\ after \in {call[e][n], "final"}
          /\ (call[e][n] # "active" => after = call[e][n])
          /\ SetCall(e, n, after) /\ entry' = [entry EXCEPT ![e] = Ended(e, n, after)]
      BY <1>2, <3>1 DEF CallStates
    <3> HIDE DEF after
    <3>3. /\ call' \in [Contacts -> [Attempts -> CallStates]] /\ call'[e][n] = after
          /\ \A i \in Attempts : i # n => call'[e][i] = call[e][i]
          /\ \A x \in Contacts : x # e => call'[x] = call[x]
      BY <1>2, <3>2, SetCallTypes
    <3>4. call[e][n] # "active" => call'[e] = call[e]
      <4> SUFFICES ASSUME call[e][n] # "active" PROVE call'[e] = call[e]
        OBVIOUS
      <4>1. call'[e] \in [Attempts -> CallStates] /\ call[e] \in [Attempts -> CallStates]
        BY <3>3 DEF TypeOK
      <4>2. \A i \in Attempts : call'[e][i] = call[e][i]
        BY <3>2, <3>3
      <4> QED BY <4>1, <4>2
    <3>5. n \in 0..MaxAttempts /\ entry'[e] = Ended(e, n, after) /\ \A x \in Contacts : x # e => entry'[x] = entry[x]
      BY <1>2, <3>2, EntryTypes DEF TypeOK
    <3>6. CASE Retries(e, after)
      <4>1. entry'[e].status = "pending" /\ entry'[e].attempts = n /\ after = "retry" /\ n < MaxAttempts
        BY <3>5, <3>6, EndedAsOne DEF Retries
      <4> QED BY <1>1, <1>2, <1>3, <2>1, <2>3, <3>2, <3>3, <3>4, <3>5, <4>1 DEF AttemptEnds, Finished
    <3>7. CASE ~Retries(e, after)
      <4>1. entry'[e].status = "completed" /\ entry'[e].attempts = n
        BY <3>5, <3>7, EndedAsOne
      <4> QED BY <1>1, <1>2, <1>3, <2>1, <2>3, <3>2, <3>3, <3>4, <3>5, <4>1 DEF AttemptEnds, Finished
    <3> QED BY <3>6, <3>7
  <2> QED BY <2>2, <2>3 DEF TypeOK
<1> QED BY <1>4, <1>5, <1>6, <1>7, <1>8

\* A call ends, by itself or for a stop.
CallIsOver(e, n) ==
  /\ call[e][n] = "active" /\ \E state \in {"retry", "final"} : SetCall(e, n, state)
  /\ UNCHANGED <<phase, storeOk, restarts, campaign, entry, rows, dials>>
  /\ op'.pc = op.pc /\ op'.was = op.was
  /\ op.pc \in InHand \cup {"controlled"} => op' = op

Controls(k) ==
  /\ storeOk /\ op.pc = "idle" /\ campaign[k] \notin {"completed", "stopped"}
  /\ \/ campaign' = [campaign EXCEPT ![k] = "running"] /\ op'.pc = "saving"
     \/ campaign' = [campaign EXCEPT ![k] = "paused"] /\ op'.pc = "saving"
     \/ campaign' = [campaign EXCEPT ![k] = "stopped"] /\ op'.pc = "controlled" /\ op'.campaigns = {k}
  /\ UNCHANGED <<phase, storeOk, restarts, entry, call, rows, dials>>

Reconciles ==
  /\ Reconcile /\ UNCHANGED <<phase, storeOk, restarts, call, rows, dials>>
  /\ op.pc \in {"idle", "ending"} /\ op'.pc \in {"reconciled", "saving"}

Exits == Down /\ restarts' > 0

LEMMA Moves ==
  ASSUME TypeOK, AttemptInHand, NothingAhead, StopIsUnderWay, [Next]_vars
  PROVE  \/ Quiet \/ Commit \/ Reconciles \/ Exits
         \/ \E e \in Contacts : TickAttempts(e) \/ StartReserves(e) \/ Dial(e) \/ AttemptEnds(e)
         \/ \E e \in Contacts, n \in Attempts : CallIsOver(e, n)
         \/ \E k \in Campaigns : Controls(k) \/ StopSkips(k)
<1> USE DEF process, bounds, world, rows
<1>1. ASSUME NEW e \in Contacts, StopsCall(e)
      PROVE  Quiet \/ \E n \in Attempts : CallIsOver(e, n)
  <2>1. /\ op.pc = "ending" /\ op'.pc = "ending" /\ op'.was = op.was
        /\ UNCHANGED <<phase, storeOk, restarts, campaign, entry, rows, dials>>
    BY <1>1 DEF StopsCall, TypeOK, Operation
  <2>2. CASE call' = call
    BY <2>1, <2>2 DEF Quiet, InHand, cache, TypeOK
  <2>3. CASE call[e][entry[e].callId] = "active" /\ SetCall(e, entry[e].callId, "final")
    <3>1. CASE entry[e].callId \in Attempts
      BY <2>1, <2>3, <3>1 DEF CallIsOver, InHand
    <3>2. CASE entry[e].callId \notin Attempts
      <4>1. call' = call
        BY <2>3, <3>2 DEF SetCall, TypeOK
      <4> QED BY <2>2, <4>1
    <3> QED BY <3>1, <3>2
  <2> QED BY <1>1, <2>2, <2>3 DEF StopsCall
<1>2. ASSUME NEW e \in Contacts, NEW n \in Attempts, CallEnds(e, n)
      PROVE  CallIsOver(e, n)
  BY <1>2 DEF CallEnds, CallIsOver
<1>3. ASSUME NEW k \in Campaigns, Start(k) \/ Pause(k) \/ Stop(k)
      PROVE  Controls(k)
  BY <1>3 DEF Start, Pause, Stop, Controlled, Controls, Idle
<1>4. CASE Crash \/ Exit
  <2>1. restarts \in Nat
    BY DEF TypeOK
  <2> QED BY <1>4, <2>1 DEF Crash, Exit, Exits, StopIsUnderWay
<1>5. ASSUME NEW e \in Contacts,
             TickUndoes(e) \/ StartRefused(e) \/ StartReturns(e) \/ StartDenied(e) \/ StartFails(e)
      PROVE  AttemptEnds(e)
  BY <1>5, AttemptEnding
<1>6. CASE Reconcile /\ UNCHANGED <<phase, storeOk, restarts, call, rows, dials>>
           /\ op.pc \in {"idle", "ending"} /\ op'.pc \in {"reconciled", "saving"}
  BY <1>6, Zenon DEF Reconciles
<1> QED BY Kinds, <1>1, <1>2, <1>3, <1>4, <1>5, <1>6, Zenon

-----------------------------------------------------------------------------
(* Attempts are counted before they ring. *)

LEMMA CountedStep ==
  ASSUME TypeOK, AttemptInHand, DialsCounted, NothingAhead, StopIsUnderWay, [Next]_vars
  PROVE  DialsCounted'
<1> USE DEF rows, cache
<1>0. \A x \in Contacts : /\ dials[x] <= entry[x].attempts /\ dials[x] <= row[x].attempts /\ dials[x] \in Nat
                          /\ entry[x].attempts \in Nat /\ row[x].attempts \in Nat
  BY EntryTypes DEF DialsCounted, TypeOK, Entry
<1>1. CASE Quiet
  BY <1>1 DEF Quiet, DialsCounted
<1>2. CASE Commit
  <2>1. UNCHANGED <<entry, dials>> /\ \A x \in Contacts : row'[x] \in {row[x], entry[x]}
    BY <1>2, CommitFacts DEF TypeOK
  <2> QED BY <1>0, <2>1 DEF DialsCounted
<1>3. CASE Reconciles
  <2>1. UNCHANGED <<row, dials>> /\ \A x \in Contacts : entry'[x].attempts = entry[x].attempts
    BY <1>3, ReconciledAsOne DEF Reconciles, Reconcile
  <2> QED BY <1>0, <2>1 DEF DialsCounted
<1>4. CASE Exits
  BY <1>0, <1>4 DEF Exits, Down, DialsCounted
<1>5. ASSUME NEW e \in Contacts, TickAttempts(e) PROVE DialsCounted'
  <2>1. /\ UNCHANGED <<row, dials>> /\ entry'[e].attempts = entry[e].attempts + 1
        /\ \A x \in Contacts : x # e => entry'[x] = entry[x]
    BY <1>5 DEF TickAttempts, TypeOK
  <2> QED BY <1>0, <2>1 DEF DialsCounted
<1>6. ASSUME NEW e \in Contacts, StartReserves(e) PROVE DialsCounted'
  BY <1>0, <1>6 DEF StartReserves, DialsCounted
<1>7. ASSUME NEW e \in Contacts, Dial(e) PROVE DialsCounted'
  <2>1. /\ UNCHANGED <<row, entry>> /\ dials' = [dials EXCEPT ![e] = dials[e] + 1]
        /\ e \in op.contacts /\ op.pc = "calling" /\ op.pc \in InHand
    BY <1>7 DEF Dial, InHand
  <2>2. dials[e] <= op.was.attempts /\ entry[e].attempts = op.was.attempts + 1 /\ row[e] = entry[e] /\ op.was.attempts \in Nat
    BY <2>1, InHandFacts DEF AttemptInHand
  <2> QED BY <1>0, <2>1, <2>2 DEF DialsCounted, TypeOK
<1>8. ASSUME NEW e \in Contacts, AttemptEnds(e) PROVE DialsCounted'
  <2>1. UNCHANGED <<row, dials>> /\ \A x \in Contacts : x # e => entry'[x] = entry[x]
    BY <1>8 DEF AttemptEnds
  <2>2. \/ entry'[e].attempts = entry[e].attempts
        \/ entry'[e].attempts = op.was.attempts /\ dials[e] <= op.was.attempts
    <3>1. e \in op.contacts /\ op.pc \in InHand
      BY <1>8 DEF AttemptEnds
    <3>2. op.pc # "dialed" => dials[e] <= op.was.attempts
      BY <3>1, Zenon DEF AttemptInHand
    <3>3. \/ entry'[e].attempts = entry[e].attempts
          \/ entry'[e].attempts = op.was.attempts /\ op.pc # "dialed"
      BY <1>8 DEF AttemptEnds
    <3> QED BY <3>2, <3>3
  <2> QED BY <1>0, <2>1, <2>2 DEF DialsCounted
<1>9. ASSUME NEW e \in Contacts, NEW n \in Attempts, CallIsOver(e, n) PROVE DialsCounted'
  BY <1>0, <1>9 DEF CallIsOver, DialsCounted
<1>10. ASSUME NEW k \in Campaigns, Controls(k) PROVE DialsCounted'
  BY <1>0, <1>10 DEF Controls, DialsCounted
<1>11. ASSUME NEW k \in Campaigns, StopSkips(k) PROVE DialsCounted'
  <2>1. UNCHANGED <<row, dials>> /\ \A x \in Contacts : entry'[x].attempts = entry[x].attempts
    BY <1>11, EntryTypes DEF StopSkips, Entry
  <2> QED BY <1>0, <2>1 DEF DialsCounted
<1> QED BY Moves, <1>1, <1>2, <1>3, <1>4, <1>5, <1>6, <1>7, <1>8, <1>9, <1>10, <1>11, Zenon

-----------------------------------------------------------------------------
(* What a reconciliation makes of a contact that is being called. *)

LEMMA ReconciledFacts ==
  ASSUME TypeOK, DialingIsNamed, NEW e \in Contacts, entry[e].status = "dialing"
  PROVE  LET n == entry[e].attempts IN
         /\ n \in Attempts /\ Reconciled(e).attempts = n
         /\ \/ Reconciled(e).status = "skipped" /\ call[e][n] # "active"
            \/ Reconciled(e).status = "dialing" /\ Reconciled(e).callId = n /\ call[e][n] = "active"
            \/ Reconciled(e).status = "completed" /\ call[e][n] # "active"
            \/ /\ Reconciled(e).status = "pending" /\ call[e][n] = "retry" /\ n < MaxAttempts
               /\ campaign[Of[e]] # "stopped"
<1> DEFINE n == entry[e].attempts
<1>1. n \in Attempts /\ entry[e].callId \in {0, n}
  BY EntryTypes DEF DialingIsNamed, Named, Attempts
<1>2. n \in 0..MaxAttempts /\ n # 0 /\ Reconciled(e).attempts = n
  BY <1>1, ReconciledAsOne DEF Attempts
<1>3. \/ Seen(e) = n
      \/ Seen(e) = 0 /\ call[e][n] = "none"
  BY <1>1, <1>2 DEF Seen
<1>4. CASE Seen(e) = 0
  BY <1>1, <1>2, <1>3, <1>4, ReconciledAsOne
<1>5. CASE Seen(e) = n /\ call[e][n] = "active"
  BY <1>1, <1>2, <1>5, ReconciledAsOne
<1>6. CASE Seen(e) = n /\ call[e][n] # "active"
  <2>1. Reconciled(e) = Ended(e, n, call[e][n])
    BY <1>2, <1>6, ReconciledAsOne
  <2>2. CASE Retries(e, call[e][n])
    BY <1>1, <1>2, <2>1, <2>2, EndedAsOne DEF Retries
  <2>3. CASE ~Retries(e, call[e][n])
    BY <1>1, <1>2, <1>6, <2>1, <2>3, EndedAsOne
  <2> QED BY <2>2, <2>3
<1> QED BY <1>3, <1>4, <1>5, <1>6

\* The entries and rows that a step may leave a contact with.
LEMMA EntryMoves ==
  ASSUME TypeOK, AttemptInHand, DialingIsNamed, NothingAhead, StopIsUnderWay, [Next]_vars,
         NEW e \in Contacts
  PROVE  /\ row'[e] \in {row[e], entry[e]}
         /\ \/ entry'[e] \in {entry[e], row[e]}
            \/ entry'[e].status \in Finished
            \/ /\ entry'[e].status = "dialing" /\ entry'[e].attempts \in Attempts
               /\ entry'[e].callId \in {0, entry'[e].attempts}
            \/ entry'[e].status = "pending" /\ entry'[e].attempts < MaxAttempts
<1> USE DEF rows, cache
<1>1. CASE Quiet
  BY <1>1 DEF Quiet
<1>2. CASE Commit
  BY <1>2, CommitFacts DEF TypeOK
<1>3. CASE Reconciles
  <2>1. entry'[e] = Reconciled(e) /\ row' = row
    BY <1>3 DEF Reconciles, Reconcile
  <2>2. CASE entry[e].status = "dialing"
    BY <2>1, <2>2, ReconciledFacts DEF Finished
  <2>3. CASE entry[e].status # "dialing"
    BY <2>1, <2>3, ReconciledAsOne
  <2> QED BY <2>2, <2>3
<1>4. CASE Exits
  BY <1>4 DEF Exits, Down
<1>5. ASSUME NEW x \in Contacts, TickAttempts(x)
      PROVE  /\ row' = row
             /\ \/ entry'[e] = entry[e]
                \/ /\ entry'[e].status = "dialing" /\ entry'[e].attempts \in Attempts
                   /\ entry'[e].callId \in {0, entry'[e].attempts}
  <2>1. /\ entry' = [entry EXCEPT ![x] = [status |-> "dialing", attempts |-> entry[x].attempts + 1, callId |-> 0]]
        /\ entry[x].attempts < MaxAttempts /\ row' = row
    BY <1>5 DEF TickAttempts
  <2>2. entry[x].attempts \in Nat /\ MaxAttempts \in Nat
    BY EntryTypes
  <2>3. entry[x].attempts + 1 \in Attempts
    BY <2>1, <2>2 DEF Attempts
  <2>4. entry'[e] = IF x = e THEN [status |-> "dialing", attempts |-> entry[x].attempts + 1, callId |-> 0]
                    ELSE entry[e]
    BY <2>1 DEF TypeOK
  <2> QED BY <2>1, <2>3, <2>4
<1>6. ASSUME NEW x \in Contacts, StartReserves(x) \/ Dial(x)
      PROVE  row' = row /\ entry' = entry
  BY <1>6 DEF StartReserves, Dial
<1>7. ASSUME NEW x \in Contacts, AttemptEnds(x), x # e
      PROVE  row' = row /\ entry'[e] = entry[e]
  BY <1>7 DEF AttemptEnds
<1>8. CASE AttemptEnds(e)
  <2>1. e \in op.contacts /\ op.pc \in InHand /\ row' = row
    BY <1>8 DEF AttemptEnds
  <2>2. /\ entry[e].attempts \in Attempts /\ entry[e].attempts = op.was.attempts + 1
        /\ op.was.status = "pending" /\ op.was.attempts \in Nat
    BY <2>1, InHandFacts
  <2>3. \/ entry'[e] = op.was
        \/ entry'[e].status \in Finished
        \/ entry'[e].status = "pending" /\ entry'[e].attempts = entry[e].attempts /\ entry[e].attempts < MaxAttempts
        \/ /\ entry'[e].status = "dialing" /\ entry'[e].attempts = entry[e].attempts
           /\ entry'[e].callId \in {0, entry[e].attempts}
    BY <1>8 DEF AttemptEnds, Finished
  <2> QED BY <2>1, <2>2, <2>3 DEF Attempts
<1>9. ASSUME NEW x \in Contacts, NEW n \in Attempts, CallIsOver(x, n)
      PROVE  row' = row /\ entry' = entry
  BY <1>9 DEF CallIsOver
<1>10. ASSUME NEW k \in Campaigns, Controls(k) PROVE row' = row /\ entry' = entry
  BY <1>10 DEF Controls
<1>11. ASSUME NEW k \in Campaigns, StopSkips(k)
       PROVE  row' = row /\ (entry'[e] = entry[e] \/ entry'[e].status \in Finished)
  BY <1>11, EntryTypes DEF StopSkips, Entry, Finished
<1> QED BY Moves, <1>1, <1>2, <1>3, <1>4, <1>5, <1>6, <1>7, <1>8, <1>9, <1>10, <1>11, Zenon

LEMMA NamedStep ==
  ASSUME TypeOK, AttemptInHand, DialingIsNamed, NothingAhead, StopIsUnderWay, [Next]_vars
  PROVE  DialingIsNamed'
<1> SUFFICES ASSUME NEW e \in Contacts PROVE Named(entry'[e]) /\ Named(row'[e])
  BY DEF DialingIsNamed, Named
<1>1. Named(entry[e]) /\ Named(row[e])
  BY DEF DialingIsNamed
<1> QED BY <1>1, EntryMoves DEF Named, Attempts, Finished

LEMMA QueuedStep ==
  ASSUME TypeOK, AttemptInHand, DialingIsNamed, NothingAhead, StopIsUnderWay, QueuedHasAttemptsLeft,
         [Next]_vars
  PROVE  QueuedHasAttemptsLeft'
  BY EntryMoves DEF QueuedHasAttemptsLeft, Finished

-----------------------------------------------------------------------------
(* The status of a campaign and its contacts. *)

LEMMA CompletionStep ==
  ASSUME TypeOK, AttemptInHand, DialingIsNamed, NothingAhead, StopIsUnderWay, CompletionIsDurable,
         [Next]_vars
  PROVE  CompletionIsDurable'
<1> USE DEF rows, cache
<1>0. /\ \A e \in Contacts : Of[e] \in Campaigns
      /\ campaign \in [Campaigns -> CampaignStatus] /\ campaignRow \in [Campaigns -> CampaignStatus]
      /\ entry \in [Contacts -> Entry] /\ row \in [Contacts -> Entry]
  BY DEF TypeOK
<1>1. CASE Quiet
  BY <1>1 DEF Quiet, CompletionIsDurable
<1>2. CASE Commit
  <2>1. UNCHANGED <<campaign, entry>>
    BY <1>2, CommitFacts
  <2>2. CASE UNCHANGED <<campaignRow, row>>
    BY <2>1, <2>2 DEF CompletionIsDurable
  <2>3. CASE campaignRow' = campaignRow /\ \E e \in Contacts : row' = [row EXCEPT ![e] = entry[e]]
    <3>1. \A e \in Contacts : row'[e] \in {row[e], entry[e]}
      BY <1>0, <2>3
    <3> QED BY <2>1, <2>3, <3>1 DEF CompletionIsDurable
  <2>4. ASSUME NEW k \in Campaigns, campaignRow' = [campaignRow EXCEPT ![k] = campaign[k]], row' = row,
               \A e \in Contacts : Of[e] = k => row[e] = entry[e]
        PROVE  CompletionIsDurable'
    <3> SUFFICES ASSUME NEW e \in Contacts, campaignRow'[Of[e]] = "completed"
                 PROVE  campaign[Of[e]] = "completed" /\ row[e].status \in Finished
      BY <2>1, <2>4 DEF CompletionIsDurable
    <3>1. CASE Of[e] = k
      BY <1>0, <2>4, <3>1 DEF CompletionIsDurable
    <3>2. CASE Of[e] # k
      BY <1>0, <2>4, <3>2 DEF CompletionIsDurable
    <3> QED BY <3>1, <3>2
  <2> QED BY <1>2, <2>2, <2>3, <2>4, CommitFacts
<1>3. CASE Reconciles
  <2>1. /\ UNCHANGED <<campaignRow, row>> /\ \A e \in Contacts : entry'[e] = Reconciled(e)
        /\ \A k \in Campaigns : campaign'[k] = IF campaign[k] = "running" /\ Completes(k)
                                              THEN "completed" ELSE campaign[k]
    BY <1>3 DEF Reconciles, Reconcile
  <2> SUFFICES ASSUME NEW e \in Contacts
               PROVE  /\ campaign'[Of[e]] = "completed" => Reconciled(e).status \in Finished
                      /\ campaign[Of[e]] = "completed" => campaign'[Of[e]] = "completed"
    BY <2>1 DEF CompletionIsDurable
  <2>2. campaign[Of[e]] = "completed" => campaign'[Of[e]] = "completed"
    BY <1>0, <2>1
  <2>3. CASE campaign[Of[e]] = "completed"
    <3>1. entry[e].status # "dialing" /\ entry[e].status \in Finished
      BY <2>3 DEF CompletionIsDurable, Finished
    <3> QED BY <2>2, <3>1, ReconciledAsOne
  <2>4. CASE campaign[Of[e]] # "completed"
    BY <1>0, <2>1, <2>4 DEF Completes
  <2> QED BY <2>2, <2>3, <2>4
<1>4. CASE Exits
  BY <1>4 DEF Exits, Down, CompletionIsDurable
<1>5. ASSUME NEW e \in Contacts,
             TickAttempts(e) \/ AttemptEnds(e)
      PROVE  CompletionIsDurable'
  <2>1. UNCHANGED <<campaign, campaignRow, row>> /\ \A x \in Contacts : x # e => entry'[x] = entry[x]
    BY <1>5 DEF TickAttempts, AttemptEnds, TypeOK
  <2>2. campaign[Of[e]] = "running"
    BY <1>5, InHandFacts DEF TickAttempts, Eligible, AttemptEnds
  <2> QED BY <2>1, <2>2 DEF CompletionIsDurable
<1>6. ASSUME NEW e \in Contacts, NEW n \in Attempts, StartReserves(e) \/ Dial(e) \/ CallIsOver(e, n)
      PROVE  CompletionIsDurable'
  <2>1. UNCHANGED <<campaign, campaignRow, entry, row>>
    BY <1>6 DEF StartReserves, Dial, CallIsOver
  <2> QED BY <2>1 DEF CompletionIsDurable
<1>7. ASSUME NEW k \in Campaigns, Controls(k) PROVE CompletionIsDurable'
  <2>1. /\ UNCHANGED <<campaignRow, entry, row>> /\ campaign[k] # "completed" /\ campaign'[k] # "completed"
        /\ \A i \in Campaigns : i # k => campaign'[i] = campaign[i]
    BY <1>0, <1>7 DEF Controls
  <2> QED BY <1>0, <2>1 DEF CompletionIsDurable
<1>8. ASSUME NEW k \in Campaigns, StopSkips(k) PROVE CompletionIsDurable'
  <2>1. /\ UNCHANGED <<campaign, campaignRow, row>>
        /\ \A e \in Contacts : entry'[e] = entry[e] \/ entry'[e].status \in Finished
    BY <1>8, EntryTypes DEF StopSkips, Entry, Finished
  <2> QED BY <2>1 DEF CompletionIsDurable
<1>9. Attempts # {}
  BY DEF Attempts
<1> QED BY Moves, <1>1, <1>2, <1>3, <1>4, <1>5, <1>6, <1>7, <1>8, <1>9, Zenon

LEMMA StopStep ==
  ASSUME TypeOK, AttemptInHand, DialingIsNamed, NothingAhead, StopIsUnderWay, [Next]_vars
  PROVE  StopIsUnderWay'
<1> USE DEF rows, cache, process, bounds
<1>0. \A e \in Contacts : Of[e] \in Campaigns
  OBVIOUS
<1>1. CASE Quiet
  BY <1>1 DEF Quiet, StopIsUnderWay, TypeOK
<1>2. CASE Commit
  BY <1>2, CommitFacts DEF StopIsUnderWay
<1>3. CASE Reconciles
  <2>1. /\ UNCHANGED <<phase, restarts, storeOk>> /\ op.pc # "controlled"
        /\ \A e \in Contacts : entry'[e] = Reconciled(e)
        /\ \A k \in Campaigns : campaign'[k] = "stopped" => campaign[k] = "stopped"
    BY <1>3 DEF Reconciles, Reconcile
  <2> SUFFICES ASSUME restarts = 0, storeOk, NEW e \in Contacts, campaign[Of[e]] = "stopped",
                      Reconciled(e).status = "pending"
               PROVE  FALSE
    BY <1>0, <2>1 DEF StopIsUnderWay
  <2>2. CASE entry[e].status = "dialing"
    BY <2>2, ReconciledFacts
  <2>3. CASE entry[e].status # "dialing"
    BY <2>1, <2>3, ReconciledAsOne DEF StopIsUnderWay
  <2> QED BY <2>2, <2>3
<1>4. CASE Exits
  BY <1>4 DEF Exits, Down, StopIsUnderWay, TypeOK
<1>5. ASSUME NEW e \in Contacts, TickAttempts(e) \/ AttemptEnds(e)
      PROVE  StopIsUnderWay'
  <2>1. /\ UNCHANGED <<phase, restarts, storeOk, campaign>> /\ \A x \in Contacts : x # e => entry'[x] = entry[x]
    BY <1>5 DEF TickAttempts, AttemptEnds, TypeOK
  <2>2. campaign[Of[e]] = "running" /\ op.pc # "controlled"
    BY <1>5, InHandFacts DEF TickAttempts, Eligible, Resumes, AttemptEnds, InHand
  <2> QED BY <2>1, <2>2 DEF StopIsUnderWay
<1>6. ASSUME NEW e \in Contacts, NEW n \in Attempts, StartReserves(e) \/ Dial(e) \/ CallIsOver(e, n)
      PROVE  StopIsUnderWay'
  <2>1. UNCHANGED <<phase, restarts, storeOk, campaign, entry>> /\ (op.pc = "controlled" => op' = op)
    BY <1>6 DEF StartReserves, Starts, Resumes, Dial, CallIsOver
  <2> QED BY <2>1 DEF StopIsUnderWay
<1>7. ASSUME NEW k \in Campaigns, Controls(k) PROVE StopIsUnderWay'
  <2>1. /\ UNCHANGED <<phase, restarts, storeOk, entry>> /\ op.pc = "idle"
        /\ \A i \in Campaigns : campaign'[i] = "stopped" =>
             campaign[i] = "stopped" \/ (op'.pc = "controlled" /\ i \in op'.campaigns)
    BY <1>7 DEF Controls, TypeOK
  <2> QED BY <1>0, <2>1 DEF StopIsUnderWay
<1>8. ASSUME NEW k \in Campaigns, StopSkips(k) PROVE StopIsUnderWay'
  <2>1. /\ UNCHANGED <<phase, restarts, storeOk, campaign>> /\ op.campaigns = {k}
        /\ \A e \in Contacts : entry'[e] = IF Of[e] = k /\ entry[e].status = "pending"
                 THEN [entry[e] EXCEPT !.status = "skipped"] ELSE entry[e]
    BY <1>8 DEF StopSkips, Resumes, AttemptInHand
  <2> SUFFICES ASSUME restarts = 0, storeOk, NEW e \in Contacts, campaign[Of[e]] = "stopped",
                      entry'[e].status = "pending"
               PROVE  FALSE
    BY <2>1 DEF StopIsUnderWay
  <2>2. CASE entry[e].status = "pending"
    <3>1. Of[e] = k
      BY <2>1, <2>2 DEF StopIsUnderWay
    <3>2. entry'[e].status = "skipped"
      BY <2>1, <2>2, <3>1, EntryTypes DEF Entry
    <3> QED BY <3>2
  <2>3. CASE entry[e].status # "pending"
    BY <2>1, <2>3
  <2> QED BY <2>2, <2>3
<1>9. Attempts # {}
  BY DEF Attempts
<1> QED BY Moves, <1>1, <1>2, <1>3, <1>4, <1>5, <1>6, <1>7, <1>8, <1>9, Zenon

-----------------------------------------------------------------------------
(* The calls of a contact and its entry. *)

\* The calls of the next process: settled, and what had a result keeps it.
LEMMA SettledFacts ==
  ASSUME Down
  PROVE  \A e \in Contacts, n \in Attempts :
           /\ callRow'[e][n] = call'[e][n] /\ call'[e][n] # "active"
           /\ callRow[e][n] # "active" => call'[e][n] = callRow[e][n]
<1>1. PICK unanswered : call' = SettledCalls(unanswered) /\ callRow' = call'
  BY DEF Down
<1>2. \A e \in Contacts, n \in Attempts :
        /\ SettledCalls(unanswered)[e][n] # "active"
        /\ callRow[e][n] # "active" => SettledCalls(unanswered)[e][n] = callRow[e][n]
  BY DEF SettledCalls
<1> QED BY <1>1, <1>2

LEMMA AheadStep ==
  ASSUME TypeOK, AttemptInHand, DialingIsNamed, NothingAhead, StopIsUnderWay, [Next]_vars
  PROVE  NothingAhead'
<1> USE DEF rows, cache
<1>0. \A e \in Contacts : /\ entry[e].attempts \in Nat /\ row[e].attempts \in Nat
                          /\ entry[e] \in Entry /\ row[e] \in Entry
  BY EntryTypes DEF Entry
<1>1. CASE Quiet
  BY <1>1 DEF Quiet, NothingAhead, InHand
<1>2. CASE Commit
  <2>1. UNCHANGED <<op, entry, call>>
    BY <1>2, CommitFacts
  <2>2. \A e \in Contacts : row'[e] \in {row[e], entry[e]} /\ callRow'[e] \in {callRow[e], call[e]}
    BY <1>2, CommitFacts DEF TypeOK
  <2> QED BY <2>1, <2>2 DEF NothingAhead
<1>3. CASE Reconciles
  <2>1. UNCHANGED <<row, call, callRow>> /\ op'.pc # "attempting" /\ \A e \in Contacts : entry'[e] = Reconciled(e)
    BY <1>3 DEF Reconciles, Reconcile
  <2>2. \A e \in Contacts : Reconciled(e).status \notin Finished =>
           entry[e].status \notin Finished /\ Reconciled(e).attempts = entry[e].attempts
    <3>1. ASSUME NEW e \in Contacts PROVE Reconciled(e).attempts = entry[e].attempts
      BY ReconciledAsOne
    <3>2. ASSUME NEW e \in Contacts, entry[e].status \in Finished PROVE Reconciled(e) = entry[e]
      BY <3>2, ReconciledAsOne DEF Finished
    <3> QED BY <3>1, <3>2
  <2> QED BY <2>1, <2>2 DEF NothingAhead
<1>4. CASE Exits
  <2>1. entry' = row /\ row' = row /\ op'.pc = "idle"
    BY <1>4 DEF Exits, Down, Idle
  <2>2. \A e \in Contacts, n \in Attempts : callRow[e][n] = "none" => call'[e][n] = "none" /\ callRow'[e][n] = "none"
    BY <1>4, SettledFacts DEF Exits
  <2> QED BY <2>1, <2>2 DEF NothingAhead
<1>5. ASSUME NEW e \in Contacts, TickAttempts(e) PROVE NothingAhead'
  <2>1. /\ UNCHANGED <<row, call, callRow>> /\ op'.contacts = {e} /\ entry[e].status = "pending"
        /\ entry'[e].attempts = entry[e].attempts + 1 /\ \A x \in Contacts : x # e => entry'[x] = entry[x]
    BY <1>5 DEF TickAttempts, Eligible, TypeOK, Operation
  <2>2. \A n \in Attempts : n > entry[e].attempts => call[e][n] = "none" /\ callRow[e][n] = "none"
    BY <2>1 DEF NothingAhead, Finished
  <2> QED BY <1>0, <2>1, <2>2 DEF NothingAhead, Attempts
<1>6. ASSUME NEW e \in Contacts, StartReserves(e) PROVE NothingAhead'
  <2>1. /\ e \in op.contacts /\ op.pc \in InHand /\ UNCHANGED <<row, entry, callRow>> /\ row[e] = entry[e]
        /\ SetCall(e, entry[e].attempts, "active") /\ op'.pc = "calling"
    BY <1>6 DEF StartReserves, Starts, Resumes, Flushed, InHand, TypeOK, Operation
  <2>2. entry[e].attempts \in Attempts
    BY <2>1, InHandFacts
  <2>3. /\ \A i \in Attempts : i # entry[e].attempts => call'[e][i] = call[e][i]
        /\ \A x \in Contacts : x # e => call'[x] = call[x]
    BY <2>1, <2>2, SetCallTypes DEF CallStates
  <2>4. ASSUME NEW x \in Contacts, NEW n \in Attempts,
               (entry[x].status \notin Finished /\ n > entry[x].attempts)
               \/ (row[x].status \notin Finished /\ n > row[x].attempts)
        PROVE  call'[x][n] = call[x][n]
    BY <1>0, <2>1, <2>3, <2>4 DEF Attempts
  <2> QED BY <2>1, <2>4 DEF NothingAhead
<1>7. ASSUME NEW e \in Contacts, Dial(e) PROVE NothingAhead'
  <2>1. UNCHANGED <<row, entry, call, callRow>> /\ op'.pc = "dialed"
    BY <1>7 DEF Dial, TypeOK, Operation
  <2> QED BY <2>1 DEF NothingAhead
<1>8. ASSUME NEW e \in Contacts, AttemptEnds(e) PROVE NothingAhead'
  <2>1. /\ UNCHANGED <<row, callRow>> /\ op'.pc # "attempting" /\ e \in op.contacts /\ op.pc \in InHand
        /\ \A x \in Contacts : x # e => entry'[x] = entry[x] /\ call'[x] = call[x]
        /\ \A i \in Attempts : i # entry[e].attempts => call'[e][i] = call[e][i]
        /\ call[e][entry[e].attempts] # "active" => call'[e] = call[e]
    BY <1>8 DEF AttemptEnds
  <2>2. /\ entry[e].attempts \in Attempts /\ entry[e].attempts = op.was.attempts + 1 /\ entry[e].status = "dialing"
        /\ op.was.attempts \in Nat
    BY <2>1, InHandFacts
  <2>3. \A x \in Contacts, n \in Attempts : call[x][n] = "none" => call'[x][n] = "none"
    <3> SUFFICES ASSUME NEW n \in Attempts, call[e][n] = "none" PROVE call'[e][n] = "none"
      BY <2>1
    <3> QED BY <2>1
  <2>4. ASSUME entry'[e].status \notin Finished, NEW n \in Attempts, n > entry'[e].attempts
        PROVE  call[e][n] = "none" /\ callRow[e][n] = "none"
    <3>1. CASE entry'[e].attempts = entry[e].attempts
      BY <2>2, <2>4, <3>1 DEF NothingAhead, Finished
    <3>2. CASE entry'[e] = op.was /\ op.pc = "attempting"
      <4>1. n >= entry[e].attempts
        BY <2>2, <2>4, <3>2 DEF Attempts
      <4> QED BY <2>1, <3>2, <4>1 DEF NothingAhead
    <3> QED BY <1>8, <2>4, <3>1, <3>2 DEF AttemptEnds, Finished
  <2>5. ASSUME NEW x \in Contacts, NEW n \in Attempts,
               (entry'[x].status \notin Finished /\ n > entry'[x].attempts)
               \/ (row[x].status \notin Finished /\ n > row[x].attempts)
        PROVE  call[x][n] = "none" /\ callRow[x][n] = "none"
    <3>1. CASE row[x].status \notin Finished /\ n > row[x].attempts
      BY <3>1 DEF NothingAhead
    <3>2. CASE x = e /\ entry'[x].status \notin Finished /\ n > entry'[x].attempts
      BY <2>4, <3>2
    <3>3. CASE x # e /\ entry'[x].status \notin Finished /\ n > entry'[x].attempts
      BY <2>1, <3>3 DEF NothingAhead
    <3> QED BY <2>5, <3>1, <3>2, <3>3
  <2> QED BY <2>1, <2>3, <2>5 DEF NothingAhead
<1>9. ASSUME NEW e \in Contacts, NEW n \in Attempts, CallIsOver(e, n) PROVE NothingAhead'
  <2>1. UNCHANGED <<row, entry, callRow>> /\ call[e][n] = "active" /\ (op'.pc = "attempting" => op' = op)
    BY <1>9 DEF CallIsOver, InHand
  <2>2. \A x \in Contacts, i \in Attempts : call[x][i] = "none" => call'[x][i] = "none"
    <3>1. PICK state \in {"retry", "final"} : SetCall(e, n, state)
      BY <1>9 DEF CallIsOver
    <3>2. /\ \A i \in Attempts : i # n => call'[e][i] = call[e][i]
          /\ \A x \in Contacts : x # e => call'[x] = call[x]
      BY <3>1, SetCallTypes DEF CallStates
    <3> QED BY <2>1, <3>2
  <2> QED BY <2>1, <2>2 DEF NothingAhead
<1>10. ASSUME NEW k \in Campaigns, Controls(k) PROVE NothingAhead'
  <2>1. UNCHANGED <<row, entry, call, callRow>> /\ op'.pc # "attempting"
    BY <1>10 DEF Controls
  <2> QED BY <2>1 DEF NothingAhead
<1>11. ASSUME NEW k \in Campaigns, StopSkips(k) PROVE NothingAhead'
  <2>1. /\ UNCHANGED <<row, call, callRow>> /\ op'.pc # "attempting"
        /\ \A e \in Contacts : entry'[e] = entry[e] \/ entry'[e].status \in Finished
    BY <1>11, EntryTypes DEF StopSkips, Entry, Finished, TypeOK, Operation
  <2> QED BY <2>1 DEF NothingAhead
<1> QED BY Moves, <1>1, <1>2, <1>3, <1>4, <1>5, <1>6, <1>7, <1>8, <1>9, <1>10, <1>11, Zenon

LEMMA ActiveStep ==
  ASSUME TypeOK, AttemptInHand, DialingIsNamed, NothingAhead, ActiveIsCurrent, StopIsUnderWay, [Next]_vars
  PROVE  ActiveIsCurrent'
<1> USE DEF rows, cache
<1>0. \A e \in Contacts : /\ entry[e].attempts \in Nat /\ row[e].attempts \in Nat
                          /\ entry[e] \in Entry /\ row[e] \in Entry
  BY EntryTypes DEF Entry
<1>1. CASE Quiet
  BY <1>1 DEF Quiet, ActiveIsCurrent
<1>2. CASE Commit
  <2>1. UNCHANGED <<entry, call>>
    BY <1>2, CommitFacts
  <2>2. \A e \in Contacts : row'[e] \in {row[e], entry[e]} /\ callRow'[e] \in {callRow[e], call[e]}
    BY <1>2, CommitFacts DEF TypeOK
  <2> QED BY <2>1, <2>2 DEF ActiveIsCurrent
<1>3. CASE Reconciles
  <2>1. UNCHANGED <<row, call, callRow>> /\ \A e \in Contacts : entry'[e] = Reconciled(e)
    BY <1>3 DEF Reconciles, Reconcile
  <2>2. ASSUME NEW e \in Contacts, NEW n \in Attempts, call[e][n] = "active"
        PROVE  Reconciled(e).attempts = n /\ Reconciled(e).status \in {"dialing", "completed"}
    <3>1. entry[e].attempts = n /\ entry[e].status \in {"dialing", "completed"}
      BY <2>2 DEF ActiveIsCurrent
    <3>2. CASE entry[e].status = "dialing"
      BY <2>2, <3>1, <3>2, ReconciledFacts
    <3>3. CASE entry[e].status = "completed"
      BY <3>1, <3>3, ReconciledAsOne
    <3> QED BY <3>1, <3>2, <3>3
  <2> QED BY <2>1, <2>2 DEF ActiveIsCurrent
<1>4. CASE Exits
  <2>1. \A e \in Contacts, n \in Attempts : call'[e][n] # "active" /\ callRow'[e][n] = call'[e][n]
    BY <1>4, SettledFacts DEF Exits
  <2> QED BY <2>1 DEF ActiveIsCurrent
<1>5. ASSUME NEW e \in Contacts, TickAttempts(e) PROVE ActiveIsCurrent'
  <2>1. /\ UNCHANGED <<row, call, callRow>> /\ entry[e].status = "pending"
        /\ \A x \in Contacts : x # e => entry'[x] = entry[x]
    BY <1>5 DEF TickAttempts, Eligible, TypeOK
  <2> QED BY <2>1 DEF ActiveIsCurrent
<1>6. ASSUME NEW e \in Contacts, StartReserves(e) PROVE ActiveIsCurrent'
  <2>1. /\ e \in op.contacts /\ op.pc = "attempting" /\ op.pc \in InHand
        /\ UNCHANGED <<row, entry, callRow>> /\ row[e] = entry[e] /\ SetCall(e, entry[e].attempts, "active")
    BY <1>6 DEF StartReserves, Starts, Resumes, Flushed, InHand
  <2>2. entry[e].attempts \in Attempts /\ entry[e].status = "dialing"
    BY <2>1, InHandFacts
  <2>3. /\ \A i \in Attempts : i # entry[e].attempts => call'[e][i] = call[e][i]
        /\ \A x \in Contacts : x # e => call'[x] = call[x]
    BY <2>1, <2>2, SetCallTypes DEF CallStates
  <2>4. callRow[e][entry[e].attempts] = "none"
    BY <1>0, <2>1, <2>2 DEF NothingAhead
  <2>5. ASSUME NEW n \in Attempts
        PROVE  /\ call'[e][n] = "active" => n = entry[e].attempts
               /\ callRow[e][n] \in {"retry", "final"} => call'[e][n] = callRow[e][n]
    <3>1. CASE n = entry[e].attempts
      BY <2>4, <3>1
    <3>2. CASE n # entry[e].attempts
      BY <2>3, <3>2 DEF ActiveIsCurrent
    <3> QED BY <3>1, <3>2
  <2>6. ASSUME NEW x \in Contacts, NEW n \in Attempts
        PROVE  /\ call'[x][n] = "active" =>
                    /\ entry[x].attempts = n /\ entry[x].status \in {"dialing", "completed"}
                    /\ row[x].attempts = n /\ row[x].status \in {"dialing", "completed"}
               /\ callRow[x][n] \in {"retry", "final"} => call'[x][n] = callRow[x][n]
    <3>1. CASE x = e
      BY <2>1, <2>2, <2>5, <3>1
    <3>2. CASE x # e
      BY <2>3, <3>2 DEF ActiveIsCurrent
    <3> QED BY <3>1, <3>2
  <2> QED BY <2>1, <2>6 DEF ActiveIsCurrent
<1>7. ASSUME NEW e \in Contacts, Dial(e) PROVE ActiveIsCurrent'
  <2>1. UNCHANGED <<row, entry, call, callRow>>
    BY <1>7 DEF Dial
  <2> QED BY <2>1 DEF ActiveIsCurrent
<1>8. ASSUME NEW e \in Contacts, AttemptEnds(e) PROVE ActiveIsCurrent'
  <2>1. /\ UNCHANGED <<row, callRow>> /\ e \in op.contacts /\ op.pc \in InHand
        /\ \A x \in Contacts : x # e => entry'[x] = entry[x] /\ call'[x] = call[x]
        /\ \A i \in Attempts : i # entry[e].attempts => call'[e][i] = call[e][i]
        /\ call'[e][entry[e].attempts] \in {call[e][entry[e].attempts], "final"}
        /\ call[e][entry[e].attempts] # "active" => call'[e] = call[e]
    BY <1>8 DEF AttemptEnds
  <2>2. entry[e].attempts \in Attempts /\ entry[e].status = "dialing"
    BY <2>1, InHandFacts
  <2>3. ASSUME NEW n \in Attempts, call'[e][n] = "active"
        PROVE  /\ call[e][n] = "active" /\ n = entry[e].attempts
               /\ entry'[e].attempts = n /\ entry'[e].status \in {"dialing", "completed"}
    <3>1. call[e][n] = "active"
      BY <2>1, <2>3
    <3>2. n = entry[e].attempts
      BY <3>1 DEF ActiveIsCurrent
    <3>3. op.pc # "attempting"
      BY <1>0, <2>1, <2>2, <3>1, <3>2 DEF NothingAhead
    <3>4. call'[e][entry[e].attempts] = "active"
      BY <2>3, <3>2
    <3> QED BY <1>8, <3>1, <3>2, <3>3, <3>4 DEF AttemptEnds
  <2>4. ASSUME NEW n \in Attempts, callRow[e][n] \in {"retry", "final"}
        PROVE  call'[e][n] = callRow[e][n]
    <3>1. call[e][n] = callRow[e][n]
      BY <2>4 DEF ActiveIsCurrent
    <3> QED BY <2>1, <2>4, <3>1
  <2> QED BY <2>1, <2>3, <2>4 DEF ActiveIsCurrent
<1>9. ASSUME NEW e \in Contacts, NEW n \in Attempts, CallIsOver(e, n) PROVE ActiveIsCurrent'
  <2>1. UNCHANGED <<row, entry, callRow>> /\ call[e][n] = "active"
    BY <1>9 DEF CallIsOver
  <2>2. PICK state \in {"retry", "final"} : SetCall(e, n, state)
    BY <1>9 DEF CallIsOver
  <2>3. /\ call'[e][n] = state
        /\ \A i \in Attempts : i # n => call'[e][i] = call[e][i]
        /\ \A x \in Contacts : x # e => call'[x] = call[x]
    BY <2>2, SetCallTypes DEF CallStates
  <2>4. callRow[e][n] \notin {"retry", "final"}
    BY <2>1 DEF ActiveIsCurrent
  <2>5. ASSUME NEW x \in Contacts, NEW i \in Attempts
        PROVE  /\ call'[x][i] = "active" => call[x][i] = "active"
               /\ callRow[x][i] \in {"retry", "final"} => call'[x][i] = call[x][i]
    <3>1. CASE x = e /\ i = n
      BY <2>3, <2>4, <3>1
    <3>2. CASE ~(x = e /\ i = n)
      BY <2>3, <3>2
    <3> QED BY <3>1, <3>2
  <2> QED BY <2>1, <2>5 DEF ActiveIsCurrent
<1>10. ASSUME NEW k \in Campaigns, Controls(k) PROVE ActiveIsCurrent'
  <2>1. UNCHANGED <<row, entry, call, callRow>>
    BY <1>10 DEF Controls
  <2> QED BY <2>1 DEF ActiveIsCurrent
<1>11. ASSUME NEW k \in Campaigns, StopSkips(k) PROVE ActiveIsCurrent'
  <2>1. /\ UNCHANGED <<row, call, callRow>>
        /\ \A e \in Contacts : entry'[e] = entry[e] \/ entry[e].status = "pending"
    BY <1>11 DEF StopSkips
  <2> QED BY <2>1 DEF ActiveIsCurrent
<1> QED BY Moves, <1>1, <1>2, <1>3, <1>4, <1>5, <1>6, <1>7, <1>8, <1>9, <1>10, <1>11, Zenon

\* No step takes back an unanswered call that a contact waits or is called again after.
LEMMA PastStep ==
  ASSUME TypeOK, AttemptInHand, DialingIsNamed, NothingAhead, ActiveIsCurrent, PastUnanswered,
         StopIsUnderWay, [Next]_vars
  PROVE  PastUnanswered'
<1> USE DEF rows, cache
<1>0. \A e \in Contacts, n \in Attempts :
        /\ entry[e].attempts \in Nat /\ row[e].attempts \in Nat /\ n \in Nat
        /\ callRow[e][n] = "retry" => call[e][n] = "retry"
  BY EntryTypes DEF Entry, ActiveIsCurrent, Attempts
<1>1. CASE Quiet
  BY <1>1 DEF Quiet, PastUnanswered
<1>2. CASE Commit
  <2>1. UNCHANGED <<entry, call>>
    BY <1>2, CommitFacts
  <2>2. \A e \in Contacts : callRow'[e] \in {callRow[e], call[e]}
    BY <1>2, CommitFacts DEF TypeOK
  <2>3. \A e \in Contacts :
          row'[e] = row[e] \/ (row'[e] = entry[e] /\ (entry[e].status = "dialing" \/ callRow[e] = call[e]))
    BY <1>2, CommitFacts DEF TypeOK
  <2>4. \A e \in Contacts, n \in Attempts : callRow[e][n] = "retry" => callRow'[e][n] = "retry"
    BY <1>0, <2>2
  <2> QED BY <2>1, <2>3, <2>4 DEF PastUnanswered, Waits, Redials
<1>3. CASE Reconciles
  <2>1. UNCHANGED <<row, call, callRow>> /\ \A e \in Contacts : entry'[e] = Reconciled(e)
    BY <1>3 DEF Reconciles, Reconcile
  <2>2. ASSUME NEW e \in Contacts, NEW n \in Attempts
        PROVE  /\ Waits(Reconciled(e), n) => call[e][n] = "retry"
               /\ Redials(Reconciled(e), n) => callRow[e][n] = "retry"
    <3>1. CASE entry[e].status = "dialing"
      <4>1. n < entry[e].attempts => callRow[e][n] = "retry" /\ call[e][n] = "retry"
        BY <1>0, <3>1 DEF PastUnanswered, Redials
      <4>2. /\ Reconciled(e).attempts = entry[e].attempts
            /\ Reconciled(e).status = "pending" => call[e][entry[e].attempts] = "retry"
        BY <3>1, ReconciledFacts
      <4> QED BY <1>0, <4>1, <4>2 DEF Waits, Redials
    <3>2. CASE entry[e].status # "dialing"
      BY <3>2, ReconciledAsOne DEF PastUnanswered
    <3> QED BY <3>1, <3>2
  <2> QED BY <2>1, <2>2 DEF PastUnanswered
<1>4. CASE Exits
  <2>1. entry' = row /\ row' = row
    BY <1>4 DEF Exits, Down
  <2>2. \A e \in Contacts, n \in Attempts :
          callRow[e][n] = "retry" => callRow'[e][n] = "retry" /\ call'[e][n] = "retry"
    BY <1>4, SettledFacts DEF Exits
  <2> QED BY <2>1, <2>2 DEF PastUnanswered
<1>5. ASSUME NEW e \in Contacts, TickAttempts(e) PROVE PastUnanswered'
  <2>1. /\ UNCHANGED <<row, call, callRow>> /\ call = callRow /\ entry[e].status = "pending"
        /\ entry'[e].status = "dialing" /\ entry'[e].attempts = entry[e].attempts + 1
        /\ \A x \in Contacts : x # e => entry'[x] = entry[x]
    BY <1>5 DEF TickAttempts, Eligible, Resumes, Flushed, TypeOK
  <2>2. \A n \in Attempts : n < entry[e].attempts + 1 => callRow[e][n] = "retry"
    BY <1>0, <2>1 DEF PastUnanswered, Waits
  <2> QED BY <2>1, <2>2 DEF PastUnanswered, Waits, Redials
<1>6. ASSUME NEW e \in Contacts, StartReserves(e) PROVE PastUnanswered'
  <2>1. /\ UNCHANGED <<row, entry, callRow>> /\ e \in op.contacts /\ op.pc \in InHand
        /\ \A x \in Contacts : x # e => call'[x] = call[x]
    BY <1>6 DEF StartReserves, Starts, Resumes, InHand, SetCall, TypeOK
  <2>2. entry[e].status = "dialing"
    BY <2>1, InHandFacts
  <2> QED BY <2>1, <2>2 DEF PastUnanswered, Waits
<1>7. ASSUME NEW e \in Contacts, Dial(e) PROVE PastUnanswered'
  <2>1. UNCHANGED <<row, entry, call, callRow>>
    BY <1>7 DEF Dial
  <2> QED BY <2>1 DEF PastUnanswered
<1>8. ASSUME NEW e \in Contacts, AttemptEnds(e) PROVE PastUnanswered'
  <2>1. /\ UNCHANGED <<row, callRow>> /\ e \in op.contacts /\ op.pc \in InHand
        /\ \A x \in Contacts : x # e => entry'[x] = entry[x] /\ call'[x] = call[x]
        /\ \A i \in Attempts : i # entry[e].attempts => call'[e][i] = call[e][i]
    BY <1>8 DEF AttemptEnds
  <2>2. /\ entry[e].attempts \in Nat /\ entry[e].attempts = op.was.attempts + 1 /\ entry[e].status = "dialing"
        /\ op.was.attempts \in Nat
    BY <2>1, InHandFacts
  <2>3. ASSUME NEW n \in Attempts, n < entry[e].attempts
        PROVE  callRow[e][n] = "retry" /\ call'[e][n] = "retry"
    <3>1. callRow[e][n] = "retry"
      BY <2>2, <2>3 DEF PastUnanswered, Redials
    <3>2. call'[e][n] = call[e][n]
      BY <1>0, <2>1, <2>3
    <3> QED BY <1>0, <3>1, <3>2
  <2>4. /\ entry'[e].status = "dialing" => entry'[e].attempts = entry[e].attempts
        /\ entry'[e].status = "pending" =>
             \/ entry'[e].attempts = op.was.attempts
             \/ entry'[e].attempts = entry[e].attempts /\ call'[e][entry[e].attempts] = "retry"
    <3>1. op.was.status = "pending"
      BY <2>1, InHandFacts
    <3> QED BY <1>8, <3>1 DEF AttemptEnds, Finished
  <2>5. ASSUME NEW n \in Attempts
        PROVE  /\ Waits(entry'[e], n) => call'[e][n] = "retry"
               /\ Redials(entry'[e], n) => callRow[e][n] = "retry"
    BY <1>0, <2>2, <2>3, <2>4 DEF Waits, Redials
  <2> QED BY <2>1, <2>5 DEF PastUnanswered
<1>9. ASSUME NEW e \in Contacts, NEW n \in Attempts, CallIsOver(e, n) PROVE PastUnanswered'
  <2>1. UNCHANGED <<row, entry, callRow>> /\ call[e][n] = "active"
    BY <1>9 DEF CallIsOver
  <2>2. PICK state \in {"retry", "final"} : SetCall(e, n, state)
    BY <1>9 DEF CallIsOver
  <2>3. /\ \A i \in Attempts : i # n => call'[e][i] = call[e][i]
        /\ \A x \in Contacts : x # e => call'[x] = call[x]
    BY <2>2, SetCallTypes DEF CallStates
  <2>4. \A x \in Contacts, i \in Attempts : call[x][i] = "retry" => call'[x][i] = "retry"
    BY <2>1, <2>3
  <2> QED BY <2>1, <2>4 DEF PastUnanswered
<1>10. ASSUME NEW k \in Campaigns, Controls(k) PROVE PastUnanswered'
  <2>1. UNCHANGED <<row, entry, call, callRow>>
    BY <1>10 DEF Controls
  <2> QED BY <2>1 DEF PastUnanswered
<1>11. ASSUME NEW k \in Campaigns, StopSkips(k) PROVE PastUnanswered'
  <2>1. /\ UNCHANGED <<row, call, callRow>>
        /\ \A e \in Contacts : entry'[e] = entry[e] \/ entry'[e].status \in Finished
    BY <1>11, EntryTypes DEF StopSkips, Entry, Finished
  <2> QED BY <2>1 DEF PastUnanswered, Waits, Redials, Finished
<1> QED BY Moves, <1>1, <1>2, <1>3, <1>4, <1>5, <1>6, <1>7, <1>8, <1>9, <1>10, <1>11, Zenon

-----------------------------------------------------------------------------
(* The theorems. *)

\* The invariant of the dialer holds in every state: what memory and database say of
\* campaigns, contacts and their calls fits together, through ticks, controls, store
\* failures and restarts (campaigns.ts:111-232).
THEOREM DialerInvariance == Spec => []IInv
<1>1. Init => IInv
  <2> SUFFICES ASSUME Init PROVE IInv
    OBVIOUS
  <2> USE DEF Init
  <2>1. TypeOK
    <3>1. NewEntry \in Entry
      BY DEF NewEntry, Entry
    <3>2. entry \in [Contacts -> Entry] /\ row \in [Contacts -> Entry]
      BY <3>1
    <3>3. call \in [Contacts -> [Attempts -> CallStates]] /\ callRow = call
      BY DEF CallStates
    <3>4. campaign \in [Campaigns -> CampaignStatus] /\ campaignRow = campaign
      BY DEF CampaignStatus
    <3>5. dials \in [Contacts -> 0..MaxAttempts]
      OBVIOUS
    <3>6. /\ phase = "serving" /\ storeOk = TRUE /\ halted = FALSE /\ hours = TRUE /\ dialing = TRUE
          /\ op \in Operation
      BY OperationTypes
    <3>7. /\ others \in 0..outside /\ outside \in 0..MaxOutside /\ controls \in 0..MaxControls
          /\ restarts \in 0..MaxRestarts /\ failures \in 0..MaxStoreFailures
      OBVIOUS
    <3> HIDE DEF Init
    <3> QED BY <3>2, <3>3, <3>4, <3>5, <3>6, <3>7 DEF TypeOK
  <2>2. op.pc = "idle"
    BY DEF Idle
  <2>3. \A e \in Contacts : /\ entry[e] = NewEntry /\ row[e] = NewEntry /\ dials[e] = 0
                            /\ campaign[Of[e]] = "draft" /\ campaignRow[Of[e]] = "draft"
                            /\ \A n \in Attempts : call[e][n] = "none" /\ callRow[e][n] = "none"
    OBVIOUS
  <2>4. NewEntry.status = "pending" /\ NewEntry.attempts = 0
    BY DEF NewEntry
  <2>5. AttemptInHand
    BY <2>2 DEF AttemptInHand, InHand
  <2>6. DialsCounted /\ QueuedHasAttemptsLeft
    BY <2>3, <2>4 DEF DialsCounted, QueuedHasAttemptsLeft
  <2>7. DialingIsNamed /\ NothingAhead /\ ActiveIsCurrent
    BY <2>3, <2>4 DEF DialingIsNamed, Named, NothingAhead, ActiveIsCurrent
  <2>8. PastUnanswered
    <3>1. \A n \in Attempts : ~Waits(NewEntry, n) /\ ~Redials(NewEntry, n)
      BY <2>4 DEF Waits, Redials, Attempts
    <3> QED BY <2>3, <3>1 DEF PastUnanswered
  <2>9. CompletionIsDurable /\ StopIsUnderWay
    BY <2>3 DEF CompletionIsDurable, StopIsUnderWay
  <2> QED BY <2>1, <2>5, <2>6, <2>7, <2>8, <2>9 DEF IInv
<1>2. IInv /\ [Next]_vars => IInv'
  BY TypeStep, InHandStep, CountedStep, NamedStep, AheadStep, ActiveStep, PastStep,
     CompletionStep, StopStep, QueuedStep DEF IInv
<1> QED BY <1>1, <1>2, PTL DEF Spec

\* An attempt that rang was saved before the originate and is never taken back, not by
\* an undo, a refusal or a crash (campaigns.ts:202-206).
THEOREM DialsOnRecordHolds == Spec => []DialsOnRecord
<1>1. IInv => DialsOnRecord
  BY DEF IInv, DialsCounted, DialsOnRecord
<1> QED BY <1>1, DialerInvariance, PTL

\* A contact that waits has an attempt left, in memory and in the database
\* (campaigns.ts:176, 195).
THEOREM QueuedHolds == Spec => []QueuedHasAttemptsLeft
<1>1. IInv => QueuedHasAttemptsLeft
  BY DEF IInv
<1> QED BY <1>1, DialerInvariance, PTL

\* A campaign saved as completed has only finished contacts in the database
\* (campaigns.ts:179).
THEOREM CompletionHolds == Spec => []CompletedIsComplete
<1>1. IInv => CompletedIsComplete
  BY DEF IInv, CompletionIsDurable, CompletedIsComplete
<1> QED BY <1>1, DialerInvariance, PTL

\* A stop that was answered while store and process work leaves no contact waiting, and
\* no result of a call makes one wait again (campaigns.ts:135-139, 176).
THEOREM StopHolds == Spec => []StopsComeThrough
<1>1. IInv => StopsComeThrough
  BY DEF IInv, StopIsUnderWay, StopsComeThrough
<1> QED BY <1>1, DialerInvariance, PTL

\* Only Dial sends an originate.
LEMMA DialsOf ==
  ASSUME IInv, [Next]_vars
  PROVE  UNCHANGED dials \/ \E e \in Contacts : Dial(e)
<1>1. Quiet \/ Commit \/ Reconciles \/ Exits => UNCHANGED dials
  BY CommitFacts DEF Quiet, Reconciles, Exits, Down
<1>2. ASSUME NEW e \in Contacts, TickAttempts(e) \/ StartReserves(e) \/ AttemptEnds(e)
      PROVE  UNCHANGED dials
  BY <1>2 DEF TickAttempts, StartReserves, AttemptEnds
<1>3. ASSUME NEW e \in Contacts, NEW n \in Attempts, CallIsOver(e, n)
      PROVE  UNCHANGED dials
  BY <1>3 DEF CallIsOver
<1>4. ASSUME NEW k \in Campaigns, Controls(k) \/ StopSkips(k)
      PROVE  UNCHANGED dials
  BY <1>4 DEF Controls, StopSkips
<1>5. TypeOK /\ AttemptInHand /\ NothingAhead /\ StopIsUnderWay
  BY DEF IInv
<1> QED BY <1>1, <1>2, <1>3, <1>4, <1>5, Moves, Zenon

\* What a dial finds: its contact is in hand, saved as dialing, in a campaign saved as
\* running, and its earlier calls are on record as unanswered.
LEMMA DialFinds ==
  ASSUME IInv, NEW e \in Contacts, Dial(e)
  PROVE  /\ \A x \in Contacts : x # e => dials'[x] = dials[x]
         /\ campaignRow[Of[e]] = "running" /\ row[e].status = "dialing"
         /\ \A n \in Attempts : n < row[e].attempts => callRow[e][n] = "retry"
<1>1. e \in op.contacts /\ op.pc = "calling" /\ op.pc \in InHand
  BY DEF Dial, InHand
<1>2. TypeOK /\ AttemptInHand
  BY DEF IInv
<1>3. row[e] = entry[e] /\ campaignRow[Of[e]] = "running"
  BY <1>1, <1>2 DEF AttemptInHand
<1>4. \A x \in Contacts : x # e => dials'[x] = dials[x]
  BY <1>2 DEF Dial, TypeOK
<1>5. entry[e].status = "dialing"
  BY <1>1, <1>2, InHandFacts
<1>6. \A n \in Attempts : n < row[e].attempts => callRow[e][n] = "retry"
  BY <1>1, <1>3, <1>5 DEF IInv, PastUnanswered, Redials
<1> QED BY <1>3, <1>4, <1>5, <1>6

\* No contact is dialed but as an attempt saved in a campaign saved as running, so none
\* after the answer to a pause or a stop (campaigns.ts:127, 187).
THEOREM DialsWantedHolds == Spec => DialsAreWanted
<1>1. IInv /\ [Next]_vars =>
        [\A e \in Contacts : dials'[e] # dials[e] =>
           campaignRow[Of[e]] = "running" /\ row[e].status = "dialing"]_vars
  BY DialsOf, DialFinds
<1> QED BY <1>1, DialerInvariance, PTL DEF Spec, DialsAreWanted

\* A contact is dialed again only when every earlier call of it is on record as ended
\* busy or unanswered, over restarts and refused attempts (campaigns.ts:162-178).
THEOREM RedialsHold == Spec => RedialsFollowNoAnswer
<1>1. IInv /\ [Next]_vars =>
        [\A e \in Contacts : dials'[e] # dials[e] =>
           \A n \in Attempts : n < row[e].attempts => callRow[e][n] = "retry"]_vars
  BY DialsOf, DialFinds
<1> QED BY <1>1, DialerInvariance, PTL DEF Spec, RedialsFollowNoAnswer
=============================================================================
