---------------------------- MODULE DncChecker ----------------------------
(***************************************************************************)
(* Paid lookups in the Do-Not-Call Registry: DncChecker (server/dnc.ts)    *)
(* and the routes that ask for them, over the evidence of ConsentLedger,   *)
(* which operators and callees go on changing meanwhile.                   *)
(*                                                                         *)
(* scrubPhones() chains the runs: the head of `asked` is the one under     *)
(* way.  A step of a run is the code between two awaits.  The gateway and  *)
(* the Registry behind it are external: they answer completely, answer     *)
(* anything else, or not at all.  Its URL and secret are configured.       *)
(***************************************************************************)
EXTENDS ConsentLedger

CONSTANTS
  BatchSize,     \* numbers of one request (100)
  Lists,         \* the lists of numbers that are imported or checked
  MaxAsks        \* bound on calls of scrubPhones

ASSUME BatchAssumption == BatchSize \in Nat \ {0} /\ MaxAsks \in Nat
ASSUME ListAssumption == Lists \subseteq SUBSET Phones

VARIABLES
  asked,     \* runs not yet over, in order: their numbers and the confirmed credits
  asks,      \* how many there were
  pc,        \* of the head: awaits its "flush", the "gateway" or the flush of "evidence";
             \* "batching" is between two batches
  todo,      \* numbers of the preview not yet put in a batch
  batch,     \* numbers submitted in the current request
  submitted, \* credits the run has put at stake
  reported   \* when a number was last reported as checked (history)

checker == <<asked, asks, pc, todo, batch, submitted, reported>>
vars == <<ledger, checker>>

Ask == [phones : Lists, maxCredits : Nat]

CheckerTypeOK ==
  /\ asked \in Seq(Ask) /\ asks \in 0..MaxAsks
  /\ pc \in {"flush", "batching", "gateway", "evidence"}
  /\ todo \in SUBSET Singapore /\ batch \in SUBSET Singapore
  /\ submitted \in 0..Cardinality(Singapore)
  /\ reported \in [Phones -> TimeOrNone]
TypeOK == LedgerTypeOK /\ CheckerTypeOK

CheckerInit ==
  /\ asked = <<>> /\ asks = 0 /\ pc = "flush"
  /\ todo = {} /\ batch = {} /\ submitted = 0
  /\ reported = [p \in Phones |-> None]
Init == LedgerInit /\ CheckerInit

-----------------------------------------------------------------------------

CoveredIfPermitted(p) == MayDial(p)                                   \* mutant
\* previewDnc: a consent covers a number, and so does a fresh result, a negative one too.
Covered(p) == Basis(p) = "consent" \/ (clearances[p] # None /\ Fresh(clearances[p]))
Needs(P) == {p \in P \cap Singapore : ~Covered(p)}

\* The operator confirms the credits that a preview showed, or checks a single contact.
ScrubPhones(P) ==
  /\ asks < MaxAsks /\ asks' = asks + 1
  /\ \E n \in {Cardinality(Needs(P))} \union {k \in {1} : Cardinality(P) = 1} :
       asked' = Append(asked, [phones |-> P, maxCredits |-> n])
  /\ UNCHANGED <<ledger, pc, todo, batch, submitted, reported>>

Run == Head(asked)

\* The promise of the run resolves, with or without a failure in its result.
Ends ==
  /\ asked' = Tail(asked) /\ pc' = "flush"
  /\ todo' = {} /\ batch' = {} /\ submitted' = 0
WithinCredits(P) == Cardinality(P) <= Run.maxCredits

\* After the flush: preview again, refuse when more credits are needed than confirmed.
RunPreviews ==
  LET numbers == Needs(Run.phones) IN
  /\ asked # <<>> /\ pc = "flush" /\ Flushed
  /\ IF numbers # {} /\ WithinCredits(numbers)
     THEN pc' = "batching" /\ todo' = numbers /\ UNCHANGED <<asked, batch, submitted>>
     ELSE Ends
  /\ UNCHANGED <<ledger, asks, reported>>

Slices(P) == {B \in SUBSET P : Cardinality(B) = IF Cardinality(P) < BatchSize
                                                THEN Cardinality(P) ELSE BatchSize}

\* What is left of a batch that the meanwhile recorded evidence does not cover.
StillNeeded(B) == Needs(B)

\* The next slice; numbers covered meanwhile are skipped, and a slice that needs none at all.
SubmitsBatch(B) ==
  /\ pc = "batching" /\ B \in Slices(todo)
  /\ IF B = todo /\ StillNeeded(B) = {}
     THEN Ends
     ELSE /\ todo' = todo \ B /\ batch' = StillNeeded(B)
          /\ submitted' = submitted + Cardinality(StillNeeded(B))
          /\ pc' = IF StillNeeded(B) = {} THEN "batching" ELSE "gateway"
          /\ UNCHANGED asked
  /\ UNCHANGED <<ledger, asks, reported>>

Result(p, listed) == [phone |-> p, at |-> now, cleared |-> p \notin listed]

\* Evidence recorded meanwhile that a result of this instant may not replace.
Conflicts(p, listed) == ~Supersedes(Result(p, listed))

SavesClearances(rs) ==
  /\ storeOk /\ Len(consentRows) + Len(clearanceRows) + Len(queue) + Len(rs) <= MaxRecords
  /\ clearances' = [p \in Phones |->
       IF \E r \in ToSet(rs) : r.phone = p
       THEN CHOOSE r \in ToSet(rs) : r.phone = p ELSE clearances[p]]
  /\ queue' = queue \o rs
  /\ UNCHANGED <<consents, lastOptOut>>

\* A complete S000 reply.  Every result is compared with the stored evidence before any is saved.
ReplyIsSaved(listed) ==
  /\ pc = "gateway" /\ \A p \in batch : ~Conflicts(p, listed)
  /\ \E order \in SetToSeqs(batch) :
       SavesClearances([i \in DOMAIN order |-> Result(order[i], listed)])
  /\ pc' = "evidence"
  /\ UNCHANGED <<now, tables, storeOk, ledgerBounds, asked, asks, todo, batch, submitted, reported>>

\* Evidence conflict, or the store refuses: the paid results are dropped.
ReplyIsDropped(listed) ==
  /\ pc = "gateway" /\ (~storeOk \/ \E p \in batch : Conflicts(p, listed))
  /\ Ends /\ UNCHANGED <<ledger, asks, reported>>

\* Any other reply, or none within GATEWAY_TIMEOUT_MS: not retried, the credits may be spent.
NoReply == pc = "gateway" /\ Ends /\ UNCHANGED <<ledger, asks, reported>>

\* flush() after the saves: only now do the numbers count as checked.
EvidenceSaved ==
  /\ pc = "evidence" /\ Flushed
  /\ reported' = [p \in Phones |-> IF p \in batch THEN clearances[p].at ELSE reported[p]]
  /\ IF todo = {} THEN Ends
     ELSE pc' = "batching" /\ batch' = {} /\ UNCHANGED <<asked, todo, submitted>>
  /\ UNCHANGED <<ledger, asks>>

RunRejects == FALSE                                                   \* mutant
\* flush() rejects before the preview or after the saves.
RunFails ==
  /\ asked # <<>> /\ pc \in {"flush", "evidence"} /\ ~storeOk
  /\ Ends /\ UNCHANGED <<ledger, asks, reported>>

\* Exit of the process: runs are forgotten with their requests.
ProcessRestarts ==
  /\ Restart
  /\ asked' = <<>> /\ pc' = "flush" /\ todo' = {} /\ batch' = {} /\ submitted' = 0
  /\ UNCHANGED <<asks, reported>>

RunStep ==
  \/ RunPreviews \/ NoReply \/ EvidenceSaved \/ RunFails
  \/ \E B \in SUBSET todo : SubmitsBatch(B)
  \/ \E listed \in SUBSET batch : ReplyIsSaved(listed) \/ ReplyIsDropped(listed)

EvidenceStep ==
  /\ UNCHANGED checker
  /\ \/ Ticks \/ Commit \/ StoreFails
     \/ \E p \in Subjects :
          \/ RecordOptOut(p)
          \/ \E t \in Times : RecordConsent(p, t)
          \/ \E t \in Times, cleared \in BOOLEAN : RecordClearance(p, t, cleared)

Next ==
  \/ RunStep \/ EvidenceStep \/ ProcessRestarts
  \/ \E P \in Lists : ScrubPhones(P)

\* Promises resolve: the chain of runs goes on, Postgres answers, fetch() has a timeout.
Fairness == WF_vars(RunStep) /\ WF_vars(Commit /\ UNCHANGED checker)
Spec == Init /\ [][Next]_vars
FairSpec == Spec /\ Fairness

-----------------------------------------------------------------------------
(* Properties. *)

\* A request never carries a number whose result was already reported as checked and is still
\* valid: repeated imports, queued runs, conflicts and restarts spend no credit twice unless
\* a run said that it failed.  (previewDnc, run)
NoCreditTwice ==
  [][\A p \in batch' \ batch :
       pc' = "gateway" => reported[p] = None \/ now - reported[p] >= Validity]_vars

\* A run never puts more credits at stake than the operator confirmed.  (run)
SpendsWithinConfirmed == asked # <<>> => submitted <= Run.maxCredits

\* What a run reported as checked is committed: a restart finds that result or a newer one.
\* (run, flush)
ReportedIsOnRecord ==
  \A p \in Phones : reported[p] # None =>
    \E i \in DOMAIN clearanceRows : clearanceRows[i].phone = p /\ clearanceRows[i].at >= reported[p]

\* Every run that was asked for ends, whatever the gateway, the store and the operators do.
\* (scrubPhones: a run never rejects, so the chain never breaks)
RunsEnd == asked # <<>> ~> asked = <<>>
=============================================================================
