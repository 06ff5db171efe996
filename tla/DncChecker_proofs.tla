-------------------------- MODULE DncChecker_proofs --------------------------
(***************************************************************************)
(* Proofs about the permission evidence and the paid Registry lookups, for *)
(* every set of numbers, every batch size and every bound.                 *)
(*                                                                         *)
(* IInv of DncChecker is inductive.  A step changes the evidence in one of *)
(* seven ways; each part of IInv has a lemma per way it can be disturbed.  *)
(***************************************************************************)
EXTENDS DncChecker, FiniteSetTheorems, TLAPS

USE SingaporeAssumption, TimeAssumption, NoneIsNothing

-----------------------------------------------------------------------------
\* The invariant of the proofs.  The cache knows of everything recorded or on its way: no
\* opt-out is later than the last one, and a consent in force is later than that.
OptOutsRemembered ==
  /\ \A r \in ToSet(consentRows) \union ToSet(queue) : r \in Consent =>
       /\ r.at <= now
       /\ r.revokedAt # None => lastOptOut[r.phone] # None /\ lastOptOut[r.phone].revokedAt >= r.revokedAt
  /\ \A p \in Phones :
       /\ lastOptOut[p] # None => lastOptOut[p].revokedAt # None /\ consents[p] # None
       /\ consents[p] # None => consents[p].at <= now
       /\ consents[p] # None /\ consents[p].revokedAt = None /\ lastOptOut[p] # None =>
            consents[p].at > lastOptOut[p].revokedAt

\* Results of a number replace one another in the order of their recording, and the one in
\* force is the last.
ResultsInOrder ==
  /\ \A i, j \in DOMAIN clearanceRows :
       i < j /\ clearanceRows[i].phone = clearanceRows[j].phone => Replaces(clearanceRows[i], clearanceRows[j])
  /\ \A i \in DOMAIN clearanceRows, j \in DOMAIN queue :
       queue[j] \in Clearance /\ clearanceRows[i].phone = queue[j].phone => Replaces(clearanceRows[i], queue[j])
  /\ \A i, j \in DOMAIN queue :
       i < j /\ queue[i] \in Clearance /\ queue[j] \in Clearance /\ queue[i].phone = queue[j].phone =>
         Replaces(queue[i], queue[j])
  /\ \A r \in ToSet(clearanceRows) \union ToSet(queue) : r \in Clearance =>
       r.at <= now /\ clearances[r.phone] # None /\ Replaces(r, clearances[r.phone])
  /\ \A p \in Phones : clearances[p] # None =>
       /\ clearances[p].phone = p /\ clearances[p].at <= now
       /\ storeOk => clearances[p] \in ToSet(clearanceRows) \union ToSet(queue)

LedgerInv == LedgerTypeOK /\ OptOutsRemembered /\ ResultsInOrder

\* The credits still needed and those at stake stay within the
\* confirmed ones, and what was reported is in force or was replaced by something newer.
RunInv ==
  /\ IF pc = "flush" THEN todo = {} /\ batch = {} /\ submitted = 0 ELSE asked # <<>>
  /\ submitted + Cardinality(todo) <= Cardinality(Singapore)
  /\ asked # <<>> => submitted + Cardinality(todo) <= Run.maxCredits
  /\ pc = "evidence" => \A p \in batch : clearances[p] # None

ReportsInForce ==
  \A p \in Phones : reported[p] # None => clearances[p] # None /\ reported[p] <= clearances[p].at

IInv ==
  /\ TypeOK /\ OptOutsRemembered /\ ResultsInOrder
  /\ RunInv /\ ReportsInForce /\ ReportedIsOnRecord

-----------------------------------------------------------------------------
(* Records of evidence. *)

LEMMA ConsentOrClearance == \A r \in Consent : r \notin Clearance
<1> SUFFICES ASSUME NEW r \in Consent, r \in Clearance PROVE FALSE
  OBVIOUS
<1>1. DOMAIN r = {"phone", "at", "revokedAt"}
  BY DEF Consent
<1>2. DOMAIN r = {"phone", "at", "cleared"}
  BY DEF Clearance
<1> QED BY <1>1, <1>2

LEMMA ConsentFields ==
  ASSUME NEW r \in Consent
  PROVE  /\ r.phone \in Phones /\ r.at \in Nat /\ r.at <= MaxTime
         /\ r.revokedAt # None => r.revokedAt \in Nat /\ r.revokedAt <= MaxTime
         /\ r # None
  BY DEF Consent, Times

LEMMA ClearanceFields ==
  ASSUME NEW r \in Clearance
  PROVE  r.phone \in Phones /\ r.at \in Nat /\ r.at <= MaxTime /\ r.cleared \in BOOLEAN /\ r # None
  BY DEF Clearance, Times

LEMMA ReplacesItself == \A r \in Clearance : Replaces(r, r)
  BY ClearanceFields DEF Replaces

LEMMA ReplacesOnward ==
  ASSUME NEW a \in Clearance, NEW b \in Clearance, NEW c \in Clearance,
         Replaces(a, b), Replaces(b, c)
  PROVE  Replaces(a, c)
<1>1. a.at \in Nat /\ b.at \in Nat /\ c.at \in Nat
  BY ClearanceFields
<1>2. a.at <= b.at /\ b.at <= c.at
  BY <1>1 DEF Replaces
<1>3. CASE a.at < c.at
  BY <1>3, <1>1 DEF Replaces
<1>4. CASE a.at = c.at
  <2>1. a.at = b.at /\ b.at = c.at
    BY <1>1, <1>2, <1>4
  <2>2. ~(b.at > a.at) /\ ~(c.at > b.at)
    BY <2>1, <1>1
  <2>3. (a.cleared \/ ~b.cleared) /\ (b.cleared \/ ~c.cleared)
    BY <2>2, Zenon DEF Replaces
  <2> QED BY <2>3, <1>4, Zenon DEF Replaces
<1> QED BY <1>1, <1>2, <1>3, <1>4

LEMMA ToSetOfAppend ==
  ASSUME NEW T, NEW s \in Seq(T), NEW e \in T
  PROVE  Append(s, e) \in Seq(T) /\ ToSet(Append(s, e)) = ToSet(s) \union {e}
  BY DEF ToSet

LEMMA ToSetOfTail ==
  ASSUME NEW T, NEW s \in Seq(T), s # <<>>
  PROVE  /\ Head(s) \in T /\ Tail(s) \in Seq(T)
         /\ ToSet(s) = ToSet(Tail(s)) \union {Head(s)}
<1>1. Head(s) \in T /\ Tail(s) \in Seq(T) /\ Len(s) \in Nat \ {0}
  OBVIOUS
<1>2. Len(Tail(s)) = Len(s) - 1 /\ \A i \in 1..Len(s)-1 : Tail(s)[i] = s[i+1]
  BY <1>1
<1>3. ASSUME NEW i \in 1..Len(s), i # 1
      PROVE  \E j \in 1..Len(s)-1 : s[i] = Tail(s)[j]
  <2>1. i - 1 \in 1..Len(s)-1 /\ s[i] = Tail(s)[i-1]
    BY <1>1, <1>2, <1>3
  <2> QED BY <2>1
<1>4. ToSet(s) = {s[i] : i \in 1..Len(s)} /\ ToSet(Tail(s)) = {Tail(s)[i] : i \in 1..Len(s)-1}
  <2>1. DOMAIN s = 1..Len(s) /\ DOMAIN Tail(s) = 1..Len(s)-1
    BY <1>1, <1>2
  <2> QED BY <2>1, Zenon DEF ToSet
<1>5. Head(s) = s[1] /\ 1 \in 1..Len(s)
  BY <1>1
<1>6. \A i \in 1..Len(s)-1 : i+1 \in 1..Len(s)
  BY <1>1
<1>7. ToSet(s) \subseteq ToSet(Tail(s)) \union {Head(s)}
  BY <1>3, <1>4, <1>5
<1>8. ToSet(Tail(s)) \union {Head(s)} \subseteq ToSet(s)
  BY <1>2, <1>4, <1>5, <1>6
<1> QED BY <1>1, <1>7, <1>8

-----------------------------------------------------------------------------
(* The kinds of step: what becomes of the evidence. *)

EntersConsent ==
  \E r \in Consent :
    r.at <= now /\ SavesConsent(r) /\ UNCHANGED <<now, tables, storeOk, ledgerBounds>>

\* Results of one instant, of different numbers.
NewResults(rs) ==
  /\ \A i \in 1..Len(rs) : rs[i].at = rs[1].at /\ rs[i].at <= now /\ Supersedes(rs[i])
  /\ \A i, j \in 1..Len(rs) : i # j => rs[i].phone # rs[j].phone

QueueGrowsBy(rs) ==
  /\ queue' \in Seq(Consent \union Clearance)
  /\ Len(queue') = Len(queue) + Len(rs)
  /\ \A i \in 1..Len(queue) : queue'[i] = queue[i]
  /\ \A i \in 1..Len(rs) : queue'[Len(queue) + i] = rs[i]

EntersResults ==
  \E rs \in Seq(Clearance) :
    /\ storeOk /\ NewResults(rs)
    /\ QueueGrowsBy(rs)
    /\ clearances' \in [Phones -> Clearance \union {None}]
    /\ \A i \in 1..Len(rs) : clearances'[rs[i].phone] = rs[i]
    /\ \A p \in Phones : (\A i \in 1..Len(rs) : rs[i].phone # p) => clearances'[p] = clearances[p]
    /\ UNCHANGED <<now, consents, lastOptOut, tables, storeOk, ledgerBounds>>

LEMMA LedgerSteps ==
  ASSUME [Next]_vars
  PROVE  \/ UNCHANGED ledger
         \/ Ticks \/ Commit \/ StoreFails
         \/ \E p \in Subjects : RecordOptOut(p)
         \/ \E p \in Subjects, t \in Times : RecordConsent(p, t)
         \/ \E p \in Subjects, t \in Times, cleared \in BOOLEAN : RecordClearance(p, t, cleared)
         \/ \E listed \in SUBSET batch : ReplyIsSaved(listed)
         \/ ProcessRestarts
<1>1. CASE UNCHANGED vars
  BY <1>1 DEF vars
<1>2. CASE EvidenceStep
  BY <1>2, Zenon DEF EvidenceStep
<1>3. CASE RunStep
  BY <1>3, Zenon DEF RunStep, RunPreviews, NoReply, EvidenceSaved, RunFails, SubmitsBatch, ReplyIsDropped
<1>4. CASE \E P \in Lists : ScrubPhones(P)
  BY <1>4, Zenon DEF ScrubPhones
<1> QED BY <1>1, <1>2, <1>3, <1>4, Zenon DEF Next

LEMMA OptOutIsConsent ==
  ASSUME LedgerTypeOK, OptOutsRemembered, NEW p \in Phones
  PROVE  OptOut(p) \in Consent /\ OptOut(p).at <= now
<1>1. now \in Times /\ now \in Nat
  BY DEF LedgerTypeOK, Times
<1>2. CASE consents[p] = None
  BY <1>1, <1>2 DEF OptOut, Consent
<1>3. CASE consents[p] # None
  <2>1. consents[p] \in Consent
    BY <1>3 DEF LedgerTypeOK
  <2>2. consents[p].at \in Times /\ consents[p].at <= now
    BY <1>3, <2>1 DEF Consent, OptOutsRemembered
  <2> QED BY <1>1, <1>3, <2>2 DEF OptOut, Consent
<1> QED BY <1>2, <1>3

LEMMA EnteredResult ==
  ASSUME LedgerTypeOK, NEW p \in Phones, NEW t \in Times, NEW cleared \in BOOLEAN, RecordClearance(p, t, cleared)
  PROVE  EntersResults
<1> DEFINE r == [phone |-> p, at |-> t, cleared |-> cleared]
           rs == <<r>>
<1>1. r \in Clearance /\ rs \in Seq(Clearance) /\ Len(rs) = 1 /\ rs[1] = r /\ r.phone = p
  BY DEF Clearance
<1>2. t <= now /\ SavesClearance(r) /\ UNCHANGED <<now, tables, storeOk, ledgerBounds>>
  BY Zenon DEF RecordClearance
<1>3. NewResults(rs)
  BY <1>1, <1>2 DEF NewResults, SavesClearance
<1>4. QueueGrowsBy(rs)
  <2>1. queue \in Seq(Consent \union Clearance) /\ r \in Consent \union Clearance
    BY <1>1 DEF LedgerTypeOK
  <2>2. queue' = Append(queue, r)
    BY <1>2 DEF SavesClearance
  <2> QED BY <1>1, <2>1, <2>2 DEF QueueGrowsBy
<1>5. clearances' = [clearances EXCEPT ![p] = r]
  BY <1>2, <1>1 DEF SavesClearance
<1>6. clearances' \in [Phones -> Clearance \union {None}]
  BY <1>5, <1>1 DEF LedgerTypeOK
<1>7. \A i \in 1..Len(rs) : clearances'[rs[i].phone] = rs[i]
  BY <1>1, <1>5 DEF LedgerTypeOK
<1>8. \A q \in Phones : (\A i \in 1..Len(rs) : rs[i].phone # q) => clearances'[q] = clearances[q]
  BY <1>1, <1>5 DEF LedgerTypeOK
<1>9. storeOk /\ UNCHANGED <<consents, lastOptOut>>
  BY <1>2 DEF SavesClearance
<1> HIDE DEF rs
<1> QED BY <1>1, <1>2, <1>3, <1>4, <1>6, <1>7, <1>8, <1>9, Zenon DEF EntersResults

LEMMA OrderOfBatch ==
  ASSUME IsFiniteSet(batch), NEW order \in SetToSeqs(batch)
  PROVE  /\ order \in Seq(batch) /\ Len(order) \in Nat /\ DOMAIN order = 1..Len(order)
         /\ \A i, j \in 1..Len(order) : i # j => order[i] # order[j]
         /\ \A p \in batch : \E i \in 1..Len(order) : order[i] = p
<1> DEFINE n == Cardinality(batch)
<1>1. n \in Nat
  BY FS_CardinalityType
<1> HIDE DEF n
<1>2. order \in [1..n -> batch] /\ \A i, j \in 1..n : i # j => order[i] # order[j]
  BY DEF SetToSeqs, n
<1>3. order \in Seq(batch) /\ Len(order) = n /\ DOMAIN order = 1..n
  BY <1>1, <1>2
<1>4. order \in Injection(1..n, batch)
  BY <1>2, Zenon DEF Injection, IsInjective
<1>5. IsFiniteSet(1..n) /\ Cardinality(1..n) = n
  BY <1>1, FS_Interval
<1>6. order \in Surjection(1..n, batch)
  BY <1>4, <1>5, FS_Injection DEF n
<1>7. \A p \in batch : \E i \in 1..n : order[i] = p
  BY <1>6 DEF Surjection
<1> QED BY <1>1, <1>2, <1>3, <1>7

LEMMA ReplyResults ==
  ASSUME LedgerTypeOK, CheckerTypeOK, IsFiniteSet(batch), NEW listed \in SUBSET batch, ReplyIsSaved(listed)
  PROVE  /\ EntersResults
         /\ \A p \in batch : clearances'[p] # None
<1>1. PICK order \in SetToSeqs(batch) :
        SavesClearances([i \in DOMAIN order |-> Result(order[i], listed)])
  BY Zenon DEF ReplyIsSaved
<1> DEFINE rs == [i \in DOMAIN order |-> Result(order[i], listed)]
<1>2. /\ DOMAIN order = 1..Len(order) /\ Len(order) \in Nat
      /\ \A i \in 1..Len(order) : order[i] \in batch
      /\ \A i, j \in 1..Len(order) : i # j => order[i] # order[j]
      /\ \A p \in batch : \E i \in 1..Len(order) : order[i] = p
  BY OrderOfBatch
<1>3. \A p \in batch : /\ Result(p, listed) \in Clearance /\ Result(p, listed).phone = p
                       /\ Result(p, listed).at = now /\ p \in Phones
  BY DEF Result, Clearance, LedgerTypeOK, CheckerTypeOK
<1>4. rs \in Seq(Clearance) /\ Len(rs) = Len(order)
  BY <1>2, <1>3
<1>5. \A i \in 1..Len(order) : /\ rs[i] = Result(order[i], listed) /\ rs[i] \in Clearance
                               /\ rs[i].phone = order[i] /\ rs[i].at = now
  BY <1>2, <1>3
<1>6. \A r : r \in ToSet(rs) <=> \E i \in 1..Len(order) : r = rs[i]
  BY <1>2 DEF ToSet
<1> HIDE DEF rs
<1>7. /\ storeOk
      /\ clearances' = [p \in Phones |->
           IF \E r \in ToSet(rs) : r.phone = p
           THEN CHOOSE r \in ToSet(rs) : r.phone = p ELSE clearances[p]]
      /\ queue' = queue \o rs
      /\ UNCHANGED <<now, consents, lastOptOut, tables, storeOk, ledgerBounds>>
  BY <1>1, Zenon DEF SavesClearances, ReplyIsSaved, rs
<1>8. \A i \in 1..Len(order) : clearances'[rs[i].phone] = rs[i]
  <2> SUFFICES ASSUME NEW i \in 1..Len(order)
               PROVE  clearances'[rs[i].phone] = rs[i]
    OBVIOUS
  <2>1. rs[i] \in ToSet(rs) /\ rs[i].phone \in Phones
    BY <1>2, <1>3, <1>5, <1>6
  <2>2. \A r \in ToSet(rs) : r.phone = rs[i].phone => r = rs[i]
    BY <1>2, <1>5, <1>6
  <2>3. (CHOOSE r \in ToSet(rs) : r.phone = rs[i].phone) = rs[i]
    BY <2>1, <2>2
  <2> QED BY <1>7, <2>1, <2>3
<1>9. \A p \in Phones : (\A i \in 1..Len(rs) : rs[i].phone # p) => clearances'[p] = clearances[p]
  BY <1>4, <1>6, <1>7
<1>10. clearances' \in [Phones -> Clearance \union {None}]
  <2>1. DOMAIN clearances' = Phones /\ clearances' = [p \in Phones |-> clearances'[p]]
    BY <1>7
  <2>2. ASSUME NEW p \in Phones PROVE clearances'[p] \in Clearance \union {None}
    <3>1. CASE \A i \in 1..Len(rs) : rs[i].phone # p
      BY <1>9, <3>1 DEF LedgerTypeOK
    <3>2. CASE \E i \in 1..Len(rs) : rs[i].phone = p
      BY <1>4, <1>5, <1>8, <3>2
    <3> QED BY <3>1, <3>2
  <2> QED BY <2>1, <2>2
<1>11. NewResults(rs)
  <2>1. ASSUME NEW i \in 1..Len(rs) PROVE rs[i].at = rs[1].at /\ rs[i].at <= now /\ Supersedes(rs[i])
    <3>1. rs[i].at = now /\ rs[1].at = now /\ now \in Nat
      BY <1>2, <1>4, <1>5 DEF LedgerTypeOK, Times
    <3>2. ~Conflicts(order[i], listed)
      BY <1>2, <1>4 DEF ReplyIsSaved
    <3> QED BY <1>4, <1>5, <3>1, <3>2 DEF Conflicts
  <2> QED BY <1>2, <1>4, <1>5, <2>1 DEF NewResults
<1>12. QueueGrowsBy(rs)
  <2>1. queue \in Seq(Consent \union Clearance) /\ rs \in Seq(Consent \union Clearance)
    BY <1>4, <1>5 DEF LedgerTypeOK
  <2> QED BY <1>7, <2>1 DEF QueueGrowsBy
<1>13. EntersResults
  BY <1>4, <1>7, <1>8, <1>9, <1>10, <1>11, <1>12 DEF EntersResults
<1>14. ASSUME NEW p \in batch PROVE clearances'[p] # None
  BY <1>2, <1>5, <1>8, ClearanceFields
<1> QED BY <1>13, <1>14

LEMMA FiniteNumbers ==
  ASSUME CheckerTypeOK
  PROVE  IsFiniteSet(Singapore) /\ IsFiniteSet(todo) /\ IsFiniteSet(batch)
<1>1. IsFiniteSet(Singapore)
  BY FS_Subset, PhonesAssumption
<1> QED BY <1>1, FS_Subset DEF CheckerTypeOK

LEMMA EvidenceMoves ==
  ASSUME TypeOK, OptOutsRemembered, [Next]_vars
  PROVE  UNCHANGED ledger \/ Ticks \/ Commit \/ StoreFails \/ EntersConsent \/ EntersResults \/ Restart
<1> USE DEF TypeOK
<1>1. CASE \E p \in Subjects : RecordOptOut(p)
  <2>1. PICK p \in Subjects : RecordOptOut(p)
    BY <1>1
  <2>2. OptOut(p) \in Consent /\ OptOut(p).at <= now
    BY <2>1, OptOutIsConsent
  <2>3. EntersConsent
    BY <2>1, <2>2, Zenon DEF RecordOptOut, EntersConsent
  <2> QED BY <2>3
<1>2. CASE \E p \in Subjects, t \in Times : RecordConsent(p, t)
  <2>1. PICK p \in Subjects, t \in Times : RecordConsent(p, t)
    BY <1>2
  <2> DEFINE r == [phone |-> p, at |-> t, revokedAt |-> None]
  <2>2. r \in Consent
    BY DEF Consent
  <2>3. r.at <= now /\ SavesConsent(r) /\ UNCHANGED <<now, tables, storeOk, ledgerBounds>>
    BY <2>1 DEF RecordConsent
  <2> HIDE DEF r
  <2>4. EntersConsent
    BY <2>2, <2>3, Zenon DEF EntersConsent
  <2> QED BY <2>4
<1>3. CASE \E p \in Subjects, t \in Times, cleared \in BOOLEAN : RecordClearance(p, t, cleared)
  <2>1. PICK p \in Subjects, t \in Times, cleared \in BOOLEAN : RecordClearance(p, t, cleared)
    BY <1>3
  <2>2. EntersResults
    BY <2>1, EnteredResult
  <2> QED BY <2>2
<1>4. CASE \E listed \in SUBSET batch : ReplyIsSaved(listed)
  BY <1>4, ReplyResults, FiniteNumbers
<1> QED BY <1>1, <1>2, <1>3, <1>4, LedgerSteps, Zenon DEF ProcessRestarts

-----------------------------------------------------------------------------
(* The evidence keeps its types. *)

LEMMA RestartReads ==
  ASSUME LedgerTypeOK, Restart
  PROVE  /\ lastOptOut' \in [Phones -> Consent \union {None}]
         /\ consents' \in [Phones -> Consent \union {None}]
         /\ clearances' \in [Phones -> Clearance \union {None}]
         /\ Reads(lastOptOut', consents', clearances', consentRows, clearanceRows)
         /\ queue' = <<>> /\ storeOk' = TRUE /\ UNCHANGED <<now, tables, failures>>
         /\ restarts' \in 0..MaxRestarts
<1>1. ToSet(consentRows) \subseteq Consent /\ ToSet(clearanceRows) \subseteq Clearance
  BY DEF LedgerTypeOK, ToSet
<1>2. restarts' \in 0..MaxRestarts
  BY LedgerBoundAssumption DEF Restart, LedgerTypeOK
<1> QED BY <1>1, <1>2 DEF Restart

LEMMA LedgerTypeStep ==
  ASSUME LedgerTypeOK,
         UNCHANGED ledger \/ Ticks \/ Commit \/ StoreFails \/ EntersConsent \/ EntersResults \/ Restart
  PROVE  LedgerTypeOK'
<1> USE DEF LedgerTypeOK, cache, tables, ledgerBounds
<1>1. CASE UNCHANGED ledger
  BY <1>1 DEF ledger
<1>2. CASE Ticks
  BY <1>2 DEF Ticks, Times
<1>3. CASE Commit
  <2>1. queue \in Seq(Consent \union Clearance) /\ queue # <<>>
    BY <1>3 DEF Commit
  <2>2. Head(queue) \in Consent \union Clearance /\ Tail(queue) \in Seq(Consent \union Clearance)
    BY <2>1, ToSetOfTail
  <2>3. CASE Head(queue) \in Consent
    <3>1. consentRows' = Append(consentRows, Head(queue)) /\ clearanceRows' = clearanceRows
      BY <1>3, <2>3, Zenon DEF Commit
    <3> QED BY <1>3, <2>2, <2>3, <3>1 DEF Commit
  <2>4. CASE Head(queue) \notin Consent
    <3>1. clearanceRows' = Append(clearanceRows, Head(queue)) /\ consentRows' = consentRows
      BY <1>3, <2>4, Zenon DEF Commit
    <3> QED BY <1>3, <2>2, <2>4, <3>1 DEF Commit
  <2> QED BY <2>3, <2>4
<1>4. CASE StoreFails
  <2>1. failures' \in 0..MaxStoreFailures
    BY <1>4, LedgerBoundAssumption DEF StoreFails
  <2>2. queue' \in Seq(Consent \union Clearance) /\ storeOk' = FALSE
    BY <1>4 DEF StoreFails
  <2> QED BY <1>4, <2>1, <2>2 DEF StoreFails
<1>5. CASE EntersConsent
  <2>1. PICK r \in Consent : SavesConsent(r) /\ UNCHANGED <<now, tables, storeOk, ledgerBounds>>
    BY <1>5, Zenon DEF EntersConsent
  <2>2. lastOptOut' \in [Phones -> Consent \union {None}]
    BY <2>1 DEF SavesConsent
  <2>3. consents' \in [Phones -> Consent \union {None}]
    BY <2>1 DEF SavesConsent
  <2>4. queue' \in Seq(Consent \union Clearance) /\ UNCHANGED clearances
    BY <2>1 DEF SavesConsent
  <2> QED BY <2>1, <2>2, <2>3, <2>4
<1>6. CASE EntersResults
  BY <1>6 DEF EntersResults, QueueGrowsBy
<1>7. CASE Restart
  <2>1. queue' \in Seq(Consent \union Clearance) /\ storeOk' \in BOOLEAN
    BY <1>7 DEF Restart
  <2>2. UNCHANGED <<now, consentRows, clearanceRows, failures>>
    BY <1>7, RestartReads
  <2>3. /\ lastOptOut' \in [Phones -> Consent \union {None}]
        /\ consents' \in [Phones -> Consent \union {None}]
        /\ clearances' \in [Phones -> Clearance \union {None}]
        /\ restarts' \in 0..MaxRestarts
    BY <1>7, RestartReads, Zenon
  <2> QED BY <2>1, <2>2, <2>3
<1> QED BY <1>1, <1>2, <1>3, <1>4, <1>5, <1>6, <1>7

-----------------------------------------------------------------------------
(* Opt-outs are remembered. *)

LEMMA RecordsElsewhere ==
  ASSUME LedgerTypeOK
  PROVE  /\ ToSet(consentRows) \subseteq Consent /\ ToSet(clearanceRows) \subseteq Clearance
         /\ ToSet(queue) \subseteq Consent \union Clearance /\ now \in Nat
         /\ \A p \in Phones : /\ consents[p] \in Consent \union {None}
                              /\ lastOptOut[p] \in Consent \union {None}
                              /\ clearances[p] \in Clearance \union {None}
  BY DEF LedgerTypeOK, ToSet, Times

LEMMA CommitMoves ==
  ASSUME LedgerTypeOK, Commit
  PROVE  /\ ToSet(consentRows') \union ToSet(queue') \subseteq ToSet(consentRows) \union ToSet(queue)
         /\ ToSet(clearanceRows') \union ToSet(queue') \subseteq ToSet(clearanceRows) \union ToSet(queue)
         /\ ToSet(clearanceRows) \union (ToSet(queue) \ Consent) \subseteq ToSet(clearanceRows') \union ToSet(queue')
         /\ UNCHANGED <<now, consents, lastOptOut, clearances, storeOk>>
<1>1. queue \in Seq(Consent \union Clearance) /\ queue # <<>> /\ queue' = Tail(queue)
  BY DEF Commit, LedgerTypeOK
<1>2. Head(queue) \in Consent \union Clearance /\ ToSet(queue) = ToSet(Tail(queue)) \union {Head(queue)}
  BY <1>1, ToSetOfTail
<1>3. CASE Head(queue) \in Consent
  <2>1. consentRows' = Append(consentRows, Head(queue)) /\ clearanceRows' = clearanceRows
    BY <1>3, Zenon DEF Commit
  <2>2. ToSet(consentRows') = ToSet(consentRows) \union {Head(queue)}
    BY <1>3, <2>1, ToSetOfAppend DEF LedgerTypeOK
  <2> QED BY <1>1, <1>2, <1>3, <2>1, <2>2 DEF Commit, cache
<1>4. CASE Head(queue) \notin Consent
  <2>1. clearanceRows' = Append(clearanceRows, Head(queue)) /\ consentRows' = consentRows
    BY <1>4, Zenon DEF Commit
  <2>2. ToSet(clearanceRows') = ToSet(clearanceRows) \union {Head(queue)}
    BY <1>2, <1>4, <2>1, ToSetOfAppend DEF LedgerTypeOK
  <2> QED BY <1>1, <1>2, <1>4, <2>1, <2>2 DEF Commit, cache
<1> QED BY <1>3, <1>4

LEMMA ConsentRemembered ==
  ASSUME LedgerTypeOK, OptOutsRemembered, EntersConsent
  PROVE  OptOutsRemembered'
<1>1. PICK r \in Consent : /\ r.at <= now /\ SavesConsent(r)
                           /\ UNCHANGED <<now, tables, storeOk, ledgerBounds>>
  BY Zenon DEF EntersConsent
<1>2. /\ ConsentIsNew(r) /\ queue' = Append(queue, r) /\ consents' = [consents EXCEPT ![r.phone] = r]
      /\ lastOptOut' = IF IsLatestOptOut(r, lastOptOut[r.phone])
                       THEN [lastOptOut EXCEPT ![r.phone] = r] ELSE lastOptOut
      /\ now' = now /\ consentRows' = consentRows
  BY <1>1, Zenon DEF SavesConsent, tables
<1>3. ToSet(queue') = ToSet(queue) \union {r}
  BY <1>2, ToSetOfAppend DEF LedgerTypeOK
<1>4. r.phone \in Phones /\ r.at \in Nat /\ r # None /\ (r.revokedAt # None => r.revokedAt \in Nat)
  BY ConsentFields
<1>5. /\ consents'[r.phone] = r
      /\ \A p \in Phones : p # r.phone => consents'[p] = consents[p] /\ lastOptOut'[p] = lastOptOut[p]
  BY <1>2, <1>4 DEF LedgerTypeOK
<1>6. /\ IsLatestOptOut(r, lastOptOut[r.phone]) => lastOptOut'[r.phone] = r
      /\ ~IsLatestOptOut(r, lastOptOut[r.phone]) => lastOptOut'[r.phone] = lastOptOut[r.phone]
  BY <1>2, <1>4 DEF LedgerTypeOK
<1>7. lastOptOut[r.phone] # None => lastOptOut[r.phone].revokedAt # None /\ lastOptOut[r.phone].revokedAt \in Nat
  BY <1>4, RecordsElsewhere, ConsentFields DEF OptOutsRemembered
<1>8. ASSUME NEW q \in ToSet(consentRows') \union ToSet(queue'), q \in Consent
      PROVE  /\ q.at <= now'
             /\ q.revokedAt # None => lastOptOut'[q.phone] # None /\ lastOptOut'[q.phone].revokedAt >= q.revokedAt
  <2>1. CASE q = r
    BY <1>1, <1>2, <1>4, <1>6, <1>7, <2>1 DEF IsLatestOptOut
  <2>2. CASE q \in ToSet(consentRows) \union ToSet(queue)
    <3>1. /\ q.at <= now
          /\ q.revokedAt # None => lastOptOut[q.phone] # None /\ lastOptOut[q.phone].revokedAt >= q.revokedAt
      BY <1>8, <2>2 DEF OptOutsRemembered
    <3>2. q.phone \in Phones /\ (q.revokedAt # None => q.revokedAt \in Nat)
      BY <1>8, ConsentFields
    <3> QED BY <1>2, <1>4, <1>5, <1>6, <1>7, <3>1, <3>2 DEF IsLatestOptOut
  <2> QED BY <1>2, <1>3, <1>8, <2>1, <2>2
<1>9. ASSUME NEW p \in Phones
      PROVE  /\ lastOptOut'[p] # None => lastOptOut'[p].revokedAt # None /\ consents'[p] # None
             /\ consents'[p] # None => consents'[p].at <= now'
             /\ consents'[p] # None /\ consents'[p].revokedAt = None /\ lastOptOut'[p] # None =>
                  consents'[p].at > lastOptOut'[p].revokedAt
  <2>1. CASE p = r.phone
    BY <1>1, <1>2, <1>4, <1>5, <1>6, <1>7, <2>1 DEF IsLatestOptOut, ConsentIsNew
  <2>2. CASE p # r.phone
    BY <1>2, <1>5, <2>2 DEF OptOutsRemembered
  <2> QED BY <2>1, <2>2
<1> QED BY <1>8, <1>9 DEF OptOutsRemembered

LEMMA RestartRemembers ==
  ASSUME LedgerTypeOK, OptOutsRemembered, Restart
  PROVE  OptOutsRemembered'
<1>1. Reads(lastOptOut', consents', clearances', consentRows, clearanceRows)
  BY Zenon DEF Restart
<1>2. queue' = <<>> /\ now' = now /\ consentRows' = consentRows
  BY DEF Restart, tables
<1>3. \A i \in DOMAIN consentRows : consentRows[i] \in Consent /\ consentRows[i].at <= now
  BY DEF LedgerTypeOK, OptOutsRemembered, ToSet
<1>4. ASSUME NEW p \in Phones
      PROVE  /\ IsLastOptOut(lastOptOut'[p], consentRows, p)
             /\ \E last \in ToSet(consentRows) \union {None} :
                  LastRow(last, consentRows, p) /\ consents'[p] = InForce(last, lastOptOut'[p])
  BY <1>1, Zenon DEF Reads
<1>5. ASSUME NEW i \in DOMAIN consentRows, consentRows[i].revokedAt # None
      PROVE  /\ lastOptOut'[consentRows[i].phone] # None
             /\ lastOptOut'[consentRows[i].phone].revokedAt >= consentRows[i].revokedAt
  <2> DEFINE p == consentRows[i].phone
             o == lastOptOut'[p]
  <2>1. p \in Phones /\ consentRows[i].revokedAt \in Nat
    BY <1>3, <1>5, ConsentFields
  <2>2. PICK k \in DOMAIN consentRows :
          /\ consentRows[k].phone = p /\ consentRows[k].revokedAt # None /\ o = consentRows[k]
          /\ \A j \in DOMAIN consentRows : consentRows[j].phone = p /\ consentRows[j].revokedAt # None =>
               consentRows[j].revokedAt < o.revokedAt \/ consentRows[j].revokedAt = o.revokedAt
    BY <1>4, <1>5, <2>1, Zenon DEF IsLastOptOut
  <2>3. o # None /\ o.revokedAt \in Nat
    BY <1>3, <2>2, ConsentFields
  <2> QED BY <1>5, <2>1, <2>2, <2>3
<1>6. ASSUME NEW p \in Phones
      PROVE  /\ lastOptOut'[p] # None => lastOptOut'[p].revokedAt # None /\ consents'[p] # None
             /\ consents'[p] # None => consents'[p].at <= now'
             /\ consents'[p] # None /\ consents'[p].revokedAt = None /\ lastOptOut'[p] # None =>
                  consents'[p].at > lastOptOut'[p].revokedAt
  <2> DEFINE o == lastOptOut'[p]
  <2>1. PICK last \in ToSet(consentRows) \union {None} :
          LastRow(last, consentRows, p) /\ consents'[p] = InForce(last, o)
    BY <1>4
  <2>2. last # None => \E i \in DOMAIN consentRows : last = consentRows[i]
    BY <2>1, Zenon DEF LastRow
  <2>3. o # None => \E i \in DOMAIN consentRows :
          consentRows[i].phone = p /\ consentRows[i].revokedAt # None /\ o = consentRows[i]
    BY <1>4, Zenon DEF IsLastOptOut
  <2>4. o # None => last # None
    BY <2>1, <2>3, <1>3, ConsentFields DEF LastRow
  <2>5. /\ o # None => o.revokedAt # None /\ o.revokedAt \in Nat /\ o.at <= now
        /\ last # None => last.at \in Nat /\ last.at <= now
    BY <1>3, <2>2, <2>3, ConsentFields
  <2>6. CASE last # None /\ last.revokedAt = None /\ o # None /\ last.at <= o.revokedAt
    <3>1. consents'[p] = o
      BY <2>1, <2>6, Zenon DEF InForce
    <3> QED BY <1>2, <2>5, <2>6, <3>1
  <2>7. CASE ~(last # None /\ last.revokedAt = None /\ o # None /\ last.at <= o.revokedAt)
    <3>1. consents'[p] = last
      BY <2>1, <2>7, Zenon DEF InForce
    <3> QED BY <1>2, <2>4, <2>5, <2>7, <3>1
  <2> QED BY <2>6, <2>7
<1>7. ASSUME NEW q \in ToSet(consentRows') \union ToSet(queue')
      PROVE  \E i \in DOMAIN consentRows : q = consentRows[i]
  BY <1>2 DEF ToSet
<1> QED BY <1>2, <1>3, <1>5, <1>6, <1>7 DEF OptOutsRemembered

LEMMA RememberedStep ==
  ASSUME LedgerTypeOK, OptOutsRemembered,
         UNCHANGED ledger \/ Ticks \/ Commit \/ StoreFails \/ EntersConsent \/ EntersResults \/ Restart
  PROVE  OptOutsRemembered'
<1>1. CASE UNCHANGED ledger
  BY <1>1 DEF ledger, cache, tables, OptOutsRemembered
<1>2. CASE Ticks
  <2>1. now' = now + 1 /\ UNCHANGED <<consents, lastOptOut, consentRows, queue>>
    BY <1>2 DEF Ticks, cache, tables
  <2>2. \A r \in Consent : r.at <= now => r.at <= now + 1
    BY RecordsElsewhere, ConsentFields
  <2> QED BY <2>1, <2>2, RecordsElsewhere DEF OptOutsRemembered
<1>3. CASE Commit
  BY <1>3, CommitMoves DEF OptOutsRemembered
<1>4. CASE StoreFails
  <2>1. queue' = <<>> /\ UNCHANGED <<now, consents, lastOptOut, consentRows>>
    BY <1>4 DEF StoreFails, cache, tables
  <2>2. ToSet(queue') = {}
    BY <2>1 DEF ToSet
  <2> QED BY <2>1, <2>2 DEF OptOutsRemembered
<1>5. CASE EntersResults
  <2>1. PICK rs \in Seq(Clearance) :
          QueueGrowsBy(rs) /\ UNCHANGED <<now, consents, lastOptOut, consentRows>>
    BY <1>5, Zenon DEF EntersResults, tables
  <2>2. ASSUME NEW q \in ToSet(queue'), q \in Consent PROVE q \in ToSet(queue)
    <3>1. PICK k \in 1..Len(queue') : q = queue'[k]
      BY <2>1, <2>2 DEF ToSet, QueueGrowsBy
    <3>2. CASE k <= Len(queue)
      <4>1. k \in 1..Len(queue) /\ DOMAIN queue = 1..Len(queue)
        BY <2>1, <3>1, <3>2 DEF QueueGrowsBy, LedgerTypeOK
      <4>2. q = queue[k]
        BY <2>1, <3>1, <4>1 DEF QueueGrowsBy
      <4> QED BY <4>1, <4>2 DEF ToSet
    <3>3. CASE k > Len(queue)
      <4>1. k - Len(queue) \in 1..Len(rs) /\ k = Len(queue) + (k - Len(queue))
        BY <2>1, <3>1, <3>3 DEF QueueGrowsBy, LedgerTypeOK
      <4>2. q = rs[k - Len(queue)]
        BY <2>1, <3>1, <4>1 DEF QueueGrowsBy
      <4> QED BY <2>2, <4>1, <4>2, ConsentOrClearance
    <3> QED BY <2>1, <3>1, <3>2, <3>3 DEF LedgerTypeOK, QueueGrowsBy
  <2> QED BY <2>1, <2>2 DEF OptOutsRemembered
<1> QED BY <1>1, <1>2, <1>3, <1>4, <1>5, ConsentRemembered, RestartRemembers

-----------------------------------------------------------------------------
(* Results replace one another in the order of their recording. *)

\* The five parts of ResultsInOrder.
RowsInOrder ==
  \A i, j \in DOMAIN clearanceRows :
    i < j /\ clearanceRows[i].phone = clearanceRows[j].phone => Replaces(clearanceRows[i], clearanceRows[j])
RowsBeforeQueue ==
  \A i \in DOMAIN clearanceRows, j \in DOMAIN queue :
    queue[j] \in Clearance /\ clearanceRows[i].phone = queue[j].phone => Replaces(clearanceRows[i], queue[j])
QueueInOrder ==
  \A i, j \in DOMAIN queue :
    i < j /\ queue[i] \in Clearance /\ queue[j] \in Clearance /\ queue[i].phone = queue[j].phone =>
      Replaces(queue[i], queue[j])
NoneAfterForce ==
  \A r \in ToSet(clearanceRows) \union ToSet(queue) : r \in Clearance =>
    r.at <= now /\ clearances[r.phone] # None /\ Replaces(r, clearances[r.phone])
ForceIsRecorded ==
  \A p \in Phones : clearances[p] # None =>
    /\ clearances[p].phone = p /\ clearances[p].at <= now
    /\ storeOk => clearances[p] \in ToSet(clearanceRows) \union ToSet(queue)

LEMMA OrderParts ==
  RowsInOrder' /\ RowsBeforeQueue' /\ QueueInOrder' /\ NoneAfterForce' /\ ForceIsRecorded' => ResultsInOrder'
  BY Zenon DEF ResultsInOrder, RowsInOrder, RowsBeforeQueue, QueueInOrder, NoneAfterForce, ForceIsRecorded

LEMMA CommitOrders ==
  ASSUME LedgerTypeOK, ResultsInOrder, Commit
  PROVE  ResultsInOrder'
<1>1. queue \in Seq(Consent \union Clearance) /\ queue # <<>> /\ queue' = Tail(queue)
  BY DEF Commit, LedgerTypeOK
<1>2. /\ Len(queue) \in Nat \ {0} /\ DOMAIN queue = 1..Len(queue)
      /\ DOMAIN queue' = 1..Len(queue)-1 /\ \A i \in 1..Len(queue)-1 : queue'[i] = queue[i+1]
      /\ Head(queue) = queue[1] /\ queue[1] \in Consent \union Clearance
  BY <1>1
<1>3. CASE queue[1] \in Consent
  <2>1. clearanceRows' = clearanceRows
    BY <1>2, <1>3, Zenon DEF Commit
  <2>2. RowsInOrder'
    BY <2>1 DEF ResultsInOrder, RowsInOrder
  <2>3. RowsBeforeQueue'
    BY <1>2, <2>1 DEF ResultsInOrder, RowsBeforeQueue
  <2>4. QueueInOrder'
    BY <1>2 DEF ResultsInOrder, QueueInOrder
  <2>5. NoneAfterForce'
    BY CommitMoves DEF ResultsInOrder, NoneAfterForce
  <2>6. ForceIsRecorded'
    BY CommitMoves, ConsentOrClearance, RecordsElsewhere DEF ResultsInOrder, ForceIsRecorded
  <2> QED BY <2>2, <2>3, <2>4, <2>5, <2>6, OrderParts
<1>4. CASE queue[1] \notin Consent
  <2>1. clearanceRows' = Append(clearanceRows, queue[1]) /\ queue[1] \in Clearance
    BY <1>2, <1>4, Zenon DEF Commit
  <2> DEFINE n == Len(clearanceRows)
  <2>2. /\ n \in Nat /\ DOMAIN clearanceRows = 1..n /\ DOMAIN clearanceRows' = 1..n+1
        /\ \A i \in 1..n : clearanceRows'[i] = clearanceRows[i]
        /\ clearanceRows'[n+1] = queue[1]
    BY <2>1 DEF LedgerTypeOK
  <2> HIDE DEF n
  <2>3. ASSUME NEW i \in 1..n+1, NEW j \in 1..n+1, i < j, clearanceRows'[i].phone = clearanceRows'[j].phone
        PROVE  Replaces(clearanceRows'[i], clearanceRows'[j])
    <3>1. CASE j = n+1
      BY <1>2, <2>1, <2>2, <2>3, <3>1 DEF ResultsInOrder
    <3>2. CASE j # n+1
      BY <2>2, <2>3, <3>2 DEF ResultsInOrder
    <3> QED BY <3>1, <3>2
  <2>4. ASSUME NEW i \in 1..n+1, NEW j \in 1..Len(queue)-1,
               queue'[j] \in Clearance, clearanceRows'[i].phone = queue'[j].phone
        PROVE  Replaces(clearanceRows'[i], queue'[j])
    <3>1. j+1 \in DOMAIN queue /\ 1 \in DOMAIN queue /\ 1 < j+1 /\ queue'[j] = queue[j+1]
      BY <1>2
    <3>2. CASE i = n+1
      BY <2>1, <2>2, <2>4, <3>1, <3>2 DEF ResultsInOrder
    <3>3. CASE i # n+1
      BY <2>2, <2>4, <3>1, <3>3 DEF ResultsInOrder
    <3> QED BY <3>2, <3>3
  <2>5. QueueInOrder'
    BY <1>2 DEF ResultsInOrder, QueueInOrder
  <2>6. NoneAfterForce'
    BY CommitMoves DEF ResultsInOrder, NoneAfterForce
  <2>7. ForceIsRecorded'
    BY CommitMoves, ConsentOrClearance, RecordsElsewhere DEF ResultsInOrder, ForceIsRecorded
  <2>8. RowsInOrder' /\ RowsBeforeQueue'
    BY <1>2, <2>2, <2>3, <2>4 DEF RowsInOrder, RowsBeforeQueue
  <2> QED BY <2>5, <2>6, <2>7, <2>8, OrderParts
<1> QED BY <1>3, <1>4

LEMMA ConsentKeepsOrder ==
  ASSUME LedgerTypeOK, ResultsInOrder, EntersConsent
  PROVE  ResultsInOrder'
<1>1. PICK r \in Consent : SavesConsent(r) /\ UNCHANGED <<now, tables, storeOk, ledgerBounds>>
  BY Zenon DEF EntersConsent
<1>2. queue' = Append(queue, r) /\ UNCHANGED <<now, clearances, clearanceRows, storeOk>>
  BY <1>1, Zenon DEF SavesConsent, tables
<1>3. r \notin Clearance
  BY ConsentOrClearance
<1>4. ToSet(queue') = ToSet(queue) \union {r}
  BY <1>2, ToSetOfAppend DEF LedgerTypeOK
<1> DEFINE n == Len(queue)
<1>5. /\ n \in Nat /\ DOMAIN queue = 1..n /\ DOMAIN queue' = 1..n+1
      /\ \A i \in 1..n : queue'[i] = queue[i]
      /\ queue'[n+1] \notin Clearance
  BY <1>2, <1>3 DEF LedgerTypeOK
<1> HIDE DEF n
<1>6. \A i \in DOMAIN queue' : queue'[i] \in Clearance => i \in DOMAIN queue /\ queue'[i] = queue[i]
  BY <1>5
<1>7. RowsInOrder' /\ RowsBeforeQueue' /\ QueueInOrder'
  BY <1>2, <1>6 DEF ResultsInOrder, RowsInOrder, RowsBeforeQueue, QueueInOrder
<1>8. NoneAfterForce' /\ ForceIsRecorded'
  BY <1>2, <1>3, <1>4 DEF ResultsInOrder, NoneAfterForce, ForceIsRecorded
<1> QED BY <1>7, <1>8, OrderParts

LEMMA NewResultReplaces ==
  ASSUME LedgerTypeOK, ResultsInOrder, NEW r \in Clearance, Supersedes(r),
         NEW q \in Clearance, q \in ToSet(clearanceRows) \union ToSet(queue), q.phone = r.phone
  PROVE  Replaces(q, r)
<1>1. clearances[q.phone] # None /\ Replaces(q, clearances[q.phone])
  BY DEF ResultsInOrder
<1>2. clearances[r.phone] \in Clearance
  BY <1>1, ClearanceFields DEF LedgerTypeOK
<1> QED BY <1>1, <1>2, ReplacesOnward DEF Supersedes

LEMMA ResultsKeepOrder ==
  ASSUME LedgerTypeOK, ResultsInOrder, EntersResults
  PROVE  /\ ResultsInOrder'
         /\ \A p \in Phones : clearances[p] # None => clearances'[p] # None /\ clearances[p].at <= clearances'[p].at
<1>1. PICK rs \in Seq(Clearance) :
        /\ storeOk /\ NewResults(rs) /\ QueueGrowsBy(rs)
        /\ \A i \in 1..Len(rs) : clearances'[rs[i].phone] = rs[i]
        /\ \A p \in Phones : (\A i \in 1..Len(rs) : rs[i].phone # p) => clearances'[p] = clearances[p]
        /\ UNCHANGED <<now, clearanceRows, storeOk>>
  BY Zenon DEF EntersResults, tables
<1> DEFINE n == Len(queue)
           k == Len(rs)
<1>2. /\ n \in Nat /\ k \in Nat /\ DOMAIN queue = 1..n /\ DOMAIN rs = 1..k
      /\ DOMAIN queue' = 1..n+k
      /\ \A i \in 1..n : queue'[i] = queue[i] /\ queue[i] \in Consent \union Clearance
      /\ \A i \in 1..k : queue'[n+i] = rs[i]
  BY <1>1 DEF QueueGrowsBy, LedgerTypeOK
<1>3. \A i \in 1..k : /\ rs[i] \in Clearance /\ rs[i].phone \in Phones /\ rs[i].at <= now
                      /\ Supersedes(rs[i]) /\ rs[i] # None
                      /\ \A j \in 1..k : i # j => rs[i].phone # rs[j].phone
  BY <1>1, ClearanceFields DEF NewResults
<1> HIDE DEF n, k
<1>4. ASSUME NEW i \in 1..n+k, ~(i \in 1..n) PROVE i - n \in 1..k /\ queue'[i] = rs[i-n]
  <2>1. i - n \in 1..k /\ n + (i - n) = i
    BY <1>2, <1>4
  <2> QED BY <1>2, <2>1
<1>5. \A i \in 1..n : queue[i] \in ToSet(queue)
  BY <1>2 DEF ToSet
<1>6. \A i \in DOMAIN clearanceRows : clearanceRows[i] \in ToSet(clearanceRows) /\ clearanceRows[i] \in Clearance
  BY DEF ToSet, LedgerTypeOK
<1>7. RowsInOrder'
  BY <1>1 DEF ResultsInOrder, RowsInOrder
<1>8. ASSUME NEW i \in DOMAIN clearanceRows, NEW j \in 1..n+k,
             queue'[j] \in Clearance, clearanceRows[i].phone = queue'[j].phone
      PROVE  Replaces(clearanceRows[i], queue'[j])
  <2>1. CASE j \in 1..n
    BY <1>2, <1>8, <2>1 DEF ResultsInOrder
  <2>2. CASE ~(j \in 1..n)
    BY <1>3, <1>4, <1>6, <1>8, <2>2, NewResultReplaces
  <2> QED BY <2>1, <2>2
<1>9. ASSUME NEW i \in 1..n+k, NEW j \in 1..n+k, i < j,
             queue'[i] \in Clearance, queue'[j] \in Clearance, queue'[i].phone = queue'[j].phone
      PROVE  Replaces(queue'[i], queue'[j])
  <2>1. CASE j \in 1..n
    <3>1. i \in 1..n
      BY <1>2, <1>9, <2>1
    <3> QED BY <1>2, <1>9, <2>1, <3>1 DEF ResultsInOrder
  <2>2. CASE ~(j \in 1..n) /\ i \in 1..n
    BY <1>2, <1>3, <1>4, <1>5, <1>9, <2>2, NewResultReplaces
  <2>3. CASE ~(j \in 1..n) /\ ~(i \in 1..n)
    <3>1. i - n # j - n
      BY <1>2, <1>9
    <3> QED BY <1>3, <1>4, <1>9, <2>3, <3>1
  <2> QED BY <2>1, <2>2, <2>3
<1>10. \A r : r \in ToSet(queue') => r \in ToSet(queue) \/ \E i \in 1..k : r = rs[i]
  <2> SUFFICES ASSUME NEW i \in 1..n+k
               PROVE  queue'[i] \in ToSet(queue) \/ \E j \in 1..k : queue'[i] = rs[j]
    BY <1>2 DEF ToSet
  <2> QED BY <1>2, <1>4, <1>5
<1>11. ToSet(queue) \subseteq ToSet(queue') /\ \A i \in 1..k : rs[i] \in ToSet(queue')
  <2>1. \A i \in 1..n : i \in DOMAIN queue' /\ queue'[i] = queue[i]
    BY <1>2
  <2>2. \A i \in 1..k : n+i \in DOMAIN queue' /\ queue'[n+i] = rs[i]
    BY <1>2
  <2> QED BY <1>2, <2>1, <2>2 DEF ToSet
<1>12. \A r \in Clearance : r.at <= now => r.at <= now'
  BY <1>1
<1>13. ASSUME NEW r \in ToSet(clearanceRows) \union ToSet(queue'), r \in Clearance
       PROVE  r.at <= now /\ clearances'[r.phone] # None /\ Replaces(r, clearances'[r.phone])
  <2>1. CASE \E i \in 1..k : r = rs[i]
    BY <1>1, <1>3, <2>1, ReplacesItself DEF k
  <2>2. CASE r \in ToSet(clearanceRows) \union ToSet(queue)
    <3>1. r.at <= now /\ clearances[r.phone] # None /\ Replaces(r, clearances[r.phone]) /\ r.phone \in Phones
      BY <1>13, <2>2, ClearanceFields DEF ResultsInOrder
    <3>2. CASE \E i \in 1..k : rs[i].phone = r.phone
      BY <1>1, <1>3, <1>13, <2>2, <3>1, <3>2, NewResultReplaces DEF k
    <3>3. CASE \A i \in 1..k : rs[i].phone # r.phone
      BY <1>1, <3>1, <3>3 DEF k
    <3> QED BY <3>2, <3>3
  <2> QED BY <1>10, <1>13, <2>1, <2>2
<1>14. ASSUME NEW p \in Phones, clearances'[p] # None
       PROVE  /\ clearances'[p].phone = p /\ clearances'[p].at <= now
              /\ clearances'[p] \in ToSet(clearanceRows) \union ToSet(queue')
  <2>1. CASE \E i \in 1..k : rs[i].phone = p
    BY <1>1, <1>3, <1>11, <2>1 DEF k
  <2>2. CASE \A i \in 1..k : rs[i].phone # p
    BY <1>1, <1>11, <1>14, <2>2 DEF k, ResultsInOrder
  <2> QED BY <2>1, <2>2
<1>15. ASSUME NEW p \in Phones, clearances[p] # None
       PROVE  clearances'[p] # None /\ clearances[p].at <= clearances'[p].at
  <2>1. clearances[p] \in Clearance /\ clearances[p].at \in Nat
    BY <1>15, ClearanceFields DEF LedgerTypeOK
  <2>2. CASE \E i \in 1..k : rs[i].phone = p
    <3>1. PICK i \in 1..k : rs[i].phone = p
      BY <2>2
    <3>2. clearances'[p] = rs[i] /\ Replaces(clearances[p], rs[i]) /\ rs[i].at \in Nat
      BY <1>1, <1>3, <1>15, <3>1, ClearanceFields DEF k, Supersedes
    <3> QED BY <1>3, <2>1, <3>2 DEF Replaces
  <2>3. CASE \A i \in 1..k : rs[i].phone # p
    BY <1>1, <1>15, <2>1, <2>3 DEF k
  <2> QED BY <2>2, <2>3
<1>16. RowsBeforeQueue' /\ QueueInOrder'
  BY <1>1, <1>2, <1>8, <1>9 DEF RowsBeforeQueue, QueueInOrder
<1>17. NoneAfterForce' /\ ForceIsRecorded'
  BY <1>1, <1>13, <1>14 DEF NoneAfterForce, ForceIsRecorded
<1> QED BY <1>7, <1>15, <1>16, <1>17, OrderParts

LEMMA RestartKeepsOrder ==
  ASSUME LedgerTypeOK, ResultsInOrder, Restart
  PROVE  ResultsInOrder'
<1>1. Reads(lastOptOut', consents', clearances', consentRows, clearanceRows)
  BY Zenon DEF Restart
<1>2. queue' = <<>> /\ now' = now /\ clearanceRows' = clearanceRows
  BY DEF Restart, tables
<1>3. ToSet(queue') = {} /\ DOMAIN queue' = {}
  BY <1>2 DEF ToSet
<1>4. \A p \in Phones : LastRow(clearances'[p], clearanceRows, p)
  BY <1>1, Zenon DEF Reads
<1>5. /\ \A i \in DOMAIN clearanceRows : /\ clearanceRows[i] \in Clearance /\ clearanceRows[i].at <= now
                                         /\ clearanceRows[i].phone \in Phones /\ i \in Nat
      /\ \A r \in ToSet(clearanceRows) : \E i \in DOMAIN clearanceRows : r = clearanceRows[i]
      /\ \A i \in DOMAIN clearanceRows : clearanceRows[i] \in ToSet(clearanceRows)
  <2>1. \A i \in DOMAIN clearanceRows : clearanceRows[i] \in Clearance /\ i \in Nat
    BY DEF LedgerTypeOK
  <2>2. \A i \in DOMAIN clearanceRows : clearanceRows[i] \in ToSet(clearanceRows)
    BY DEF ToSet
  <2>3. \A r \in ToSet(clearanceRows) : \E i \in DOMAIN clearanceRows : r = clearanceRows[i]
    BY DEF ToSet
  <2> QED BY <2>1, <2>2, <2>3, ClearanceFields DEF ResultsInOrder
<1>6. ASSUME NEW i \in DOMAIN clearanceRows
      PROVE  /\ clearances'[clearanceRows[i].phone] # None
             /\ Replaces(clearanceRows[i], clearances'[clearanceRows[i].phone])
  <2>1. PICK j \in DOMAIN clearanceRows :
          /\ clearanceRows[j].phone = clearanceRows[i].phone
          /\ clearances'[clearanceRows[i].phone] = clearanceRows[j] /\ i <= j
    BY <1>4, <1>5, Zenon DEF LastRow
  <2>2. CASE i = j
    BY <1>5, <2>1, <2>2, ReplacesItself, ClearanceFields
  <2>3. CASE i < j
    BY <1>5, <2>1, <2>3, ClearanceFields DEF ResultsInOrder
  <2> QED BY <1>5, <2>1, <2>2, <2>3
<1>7. ASSUME NEW p \in Phones, clearances'[p] # None
      PROVE  clearances'[p].phone = p /\ clearances'[p].at <= now /\ clearances'[p] \in ToSet(clearanceRows)
  <2>1. PICK i \in DOMAIN clearanceRows : clearanceRows[i].phone = p /\ clearances'[p] = clearanceRows[i]
    BY <1>4, <1>7, Zenon DEF LastRow
  <2> QED BY <1>5, <2>1
<1>8. RowsInOrder' /\ RowsBeforeQueue' /\ QueueInOrder'
  BY <1>2, <1>3 DEF ResultsInOrder, RowsInOrder, RowsBeforeQueue, QueueInOrder
<1>9. NoneAfterForce' /\ ForceIsRecorded'
  BY <1>2, <1>3, <1>5, <1>6, <1>7 DEF NoneAfterForce, ForceIsRecorded
<1> QED BY <1>8, <1>9, OrderParts

LEMMA OrderStep ==
  ASSUME LedgerTypeOK, ResultsInOrder,
         UNCHANGED ledger \/ Ticks \/ Commit \/ StoreFails \/ EntersConsent \/ EntersResults \/ Restart
  PROVE  ResultsInOrder'
<1>1. CASE UNCHANGED ledger
  BY <1>1 DEF ledger, cache, tables, ResultsInOrder
<1>2. CASE Ticks
  <2>1. now' = now + 1 /\ UNCHANGED <<clearances, clearanceRows, queue, storeOk>>
    BY <1>2 DEF Ticks, cache, tables
  <2>2. \A r \in Clearance : r.at <= now => r.at <= now + 1
    BY RecordsElsewhere, ClearanceFields
  <2>3. RowsInOrder' /\ RowsBeforeQueue' /\ QueueInOrder'
    BY <2>1 DEF ResultsInOrder, RowsInOrder, RowsBeforeQueue, QueueInOrder
  <2>4. NoneAfterForce' /\ ForceIsRecorded'
    BY <2>1, <2>2, RecordsElsewhere DEF ResultsInOrder, NoneAfterForce, ForceIsRecorded
  <2> QED BY <2>3, <2>4, OrderParts
<1>3. CASE StoreFails
  <2>1. queue' = <<>> /\ storeOk' = FALSE /\ UNCHANGED <<now, clearances, clearanceRows>>
    BY <1>3 DEF StoreFails, cache, tables
  <2>2. ToSet(queue') = {} /\ DOMAIN queue' = {}
    BY <2>1 DEF ToSet
  <2>3. RowsInOrder' /\ RowsBeforeQueue' /\ QueueInOrder'
    BY <2>1, <2>2 DEF ResultsInOrder, RowsInOrder, RowsBeforeQueue, QueueInOrder
  <2>4. NoneAfterForce' /\ ForceIsRecorded'
    BY <2>1, <2>2 DEF ResultsInOrder, NoneAfterForce, ForceIsRecorded
  <2> QED BY <2>3, <2>4, OrderParts
<1> QED BY <1>1, <1>2, <1>3, CommitOrders, ConsentKeepsOrder, ResultsKeepOrder, RestartKeepsOrder

-----------------------------------------------------------------------------
(* The runs. *)

LEMMA RunTypes ==
  ASSUME TypeOK, asked # <<>>
  PROVE  /\ Run \in Ask /\ Run.maxCredits \in Nat /\ Run.phones \in Lists
         /\ Tail(asked) \in Seq(Ask) /\ submitted \in Nat
<1>1. asked \in Seq(Ask) /\ submitted \in 0..Cardinality(Singapore)
  BY DEF TypeOK, CheckerTypeOK
<1>2. Cardinality(Singapore) \in Nat
  BY FiniteNumbers, FS_CardinalityType DEF TypeOK
<1>3. Run \in Ask /\ Tail(asked) \in Seq(Ask)
  BY <1>1 DEF Run
<1> QED BY <1>1, <1>2, <1>3 DEF Ask

LEMMA NeedsIsFinite ==
  ASSUME NEW P
  PROVE  /\ Needs(P) \subseteq Singapore /\ Needs(P) \subseteq P
         /\ IsFiniteSet(Needs(P)) /\ Cardinality(Needs(P)) \in Nat
         /\ Cardinality(Needs(P)) <= Cardinality(Singapore) /\ Cardinality(Singapore) \in Nat
<1>1. Needs(P) \subseteq Singapore /\ Needs(P) \subseteq P
  BY DEF Needs
<1>2. IsFiniteSet(Singapore)
  BY FS_Subset, PhonesAssumption
<1> QED BY <1>1, <1>2, FS_Subset, FS_CardinalityType

\* What a run can still spend: neither the numbers left nor a batch add to it.
LEMMA BatchCosts ==
  ASSUME TypeOK, NEW B \in SUBSET todo
  PROVE  /\ Cardinality(todo) \in Nat /\ Cardinality(todo \ B) \in Nat /\ Cardinality(StillNeeded(B)) \in Nat
         /\ Cardinality(StillNeeded(B)) + Cardinality(todo \ B) <= Cardinality(todo)
<1>1. IsFiniteSet(todo) /\ IsFiniteSet(B) /\ IsFiniteSet(todo \ B)
  BY FiniteNumbers, FS_Subset DEF TypeOK
<1>2. /\ IsFiniteSet(StillNeeded(B)) /\ StillNeeded(B) \subseteq B
      /\ Cardinality(StillNeeded(B)) <= Cardinality(B)
  BY <1>1, NeedsIsFinite, FS_Subset DEF StillNeeded
<1>3. B \union (todo \ B) = todo /\ B \cap (todo \ B) = {} /\ Cardinality({}) = 0
  BY FS_EmptySet
<1>4. Cardinality(B \union (todo \ B)) = Cardinality(B) + Cardinality(todo \ B) - Cardinality(B \cap (todo \ B))
  BY <1>1, FS_Union
<1>5. /\ Cardinality(todo) \in Nat /\ Cardinality(todo \ B) \in Nat
      /\ Cardinality(B) \in Nat /\ Cardinality(StillNeeded(B)) \in Nat
  BY <1>1, <1>2, FS_CardinalityType
<1> HIDE <1>1, <1>2
<1>6. Cardinality(todo) = Cardinality(B) + Cardinality(todo \ B)
  BY <1>3, <1>4, <1>5
<1> QED BY <1>2, <1>5, <1>6

LEMMA EndsWell ==
  ASSUME TypeOK, Ends, asked # <<>>, UNCHANGED <<asks, reported>>
  PROVE  /\ CheckerTypeOK' /\ pc' = "flush" /\ submitted' = 0 /\ todo' = {} /\ batch' = {}
<1>1. asked' \in Seq(Ask)
  BY RunTypes DEF Ends
<1>2. 0 \in 0..Cardinality(Singapore)
  BY NeedsIsFinite
<1> QED BY <1>1, <1>2 DEF Ends, CheckerTypeOK, TypeOK

LEMMA CheckerTypeStep ==
  ASSUME TypeOK, RunInv, [Next]_vars
  PROVE  CheckerTypeOK'
<1> USE DEF TypeOK
<1>1. CASE UNCHANGED checker
  BY <1>1 DEF checker, CheckerTypeOK
<1>2. ASSUME NEW P \in Lists, ScrubPhones(P) PROVE CheckerTypeOK'
  <2>1. PICK n : n \in Nat /\ asked' = Append(asked, [phones |-> P, maxCredits |-> n])
    BY <1>2, NeedsIsFinite DEF ScrubPhones
  <2>2. asked' \in Seq(Ask)
    BY <2>1 DEF CheckerTypeOK, Ask
  <2>3. asks' \in 0..MaxAsks
    BY <1>2, BatchAssumption DEF ScrubPhones, CheckerTypeOK
  <2> QED BY <1>2, <2>2, <2>3 DEF ScrubPhones, CheckerTypeOK
<1>3. CASE RunPreviews
  <2>1. asked # <<>> /\ UNCHANGED <<asks, reported>>
    BY <1>3 DEF RunPreviews
  <2>2. CASE Needs(Run.phones) # {} /\ WithinCredits(Needs(Run.phones))
    <3>1. pc' = "batching" /\ todo' = Needs(Run.phones) /\ UNCHANGED <<asked, batch, submitted, asks, reported>>
      BY <1>3, <2>2, Zenon DEF RunPreviews
    <3> QED BY <3>1, NeedsIsFinite DEF CheckerTypeOK
  <2>3. CASE ~(Needs(Run.phones) # {} /\ WithinCredits(Needs(Run.phones)))
    <3>1. Ends
      BY <1>3, <2>3, Zenon DEF RunPreviews
    <3> QED BY <2>1, <3>1, EndsWell
  <2> QED BY <2>2, <2>3
<1>4. ASSUME NEW B \in SUBSET todo, SubmitsBatch(B) PROVE CheckerTypeOK'
  <2>1. asked # <<>> /\ UNCHANGED <<asks, reported>>
    BY <1>4 DEF SubmitsBatch, RunInv
  <2>2. CASE B = todo /\ StillNeeded(B) = {}
    <3>1. Ends
      BY <1>4, <2>2, Zenon DEF SubmitsBatch
    <3> QED BY <2>1, <3>1, EndsWell
  <2>3. CASE ~(B = todo /\ StillNeeded(B) = {})
    <3>1. /\ todo' = todo \ B /\ batch' = StillNeeded(B)
          /\ submitted' = submitted + Cardinality(StillNeeded(B))
          /\ pc' = IF StillNeeded(B) = {} THEN "batching" ELSE "gateway"
          /\ asked' = asked
      BY <1>4, <2>3, Zenon DEF SubmitsBatch
    <3>2. batch' \in SUBSET Singapore
      BY <3>1, NeedsIsFinite DEF StillNeeded
    <3>3. submitted' \in 0..Cardinality(Singapore)
      <4>1. submitted + Cardinality(todo) <= Cardinality(Singapore)
        BY DEF RunInv
      <4>2. submitted \in Nat /\ Cardinality(Singapore) \in Nat
        BY <2>1, RunTypes, NeedsIsFinite
      <4>3. /\ Cardinality(todo) \in Nat /\ Cardinality(todo \ B) \in Nat /\ Cardinality(StillNeeded(B)) \in Nat
            /\ Cardinality(StillNeeded(B)) + Cardinality(todo \ B) <= Cardinality(todo)
        BY BatchCosts
      <4>4. submitted' = submitted + Cardinality(StillNeeded(B))
        BY <3>1
      <4> QED BY <4>1, <4>2, <4>3, <4>4
    <3>4. asked' \in Seq(Ask) /\ todo' \in SUBSET Singapore
      BY <3>1 DEF CheckerTypeOK
    <3> QED BY <2>1, <3>1, <3>2, <3>3, <3>4 DEF CheckerTypeOK
  <2> QED BY <2>2, <2>3
<1>5. ASSUME NEW listed \in SUBSET batch, ReplyIsSaved(listed) PROVE CheckerTypeOK'
  BY <1>5 DEF ReplyIsSaved, CheckerTypeOK
<1>6. CASE NoReply \/ \E listed \in SUBSET batch : ReplyIsDropped(listed)
  <2>1. asked # <<>> /\ Ends /\ UNCHANGED <<asks, reported>>
    BY <1>6 DEF NoReply, ReplyIsDropped, RunInv
  <2> QED BY <2>1, EndsWell
<1>7. CASE EvidenceSaved
  <2>1. asked # <<>>
    BY <1>7 DEF EvidenceSaved, RunInv
  <2>2. reported' \in [Phones -> TimeOrNone]
    <3>1. reported' = [p \in Phones |-> IF p \in batch THEN clearances[p].at ELSE reported[p]]
      BY <1>7 DEF EvidenceSaved
    <3>2. \A p \in batch : p \in Phones /\ clearances[p] \in Clearance
      BY <1>7 DEF EvidenceSaved, RunInv, CheckerTypeOK, LedgerTypeOK
    <3>3. \A p \in batch : clearances[p].at \in Times
      BY <3>2 DEF Clearance
    <3> QED BY <3>1, <3>3 DEF CheckerTypeOK, TimeOrNone
  <2>3. CASE todo = {}
    <3>1. Ends /\ UNCHANGED asks
      BY <1>7, <2>3 DEF EvidenceSaved
    <3>2. asked' \in Seq(Ask) /\ 0 \in 0..Cardinality(Singapore)
      BY <2>1, <3>1, RunTypes, NeedsIsFinite DEF Ends
    <3> QED BY <2>2, <3>1, <3>2 DEF Ends, CheckerTypeOK
  <2>4. CASE todo # {}
    BY <1>7, <2>2, <2>4 DEF EvidenceSaved, CheckerTypeOK
  <2> QED BY <2>3, <2>4
<1>8. CASE RunFails
  BY <1>8, EndsWell DEF RunFails
<1>9. CASE ProcessRestarts
  <2>1. asked' \in Seq(Ask) /\ 0 \in 0..Cardinality(Singapore)
    BY <1>9, NeedsIsFinite DEF ProcessRestarts
  <2> QED BY <1>9, <2>1 DEF ProcessRestarts, CheckerTypeOK
<1>10. CASE EvidenceStep
  BY <1>1, <1>10 DEF EvidenceStep
<1>11. CASE RunStep
  BY <1>3, <1>4, <1>5, <1>6, <1>7, <1>8, <1>11, Zenon DEF RunStep
<1>12. CASE UNCHANGED vars
  BY <1>1, <1>12 DEF vars
<1> QED BY <1>2, <1>9, <1>10, <1>11, <1>12, Zenon DEF Next

LEMMA RunAtRest ==
  ASSUME TypeOK, asked' \in Seq(Ask),
         pc' = "flush", todo' = {}, batch' = {}, submitted' = 0
  PROVE  RunInv'
<1>1. Cardinality(todo') = 0 /\ Cardinality(Singapore) \in Nat
  BY FS_EmptySet, NeedsIsFinite
<1>2. asked' # <<>> => Run'.maxCredits \in Nat
  <2> SUFFICES ASSUME asked' # <<>> PROVE Run'.maxCredits \in Nat
    OBVIOUS
  <2>1. Head(asked') \in Ask
    OBVIOUS
  <2> QED BY <2>1 DEF Run, Ask
<1> QED BY <1>1, <1>2 DEF RunInv

LEMMA RunStep_RunInv ==
  ASSUME TypeOK, ResultsInOrder, RunInv, [Next]_vars
  PROVE  RunInv'
<1>1. ASSUME asked' = asked, UNCHANGED <<pc, todo, batch, submitted>>,
             pc = "evidence" => \A p \in batch : clearances'[p] # None
      PROVE  RunInv'
  BY <1>1 DEF RunInv, Run
<1>2. asked # <<>> => Tail(asked) \in Seq(Ask)
  BY RunTypes
<1>3. ASSUME EntersResults \/ EntersConsent \/ Ticks \/ Commit \/ StoreFails \/ UNCHANGED clearances
      PROVE  pc = "evidence" => \A p \in batch : clearances'[p] # None
  <2>1. batch \subseteq Phones
    BY DEF TypeOK, CheckerTypeOK
  <2>2. CASE EntersResults
    BY <2>1, <2>2, ResultsKeepOrder DEF RunInv, TypeOK
  <2>3. CASE ~EntersResults
    <3>1. UNCHANGED clearances
      BY <1>3, <2>3, Zenon DEF EntersConsent, SavesConsent, Ticks, Commit, StoreFails, cache
    <3> QED BY <3>1 DEF RunInv
  <2> QED BY <2>2, <2>3
<1>4. ASSUME NEW P \in Lists, ScrubPhones(P) PROVE RunInv'
  <2>1. asked' \in Seq(Ask) /\ UNCHANGED <<ledger, pc, todo, batch, submitted>>
    BY <1>4, CheckerTypeStep DEF ScrubPhones, Next, CheckerTypeOK
  <2>2. CASE asked = <<>>
    <3>1. pc = "flush" /\ todo = {} /\ batch = {} /\ submitted = 0
      BY <2>2, Zenon DEF RunInv
    <3> QED BY <2>1, <3>1, RunAtRest
  <2>3. CASE asked # <<>>
    <3>1. PICK a : asked' = Append(asked, a)
      BY <1>4, Zenon DEF ScrubPhones
    <3>2. asked' # <<>> /\ Head(asked') = Head(asked)
      BY <2>3, <3>1 DEF TypeOK, CheckerTypeOK
    <3>3. Run' = Run
      BY <3>2 DEF Run
    <3>4. UNCHANGED clearances
      BY <2>1 DEF ledger, cache
    <3> QED BY <2>1, <2>3, <3>2, <3>3, <3>4 DEF RunInv
  <2> QED BY <2>2, <2>3
<1>5. ASSUME Ends, asked # <<>> PROVE RunInv'
  BY <1>2, <1>5, RunAtRest DEF Ends
<1>6. CASE RunPreviews
  <2>1. asked # <<>> /\ pc = "flush" /\ UNCHANGED clearances
    BY <1>6 DEF RunPreviews, ledger, cache
  <2>2. CASE Needs(Run.phones) # {} /\ WithinCredits(Needs(Run.phones))
    <3>1. pc' = "batching" /\ todo' = Needs(Run.phones) /\ UNCHANGED <<asked, batch, submitted>>
      BY <1>6, <2>2, Zenon DEF RunPreviews
    <3>2. submitted = 0
      BY <2>1, Zenon DEF RunInv
    <3>3. /\ Cardinality(todo') \in Nat /\ Cardinality(todo') <= Cardinality(Singapore)
          /\ Cardinality(todo') <= Run.maxCredits
      BY <2>2, <3>1, NeedsIsFinite DEF WithinCredits
    <3>4. Run' = Run
      BY <3>1 DEF Run
    <3> QED BY <2>1, <3>1, <3>2, <3>3, <3>4 DEF RunInv
  <2>3. CASE ~(Needs(Run.phones) # {} /\ WithinCredits(Needs(Run.phones)))
    <3>1. Ends
      BY <1>6, <2>3, Zenon DEF RunPreviews
    <3> QED BY <1>5, <2>1, <3>1
  <2> QED BY <2>2, <2>3
<1>7. ASSUME NEW B \in SUBSET todo, SubmitsBatch(B) PROVE RunInv'
  <2>1. asked # <<>>
    BY <1>7 DEF SubmitsBatch, RunInv
  <2>2. CASE B = todo /\ StillNeeded(B) = {}
    <3>1. Ends
      BY <1>7, <2>2, Zenon DEF SubmitsBatch
    <3> QED BY <1>5, <2>1, <3>1
  <2>3. CASE ~(B = todo /\ StillNeeded(B) = {})
    <3>1. /\ todo' = todo \ B /\ submitted' = submitted + Cardinality(StillNeeded(B)) /\ asked' = asked
          /\ pc' # "flush" /\ pc' # "evidence"
      BY <1>7, <2>3 DEF SubmitsBatch
    <3>2. submitted + Cardinality(todo) <= Cardinality(Singapore) /\ submitted + Cardinality(todo) <= Run.maxCredits
      BY <2>1, Zenon DEF RunInv
    <3>3. submitted \in Nat /\ Run.maxCredits \in Nat /\ Cardinality(Singapore) \in Nat
      BY <2>1, RunTypes, NeedsIsFinite
    <3>4. /\ Cardinality(todo) \in Nat /\ Cardinality(todo \ B) \in Nat /\ Cardinality(StillNeeded(B)) \in Nat
          /\ Cardinality(StillNeeded(B)) + Cardinality(todo \ B) <= Cardinality(todo)
      BY BatchCosts
    <3>5. submitted' + Cardinality(todo') <= Cardinality(Singapore) /\ submitted' + Cardinality(todo') <= Run.maxCredits
      BY <3>1, <3>2, <3>3, <3>4
    <3>6. Run' = Run
      BY <3>1 DEF Run
    <3> QED BY <2>1, <3>1, <3>5, <3>6 DEF RunInv
  <2> QED BY <2>2, <2>3
<1>8. ASSUME NEW listed \in SUBSET batch, ReplyIsSaved(listed) PROVE RunInv'
  <2>1. \A p \in batch : clearances'[p] # None
    BY <1>8, ReplyResults, FiniteNumbers DEF TypeOK
  <2>2. pc = "gateway" /\ pc' = "evidence" /\ UNCHANGED <<asked, todo, batch, submitted>>
    BY <1>8 DEF ReplyIsSaved
  <2>3. asked # <<>>
    BY <2>2 DEF RunInv
  <2> QED BY <2>1, <2>2, <2>3 DEF RunInv, Run
<1>9. CASE NoReply \/ \E listed \in SUBSET batch : ReplyIsDropped(listed)
  <2>1. asked # <<>> /\ Ends
    BY <1>9 DEF NoReply, ReplyIsDropped, RunInv
  <2> QED BY <1>5, <2>1
<1>10. CASE EvidenceSaved
  <2>1. asked # <<>>
    BY <1>10 DEF EvidenceSaved, RunInv
  <2>2. CASE todo = {}
    BY <1>5, <1>10, <2>1, <2>2 DEF EvidenceSaved
  <2>3. CASE todo # {}
    <3>1. pc' = "batching" /\ UNCHANGED <<asked, todo, submitted>>
      BY <1>10, <2>3 DEF EvidenceSaved
    <3> QED BY <2>1, <3>1 DEF RunInv, Run
  <2> QED BY <2>2, <2>3
<1>11. CASE RunFails
  BY <1>5, <1>11 DEF RunFails
<1>12. CASE ProcessRestarts
  <2>1. asked' \in Seq(Ask)
    BY <1>12 DEF ProcessRestarts
  <2> QED BY <1>12, <2>1, RunAtRest DEF ProcessRestarts
<1>13. CASE EvidenceStep
  <2>1. UNCHANGED checker
    BY <1>13 DEF EvidenceStep
  <2>2. EntersResults \/ EntersConsent \/ Ticks \/ Commit \/ StoreFails \/ UNCHANGED clearances
    <3>1. CASE \E p \in Subjects, t \in Times, cleared \in BOOLEAN : RecordClearance(p, t, cleared)
      BY <3>1, EnteredResult DEF TypeOK
    <3>2. CASE \E p \in Subjects : RecordOptOut(p) \/ \E t \in Times : RecordConsent(p, t)
      BY <3>2, Zenon DEF RecordOptOut, RecordConsent, SavesConsent
    <3> QED BY <1>13, <3>1, <3>2, Zenon DEF EvidenceStep
  <2> QED BY <1>1, <1>3, <2>1, <2>2 DEF checker
<1>14. CASE RunStep
  BY <1>6, <1>7, <1>8, <1>9, <1>10, <1>11, <1>14, Zenon DEF RunStep
<1>15. CASE UNCHANGED vars
  <2>1. UNCHANGED checker /\ UNCHANGED clearances
    BY <1>15 DEF vars, ledger, cache
  <2> QED BY <1>1, <1>3, <2>1 DEF checker
<1> QED BY <1>4, <1>12, <1>13, <1>14, <1>15, Zenon DEF Next

-----------------------------------------------------------------------------
(* What was reported is on record and in force. *)

LEMMA RowsGrow ==
  ASSUME TypeOK, OptOutsRemembered, [Next]_vars, NEW i \in DOMAIN clearanceRows
  PROVE  i \in DOMAIN clearanceRows' /\ clearanceRows'[i] = clearanceRows[i]
<1>1. CASE clearanceRows' = clearanceRows
  BY <1>1
<1>2. CASE Commit
  <2>1. \/ clearanceRows' = clearanceRows
        \/ Head(queue) \notin Consent /\ clearanceRows' = Append(clearanceRows, Head(queue))
    BY <1>2, Zenon DEF Commit
  <2>2. Head(queue) \in Consent \union Clearance
    BY <1>2, ToSetOfTail DEF Commit, TypeOK, LedgerTypeOK
  <2>3. clearanceRows \in Seq(Clearance)
    BY DEF TypeOK, LedgerTypeOK
  <2> QED BY <2>1, <2>2, <2>3
<1>3. UNCHANGED ledger \/ Ticks \/ StoreFails \/ EntersConsent \/ EntersResults \/ Restart => clearanceRows' = clearanceRows
  BY Zenon DEF ledger, Ticks, StoreFails, EntersConsent, EntersResults, Restart, tables
<1> QED BY <1>1, <1>2, <1>3, EvidenceMoves, Zenon

\* Only EvidenceSaved reports, and what it reports is in force and committed.
LEMMA ReportStep ==
  ASSUME TypeOK, RunInv, ResultsInOrder, [Next]_vars
  PROVE  \/ reported' = reported
         \/ /\ UNCHANGED ledger
            /\ \A p \in Phones : reported'[p] # reported[p] =>
                 /\ clearances[p] # None /\ reported'[p] = clearances[p].at
                 /\ clearances[p].phone = p /\ clearances[p] \in ToSet(clearanceRows)
<1>1. CASE EvidenceSaved
  <2>1. /\ pc = "evidence" /\ storeOk /\ queue = <<>> /\ UNCHANGED ledger
        /\ reported' = [p \in Phones |-> IF p \in batch THEN clearances[p].at ELSE reported[p]]
    BY <1>1 DEF EvidenceSaved, Flushed
  <2>2. ToSet(queue) = {}
    BY <2>1 DEF ToSet
  <2>3. \A p \in batch : clearances[p] # None
    BY <2>1 DEF RunInv
  <2> QED BY <2>1, <2>2, <2>3 DEF ResultsInOrder
<1>2. CASE RunStep /\ ~EvidenceSaved
  BY <1>2, Zenon DEF RunStep, RunPreviews, NoReply, RunFails, SubmitsBatch, ReplyIsSaved, ReplyIsDropped
<1>3. CASE EvidenceStep \/ ProcessRestarts \/ \E P \in Lists : ScrubPhones(P)
  BY <1>3 DEF EvidenceStep, checker, ProcessRestarts, ScrubPhones
<1>4. CASE UNCHANGED vars
  BY <1>4 DEF vars, checker
<1> QED BY <1>1, <1>2, <1>3, <1>4, Zenon DEF Next

LEMMA OnRecordStep ==
  ASSUME TypeOK, OptOutsRemembered, ResultsInOrder, RunInv, ReportedIsOnRecord, [Next]_vars
  PROVE  ReportedIsOnRecord'
<1> SUFFICES ASSUME NEW p \in Phones, reported'[p] # None
             PROVE  \E i \in DOMAIN clearanceRows' :
                      clearanceRows'[i].phone = p /\ clearanceRows'[i].at >= reported'[p]
  BY DEF ReportedIsOnRecord
<1>1. CASE reported'[p] = reported[p]
  BY <1>1, RowsGrow DEF ReportedIsOnRecord
<1>2. CASE reported'[p] # reported[p]
  <2>1. /\ clearances[p] # None /\ reported'[p] = clearances[p].at
        /\ clearances[p].phone = p /\ clearances[p] \in ToSet(clearanceRows)
    BY <1>2, ReportStep
  <2>2. PICK i \in DOMAIN clearanceRows : clearanceRows[i] = clearances[p]
    BY <2>1 DEF ToSet
  <2>3. clearances[p].at \in Nat
    BY <2>1, RecordsElsewhere, ClearanceFields DEF TypeOK
  <2> QED BY <2>1, <2>2, <2>3, RowsGrow
<1> QED BY <1>1, <1>2

LEMMA InForceStep ==
  ASSUME TypeOK, OptOutsRemembered, ResultsInOrder, RunInv, ReportsInForce, ReportedIsOnRecord, [Next]_vars
  PROVE  ReportsInForce'
<1> SUFFICES ASSUME NEW p \in Phones, reported'[p] # None
             PROVE  clearances'[p] # None /\ reported'[p] <= clearances'[p].at
  BY DEF ReportsInForce
<1>1. CASE reported' # reported
  <2>1. UNCHANGED clearances
    BY <1>1, ReportStep DEF ledger, cache
  <2>2. CASE reported'[p] # reported[p]
    <3>1. clearances[p] # None /\ reported'[p] = clearances[p].at
      BY <1>1, <2>2, ReportStep
    <3>2. clearances[p].at \in Nat
      BY <3>1, RecordsElsewhere, ClearanceFields DEF TypeOK
    <3> QED BY <2>1, <3>1, <3>2
  <2>3. CASE reported'[p] = reported[p]
    BY <2>1, <2>3 DEF ReportsInForce
  <2> QED BY <2>2, <2>3
<1>2. CASE reported' = reported
  <2>1. clearances[p] # None /\ reported[p] <= clearances[p].at /\ reported[p] \in Nat /\ reported'[p] # None
    BY <1>2 DEF ReportsInForce, TypeOK, CheckerTypeOK, TimeOrNone, Times
  <2>2. clearances[p].at \in Nat
    BY <2>1, RecordsElsewhere, ClearanceFields DEF TypeOK
  <2>3. CASE UNCHANGED clearances
    BY <1>2, <2>1, <2>3
  <2>4. CASE EntersResults
    <3>1. clearances'[p] # None /\ clearances[p].at <= clearances'[p].at
      BY <2>1, <2>4, ResultsKeepOrder DEF TypeOK
    <3>2. clearances'[p] \in Clearance \union {None}
      BY <2>4, Zenon DEF EntersResults
    <3> QED BY <1>2, <2>1, <2>2, <3>1, <3>2, ClearanceFields
  <2>5. CASE Restart
    <3>1. PICK i \in DOMAIN clearanceRows : clearanceRows[i].phone = p /\ clearanceRows[i].at >= reported[p]
      BY <2>1, <1>2 DEF ReportedIsOnRecord
    <3>2. ResultsInOrder' /\ clearanceRows' = clearanceRows /\ clearanceRows[i] \in ToSet(clearanceRows)
      BY <2>5, RestartKeepsOrder DEF TypeOK, Restart, tables, ToSet
    <3>3. clearanceRows[i] \in Clearance
      BY DEF TypeOK, LedgerTypeOK
    <3>4. clearances'[p] # None /\ Replaces(clearanceRows[i], clearances'[p])
      BY <3>1, <3>2, <3>3 DEF ResultsInOrder
    <3>5. clearances'[p] \in Clearance \union {None}
      BY <2>5, RestartReads DEF TypeOK
    <3>6. clearanceRows[i].at \in Nat /\ clearances'[p].at \in Nat
      BY <3>3, <3>4, <3>5, ClearanceFields
    <3>7. clearanceRows[i].at <= clearances'[p].at
      BY <3>4, <3>6 DEF Replaces
    <3> QED BY <1>2, <2>1, <3>1, <3>4, <3>6, <3>7
  <2>6. UNCHANGED ledger \/ Ticks \/ Commit \/ StoreFails \/ EntersConsent => UNCHANGED clearances
    BY Zenon DEF ledger, Ticks, Commit, StoreFails, EntersConsent, SavesConsent, cache
  <2> QED BY <2>3, <2>4, <2>5, <2>6, EvidenceMoves, Zenon
<1> QED BY <1>1, <1>2

-----------------------------------------------------------------------------
(* What a restart reads. *)

\* The rows of R come back in S, in the same order, at the places that f names.
Moves(f, R, S) ==
  /\ \A i \in DOMAIN R : f[i] \in DOMAIN S /\ S[f[i]] = R[i]
  /\ \A j \in DOMAIN S : \E i \in DOMAIN R : f[i] = j
  /\ \A i, j \in DOMAIN R : i <= j => f[i] <= f[j]

\* S has the rows of R, and those of rs behind them.
GrownBy(R, S, top, rs) ==
  /\ DOMAIN S = DOMAIN R \union {top + j : j \in 1..Len(rs)}
  /\ \A i \in DOMAIN R : i \in Nat /\ i <= top /\ S[i] = R[i]
  /\ \A j \in 1..Len(rs) : S[top + j] = rs[j]

\* What a restart reads of one number.
ReadsOf(o, c, d, R, Q, p) ==
  /\ IsLastOptOut(o, R, p)
  /\ \E last : LastRow(last, R, p) /\ c = InForce(last, o)
  /\ LastRow(d, Q, p)

\* IsLastOptOut by the position of the row.
OwnOptOut(rows, i, p) == rows[i].phone = p /\ rows[i].revokedAt # None
NotAfter(rows, j, i) ==
  rows[j].revokedAt < rows[i].revokedAt \/ (rows[j].revokedAt = rows[i].revokedAt /\ j <= i)

LEMMA LastOptOutRow ==
  ASSUME NEW o, NEW rows, NEW p
  PROVE  IsLastOptOut(o, rows, p) <=>
           \/ o = None /\ \A i \in DOMAIN rows : ~OwnOptOut(rows, i, p)
           \/ \E i \in DOMAIN rows :
                /\ OwnOptOut(rows, i, p) /\ o = rows[i]
                /\ \A j \in DOMAIN rows : OwnOptOut(rows, j, p) => NotAfter(rows, j, i)
  BY DEF IsLastOptOut, OwnOptOut, NotAfter

SameRows(R, S) == S = R

LEMMA MovedReads ==
  ASSUME NEW R, NEW S, NEW f, Moves(f, R, S), NEW p
  PROVE  \A r : /\ LastRow(r, R, p) => LastRow(r, S, p)
                /\ IsLastOptOut(r, R, p) => IsLastOptOut(r, S, p)
<1>1. \A i \in DOMAIN R : f[i] \in DOMAIN S /\ S[f[i]] = R[i]
  BY DEF Moves
<1>2. \A j \in DOMAIN S : \E i \in DOMAIN R : f[i] = j /\ S[j] = R[i]
  BY DEF Moves
<1>3. \A i, j \in DOMAIN R : i <= j => f[i] <= f[j]
  BY DEF Moves
<1>4. ASSUME NEW r, LastRow(r, R, p) PROVE LastRow(r, S, p)
  <2>1. CASE r = None /\ \A i \in DOMAIN R : R[i].phone # p
    BY <1>2, <2>1 DEF LastRow
  <2>2. CASE \E i \in DOMAIN R : R[i].phone = p /\ r = R[i] /\ \A j \in DOMAIN R : R[j].phone = p => j <= i
    BY <1>1, <1>2, <1>3, <2>2 DEF LastRow
  <2> QED BY <1>4, <2>1, <2>2, Zenon DEF LastRow
<1>5. ASSUME NEW r, IsLastOptOut(r, R, p) PROVE IsLastOptOut(r, S, p)
  <2>1. CASE r = None /\ \A i \in DOMAIN R : ~OwnOptOut(R, i, p)
    BY <1>2, <2>1 DEF IsLastOptOut, OwnOptOut
  <2>2. CASE \E i \in DOMAIN R :
               /\ OwnOptOut(R, i, p) /\ r = R[i]
               /\ \A j \in DOMAIN R : OwnOptOut(R, j, p) => NotAfter(R, j, i)
    <3>1. PICK i \in DOMAIN R :
            /\ OwnOptOut(R, i, p) /\ r = R[i]
            /\ \A j \in DOMAIN R : OwnOptOut(R, j, p) => NotAfter(R, j, i)
      BY <2>2
    <3>2. f[i] \in DOMAIN S /\ OwnOptOut(S, f[i], p) /\ r = S[f[i]]
      BY <1>1, <3>1 DEF OwnOptOut
    <3>3. ASSUME NEW k \in DOMAIN S, OwnOptOut(S, k, p) PROVE NotAfter(S, k, f[i])
      <4>1. PICK j \in DOMAIN R : f[j] = k /\ S[k] = R[j]
        BY <1>2
      <4>2. NotAfter(R, j, i)
        BY <3>1, <3>3, <4>1 DEF OwnOptOut
      <4> QED BY <1>1, <1>3, <4>1, <4>2, Zenon DEF NotAfter
    <3> QED BY <3>2, <3>3, LastOptOutRow
  <2> QED BY <1>5, <2>1, <2>2, LastOptOutRow
<1> QED BY <1>4, <1>5

LEMMA GrownReads ==
  ASSUME NEW R, NEW S, NEW top \in Nat, NEW rs, Len(rs) \in Nat, GrownBy(R, S, top, rs)
  PROVE  /\ \A p : (\A j \in 1..Len(rs) : rs[j].phone # p) =>
                \A r : /\ LastRow(r, R, p) => LastRow(r, S, p)
                       /\ IsLastOptOut(r, R, p) => IsLastOptOut(r, S, p)
         /\ (\A i, j \in 1..Len(rs) : i # j => rs[i].phone # rs[j].phone) =>
                \A j \in 1..Len(rs) : LastRow(rs[j], S, rs[j].phone)
<1>1. \A i \in DOMAIN S : i \in DOMAIN R \/ \E j \in 1..Len(rs) : i = top + j /\ S[i] = rs[j]
  BY DEF GrownBy
<1>2. ASSUME NEW p, \A j \in 1..Len(rs) : rs[j].phone # p, NEW r
      PROVE  /\ LastRow(r, R, p) => LastRow(r, S, p)
             /\ IsLastOptOut(r, R, p) => IsLastOptOut(r, S, p)
  <2>1. \A i : i \in DOMAIN S /\ S[i].phone = p <=> i \in DOMAIN R /\ R[i].phone = p
    BY <1>1, <1>2 DEF GrownBy
  <2>2. \A i \in DOMAIN R : S[i] = R[i]
    BY DEF GrownBy
  <2>3. LastRow(r, R, p) => LastRow(r, S, p)
    BY <2>1, <2>2 DEF LastRow
  <2>4. IsLastOptOut(r, R, p) => IsLastOptOut(r, S, p)
    BY <2>1, <2>2 DEF IsLastOptOut
  <2> QED BY <2>3, <2>4
<1>3. ASSUME \A i, j \in 1..Len(rs) : i # j => rs[i].phone # rs[j].phone, NEW j \in 1..Len(rs)
      PROVE  LastRow(rs[j], S, rs[j].phone)
  <2>1. top + j \in DOMAIN S /\ S[top + j] = rs[j]
    BY DEF GrownBy
  <2>2. ASSUME NEW i \in DOMAIN S, S[i].phone = rs[j].phone PROVE i <= top + j
    <3>1. CASE i \in DOMAIN R
      BY <3>1 DEF GrownBy
    <3>2. CASE \E k \in 1..Len(rs) : i = top + k /\ S[i] = rs[k]
      BY <1>3, <2>2, <3>2
    <3> QED BY <1>1, <3>1, <3>2
  <2> QED BY <2>1, <2>2 DEF LastRow
<1> QED BY <1>2, <1>3

\* One more row of the consent table.
LEMMA GrownOptOut ==
  ASSUME NEW R, NEW S, NEW top \in Nat, NEW r \in Consent, GrownBy(R, S, top, <<r>>),
         \A i \in DOMAIN R : R[i] \in Consent, NEW o \in Consent \union {None},
         IsLastOptOut(o, R, r.phone)
  PROVE  /\ IsLatestOptOut(r, o) => IsLastOptOut(r, S, r.phone)
         /\ ~IsLatestOptOut(r, o) => IsLastOptOut(o, S, r.phone)
<1>1. DOMAIN S = DOMAIN R \union {top + 1} /\ S[top + 1] = r
      /\ \A i \in DOMAIN R : i \in Nat /\ i <= top /\ S[i] = R[i]
  <2>1. Len(<<r>>) = 1 /\ <<r>>[1] = r
    OBVIOUS
  <2> QED BY <2>1 DEF GrownBy
<1>2. /\ r.revokedAt # None => r.revokedAt \in Nat
      /\ \A i \in DOMAIN R : R[i].revokedAt # None => R[i].revokedAt \in Nat
      /\ o # None => (o.revokedAt # None => o.revokedAt \in Nat)
  BY ConsentFields
<1>3. CASE o = None
  <2>1. \A i \in DOMAIN R : ~(R[i].phone = r.phone /\ R[i].revokedAt # None)
    <3>1. \A i \in DOMAIN R : R[i] # None
      BY ConsentFields
    <3> QED BY <1>3, <3>1, Zenon DEF IsLastOptOut
  <2>2. ASSUME r.revokedAt # None PROVE IsLastOptOut(r, S, r.phone)
    BY <1>1, <2>1, <2>2 DEF IsLastOptOut
  <2>3. ASSUME r.revokedAt = None PROVE IsLastOptOut(o, S, r.phone)
    BY <1>1, <1>3, <2>1, <2>3 DEF IsLastOptOut
  <2> QED BY <1>3, <2>2, <2>3 DEF IsLatestOptOut
<1>4. CASE o # None
  <2>1. PICK i \in DOMAIN R : /\ OwnOptOut(R, i, r.phone) /\ o = R[i]
                              /\ \A j \in DOMAIN R : OwnOptOut(R, j, r.phone) => NotAfter(R, j, i)
    BY <1>4, LastOptOutRow
  <2>2. o.revokedAt \in Nat /\ o.revokedAt # None /\ i \in Nat /\ i <= top
    BY <1>1, <1>2, <1>4, <2>1 DEF OwnOptOut
  <2>3. ASSUME r.revokedAt # None, r.revokedAt >= o.revokedAt PROVE IsLastOptOut(r, S, r.phone)
    <3>1. ASSUME NEW j \in DOMAIN S, OwnOptOut(S, j, r.phone) PROVE NotAfter(S, j, top + 1)
      <4>1. CASE j = top + 1
        BY <1>1, <1>2, <2>3, <4>1 DEF NotAfter
      <4>2. CASE j \in DOMAIN R
        <5>1. NotAfter(R, j, i) /\ R[j].revokedAt \in Nat
          BY <1>1, <1>2, <2>1, <3>1, <4>2 DEF OwnOptOut
        <5> QED BY <1>1, <1>2, <2>1, <2>2, <2>3, <4>2, <5>1 DEF NotAfter
      <4> QED BY <1>1, <4>1, <4>2
    <3>2. top + 1 \in DOMAIN S /\ OwnOptOut(S, top + 1, r.phone) /\ r = S[top + 1]
      BY <1>1, <2>3 DEF OwnOptOut
    <3> QED BY <3>1, <3>2, LastOptOutRow
  <2>4. ASSUME r.revokedAt = None \/ ~(r.revokedAt >= o.revokedAt) PROVE IsLastOptOut(o, S, r.phone)
    <3>1. ASSUME NEW j \in DOMAIN S, OwnOptOut(S, j, r.phone) PROVE NotAfter(S, j, i)
      <4>1. CASE j = top + 1
        BY <1>1, <1>2, <2>1, <2>2, <2>4, <3>1, <4>1 DEF NotAfter, OwnOptOut
      <4>2. CASE j \in DOMAIN R
        <5>1. NotAfter(R, j, i)
          BY <1>1, <2>1, <3>1, <4>2 DEF OwnOptOut
        <5> QED BY <1>1, <4>2, <5>1 DEF NotAfter
      <4> QED BY <1>1, <4>1, <4>2
    <3>2. i \in DOMAIN S /\ OwnOptOut(S, i, r.phone) /\ o = S[i]
      BY <1>1, <2>1 DEF OwnOptOut
    <3> QED BY <3>1, <3>2, LastOptOutRow
  <2> QED BY <1>4, <2>3, <2>4 DEF IsLatestOptOut
<1> QED BY <1>3, <1>4

\* C has the n rows, and the rows of the kind among the m that wait.
HasRows(C, rows, n, waiting, m, Kind) ==
  /\ DOMAIN C = 1..n \union {n + k : k \in {k \in 1..m : waiting[k] \in Kind}}
  /\ \A i \in 1..n : C[i] = rows[i]
  /\ \A k \in 1..m : waiting[k] \in Kind => C[n + k] = waiting[k]

LEMMA ComingRows ==
  ASSUME NEW T, NEW rows \in Seq(T), NEW waiting \in Seq(T), NEW Kind
  PROVE  HasRows(Coming(rows, waiting, Kind), rows, Len(rows), waiting, Len(waiting), Kind)
<1> DEFINE n == Len(rows)
           m == Len(waiting)
           D == 1..n \union {n + k : k \in {k \in 1..m : waiting[k] \in Kind}}
<1>1. n \in Nat /\ m \in Nat /\ DOMAIN rows = 1..n /\ DOMAIN waiting = 1..m
  OBVIOUS
<1>2. Coming(rows, waiting, Kind) = [i \in D |-> IF i \in 1..n THEN rows[i] ELSE waiting[i - n]]
  BY <1>1 DEF Coming
<1> HIDE DEF n, m
<1>3. ASSUME NEW k \in 1..m PROVE n + k \notin 1..n /\ (n + k) - n = k
  BY <1>1
<1> QED BY <1>2, <1>3 DEF HasRows, n, m

\* The oldest transaction is committed to the table: its rows to come stay what they were.
LEMMA ComingCommitted ==
  ASSUME NEW T, NEW rows \in Seq(T), NEW waiting \in Seq(T), waiting # <<>>, NEW Kind,
         Head(waiting) \in Kind
  PROVE  Coming(Append(rows, Head(waiting)), Tail(waiting), Kind) = Coming(rows, waiting, Kind)
<1> DEFINE n == Len(rows)
           m == Len(waiting)
           rows2 == Append(rows, Head(waiting))
           waiting2 == Tail(waiting)
           C == Coming(rows, waiting, Kind)
           C2 == Coming(rows2, waiting2, Kind)
           D == 1..n \union {n + k : k \in {k \in 1..m : waiting[k] \in Kind}}
           D2 == 1..(n+1) \union {n + 1 + k : k \in {k \in 1..(m-1) : waiting2[k] \in Kind}}
<1>1. n \in Nat /\ m \in Nat /\ m # 0 /\ Head(waiting) \in T /\ Head(waiting) = waiting[1]
  OBVIOUS
<1>2. /\ rows2 \in Seq(T) /\ Len(rows2) = n + 1 /\ rows2[n+1] = waiting[1] /\ \A i \in 1..n : rows2[i] = rows[i]
      /\ waiting2 \in Seq(T) /\ Len(waiting2) = m - 1 /\ \A k \in 1..(m-1) : waiting2[k] = waiting[k+1]
  BY <1>1
<1>3. HasRows(C, rows, n, waiting, m, Kind)
  BY ComingRows, Zenon
<1>4. HasRows(C2, rows2, n + 1, waiting2, m - 1, Kind)
  <2>1. HasRows(C2, rows2, Len(rows2), waiting2, Len(waiting2), Kind)
    BY <1>2, ComingRows, Zenon
  <2> QED BY <1>2, <2>1, Zenon
<1>5. C = [i \in DOMAIN C |-> C[i]] /\ C2 = [i \in DOMAIN C2 |-> C2[i]]
  BY DEF Coming
<1> HIDE DEF n, m, rows2, waiting2, C, C2
<1> USE DEF HasRows
<1>6. ASSUME NEW i \in D PROVE i \in D2 /\ C2[i] = C[i]
  <2>1. CASE i \in 1..n
    BY <1>1, <1>2, <1>3, <1>4, <2>1
  <2>2. CASE i = n + 1
    BY <1>1, <1>2, <1>3, <1>4, <2>2
  <2>3. ASSUME NEW k \in 1..m, i = n + k, waiting[k] \in Kind, k # 1
        PROVE  i \in D2 /\ C2[i] = C[i]
    <3>1. k - 1 \in 1..(m-1) /\ n + 1 + (k - 1) = i /\ (k - 1) + 1 = k
      BY <1>1, <2>3
    <3>2. waiting2[k-1] = waiting[k]
      BY <1>2, <3>1
    <3> QED BY <1>3, <1>4, <2>3, <3>1, <3>2
  <2> QED BY <1>6, <2>1, <2>2, <2>3
<1>7. ASSUME NEW i \in D2 PROVE i \in D
  <2>1. CASE i \in 1..(n+1)
    BY <1>1, <2>1
  <2>2. ASSUME NEW k \in 1..(m-1), i = n + 1 + k, waiting2[k] \in Kind PROVE i \in D
    <3>1. k + 1 \in 1..m /\ n + (k + 1) = i
      BY <1>1, <2>2
    <3> QED BY <1>2, <2>2, <3>1
  <2> QED BY <1>7, <2>1, <2>2
<1>8. C = C2
  BY <1>3, <1>4, <1>5, <1>6, <1>7
<1> QED BY <1>8 DEF C, C2, rows2, waiting2

\* It is committed to the other table: the rows to come move up.
LEMMA ComingPassed ==
  ASSUME NEW T, NEW rows \in Seq(T), NEW waiting \in Seq(T), waiting # <<>>, NEW Kind,
         Head(waiting) \notin Kind
  PROVE  \E f : Moves(f, Coming(rows, waiting, Kind), Coming(rows, Tail(waiting), Kind))
<1> DEFINE n == Len(rows)
           m == Len(waiting)
           waiting2 == Tail(waiting)
           C == Coming(rows, waiting, Kind)
           C2 == Coming(rows, waiting2, Kind)
           D == 1..n \union {n + k : k \in {k \in 1..m : waiting[k] \in Kind}}
           D2 == 1..n \union {n + k : k \in {k \in 1..(m-1) : waiting2[k] \in Kind}}
           f == [i \in D |-> IF i <= n THEN i ELSE i - 1]
<1>1. n \in Nat /\ m \in Nat /\ m # 0 /\ Head(waiting) = waiting[1]
  OBVIOUS
<1>2. waiting2 \in Seq(T) /\ Len(waiting2) = m - 1 /\ \A k \in 1..(m-1) : waiting2[k] = waiting[k+1]
  BY <1>1
<1>3. HasRows(C, rows, n, waiting, m, Kind)
  BY ComingRows, Zenon
<1>4. HasRows(C2, rows, n, waiting2, m - 1, Kind)
  <2>1. HasRows(C2, rows, n, waiting2, Len(waiting2), Kind)
    BY <1>2, ComingRows, Zenon
  <2> QED BY <1>2, <2>1, Zenon
<1>5. waiting[1] \notin Kind
  BY <1>1
<1> HIDE DEF n, m, waiting2, C, C2
<1> USE DEF HasRows
<1>6. D \subseteq Nat /\ \A i \in D : f[i] = IF i <= n THEN i ELSE i - 1
  BY <1>1
<1>7. ASSUME NEW i \in D PROVE f[i] \in D2 /\ C2[f[i]] = C[i]
  <2>1. CASE i \in 1..n
    BY <1>1, <1>3, <1>4, <1>6, <2>1
  <2>2. ASSUME NEW k \in 1..m, i = n + k, waiting[k] \in Kind
        PROVE  f[i] \in D2 /\ C2[f[i]] = C[i]
    <3>1. k - 1 \in 1..(m-1) /\ (k - 1) + 1 = k /\ f[i] = n + (k - 1)
      BY <1>1, <1>5, <1>6, <2>2
    <3>2. waiting2[k-1] = waiting[k]
      BY <1>2, <3>1
    <3> QED BY <1>3, <1>4, <2>2, <3>1, <3>2
  <2> QED BY <1>7, <2>1, <2>2
<1>8. ASSUME NEW j \in D2 PROVE \E i \in D : f[i] = j
  <2>1. CASE j \in 1..n
    BY <1>1, <1>6, <2>1
  <2>2. ASSUME NEW k \in 1..(m-1), j = n + k, waiting2[k] \in Kind PROVE \E i \in D : f[i] = j
    <3>1. k + 1 \in 1..m
      BY <1>1
    <3> waiting[k+1] \in Kind
      BY <1>2, <2>2
    <3>2. n + (k + 1) \in D
      BY <3>1
    <3>3. f[n + (k + 1)] = j
      BY <1>1, <1>6, <2>2, <3>1, <3>2
    <3> QED BY <3>2, <3>3
  <2> QED BY <1>8, <2>1, <2>2
<1>9. ASSUME NEW i \in D, NEW j \in D, i <= j PROVE f[i] <= f[j]
  <2>1. i \in Nat /\ j \in Nat
    BY <1>6
  <2> QED BY <1>1, <1>6, <1>9, <2>1
<1> HIDE DEF f
<1>10. Moves(f, C, C2)
  BY <1>3, <1>4, <1>7, <1>8, <1>9 DEF Moves
<1> QED BY <1>10 DEF C, C2, waiting2

\* Transactions are queued: those of the table come behind its rows, the others change nothing.
LEMMA ComingQueued ==
  ASSUME NEW T, NEW rows \in Seq(T), NEW waiting \in Seq(T), NEW waiting2 \in Seq(T), NEW rs,
         Len(rs) \in Nat, Len(waiting2) = Len(waiting) + Len(rs),
         \A k \in 1..Len(waiting) : waiting2[k] = waiting[k],
         \A j \in 1..Len(rs) : waiting2[Len(waiting) + j] = rs[j], NEW Kind
  PROVE  /\ (\A j \in 1..Len(rs) : rs[j] \in Kind) =>
              GrownBy(Coming(rows, waiting, Kind), Coming(rows, waiting2, Kind), Len(rows) + Len(waiting), rs)
         /\ (\A j \in 1..Len(rs) : rs[j] \notin Kind) =>
              SameRows(Coming(rows, waiting, Kind), Coming(rows, waiting2, Kind))
<1> DEFINE n == Len(rows)
           m == Len(waiting)
           l == Len(rs)
           C == Coming(rows, waiting, Kind)
           C2 == Coming(rows, waiting2, Kind)
           D == 1..n \union {n + k : k \in {k \in 1..m : waiting[k] \in Kind}}
           D2 == 1..n \union {n + k : k \in {k \in 1..(m+l) : waiting2[k] \in Kind}}
<1>1. n \in Nat /\ m \in Nat /\ l \in Nat
  OBVIOUS
<1>2. HasRows(C, rows, n, waiting, m, Kind)
  BY ComingRows, Zenon
<1>3. HasRows(C2, rows, n, waiting2, m + l, Kind)
  <2>1. HasRows(C2, rows, n, waiting2, Len(waiting2), Kind)
    BY ComingRows, Zenon
  <2> QED BY <2>1, Zenon
<1>4. C = [i \in DOMAIN C |-> C[i]] /\ C2 = [i \in DOMAIN C2 |-> C2[i]]
  BY DEF Coming
<1>5. (\A k \in 1..m : waiting2[k] = waiting[k]) /\ \A j \in 1..l : waiting2[m + j] = rs[j]
  OBVIOUS
<1> HIDE DEF n, m, l, C, C2
<1> USE DEF HasRows
<1>6. ASSUME NEW i \in D PROVE i \in D2 /\ C2[i] = C[i] /\ i \in Nat /\ i <= n + m
  <2>1. CASE i \in 1..n
    BY <1>1, <1>2, <1>3, <2>1
  <2>2. ASSUME NEW k \in 1..m, i = n + k, waiting[k] \in Kind
        PROVE  i \in D2 /\ C2[i] = C[i] /\ i \in Nat /\ i <= n + m
    <3>1. k \in 1..(m+l) /\ i \in Nat /\ i <= n + m
      BY <1>1, <2>2
    <3> QED BY <1>2, <1>3, <1>5, <2>2, <3>1
  <2> QED BY <1>6, <2>1, <2>2
<1>7. ASSUME NEW i \in D2 PROVE i \in D \/ \E j \in 1..l : i = n + m + j /\ rs[j] \in Kind
  <2>1. ASSUME NEW k \in 1..(m+l), i = n + k, waiting2[k] \in Kind
        PROVE  i \in D \/ \E j \in 1..l : i = n + m + j /\ rs[j] \in Kind
    <3>1. CASE k \in 1..m
      BY <1>5, <2>1, <3>1
    <3>2. CASE k \notin 1..m
      <4>1. k - m \in 1..l /\ m + (k - m) = k /\ n + m + (k - m) = i
        BY <1>1, <2>1, <3>2
      <4>2. rs[k - m] = waiting2[k]
        BY <1>5, <4>1
      <4> QED BY <2>1, <4>1, <4>2
    <3> QED BY <3>1, <3>2
  <2> QED BY <1>7, <2>1
<1>8. ASSUME \A j \in 1..l : rs[j] \in Kind PROVE GrownBy(C, C2, n + m, rs)
  <2>1. ASSUME NEW j \in 1..l PROVE n + m + j \in D2 /\ C2[n + m + j] = rs[j]
    <3>1. m + j \in 1..(m+l) /\ n + (m + j) = n + m + j
      BY <1>1
    <3>2. waiting2[m + j] \in Kind
      BY <1>5, <1>8
    <3>3. C2[n + (m + j)] = waiting2[m + j] /\ n + (m + j) \in D2
      BY <1>3, <3>1, <3>2
    <3> QED BY <1>5, <3>1, <3>3
  <2>2. D2 = D \union {n + m + j : j \in 1..l}
    <3> HIDE DEF D, D2
    <3> QED BY <1>6, <1>7, <2>1
  <2> QED BY <1>2, <1>3, <1>6, <2>1, <2>2 DEF GrownBy, l
<1>9. ASSUME \A j \in 1..l : rs[j] \notin Kind PROVE SameRows(C, C2)
  <2>1. D2 = D
    BY <1>6, <1>7, <1>9
  <2> QED BY <1>2, <1>3, <1>4, <1>6, <2>1 DEF SameRows
<1> QED BY <1>8, <1>9 DEF n, m, l, C, C2

LEMMA ReadsByPhone ==
  ASSUME NEW o, NEW c, NEW d, NEW R, NEW Q
  PROVE  Reads(o, c, d, R, Q) <=> \A p \in Phones : ReadsOf(o[p], c[p], d[p], R, Q, p)
<1>1. ASSUME NEW p, NEW last, LastRow(last, R, p) PROVE last \in ToSet(R) \union {None}
  BY <1>1 DEF LastRow, ToSet
<1> QED BY <1>1 DEF Reads, ReadsOf

LEMMA LedgerRows ==
  ASSUME LedgerTypeOK
  PROVE  /\ consentRows \in Seq(Consent \union Clearance) /\ clearanceRows \in Seq(Consent \union Clearance)
         /\ queue \in Seq(Consent \union Clearance)
         /\ \A i \in DOMAIN Coming(consentRows, queue, Consent) : Coming(consentRows, queue, Consent)[i] \in Consent
<1>1. consentRows \in Seq(Consent \union Clearance) /\ clearanceRows \in Seq(Consent \union Clearance)
      /\ queue \in Seq(Consent \union Clearance)
  BY DEF LedgerTypeOK
<1>2. HasRows(Coming(consentRows, queue, Consent), consentRows, Len(consentRows), queue, Len(queue), Consent)
  BY <1>1, ComingRows, Zenon
<1>3. \A i \in 1..Len(consentRows) : consentRows[i] \in Consent
  BY DEF LedgerTypeOK
<1> QED BY <1>1, <1>2, <1>3 DEF HasRows

LEMMA CommitReads ==
  ASSUME LedgerTypeOK, RestartDecidesAlike, Commit
  PROVE  RestartDecidesAlike'
<1> DEFINE RC == Coming(consentRows, queue, Consent)
           RD == Coming(clearanceRows, queue, Clearance)
           RC2 == Coming(consentRows', queue', Consent)
           RD2 == Coming(clearanceRows', queue', Clearance)
<1>1. storeOk /\ storeOk' = storeOk /\ UNCHANGED cache /\ queue # <<>> /\ queue' = Tail(queue)
  BY DEF Commit
<1>2. \A p \in Phones : ReadsOf(lastOptOut[p], consents[p], clearances[p], RC, RD, p)
  BY <1>1, ReadsByPhone, Zenon DEF RestartDecidesAlike
<1>3. Head(queue) \in Consent \union Clearance
  BY <1>1, ToSetOfTail DEF LedgerTypeOK
<1>4. (\E f : Moves(f, RC, RC2)) /\ \E f : Moves(f, RD, RD2)
  <2>1. \A R : (DOMAIN R \subseteq Nat) => \E f : Moves(f, R, R)
    <3> SUFFICES ASSUME NEW R PROVE Moves([i \in DOMAIN R |-> i], R, R)
      OBVIOUS
    <3> QED BY DEF Moves
  <2>2. DOMAIN RC \subseteq Nat /\ DOMAIN RD \subseteq Nat
    <3>1. HasRows(RC, consentRows, Len(consentRows), queue, Len(queue), Consent)
          /\ HasRows(RD, clearanceRows, Len(clearanceRows), queue, Len(queue), Clearance)
      BY LedgerRows, ComingRows, Zenon
    <3>2. Len(consentRows) \in Nat /\ Len(clearanceRows) \in Nat /\ Len(queue) \in Nat
      BY LedgerRows
    <3> HIDE DEF RC, RD
    <3> QED BY <3>1, <3>2 DEF HasRows
  <2>3. CASE Head(queue) \in Consent
    <3>1. consentRows' = Append(consentRows, Head(queue)) /\ clearanceRows' = clearanceRows
      BY <2>3, Zenon DEF Commit
    <3>2. RC2 = RC
      BY <1>1, <2>3, <3>1, ComingCommitted, LedgerRows, Zenon
    <3>3. \E f : Moves(f, RD, RD2)
      BY <1>1, <2>3, <3>1, ComingPassed, LedgerRows, ConsentOrClearance, Zenon
    <3> QED BY <2>1, <2>2, <3>2, <3>3, Zenon
  <2>4. CASE Head(queue) \notin Consent
    <3>1. clearanceRows' = Append(clearanceRows, Head(queue)) /\ consentRows' = consentRows
      BY <2>4, Zenon DEF Commit
    <3>2. RD2 = RD
      BY <1>1, <1>3, <2>4, <3>1, ComingCommitted, LedgerRows, Zenon
    <3>3. \E f : Moves(f, RC, RC2)
      BY <1>1, <2>4, <3>1, ComingPassed, LedgerRows, Zenon
    <3> QED BY <2>1, <2>2, <3>2, <3>3, Zenon
  <2> QED BY <2>3, <2>4
<1> HIDE DEF RC, RD, RC2, RD2
<1>5. \A p \in Phones : ReadsOf(lastOptOut'[p], consents'[p], clearances'[p], RC2, RD2, p)
  BY <1>1, <1>2, <1>4, MovedReads, Zenon DEF ReadsOf, cache
<1>6. Reads(lastOptOut', consents', clearances', RC2, RD2)
  BY <1>5, ReadsByPhone, Zenon
<1> QED BY <1>6 DEF RestartDecidesAlike, RC2, RD2

LEMMA ConsentReads ==
  ASSUME LedgerTypeOK, OptOutsRemembered, RestartDecidesAlike, EntersConsent, LedgerTypeOK'
  PROVE  RestartDecidesAlike'
<1> DEFINE RC == Coming(consentRows, queue, Consent)
           RD == Coming(clearanceRows, queue, Clearance)
           RC2 == Coming(consentRows', queue', Consent)
           RD2 == Coming(clearanceRows', queue', Clearance)
           top == Len(consentRows) + Len(queue)
<1>1. PICK r \in Consent : SavesConsent(r) /\ UNCHANGED <<now, tables, storeOk, ledgerBounds>>
  BY Zenon DEF EntersConsent
<1>2. /\ storeOk /\ ConsentIsNew(r) /\ queue' = Append(queue, r) /\ consents' = [consents EXCEPT ![r.phone] = r]
      /\ lastOptOut' = IF IsLatestOptOut(r, lastOptOut[r.phone])
                       THEN [lastOptOut EXCEPT ![r.phone] = r] ELSE lastOptOut
      /\ clearances' = clearances /\ consentRows' = consentRows /\ clearanceRows' = clearanceRows
  BY <1>1, Zenon DEF SavesConsent, tables
<1>3. \A p \in Phones : ReadsOf(lastOptOut[p], consents[p], clearances[p], RC, RD, p)
  BY <1>2, ReadsByPhone, Zenon DEF RestartDecidesAlike
<1>4. Len(<<r>>) = 1 /\ \A j \in 1..1 : <<r>>[j] = r
  OBVIOUS
<1>5. /\ queue \in Seq(Consent \union Clearance) /\ queue' \in Seq(Consent \union Clearance)
      /\ Len(queue') = Len(queue) + 1 /\ (\A k \in 1..Len(queue) : queue'[k] = queue[k])
      /\ queue'[Len(queue) + 1] = r
  BY <1>2 DEF LedgerTypeOK
<1>6. GrownBy(RC, RC2, top, <<r>>) /\ RD2 = RD
  <2>1. /\ Len(<<r>>) \in Nat /\ Len(queue') = Len(queue) + Len(<<r>>)
        /\ \A j \in 1..Len(<<r>>) : queue'[Len(queue) + j] = <<r>>[j]
    BY <1>4, <1>5
  <2>2. (\A j \in 1..Len(<<r>>) : <<r>>[j] \in Consent) /\ \A j \in 1..Len(<<r>>) : <<r>>[j] \notin Clearance
    BY <1>4, ConsentOrClearance
  <2>3. GrownBy(RC, RC2, top, <<r>>)
    BY <1>2, <1>5, <2>1, <2>2, LedgerRows, ComingQueued, Zenon
  <2>4. SameRows(RD, Coming(clearanceRows, queue', Clearance))
    BY <1>5, <2>1, <2>2, LedgerRows, ComingQueued, Zenon
  <2> QED BY <1>2, <2>3, <2>4 DEF SameRows
<1>7. top \in Nat /\ Len(<<r>>) \in Nat /\ \A i \in DOMAIN RC : RC[i] \in Consent
  <2>1. top \in Nat
    BY LedgerRows
  <2> QED BY <2>1, <1>4, LedgerRows
<1> HIDE DEF RC, RD, RC2, RD2, top
<1>8. /\ r.phone \in Phones /\ r.at \in Nat /\ r # None /\ lastOptOut[r.phone] \in Consent \union {None}
      /\ lastOptOut[r.phone] # None => lastOptOut[r.phone].revokedAt \in Nat
  BY ConsentFields, RecordsElsewhere DEF OptOutsRemembered
<1>9. ASSUME NEW p \in Phones, p # r.phone
      PROVE  ReadsOf(lastOptOut'[p], consents'[p], clearances'[p], RC2, RD2, p)
  <2>1. lastOptOut'[p] = lastOptOut[p] /\ consents'[p] = consents[p]
    BY <1>2, <1>9, <1>8 DEF LedgerTypeOK
  <2>2. \A j \in 1..Len(<<r>>) : <<r>>[j].phone # p
    BY <1>4, <1>9
  <2>3. \A x : (LastRow(x, RC, p) => LastRow(x, RC2, p)) /\ (IsLastOptOut(x, RC, p) => IsLastOptOut(x, RC2, p))
    BY <1>6, <1>7, <2>2, GrownReads
  <2> QED BY <1>2, <1>3, <1>6, <2>1, <2>3, Zenon DEF ReadsOf
<1>10. ReadsOf(lastOptOut'[r.phone], consents'[r.phone], clearances'[r.phone], RC2, RD2, r.phone)
  <2>1. LastRow(r, RC2, r.phone)
    <3>1. \A i, j \in 1..Len(<<r>>) : i # j => <<r>>[i].phone # <<r>>[j].phone
      BY <1>4
    <3>2. \A j \in 1..Len(<<r>>) : LastRow(<<r>>[j], RC2, <<r>>[j].phone)
      BY <1>6, <1>7, <3>1, GrownReads, Zenon
    <3>3. 1 \in 1..Len(<<r>>) /\ <<r>>[1] = r
      BY <1>4
    <3> QED BY <3>2, <3>3
  <2>2. IsLastOptOut(lastOptOut[r.phone], RC, r.phone) /\ LastRow(clearances[r.phone], RD, r.phone)
    BY <1>3, <1>8, Zenon DEF ReadsOf
  <2>3. consents'[r.phone] = r
    BY <1>2, <1>8 DEF LedgerTypeOK
  <2>4. CASE IsLatestOptOut(r, lastOptOut[r.phone])
    <3>1. lastOptOut'[r.phone] = r
      BY <1>2, <1>8, <2>4 DEF LedgerTypeOK
    <3>2. IsLastOptOut(r, RC2, r.phone)
      BY <1>6, <1>7, <1>8, <2>2, <2>4, GrownOptOut
    <3>3. InForce(r, r) = r
      BY DEF InForce
    <3> QED BY <1>2, <1>6, <2>1, <2>2, <2>3, <3>1, <3>2, <3>3, Zenon DEF ReadsOf
  <2>5. CASE ~IsLatestOptOut(r, lastOptOut[r.phone])
    <3>1. lastOptOut'[r.phone] = lastOptOut[r.phone]
      BY <1>2, <2>5
    <3>2. IsLastOptOut(lastOptOut[r.phone], RC2, r.phone)
      BY <1>6, <1>7, <1>8, <2>2, <2>5, GrownOptOut
    <3>3. InForce(r, lastOptOut[r.phone]) = r
      BY <1>2, <1>8 DEF InForce, ConsentIsNew
    <3> QED BY <1>2, <1>6, <2>1, <2>2, <2>3, <3>1, <3>2, <3>3, Zenon DEF ReadsOf
  <2> QED BY <2>4, <2>5
<1>11. Reads(lastOptOut', consents', clearances', RC2, RD2)
  BY <1>9, <1>10, ReadsByPhone, Zenon
<1> QED BY <1>11 DEF RestartDecidesAlike, RC2, RD2

LEMMA ResultsRead ==
  ASSUME LedgerTypeOK, RestartDecidesAlike, EntersResults
  PROVE  RestartDecidesAlike'
<1> DEFINE RC == Coming(consentRows, queue, Consent)
           RD == Coming(clearanceRows, queue, Clearance)
           RC2 == Coming(consentRows', queue', Consent)
           RD2 == Coming(clearanceRows', queue', Clearance)
           top == Len(clearanceRows) + Len(queue)
<1>1. PICK rs \in Seq(Clearance) :
        /\ storeOk /\ NewResults(rs) /\ QueueGrowsBy(rs)
        /\ \A i \in 1..Len(rs) : clearances'[rs[i].phone] = rs[i]
        /\ \A p \in Phones : (\A i \in 1..Len(rs) : rs[i].phone # p) => clearances'[p] = clearances[p]
        /\ UNCHANGED <<now, consents, lastOptOut, tables, storeOk, ledgerBounds>>
  BY Zenon DEF EntersResults
<1>2. \A p \in Phones : ReadsOf(lastOptOut[p], consents[p], clearances[p], RC, RD, p)
  BY <1>1, ReadsByPhone, Zenon DEF RestartDecidesAlike
<1>3. Len(rs) \in Nat /\ (\A j \in 1..Len(rs) : rs[j] \in Clearance) /\ \A j \in 1..Len(rs) : rs[j] \notin Consent
  BY ConsentOrClearance
<1>4. GrownBy(RD, RD2, top, rs) /\ RC2 = RC
  <2>1. consentRows' = consentRows /\ clearanceRows' = clearanceRows
    BY <1>1 DEF tables
  <2>2. GrownBy(RD, RD2, top, rs)
    BY <1>1, <1>3, <2>1, LedgerRows, ComingQueued, Zenon DEF QueueGrowsBy
  <2>3. SameRows(RC, Coming(consentRows, queue', Consent))
    BY <1>1, <1>3, LedgerRows, ComingQueued, Zenon DEF QueueGrowsBy
  <2> QED BY <2>1, <2>2, <2>3 DEF SameRows
<1>5. top \in Nat
  BY LedgerRows
<1> HIDE DEF RC, RD, RC2, RD2, top
<1>6. ASSUME NEW p \in Phones
      PROVE  ReadsOf(lastOptOut'[p], consents'[p], clearances'[p], RC2, RD2, p)
  <2>1. LastRow(clearances'[p], RD2, p)
    <3>1. CASE \A i \in 1..Len(rs) : rs[i].phone # p
      <4>1. clearances'[p] = clearances[p]
        BY <1>1, <3>1
      <4>2. LastRow(clearances[p], RD, p)
        BY <1>2, Zenon DEF ReadsOf
      <4> QED BY <1>3, <1>4, <1>5, <3>1, <4>1, <4>2, GrownReads
    <3>2. CASE \E i \in 1..Len(rs) : rs[i].phone = p
      <4>1. \A i, j \in 1..Len(rs) : i # j => rs[i].phone # rs[j].phone
        BY <1>1 DEF NewResults
      <4>2. \A i \in 1..Len(rs) : LastRow(rs[i], RD2, rs[i].phone)
        BY <1>3, <1>4, <1>5, <4>1, GrownReads, Zenon
      <4> QED BY <1>1, <3>2, <4>2
    <3> QED BY <3>1, <3>2
  <2> QED BY <1>1, <1>2, <1>4, <2>1, Zenon DEF ReadsOf
<1>7. Reads(lastOptOut', consents', clearances', RC2, RD2)
  BY <1>6, ReadsByPhone, Zenon
<1> QED BY <1>7 DEF RestartDecidesAlike, RC2, RD2

\* With nothing queued the rows are those of the table.
LEMMA RestartReadsAlike ==
  ASSUME LedgerTypeOK, Restart
  PROVE  RestartDecidesAlike'
<1>1. /\ Reads(lastOptOut', consents', clearances', consentRows, clearanceRows)
      /\ queue' = <<>> /\ consentRows' = consentRows /\ clearanceRows' = clearanceRows
  BY RestartReads DEF tables
<1>2. ASSUME NEW T, NEW rows \in Seq(T), NEW Kind PROVE Coming(rows, <<>>, Kind) = rows
  <2> DEFINE C == Coming(rows, <<>>, Kind)
  <2>1. HasRows(C, rows, Len(rows), <<>>, 0, Kind)
    <3>1. <<>> \in Seq(T) /\ Len(<<>>) = 0
      OBVIOUS
    <3> QED BY <1>2, <3>1, ComingRows, Zenon
  <2>2. C = [i \in DOMAIN C |-> C[i]]
    BY DEF Coming
  <2>3. rows = [i \in 1..Len(rows) |-> rows[i]]
    BY <1>2
  <2> HIDE DEF C
  <2>4. DOMAIN C = 1..Len(rows) /\ \A i \in 1..Len(rows) : C[i] = rows[i]
    BY <2>1 DEF HasRows
  <2>5. C = [i \in 1..Len(rows) |-> C[i]]
    BY <2>2, <2>4, Zenon
  <2>6. [i \in 1..Len(rows) |-> C[i]] = [i \in 1..Len(rows) |-> rows[i]]
    BY <2>4
  <2>7. C = rows
    BY <2>3, <2>5, <2>6, Zenon
  <2> QED BY <2>7 DEF C
<1>3. Coming(consentRows', queue', Consent) = consentRows /\ Coming(clearanceRows', queue', Clearance) = clearanceRows
  BY <1>1, <1>2, LedgerRows
<1> QED BY <1>1, <1>3 DEF RestartDecidesAlike

LEMMA ReadsStep ==
  ASSUME LedgerTypeOK, LedgerTypeOK', OptOutsRemembered, RestartDecidesAlike,
         UNCHANGED ledger \/ Ticks \/ Commit \/ StoreFails \/ EntersConsent \/ EntersResults \/ Restart
  PROVE  RestartDecidesAlike'
<1>1. CASE UNCHANGED ledger \/ Ticks
  BY <1>1 DEF ledger, Ticks, cache, tables, RestartDecidesAlike, Reads
<1>2. CASE StoreFails
  BY <1>2 DEF StoreFails, RestartDecidesAlike
<1> QED BY <1>1, <1>2, CommitReads, ConsentReads, ResultsRead, RestartReadsAlike

-----------------------------------------------------------------------------
(* The theorems. *)

\* The state of the evidence and of the runs: the types of both; opt-outs are remembered and
\* results replace one another in the order of their recording, in the cache, in the queue of
\* transactions and in the tables (saveConsent, saveDncClearance, the constructor of the
\* store); a run's credits stay within the confirmed ones, and reports are in force.
THEOREM LedgerInvariance == Spec => []IInv
<1>1. Init => IInv
  <2> SUFFICES ASSUME Init PROVE IInv
    OBVIOUS
  <2> USE DEF Init, LedgerInit, CheckerInit
  <2>1. LedgerTypeOK
    BY LedgerBoundAssumption DEF LedgerTypeOK, Times
  <2>2. CheckerTypeOK
    BY BatchAssumption, NeedsIsFinite DEF CheckerTypeOK, TimeOrNone
  <2>3. ToSet(queue) = {} /\ ToSet(consentRows) = {} /\ ToSet(clearanceRows) = {}
    BY DEF ToSet
  <2>4. DOMAIN queue = {} /\ DOMAIN clearanceRows = {}
    OBVIOUS
  <2>5. OptOutsRemembered
    BY <2>3 DEF OptOutsRemembered
  <2>6. ResultsInOrder
    BY <2>3, <2>4 DEF ResultsInOrder
  <2>7. RunInv
    BY FS_EmptySet, NeedsIsFinite DEF RunInv
  <2>8. ReportsInForce /\ ReportedIsOnRecord
    BY DEF ReportsInForce, ReportedIsOnRecord
  <2> QED BY <2>1, <2>2, <2>5, <2>6, <2>7, <2>8 DEF IInv, TypeOK
<1>2. IInv /\ [Next]_vars => IInv'
  <2> SUFFICES ASSUME IInv, [Next]_vars PROVE IInv'
    OBVIOUS
  <2>1. TypeOK /\ LedgerTypeOK /\ OptOutsRemembered /\ ResultsInOrder /\ RunInv /\ ReportsInForce /\ ReportedIsOnRecord
    BY Zenon DEF IInv, TypeOK
  <2>2. UNCHANGED ledger \/ Ticks \/ Commit \/ StoreFails \/ EntersConsent \/ EntersResults \/ Restart
    BY <2>1, EvidenceMoves
  <2>3. TypeOK'
    BY <2>1, <2>2, LedgerTypeStep, CheckerTypeStep DEF TypeOK
  <2>4. OptOutsRemembered' /\ ResultsInOrder'
    BY <2>1, <2>2, RememberedStep, OrderStep
  <2>5. RunInv' /\ ReportsInForce' /\ ReportedIsOnRecord'
    BY <2>1, RunStep_RunInv, InForceStep, OnRecordStep
  <2> QED BY <2>3, <2>4, <2>5 DEF IInv
<1> QED BY <1>1, <1>2, PTL DEF Spec

LEMMA DialledOnConsent ==
  ASSUME TypeOK, OptOutsRemembered, NEW p \in Phones, lastOptOut[p] # None, MayDial(p)
  PROVE  Basis(p) = "consent" /\ consents[p].at > lastOptOut[p].revokedAt
<1>1. consents[p] # None
  BY DEF OptOutsRemembered
<1>2. consents[p].revokedAt = None
  BY <1>1, Zenon DEF MayDial, Basis, OptedOut
<1>3. consents[p].at > lastOptOut[p].revokedAt /\ consents[p].at <= now
  BY <1>1, <1>2 DEF OptOutsRemembered
<1>4. HasConsent(p) /\ ~OptedOut(p)
  BY <1>1, <1>2, <1>3, Zenon DEF HasConsent, OptedOut
<1>5. Basis(p) = "consent"
  BY <1>4 DEF Basis
<1> QED BY <1>3, <1>5

\* A committed opt-out stands for any numbers, interleaving, restart and failure: its number
\* is dialled only on a later consent.  (authorize, saveConsent, the constructor)
THEOREM OptOutHolds == Spec => []OptOutStands
<1>1. IInv => OptOutStands
  <2> SUFFICES ASSUME IInv, NEW i \in DOMAIN consentRows,
                      consentRows[i].revokedAt # None, MayDial(consentRows[i].phone)
               PROVE  /\ Basis(consentRows[i].phone) = "consent"
                      /\ consents[consentRows[i].phone].at > consentRows[i].revokedAt
    BY DEF OptOutStands
  <2> DEFINE r == consentRows[i]
             p == r.phone
  <2>1. TypeOK /\ LedgerTypeOK /\ OptOutsRemembered
    BY Zenon DEF IInv, TypeOK
  <2>2. r \in Consent /\ r \in ToSet(consentRows)
    BY <2>1 DEF LedgerTypeOK, ToSet
  <2>3. p \in Phones /\ lastOptOut[p] # None /\ lastOptOut[p].revokedAt >= r.revokedAt /\ r.revokedAt \in Nat
    BY <2>1, <2>2, ConsentFields DEF OptOutsRemembered
  <2>4. Basis(p) = "consent" /\ consents[p].at > lastOptOut[p].revokedAt
    BY <2>1, <2>3, DialledOnConsent
  <2>5. consents[p] # None /\ lastOptOut[p].revokedAt # None
    BY <2>1, <2>3 DEF OptOutsRemembered
  <2>6. consents[p].at \in Nat /\ lastOptOut[p].revokedAt \in Nat
    BY <2>1, <2>3, <2>5, RecordsElsewhere, ConsentFields
  <2> QED BY <2>3, <2>4, <2>6
<1> QED BY <1>1, LedgerInvariance, PTL

\* A committed negative result stands until a newer result.  (authorize, saveDncClearance)
THEOREM NegativeHolds == Spec => []NegativeStands
<1>1. IInv => NegativeStands
  <2> SUFFICES ASSUME IInv, NEW i \in DOMAIN clearanceRows,
                      ~clearanceRows[i].cleared, Basis(clearanceRows[i].phone) = "dnc"
               PROVE  clearances[clearanceRows[i].phone].at > clearanceRows[i].at
    BY DEF NegativeStands
  <2> DEFINE r == clearanceRows[i]
             p == r.phone
  <2>1. LedgerTypeOK /\ ResultsInOrder
    BY Zenon DEF IInv, TypeOK
  <2>2. r \in Clearance /\ r \in ToSet(clearanceRows)
    BY <2>1 DEF LedgerTypeOK, ToSet
  <2>3. Replaces(r, clearances[p])
    BY <2>1, <2>2 DEF ResultsInOrder
  <2>4. HasClearance(p)
    BY DEF Basis
  <2>5. clearances[p].cleared
    BY <2>4, Zenon DEF HasClearance
  <2> QED BY <2>3, <2>5, Zenon DEF Replaces
<1> QED BY <1>1, LedgerInvariance, PTL

\* No run puts more credits at stake than were confirmed, for any batches.  (run)
THEOREM CreditsHold == Spec => []SpendsWithinConfirmed
<1>1. IInv => SpendsWithinConfirmed
  <2> SUFFICES ASSUME IInv, asked # <<>> PROVE submitted <= Run.maxCredits
    BY DEF SpendsWithinConfirmed
  <2>1. TypeOK /\ submitted + Cardinality(todo) <= Run.maxCredits
    BY Zenon DEF IInv, RunInv
  <2>2. submitted \in Nat /\ Run.maxCredits \in Nat /\ Cardinality(todo) \in Nat
    BY <2>1, RunTypes, FiniteNumbers, FS_CardinalityType DEF TypeOK
  <2> QED BY <2>1, <2>2
<1> QED BY <1>1, LedgerInvariance, PTL

\* At any moment with a healthy store, a restart that finds the queue committed reads the very
\* decisions this process makes, for any evidence in any order: the rules of saveConsent and
\* saveDncClearance and the fold of the constructor agree.
THEOREM RestartHolds == Spec => []RestartDecidesAlike
<1>1. Init => RestartDecidesAlike
  <2> SUFFICES ASSUME Init
               PROVE  Reads(lastOptOut, consents, clearances,
                            Coming(consentRows, queue, Consent), Coming(clearanceRows, queue, Clearance))
    BY DEF RestartDecidesAlike
  <2>1. DOMAIN Coming(consentRows, queue, Consent) = {} /\ DOMAIN Coming(clearanceRows, queue, Clearance) = {}
    BY DEF Init, LedgerInit, Coming
  <2>2. \A p \in Phones : lastOptOut[p] = None /\ consents[p] = None /\ clearances[p] = None
    BY DEF Init, LedgerInit
  <2> QED BY <2>1, <2>2, ReadsByPhone DEF ReadsOf, LastRow, IsLastOptOut, InForce
<1>2. IInv /\ IInv' /\ RestartDecidesAlike /\ [Next]_vars => RestartDecidesAlike'
  <2> SUFFICES ASSUME IInv, IInv', RestartDecidesAlike, [Next]_vars PROVE RestartDecidesAlike'
    OBVIOUS
  <2>1. TypeOK /\ LedgerTypeOK /\ OptOutsRemembered /\ LedgerTypeOK'
    BY Zenon DEF IInv, TypeOK
  <2> QED BY <2>1, EvidenceMoves, ReadsStep
<1> QED BY <1>1, <1>2, LedgerInvariance, PTL DEF Spec

\* What a run reported is committed, or something newer is.  (run, flush)
THEOREM ReportsHold == Spec => []ReportedIsOnRecord
<1>1. IInv => ReportedIsOnRecord
  BY Zenon DEF IInv
<1> QED BY <1>1, LedgerInvariance, PTL

\* No request carries a number whose reported result is still valid.  (previewDnc, run)
THEOREM NoCreditTwiceHolds == Spec => NoCreditTwice
<1>1. IInv /\ [Next]_vars =>
        [\A p \in batch' \ batch : pc' = "gateway" => reported[p] = None \/ now - reported[p] >= Validity]_vars
  <2> SUFFICES ASSUME IInv, [Next]_vars, NEW p \in batch' \ batch, pc' = "gateway"
               PROVE  reported[p] = None \/ now - reported[p] >= Validity
    OBVIOUS
  <2>1. TypeOK /\ ReportsInForce /\ ResultsInOrder
    BY Zenon DEF IInv
  <2>2. PICK B \in SUBSET todo : SubmitsBatch(B)
    <3>1. CASE UNCHANGED checker
      BY <3>1 DEF checker
    <3>2. CASE RunStep
      BY <3>2, Zenon DEF RunStep, RunPreviews, NoReply, EvidenceSaved, RunFails, ReplyIsSaved, ReplyIsDropped, Ends
    <3>3. CASE ProcessRestarts \/ \E P \in Lists : ScrubPhones(P)
      BY <3>3 DEF ProcessRestarts, ScrubPhones
    <3> QED BY <3>1, <3>2, <3>3, Zenon DEF Next, EvidenceStep, vars
  <2>3. p \in StillNeeded(B)
    BY <2>2 DEF SubmitsBatch, Ends
  <2>4. p \in Phones /\ ~Covered(p)
    BY <2>3 DEF StillNeeded, Needs
  <2>5. CASE reported[p] # None
    <3>1. clearances[p] # None /\ reported[p] <= clearances[p].at
      BY <2>1, <2>4, <2>5 DEF ReportsInForce
    <3>2. clearances[p].at <= now /\ ~Fresh(clearances[p])
      BY <2>1, <2>4, <3>1, Zenon DEF Covered, ResultsInOrder
    <3>3. clearances[p].at \in Nat /\ now \in Nat /\ reported[p] \in Nat
      BY <2>1, <2>4, <2>5, <3>1, RecordsElsewhere, ClearanceFields DEF TypeOK, CheckerTypeOK, TimeOrNone, Times
    <3>4. now - clearances[p].at >= Validity
      BY <3>2, <3>3 DEF Fresh
    <3> QED BY <3>1, <3>3, <3>4
  <2> QED BY <2>5
<1> QED BY <1>1, LedgerInvariance, PTL DEF Spec, NoCreditTwice
=============================================================================
