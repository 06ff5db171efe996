--------------------------- MODULE ConsentLedger ---------------------------
(***************************************************************************)
(* The permission evidence of the bot: voice consents, opt-outs and        *)
(* results of the Do-Not-Call Registry (server/compliance.ts, store.ts     *)
(* 266-296, compliance-routes.ts), kept in the cache of one API process    *)
(* and in two append-only tables that a restart reads back.                *)
(*                                                                         *)
(* Evidence is added by operators (the /api/compliance routes), by a       *)
(* callee who asks not to be called, and by DncChecker.  Every record has  *)
(* a fresh id, so the append-only refusal of a known id never applies.     *)
(* Times are instants at which something can happen; the clock does not    *)
(* run backwards.                                                          *)
(***************************************************************************)
EXTENDS Naturals, FiniteSets, SequencesExt

CONSTANTS
  Phones,         \* E.164 numbers
  Singapore,      \* those of them the Registry knows: +65 and eight digits
  Subjects,       \* numbers that operators and callees record evidence of
  Validity,       \* how long a Registry result permits (21 days)
  MaxTime,        \* bound on the clock
  MaxRecords,     \* bound on pieces of evidence entered
  MaxRestarts,    \* bound on exits of the process
  MaxStoreFailures, \* bound on failed transactions
  None

ASSUME SingaporeAssumption == Singapore \subseteq Phones /\ Subjects \subseteq Phones
ASSUME TimeAssumption == Validity \in Nat \ {0} /\ MaxTime \in Nat
ASSUME LedgerBoundAssumption == MaxRecords \in Nat /\ MaxRestarts \in Nat /\ MaxStoreFailures \in Nat
ASSUME PhonesAssumption == IsFiniteSet(Phones)

VARIABLES
  now,
  consents,      \* the consent decision in force per number
  lastOptOut,    \* the latest opt-out per number
  clearances,    \* the latest Registry result per number
  consentRows, clearanceRows,   \* the two tables, in the order of their sequence column
  queue,         \* transactions not yet committed, in order
  storeOk,       \* FALSE once a transaction failed
  restarts, failures

cache == <<consents, lastOptOut, clearances>>
tables == <<consentRows, clearanceRows>>
ledgerBounds == <<restarts, failures>>
ledger == <<now, cache, tables, queue, storeOk, ledgerBounds>>

Times == 0..MaxTime
Consent == [phone : Phones, at : Times, revokedAt : Times \union {None}]
Clearance == [phone : Phones, at : Times, cleared : BOOLEAN]

ASSUME NoneIsNothing == None \notin Nat \union Consent \union Clearance

TimeOrNone == Times \union {None}
LedgerTypeOK ==
  /\ now \in Times
  /\ consents \in [Phones -> Consent \union {None}]
  /\ lastOptOut \in [Phones -> Consent \union {None}]
  /\ clearances \in [Phones -> Clearance \union {None}]
  /\ consentRows \in Seq(Consent) /\ clearanceRows \in Seq(Clearance)
  /\ queue \in Seq(Consent \union Clearance)
  /\ storeOk \in BOOLEAN
  /\ restarts \in 0..MaxRestarts /\ failures \in 0..MaxStoreFailures

LedgerInit ==
  /\ now = 0
  /\ consents = [p \in Phones |-> None]
  /\ lastOptOut = [p \in Phones |-> None]
  /\ clearances = [p \in Phones |-> None]
  /\ consentRows = <<>> /\ clearanceRows = <<>> /\ queue = <<>>
  /\ storeOk = TRUE /\ restarts = 0 /\ failures = 0

-----------------------------------------------------------------------------
(* ConsentPolicy: what the evidence permits. *)

OptedOut(p) == consents[p] # None /\ consents[p].revokedAt # None
HasConsent(p) ==
  /\ consents[p] # None /\ consents[p].revokedAt = None
  /\ consents[p].at <= now

Fresh(r) == r.at <= now /\ now - r.at < Validity
HasClearance(p) ==
  /\ clearances[p] # None /\ clearances[p].cleared /\ Fresh(clearances[p])
  /\ p \in Singapore

\* authorize(): an opt-out refuses whatever the Registry says.
Basis(p) ==
  CASE OptedOut(p) -> "none"
    [] ~OptedOut(p) /\ HasConsent(p) -> "consent"
    [] ~OptedOut(p) /\ ~HasConsent(p) /\ HasClearance(p) -> "dnc"
    [] OTHER -> "none"
MayDial(p) == Basis(p) # "none"

-----------------------------------------------------------------------------
(* Evidence enters the cache and the queue of transactions. *)

Room == Len(consentRows) + Len(clearanceRows) + Len(queue) < MaxRecords

ConsentIsNewerThanLast(r) ==                                          \* mutant
  r.revokedAt = None /\ consents[r.phone] # None => r.at > consents[r.phone].at
ConsentIsNew(r) ==
  r.revokedAt = None /\ lastOptOut[r.phone] # None => r.at > lastOptOut[r.phone].revokedAt

IsFirstOptOut(r, prior) == r.revokedAt # None /\ prior = None         \* mutant
IsLatestOptOut(r, prior) == r.revokedAt # None /\ (prior = None \/ r.revokedAt >= prior.revokedAt)

\* saveConsent
SavesConsent(r) ==
  /\ storeOk /\ ConsentIsNew(r) /\ Room
  /\ lastOptOut' = IF IsLatestOptOut(r, lastOptOut[r.phone])
                   THEN [lastOptOut EXCEPT ![r.phone] = r] ELSE lastOptOut
  /\ consents' = [consents EXCEPT ![r.phone] = r]
  /\ queue' = Append(queue, r)
  /\ UNCHANGED clearances

\* A result replaces one that is not newer, unless it would clear a negative of its own instant.
Replaces(prior, r) == r.at > prior.at \/ (r.at = prior.at /\ (prior.cleared \/ ~r.cleared))
Supersedes(r) == clearances[r.phone] # None => Replaces(clearances[r.phone], r)

\* saveDncClearance
SavesClearance(r) ==
  /\ storeOk /\ Supersedes(r) /\ Room
  /\ clearances' = [clearances EXCEPT ![r.phone] = r]
  /\ queue' = Append(queue, r)
  /\ UNCHANGED <<consents, lastOptOut>>

-----------------------------------------------------------------------------
(* The /api/compliance routes and the spoken opt-out. *)

\* POST /consent: evidence may be of any time up to now.
RecordConsent(p, t) ==
  /\ t <= now
  /\ SavesConsent([phone |-> p, at |-> t, revokedAt |-> None])
  /\ UNCHANGED <<now, tables, storeOk, ledgerBounds>>

OptOut(p) ==
  [phone |-> p, revokedAt |-> now, at |-> IF consents[p] = None THEN now ELSE consents[p].at]

\* POST /opt-out, or a callee who asks not to be called again.
RecordOptOut(p) ==
  /\ SavesConsent(OptOut(p))
  /\ UNCHANGED <<now, tables, storeOk, ledgerBounds>>

\* POST /dnc
RecordClearance(p, t, cleared) ==
  /\ p \in Singapore /\ t <= now
  /\ SavesClearance([phone |-> p, at |-> t, cleared |-> cleared])
  /\ UNCHANGED <<now, tables, storeOk, ledgerBounds>>

\* flush() resolves once everything that was queued is committed.
Flushed == storeOk /\ queue = <<>>

-----------------------------------------------------------------------------
(* The write-behind store, the clock and restarts. *)

Commit ==
  /\ storeOk /\ queue # <<>>
  /\ queue' = Tail(queue)
  /\ IF Head(queue) \in Consent
     THEN consentRows' = Append(consentRows, Head(queue)) /\ UNCHANGED clearanceRows
     ELSE clearanceRows' = Append(clearanceRows, Head(queue)) /\ UNCHANGED consentRows
  /\ UNCHANGED <<now, cache, storeOk, ledgerBounds>>

StoreFails ==
  /\ storeOk /\ queue # <<>> /\ failures < MaxStoreFailures
  /\ storeOk' = FALSE /\ queue' = <<>> /\ failures' = failures + 1
  /\ UNCHANGED <<now, cache, tables, restarts>>

Ticks ==
  /\ now < MaxTime /\ now' = now + 1
  /\ UNCHANGED <<cache, tables, queue, storeOk, ledgerBounds>>

\* The constructor of the store folds the rows in order.  The last opt-out of a number is
\* the last row whose revocation no other row exceeds ...
IsLastOptOut(o, rows, p) ==
  LET optOuts == {i \in DOMAIN rows : rows[i].phone = p /\ rows[i].revokedAt # None} IN
  \/ o = None /\ optOuts = {}
  \/ \E i \in optOuts :
       /\ o = rows[i]
       /\ \A j \in optOuts : \/ rows[j].revokedAt < o.revokedAt
                             \/ rows[j].revokedAt = o.revokedAt /\ j <= i

LastRow(r, rows, p) ==
  LET own == {i \in DOMAIN rows : rows[i].phone = p} IN
  \/ r = None /\ own = {}
  \/ \E i \in own : r = rows[i] /\ \A j \in own : j <= i

\* ... and a consent that is not newer than it gives way to it.
InForce(last, optOut) ==
  IF last # None /\ last.revokedAt = None /\ optOut # None /\ last.at <= optOut.revokedAt
  THEN optOut ELSE last

Reads(o, c, d, cRows, dRows) ==
  \A p \in Phones :
    /\ IsLastOptOut(o[p], cRows, p)
    /\ \E last \in ToSet(cRows) \union {None} :
         LastRow(last, cRows, p) /\ c[p] = InForce(last, o[p])
    /\ LastRow(d[p], dRows, p)

\* The process exits and the next one loads what was committed.
Restart ==
  /\ restarts < MaxRestarts /\ restarts' = restarts + 1
  /\ lastOptOut' \in [Phones -> ToSet(consentRows) \union {None}]
  /\ consents' \in [Phones -> ToSet(consentRows) \union {None}]
  /\ clearances' \in [Phones -> ToSet(clearanceRows) \union {None}]
  /\ Reads(lastOptOut', consents', clearances', consentRows, clearanceRows)
  /\ queue' = <<>> /\ storeOk' = TRUE
  /\ UNCHANGED <<now, tables, failures>>

LedgerNext ==
  \/ Ticks \/ Commit \/ StoreFails \/ Restart
  \/ \E p \in Subjects :
       \/ RecordOptOut(p)
       \/ \E t \in Times : RecordConsent(p, t)
       \/ \E t \in Times, cleared \in BOOLEAN : RecordClearance(p, t, cleared)

LedgerSpec == LedgerInit /\ [][LedgerNext]_ledger

-----------------------------------------------------------------------------
(* Properties. *)

\* Once an opt-out is committed (whoever was told of it was told after that), its number is
\* dialled only on a consent given later: not on older consent entered meanwhile, not on a
\* Registry result, not after a restart or a failed transaction.
\* (authorize, saveConsent, the constructor)
OptOutStands ==
  \A i \in DOMAIN consentRows :
    LET r == consentRows[i] IN
    r.revokedAt # None /\ MayDial(r.phone) =>
      Basis(r.phone) = "consent" /\ consents[r.phone].at > r.revokedAt

\* Once a negative Registry result is committed, its number is not dialled on a Registry
\* result that is not newer.  (authorize, saveDncClearance, the constructor)
NegativeStands ==
  \A i \in DOMAIN clearanceRows :
    LET r == clearanceRows[i] IN
    ~r.cleared /\ Basis(r.phone) = "dnc" => clearances[r.phone].at > r.at

\* The rows of a table once those that wait are committed, in their order; the positions of
\* rows that the other table gets stay empty.
Coming(rows, waiting, Kind) ==
  [i \in DOMAIN rows \union {Len(rows) + k : k \in {k \in DOMAIN waiting : waiting[k] \in Kind}} |->
     IF i \in DOMAIN rows THEN rows[i] ELSE waiting[i - Len(rows)]]

\* A restart would decide exactly as this process does once its queue is committed: the rule
\* of saveConsent and saveDncClearance and the fold of the constructor agree.
RestartDecidesAlike ==
  storeOk =>
    Reads(lastOptOut, consents, clearances,
          Coming(consentRows, queue, Consent), Coming(clearanceRows, queue, Clearance))
=============================================================================
