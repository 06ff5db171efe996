------------------------ MODULE RecordingRetention ------------------------
(***************************************************************************)
(* The recordings on disk and purgeRecordings() (server/recordings.ts),    *)
(* which the API runs at boot and every hour beside the two writers of the *)
(* call records (CallBook).                                                *)
(*                                                                         *)
(* Time is what the code compares: a record is "aged" when its creation     *)
(* lies a retention period back, "expired" when its naming or its end does, *)
(* a file "stale" when its last write does.  The purge goes by the earlier  *)
(* of the first two, the API offers a recording until the later.            *)
(***************************************************************************)
EXTENDS CallBook

VARIABLE purge   \* the purge under way: its step, the copies of the records
                 \* it will clear, the files of no record, the call in hand

vars == <<bookVars, purge>>

NoPurge == [at |-> "idle", victims |-> << >>, orphans |-> {}, cur |-> None]

TypeOK ==
  /\ BookTypeOK
  /\ purge.at \in {"idle", "walking", "unlinked", "saving"}
  /\ DOMAIN purge.victims \subseteq Calls
  /\ \A c \in DOMAIN purge.victims : purge.victims[c] \in Record
  /\ purge.orphans \in SUBSET Calls /\ purge.cur \in Calls \union {None}

Init == BookInit /\ purge = NoPurge

(* Handlers, boots and reconciliations are done in seconds, a period lasts  *)
(* days.                                                                    *)
Quiet == /\ Flushed /\ inbox = <<>> /\ tracker = Idle /\ terminations = {} /\ purge = NoPurge
         /\ up => serving /\ rec = "none"
         /\ \A d \in Dials : answering[d] = "no"

OnRecord == {c \in Calls : call[c].status # "none"}
FinishedAndNamed == {c \in Calls : Terminal(c) /\ call[c].file}

(* The period since the creations is over, a ring and a talk before that of *)
(* the recordings; it matters when the purge finds something by it.         *)
Ages ==
  /\ Quiet /\ aged' = OnRecord /\ FinishedAndNamed \ aged # {}
  /\ UNCHANGED <<records, channel, tape, disk, expired, process, inbound, control, reconciler, link, stops, purge>>

(* Another retention period goes by: whatever is not being written is old.  *)
Tick ==
  /\ Quiet /\ aged' = OnRecord /\ expired' = OnRecord
  /\ disk' = [c \in Calls |-> IF disk[c] = "fresh" /\ tape[c] # "on" THEN "stale" ELSE disk[c]]
  /\ UNCHANGED <<records, channel, tape, process, inbound, control, reconciler, link, stops, purge>>

(* What the purge will do is decided on the copies it takes here, after a   *)
(* flush.                                                                   *)
(* Faults of mutants: the period is not compared, of a record               *)
(* (FinishedAndNamed) or of a file; a file is no orphan if its call is      *)
(* known.                                                                   *)
AnyUnnamed == {c \in Calls : disk[c] # "absent" /\ ~call[c].file}
OfNoCall == {c \in Calls : disk[c] = "stale" /\ call[c].status = "none"}
Expired == {c \in Calls : Terminal(c) /\ call[c].file /\ c \in aged}
Unnamed == {c \in Calls : disk[c] = "stale" /\ ~call[c].file}

PurgeLists ==
  /\ up /\ booted /\ purge.at = "idle" /\ Flushed
  /\ Expired \union Unnamed # {}
  /\ purge' = [at |-> "walking", victims |-> [c \in Expired |-> call[c]], orphans |-> Unnamed, cur |-> None]
  /\ UNCHANGED bookVars

(* The API listens after the first purge; a later one that finds nothing to *)
(* do changes nothing.                                                      *)
Listens == /\ serving' = TRUE
           /\ UNCHANGED <<records, world, up, booted, exits, inbound, control, reconciler, link, stops>>
PurgeFindsNothing ==
  /\ up /\ booted /\ ~serving /\ purge.at = "idle" /\ Flushed
  /\ Expired \union Unnamed = {}
  /\ Listens /\ UNCHANGED purge

Unlink(c) ==
  /\ up /\ purge.at = "walking" /\ c \in DOMAIN purge.victims
  /\ disk' = [disk EXCEPT ![c] = "absent"]
  /\ purge' = [purge EXCEPT !.at = "unlinked", !.cur = c]
  /\ UNCHANGED <<records, channel, tape, aged, expired, process, inbound, control, reconciler, link, stops>>

(* The file is gone; its record, as it was copied, loses the name.          *)
PurgeSaves ==
  /\ up /\ purge.at = "unlinked"
  /\ Save(purge.cur, [purge.victims[purge.cur] EXCEPT !.file = FALSE])
  /\ purge' = [purge EXCEPT !.at = "saving"]
  /\ UNCHANGED <<row, world, process, inbound, control, reconciler, link, stops>>

PurgeSaved ==
  /\ up /\ purge.at = "saving" /\ Flushed
  /\ purge' = [purge EXCEPT !.at = "walking", !.cur = None,
                            !.victims = [c \in DOMAIN @ \ {purge.cur} |-> @[c]]]
  /\ UNCHANGED bookVars

(* The files of no record come after the records.                           *)
RemoveOrphan(c) ==
  /\ up /\ purge.at = "walking" /\ DOMAIN purge.victims = {} /\ c \in purge.orphans
  /\ disk' = [disk EXCEPT ![c] = "absent"]
  /\ purge' = [purge EXCEPT !.orphans = @ \ {c}]
  /\ UNCHANGED <<records, channel, tape, aged, expired, process, inbound, control, reconciler, link, stops>>

PurgeEnds ==
  /\ up /\ purge.at = "walking" /\ DOMAIN purge.victims = {} /\ purge.orphans = {}
  /\ purge' = NoPurge /\ Listens

BookStep == BookNext /\ purge' = IF up' THEN purge ELSE NoPurge

Purges == PurgeLists \/ PurgeFindsNothing \/ PurgeSaves \/ PurgeSaved \/ PurgeEnds
          \/ \E c \in Calls : Unlink(c) \/ RemoveOrphan(c)

Next == BookStep \/ Ages \/ Tick \/ Purges

Spec == Init /\ [][Next]_vars

(* Promises resolve, Postgres answers, the process is restarted, the purge  *)
(* runs every hour and is retried; the client reconnects, a channel lasts   *)
(* no longer than its limit, and time passes.  What the process has to do   *)
(* after the last event is finite, so one condition serves all of it.       *)
Fairness ==
  /\ WF_vars((ApiStep /\ UNCHANGED purge) \/ Purges)
  /\ WF_bookVars(Reconnect) /\ WF_bookVars(ChannelEnds) /\ WF_vars(Tick)

FairSpec == Spec /\ Fairness

-----------------------------------------------------------------------------
(* What the history says can be played, and GET /calls/:id/recording looks  *)
(* for on the disk.                                                         *)
Offered(c) == call[c].file /\ c \notin expired

(* A callback takes its slot before anyone can refuse it, and dials are     *)
(* admitted on the records: the calls that were not found above the ceiling *)
(* never exceed it, on whatever record a restart comes back to.             *)
AdmittedWithinCeiling == Cardinality(Active \ refused) <= Ceiling

(* What the history offers and was recorded exists, whatever the purge, a   *)
(* late hangup event, an exit or the boot after it did: the record of an    *)
(* unlinked file says so before the API listens, or in the step after.      *)
(* (What was never recorded may be offered: a dial is named first.)  And    *)
(* the row of a dial names its file, so bytes that outlive a crash are      *)
(* found again.                                                             *)
RecordsMatchDisk ==
  /\ \A c \in Calls : serving /\ Offered(c) /\ tape[c] # "never" =>
       disk[c] # "absent" \/ (purge.at = "unlinked" /\ purge.cur = c)
  /\ \A d \in Dials : disk[d] # "absent" => row[d].file

(* The purge decides on copies, and never removes a file that is still      *)
(* being written or whose retention period is not over.                     *)
OnlyExpiredRemoved ==
  [][\A c \in Calls : disk[c] # "absent" /\ disk'[c] = "absent" =>
       tape[c] # "on" /\ (c \in aged \/ disk[c] = "stale")]_vars

(* Two writers and a purger save whole records from copies; none of them    *)
(* brings a finished call back to life.                                     *)
NeverResurrected ==
  [][up /\ up' => \A c \in Calls : Terminal(c) => Terminal(c)']_vars

(* Every recording is forgotten in the end, by the disk and by the row,     *)
(* also one whose hangup was never heard and one unlinked before a crash:   *)
(* calls are finitely many, so again and again nothing is left, but of      *)
(* calls kept active by a reconciliation that failed, while dialing waits   *)
(* for the next.                                                            *)
Forgotten(c) == disk[c] = "absent" /\ ~row[c].file
RecordingsExpire == []<>(\A c \in Calls : Forgotten(c) \/ (reconciling /\ c \in Active))
=============================================================================
