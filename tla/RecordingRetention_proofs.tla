--------------------- MODULE RecordingRetention_proofs ---------------------
(***************************************************************************)
(* Proofs about RecordingRetention and CallBook, for any callbacks, dials, *)
(* ceiling and any number of losses, exits and stops.                      *)
(*                                                                         *)
(* A part of the state is written by few of the many actions.  The         *)
(* ...Movers lemmas say which, the ...Of lemmas what a step can then do to *)
(* one call; each part of IInv follows from these and is kept by a lemma   *)
(* of its own (...Step).  The hard part is the queue of writes: After says *)
(* what Postgres will hold when some of them are committed, so a restart   *)
(* at any moment finds a state the invariant speaks of.                    *)
(***************************************************************************)
EXTENDS RecordingRetention, FiniteSetTheorems, TLAPS

(* The inductive invariant. *)

\* What the purge has in hand.
PurgeTypes ==
  /\ purge \in [at : {"idle", "walking", "unlinked", "saving"},
                victims : UNION {[S -> Record] : S \in SUBSET Calls},
                orphans : SUBSET Calls, cur : Calls \union {None}]

\* Every record of c there is: in memory, in Postgres, on its way.
Copies(c) == {call[c], row[c]} \union {writes[i].is : i \in {j \in DOMAIN writes : writes[j].call = c}}

\* What the rows will say of c when the first k writes are committed.
After(k, c, r) ==
  \/ \E i \in 1..k : writes[i] = [call |-> c, is |-> r] /\ \A j \in (i + 1)..k : writes[j].call # c
  \/ r = row[c] /\ \A j \in 1..k : writes[j].call # c
ActiveAfter(k) == {c \in Calls : \E r \in Record : After(k, c, r) /\ r.status = "active"}

\* Memory is what Postgres holds once every write is committed; no write is of a call without
\* a record, and a process that does not run has none to commit.
CacheIsLast ==
  /\ \A c \in Calls : After(Len(writes), c, call[c])
  /\ ~up => writes = <<>>
  /\ \A i \in DOMAIN writes : writes[i].is.status # "none"
  /\ \A c \in Calls : \A r \in Copies(c) : r.status = "none" => ~r.file

\* The ceiling holds in Postgres too, now and after any number of the writes.
CeilingAhead == \A k \in 0..Len(writes) : Cardinality(ActiveAfter(k) \ refused) <= Ceiling

\* A record that is final.
IsOver(r) == r.status \in {"ended", "failed"}

\* Recorders run while channels are up, files are of calls that were recorded.
TapesFollowChannels ==
  \A c \in Calls :
    /\ channel[c] = "idle" => tape[c] = "never" /\ disk[c] = "absent"
    /\ tape[c] = "on" => channel[c] = "up"
    /\ tape[c] = "off" => channel[c] = "over"
    /\ disk[c] # "absent" => tape[c] # "never"

\* A record of a callback rests on events of its channel.
CallbacksAreHeard ==
  /\ \A c \in Callbacks : \A r \in Copies(c) :
       /\ r.status # "none" => channel[c] # "idle"
       /\ IsOver(r) => channel[c] = "over"
       /\ r.status = "active" => ~r.file
  /\ \A i \in DOMAIN inbox :
       /\ channel[inbox[i].call] # "idle"
       /\ inbox[i].name = "hangup" => channel[inbox[i].call] = "over"
  /\ tracker.at # "idle" => tracker.call \in Callbacks /\ channel[tracker.call] # "idle"

\* A dial's recorder starts under an active record, its file exists under records that name it.
DialsAreNamed ==
  \A d \in Dials :
    /\ answering[d] # "no" => channel[d] # "idle"
    /\ answering[d] # "no" /\ channel[d] = "up" =>
         call[d].status = "active" /\ (answering[d] = "naming" => call[d].file)
    /\ \A r \in Copies(d) :
         /\ IsOver(r) => tape[d] # "on"
         /\ disk[d] # "absent" => r.file

\* What reconcile() may complete from the copy it listed: a call that is over, or was not
\* answered, and a copy that names the file if there is one.
SafeToSettle(c) ==
  /\ c \in Callbacks => ~todo[c].is.file
  /\ ~todo[c].remote =>
       /\ tape[c] # "on"
       /\ c \in Callbacks => channel[c] = "over"
       /\ c \in Dials /\ channel[c] = "up" => answering[c] = "no"
       /\ c \in Dials /\ disk[c] # "absent" => todo[c].is.file
SettlingIsSafe ==
  /\ ~up \/ rec # "none" => reconciling
  /\ rec = "settling" => \A c \in DOMAIN todo : SafeToSettle(c)

\* A callback the tracker has nothing left to hear of; it is old without a record.
Untouched(c) ==
  /\ \A i \in DOMAIN inbox : inbox[i].call # c
  /\ tracker.at = "idle" \/ tracker.call # c
Old(c) == c \in aged \/ (c \in Callbacks /\ call[c].status = "none" /\ Untouched(c) /\ channel[c] = "over")

\* Aged records are there in every copy; an old or removed file is of an old call.
AgeIsKept ==
  /\ \A c \in aged : \A r \in Copies(c) : r.status # "none"
  /\ \A c \in Calls : disk[c] = "stale" \/ (tape[c] # "never" /\ disk[c] = "absent") => Old(c)
  /\ \A c \in Calls : disk[c] = "stale" => tape[c] # "on"

\* The hangup of a callback was received, or will never be.
Done(c) ==
  /\ channel[c] = "over"
  /\ \A i \in DOMAIN inbox : inbox[i] # [name |-> "hangup", call |-> c]

\* A file that was written and removed.
Gone(c) == tape[c] # "never" /\ disk[c] = "absent"

\* A hangup is received once, so a recording is named once.
HeardOnce ==
  /\ \A i, j \in DOMAIN inbox : inbox[i] = inbox[j] /\ inbox[i].name = "hangup" => i = j
  /\ \A c \in Callbacks : (\E r \in Copies(c) : r.file) \/ disk[c] = "stale" \/ Gone(c) => Done(c)

\* What the purge was told to remove is over, and was old when it was told.
PurgeIsLate ==
  /\ \A c \in DOMAIN purge.victims :
       /\ Terminal(c) /\ IsOver(purge.victims[c]) /\ c \in aged
       /\ c \in Callbacks => Done(c)
       /\ \A r \in Copies(c) : IsOver(r)
  /\ \A c \in purge.orphans :
       /\ c \in Callbacks /\ Done(c) /\ disk[c] # "fresh"
       /\ \A r \in Copies(c) : ~r.file
  /\ purge.at \in {"unlinked", "saving"} => purge.cur \in DOMAIN purge.victims /\ disk[purge.cur] = "absent"

\* The record of a removed file: a copy that still names it is final and old, so the purge of a
\* boot finds it, and memory names it only before the API listens or for the next step.
InHand(c) ==
  /\ call[c].file => IF serving THEN purge.at = "unlinked" /\ purge.cur = c
                     ELSE purge.at = "idle" \/ c \in DOMAIN purge.victims
  /\ purge.at = "saving" /\ purge.cur = c => ~call[c].file
GoneIsForgotten ==
  /\ ~up => ~serving
  /\ \A c \in Calls : Gone(c) =>
       InHand(c) /\ \A r \in Copies(c) : r.file \/ c \in Dials => IsOver(r) /\ c \in aged

\* The inductive invariant.
IInv ==
  /\ TypeOK /\ PurgeTypes /\ CacheIsLast /\ CeilingAhead /\ TapesFollowChannels /\ CallbacksAreHeard
  /\ DialsAreNamed /\ SettlingIsSafe /\ AgeIsKept /\ HeardOnce /\ PurgeIsLate /\ GoneIsForgotten

-----------------------------------------------------------------------------
(* Records. *)

\* What the end of the process leaves of the records and of the work in hand.
Lost == call' = row /\ writes' = <<>> /\ inbox' = <<>> /\ tracker' = Idle /\ answering' = [d \in Dials |-> "no"]
        /\ terminations' = {} /\ rec' = "none" /\ todo' = << >> /\ awaits' = None /\ up' = FALSE /\ serving' = FALSE
        /\ purge' = NoPurge /\ UNCHANGED <<row, world, refused>>

\* The steps that write records, in memory, on their way or in Postgres.
LEMMA RecordMovers ==
  ASSUME [Next]_vars
  PROVE  \/ UNCHANGED records
         \/ Commit
         \/ Lost
         \/ RefusalConfirmed \/ PurgeSaves
         \/ \E c \in Callbacks : ReceiveAnswer(c) \/ ReceiveHangup(c)
         \/ \E d \in Dials : Dial(d) \/ NameRecording(d) \/ NotAnswered(d)
         \/ \E c \in Calls : HangupConfirmed(c) \/ HangUp(c) \/ RecSettles(c)
<1>1. CASE BookStep
  <2>1. CASE Exit \/ BootFails
    BY <1>1, <2>1 DEF Exit, BootFails, ProcessEnds, Lost, BookStep
  <2>2. CASE ReceiveSaved \/ RefusalFails \/ (\E d \in Dials : StartRecording(d))
    BY <2>2 DEF ReceiveSaved, RefusalFails, StartRecording
  <2>3. CASE \E c \in Calls : HangupFails(c) \/ RecHangsUp(c) \/ Stop(c)
    BY <2>3 DEF HangupFails, RecHangsUp, Stop
  <2>4. CASE RecListed \/ RecFails \/ RecDone \/ Restart
    BY <2>4 DEF RecListed, RecFails, RecDone, Restart
  <2>5. CASE (\E c \in Callbacks : CallIn(c)) \/ (\E d \in Dials : Answered(d)) \/ Drop \/ Reconnect
    BY <2>5 DEF CallIn, Answered, Drop, Reconnect
  <2> QED BY <1>1, <2>1, <2>2, <2>3, <2>4, <2>5 DEF BookStep, BookNext, ApiStep, ChannelEnds
<1>2. CASE Tick \/ Ages \/ PurgeLists \/ PurgeSaved \/ PurgeEnds \/ PurgeFindsNothing
  BY <1>2 DEF Tick, Ages, PurgeLists, PurgeSaved, PurgeEnds, PurgeFindsNothing, Listens, bookVars
<1>3. CASE \E c \in Calls : Unlink(c) \/ RemoveOrphan(c)
  BY <1>3 DEF Unlink, RemoveOrphan
<1>4. CASE UNCHANGED vars
  BY <1>4 DEF vars, bookVars
<1> QED BY <1>1, <1>2, <1>3, <1>4 DEF Next, Purges

\* What any save leaves behind: in this record nothing is taken back, and it suits the
\* channel, the tape and the file as the same step leaves them.
Suits(c, r) ==
  /\ r.status # "none"
  /\ Terminal(c) => IsOver(r)
  /\ c \in Callbacks =>
       /\ channel'[c] # "idle" /\ (IsOver(r) => channel'[c] = "over")
       /\ call[c].status = "none" => ~Untouched(c)
       /\ r.status = "active" => ~r.file
       /\ r.file => call[c].file \/ ReceiveHangup(c)
  /\ c \in Dials =>
       /\ IsOver(r) => tape'[c] # "on"
       /\ disk'[c] # "absent" => r.file
       /\ r.file => call[c].file \/ ~Terminal(c)
       /\ answering'[c] # "no" /\ channel'[c] = "up" =>
            r.status = "active" /\ (answering'[c] = "naming" => r.file)
  /\ r.status = "active" => c \in Active \union refused' \/ Cardinality(Active) < Ceiling

\* A save of such a record.
Joins(c, r) == Save(c, r) /\ UNCHANGED row /\ Suits(c, r)
Saves == \E c \in Calls, r \in Record : Joins(c, r)

\* A process that does not run after a step has lost what it had in memory.
LEMMA DownLosesAll ==
  ASSUME [Next]_vars, ~up'
  PROVE  Lost \/ (~up /\ UNCHANGED records)
<1>1. CASE BookStep
  <2>1. CASE Exit \/ BootFails
    BY <1>1, <2>1 DEF Exit, BootFails, ProcessEnds, Lost, BookStep
  <2>2. CASE Commit \/ ReceiveSaved \/ RefusalFails \/ RefusalConfirmed \/ RecListed \/ RecFails \/ RecDone \/ Restart
    BY <2>2 DEF Commit, ReceiveSaved, RefusalFails, RefusalConfirmed, RecListed, RecFails, RecDone,
       Restart, process
  <2>3. CASE \E c \in Callbacks : ReceiveAnswer(c) \/ ReceiveHangup(c)
    BY <2>3 DEF ReceiveAnswer, ReceiveHangup, Receives, process
  <2>4. CASE \E d \in Dials : StartRecording(d) \/ NameRecording(d) \/ Dial(d) \/ NotAnswered(d)
    BY <2>4 DEF StartRecording, NameRecording, Dial, NotAnswered, process
  <2>5. CASE \E c \in Calls : HangupConfirmed(c) \/ HangupFails(c) \/ RecHangsUp(c) \/ RecSettles(c) \/ Stop(c)
    BY <2>5 DEF HangupConfirmed, HangupFails, RecHangsUp, RecSettles, Stop, process
  <2>6. ASSUME NEW c \in Calls, HangUp(c) PROVE ~up /\ UNCHANGED records
    <3>1. ~up
      BY <2>6 DEF HangUp, process
    <3> QED BY <2>6, <3>1 DEF HangUp, records
  <2>7. CASE (\E c \in Callbacks : CallIn(c)) \/ (\E d \in Dials : Answered(d)) \/ Drop \/ Reconnect
    BY <2>7 DEF CallIn, Answered, Drop, Reconnect, process, records
  <2> QED BY <1>1, <2>1, <2>2, <2>3, <2>4, <2>5, <2>6, <2>7 DEF BookStep, BookNext, ApiStep,
             ChannelEnds
<1>2. CASE Tick \/ Ages \/ PurgeLists \/ PurgeSaved \/ PurgeEnds \/ PurgeFindsNothing
  BY <1>2 DEF Tick, Ages, PurgeLists, PurgeSaved, PurgeEnds, PurgeFindsNothing, Listens, bookVars, process
<1>3. CASE PurgeSaves
  BY <1>3 DEF PurgeSaves, process
<1>5. CASE \E c \in Calls : Unlink(c) \/ RemoveOrphan(c)
  BY <1>5 DEF Unlink, RemoveOrphan, process
<1>4. CASE UNCHANGED vars
  BY <1>4 DEF vars, bookVars, process
<1> QED BY <1>1, <1>2, <1>3, <1>4, <1>5 DEF Next, Purges

\* The end of a channel stops its recorder and leaves the files.
LEMMA EndsDoes ==
  ASSUME BookTypeOK, NEW c \in Calls, Ends(c)
  PROVE  /\ channel'[c] = "over" /\ tape'[c] # "on" /\ disk' = disk /\ aged' = aged
         /\ \A x \in Calls \ {c} : channel'[x] = channel[x] /\ tape'[x] = tape[x]
  BY DEF Ends, BookTypeOK

\* complete(): a call that is not active is left alone.
LEMMA CompleteSaves ==
  ASSUME BookTypeOK, NEW c \in Calls, NEW s \in {"ended", "failed"}, Complete(c, s)
  PROVE  \/ UNCHANGED <<call, writes>> /\ c \notin Active
         \/ \E r \in Record : Save(c, r) /\ IsOver(r) /\ r.file = call[c].file /\ c \in Active
<1>1. CASE c \in Active
  <2>0. call[c] \in Record
    BY DEF BookTypeOK
  <2>1. [call[c] EXCEPT !.status = s] \in Record
    BY <2>0 DEF Record
  <2>2. IsOver([call[c] EXCEPT !.status = s]) /\ [call[c] EXCEPT !.status = s].file = call[c].file
    BY DEF BookTypeOK, Record, IsOver
  <2> QED BY <1>1, <2>1, <2>2 DEF Complete
<1>2. CASE c \notin Active
  BY <1>2 DEF Complete
<1> QED BY <1>1, <1>2

\* Every save suits the world: the one lemma that looks at all the handlers that save.
LEMMA SavesSuit ==
  ASSUME IInv, [Next]_vars
  PROVE  UNCHANGED records \/ Commit \/ Lost \/ Saves
<1> USE CallAssumption DEF IInv, TypeOK
<1>1. CASE RefusalConfirmed
  <2> DEFINE c == tracker.call
             r == [status |-> "failed", file |-> FALSE]
  <2>1. c \in Callbacks /\ c \in Calls /\ c \notin Dials
    BY <1>1 DEF RefusalConfirmed, CallbacksAreHeard, Calls
  <2>2. Save(c, r) /\ UNCHANGED row /\ Ends(c) /\ ~Untouched(c)
    BY <1>1 DEF RefusalConfirmed, Untouched
  <2>3. r \in Record /\ r.status = "failed" /\ IsOver(r)
    BY DEF Record, IsOver
  <2>4. Suits(c, r)
    BY <2>1, <2>2, <2>3, EndsDoes DEF Suits
  <2> QED BY <2>1, <2>2, <2>3, <2>4 DEF Saves, Joins
<1>2. CASE PurgeSaves
  <2> DEFINE c == purge.cur
             r == [purge.victims[c] EXCEPT !.file = FALSE]
  <2>1. /\ c \in DOMAIN purge.victims /\ c \in Calls /\ purge.victims[c] \in Record
        /\ disk[c] = "absent"
    BY <1>2 DEF PurgeSaves, PurgeIsLate
  <2>2. Terminal(c) /\ IsOver(purge.victims[c])
    BY <2>1 DEF PurgeIsLate
  <2>3. r \in Record /\ IsOver(r) /\ r.status \notin {"none", "active"}
    BY <2>1, <2>2 DEF Record, IsOver
  <2>4. Save(c, r) /\ UNCHANGED <<row, channel, tape, disk, answering>>
    BY <1>2 DEF PurgeSaves, world, control
  <2>5. call[c].status \notin {"none", "active"} /\ call[c] \in Copies(c) /\ IsOver(call[c])
    BY <2>2 DEF Terminal, Copies, IsOver
  <2>6. c \in Callbacks => channel[c] = "over"
    BY <2>5 DEF CallbacksAreHeard
  <2>7. c \in Dials => tape[c] # "on" /\ ~(answering[c] # "no" /\ channel[c] = "up")
    BY <2>5 DEF DialsAreNamed
  <2>8. Suits(c, r)
    BY <2>1, <2>2, <2>3, <2>4, <2>5, <2>6, <2>7 DEF Suits
  <2> QED BY <2>1, <2>3, <2>4, <2>8 DEF Saves, Joins
<1>3. ASSUME NEW c \in Callbacks, ReceiveAnswer(c) PROVE UNCHANGED records \/ Saves
  <2> DEFINE r == [status |-> "active", file |-> FALSE]
  <2>1. CASE call[c].status # "none"
    BY <1>3, <2>1 DEF ReceiveAnswer, records
  <2>2. CASE call[c].status = "none"
    <3>1. Save(c, r) /\ UNCHANGED <<row, channel>> /\ c \in Calls /\ c \notin Dials
      BY <1>3, <2>2 DEF ReceiveAnswer, Calls
    <3>2. 1 \in DOMAIN inbox /\ inbox[1].call = c
      BY <1>3 DEF ReceiveAnswer, Receives, BookTypeOK
    <3>3. ~Untouched(c) /\ channel[c] # "idle"
      BY <3>2 DEF Untouched, CallbacksAreHeard
    <3>4. r \in Record /\ ~IsOver(r) /\ ~Terminal(c) /\ r.status = "active"
      BY <2>2 DEF Record, IsOver, Terminal
    <3>5. c \in refused' \/ Cardinality(Active) < Ceiling
      <4>1. CASE Cardinality(Active) >= Ceiling
        BY <1>3, <2>2, <4>1 DEF ReceiveAnswer
      <4>2. Cardinality(Active) \in Nat /\ Ceiling \in Nat
        BY CeilingAssumption, FS_Subset, FS_CardinalityType DEF Active
      <4> QED BY <4>1, <4>2
    <3>6. Suits(c, r)
      BY <3>1, <3>3, <3>4, <3>5 DEF Suits
    <3> QED BY <3>1, <3>4, <3>6 DEF Saves, Joins
  <2> QED BY <2>1, <2>2
<1>4. ASSUME NEW c \in Callbacks, ReceiveHangup(c) PROVE UNCHANGED records \/ Saves
  <2>1. 1 \in DOMAIN inbox /\ inbox[1].call = c /\ inbox[1].name = "hangup"
    BY <1>4 DEF ReceiveHangup, Receives, BookTypeOK
  <2>2. ~Untouched(c) /\ channel[c] = "over" /\ c \in Calls /\ c \notin Dials
    BY <2>1 DEF Untouched, CallbacksAreHeard, Calls
  <2>3. UNCHANGED <<row, channel>>
    BY <1>4 DEF ReceiveHangup
  <2>4. ASSUME NEW r \in Record, Save(c, r), IsOver(r) PROVE Saves
    <3>1. r.status \notin {"none", "active"}
      BY <2>4 DEF IsOver
    <3>2. Suits(c, r)
      BY <1>4, <2>2, <2>3, <2>4, <3>1 DEF Suits
    <3> QED BY <2>2, <2>3, <2>4, <3>2 DEF Saves, Joins
  <2>5. CASE Terminal(c)
    <3>1. call[c] \in Record
      BY <2>2 DEF BookTypeOK
    <3>2. [call[c] EXCEPT !.file = TRUE] \in Record
      BY <3>1 DEF Record
    <3>3. IsOver([call[c] EXCEPT !.file = TRUE])
      BY <2>5, <3>1 DEF IsOver, Terminal, Record
    <3> QED BY <1>4, <2>3, <2>4, <2>5, <3>2, <3>3 DEF ReceiveHangup, records
  <2>6. CASE ~Terminal(c)
    <3>1. /\ [status |-> "ended", file |-> Taped(c)] \in Record
          /\ IsOver([status |-> "ended", file |-> Taped(c)])
      BY DEF Record, IsOver, Taped
    <3> QED BY <1>4, <2>4, <2>6, <3>1 DEF ReceiveHangup
  <2> QED BY <2>5, <2>6
<1>5. ASSUME NEW d \in Dials, Dial(d) PROVE Saves
  <2> DEFINE r == [status |-> "active", file |-> FALSE]
  <2>1. /\ Save(d, r) /\ UNCHANGED <<row, channel, tape, disk, answering>> /\ d \in Calls
        /\ d \notin Callbacks
    BY <1>5 DEF Dial, Calls, control
  <2>2. call[d].status = "none" /\ Cardinality(Active) < Ceiling
    BY <1>5 DEF Dial
  <2>3. call[d] \in Copies(d) /\ ~call[d].file
    BY <2>1, <2>2 DEF Copies, CacheIsLast
  <2>4. disk[d] = "absent" /\ ~(answering[d] # "no" /\ channel[d] = "up")
    BY <2>2, <2>3 DEF DialsAreNamed
  <2>5. r \in Record /\ r.status = "active" /\ ~IsOver(r) /\ ~Terminal(d)
    BY <2>2 DEF Record, IsOver, Terminal
  <2>6. Suits(d, r)
    BY <2>1, <2>2, <2>4, <2>5 DEF Suits
  <2> QED BY <2>1, <2>5, <2>6 DEF Saves, Joins
<1>6. ASSUME NEW d \in Dials, NameRecording(d) PROVE UNCHANGED records \/ Saves
  <2> DEFINE r == [status |-> "active", file |-> TRUE]
  <2>1. CASE d \in Active \ terminations
    <3>1. Save(d, r) /\ UNCHANGED <<row, channel, tape, disk>> /\ d \in Calls /\ d \notin Callbacks
      BY <1>6, <2>1 DEF NameRecording, Calls, world
    <3>2. r \in Record /\ r.status = "active" /\ ~IsOver(r) /\ ~Terminal(d) /\ r.file
      BY <2>1 DEF Record, IsOver, Terminal, Active
    <3>3. Suits(d, r)
      BY <2>1, <3>1, <3>2 DEF Suits
    <3> QED BY <3>1, <3>2, <3>3 DEF Saves, Joins
  <2>2. CASE d \notin Active \ terminations
    BY <1>6, <2>2 DEF NameRecording, records
  <2> QED BY <2>1, <2>2
<1>7. ASSUME NEW c \in Calls, NEW s \in {"ended", "failed"}, Complete(c, s), UNCHANGED <<row, disk>>,
             c \in Active /\ c \in Callbacks => channel'[c] = "over",
             c \in Active /\ c \in Dials =>
               tape'[c] # "on" /\ ~(answering'[c] # "no" /\ channel'[c] = "up")
      PROVE  UNCHANGED records \/ Saves
  <2>1. CASE UNCHANGED <<call, writes>>
    BY <1>7, <2>1 DEF records
  <2>2. ASSUME NEW r \in Record, Save(c, r), IsOver(r), r.file = call[c].file, c \in Active
        PROVE  Saves
    <3>1. r.status \notin {"none", "active"} /\ call[c].status = "active" /\ call[c] \in Copies(c)
      BY <2>2 DEF IsOver, Active, Copies
    <3>2. c \in Dials => (disk[c] # "absent" => r.file)
      BY <2>2, <3>1 DEF DialsAreNamed
    <3>3. Suits(c, r)
      BY <1>7, <2>2, <3>1, <3>2 DEF Suits
    <3> QED BY <1>7, <2>2, <3>3 DEF Saves, Joins
  <2> QED BY <1>7, <2>1, <2>2, CompleteSaves
<1>8. ASSUME NEW d \in Dials, NotAnswered(d) PROVE UNCHANGED records \/ Saves
  <2>1. /\ d \in Calls /\ d \notin Callbacks /\ Complete(d, "failed")
        /\ UNCHANGED <<row, disk, channel, tape, answering>>
    BY <1>8 DEF NotAnswered, Calls, world, control
  <2>2. tape[d] # "on" /\ channel[d] = "idle"
    BY <1>8, <2>1 DEF NotAnswered, TapesFollowChannels
  <2> QED BY <1>7, <2>1, <2>2
<1>9. ASSUME NEW c \in Calls, HangupConfirmed(c) PROVE UNCHANGED records \/ Saves
  <2>1. Ends(c) /\ Complete(c, "ended") /\ UNCHANGED row
    BY <1>9 DEF HangupConfirmed
  <2>2. channel'[c] = "over" /\ tape'[c] # "on" /\ disk' = disk
    BY <2>1, EndsDoes
  <2> QED BY <1>7, <2>1, <2>2
<1>10. ASSUME NEW c \in Calls, HangUp(c) PROVE UNCHANGED records \/ Saves
  <2>1. Ends(c) /\ UNCHANGED row /\ (Complete(c, "ended") \/ UNCHANGED <<call, writes>>)
    BY <1>10 DEF HangUp
  <2>2. channel'[c] = "over" /\ tape'[c] # "on" /\ disk' = disk
    BY <2>1, EndsDoes
  <2>3. CASE UNCHANGED <<call, writes>>
    BY <2>1, <2>3 DEF records
  <2> QED BY <1>7, <2>1, <2>2, <2>3
<1>11. ASSUME NEW c \in Calls, RecSettles(c) PROVE UNCHANGED records \/ Saves
  <2> DEFINE r == [todo[c].is EXCEPT !.status = "failed"]
  <2>1. UNCHANGED <<row, disk, channel, tape, answering>>
    BY <1>11 DEF RecSettles, world, control
  <2>2. CASE c \notin Active
    BY <1>11, <2>2 DEF RecSettles, records
  <2>3. CASE c \in Active
    <3>1. Save(c, r) /\ c \in DOMAIN todo /\ ~todo[c].remote /\ rec = "settling"
      BY <1>11, <2>3 DEF RecSettles
    <3>2. SafeToSettle(c) /\ todo[c].is \in Record
      BY <3>1 DEF SettlingIsSafe, BookTypeOK, Listed
    <3>3. r \in Record /\ IsOver(r) /\ r.status = "failed" /\ r.file = todo[c].is.file
      BY <3>2 DEF Record, IsOver
    <3>4. call[c].status = "active" /\ ~Terminal(c)
      BY <2>3 DEF Active, Terminal
    <3>5. c \in Callbacks => channel[c] = "over" /\ ~r.file
      BY <3>1, <3>2, <3>3 DEF SafeToSettle
    <3>6. c \in Dials => /\ tape[c] # "on" /\ (disk[c] # "absent" => r.file)
                         /\ ~(answering[c] # "no" /\ channel[c] = "up")
      BY <3>1, <3>2, <3>3 DEF SafeToSettle
    <3>7. Suits(c, r)
      BY <2>1, <3>3, <3>4, <3>5, <3>6 DEF Suits
    <3> QED BY <2>1, <3>1, <3>3, <3>7 DEF Saves, Joins
  <2> QED BY <2>2, <2>3
<1> QED BY <1>1, <1>2, <1>3, <1>4, <1>5, <1>6, <1>8, <1>9, <1>10, <1>11, RecordMovers

-----------------------------------------------------------------------------
(* The world. *)

\* What one step may do to a call's channel, recorder and file.
Keeps(c) == channel'[c] = channel[c] /\ tape'[c] = tape[c] /\ disk'[c] = disk[c]
RingsIn(c) ==
  /\ c \in Callbacks /\ channel[c] = "idle" /\ channel'[c] = "up"
  /\ (tape'[c] = "never" /\ disk'[c] = "absent") \/ (tape'[c] = "on" /\ disk'[c] = "fresh")
IsOverNow(c) ==
  /\ channel'[c] = "over" /\ disk'[c] = disk[c]
  /\ tape'[c] = IF tape[c] = "on" THEN "off" ELSE tape[c]
PicksUp(c) ==
  /\ c \in Dials /\ channel[c] = "idle" /\ channel'[c] = "up"
  /\ tape'[c] = tape[c] /\ disk'[c] = disk[c]
IsTaped(c) ==
  /\ c \in Dials /\ channel[c] = "up" /\ channel'[c] = "up" /\ tape'[c] = "on" /\ disk'[c] = "fresh"
  /\ answering[c] = "naming" /\ writes = <<>> /\ UNCHANGED records /\ aged' = aged
Stales(c) ==
  /\ Tick /\ channel'[c] = channel[c] /\ tape'[c] = tape[c]
  /\ disk[c] = "fresh" /\ tape[c] # "on" /\ disk'[c] = "stale"
Loses(c) ==
  /\ channel'[c] = channel[c] /\ tape'[c] = tape[c] /\ disk'[c] = "absent"
  /\ Unlink(c) \/ RemoveOrphan(c)
  /\ c \in DOMAIN purge.victims \/ c \in purge.orphans

\* The steps that change a channel, a recorder or a file.
LEMMA WorldMovers ==
  ASSUME [Next]_vars
  PROVE  \/ UNCHANGED <<channel, tape, disk>>
         \/ Tick
         \/ \E c \in Callbacks : CallIn(c)
         \/ (up /\ tracker.at = "killing" /\ Ends(tracker.call))
         \/ \E c \in Calls : Ends(c)
         \/ \E d \in Dials : Answered(d) \/ StartRecording(d)
         \/ \E c \in Calls : Unlink(c) \/ RemoveOrphan(c)
<1>1. CASE BookStep
  <2>1. CASE Exit \/ BootFails \/ Commit \/ ReceiveSaved \/ RefusalFails \/ RecListed \/ RecFails \/ RecDone \/ Restart
    BY <2>1 DEF Exit, BootFails, Commit, ReceiveSaved, RefusalFails, RecListed, RecFails, RecDone,
       Restart, world
  <2>2. CASE RefusalConfirmed
    BY <2>2 DEF RefusalConfirmed
  <2>3. CASE \E c \in Callbacks : ReceiveAnswer(c) \/ ReceiveHangup(c)
    BY <2>3 DEF ReceiveAnswer, ReceiveHangup
  <2>4. CASE \E d \in Dials : NameRecording(d) \/ Dial(d) \/ NotAnswered(d)
    BY <2>4 DEF NameRecording, Dial, NotAnswered, world
  <2>5. CASE \E c \in Calls : HangupFails(c) \/ RecHangsUp(c) \/ RecSettles(c) \/ Stop(c)
    BY <2>5 DEF HangupFails, RecHangsUp, RecSettles, Stop, world
  <2>6. CASE \E c \in Calls : HangUp(c) \/ HangupConfirmed(c)
    BY <2>6 DEF HangUp, HangupConfirmed
  <2>7. CASE Drop \/ Reconnect
    BY <2>7 DEF Drop, Reconnect, world
  <2> QED BY <1>1, <2>1, <2>2, <2>3, <2>4, <2>5, <2>6, <2>7 DEF BookStep, BookNext, ApiStep,
             ChannelEnds
<1>2. CASE Ages \/ PurgeLists \/ PurgeSaved \/ PurgeEnds \/ PurgeFindsNothing \/ PurgeSaves
  BY <1>2 DEF Ages, PurgeLists, PurgeSaved, PurgeEnds, PurgeFindsNothing, Listens, PurgeSaves, bookVars, world
<1>4. CASE UNCHANGED vars
  BY <1>4 DEF vars, bookVars, world
<1> QED BY <1>1, <1>2, <1>4 DEF Next, Purges

\* What a step does to one call of these.
LEMMA WorldOf ==
  ASSUME IInv, [Next]_vars, NEW c \in Calls
  PROVE  Keeps(c) \/ RingsIn(c) \/ IsOverNow(c) \/ PicksUp(c) \/ IsTaped(c) \/ Stales(c) \/ Loses(c)
<1> USE CallAssumption DEF IInv, TypeOK, BookTypeOK
<1>1. CASE UNCHANGED <<channel, tape, disk>>
  BY <1>1 DEF Keeps
<1>2. CASE Tick
  BY <1>2 DEF Tick, Keeps, Stales
<1>3. ASSUME NEW x \in Callbacks, CallIn(x) PROVE Keeps(c) \/ RingsIn(c)
  BY <1>3 DEF CallIn, Keeps, RingsIn
<1>4. ASSUME NEW x \in Calls, Ends(x) PROVE Keeps(c) \/ IsOverNow(c)
  BY <1>4 DEF Ends, Keeps, IsOverNow
<1>5. ASSUME tracker.at = "killing", Ends(tracker.call) PROVE Keeps(c) \/ IsOverNow(c)
  <2>1. tracker.call \in Calls
    BY <1>5 DEF CallbacksAreHeard, Calls
  <2> QED BY <1>4, <1>5, <2>1
<1>6. ASSUME NEW d \in Dials, Answered(d) PROVE Keeps(c) \/ PicksUp(c)
  BY <1>6 DEF Answered, Keeps, PicksUp
<1>7. ASSUME NEW d \in Dials, StartRecording(d) PROVE Keeps(c) \/ IsTaped(c)
  BY <1>7 DEF StartRecording, Keeps, IsTaped, Flushed
<1>8. ASSUME NEW x \in Calls, Unlink(x) PROVE Keeps(c) \/ Loses(c)
  BY <1>8 DEF Unlink, Keeps, Loses
<1>9. ASSUME NEW x \in Calls, RemoveOrphan(x) PROVE Keeps(c) \/ Loses(c)
  BY <1>9 DEF RemoveOrphan, Keeps, Loses
<1> QED BY <1>1, <1>2, <1>3, <1>4, <1>5, <1>6, <1>7, <1>8, <1>9, WorldMovers

\* Records: which copies a step adds.
LEMMA CopiesOf ==
  ASSUME IInv, [Next]_vars, NEW c \in Calls, NEW r \in Copies(c)'
  PROVE  r \in Copies(c) \/ (r \in Record /\ Joins(c, r))
<1> USE DEF IInv, TypeOK, BookTypeOK
<1>0. r \in {call'[c], row'[c]} \/ \E i \in DOMAIN writes' : writes'[i].call = c /\ r = writes'[i].is
  BY DEF Copies
<1>1. CASE UNCHANGED records
  BY <1>0, <1>1 DEF records, Copies
<1>2. CASE Commit
  <2>1. writes # <<>> /\ writes' = Tail(writes) /\ call' = call
        /\ row' = [row EXCEPT ![Head(writes).call] = Head(writes).is]
    BY <1>2 DEF Commit
  <2>2. Head(writes) = writes[1] /\ 1 \in DOMAIN writes
    BY <2>1
  <2>3. \A i \in DOMAIN writes' : i + 1 \in DOMAIN writes /\ writes'[i] = writes[i + 1]
    BY <2>1
  <2>4. CASE r = call'[c]
    BY <2>1, <2>4 DEF Copies
  <2>5. CASE r = row'[c]
    BY <2>1, <2>2, <2>5 DEF Copies
  <2>6. CASE \E i \in DOMAIN writes' : writes'[i].call = c /\ r = writes'[i].is
    BY <2>3, <2>6 DEF Copies
  <2> QED BY <1>0, <2>4, <2>5, <2>6
<1>3. CASE Lost
  BY <1>0, <1>3 DEF Lost, Copies
<1>4. CASE Saves
  <2> PICK x \in Calls, s \in Record : Joins(x, s)
    BY <1>4 DEF Saves
  <2>1. /\ call' = [call EXCEPT ![x] = s] /\ writes' = Append(writes, [call |-> x, is |-> s])
        /\ row' = row
    BY DEF Joins, Save
  <2>2. \A i \in DOMAIN writes' : \/ i \in DOMAIN writes /\ writes'[i] = writes[i]
                                  \/ writes'[i] = [call |-> x, is |-> s]
    BY <2>1
  <2>3. r \in Copies(c) \/ (r = s /\ x = c)
    <3>1. CASE r = call'[c]
      BY <2>1, <3>1 DEF Copies
    <3>2. CASE r = row'[c]
      BY <2>1, <3>2 DEF Copies
    <3>3. CASE \E i \in DOMAIN writes' : writes'[i].call = c /\ r = writes'[i].is
      BY <2>2, <3>3 DEF Copies
    <3> QED BY <1>0, <3>1, <3>2, <3>3
  <2> QED BY <2>3
<1> QED BY <1>1, <1>2, <1>3, <1>4, SavesSuit

-----------------------------------------------------------------------------
(* The queue of writes, prefix by prefix. *)

\* A commit takes from the front: what k writes will say, k + 1 said before it.
LEMMA CommitIsWhatWasSaid ==
  ASSUME IInv, Commit, NEW k \in 0..Len(writes'), NEW c \in Calls, NEW r \in Record
  PROVE  /\ k + 1 \in 0..Len(writes)
         /\ After(k, c, r)' <=> After(k + 1, c, r)
<1>0. writes \in Seq([call : Calls, is : Record]) /\ row \in [Calls -> Record]
  BY DEF IInv, TypeOK, BookTypeOK
<1>1. /\ writes # <<>> /\ writes' = Tail(writes)
      /\ row' = [row EXCEPT ![Head(writes).call] = Head(writes).is]
  BY DEF Commit
<1>11. Head(writes) = writes[1] /\ Len(writes) \in Nat \ {0}
  BY <1>0, <1>1
<1>12. 1 \in DOMAIN writes
  BY <1>0, <1>11
<1>13. writes[1] \in [call : Calls, is : Record]
  <2> DEFINE W == [call : Calls, is : Record]
  <2>1. writes \in Seq(W)
    BY <1>0
  <2> HIDE DEF W
  <2>2. writes[1] \in W
    BY <2>1, <1>12
  <2> QED BY <2>2 DEF W
<1>14. Len(writes') = Len(writes) - 1 /\ \A i \in 1..Len(writes') : writes'[i] = writes[i + 1]
  BY <1>0, <1>1
<1>2. /\ Len(writes) \in Nat /\ Len(writes') = Len(writes) - 1
      /\ \A i \in 1..Len(writes') : writes'[i] = writes[i + 1]
      /\ 1 \in DOMAIN writes /\ writes[1] \in [call : Calls, is : Record]
  BY <1>11, <1>12, <1>13, <1>14
<1>3. k + 1 \in 1..Len(writes) /\ k \in Nat
  BY <1>2
<1>4. \A i \in 1..k : writes'[i] = writes[i + 1]
  BY <1>2
<1>5. writes[1].call = c => row'[c] = writes[1].is
  BY <1>0, <1>1, <1>11, <1>13
<1>6. writes[1].call # c => row'[c] = row[c]
  BY <1>0, <1>1, <1>11, <1>13
<1>7. ASSUME After(k, c, r)' PROVE After(k + 1, c, r)
  <2>1. ASSUME NEW i \in 1..k, writes'[i] = [call |-> c, is |-> r], \A j \in (i + 1)..k : writes'[j].call # c
        PROVE  After(k + 1, c, r)
    <3>1. i + 1 \in 1..(k + 1) /\ writes[i + 1] = [call |-> c, is |-> r]
      BY <1>3, <1>4, <2>1
    <3>2. ASSUME NEW j \in (i + 1 + 1)..(k + 1) PROVE writes[j].call # c
      <4>1. j - 1 \in (i + 1)..k /\ j - 1 \in 1..k /\ (j - 1) + 1 = j
        BY <1>3
      <4> QED BY <1>4, <2>1, <4>1
    <3> QED BY <3>1, <3>2 DEF After
  <2>2. ASSUME r = row'[c], \A j \in 1..k : writes'[j].call # c
        PROVE  After(k + 1, c, r)
    <3>1. ASSUME NEW j \in 2..(k + 1) PROVE writes[j].call # c
      <4>1. j - 1 \in 1..k /\ (j - 1) + 1 = j
        BY <1>3
      <4> QED BY <1>4, <2>2, <4>1
    <3>2. CASE writes[1].call = c
      <4>1. writes[1] = [call |-> c, is |-> r]
        BY <1>2, <1>5, <2>2, <3>2
      <4>2. 1 \in 1..(k + 1) /\ \A j \in (1 + 1)..(k + 1) : writes[j].call # c
        BY <1>3, <3>1
      <4> QED BY <4>1, <4>2 DEF After
    <3>3. CASE writes[1].call # c
      <4>1. \A j \in 1..(k + 1) : j = 1 \/ j \in 2..(k + 1)
        BY <1>3
      <4> QED BY <1>6, <2>2, <3>1, <3>3, <4>1 DEF After
    <3> QED BY <3>2, <3>3
  <2> QED BY <1>7, <2>1, <2>2 DEF After
<1>8. ASSUME After(k + 1, c, r) PROVE After(k, c, r)'
  <2>1. ASSUME NEW i \in 1..(k + 1), writes[i] = [call |-> c, is |-> r], \A j \in (i + 1)..(k + 1) : writes[j].call # c
        PROVE  After(k, c, r)'
    <3>1. ASSUME NEW j \in i..k, j \in 1..k PROVE writes'[j].call # c
      <4>1. j + 1 \in (i + 1)..(k + 1)
        BY <1>3
      <4> QED BY <1>4, <2>1, <3>1, <4>1
    <3>2. CASE i = 1
      <4>1. \A j \in 1..k : writes'[j].call # c
        BY <3>1, <3>2
      <4>2. row'[c] = r
        BY <1>5, <2>1, <3>2
      <4> QED BY <4>1, <4>2 DEF After
    <3>3. CASE i # 1
      <4>1. i - 1 \in 1..k /\ (i - 1) + 1 = i
        BY <1>3, <3>3
      <4>2. writes'[i - 1] = [call |-> c, is |-> r]
        BY <1>4, <2>1, <4>1
      <4>3. \A j \in ((i - 1) + 1)..k : writes'[j].call # c
        BY <1>3, <3>1, <4>1
      <4> QED BY <4>1, <4>2, <4>3 DEF After
    <3> QED BY <3>2, <3>3
  <2>2. ASSUME r = row[c], \A j \in 1..(k + 1) : writes[j].call # c
        PROVE  After(k, c, r)'
    <3>1. ASSUME NEW j \in 1..k PROVE writes'[j].call # c
      <4>1. j + 1 \in 1..(k + 1)
        BY <1>3
      <4> QED BY <1>4, <2>2, <4>1
    <3>2. row'[c] = r
      <4>1. 1 \in 1..(k + 1)
        BY <1>3
      <4> QED BY <1>6, <2>2, <4>1
    <3> QED BY <3>1, <3>2 DEF After
  <2> QED BY <1>8, <2>1, <2>2 DEF After
<1> QED BY <1>2, <1>3, <1>7, <1>8

\* A save adds what memory says behind every prefix of the queue, and changes none.
LEMMA SaveIsTheLast ==
  ASSUME IInv, NEW x \in Calls, NEW s \in Record, Save(x, s), UNCHANGED row, NEW c \in Calls, NEW r \in Record,
         NEW n \in Nat, n = Len(writes)
  PROVE  /\ Len(writes') = n + 1
         /\ \A k \in 0..n : \E b \in BOOLEAN : b = After(k, c, r)' /\ b = After(k, c, r)
         /\ After(n + 1, c, r)' <=> IF c = x THEN r = s ELSE After(n, c, r)
<1>0. writes \in Seq([call : Calls, is : Record]) /\ row \in [Calls -> Record]
  BY DEF IInv, TypeOK, BookTypeOK
<1>1. /\ n \in Nat /\ Len(writes') = n + 1
      /\ \A i \in 1..n : writes'[i] = writes[i]
      /\ writes'[n + 1] = [call |-> x, is |-> s]
  BY <1>0 DEF Save
<1>2. ASSUME NEW k \in 0..n PROVE After(k, c, r)' <=> After(k, c, r)
  <2>1. \A i \in 1..k : writes'[i] = writes[i]
    BY <1>1
  <2>2. \A i \in 1..k : \A j \in (i + 1)..k : j \in 1..k
    BY <1>1
  <2>3. row'[c] = row[c]
    OBVIOUS
  <2> QED BY <2>1, <2>2, <2>3 DEF After
<1>3. \A k \in 0..n : \E b \in BOOLEAN : b = After(k, c, r)' /\ b = After(k, c, r)
  <2> TAKE k \in 0..n
  <2>1. After(k, c, r) \in BOOLEAN
    BY DEF After
  <2>2. After(k, c, r)' \in BOOLEAN
    BY DEF After
  <2> QED BY <1>2, <2>1, <2>2
<1>4. CASE c = x
  <2>1. ASSUME After(n + 1, c, r)' PROVE r = s
    <3>1. n + 1 \in 1..(n + 1)
      BY <1>1
    <3>2. \A i \in 1..(n + 1) : i = n + 1 \/ n + 1 \in (i + 1)..(n + 1)
      BY <1>1
    <3> QED BY <1>1, <1>4, <2>1, <3>1, <3>2 DEF After
  <2>2. ASSUME r = s PROVE After(n + 1, c, r)'
    <3>1. n + 1 \in 1..(n + 1) /\ (n + 1 + 1)..(n + 1) = {}
      BY <1>1
    <3> QED BY <1>1, <1>4, <2>2, <3>1 DEF After
  <2> QED BY <1>1, <1>3, <1>4, <2>1, <2>2
<1>5. CASE c # x
  <2>1. \A i \in 1..(n + 1) : i \in 1..n \/ i = n + 1
    BY <1>1
  <2>2. \A i \in 1..n : i \in 1..(n + 1) /\ \A j \in (i + 1)..n : j \in (i + 1)..(n + 1)
    BY <1>1
  <2>3. \A i \in 1..n : \A j \in (i + 1)..(n + 1) : (j \in 1..n /\ j \in (i + 1)..n) \/ j = n + 1
    BY <1>1
  <2>4. row'[c] = row[c] /\ writes'[n + 1].call # c
    BY <1>1, <1>5
  <2>5. ASSUME After(n + 1, c, r)' PROVE After(n, c, r)
    BY <1>1, <1>5, <2>1, <2>2, <2>3, <2>4, <2>5 DEF After
  <2>6. ASSUME After(n, c, r) PROVE After(n + 1, c, r)'
    BY <1>1, <1>5, <2>1, <2>2, <2>3, <2>4, <2>6 DEF After
  <2> QED BY <1>1, <1>3, <1>5, <2>5, <2>6
<1> QED BY <1>1, <1>3, <1>4, <1>5

-----------------------------------------------------------------------------
(* What memory and Postgres say. *)

\* Memory stays what Postgres will hold in the end.
LEMMA CacheStep ==
  ASSUME IInv, [Next]_vars
  PROVE  CacheIsLast'
<1>0. /\ writes \in Seq([call : Calls, is : Record]) /\ row \in [Calls -> Record]
      /\ call \in [Calls -> Record]
      /\ CacheIsLast
  BY DEF IInv, TypeOK, BookTypeOK
<1>1. ~up' => writes' = <<>>
  BY <1>0, DownLosesAll DEF Lost, records, CacheIsLast
<1>2. ASSUME NEW c \in Calls PROVE \A r \in Copies(c)' : r.status = "none" => ~r.file
  <2> TAKE r \in Copies(c)'
  <2> QED BY <1>0, CopiesOf DEF CacheIsLast, Joins, Suits
<1>3. \A i \in DOMAIN writes' : writes'[i].is.status # "none"
  <2>1. CASE UNCHANGED records
    BY <1>0, <2>1 DEF CacheIsLast, records
  <2>2. CASE Lost
    BY <2>2 DEF Lost
  <2>3. CASE Commit
    <3>1. writes # <<>> /\ writes' = Tail(writes)
      BY <2>3 DEF Commit
    <3>2. \A i \in DOMAIN writes' : i + 1 \in DOMAIN writes /\ writes'[i] = writes[i + 1]
      BY <1>0, <3>1
    <3> QED BY <1>0, <3>2 DEF CacheIsLast
  <2>4. CASE Saves
    <3> PICK x \in Calls, s \in Record : Joins(x, s)
      BY <2>4 DEF Saves
    <3>1. writes' = Append(writes, [call |-> x, is |-> s]) /\ s.status # "none"
      BY DEF Joins, Save, Suits
    <3>2. \A i \in DOMAIN writes' : (i \in DOMAIN writes /\ writes'[i] = writes[i])
                                    \/ writes'[i] = [call |-> x, is |-> s]
      BY <1>0, <3>1
    <3> QED BY <1>0, <3>1, <3>2 DEF CacheIsLast
  <2> QED BY <2>1, <2>2, <2>3, <2>4, SavesSuit
<1>4. ASSUME NEW c \in Calls PROVE After(Len(writes), c, call[c])'
  <2>0. After(Len(writes), c, call[c]) /\ Len(writes) \in Nat /\ call[c] \in Record
    BY <1>0 DEF CacheIsLast
  <2>1. CASE UNCHANGED records
    <3>1. writes' = writes /\ call' = call /\ row' = row
      BY <2>1 DEF records
    <3> QED BY <2>0, <3>1 DEF After
  <2>2. CASE Lost
    <3>1. writes' = <<>> /\ call' = row' /\ Len(writes') = 0
      BY <2>2 DEF Lost
    <3>2. \A j \in 1..Len(writes') : FALSE
      BY <3>1
    <3> QED BY <3>1, <3>2 DEF After
  <2>3. CASE Commit
    <3>1. PICK k : k = Len(writes')
      OBVIOUS
    <3>2. PICK r : r = call[c]
      OBVIOUS
    <3>3. k \in 0..Len(writes') /\ Len(writes) = k + 1 /\ call' = call
      <4>1. writes # <<>> /\ writes' = Tail(writes) /\ call' = call
        BY <2>3 DEF Commit
      <4> QED BY <1>0, <3>1, <4>1
    <3>4. After(k + 1, c, r)
      BY <2>0, <3>2, <3>3
    <3>5. After(k, c, r)'
      BY <2>0, <2>3, <3>2, <3>3, <3>4, CommitIsWhatWasSaid
    <3>6. call'[c] = r
      BY <3>2, <3>3
    <3> QED BY <3>1, <3>5, <3>6 DEF After
  <2>4. CASE Saves
    <3> PICK x \in Calls, s \in Record : Joins(x, s)
      BY <2>4 DEF Saves
    <3>1. PICK n \in Nat : n = Len(writes)
      BY <2>0
    <3>2. PICK r : r = call'[c]
      OBVIOUS
    <3>3. call' = [call EXCEPT ![x] = s] /\ Save(x, s) /\ UNCHANGED row
      BY DEF Joins, Save
    <3>4. r \in Record /\ (c = x => r = s) /\ (c # x => r = call[c])
      BY <1>0, <3>2, <3>3
    <3>5. Len(writes') = n + 1 /\ (After(n + 1, c, r)' <=> IF c = x THEN r = s ELSE After(n, c, r))
      BY <3>1, <3>3, <3>4, SaveIsTheLast
    <3>6. After(n + 1, c, r)'
      BY <2>0, <3>1, <3>4, <3>5
    <3> QED BY <3>2, <3>5, <3>6 DEF After
  <2> QED BY <2>1, <2>2, <2>3, <2>4, SavesSuit
<1> QED BY <1>1, <1>2, <1>3, <1>4 DEF CacheIsLast

\* What the records say after all the writes is what memory says.
LEMMA AfterIsOne ==
  ASSUME IInv, NEW c \in Calls, NEW k \in 0..Len(writes), NEW r, NEW s, After(k, c, r), After(k, c, s)
  PROVE  r = s
<1>0. writes \in Seq([call : Calls, is : Record]) /\ k \in Nat
  BY DEF IInv, TypeOK, BookTypeOK
<1>1. ASSUME NEW i \in 1..k, NEW j \in 1..k, writes[i].call = c, writes[j].call = c,
             \A m \in (i + 1)..k : writes[m].call # c, \A m \in (j + 1)..k : writes[m].call # c
      PROVE  i = j
  <2>1. ~(j \in (i + 1)..k) /\ ~(i \in (j + 1)..k)
    BY <1>1
  <2> QED BY <1>0, <2>1
<1>2. \A i \in 1..k : writes[i] = [call |-> c, is |-> r] => writes[i].call = c /\ writes[i].is = r
  OBVIOUS
<1>3. \A i \in 1..k : writes[i] = [call |-> c, is |-> s] => writes[i].call = c /\ writes[i].is = s
  OBVIOUS
<1> QED BY <1>1, <1>2, <1>3 DEF After

\* So the calls active after all the writes are those active in memory.
LEMMA ActiveAtLast ==
  ASSUME IInv
  PROVE  ActiveAfter(Len(writes)) = Active
<1>0. /\ writes \in Seq([call : Calls, is : Record]) /\ call \in [Calls -> Record]
      /\ \A c \in Calls : After(Len(writes), c, call[c])
  BY DEF IInv, TypeOK, BookTypeOK, CacheIsLast
<1>1. Len(writes) \in 0..Len(writes)
  BY <1>0
<1>2. ASSUME NEW c \in Calls, NEW r \in Record, After(Len(writes), c, r) PROVE r = call[c]
  BY <1>0, <1>1, <1>2, AfterIsOne
<1>3. \A c \in Calls : call[c] \in Record
  BY <1>0
<1>4. \A c \in Calls : c \in ActiveAfter(Len(writes)) <=> c \in Active
  BY <1>0, <1>2, <1>3 DEF ActiveAfter, Active
<1> QED BY <1>4 DEF ActiveAfter, Active

\* A call memory knows nothing of has no record in Postgres either.
LEMMA NoneThroughout ==
  ASSUME IInv, NEW c \in Calls, call[c].status = "none"
  PROVE  row[c] = call[c]
<1>1. /\ After(Len(writes), c, call[c])
      /\ \A i \in DOMAIN writes : writes[i].is.status # "none"
      /\ writes \in Seq([call : Calls, is : Record])
  BY DEF IInv, TypeOK, BookTypeOK, CacheIsLast
<1>2. \A i \in 1..Len(writes) : writes[i].is # call[c]
  BY <1>1
<1> QED BY <1>1, <1>2 DEF After

-----------------------------------------------------------------------------
(* The ceiling. *)

\* Sets of calls are finite.
LEMMA ActiveFinite ==
  ASSUME NEW S \in SUBSET Calls
  PROVE  IsFiniteSet(S) /\ Cardinality(S) \in Nat
  BY CallAssumption, FS_Subset, FS_CardinalityType

\* A refusal is never forgotten.
LEMMA RefusedGrows ==
  ASSUME [Next]_vars
  PROVE  refused \subseteq refused'
<1>1. CASE BookStep
  <2>1. CASE \E c \in Callbacks : ReceiveAnswer(c)
    BY <2>1 DEF ReceiveAnswer
  <2>2. CASE Exit \/ BootFails \/ Commit \/ ReceiveSaved \/ RefusalFails \/ RefusalConfirmed \/ RecListed \/ RecFails \/ RecDone \/ Restart
    BY <2>2 DEF Exit, BootFails, Commit, ReceiveSaved, RefusalFails, RefusalConfirmed, RecListed,
       RecFails, RecDone, Restart, inbound
  <2>3. CASE (\E c \in Callbacks : CallIn(c) \/ ReceiveHangup(c)) \/ (\E d \in Dials : NameRecording(d) \/ StartRecording(d))
    BY <2>3 DEF CallIn, ReceiveHangup, NameRecording, StartRecording, inbound
  <2>4. CASE \E d \in Dials : Dial(d) \/ Answered(d) \/ NotAnswered(d)
    BY <2>4 DEF Dial, Answered, NotAnswered, inbound
  <2>5. CASE \E c \in Calls : HangupConfirmed(c) \/ HangupFails(c) \/ RecHangsUp(c) \/ RecSettles(c) \/ Stop(c) \/ HangUp(c)
    BY <2>5 DEF HangupConfirmed, HangupFails, RecHangsUp, RecSettles, Stop, HangUp, inbound
  <2>6. CASE Drop \/ Reconnect
    BY <2>6 DEF Drop, Reconnect, inbound
  <2> QED BY <1>1, <2>1, <2>2, <2>3, <2>4, <2>5, <2>6 DEF BookStep, BookNext, ApiStep, ChannelEnds
<1>2. CASE Tick \/ Ages \/ PurgeLists \/ PurgeSaved \/ PurgeEnds \/ PurgeFindsNothing \/ PurgeSaves
  BY <1>2 DEF Tick, Ages, PurgeLists, PurgeSaved, PurgeEnds, PurgeFindsNothing, Listens, PurgeSaves, bookVars, inbound
<1>3. CASE \E c \in Calls : Unlink(c) \/ RemoveOrphan(c)
  BY <1>3 DEF Unlink, RemoveOrphan, inbound
<1>4. CASE UNCHANGED vars
  BY <1>4 DEF vars, bookVars, inbound
<1> QED BY <1>1, <1>2, <1>3, <1>4 DEF Next, Purges

\* After any number of the writes the ceiling is kept.
LEMMA CeilingStep ==
  ASSUME IInv, [Next]_vars
  PROVE  CeilingAhead'
<1>01. writes \in Seq([call : Calls, is : Record])
  BY DEF IInv, TypeOK, BookTypeOK
<1>02. \A k \in 0..Len(writes) : Cardinality(ActiveAfter(k) \ refused) <= Ceiling
  BY DEF IInv, CeilingAhead
<1>0. /\ writes \in Seq([call : Calls, is : Record]) /\ Len(writes) \in Nat
      /\ \A k \in 0..Len(writes) : Cardinality(ActiveAfter(k) \ refused) <= Ceiling
      /\ Ceiling \in Nat
  BY <1>01, <1>02, CeilingAssumption
<1>1. ASSUME NEW k \in 0..Len(writes')
      PROVE  \E S \in SUBSET Calls : S = ActiveAfter(k)' /\ Cardinality(S \ refused') <= Ceiling
  <2> SUFFICES ASSUME NEW S \in SUBSET Calls, S = {c \in Calls : \E r \in Record : After(k, c, r)' /\ r.status = "active"}
               PROVE  Cardinality(S \ refused') <= Ceiling
    BY DEF ActiveAfter
  <2>1. ASSUME NEW m \in 0..Len(writes), S \ refused' \subseteq ActiveAfter(m) \ refused
        PROVE  Cardinality(S \ refused') <= Ceiling
    <3>1. ActiveAfter(m) \ refused \in SUBSET Calls
      BY DEF ActiveAfter
    <3>2. IsFiniteSet(ActiveAfter(m) \ refused) /\ Cardinality(ActiveAfter(m) \ refused) \in Nat
      BY <3>1, ActiveFinite
    <3>3. /\ Cardinality(S \ refused') <= Cardinality(ActiveAfter(m) \ refused)
          /\ Cardinality(S \ refused') \in Nat
      BY <2>1, <3>2, FS_Subset, ActiveFinite
    <3> QED BY <1>0, <3>2, <3>3
  <2>2. CASE UNCHANGED records
    <3>1. writes' = writes /\ row' = row
      BY <2>2 DEF records
    <3>2. S \subseteq ActiveAfter(k) /\ k \in 0..Len(writes)
      BY <3>1 DEF ActiveAfter, After
    <3> QED BY <2>1, <3>2, RefusedGrows
  <2>3. CASE Lost
    <3>1. writes' = <<>> /\ row' = row /\ k = 0
      BY <2>3 DEF Lost
    <3>2. 0 \in 0..Len(writes) /\ 1..0 = {}
      BY <1>0
    <3>3. S \subseteq ActiveAfter(0)
      BY <3>1, <3>2 DEF ActiveAfter, After
    <3> QED BY <2>1, <3>2, <3>3, RefusedGrows
  <2>4. CASE Commit
    <3>1. \A c \in Calls, r \in Record : k + 1 \in 0..Len(writes) /\ (After(k, c, r)' => After(k + 1, c, r))
      BY <2>4, CommitIsWhatWasSaid
    <3>2. S \subseteq ActiveAfter(k + 1)
      BY <3>1 DEF ActiveAfter
    <3>3. k + 1 \in 0..Len(writes)
      <4>1. writes # <<>> /\ writes' = Tail(writes)
        BY <2>4 DEF Commit
      <4>2. Len(writes') + 1 = Len(writes)
        BY <1>0, <4>1
      <4> QED BY <1>0, <4>2
    <3> QED BY <2>1, <3>2, <3>3, RefusedGrows
  <2>5. CASE Saves
    <3> PICK x \in Calls, s \in Record : Joins(x, s)
      BY <2>5 DEF Saves
    <3>1. PICK n \in Nat : n = Len(writes)
      BY <1>0
    <3>2. Save(x, s) /\ UNCHANGED row
      BY DEF Joins
    <3>3. \A c \in Calls, r \in Record :
            /\ \A m \in 0..n : After(m, c, r)' => After(m, c, r)
            /\ After(n + 1, c, r)' => IF c = x THEN r = s ELSE After(n, c, r)
      <4> TAKE c \in Calls, r \in Record
      <4>1. /\ \A m \in 0..n : \E b \in BOOLEAN : b = After(m, c, r)' /\ b = After(m, c, r)
            /\ After(n + 1, c, r)' <=> IF c = x THEN r = s ELSE After(n, c, r)
        BY <3>1, <3>2, SaveIsTheLast
      <4> QED BY <4>1
    <3>4. k \in 0..n \/ k = n + 1
      <4>1. Len(writes') = n + 1
        BY <1>0, <3>1, <3>2 DEF Save
      <4> QED BY <4>1
    <3>5. CASE k \in 0..n
      <4>1. S \subseteq ActiveAfter(k)
        BY <3>3, <3>5 DEF ActiveAfter
      <4> QED BY <2>1, <3>1, <3>5, <4>1, RefusedGrows
    <3>6. CASE k = n + 1
      <4>1. n \in 0..Len(writes) /\ ActiveAfter(n) = Active
        BY <3>1, ActiveAtLast
      <4>2. S \subseteq {c \in Calls : c \in Active \/ (c = x /\ s.status = "active")}
        <5>1. ASSUME NEW c \in S PROVE c \in Active \/ (c = x /\ s.status = "active")
          <6>1. PICK r \in Record : After(k, c, r)' /\ r.status = "active"
            OBVIOUS
          <6>2. IF c = x THEN r = s ELSE After(n, c, r)
            BY <3>3, <3>6, <6>1
          <6>3. c # x => c \in ActiveAfter(n)
            BY <6>1, <6>2 DEF ActiveAfter
          <6> QED BY <4>1, <6>1, <6>2, <6>3
        <5> QED BY <5>1
      <4>3. Active \in SUBSET Calls
        BY DEF Active
      <4>4. CASE S \ refused' \subseteq Active \ refused
        BY <2>1, <4>1, <4>4
      <4>5. CASE ~(S \ refused' \subseteq Active \ refused)
        <5>1. s.status = "active" /\ ~(x \in Active \union refused')
          BY <4>2, <4>5, RefusedGrows
        <5>2. Cardinality(Active) < Ceiling
          BY <5>1 DEF Joins, Suits
        <5>3. /\ Cardinality(Active \union {x}) = Cardinality(Active) + 1
              /\ Cardinality(Active) \in Nat
          BY <4>3, <5>1, ActiveFinite, FS_AddElement
        <5>4. S \ refused' \subseteq Active \union {x}
          BY <4>2
        <5>5. /\ Cardinality(S \ refused') <= Cardinality(Active \union {x})
              /\ Cardinality(S \ refused') \in Nat
          BY <4>3, <5>4, ActiveFinite, FS_Subset
        <5> QED BY <1>0, <5>2, <5>3, <5>5
      <4> QED BY <4>4, <4>5
    <3> QED BY <3>4, <3>5, <3>6
  <2> QED BY <2>2, <2>3, <2>4, <2>5, SavesSuit
<1> QED BY <1>1 DEF CeilingAhead

-----------------------------------------------------------------------------
(* Recorders and callbacks. *)

\* Recorders follow their channels.
LEMMA TapesStep ==
  ASSUME IInv, [Next]_vars
  PROVE  TapesFollowChannels'
<1> SUFFICES ASSUME NEW c \in Calls
             PROVE  /\ channel'[c] = "idle" => tape'[c] = "never" /\ disk'[c] = "absent"
                    /\ tape'[c] = "on" => channel'[c] = "up"
                    /\ tape'[c] = "off" => channel'[c] = "over"
                    /\ disk'[c] # "absent" => tape'[c] # "never"
  BY DEF TapesFollowChannels
<1>1. /\ channel[c] = "idle" => tape[c] = "never" /\ disk[c] = "absent"
      /\ tape[c] = "on" => channel[c] = "up"
      /\ tape[c] = "off" => channel[c] = "over"
      /\ disk[c] # "absent" => tape[c] # "never"
  BY DEF IInv, TapesFollowChannels
<1> QED BY <1>1, WorldOf DEF Keeps, RingsIn, IsOverNow, PicksUp, IsTaped, Stales, Loses

\* A channel only goes on.
LEMMA Onward ==
  ASSUME IInv, [Next]_vars, NEW c \in Calls
  PROVE  /\ channel[c] # "idle" => channel'[c] # "idle"
         /\ channel[c] = "over" => channel'[c] = "over"
  BY WorldOf DEF Keeps, RingsIn, IsOverNow, PicksUp, IsTaped, Stales, Loses

\* What the tracker still has to hear, and what it has in hand.
LEMMA InboxMovers ==
  ASSUME [Next]_vars
  PROVE  \/ UNCHANGED inbox
         \/ Lost
         \/ \E c \in Callbacks : CallIn(c) \/ ReceiveAnswer(c) \/ ReceiveHangup(c)
         \/ (tracker.at = "killing" /\ Ends(tracker.call))
         \/ \E c \in Calls : Ends(c)
<1>1. CASE BookStep
  <2>1. CASE Exit \/ BootFails
    BY <1>1, <2>1 DEF Exit, BootFails, ProcessEnds, Lost, BookStep
  <2>2. CASE Commit \/ ReceiveSaved \/ RefusalFails \/ RecListed \/ RecFails \/ RecDone \/ Restart
    BY <2>2 DEF Commit, ReceiveSaved, RefusalFails, RecListed, RecFails, RecDone, Restart, inbound
  <2>3. CASE RefusalConfirmed
    BY <2>3 DEF RefusalConfirmed
  <2>4. CASE \E d \in Dials : NameRecording(d) \/ StartRecording(d) \/ Dial(d) \/ Answered(d) \/ NotAnswered(d)
    BY <2>4 DEF NameRecording, StartRecording, Dial, Answered, NotAnswered, inbound
  <2>5. CASE \E c \in Calls : HangupFails(c) \/ RecHangsUp(c) \/ RecSettles(c) \/ Stop(c)
    BY <2>5 DEF HangupFails, RecHangsUp, RecSettles, Stop, inbound
  <2>6. CASE \E c \in Calls : HangupConfirmed(c) \/ HangUp(c)
    BY <2>6 DEF HangupConfirmed, HangUp
  <2>7. CASE Drop \/ Reconnect
    BY <2>7 DEF Drop, Reconnect, inbound
  <2> QED BY <1>1, <2>1, <2>2, <2>3, <2>4, <2>5, <2>6, <2>7 DEF BookStep, BookNext, ApiStep,
             ChannelEnds
<1>2. CASE Tick \/ Ages \/ PurgeLists \/ PurgeSaved \/ PurgeEnds \/ PurgeFindsNothing \/ PurgeSaves
  BY <1>2 DEF Tick, Ages, PurgeLists, PurgeSaved, PurgeEnds, PurgeFindsNothing, Listens, PurgeSaves, bookVars, inbound
<1>3. CASE \E c \in Calls : Unlink(c) \/ RemoveOrphan(c)
  BY <1>3 DEF Unlink, RemoveOrphan, inbound
<1>4. CASE UNCHANGED vars
  BY <1>4 DEF vars, bookVars, inbound
<1> QED BY <1>1, <1>2, <1>3, <1>4 DEF Next, Purges

\* What an event says of its channel.
Heard(e) ==
  /\ e \in [name : {"answer", "hangup"}, call : Callbacks]
  /\ channel'[e.call] # "idle" /\ (e.name = "hangup" => channel'[e.call] = "over")

\* An event that arrives.
Fresh(e) == Heard(e) /\ (channel[e.call] = "idle" \/ channel[e.call] = "up")

\* Nothing else enters the inbox.
LEMMA InboxOf ==
  ASSUME IInv, [Next]_vars
  PROVE  /\ inbox' \in Seq([name : {"answer", "hangup"}, call : Callbacks])
         /\ \A i \in DOMAIN inbox' : (\E j \in DOMAIN inbox : inbox'[i] = inbox[j]) \/ Fresh(inbox'[i])
<1> DEFINE E == [name : {"answer", "hangup"}, call : Callbacks]
<1>0. /\ inbox \in Seq(E) /\ channel \in [Calls -> {"idle", "up", "over"}]
      /\ Callbacks \subseteq Calls
  BY DEF IInv, TypeOK, BookTypeOK, Calls
<1>1. CASE UNCHANGED inbox
  BY <1>0, <1>1
<1>2. CASE Lost
  BY <1>2 DEF Lost
<1>3. ASSUME inbox # <<>>, inbox' = Tail(inbox)
      PROVE  inbox' \in Seq(E) /\ \A i \in DOMAIN inbox' : \E j \in DOMAIN inbox : inbox'[i] = inbox[j]
  <2> HIDE DEF E
  <2>1. inbox' \in Seq(E)
    BY <1>0, <1>3
  <2>2. \A i \in DOMAIN inbox' : i + 1 \in DOMAIN inbox /\ inbox'[i] = inbox[i + 1]
    BY <1>0, <1>3
  <2> QED BY <2>1, <2>2
<1>4. ASSUME NEW e \in E, inbox' = Append(inbox, e), Fresh(e)
      PROVE  /\ inbox' \in Seq(E)
             /\ \A i \in DOMAIN inbox' : (\E j \in DOMAIN inbox : inbox'[i] = inbox[j]) \/ Fresh(inbox'[i])
  <2> HIDE DEF E
  <2>1. inbox' \in Seq(E)
    BY <1>0, <1>4
  <2>2. \A i \in DOMAIN inbox' : (i \in DOMAIN inbox /\ inbox'[i] = inbox[i]) \/ inbox'[i] = e
    BY <1>0, <1>4
  <2> QED BY <1>4, <2>1, <2>2
<1>5. ASSUME NEW c \in Callbacks, ReceiveAnswer(c) \/ ReceiveHangup(c)
      PROVE  inbox # <<>> /\ inbox' = Tail(inbox)
  BY <1>5 DEF ReceiveAnswer, ReceiveHangup, Receives
<1>6. ASSUME NEW c \in Callbacks, CallIn(c)
      PROVE  /\ inbox' \in Seq(E)
             /\ \A i \in DOMAIN inbox' : (\E j \in DOMAIN inbox : inbox'[i] = inbox[j]) \/ Fresh(inbox'[i])
  <2> DEFINE e == [name |-> "answer", call |-> c]
  <2>1. e \in E
    OBVIOUS
  <2>2. channel[c] = "idle" /\ channel'[c] = "up"
    BY <1>0, <1>6 DEF CallIn
  <2>3. Fresh(e)
    BY <2>1, <2>2 DEF Fresh, Heard
  <2>4. inbox' = inbox \/ inbox' = Append(inbox, e)
    BY <1>6 DEF CallIn
  <2> HIDE DEF e, E
  <2> QED BY <1>0, <1>4, <2>1, <2>3, <2>4
<1>7. ASSUME NEW c \in Calls, Ends(c)
      PROVE  /\ inbox' \in Seq(E)
             /\ \A i \in DOMAIN inbox' : (\E j \in DOMAIN inbox : inbox'[i] = inbox[j]) \/ Fresh(inbox'[i])
  <2>1. inbox' = inbox \/ (c \in Callbacks /\ channel[c] = "up" /\ inbox' = Append(inbox, [name |-> "hangup", call |-> c]))
    BY <1>7 DEF Ends
  <2>2. channel'[c] = "over"
    BY <1>0, <1>7 DEF Ends
  <2>3. ASSUME c \in Callbacks, channel[c] = "up"
        PROVE  [name |-> "hangup", call |-> c] \in E /\ Fresh([name |-> "hangup", call |-> c])
    <3>1. [name |-> "hangup", call |-> c] \in E
      BY <2>3
    <3> QED BY <2>2, <2>3, <3>1 DEF Fresh, Heard
  <2> HIDE DEF E
  <2> QED BY <1>0, <1>4, <2>1, <2>3
<1>8. CASE tracker.at = "killing" /\ Ends(tracker.call)
  <2>1. tracker.call \in Calls
    BY <1>8 DEF IInv, CallbacksAreHeard, Calls
  <2> HIDE DEF E
  <2>2. PICK c \in Calls : c = tracker.call
    BY <2>1
  <2>3. Ends(c)
    BY <1>8, <2>2
  <2> QED BY <1>7, <2>3 DEF E
<1> HIDE DEF E
<1>9. /\ inbox' \in Seq(E)
      /\ \A i \in DOMAIN inbox' : (\E j \in DOMAIN inbox : inbox'[i] = inbox[j]) \/ Fresh(inbox'[i])
  BY <1>1, <1>2, <1>3, <1>5, <1>6, <1>7, <1>8, InboxMovers DEF E
<1> QED BY <1>9 DEF E

\* The steps of the tracker, and what it takes in hand.
LEMMA TrackerMovers ==
  ASSUME [Next]_vars
  PROVE  UNCHANGED tracker \/ Lost \/ ReceiveSaved \/ RefusalFails \/ RefusalConfirmed
         \/ \E c \in Callbacks : ReceiveAnswer(c) \/ ReceiveHangup(c)
<1>1. CASE BookStep
  <2>1. CASE Exit \/ BootFails
    BY <1>1, <2>1 DEF Exit, BootFails, ProcessEnds, Lost, BookStep
  <2>2. CASE Commit \/ RecListed \/ RecFails \/ RecDone \/ Restart
    BY <2>2 DEF Commit, RecListed, RecFails, RecDone, Restart, inbound
  <2>4. CASE \E d \in Dials : NameRecording(d) \/ StartRecording(d) \/ Dial(d) \/ Answered(d) \/ NotAnswered(d)
    BY <2>4 DEF NameRecording, StartRecording, Dial, Answered, NotAnswered, inbound
  <2>5. CASE \E c \in Calls : HangupFails(c) \/ RecHangsUp(c) \/ RecSettles(c) \/ Stop(c)
    BY <2>5 DEF HangupFails, RecHangsUp, RecSettles, Stop, inbound
  <2>6. CASE (\E c \in Calls : HangupConfirmed(c) \/ HangUp(c)) \/ (\E c \in Callbacks : CallIn(c))
    BY <2>6 DEF HangupConfirmed, HangUp, CallIn
  <2>7. CASE Drop \/ Reconnect
    BY <2>7 DEF Drop, Reconnect, inbound
  <2> QED BY <1>1, <2>1, <2>2, <2>4, <2>5, <2>6, <2>7 DEF BookStep, BookNext, ApiStep, ChannelEnds
<1>2. CASE Tick \/ Ages \/ PurgeLists \/ PurgeSaved \/ PurgeEnds \/ PurgeFindsNothing \/ PurgeSaves
  BY <1>2 DEF Tick, Ages, PurgeLists, PurgeSaved, PurgeEnds, PurgeFindsNothing, Listens, PurgeSaves, bookVars, inbound
<1>3. CASE \E c \in Calls : Unlink(c) \/ RemoveOrphan(c)
  BY <1>3 DEF Unlink, RemoveOrphan, inbound
<1>4. CASE UNCHANGED vars
  BY <1>4 DEF vars, bookVars, inbound
<1> QED BY <1>1, <1>2, <1>3, <1>4 DEF Next, Purges

\* The tracker's call is one it has just heard of or had in hand.
LEMMA TrackerOf ==
  ASSUME IInv, [Next]_vars
  PROVE  /\ tracker' \in [at : {"idle", "saving", "killing"}, call : Callbacks \union {None}, refuse : BOOLEAN]
         /\ tracker'.at # "idle" =>
              /\ tracker'.call \in Callbacks
              /\ \/ tracker.at # "idle" /\ tracker'.call = tracker.call
                 \/ \E i \in DOMAIN inbox : inbox[i].call = tracker'.call
<1> DEFINE T == [at : {"idle", "saving", "killing"}, call : Callbacks \union {None}, refuse : BOOLEAN]
<1>0. tracker \in T /\ inbox \in Seq([name : {"answer", "hangup"}, call : Callbacks])
      /\ (tracker.at # "idle" => tracker.call \in Callbacks)
  BY DEF IInv, TypeOK, BookTypeOK, CallbacksAreHeard
<1>1. Idle \in T /\ Idle.at = "idle"
  BY DEF Idle
<1>2. CASE UNCHANGED tracker \/ Lost
  BY <1>0, <1>1, <1>2 DEF Lost
<1>3. CASE ReceiveSaved \/ RefusalFails
  <2>1. tracker' = Idle \/ (tracker.at = "saving" /\ tracker' = [tracker EXCEPT !.at = "killing"])
    BY <1>3 DEF ReceiveSaved, RefusalFails
  <2> QED BY <1>0, <1>1, <2>1
<1>4. CASE RefusalConfirmed
  <2>1. /\ tracker.at = "killing"
        /\ tracker' = [at |-> "saving", call |-> tracker.call, refuse |-> FALSE]
    BY <1>4 DEF RefusalConfirmed
  <2> QED BY <1>0, <2>1
<1>5. ASSUME NEW c \in Callbacks, ReceiveAnswer(c) \/ ReceiveHangup(c)
      PROVE  /\ \E i \in DOMAIN inbox : inbox[i].call = c
             /\ tracker.at = "idle"
             /\ tracker' = tracker \/ \E b \in BOOLEAN : tracker' = [at |-> "saving", call |-> c, refuse |-> b]
  <2>1. inbox # <<>> /\ Head(inbox).call = c /\ tracker.at = "idle"
    BY <1>5 DEF ReceiveAnswer, ReceiveHangup, Receives
  <2>2. 1 \in DOMAIN inbox /\ inbox[1].call = c
    BY <1>0, <2>1
  <2>3. tracker' = tracker \/ \E b \in BOOLEAN : tracker' = [at |-> "saving", call |-> c, refuse |-> b]
    <3>1. CASE ReceiveAnswer(c)
      <4>1. (Cardinality(Active) >= Ceiling) \in BOOLEAN
        OBVIOUS
      <4> QED BY <3>1, <4>1 DEF ReceiveAnswer
    <3>2. CASE ReceiveHangup(c)
      BY <3>2 DEF ReceiveHangup
    <3> QED BY <1>5, <3>1, <3>2
  <2> QED BY <2>1, <2>2, <2>3
<1>6. CASE \E c \in Callbacks : ReceiveAnswer(c) \/ ReceiveHangup(c)
  BY <1>0, <1>5, <1>6
<1> QED BY <1>2, <1>3, <1>4, <1>6, TrackerMovers

\* Callbacks have the records they were heard to have.
LEMMA CallbacksStep ==
  ASSUME IInv, [Next]_vars
  PROVE  CallbacksAreHeard'
<1>0. CallbacksAreHeard /\ Callbacks \subseteq Calls
  BY DEF IInv, Calls
<1>1. ASSUME NEW c \in Callbacks, NEW r \in Copies(c)'
      PROVE  /\ (r.status # "none" => channel'[c] # "idle") /\ (IsOver(r) => channel'[c] = "over")
             /\ r.status = "active" => ~r.file
  <2>1. c \in Calls
    BY <1>0
  <2>2. CASE r \in Copies(c)
    BY <1>0, <2>1, <2>2, Onward DEF CallbacksAreHeard
  <2>3. CASE Joins(c, r)
    BY <2>3 DEF Joins, Suits
  <2> QED BY <2>1, <2>2, <2>3, CopiesOf
<1>2. ASSUME NEW i \in DOMAIN inbox'
      PROVE  channel'[inbox'[i].call] # "idle" /\ (inbox'[i].name = "hangup" => channel'[inbox'[i].call] = "over")
  <2>1. CASE Fresh(inbox'[i])
    BY <2>1 DEF Fresh, Heard
  <2>2. ASSUME NEW j \in DOMAIN inbox, inbox'[i] = inbox[j]
        PROVE  channel'[inbox'[i].call] # "idle" /\ (inbox'[i].name = "hangup" => channel'[inbox'[i].call] = "over")
    <3>1. channel[inbox[j].call] # "idle" /\ (inbox[j].name = "hangup" => channel[inbox[j].call] = "over")
      BY <1>0 DEF CallbacksAreHeard
    <3>2. inbox[j].call \in Calls
      <4> DEFINE E == [name : {"answer", "hangup"}, call : Callbacks]
      <4>1. inbox \in Seq(E)
        BY DEF IInv, TypeOK, BookTypeOK
      <4> HIDE DEF E
      <4>2. inbox[j] \in E
        BY <4>1
      <4> QED BY <1>0, <4>2 DEF E
    <3> QED BY <2>2, <3>1, <3>2, Onward
  <2> QED BY <2>1, <2>2, InboxOf
<1>3. tracker'.at # "idle" => tracker'.call \in Callbacks /\ channel'[tracker'.call] # "idle"
  <2> SUFFICES ASSUME tracker'.at # "idle" PROVE tracker'.call \in Callbacks /\ channel'[tracker'.call] # "idle"
    OBVIOUS
  <2>1. tracker'.call \in Callbacks /\ channel[tracker'.call] # "idle"
    BY <1>0, TrackerOf DEF CallbacksAreHeard
  <2> QED BY <1>0, <2>1, Onward
<1> QED BY <1>1, <1>2, <1>3 DEF CallbacksAreHeard

-----------------------------------------------------------------------------
(* Dials and reconciliation. *)

\* The steps of answer().
LEMMA AnsweringMovers ==
  ASSUME [Next]_vars
  PROVE  \/ UNCHANGED answering
         \/ Lost
         \/ \E d \in Dials : Answered(d) \/ NameRecording(d) \/ StartRecording(d)
<1>1. CASE BookStep
  <2>1. CASE Exit \/ BootFails
    BY <1>1, <2>1 DEF Exit, BootFails, ProcessEnds, Lost, BookStep
  <2>2. CASE Commit \/ ReceiveSaved \/ RefusalFails \/ RefusalConfirmed \/ RecListed \/ RecFails \/ RecDone \/ Restart
    BY <2>2 DEF Commit, ReceiveSaved, RefusalFails, RefusalConfirmed, RecListed, RecFails, RecDone,
       Restart, control
  <2>3. CASE (\E c \in Callbacks : CallIn(c) \/ ReceiveHangup(c) \/ ReceiveAnswer(c))
    BY <2>3 DEF CallIn, ReceiveHangup, ReceiveAnswer, control
  <2>4. CASE \E d \in Dials : Dial(d) \/ NotAnswered(d)
    BY <2>4 DEF Dial, NotAnswered, control
  <2>5. CASE \E c \in Calls : HangupConfirmed(c) \/ HangupFails(c) \/ RecHangsUp(c) \/ RecSettles(c) \/ Stop(c) \/ HangUp(c)
    BY <2>5 DEF HangupConfirmed, HangupFails, RecHangsUp, RecSettles, Stop, HangUp, control
  <2>6. CASE Drop \/ Reconnect
    BY <2>6 DEF Drop, Reconnect, control
  <2> QED BY <1>1, <2>1, <2>2, <2>3, <2>4, <2>5, <2>6 DEF BookStep, BookNext, ApiStep, ChannelEnds
<1>2. CASE Tick \/ Ages \/ PurgeLists \/ PurgeSaved \/ PurgeEnds \/ PurgeFindsNothing \/ PurgeSaves
  BY <1>2 DEF Tick, Ages, PurgeLists, PurgeSaved, PurgeEnds, PurgeFindsNothing, Listens, PurgeSaves, bookVars, control
<1>3. CASE \E c \in Calls : Unlink(c) \/ RemoveOrphan(c)
  BY <1>3 DEF Unlink, RemoveOrphan, control
<1>4. CASE UNCHANGED vars
  BY <1>4 DEF vars, bookVars, control
<1> QED BY <1>1, <1>2, <1>3, <1>4 DEF Next, Purges

\* answer() goes through its steps, for a call that is active when it starts.
LEMMA AnsweringOf ==
  ASSUME IInv, [Next]_vars, NEW d \in Dials
  PROVE  \/ answering'[d] = answering[d]
         \/ answering'[d] = "no"
         \/ (answering'[d] = "starting" /\ channel'[d] = "up" /\ ~reconciling /\ call'[d].status = "active")
         \/ (answering[d] = "starting" /\ Save(d, [status |-> "active", file |-> TRUE]) /\ channel' = channel)
<1> USE DEF IInv, TypeOK, BookTypeOK
<1>0. d \in Calls /\ answering \in [Dials -> {"no", "starting", "naming"}]
  BY DEF Calls
<1>1. CASE UNCHANGED answering \/ Lost
  BY <1>1 DEF Lost
<1>2. ASSUME NEW x \in Dials, Answered(x)
      PROVE  \/ answering'[d] = answering[d]
             \/ (answering'[d] = "starting" /\ channel'[d] = "up" /\ ~reconciling /\ call'[d].status = "active")
  <2>1. CASE x = d /\ answering' = [answering EXCEPT ![x] = "starting"] /\ ~reconciling
    BY <1>0, <1>2, <2>1 DEF Answered, records
  <2>2. CASE x # d \/ answering' = answering
    BY <1>0, <1>2, <2>2 DEF Answered
  <2> QED BY <1>2, <2>1, <2>2 DEF Answered
<1>3. ASSUME NEW x \in Dials, NameRecording(x)
      PROVE  \/ answering'[d] = answering[d] \/ answering'[d] = "no"
             \/ (answering[d] = "starting" /\ Save(d, [status |-> "active", file |-> TRUE]) /\ channel' = channel)
  BY <1>0, <1>3 DEF NameRecording, world
<1>4. ASSUME NEW x \in Dials, StartRecording(x)
      PROVE  answering'[d] = answering[d] \/ answering'[d] = "no"
  BY <1>0, <1>4 DEF StartRecording
<1> QED BY <1>1, <1>2, <1>3, <1>4, AnsweringMovers

\* The steps of answer() have their type.
LEMMA AnsweringTyped ==
  ASSUME IInv, [Next]_vars
  PROVE  answering' \in [Dials -> {"no", "starting", "naming"}]
<1>0. answering \in [Dials -> {"no", "starting", "naming"}]
  BY DEF IInv, TypeOK, BookTypeOK
<1> QED BY <1>0, AnsweringMovers DEF Lost, Answered, NameRecording, StartRecording

\* What happens to the record in memory.
LEMMA CallOf ==
  ASSUME IInv, [Next]_vars, NEW c \in Calls
  PROVE  \/ call'[c] = call[c]
         \/ (Lost /\ call'[c] = row[c])
         \/ Joins(c, call'[c])
<1>0. call \in [Calls -> Record]
  BY DEF IInv, TypeOK, BookTypeOK
<1>1. CASE UNCHANGED records \/ Commit
  BY <1>1 DEF records, Commit
<1>2. CASE Lost
  BY <1>2 DEF Lost
<1>3. ASSUME NEW x \in Calls, NEW s \in Record, Joins(x, s)
      PROVE  call'[c] = call[c] \/ Joins(c, call'[c])
  <2>1. call' = [call EXCEPT ![x] = s]
    BY <1>3 DEF Joins, Save
  <2> QED BY <1>0, <1>3, <2>1
<1> QED BY <1>1, <1>2, <1>3, SavesSuit DEF Saves

\* A dial's file is named before anything is written to it.
LEMMA DialsStep ==
  ASSUME IInv, [Next]_vars
  PROVE  DialsAreNamed'
<1> SUFFICES ASSUME NEW d \in Dials
             PROVE  /\ answering'[d] # "no" => channel'[d] # "idle"
                    /\ answering'[d] # "no" /\ channel'[d] = "up" =>
                         call'[d].status = "active" /\ (answering'[d] = "naming" => call'[d].file)
                    /\ \A r \in Copies(d)' : (IsOver(r) => tape'[d] # "on") /\ (disk'[d] # "absent" => r.file)
  BY DEF DialsAreNamed
<1>0. /\ d \in Calls /\ d \notin Callbacks
      /\ answering[d] # "no" => channel[d] # "idle"
      /\ answering[d] # "no" /\ channel[d] = "up" =>
           call[d].status = "active" /\ (answering[d] = "naming" => call[d].file)
      /\ \A r \in Copies(d) : (IsOver(r) => tape[d] # "on") /\ (disk[d] # "absent" => r.file)
  BY CallAssumption DEF IInv, DialsAreNamed, Calls
<1>00. call \in [Calls -> Record] /\ answering \in [Dials -> {"no", "starting", "naming"}]
  BY DEF IInv, TypeOK, BookTypeOK
<1>1. answering'[d] # "no" => channel'[d] # "idle"
  <2>1. CASE answering[d] = "starting" /\ Save(d, [status |-> "active", file |-> TRUE]) /\ channel' = channel
    BY <1>0, <2>1
  <2> QED BY <1>0, <2>1, AnsweringOf, Onward
<1>2. ASSUME answering'[d] # "no", channel'[d] = "up"
      PROVE  call'[d].status = "active" /\ (answering'[d] = "naming" => call'[d].file)
  <2>1. CASE Joins(d, call'[d])
    BY <1>0, <1>2, <2>1 DEF Joins, Suits
  <2>2. CASE Lost
    BY <1>2, <2>2 DEF Lost
  <2>3. CASE call'[d] = call[d]
    <3>1. CASE answering'[d] = answering[d]
      <4>1. channel[d] # "idle"
        BY <1>0, <1>2, <3>1
      <4>2. channel[d] = "up"
        BY <1>0, <1>2, <4>1, WorldOf DEF Keeps, RingsIn, IsOverNow, PicksUp, IsTaped, Stales, Loses
      <4> QED BY <1>0, <1>2, <2>3, <3>1, <4>2
    <3>2. CASE answering'[d] = "starting" /\ call'[d].status = "active"
      BY <3>2
    <3>3. CASE answering[d] = "starting" /\ Save(d, [status |-> "active", file |-> TRUE])
      <4>1. call'[d] = [status |-> "active", file |-> TRUE]
        BY <1>0, <1>00, <3>3 DEF Save
      <4> QED BY <4>1
    <3> QED BY <1>2, <3>1, <3>2, <3>3, AnsweringOf
  <2> QED BY <1>0, <2>1, <2>2, <2>3, CallOf
<1>3. ASSUME NEW r \in Copies(d)'
      PROVE  (IsOver(r) => tape'[d] # "on") /\ (disk'[d] # "absent" => r.file)
  <2>1. CASE Joins(d, r)
    BY <1>0, <2>1 DEF Joins, Suits
  <2>2. CASE r \in Copies(d)
    <3>1. CASE IsTaped(d)
      <4>1. writes = <<>> /\ call[d].status = "active" /\ call[d].file
        BY <1>0, <3>1 DEF IsTaped
      <4>2. r = call[d]
        <5>1. After(0, d, call[d])
          <6>1. After(Len(writes), d, call[d])
            BY <1>0 DEF IInv, CacheIsLast
          <6> QED BY <4>1, <6>1
        <5>2. row[d] = call[d]
          BY <5>1 DEF After
        <5> QED BY <2>2, <4>1, <5>2 DEF Copies
      <4> QED BY <4>1, <4>2 DEF IsOver
    <3>2. CASE ~IsTaped(d)
      <4>1. tape'[d] = "on" => tape[d] = "on"
        BY <1>0, <3>2, WorldOf DEF Keeps, RingsIn, IsOverNow, PicksUp, Stales, Loses
      <4>2. disk'[d] # "absent" => disk[d] # "absent"
        BY <1>0, <3>2, WorldOf DEF Keeps, RingsIn, IsOverNow, PicksUp, Stales, Loses
      <4> QED BY <1>0, <2>2, <4>1, <4>2
    <3> QED BY <3>1, <3>2
  <2> QED BY <1>0, <2>1, <2>2, CopiesOf
<1> QED BY <1>1, <1>2, <1>3

\* reconcile() and what it has in hand.
LEMMA ReconcilerMovers ==
  ASSUME [Next]_vars
  PROVE  \/ UNCHANGED <<rec, todo, reconciling>> /\ (up => up')
         \/ (Lost /\ reconciling')
         \/ Drop \/ Reconnect \/ RecListed \/ RecFails \/ RecDone \/ Restart
         \/ \E c \in Calls : HangupConfirmed(c) \/ HangupFails(c) \/ RecSettles(c)
<1>1. CASE BookStep
  <2>1. CASE Exit \/ BootFails
    BY <1>1, <2>1 DEF Exit, BootFails, ProcessEnds, Lost, BookStep
  <2>2. CASE Commit \/ ReceiveSaved \/ RefusalFails \/ RefusalConfirmed
    BY <2>2 DEF Commit, ReceiveSaved, RefusalFails, RefusalConfirmed, reconciler, process
  <2>3. CASE (\E c \in Callbacks : CallIn(c) \/ ReceiveHangup(c) \/ ReceiveAnswer(c))
    BY <2>3 DEF CallIn, ReceiveHangup, ReceiveAnswer, reconciler, process
  <2>4. CASE \E d \in Dials : Dial(d) \/ NotAnswered(d) \/ Answered(d) \/ NameRecording(d) \/ StartRecording(d)
    BY <2>4 DEF Dial, NotAnswered, Answered, NameRecording, StartRecording, reconciler, process
  <2>5. CASE \E c \in Calls : RecHangsUp(c) \/ Stop(c) \/ HangUp(c)
    BY <2>5 DEF RecHangsUp, Stop, HangUp, reconciler, process
  <2> QED BY <1>1, <2>1, <2>2, <2>3, <2>4, <2>5 DEF BookStep, BookNext, ApiStep, ChannelEnds
<1>2. CASE Tick \/ Ages \/ PurgeLists \/ PurgeSaved \/ PurgeEnds \/ PurgeFindsNothing \/ PurgeSaves
  BY <1>2 DEF Tick, Ages, PurgeLists, PurgeSaved, PurgeEnds, PurgeFindsNothing, Listens, PurgeSaves, bookVars, reconciler, process
<1>3. CASE \E c \in Calls : Unlink(c) \/ RemoveOrphan(c)
  BY <1>3 DEF Unlink, RemoveOrphan, reconciler, process
<1>4. CASE UNCHANGED vars
  BY <1>4 DEF vars, bookVars, reconciler, process
<1> QED BY <1>1, <1>2, <1>3, <1>4 DEF Next, Purges

\* What it has listed only gets less.
LEMMA ListedOf ==
  ASSUME [Next]_vars, rec' = "settling", ~RecListed
  PROVE  /\ rec = "settling"
         /\ \A c \in DOMAIN todo' : c \in DOMAIN todo /\ todo'[c] = todo[c]
<1>1. CASE UNCHANGED <<rec, todo, reconciling>>
  BY <1>1
<1>2. CASE Lost
  BY <1>2 DEF Lost
<1>3. CASE Drop \/ Reconnect \/ RecFails \/ RecDone \/ Restart
  BY <1>3 DEF Drop, Reconnect, RecFails, RecDone, Restart
<1>4. ASSUME NEW c \in Calls, HangupConfirmed(c) \/ HangupFails(c) \/ RecSettles(c)
      PROVE  rec' = rec /\ (todo' = todo \/ todo' = Without(c))
  BY <1>4 DEF HangupConfirmed, HangupFails, RecSettles, RecGoesOn
<1>5. CASE \E c \in Calls : HangupConfirmed(c) \/ HangupFails(c) \/ RecSettles(c)
  BY <1>4, <1>5 DEF Without
<1> QED BY <1>1, <1>2, <1>3, <1>5, ReconcilerMovers

\* What reconcile() has in hand stays safe to settle.
LEMMA SettlingStep ==
  ASSUME IInv, [Next]_vars
  PROVE  SettlingIsSafe'
<1>0. /\ ~up \/ rec # "none" => reconciling
      /\ rec = "settling" => \A c \in DOMAIN todo : SafeToSettle(c)
      /\ DOMAIN todo \subseteq Calls
      /\ up \in BOOLEAN /\ reconciling \in BOOLEAN
  BY DEF IInv, SettlingIsSafe, TypeOK, BookTypeOK
<1>1. ~up' \/ rec' # "none" => reconciling'
  <2>1. CASE UNCHANGED <<rec, todo, reconciling>> /\ (up => up')
    BY <1>0, <2>1
  <2>2. CASE Drop
    BY <1>0, <2>2 DEF Drop, process
  <2>3. CASE Reconnect
    BY <1>0, <2>3 DEF Reconnect, process
  <2>4. CASE RecListed \/ RecFails
    BY <1>0, <2>4 DEF RecListed, RecFails, process
  <2>5. CASE RecDone
    BY <1>0, <2>5 DEF RecDone
  <2>6. CASE Restart
    BY <1>0, <2>6 DEF Restart
  <2>7. CASE \E c \in Calls : HangupConfirmed(c) \/ HangupFails(c) \/ RecSettles(c)
    BY <1>0, <2>7 DEF HangupConfirmed, HangupFails, RecSettles, process
  <2> QED BY <2>1, <2>2, <2>3, <2>4, <2>5, <2>6, <2>7, ReconcilerMovers
<1>2. ASSUME NEW c \in Calls, rec = "settling", c \in DOMAIN todo, todo'[c] = todo[c] PROVE SafeToSettle(c)'
  <2>1. SafeToSettle(c) /\ reconciling
    BY <1>0, <1>2
  <2>2. CASE todo[c].remote
    BY <1>2, <2>1, <2>2 DEF SafeToSettle
  <2>3. CASE ~todo[c].remote
    <3>1. c \in Callbacks => channel'[c] = "over"
      BY <2>1, <2>3, Onward DEF SafeToSettle
    <3>2. ASSUME c \in Dials, channel'[c] = "up" PROVE answering'[c] = "no"
      <4>0. answering[c] = "no"
        <5>1. channel[c] = "idle" \/ channel[c] = "up"
          BY <3>2, Onward DEF IInv, TypeOK, BookTypeOK
        <5>2. CASE channel[c] = "idle"
          BY <3>2, <5>2 DEF IInv, DialsAreNamed
        <5> QED BY <2>1, <2>3, <3>2, <5>1, <5>2 DEF SafeToSettle
      <4> QED BY <2>1, <3>2, <4>0, AnsweringOf
    <3>3. ~RingsIn(c)
      BY <2>1, <2>3 DEF RingsIn, SafeToSettle
    <3>4. ~IsTaped(c)
      BY <2>1, <2>3 DEF IsTaped, SafeToSettle
    <3>5. tape'[c] # "on" /\ (disk'[c] # "absent" => disk[c] # "absent")
      BY <2>1, <2>3, <3>3, <3>4, WorldOf DEF Keeps, IsOverNow, PicksUp, Stales, Loses, SafeToSettle
    <3> QED BY <1>2, <2>1, <2>3, <3>1, <3>2, <3>5 DEF SafeToSettle
  <2> QED BY <2>2, <2>3
<1>3. CASE RecListed
  <2> SUFFICES ASSUME NEW c \in DOMAIN todo' PROVE SafeToSettle(c)'
    BY <1>1 DEF SettlingIsSafe
  <2>1. /\ c \in Calls /\ call[c].status = "active" /\ call[c] \in Copies(c)
        /\ todo'[c] = [is |-> call[c], remote |-> channel[c] = "up"]
        /\ UNCHANGED <<channel, tape, disk, answering>>
    BY <1>3 DEF RecListed, Active, world, control, Copies
  <2>2. c \in Callbacks => ~call[c].file /\ channel[c] # "idle"
    BY <2>1 DEF IInv, CallbacksAreHeard
  <2>3. channel[c] # "up" => tape[c] # "on" /\ (c \in Callbacks => channel[c] = "over")
    BY <2>1, <2>2 DEF IInv, TapesFollowChannels, TypeOK, BookTypeOK
  <2>4. c \in Dials /\ disk[c] # "absent" => call[c].file
    BY <2>1 DEF IInv, DialsAreNamed
  <2>5. PICK t : t = todo'[c]
    OBVIOUS
  <2>60. t = [is |-> call[c], remote |-> channel[c] = "up"]
    BY <2>1, <2>5
  <2>6. t.is = call[c] /\ (t.remote <=> channel[c] = "up")
    <3>1. PICK b : b = (channel[c] = "up")
      OBVIOUS
    <3>2. t.is = call[c] /\ t.remote = b
      BY <2>60, <3>1
    <3> QED BY <3>1, <3>2
  <2>7. c \in Callbacks => ~t.is.file
    BY <2>2, <2>6
  <2>8. ~t.remote => /\ tape'[c] # "on" /\ (c \in Callbacks => channel'[c] = "over")
                     /\ c \in Dials /\ channel'[c] = "up" => answering'[c] = "no"
                     /\ c \in Dials /\ disk'[c] # "absent" => t.is.file
    BY <2>1, <2>3, <2>4, <2>6
  <2> QED BY <2>5, <2>7, <2>8 DEF SafeToSettle
<1>4. CASE ~RecListed
  <2> SUFFICES ASSUME rec' = "settling", NEW c \in DOMAIN todo' PROVE SafeToSettle(c)'
    BY <1>1 DEF SettlingIsSafe
  <2>1. rec = "settling" /\ c \in DOMAIN todo /\ todo'[c] = todo[c] /\ c \in Calls
    BY <1>0, <1>4, ListedOf
  <2> QED BY <1>2, <2>1
<1> QED BY <1>3, <1>4

-----------------------------------------------------------------------------
(* Age and the purge. *)

\* A retention period goes by while nothing else happens.
Passes == Quiet /\ aged' = OnRecord /\ UNCHANGED <<records, inbox, tracker, channel, tape>>

\* The steps that make a record old, or new.
LEMMA AgedMovers ==
  ASSUME [Next]_vars
  PROVE  UNCHANGED aged \/ Passes \/ \E c \in Calls : Created(c)
<1>1. CASE BookStep
  <2>1. CASE Exit \/ BootFails \/ Commit \/ ReceiveSaved \/ RefusalFails \/ RecListed \/ RecFails \/ RecDone \/ Restart
    BY <2>1 DEF Exit, BootFails, Commit, ReceiveSaved, RefusalFails, RecListed, RecFails, RecDone,
       Restart, world
  <2>2. CASE RefusalConfirmed
    BY <2>2 DEF RefusalConfirmed, Ends
  <2>3. CASE \E c \in Callbacks : ReceiveAnswer(c) \/ ReceiveHangup(c) \/ CallIn(c)
    BY <2>3 DEF ReceiveAnswer, ReceiveHangup, CallIn, Calls
  <2>4. CASE \E d \in Dials : NameRecording(d) \/ Dial(d) \/ NotAnswered(d) \/ Answered(d) \/ StartRecording(d)
    BY <2>4 DEF NameRecording, Dial, NotAnswered, Answered, StartRecording, world, Calls
  <2>5. CASE \E c \in Calls : HangupFails(c) \/ RecHangsUp(c) \/ RecSettles(c) \/ Stop(c)
    BY <2>5 DEF HangupFails, RecHangsUp, RecSettles, Stop, world
  <2>6. CASE \E c \in Calls : HangUp(c) \/ HangupConfirmed(c)
    BY <2>6 DEF HangUp, HangupConfirmed, Ends
  <2>7. CASE Drop \/ Reconnect
    BY <2>7 DEF Drop, Reconnect, world
  <2> QED BY <1>1, <2>1, <2>2, <2>3, <2>4, <2>5, <2>6, <2>7 DEF BookStep, BookNext, ApiStep,
             ChannelEnds
<1>5. CASE Tick \/ Ages
  BY <1>5 DEF Tick, Ages, Passes, inbound
<1>2. CASE PurgeLists \/ PurgeSaved \/ PurgeEnds \/ PurgeFindsNothing \/ PurgeSaves
  BY <1>2 DEF PurgeLists, PurgeSaved, PurgeEnds, PurgeFindsNothing, Listens, PurgeSaves, bookVars, world
<1>3. CASE \E c \in Calls : Unlink(c) \/ RemoveOrphan(c)
  BY <1>3 DEF Unlink, RemoveOrphan
<1>4. CASE UNCHANGED vars
  BY <1>4 DEF vars, bookVars, world
<1> QED BY <1>1, <1>2, <1>3, <1>4, <1>5 DEF Next, Purges

\* A record once old stays so.
LEMMA AgedGrows ==
  ASSUME IInv, [Next]_vars
  PROVE  /\ aged \subseteq aged' /\ aged' \in SUBSET Calls
         /\ ~Passes => aged' = aged \/ \E c \in Calls : aged' = aged \ {c}
<1>0. aged \in SUBSET Calls /\ \A c \in aged : call[c].status # "none"
  BY DEF IInv, TypeOK, BookTypeOK, AgeIsKept, Copies
<1>1. ASSUME NEW c \in Calls, Created(c) PROVE aged' = aged
  BY <1>0, <1>1 DEF Created
<1>2. CASE Passes
  BY <1>0, <1>2 DEF Passes, OnRecord
<1> QED BY <1>0, <1>1, <1>2, AgedMovers

\* Old records and files stay old until they are removed.
LEMMA AgeStep ==
  ASSUME IInv, [Next]_vars
  PROVE  AgeIsKept'
<1>0. /\ \A c \in aged : \A r \in Copies(c) : r.status # "none"
      /\ \A c \in Calls : disk[c] = "stale" \/ (tape[c] # "never" /\ disk[c] = "absent") => Old(c)
      /\ \A c \in Calls : disk[c] = "stale" => tape[c] # "on"
      /\ aged \in SUBSET Calls /\ call \in [Calls -> Record]
      /\ channel \in [Calls -> {"idle", "up", "over"}]
      /\ disk \in [Calls -> {"absent", "fresh", "stale"}]
      /\ tape \in [Calls -> {"never", "on", "off"}]
      /\ Calls = Callbacks \union Dials /\ Callbacks \intersect Dials = {}
  BY CallAssumption DEF IInv, AgeIsKept, TypeOK, BookTypeOK, Calls
<1>1. ASSUME NEW c \in aged', NEW r \in Copies(c)' PROVE r.status # "none"
  <2>1. CASE c \in aged
    BY <1>0, <2>1, CopiesOf DEF Joins, Suits
  <2>2. CASE c \notin aged
    <3>1. Passes
      BY <1>1, <2>2, AgedGrows
    <3>2. /\ writes = <<>> /\ call' = call /\ row' = row /\ writes' = writes /\ c \in Calls
          /\ call[c].status # "none"
      BY <1>1, <3>1 DEF Passes, Quiet, OnRecord, Flushed, records
    <3>3. row[c] = call[c]
      <4>1. After(Len(writes), c, call[c])
        BY <3>2 DEF IInv, CacheIsLast
      <4>2. Len(writes) = 0
        BY <3>2
      <4> QED BY <4>1, <4>2 DEF After
    <3> QED BY <3>2, <3>3 DEF Copies
  <2> QED BY <2>1, <2>2
\* A callback without a record, unheard of and over, stays that.
<1>2. ASSUME NEW c \in Calls, Old(c) PROVE Old(c)'
  <2>1. CASE c \in aged
    BY <2>1, AgedGrows DEF Old
  <2>2. CASE c \in Callbacks /\ call[c].status = "none" /\ Untouched(c) /\ channel[c] = "over"
    <3>1. channel'[c] = "over"
      BY <2>2, Onward
    <3>2. call'[c].status = "none"
      <4>1. ~Joins(c, call'[c])
        BY <2>2 DEF Joins, Suits
      <4> QED BY <2>2, <4>1, CallOf, NoneThroughout
    <3>3. Untouched(c)'
      <4>1. \A i \in DOMAIN inbox' : inbox'[i].call # c
        BY <2>2, InboxOf DEF Untouched, Fresh
      <4>2. tracker'.at = "idle" \/ tracker'.call # c
        BY <2>2, TrackerOf DEF Untouched
      <4> QED BY <4>1, <4>2 DEF Untouched
    <3> QED BY <2>2, <3>1, <3>2, <3>3 DEF Old
  <2> QED BY <1>2, <2>1, <2>2 DEF Old
<1>3. ASSUME NEW c \in Calls, disk'[c] = "stale" \/ (tape'[c] # "never" /\ disk'[c] = "absent")
      PROVE  Old(c)'
  <2>1. CASE disk[c] = "stale" \/ (tape[c] # "never" /\ disk[c] = "absent")
    BY <1>0, <1>2, <2>1
  <2>2. CASE Stales(c)
    <3>1. Tick /\ disk[c] = "fresh" /\ tape[c] # "on" /\ inbox = <<>> /\ tracker = Idle
      BY <2>2 DEF Stales, Tick, Quiet
    <3>2. CASE call[c].status # "none"
      BY <3>1, <3>2 DEF Tick, OnRecord, Old
    <3>3. CASE call[c].status = "none"
      <4>1. call[c] \in Copies(c) /\ ~call[c].file
        BY <3>3 DEF IInv, CacheIsLast, Copies
      <4>2. c \in Callbacks
        BY <1>0, <3>1, <4>1 DEF IInv, DialsAreNamed
      <4>3. channel[c] = "over"
        <5>1. tape[c] # "never"
          BY <3>1 DEF IInv, TapesFollowChannels
        <5>2. tape[c] = "off"
          BY <1>0, <3>1, <5>1
        <5> QED BY <5>2 DEF IInv, TapesFollowChannels
      <4>4. Untouched(c)
        BY <3>1 DEF Untouched, Idle
      <4>5. Old(c)
        BY <3>3, <4>2, <4>3, <4>4 DEF Old
      <4> QED BY <1>2, <4>5
    <3> QED BY <3>2, <3>3
  <2>3. CASE Loses(c) /\ ~(disk[c] = "stale" \/ (tape[c] # "never" /\ disk[c] = "absent"))
    <3>1. CASE c \in DOMAIN purge.victims
      <4>1. c \in aged
        BY <3>1 DEF IInv, PurgeIsLate
      <4> QED BY <4>1, AgedGrows DEF Old
    <3>2. CASE c \in purge.orphans
      <4>1. disk[c] # "fresh"
        BY <3>2 DEF IInv, PurgeIsLate, Done
      <4> QED BY <1>0, <1>3, <2>3, <4>1 DEF Loses
    <3> QED BY <2>3, <3>1, <3>2 DEF Loses
  <2>4. CASE RingsIn(c) \/ IsTaped(c)
    BY <1>3, <2>4 DEF RingsIn, IsTaped
  <2>5. CASE Keeps(c) \/ IsOverNow(c) \/ PicksUp(c)
    BY <1>3, <2>1, <2>5 DEF Keeps, IsOverNow, PicksUp
  <2> QED BY <2>1, <2>2, <2>3, <2>4, <2>5, WorldOf
<1>4. ASSUME NEW c \in Calls, disk'[c] = "stale" PROVE tape'[c] # "on"
  BY <1>0, <1>4, WorldOf DEF Keeps, RingsIn, IsOverNow, PicksUp, IsTaped, Stales, Loses
<1>5. \A c \in aged' : \A r \in Copies(c)' : r.status # "none"
  BY <1>1
<1> QED BY <1>3, <1>4, <1>5 DEF AgeIsKept

\* The purge.
LEMMA PurgeMovers ==
  ASSUME [Next]_vars
  PROVE  UNCHANGED purge \/ Lost \/ (purge' = NoPurge /\ up' = FALSE) \/ PurgeFindsNothing \/ PurgeLists \/ PurgeSaves \/ PurgeSaved \/ PurgeEnds
         \/ \E c \in Calls : Unlink(c) \/ RemoveOrphan(c)
  BY DEF Next, BookStep, Purges, Tick, Ages, vars

\* The purge keeps its type.
LEMMA PurgeTyped ==
  ASSUME IInv, [Next]_vars
  PROVE  PurgeTypes'
<1> DEFINE V == UNION {[S -> Record] : S \in SUBSET Calls}
           P == [at : {"idle", "walking", "unlinked", "saving"}, victims : V,
                 orphans : SUBSET Calls, cur : Calls \union {None}]
<1>0. purge \in P /\ call \in [Calls -> Record]
  BY DEF IInv, PurgeTypes, TypeOK, BookTypeOK
<1>1. ASSUME NEW S \in SUBSET Calls, NEW f \in [S -> Record] PROVE f \in V
  BY <1>1
<1>2. \A v \in V : DOMAIN v \in SUBSET Calls /\ v \in [DOMAIN v -> Record]
  OBVIOUS
<1>3. NoPurge \in P
  <2>1. << >> \in [{} -> Record]
    OBVIOUS
  <2>2. << >> \in V
    BY <1>1, <2>1
  <2> HIDE DEF V
  <2> QED BY <2>2 DEF NoPurge
<1>4. CASE UNCHANGED purge \/ Lost \/ (purge' = NoPurge /\ up' = FALSE) \/ PurgeEnds \/ PurgeFindsNothing
  <2> HIDE DEF P
  <2>1. purge' \in P
    BY <1>0, <1>3, <1>4 DEF Lost, PurgeEnds, PurgeFindsNothing
  <2> QED BY <2>1 DEF PurgeTypes, P
<1>5. CASE PurgeLists
  <2>1. /\ Expired \in SUBSET Calls /\ [c \in Expired |-> call[c]] \in [Expired -> Record]
        /\ Unnamed \in SUBSET Calls
    BY <1>0 DEF Expired, Unnamed
  <2>2. [c \in Expired |-> call[c]] \in V
    BY <1>1, <2>1
  <2>3. purge' = [at |-> "walking", victims |-> [c \in Expired |-> call[c]], orphans |-> Unnamed, cur |-> None]
    BY <1>5 DEF PurgeLists
  <2> HIDE DEF V
  <2>4. purge' \in P
    BY <2>1, <2>2, <2>3
  <2> QED BY <2>4 DEF PurgeTypes, P, V
<1>6. CASE PurgeSaved
  <2>1. purge.victims \in V
    BY <1>0
  <2> DEFINE W == DOMAIN purge.victims \ {purge.cur}
  <2>2. [c \in W |-> purge.victims[c]] \in [W -> Record] /\ W \in SUBSET Calls
    BY <1>2, <2>1
  <2>3. [c \in W |-> purge.victims[c]] \in V
    BY <1>1, <2>2
  <2>4. purge' = [purge EXCEPT !.at = "walking", !.cur = None, !.victims = [c \in W |-> purge.victims[c]]]
    BY <1>6 DEF PurgeSaved
  <2> HIDE DEF V, W
  <2>5. purge' \in P
    BY <1>0, <2>3, <2>4
  <2> QED BY <2>5 DEF PurgeTypes, P, V
<1>7. CASE PurgeSaves \/ \E c \in Calls : Unlink(c) \/ RemoveOrphan(c)
  <2> HIDE DEF V
  <2>1. purge' \in P
    BY <1>0, <1>7 DEF PurgeSaves, Unlink, RemoveOrphan
  <2> QED BY <2>1 DEF PurgeTypes, P, V
<1> QED BY <1>4, <1>5, <1>6, <1>7, PurgeMovers

\* A callback whose hangup was received has no other.
LEMMA DoneStays ==
  ASSUME IInv, [Next]_vars, NEW c \in Callbacks, Done(c)
  PROVE  Done(c)'
<1>1. c \in Calls /\ channel[c] = "over"
  BY DEF Done, Calls
<1>2. channel'[c] = "over"
  BY <1>1, Onward
<1>3. ASSUME NEW i \in DOMAIN inbox', inbox'[i] = [name |-> "hangup", call |-> c] PROVE FALSE
  <2>1. inbox'[i].call = c
    BY <1>3
  <2>2. ~Fresh(inbox'[i])
    BY <1>1, <2>1 DEF Fresh
  <2>3. PICK j \in DOMAIN inbox : inbox'[i] = inbox[j]
    BY <2>2, InboxOf
  <2> QED BY <1>3, <2>3 DEF Done
<1> QED BY <1>2, <1>3 DEF Done

\* A callback's recording is named by its hangup.
LEMMA NamedByHangup ==
  ASSUME IInv, [Next]_vars, NEW c \in Callbacks, NEW r \in Copies(c)', r.file
  PROVE  (\E q \in Copies(c) : q.file) \/ ReceiveHangup(c)
<1>1. c \in Calls /\ call[c] \in Copies(c)
  BY DEF Calls, Copies
<1> QED BY <1>1, CopiesOf DEF Joins, Suits

\* Nothing names a removed file again, unless memory is lost.
LEMMA NamesNoGone ==
  ASSUME IInv, [Next]_vars, ~Lost, NEW c \in Calls, c \in Callbacks => Done(c), c \in Dials => Terminal(c),
         call'[c].file
  PROVE  call[c].file
<1>1. CASE Joins(c, call'[c])
  <2>1. c \in Callbacks \/ c \in Dials
    BY DEF Calls
  <2>2. CASE c \in Callbacks
    <3>1. ~ReceiveHangup(c)
      <4>1. ASSUME ReceiveHangup(c) PROVE 1 \in DOMAIN inbox /\ inbox[1] = [name |-> "hangup", call |-> c]
        BY <4>1 DEF ReceiveHangup, Receives, IInv, TypeOK, BookTypeOK
      <4> QED BY <2>2, <4>1 DEF Done
    <3> QED BY <1>1, <2>2, <3>1 DEF Joins, Suits
  <2>3. CASE c \in Dials
    BY <1>1, <2>3 DEF Joins, Suits
  <2> QED BY <2>1, <2>2, <2>3
<1> QED BY <1>1, CallOf

\* Each hangup enters the inbox once.
LEMMA OnceStep ==
  ASSUME IInv, [Next]_vars
  PROVE  \A i, j \in DOMAIN inbox' : inbox'[i] = inbox'[j] /\ inbox'[i].name = "hangup" => i = j
<1> DEFINE E == [name : {"answer", "hangup"}, call : Callbacks]
           Once(q) == \A i, j \in DOMAIN q : q[i] = q[j] /\ q[i].name = "hangup" => i = j
<1>0. /\ inbox \in Seq(E) /\ Once(inbox)
      /\ \A i \in DOMAIN inbox : inbox[i].name = "hangup" => channel[inbox[i].call] = "over"
  BY DEF IInv, TypeOK, BookTypeOK, HeardOnce, CallbacksAreHeard
<1> HIDE DEF E
<1>1. CASE UNCHANGED inbox
  BY <1>0, <1>1
<1>2. CASE Lost
  BY <1>2 DEF Lost
<1>3. ASSUME NEW c \in Callbacks, ReceiveAnswer(c) \/ ReceiveHangup(c) PROVE Once(inbox')
  <2>1. inbox # <<>> /\ inbox' = Tail(inbox)
    BY <1>3 DEF ReceiveAnswer, ReceiveHangup, Receives
  <2>2. \A i \in DOMAIN inbox' : i \in Nat /\ i + 1 \in DOMAIN inbox /\ inbox'[i] = inbox[i + 1]
    BY <1>0, <2>1
  <2>3. ASSUME NEW i \in DOMAIN inbox', NEW j \in DOMAIN inbox', inbox'[i] = inbox'[j], inbox'[i].name = "hangup"
        PROVE  i = j
    <3>1. i + 1 = j + 1
      BY <1>0, <2>2, <2>3
    <3> QED BY <2>2, <3>1
  <2> QED BY <2>3
<1>4. ASSUME NEW e, inbox' = Append(inbox, e),
             e.name = "hangup" => channel[e.call] # "over"
      PROVE  Once(inbox')
  <2>1. /\ Len(inbox) \in Nat /\ DOMAIN inbox = 1..Len(inbox)
        /\ DOMAIN inbox' = 1..(Len(inbox) + 1) /\ inbox'[Len(inbox) + 1] = e
        /\ \A i \in 1..Len(inbox) : inbox'[i] = inbox[i]
    BY <1>0, <1>4
  <2>2. \A i \in DOMAIN inbox' : i \in DOMAIN inbox \/ i = Len(inbox) + 1
    BY <2>1
  <2>3. \A i \in DOMAIN inbox : inbox[i].name = "hangup" => inbox[i] # e
    BY <1>0, <1>4
  <2> QED BY <1>0, <2>1, <2>2, <2>3
<1>5. ASSUME NEW c \in Callbacks, CallIn(c) PROVE Once(inbox')
  <2>1. inbox' = inbox \/ inbox' = Append(inbox, [name |-> "answer", call |-> c])
    BY <1>5 DEF CallIn
  <2>2. [name |-> "answer", call |-> c].name # "hangup"
    OBVIOUS
  <2> QED BY <1>0, <1>4, <2>1, <2>2
<1>6. ASSUME NEW c \in Calls, Ends(c) PROVE Once(inbox')
  <2>1. inbox' = inbox \/ (channel[c] = "up" /\ inbox' = Append(inbox, [name |-> "hangup", call |-> c]))
    BY <1>6 DEF Ends
  <2> QED BY <1>0, <1>4, <2>1
<1>7. CASE tracker.at = "killing" /\ Ends(tracker.call)
  <2>1. tracker.call \in Calls
    BY <1>7 DEF IInv, CallbacksAreHeard, Calls
  <2>2. PICK c \in Calls : c = tracker.call
    BY <2>1
  <2>3. Ends(c)
    BY <1>7, <2>2
  <2> QED BY <1>6, <2>3
<1>8. Once(inbox')
  BY <1>1, <1>2, <1>3, <1>5, <1>6, <1>7, InboxMovers
<1> QED BY <1>8

\* A recording is named once.
LEMMA HeardStep ==
  ASSUME IInv, [Next]_vars
  PROVE  HeardOnce'
<1>0. /\ \A c \in Callbacks : (\E r \in Copies(c) : r.file) \/ disk[c] = "stale" \/ Gone(c) => Done(c)
      /\ Callbacks \subseteq Calls
  BY DEF IInv, HeardOnce, Calls
<1>1. ASSUME NEW c \in Callbacks, NEW r \in Copies(c)', r.file PROVE Done(c)'
  <2>1. CASE \E q \in Copies(c) : q.file
    BY <1>0, <2>1, DoneStays
  <2>2. CASE ReceiveHangup(c)
    <3>1. /\ inbox # <<>> /\ inbox' = Tail(inbox) /\ inbox[1] = [name |-> "hangup", call |-> c]
          /\ inbox \in Seq([name : {"answer", "hangup"}, call : Callbacks])
      BY <2>2 DEF ReceiveHangup, Receives, IInv, TypeOK, BookTypeOK
    <3>2. 1 \in DOMAIN inbox /\ \A i \in DOMAIN inbox' : i + 1 \in DOMAIN inbox /\ i + 1 # 1 /\ inbox'[i] = inbox[i + 1]
      BY <3>1
    <3>3. channel[c] = "over"
      BY <3>1, <3>2 DEF IInv, CallbacksAreHeard
    <3>4. channel'[c] = "over"
      BY <1>0, <3>3, Onward
    <3>5. \A i \in DOMAIN inbox' : inbox'[i] # inbox[1]
      BY <3>1, <3>2 DEF IInv, HeardOnce
    <3> QED BY <3>1, <3>4, <3>5 DEF Done
  <2> QED BY <1>1, <2>1, <2>2, NamedByHangup
<1>2. ASSUME NEW c \in Callbacks, disk'[c] = "stale" \/ (tape'[c] # "never" /\ disk'[c] = "absent") PROVE Done(c)'
  <2>0. c \in Calls
    BY <1>0
  <2>1. CASE disk[c] = "stale" \/ Gone(c)
    BY <1>0, <2>1, DoneStays
  <2>2. CASE Stales(c)
    <3>1. tape[c] = "off"
      BY <2>0, <2>2 DEF Stales, IInv, TapesFollowChannels, TypeOK, BookTypeOK
    <3>2. channel[c] = "over" /\ inbox = <<>>
      BY <2>0, <2>2, <3>1 DEF Stales, Tick, Quiet, IInv, TapesFollowChannels
    <3>3. Done(c)
      BY <3>2 DEF Done
    <3> QED BY <3>3, DoneStays
  <2>3. CASE Loses(c)
    <3>1. Done(c)
      BY <2>3 DEF Loses, IInv, PurgeIsLate
    <3> QED BY <3>1, DoneStays
  <2>4. CASE RingsIn(c) \/ IsTaped(c)
    BY <1>2, <2>4 DEF RingsIn, IsTaped
  <2>5. CASE Keeps(c) \/ IsOverNow(c) \/ PicksUp(c)
    BY <1>2, <2>1, <2>5 DEF Keeps, IsOverNow, PicksUp, Gone
  <2> QED BY <2>0, <2>1, <2>2, <2>3, <2>4, <2>5, WorldOf
<1>3. \A c \in Callbacks : Gone(c)' => tape'[c] # "never" /\ disk'[c] = "absent"
  BY DEF Gone
<1>4. \A c \in Callbacks : (\E r \in Copies(c)' : r.file) \/ disk'[c] = "stale" \/ Gone(c)' => Done(c)'
  BY <1>1, <1>2, <1>3
<1> QED BY <1>4, OnceStep DEF HeardOnce

\* What the purge has in hand stays removable.
LEMMA PurgeStep ==
  ASSUME IInv, [Next]_vars
  PROVE  PurgeIsLate'
<1>0. /\ \A c \in DOMAIN purge.victims :
           /\ c \in Calls /\ Terminal(c) /\ IsOver(purge.victims[c]) /\ c \in aged
           /\ c \in Callbacks => Done(c)
           /\ \A r \in Copies(c) : IsOver(r)
      /\ \A c \in purge.orphans : /\ c \in Callbacks /\ Done(c) /\ disk[c] # "fresh"
                                  /\ \A r \in Copies(c) : ~r.file
      /\ purge.at \in {"unlinked", "saving"} => purge.cur \in DOMAIN purge.victims /\ disk[purge.cur] = "absent"
      /\ purge.at \in {"idle", "walking", "unlinked", "saving"}
  BY DEF IInv, PurgeIsLate, TypeOK
<1>00. /\ Calls = Callbacks \union Dials /\ Callbacks \intersect Dials = {}
       /\ disk \in [Calls -> {"absent", "fresh", "stale"}]
       /\ tape \in [Calls -> {"never", "on", "off"}]
  BY CallAssumption DEF IInv, TypeOK, BookTypeOK, Calls
<1>1. ASSUME NEW c \in Calls, Terminal(c), ~Lost PROVE Terminal(c)'
  BY <1>1, CallOf DEF Joins, Suits, Terminal, IsOver
<1>2. ASSUME NEW c \in DOMAIN purge.victims, ~Lost
      PROVE  /\ Terminal(c)' /\ IsOver(purge.victims[c]) /\ c \in aged'
             /\ c \in Callbacks => Done(c)'
             /\ \A r \in Copies(c)' : IsOver(r)
  <2>1. \A r \in Copies(c)' : IsOver(r)
    BY <1>0, <1>2, CopiesOf DEF Joins, Suits
  <2> QED BY <1>0, <1>1, <1>2, <2>1, AgedGrows, DoneStays
<1>3. ASSUME NEW c \in purge.orphans
      PROVE  /\ c \in Callbacks /\ Done(c)' /\ disk'[c] # "fresh"
             /\ \A r \in Copies(c)' : ~r.file
  <2>1. c \in Calls /\ c \in Callbacks /\ c \notin Dials /\ Done(c) /\ channel[c] = "over" /\ disk[c] # "fresh"
    BY <1>0, <1>00, <1>3 DEF Done
  <2>2. disk'[c] # "fresh"
    BY <2>1, WorldOf DEF Keeps, RingsIn, IsOverNow, PicksUp, IsTaped, Stales, Loses
  <2>3. ~ReceiveHangup(c)
    <3>1. ASSUME ReceiveHangup(c) PROVE 1 \in DOMAIN inbox /\ inbox[1] = [name |-> "hangup", call |-> c]
      BY <3>1 DEF ReceiveHangup, Receives, IInv, TypeOK, BookTypeOK
    <3> QED BY <2>1, <3>1 DEF Done
  <2>4. \A r \in Copies(c)' : ~r.file
    BY <1>0, <2>1, <2>3, NamedByHangup
  <2> QED BY <2>1, <2>2, <2>4, DoneStays
<1>4. ASSUME purge.at \in {"unlinked", "saving"}
      PROVE  purge.cur \in DOMAIN purge.victims /\ disk'[purge.cur] = "absent"
  <2>1. PICK c \in Calls : c = purge.cur
    BY <1>0, <1>4
  <2>2. Terminal(c) /\ disk[c] = "absent" /\ call[c] \in Copies(c) /\ IsOver(call[c])
    BY <1>0, <1>4, <2>1 DEF Copies, Terminal, IsOver
  <2>3. ~RingsIn(c)
    BY <2>2 DEF IInv, CallbacksAreHeard, RingsIn
  <2>4. ~IsTaped(c)
    BY <2>2 DEF IInv, DialsAreNamed, IsTaped, Terminal
  <2>5. disk'[c] = "absent"
    BY <2>2, <2>3, <2>4, WorldOf DEF Keeps, IsOverNow, PicksUp, Stales, Loses
  <2> QED BY <1>0, <1>4, <2>1, <2>5
<1>5. CASE purge' = NoPurge
  <2>1. DOMAIN NoPurge.victims = {} /\ NoPurge.orphans = {} /\ NoPurge.at = "idle"
    BY DEF NoPurge
  <2> QED BY <1>5, <2>1 DEF PurgeIsLate
<1>6. CASE UNCHANGED purge /\ ~Lost
  BY <1>2, <1>3, <1>4, <1>6 DEF PurgeIsLate
<1>7. CASE PurgeLists
  <2>1. purge' = [at |-> "walking", victims |-> [c \in Expired |-> call[c]], orphans |-> Unnamed, cur |-> None]
        /\ UNCHANGED <<call, row, writes, disk, aged>> /\ writes = <<>>
    BY <1>7 DEF PurgeLists, bookVars, records, world, Flushed
  <2>0. ASSUME NEW c \in Calls, NEW r \in Copies(c)' PROVE r = call[c]
    <3>1. r = call[c] \/ r = row[c]
      BY <2>0, <2>1 DEF Copies
    <3>2. After(Len(writes), c, call[c]) /\ Len(writes) = 0
      BY <2>1 DEF IInv, CacheIsLast
    <3> QED BY <3>1, <3>2 DEF After
  <2>2. ASSUME NEW c \in Expired
        PROVE  /\ Terminal(c)' /\ IsOver(purge'.victims[c]) /\ c \in aged'
               /\ c \in Callbacks => Done(c)'
               /\ \A r \in Copies(c)' : IsOver(r)
    <3>1. c \in Calls /\ Terminal(c) /\ IsOver(call[c]) /\ call[c].file /\ call[c] \in Copies(c) /\ c \in aged
      BY DEF Expired, Terminal, IsOver, Copies
    <3>2. c \in Callbacks => Done(c)'
      BY <3>1, DoneStays DEF IInv, HeardOnce
    <3> QED BY <2>0, <2>1, <3>1, <3>2 DEF Terminal
  <2>3. ASSUME NEW c \in Unnamed
        PROVE  /\ c \in Callbacks /\ Done(c)' /\ disk'[c] # "fresh"
               /\ \A r \in Copies(c)' : ~r.file
    <3>1. c \in Calls /\ disk[c] = "stale" /\ ~call[c].file /\ call[c] \in Copies(c)
      BY DEF Unnamed, Copies
    <3>2. c \in Callbacks
      BY <1>00, <3>1 DEF IInv, DialsAreNamed
    <3>3. Done(c)'
      BY <3>1, <3>2, DoneStays DEF IInv, HeardOnce
    <3> QED BY <2>0, <2>1, <3>1, <3>2, <3>3
  <2>4. DOMAIN purge'.victims = Expired /\ purge'.orphans = Unnamed /\ purge'.at = "walking"
    BY <2>1
  <2> QED BY <2>2, <2>3, <2>4 DEF PurgeIsLate
<1>8. CASE PurgeSaved /\ ~Lost
  <2>1. /\ purge'.at = "walking" /\ purge'.orphans = purge.orphans
        /\ DOMAIN purge'.victims = DOMAIN purge.victims \ {purge.cur}
        /\ \A c \in DOMAIN purge'.victims : purge'.victims[c] = purge.victims[c]
    BY <1>8 DEF PurgeSaved, IInv, PurgeTypes
  <2> QED BY <1>2, <1>3, <1>8, <2>1 DEF PurgeIsLate
<1>9. CASE PurgeSaves /\ ~Lost
  <2>1. purge'.at = "saving" /\ purge'.orphans = purge.orphans /\ purge'.victims = purge.victims
        /\ purge'.cur = purge.cur /\ purge.at = "unlinked"
    BY <1>9 DEF PurgeSaves, IInv, PurgeTypes
  <2> QED BY <1>2, <1>3, <1>4, <1>9, <2>1 DEF PurgeIsLate
<1>10. ASSUME NEW x \in Calls, Unlink(x), ~Lost PROVE PurgeIsLate'
  <2>1. purge'.at = "unlinked" /\ purge'.orphans = purge.orphans /\ purge'.victims = purge.victims
        /\ purge'.cur = x /\ x \in DOMAIN purge.victims /\ disk'[x] = "absent"
    BY <1>00, <1>10 DEF Unlink, IInv, PurgeTypes
  <2> QED BY <1>2, <1>3, <1>10, <2>1 DEF PurgeIsLate
<1>11. ASSUME NEW x \in Calls, RemoveOrphan(x), ~Lost PROVE PurgeIsLate'
  <2>1. /\ purge'.at = "walking" /\ purge'.orphans \subseteq purge.orphans
        /\ purge'.victims = purge.victims
    BY <1>11 DEF RemoveOrphan, IInv, PurgeTypes
  <2> QED BY <1>2, <1>3, <1>11, <2>1 DEF PurgeIsLate
<1>12. Lost => purge' = NoPurge
  BY DEF Lost
<1> QED BY <1>5, <1>6, <1>7, <1>8, <1>9, <1>10, <1>11, <1>12, PurgeMovers DEF PurgeEnds, PurgeFindsNothing

-----------------------------------------------------------------------------
(* Types. *)

\* Types.
LEMMA RecordsTyped ==
  ASSUME IInv, [Next]_vars
  PROVE  /\ call' \in [Calls -> Record] /\ row' \in [Calls -> Record]
         /\ writes' \in Seq([call : Calls, is : Record])
<1> DEFINE W == [call : Calls, is : Record]
<1>0. call \in [Calls -> Record] /\ row \in [Calls -> Record] /\ writes \in Seq(W)
  BY DEF IInv, TypeOK, BookTypeOK
<1>1. CASE UNCHANGED records
  BY <1>0, <1>1 DEF records
<1>2. CASE Lost
  BY <1>0, <1>2 DEF Lost
<1>3. CASE Commit
  <2>1. writes # <<>> /\ call' = call /\ writes' = Tail(writes)
        /\ row' = [row EXCEPT ![Head(writes).call] = Head(writes).is]
    BY <1>3 DEF Commit
  <2> HIDE DEF W
  <2>2. Head(writes) \in W /\ Tail(writes) \in Seq(W)
    BY <1>0, <2>1
  <2>3. Head(writes).is \in Record
    BY <2>2 DEF W
  <2> QED BY <1>0, <2>1, <2>2, <2>3 DEF W
<1>4. CASE Saves
  <2> PICK x \in Calls, s \in Record : Joins(x, s)
    BY <1>4 DEF Saves
  <2>1. /\ call' = [call EXCEPT ![x] = s] /\ writes' = Append(writes, [call |-> x, is |-> s])
        /\ row' = row
    BY DEF Joins, Save
  <2>2. [call |-> x, is |-> s] \in W
    OBVIOUS
  <2> HIDE DEF W
  <2>3. writes' \in Seq(W)
    BY <1>0, <2>1, <2>2
  <2> QED BY <1>0, <2>1, <2>3 DEF W
<1> QED BY <1>1, <1>2, <1>3, <1>4, SavesSuit

\* The world keeps its types.
LEMMA WorldTyped ==
  ASSUME IInv, [Next]_vars
  PROVE  /\ channel' \in [Calls -> {"idle", "up", "over"}]
         /\ tape' \in [Calls -> {"never", "on", "off"}]
         /\ disk' \in [Calls -> {"absent", "fresh", "stale"}]
<1>0. /\ channel \in [Calls -> {"idle", "up", "over"}]
      /\ tape \in [Calls -> {"never", "on", "off"}]
      /\ disk \in [Calls -> {"absent", "fresh", "stale"}]
  BY DEF IInv, TypeOK, BookTypeOK
<1>1. CASE UNCHANGED <<channel, tape, disk>>
  BY <1>0, <1>1
<1>2. CASE Tick
  BY <1>0, <1>2 DEF Tick
<1>3. CASE \E c \in Callbacks : CallIn(c)
  BY <1>0, <1>3 DEF CallIn
<1>4. ASSUME NEW x, Ends(x) 
      PROVE  /\ channel' \in [Calls -> {"idle", "up", "over"}]
             /\ tape' \in [Calls -> {"never", "on", "off"}]
             /\ disk' \in [Calls -> {"absent", "fresh", "stale"}]
  BY <1>0, <1>4 DEF Ends
<1>5. CASE \E d \in Dials : Answered(d) \/ StartRecording(d)
  BY <1>0, <1>5 DEF Answered, StartRecording
<1>6. CASE \E c \in Calls : Unlink(c) \/ RemoveOrphan(c)
  BY <1>0, <1>6 DEF Unlink, RemoveOrphan
<1>7. CASE Ends(tracker.call)
  <2>1. PICK x : x = tracker.call
    OBVIOUS
  <2> QED BY <1>4, <1>7, <2>1
<1> QED BY <1>1, <1>2, <1>3, <1>4, <1>5, <1>6, <1>7, WorldMovers

\* The flags, the sets and the counters keep theirs.
LEMMA RestTyped ==
  ASSUME IInv, [Next]_vars
  PROVE  /\ up' \in BOOLEAN /\ booted' \in BOOLEAN /\ serving' \in BOOLEAN /\ conn' \in BOOLEAN
         /\ refused' \in SUBSET Callbacks /\ terminations' \in SUBSET Calls
         /\ rec' \in {"none", "asked", "settling"} /\ awaits' \in Calls \union {None}
         /\ reconciling' \in BOOLEAN
         /\ losses' \in 0..MaxLosses /\ exits' \in 0..MaxExits /\ stops' \in 0..MaxStops
<1>0. /\ up \in BOOLEAN /\ booted \in BOOLEAN /\ serving \in BOOLEAN /\ conn \in BOOLEAN
      /\ refused \in SUBSET Callbacks /\ terminations \in SUBSET Calls
      /\ rec \in {"none", "asked", "settling"} /\ awaits \in Calls \union {None}
      /\ reconciling \in BOOLEAN
      /\ losses \in 0..MaxLosses /\ exits \in 0..MaxExits /\ stops \in 0..MaxStops
      /\ MaxLosses \in Nat /\ MaxExits \in Nat /\ MaxStops \in Nat
      /\ Dials \subseteq Calls
  BY BoundAssumption DEF IInv, TypeOK, BookTypeOK, Calls
<1>1. CASE BookStep
  <2>1. CASE BootFails
    BY <1>0, <2>1 DEF BootFails, ProcessEnds, link
  <2>10. CASE Exit
    <3>1. exits' \in 0..MaxExits
      BY <1>0, <2>10 DEF Exit
    <3> QED BY <1>0, <2>10, <3>1 DEF Exit, ProcessEnds, link
  <2>2. CASE Commit \/ ReceiveSaved \/ RefusalFails \/ RefusalConfirmed
    BY <1>0, <2>2 DEF Commit, ReceiveSaved, RefusalFails, RefusalConfirmed, reconciler, process,
       inbound, control, link
  <2>3. CASE \E c \in Callbacks : ReceiveAnswer(c) \/ ReceiveHangup(c) \/ CallIn(c)
    BY <1>0, <2>3 DEF ReceiveAnswer, ReceiveHangup, CallIn, reconciler, process, control, link
  <2>4. CASE \E d \in Dials : NameRecording(d) \/ Dial(d) \/ NotAnswered(d) \/ Answered(d) \/ StartRecording(d)
    BY <1>0, <2>4 DEF NameRecording, Dial, NotAnswered, Answered, StartRecording, reconciler,
       process, inbound, control, link
  <2>5. CASE \E c \in Calls : HangupFails(c) \/ RecHangsUp(c) \/ RecSettles(c) \/ Stop(c)
    BY <1>0, <2>5 DEF HangupFails, RecHangsUp, RecSettles, RecGoesOn, Stop, reconciler, process, inbound,
       control, link
  <2>6. CASE \E c \in Calls : HangUp(c) \/ HangupConfirmed(c)
    BY <1>0, <2>6 DEF HangUp, HangupConfirmed, RecGoesOn, reconciler, process, control, link
  <2>7. CASE Drop
    <3>1. losses' \in 0..MaxLosses
      BY <1>0, <2>7 DEF Drop
    <3>2. reconciling' \in BOOLEAN
      BY <2>7, Zenon DEF Drop
    <3> QED BY <1>0, <2>7, <3>1, <3>2 DEF Drop, process, inbound, control
  <2>9. CASE Reconnect
    <3>1. reconciling' \in BOOLEAN
      BY <2>9, Zenon DEF Reconnect
    <3> QED BY <1>0, <2>9, <3>1 DEF Reconnect, process, inbound, control
  <2>8. CASE RecListed \/ RecFails \/ RecDone \/ Restart
    BY <1>0, <2>8 DEF RecListed, RecFails, RecDone, Restart, process, inbound, control, link, Active
  <2> QED BY <1>1, <2>1, <2>2, <2>3, <2>4, <2>5, <2>6, <2>7, <2>8, <2>9, <2>10 DEF BookStep,
             BookNext, ApiStep, ChannelEnds
<1>2. CASE Tick \/ PurgeSaves
  BY <1>0, <1>2 DEF Tick, PurgeSaves, reconciler, process, inbound, control, link
<1>3. CASE \E c \in Calls : Unlink(c) \/ RemoveOrphan(c)
  BY <1>0, <1>3 DEF Unlink, RemoveOrphan, reconciler, process, inbound, control, link
<1>5. CASE Ages \/ PurgeFindsNothing \/ PurgeEnds
  BY <1>0, <1>5 DEF Ages, PurgeFindsNothing, PurgeEnds, Listens, reconciler, process, inbound,
     control, link
<1>4. CASE UNCHANGED bookVars
  BY <1>0, <1>4 DEF bookVars, reconciler, process, inbound, control, link
<1> QED BY <1>1, <1>2, <1>3, <1>4, <1>5 DEF Next, Purges, PurgeLists, PurgeSaved, vars

\* What reconcile() has listed are calls, with copies of their records.
LEMMA ListedTyped ==
  ASSUME IInv, [Next]_vars
  PROVE  DOMAIN todo' \subseteq Calls /\ \A c \in DOMAIN todo' : todo'[c] \in Listed
<1>0. /\ DOMAIN todo \subseteq Calls /\ \A c \in DOMAIN todo : todo[c] \in Listed
      /\ call \in [Calls -> Record]
  BY DEF IInv, TypeOK, BookTypeOK
<1>1. CASE UNCHANGED todo
  BY <1>0, <1>1
<1>2. CASE RecListed
  <2>1. todo' = [c \in Active |-> [is |-> call[c], remote |-> channel[c] = "up"]]
    BY <1>2 DEF RecListed
  <2>2. \A c \in Active : c \in Calls /\ call[c] \in Record /\ (channel[c] = "up") \in BOOLEAN
    BY <1>0 DEF Active
  <2>3. \A c \in Active : [is |-> call[c], remote |-> channel[c] = "up"] \in Listed
    BY <2>2 DEF Listed
  <2> QED BY <2>1, <2>2, <2>3
<1>3. CASE todo' = << >>
  BY <1>3
<1>4. ASSUME NEW c \in Calls, todo' = Without(c)
      PROVE  DOMAIN todo' \subseteq Calls /\ \A b \in DOMAIN todo' : todo'[b] \in Listed
  BY <1>0, <1>4 DEF Without
<1>5. UNCHANGED todo \/ RecListed \/ todo' = << >> \/ \E c \in Calls : todo' = Without(c)
  <2>1. CASE UNCHANGED <<rec, todo, reconciling>> \/ Lost \/ RecListed
    BY <2>1 DEF Lost
  <2>2. CASE Drop \/ Reconnect \/ RecFails \/ RecDone \/ Restart
    BY <2>2 DEF Drop, Reconnect, RecFails, RecDone, Restart
  <2>3. CASE \E c \in Calls : HangupConfirmed(c) \/ HangupFails(c) \/ RecSettles(c)
    BY <2>3 DEF HangupConfirmed, HangupFails, RecSettles, RecGoesOn
  <2> QED BY <2>1, <2>2, <2>3, ReconcilerMovers
<1> QED BY <1>1, <1>2, <1>3, <1>4, <1>5

\* The recordings past their expiry are of calls.
LEMMA ExpiredTyped ==
  ASSUME IInv, [Next]_vars
  PROVE  expired' \in SUBSET Calls
<1>0. expired \in SUBSET Calls
  BY DEF IInv, TypeOK, BookTypeOK
<1>1. CASE BookStep
  <2>1. CASE Exit \/ BootFails \/ Commit \/ ReceiveSaved \/ RefusalFails \/ RecListed \/ RecFails \/ RecDone \/ Restart
    BY <1>0, <2>1 DEF Exit, BootFails, Commit, ReceiveSaved, RefusalFails, RecListed, RecFails, RecDone,
       Restart, world
  <2>2. CASE RefusalConfirmed
    BY <1>0, <2>2 DEF RefusalConfirmed, Ends
  <2>3. CASE \E c \in Callbacks : ReceiveAnswer(c) \/ ReceiveHangup(c) \/ CallIn(c)
    BY <1>0, <2>3 DEF ReceiveAnswer, ReceiveHangup, CallIn
  <2>4. CASE \E d \in Dials : NameRecording(d) \/ Dial(d) \/ NotAnswered(d) \/ Answered(d) \/ StartRecording(d)
    BY <1>0, <2>4 DEF NameRecording, Dial, NotAnswered, Answered, StartRecording, world
  <2>5. CASE \E c \in Calls : HangupFails(c) \/ RecHangsUp(c) \/ RecSettles(c) \/ Stop(c)
    BY <1>0, <2>5 DEF HangupFails, RecHangsUp, RecSettles, Stop, world
  <2>6. CASE \E c \in Calls : HangUp(c) \/ HangupConfirmed(c)
    BY <1>0, <2>6 DEF HangUp, HangupConfirmed, Ends
  <2>7. CASE Drop \/ Reconnect
    BY <1>0, <2>7 DEF Drop, Reconnect, world
  <2> QED BY <1>1, <2>1, <2>2, <2>3, <2>4, <2>5, <2>6, <2>7 DEF BookStep, BookNext, ApiStep,
             ChannelEnds
<1>2. CASE Tick \/ Ages \/ PurgeLists \/ PurgeSaved \/ PurgeEnds \/ PurgeFindsNothing \/ PurgeSaves
  BY <1>0, <1>2 DEF Tick, Ages, OnRecord, PurgeLists, PurgeSaved, PurgeEnds, PurgeFindsNothing,
     Listens, PurgeSaves, bookVars, world
<1>3. CASE \E c \in Calls : Unlink(c) \/ RemoveOrphan(c)
  BY <1>0, <1>3 DEF Unlink, RemoveOrphan
<1>4. CASE UNCHANGED vars
  BY <1>0, <1>4 DEF vars, bookVars, world
<1> QED BY <1>1, <1>2, <1>3, <1>4 DEF Next, Purges

-----------------------------------------------------------------------------
(* Removed files. *)

\* When the API starts to listen, and stops.
LEMMA ServingMovers ==
  ASSUME [Next]_vars
  PROVE  UNCHANGED serving \/ (Lost /\ ~serving') \/ PurgeFindsNothing \/ PurgeEnds
<1>1. CASE BookStep
  <2>1. CASE Exit \/ BootFails
    BY <1>1, <2>1 DEF Exit, BootFails, ProcessEnds, Lost, BookStep
  <2>2. CASE Commit \/ ReceiveSaved \/ RefusalFails \/ RefusalConfirmed \/ RecListed \/ RecFails \/ RecDone \/ Restart
    BY <2>2 DEF Commit, ReceiveSaved, RefusalFails, RefusalConfirmed, RecListed, RecFails, RecDone,
       Restart, process
  <2>3. CASE (\E c \in Callbacks : CallIn(c) \/ ReceiveHangup(c) \/ ReceiveAnswer(c))
    BY <2>3 DEF CallIn, ReceiveHangup, ReceiveAnswer, process
  <2>4. CASE \E d \in Dials : Dial(d) \/ NotAnswered(d) \/ Answered(d) \/ NameRecording(d) \/ StartRecording(d)
    BY <2>4 DEF Dial, NotAnswered, Answered, NameRecording, StartRecording, process
  <2>5. CASE \E c \in Calls : HangupConfirmed(c) \/ HangupFails(c) \/ RecHangsUp(c) \/ RecSettles(c) \/ Stop(c) \/ HangUp(c)
    BY <2>5 DEF HangupConfirmed, HangupFails, RecHangsUp, RecSettles, Stop, HangUp, process
  <2>6. CASE Drop \/ Reconnect
    BY <2>6 DEF Drop, Reconnect, process
  <2> QED BY <1>1, <2>1, <2>2, <2>3, <2>4, <2>5, <2>6 DEF BookStep, BookNext, ApiStep, ChannelEnds
<1>2. CASE Tick \/ Ages \/ PurgeLists \/ PurgeSaved \/ PurgeSaves
  BY <1>2 DEF Tick, Ages, PurgeLists, PurgeSaved, PurgeSaves, bookVars, process
<1>3. CASE \E c \in Calls : Unlink(c) \/ RemoveOrphan(c)
  BY <1>3 DEF Unlink, RemoveOrphan, process
<1>4. CASE UNCHANGED vars
  BY <1>4 DEF vars, bookVars, process
<1> QED BY <1>1, <1>2, <1>3, <1>4 DEF Next, Purges

\* A process that does not run does not listen.
LEMMA ListensRunning ==
  ASSUME IInv, [Next]_vars, ~up'
  PROVE  ~serving'
<1>1. CASE Lost
  BY <1>1 DEF Lost
<1>2. CASE ~up
  <2>1. ~serving
    BY <1>2 DEF IInv, GoneIsForgotten
  <2>2. ~PurgeFindsNothing /\ ~PurgeEnds
    BY <1>2 DEF PurgeFindsNothing, PurgeEnds
  <2> QED BY <1>1, <2>1, <2>2, ServingMovers
<1> QED BY <1>1, <1>2, DownLosesAll

\* A file that is gone after a step was gone before, or the purge had it in hand.
LEMMA GoneOf ==
  ASSUME IInv, [Next]_vars, NEW c \in Calls, Gone(c)'
  PROVE  \/ Gone(c)
         \/ c \in DOMAIN purge.victims /\ Unlink(c)
         \/ c \in purge.orphans /\ RemoveOrphan(c)
<1>1. tape'[c] # "never" /\ disk'[c] = "absent"
  BY DEF Gone
<1>2. Unlink(c) => c \in DOMAIN purge.victims
  BY DEF Unlink
<1>3. RemoveOrphan(c) => c \in purge.orphans
  BY DEF RemoveOrphan
<1> QED BY <1>1, <1>2, <1>3, WorldOf DEF Gone, Keeps, RingsIn, IsOverNow, PicksUp, IsTaped, Stales, Loses

\* A copy that names a removed file stays final and old.
LEMMA GoneCopies ==
  ASSUME IInv, [Next]_vars, NEW c \in Calls, Gone(c)', NEW r \in Copies(c)', r.file \/ c \in Dials
  PROVE  IsOver(r) /\ c \in aged'
<1>0. Calls = Callbacks \union Dials /\ Callbacks \intersect Dials = {}
  BY CallAssumption DEF Calls
<1>1. CASE c \in DOMAIN purge.victims
  <2>1. Terminal(c) /\ c \in aged /\ \A q \in Copies(c) : IsOver(q)
    BY <1>1 DEF IInv, PurgeIsLate
  <2> QED BY <2>1, CopiesOf, AgedGrows DEF Joins, Suits
<1>2. CASE c \in purge.orphans
  <2>1. c \in Callbacks /\ Done(c) /\ \A q \in Copies(c) : ~q.file
    BY <1>2 DEF IInv, PurgeIsLate
  <2>2. ~ReceiveHangup(c)
    <3>1. ASSUME ReceiveHangup(c) PROVE 1 \in DOMAIN inbox /\ inbox[1] = [name |-> "hangup", call |-> c]
      BY <3>1 DEF ReceiveHangup, Receives, IInv, TypeOK, BookTypeOK
    <3> QED BY <2>1, <3>1 DEF Done
  <2>3. ~r.file
    BY <2>1, <2>2, NamedByHangup
  <2> QED BY <1>0, <2>1, <2>3
<1>3. CASE Gone(c)
  <2>1. \A q \in Copies(c) : q.file \/ c \in Dials => IsOver(q) /\ c \in aged
    BY <1>3 DEF IInv, GoneIsForgotten
  <2>2. call[c] \in Copies(c) /\ (IsOver(call[c]) <=> Terminal(c))
    BY DEF Copies, IsOver, Terminal
  <2>3. CASE r \in Copies(c)
    BY <2>1, <2>3, AgedGrows
  <2>4. CASE Joins(c, r)
    <3>1. CASE c \in Dials \/ call[c].file
      BY <2>1, <2>2, <2>4, <3>1, AgedGrows DEF Joins, Suits
    <3>2. CASE c \in Callbacks /\ ~call[c].file /\ r.file
      <4>1. ReceiveHangup(c)
        BY <2>4, <3>2 DEF Joins, Suits
      <4>2. Done(c)
        BY <1>3, <3>2 DEF IInv, HeardOnce
      <4>3. 1 \in DOMAIN inbox /\ inbox[1] = [name |-> "hangup", call |-> c]
        BY <4>1 DEF ReceiveHangup, Receives, IInv, TypeOK, BookTypeOK
      <4> QED BY <4>2, <4>3 DEF Done
    <3> QED BY <1>0, <3>1, <3>2
  <2> QED BY <2>3, <2>4, CopiesOf
<1> QED BY <1>1, <1>2, <1>3, GoneOf

\* A removed file is named by memory only while the purge has it in hand, or before it began.
LEMMA HandStep ==
  ASSUME IInv, [Next]_vars, NEW c \in Calls, Gone(c)'
  PROVE  InHand(c)'
<1>0. /\ Calls = Callbacks \union Dials /\ Callbacks \intersect Dials = {}
      /\ purge.at \in {"idle", "walking", "unlinked", "saving"}
      /\ Gone(c) => InHand(c)
      /\ serving \in BOOLEAN /\ serving' \in BOOLEAN
  BY CallAssumption, RestTyped DEF IInv, GoneIsForgotten, TypeOK, BookTypeOK, Calls
<1>1. CASE Lost
  <2>1. purge'.at = "idle" /\ ~serving'
    BY <1>1 DEF Lost, NoPurge
  <2> QED BY <2>1 DEF InHand
<1>2. ASSUME ~Lost PROVE call'[c].file => call[c].file
  <2>1. ASSUME c \in DOMAIN purge.victims PROVE Terminal(c) /\ (c \in Callbacks => Done(c))
    BY <2>1 DEF IInv, PurgeIsLate
  <2>2. ASSUME c \in purge.orphans PROVE c \in Callbacks /\ Done(c)
    BY <2>2 DEF IInv, PurgeIsLate
  <2>3. ASSUME Gone(c) PROVE (c \in Callbacks => Done(c)) /\ (c \in Dials => Terminal(c))
    BY <2>3 DEF IInv, HeardOnce, GoneIsForgotten, Copies, IsOver, Terminal
  <2>4. (c \in Callbacks => Done(c)) /\ (c \in Dials => Terminal(c))
    BY <1>0, <2>1, <2>2, <2>3, GoneOf
  <2> QED BY <1>2, <2>4, NamesNoGone
<1>3. ASSUME purge' = NoPurge, up' = FALSE PROVE InHand(c)'
  <2>1. purge'.at = "idle" /\ ~serving'
    BY <1>3, ListensRunning DEF NoPurge
  <2> QED BY <2>1 DEF InHand
<1>4. ~Unlink(c) /\ ~RemoveOrphan(c) => Gone(c)
  BY GoneOf
<1>5. Unlink(c) => purge.at = "walking" /\ purge'.at = "unlinked" /\ purge'.cur = c
                  /\ purge'.victims = purge.victims /\ c \in DOMAIN purge.victims /\ serving' = serving
  BY DEF Unlink, IInv, PurgeTypes, process
<1>6. RemoveOrphan(c) => purge.at = "walking" /\ purge'.at = "walking" /\ purge'.orphans = purge.orphans \ {c}
                        /\ c \in purge.orphans
  BY DEF RemoveOrphan, IInv, PurgeTypes
\* What memory names of the removed before the purge begins, a boot finds to be expired.
<1>7. ASSUME Gone(c), call[c].file PROVE c \in Expired
  <2>1. call[c] \in Copies(c)
    BY DEF Copies
  <2>2. IsOver(call[c]) /\ c \in aged
    BY <1>7, <2>1 DEF IInv, GoneIsForgotten
  <2> QED BY <1>7, <2>2 DEF Expired, Terminal, IsOver
<1>8. CASE UNCHANGED <<purge, serving>> /\ ~Lost
  <2>1. Gone(c)
    BY <1>4, <1>5, <1>6, <1>8
  <2> QED BY <1>0, <1>2, <1>8, <2>1 DEF InHand
<1>9. CASE PurgeFindsNothing /\ ~Lost
  <2>1. purge.at = "idle" /\ purge' = purge /\ Expired = {}
    BY <1>9 DEF PurgeFindsNothing
  <2>2. Gone(c)
    BY <1>4, <1>5, <1>6, <2>1
  <2>3. ~call'[c].file
    BY <1>2, <1>7, <1>9, <2>1, <2>2
  <2> QED BY <2>1, <2>3 DEF InHand
<1>10. CASE PurgeLists
  <2>1. /\ purge.at = "idle" /\ purge'.at = "walking" /\ DOMAIN purge'.victims = Expired
        /\ UNCHANGED <<call, serving>>
    BY <1>10 DEF PurgeLists, bookVars, records, process
  <2>2. Gone(c)
    BY <1>4, <1>5, <1>6, <2>1
  <2> QED BY <1>0, <1>7, <2>1, <2>2 DEF InHand
<1>11. CASE PurgeSaves /\ ~Lost
  <2>1. /\ purge.at = "unlinked" /\ purge'.at = "saving" /\ purge'.cur = purge.cur
        /\ purge'.victims = purge.victims /\ serving' = serving
        /\ call' = [call EXCEPT ![purge.cur] = [purge.victims[purge.cur] EXCEPT !.file = FALSE]]
    BY <1>11 DEF PurgeSaves, Save, process, IInv, PurgeTypes
  <2>2. Gone(c)
    BY <1>4, <1>5, <1>6, <2>1
  <2>3. purge.victims[purge.cur] \in Record /\ call \in [Calls -> Record]
    BY <2>1 DEF IInv, PurgeIsLate, TypeOK, BookTypeOK
  <2>4. c = purge.cur => ~call'[c].file
    BY <2>1, <2>3 DEF Record
  <2> QED BY <1>0, <1>2, <1>11, <2>1, <2>2, <2>4 DEF InHand
<1>12. CASE PurgeSaved
  <2>1. /\ purge.at = "saving" /\ purge'.at = "walking" /\ UNCHANGED <<call, serving>>
        /\ DOMAIN purge'.victims = DOMAIN purge.victims \ {purge.cur}
    BY <1>12 DEF PurgeSaved, bookVars, records, process, IInv, PurgeTypes
  <2>2. Gone(c)
    BY <1>4, <1>5, <1>6, <2>1
  <2> QED BY <1>0, <2>1, <2>2 DEF InHand
<1>13. CASE PurgeEnds
  <2>1. purge.at = "walking" /\ DOMAIN purge.victims = {} /\ purge'.at = "idle" /\ UNCHANGED call
    BY <1>13 DEF PurgeEnds, Listens, NoPurge, records
  <2>2. Gone(c)
    BY <1>4, <1>5, <1>6, <2>1
  <2>3. ~call[c].file
    BY <1>0, <2>1, <2>2 DEF InHand
  <2> QED BY <2>1, <2>3 DEF InHand
<1>14. ASSUME NEW x \in Calls, Unlink(x) PROVE InHand(c)'
  <2>1. /\ purge.at = "walking" /\ purge'.at = "unlinked" /\ purge'.cur = x
        /\ purge'.victims = purge.victims /\ UNCHANGED <<call, serving>> /\ x \in DOMAIN purge.victims
    BY <1>14 DEF Unlink, IInv, PurgeTypes, records, process
  <2>2. CASE x = c
    BY <2>1, <2>2 DEF InHand
  <2>3. CASE x # c
    <3>1. Gone(c)
      BY <1>4, <1>5, <1>6, <2>1, <2>3
    <3> QED BY <1>0, <2>1, <3>1 DEF InHand
  <2> QED BY <2>2, <2>3
<1>15. ASSUME NEW x \in Calls, RemoveOrphan(x) PROVE InHand(c)'
  <2>1. /\ purge.at = "walking" /\ purge'.at = "walking" /\ purge'.victims = purge.victims
        /\ UNCHANGED <<call, serving>> /\ x \in purge.orphans /\ disk' = [disk EXCEPT ![x] = "absent"]
        /\ purge'.orphans = purge.orphans \ {x}
    BY <1>15 DEF RemoveOrphan, IInv, PurgeTypes, records, process
  <2>2. CASE c \in purge.orphans
    <3>1. ~call[c].file
      BY <2>2 DEF IInv, PurgeIsLate, Copies
    <3> QED BY <2>1, <3>1 DEF InHand
  <2>3. CASE c \notin purge.orphans
    <3>1. Gone(c)
      BY <1>4, <1>5, <1>6, <2>1, <2>3
    <3> QED BY <1>0, <2>1, <3>1 DEF InHand
  <2> QED BY <2>2, <2>3
<1>16. CASE UNCHANGED purge /\ ~Lost
  <2>1. ~PurgeEnds
    BY <1>16 DEF PurgeEnds, NoPurge
  <2> QED BY <1>8, <1>9, <1>16, <2>1, ServingMovers
<1> QED BY <1>1, <1>3, <1>9, <1>10, <1>11, <1>12, <1>13, <1>14, <1>15, <1>16, PurgeMovers

\* The record of a removed file is cleared, or found again.
LEMMA GoneStep ==
  ASSUME IInv, [Next]_vars
  PROVE  GoneIsForgotten'
<1>1. ASSUME NEW c \in Calls, Gone(c)'
      PROVE  InHand(c)' /\ \A r \in Copies(c)' : r.file \/ c \in Dials => IsOver(r) /\ c \in aged'
  BY <1>1, HandStep, GoneCopies
<1> QED BY <1>1, ListensRunning DEF GoneIsForgotten

-----------------------------------------------------------------------------
(* The inductive invariant and the theorems. *)

\* Every step keeps the types.
LEMMA TypeStep ==
  ASSUME IInv, [Next]_vars
  PROVE  TypeOK'
<1>1. BookTypeOK'
  BY RecordsTyped, WorldTyped, RestTyped, ListedTyped, ExpiredTyped, AgedGrows, InboxOf, TrackerOf, AnsweringTyped DEF
     BookTypeOK
<1>2. /\ purge'.at \in {"idle", "walking", "unlinked", "saving"}
      /\ DOMAIN purge'.victims \subseteq Calls
      /\ \A c \in DOMAIN purge'.victims : purge'.victims[c] \in Record
      /\ purge'.orphans \in SUBSET Calls /\ purge'.cur \in Calls \union {None}
  <2> DEFINE V == UNION {[S -> Record] : S \in SUBSET Calls}
  <2>1. purge' \in [at : {"idle", "walking", "unlinked", "saving"}, victims : V,
                    orphans : SUBSET Calls, cur : Calls \union {None}]
    BY PurgeTyped DEF PurgeTypes
  <2>2. \A v \in V : DOMAIN v \in SUBSET Calls /\ \A c \in DOMAIN v : v[c] \in Record
    OBVIOUS
  <2> HIDE DEF V
  <2> QED BY <2>1, <2>2
<1> QED BY <1>1, <1>2 DEF TypeOK

\* The initial state: no call, no file, no process yet.
LEMMA Starts == Init => IInv
<1> SUFFICES ASSUME Init PROVE IInv
  OBVIOUS
<1> USE DEF Init, BookInit
<1>0. NoRecord \in Record /\ NoRecord.status = "none" /\ ~NoRecord.file
  BY DEF NoRecord, Record
<1>1. BookTypeOK
  <2>1. /\ call \in [Calls -> Record] /\ row \in [Calls -> Record]
        /\ writes \in Seq([call : Calls, is : Record])
    BY <1>0
  <2>2. inbox \in Seq([name : {"answer", "hangup"}, call : Callbacks])
    OBVIOUS
  <2>3. tracker \in [at : {"idle", "saving", "killing"}, call : Callbacks \union {None}, refuse : BOOLEAN]
    BY DEF Idle
  <2>4. losses \in 0..MaxLosses /\ exits \in 0..MaxExits /\ stops \in 0..MaxStops
    BY BoundAssumption
  <2>5. DOMAIN todo \subseteq Calls /\ \A c \in DOMAIN todo : todo[c] \in Listed
    OBVIOUS
  <2> QED BY <2>1, <2>2, <2>3, <2>4, <2>5 DEF BookTypeOK
<1>2. TypeOK
  BY <1>1 DEF TypeOK, NoPurge
<1>3. PurgeTypes
  <2> DEFINE V == UNION {[S -> Record] : S \in SUBSET Calls}
  <2>1. << >> \in [{} -> Record]
    OBVIOUS
  <2>2. << >> \in V
    BY <2>1
  <2> HIDE DEF V
  <2>3. NoPurge \in [at : {"idle", "walking", "unlinked", "saving"}, victims : V,
                     orphans : SUBSET Calls, cur : Calls \union {None}]
    BY <2>2 DEF NoPurge
  <2> QED BY <2>3 DEF PurgeTypes, V
<1>4. Len(writes) = 0 /\ DOMAIN writes = {} /\ 1..0 = {}
  OBVIOUS
<1>5. \A c \in Calls : call[c] = NoRecord /\ row[c] = NoRecord
  OBVIOUS
<1>6. \A c \in Calls : \A r \in Copies(c) : r = NoRecord
  BY <1>4, <1>5 DEF Copies
<1>7. CacheIsLast
  <2>1. \A c \in Calls : After(Len(writes), c, call[c])
    BY <1>4, <1>5 DEF After
  <2> QED BY <1>0, <1>4, <1>6, <2>1 DEF CacheIsLast
<1>8. CeilingAhead
  <2>1. ASSUME NEW k \in 0..Len(writes) PROVE ActiveAfter(k) \ refused = {}
    <3>1. k = 0
      BY <1>4, <2>1
    <3>2. \A c \in Calls, r \in Record : After(k, c, r) => r = NoRecord
      BY <1>4, <1>5, <3>1 DEF After
    <3> QED BY <1>0, <3>2 DEF ActiveAfter
  <2>2. Cardinality({}) <= Ceiling
    BY FS_EmptySet, CeilingAssumption
  <2> HIDE DEF Init, BookInit
  <2> QED BY <2>1, <2>2 DEF CeilingAhead
<1>9. TapesFollowChannels
  BY DEF TapesFollowChannels
<1>10. CallbacksAreHeard
  BY <1>0, <1>6 DEF CallbacksAreHeard, IsOver, Idle, Calls
<1>11. DialsAreNamed
  BY <1>0, <1>6 DEF DialsAreNamed, IsOver, Calls
<1>12. SettlingIsSafe
  BY DEF SettlingIsSafe
<1>13. AgeIsKept
  BY DEF AgeIsKept
<1>14. PurgeIsLate
  BY DEF PurgeIsLate, NoPurge
<1>15. HeardOnce
  BY <1>0, <1>6 DEF HeardOnce, Gone, Calls
<1>16. GoneIsForgotten
  BY DEF GoneIsForgotten, Gone
<1> QED BY <1>2, <1>3, <1>7, <1>8, <1>9, <1>10, <1>11, <1>12, <1>13, <1>14, <1>15, <1>16 DEF IInv

\* The inductive step.
LEMMA Steps == IInv /\ [Next]_vars => IInv'
  BY TypeStep, PurgeTyped, CacheStep, CeilingStep, TapesStep, CallbacksStep, DialsStep,
     SettlingStep, AgeStep, HeardStep, PurgeStep, GoneStep DEF IInv

\* The inductive invariant holds for any number of calls, exits, lost connections and stops.
\* (InboundCallbackTracker, CallOrchestrator.reconcile, purgeRecordings)
THEOREM RetentionInvariance == Spec => []IInv
  BY Starts, Steps, PTL DEF Spec

\* The records, the world and the work in hand keep their types.
THEOREM RetentionTypes == Spec => []TypeOK
<1>1. IInv => TypeOK
  BY DEF IInv
<1> QED BY <1>1, RetentionInvariance, PTL

\* The calls in memory that were not refused are never more than the ceiling, over restarts that
\* find any prefix of the writes committed.  (admits, restore)
THEOREM CeilingHolds == Spec => []AdmittedWithinCeiling
<1>1. IInv => AdmittedWithinCeiling
  <2> SUFFICES ASSUME IInv PROVE AdmittedWithinCeiling
    OBVIOUS
  <2>1. writes \in Seq([call : Calls, is : Record])
    BY DEF IInv, TypeOK, BookTypeOK
  <2>2. Len(writes) \in 0..Len(writes)
    BY <2>1
  <2>3. Cardinality(ActiveAfter(Len(writes)) \ refused) <= Ceiling
    BY <2>2 DEF IInv, CeilingAhead
  <2> QED BY <2>3, ActiveAtLast DEF AdmittedWithinCeiling
<1> QED BY <1>1, RetentionInvariance, PTL

\* While the API listens, the file of a recording that was made and is offered is there, or was
\* unlinked in the step before, over purges, stale copies, late events, exits and boots; and no
\* file of a dial is without a name in Postgres.  (recording, purgeRecordings)
THEOREM RecordsHold == Spec => []RecordsMatchDisk
<1>1. IInv => RecordsMatchDisk
  <2> SUFFICES ASSUME IInv PROVE RecordsMatchDisk
    OBVIOUS
  <2>1. ASSUME NEW c \in Calls, serving, Offered(c), tape[c] # "never"
        PROVE  disk[c] # "absent" \/ (purge.at = "unlinked" /\ purge.cur = c)
    BY <2>1 DEF IInv, GoneIsForgotten, Gone, InHand, Offered
  <2>2. ASSUME NEW d \in Dials, disk[d] # "absent" PROVE row[d].file
    <3>1. row[d] \in Copies(d)
      BY DEF Copies
    <3> QED BY <2>2, <3>1 DEF IInv, DialsAreNamed
  <2> QED BY <2>1, <2>2 DEF RecordsMatchDisk
<1> QED BY <1>1, RetentionInvariance, PTL

\* A step removes a file only if nothing is being recorded to it and the record of the call, or
\* the file itself, is older than the retention period.  (purgeRecordings)
THEOREM OnlyExpiredHolds == Spec => OnlyExpiredRemoved
<1>1. ASSUME IInv, [Next]_vars
      PROVE  [\A c \in Calls : disk[c] # "absent" /\ disk'[c] = "absent" =>
                tape[c] # "on" /\ (c \in aged \/ disk[c] = "stale")]_vars
  <2> SUFFICES ASSUME NEW c \in Calls, disk[c] # "absent", disk'[c] = "absent"
               PROVE  tape[c] # "on" /\ (c \in aged \/ disk[c] = "stale")
    OBVIOUS
  <2>0. /\ Calls = Callbacks \union Dials /\ disk \in [Calls -> {"absent", "fresh", "stale"}]
        /\ (channel[c] = "idle" => disk[c] = "absent") /\ (tape[c] = "on" => channel[c] = "up")
    BY <1>1 DEF IInv, TypeOK, BookTypeOK, Calls, TapesFollowChannels
  <2>1. c \in DOMAIN purge.victims \/ c \in purge.orphans
    BY <1>1, <2>0, WorldOf DEF Keeps, RingsIn, IsOverNow, PicksUp, IsTaped, Stales, Loses
  <2>2. CASE c \in DOMAIN purge.victims
    <3>1. Terminal(c) /\ c \in aged /\ call[c] \in Copies(c) /\ IsOver(call[c])
      BY <1>1, <2>2 DEF IInv, PurgeIsLate, Copies, Terminal, IsOver
    <3>2. c \in Callbacks => channel[c] = "over"
      BY <1>1, <3>1 DEF IInv, CallbacksAreHeard
    <3>3. c \in Dials => tape[c] # "on"
      BY <1>1, <3>1 DEF IInv, DialsAreNamed
    <3> QED BY <2>0, <3>1, <3>2, <3>3
  <2>3. CASE c \in purge.orphans
    BY <1>1, <2>0, <2>3 DEF IInv, PurgeIsLate, Done
  <2> QED BY <2>1, <2>2, <2>3
<1> QED BY <1>1, RetentionInvariance, PTL DEF Spec, OnlyExpiredRemoved

\* No step of a running process makes a finished call active again, the purge's save of the
\* copies it took earlier included.  (markRecordingRemoved, complete)
THEOREM NeverResurrectedHolds == Spec => NeverResurrected
<1>1. ASSUME IInv, [Next]_vars
      PROVE  [up /\ up' => \A c \in Calls : Terminal(c) => Terminal(c)']_vars
  BY <1>1, CallOf DEF Joins, Suits, Terminal, IsOver, Lost
<1> QED BY <1>1, RetentionInvariance, PTL DEF Spec, NeverResurrected
=============================================================================
