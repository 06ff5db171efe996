---------------------------- MODULE SpeechTurns ----------------------------
(***************************************************************************)
(* From a provider's messages to what the caller said.  One connection     *)
(* carries every reply of a call.  The provider in use (engine) is either  *)
(*   nova   results, interim and final, of pieces of speech; a reply ends  *)
(*          with a flag on a result or with a marker of its own, and a     *)
(*          final result may come twice;                                   *)
(*   flux   turns, which begin, are revised, and end with their text.      *)
(* The two handlers of deepgram.ts and deepgram-flux.ts are modelled with  *)
(* all their per-utterance state; the provider is external, and what the   *)
(* caller says is a row of numbered words.                                 *)
(***************************************************************************)
EXTENDS Naturals, Sequences, FiniteSets, SequencesExt

CONSTANTS
    MaxWords,    \* bound: words of the caller on one connection
    SeenSize     \* final results remembered to recognise a second copy

ASSUME TurnsAssumption == MaxWords \in Nat \ {0} /\ SeenSize \in Nat \ {0}

VARIABLES
    engine,      \* the provider in use
    \* the connection's handler
    completed,   \* the words collected so far have been reported
    speaking,    \* the beginning of this reply has been reported
    pieces,      \* the final words not yet reported
    seen,        \* the final results remembered, oldest first
    \* what it reported on this connection
    noticed,     \* the beginning of a reply, since the last one it reported
    heard,       \* the replies
    surprised,   \* a reply whose beginning was not reported before it
    \* the provider's side of the connection
    word,        \* how many words it has made final
    due,         \* those since it last ended a reply
    said         \* the replies it has ended

handler == <<completed, speaking, pieces, seen>>
reports == <<noticed, heard, surprised>>
provider == <<word, due, said>>
turns == <<handler, reports, provider>>

Words == 1 .. MaxWords
Reply == Seq(Words)

TurnsTypeOK ==
    /\ engine \in {"nova", "flux"}
    /\ completed \in BOOLEAN /\ speaking \in BOOLEAN /\ noticed \in BOOLEAN /\ surprised \in BOOLEAN
    /\ pieces \in Seq(Words) /\ seen \in Seq(Words) /\ due \in Seq(Words)
    /\ Len(seen) <= SeenSize /\ word \in 0 .. MaxWords
    /\ heard \in Seq(Reply) /\ said \in Seq(Reply)

Quiet ==
    /\ completed = FALSE /\ speaking = FALSE /\ pieces = <<>> /\ seen = <<>>
    /\ noticed = FALSE /\ heard = <<>> /\ surprised = FALSE /\ word = 0 /\ due = <<>> /\ said = <<>>

\* a new connection knows nothing of the one before it
Quietened ==
    /\ completed' = FALSE /\ speaking' = FALSE /\ pieces' = <<>> /\ seen' = <<>>
    /\ noticed' = FALSE /\ heard' = <<>> /\ surprised' = FALSE /\ word' = 0 /\ due' = <<>> /\ said' = <<>>

(***************************************************************************)
(* The provider: a message about the word w, or without words (0); what    *)
(* it makes final counts once, and an end closes the reply.                *)
(***************************************************************************)
Says(w, ends) ==
    LET all == IF w > word THEN Append(due, w) ELSE due IN
    /\ word' = IF w > word THEN w ELSE word
    /\ due' = IF ends THEN <<>> ELSE all
    /\ said' = IF ends /\ all # <<>> THEN Append(said, all) ELSE said

(***************************************************************************)
(* The handler's two callbacks, of one message: it may say that a reply    *)
(* began, and then report the reply r.                                     *)
(***************************************************************************)
Reported(begins, r) ==
    /\ heard' = Append(heard, r) /\ noticed' = FALSE
    /\ surprised' = (surprised \/ ~ (noticed \/ begins))

NotReported(begins) == noticed' = (noticed \/ begins) /\ UNCHANGED <<heard, surprised>>

(***************************************************************************)
(* nova.                                                                   *)
(***************************************************************************)
\* a result is news unless it repeats a final one that is remembered
Fresh(w) == w # 0 /\ \A i \in DOMAIN seen : seen[i] # w

Remembered(w) == Append(IF Len(seen) < SeenSize THEN seen ELSE Tail(seen), w)

\* mutant: the first report is the connection's last
NeverReopens(w) == FALSE

\* the first news after a report belongs to the next reply
Reopens(w) == Fresh(w) /\ completed

Begins(w) == Fresh(w) /\ (completed \/ ~ speaking)

\* the reply is over: with the words p, unless c, they were reported before
Finished(begins, p, c) ==
    IF p # <<>> /\ ~ c
    THEN completed' = TRUE /\ pieces' = <<>> /\ Reported(begins, p)
    ELSE completed' = c /\ pieces' = p /\ NotReported(begins)

\* Results for word w (0: a result without words), final or interim, perhaps
\* with the flag that the reply is over; a second copy is of the last word
Results(w, final, ends) ==
    /\ engine = "nova" /\ (ends => final)
    /\ w \in {0, word + 1} \/ (w = word /\ final)
    /\ LET kept == IF Reopens(w) THEN <<>> ELSE pieces
           p == IF final /\ Fresh(w) THEN Append(kept, w) ELSE kept
           c == completed /\ ~ Reopens(w)
       IN IF ends THEN Finished(Begins(w), p, c)
          ELSE completed' = c /\ pieces' = p /\ NotReported(Begins(w))
    /\ speaking' = (speaking \/ Fresh(w))
    /\ seen' = IF final /\ Fresh(w) THEN Remembered(w) ELSE seen
    /\ IF final THEN Says(w, ends) ELSE UNCHANGED provider
    /\ UNCHANGED engine

UtteranceEnd ==
    /\ engine = "nova"
    /\ Finished(FALSE, pieces, completed)
    /\ Says(0, TRUE)
    /\ UNCHANGED <<engine, speaking, seen>>

(***************************************************************************)
(* flux.  The text of a turn is revised until the turn ends, and arrives   *)
(* whole with its end; a turn may end without any.                         *)
(***************************************************************************)
StartOrUpdate ==
    /\ engine = "flux"
    /\ speaking' = TRUE /\ NotReported(~ speaking)
    /\ UNCHANGED <<engine, completed, pieces, seen, provider>>

EndOfTurn(w) ==
    /\ engine = "flux" /\ w \in {0, word + 1}
    /\ speaking' = FALSE
    /\ IF w = 0 THEN NotReported(FALSE) ELSE Reported(~ speaking, <<w>>)
    /\ Says(w, TRUE)
    /\ UNCHANGED <<engine, completed, pieces, seen>>

Message ==
    \/ \E w \in 0 .. MaxWords, final, ends \in BOOLEAN : Results(w, final, ends)
    \/ UtteranceEnd
    \/ StartOrUpdate
    \/ \E w \in 0 .. MaxWords : EndOfTurn(w)

=============================================================================
