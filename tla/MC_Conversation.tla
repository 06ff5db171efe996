-------------------------- MODULE MC_Conversation --------------------------
(* Instances of Conversation for TLC; the bounds are in the configurations. *)
EXTENDS Conversation, TLC

MC_Endpointing == <<300, 900>>

\* What the next steps and the properties can depend on.  A refused hangup and a speech
\* notice matter to the window they belong to, which is entered anew and never again; with
\* a call that is over they, and the end of its clip, change nothing but themselves.
InTurn(w) == win # 0 /\ w = win
View == <<IF Active THEN <<Len(refused), \E i \in DOMAIN refused : InTurn(refused[i]), InTurn(speaking), clip>>
          ELSE <<>>,
          status, timer, jobs, step, finishing, win, opened, last, heard, workerVars, net>>
=============================================================================
