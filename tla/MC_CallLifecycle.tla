-------------------------- MODULE MC_CallLifecycle --------------------------
(* Instances of CallLifecycle for TLC; the bounds are in the configurations. *)
EXTENDS CallLifecycle, TLC

CallSymmetry == Permutations(Calls)

\* What the next steps and the properties of lifecycle_capacity can depend on.  No guard
\* tells one reason from another, and what still runs for a call that is over (its start,
\* its queue, its events, its retry) changes nothing but itself: a terminal record is
\* never saved again.  What is awaited of it, its row and its channel stay in the view.
Bare(r) == <<r.status, r.intent = None, r.auth>>
Pending(c) == <<start[c], timers[c], flushing[c], why[c] = None, op[c].pc,
                op[c].intent = None, c \in again, news[c]>>
CallView(c) == <<Bare(call[c]), Bare(row[c]), chan[c], c \in overlooked /\ Dialed(c), term[c],
                 flushing[c] \cap {"term", "rec"}, flushing[c] = {},
                 IF Active(c) THEN Pending(c) ELSE <<>>>>
View == <<stop, reconciling, rec, storeOk, conn, world, [c \in Calls |-> CallView(c)]>>
=============================================================================
