-------------------------- MODULE OutcomeDelivery --------------------------
(***************************************************************************)
(* The outcome webhook of a campaign: OutcomeDispatcher                    *)
(* (server/outcome-delivery.ts) over the write-behind PrismaStore, the     *)
(* admin's endpoint setting, restarts of the API process and a network     *)
(* that loses requests and answers.                                        *)
(*                                                                         *)
(* A delivery is identified with its call (callId is unique).  One tick    *)
(* runs at a time; an action is the code between two awaits.  Endpoint,    *)
(* payload and signature are left out: one campaign, one endpoint.         *)
(***************************************************************************)
EXTENDS Naturals, FiniteSets

CONSTANTS
  Calls,             \* calls of the campaign
  Limit,             \* attempts of one delivery (8)
  Batch,             \* requests of one tick (10)
  MaxEnables,        \* bound on settings of the endpoint by the admin
  MaxRestarts,       \* bound on exits of the process, graceful or not
  MaxStoreFailures   \* bound on failed transactions

ASSUME OutcomeAssumption ==
  /\ Limit \in Nat \ {0} /\ Batch \in Nat \ {0}
  /\ MaxEnables \in Nat /\ MaxRestarts \in Nat /\ MaxStoreFailures \in Nat

VARIABLES
  phase,      \* of the process: "down", "serving", "closing" (dispatcher stopped)
  storeOk,    \* FALSE once a transaction failed
  halted,     \* a tick rejected: no further ticks in this process
  allowed,    \* this process's host allowlist admits the endpoint
  now,        \* the clock, as the number of times the endpoint was set
  webhook, webhookRow,    \* outcomeWebhookEnabledAt, 0 without an endpoint
  call, callRow,          \* whether the call is over, and when it ended
  delivery, row,          \* the outbox entry of the call
  pc, cur, todo, sent,    \* the running dispatch()
  net,        \* the last request for the delivery
  posts,      \* requests made (history)
  got,        \* the recipient accepted one (history)
  restarts, failures

dispatcher == <<pc, cur, todo, sent>>
cache == <<webhook, call, delivery>>
rows == <<webhookRow, callRow, row>>
requests == <<net, posts, got>>
process == <<phase, storeOk, halted, allowed>>
bounds == <<now, restarts, failures>>
outcomeVars == <<process, bounds, cache, rows, dispatcher, requests>>

Entry == [status : {"none", "pending", "delivered", "failed"},
          attempts : 0..Limit, due : BOOLEAN]
NoEntry == [status |-> "none", attempts |-> 0, due |-> TRUE]
NewEntry == [status |-> "pending", attempts |-> 0, due |-> TRUE]
WithStatus(entry, status) == [entry EXCEPT !.status = status]
Tried(entry) == [status |-> entry.status, attempts |-> entry.attempts + 1, due |-> FALSE]
DueNow(entry) == [entry EXCEPT !.due = TRUE]
CallRecord == [over : BOOLEAN, at : 0..MaxEnables]

ProcessTypes ==
  /\ phase \in {"down", "serving", "closing"}
  /\ storeOk \in BOOLEAN /\ halted \in BOOLEAN /\ allowed \in BOOLEAN
BoundTypes == now \in 0..MaxEnables /\ restarts \in 0..MaxRestarts /\ failures \in 0..MaxStoreFailures
StoreTypes ==
  /\ webhook \in 0..MaxEnables /\ webhookRow \in 0..MaxEnables
  /\ call \in [Calls -> CallRecord] /\ callRow \in [Calls -> CallRecord]
  /\ delivery \in [Calls -> Entry] /\ row \in [Calls -> Entry]
DispatcherTypes ==
  /\ pc \in {"idle", "creating", "sending", "committing", "posted", "saving"}
  /\ cur \in SUBSET Calls /\ todo \in SUBSET Calls /\ sent \in 0..Batch
NetworkTypes ==
  /\ net \in [Calls -> {"idle", "flying", "arrived"}]
  /\ posts \in [Calls -> 0..Limit] /\ got \in [Calls -> BOOLEAN]
OutcomeTypes == ProcessTypes /\ BoundTypes /\ StoreTypes /\ DispatcherTypes /\ NetworkTypes

OutcomeInit ==
  /\ phase = "serving" /\ storeOk = TRUE /\ halted = FALSE /\ allowed = TRUE
  /\ now = 0 /\ restarts = 0 /\ failures = 0
  /\ webhook = 0 /\ webhookRow = 0
  /\ call = [c \in Calls |-> [over |-> FALSE, at |-> 0]] /\ callRow = call
  /\ delivery = [c \in Calls |-> NoEntry] /\ row = delivery
  /\ pc = "idle" /\ cur = {} /\ todo = {} /\ sent = 0
  /\ net = [c \in Calls |-> "idle"]
  /\ posts = [c \in Calls |-> 0] /\ got = [c \in Calls |-> FALSE]

-----------------------------------------------------------------------------
(* The store: saves change the cache, commits bring the rows after it. *)

\* flush() resolves when everything saved is committed.
Flushed == webhook = webhookRow /\ call = callRow /\ delivery = row

CommitCall(c) ==
  /\ phase # "down" /\ storeOk /\ callRow[c] # call[c]
  /\ callRow' = [callRow EXCEPT ![c] = call[c]]
  /\ UNCHANGED <<process, bounds, cache, webhookRow, row, dispatcher, requests>>

\* The queue of transactions is FIFO: a delivery was saved after its call was over.
CommitDelivery(c) ==
  /\ phase # "down" /\ storeOk /\ row[c] # delivery[c] /\ callRow[c] = call[c]
  /\ row' = [row EXCEPT ![c] = delivery[c]]
  /\ UNCHANGED <<process, bounds, cache, webhookRow, callRow, dispatcher, requests>>

CommitWebhook ==
  /\ phase # "down" /\ storeOk /\ webhookRow # webhook
  /\ webhookRow' = webhook
  /\ UNCHANGED <<process, bounds, cache, callRow, row, dispatcher, requests>>

StoreFails ==
  /\ phase # "down" /\ storeOk /\ ~Flushed /\ failures < MaxStoreFailures
  /\ storeOk' = FALSE /\ failures' = failures + 1
  /\ UNCHANGED <<phase, halted, allowed, now, restarts, cache, rows, dispatcher, requests>>

-----------------------------------------------------------------------------
(* Around the dispatcher: calls end, the admin sets the endpoint. *)

CallEnds(c) ==
  /\ phase # "down" /\ storeOk /\ ~call[c].over
  /\ call' = [call EXCEPT ![c] = [over |-> TRUE, at |-> now]]
  /\ UNCHANGED <<process, bounds, webhook, delivery, rows, dispatcher, requests>>

\* PUT outcome-webhook: a new setting applies to completions from now on; the host
\* must be on the allowlist of this process.
SetEndpoint ==
  /\ phase # "down" /\ storeOk /\ allowed /\ now < MaxEnables
  /\ now' = now + 1 /\ webhook' = now + 1
  /\ UNCHANGED <<process, restarts, failures, call, delivery, rows, dispatcher, requests>>

ClearEndpoint ==
  /\ phase # "down" /\ storeOk /\ webhook # 0
  /\ webhook' = 0
  /\ UNCHANGED <<process, bounds, call, delivery, rows, dispatcher, requests>>

-----------------------------------------------------------------------------
(* dispatch() *)

Rejects == pc' = "idle" /\ cur' = {} /\ todo' = {} /\ sent' = 0 /\ halted' = TRUE
Returns == pc' = "idle" /\ cur' = {} /\ todo' = {} /\ sent' = 0

\* Finished calls of the campaign without an entry.
AnnouncesLate(c) == /\ call[c].over /\ delivery[c].status = "none"           \* mutant
                    /\ webhook # 0 /\ call[c].at > webhook
Announces(c) == /\ call[c].over /\ delivery[c].status = "none"
                /\ webhook # 0 /\ call[c].at >= webhook

Tick ==
  /\ phase = "serving" /\ ~halted /\ pc = "idle"
  /\ LET new == {c \in Calls : Announces(c)} IN
     \/ (new = {} \/ storeOk)
        /\ delivery' = [c \in Calls |-> IF c \in new THEN NewEntry ELSE delivery[c]]
        /\ pc' = "creating" /\ UNCHANGED <<cur, todo, sent, halted>>
     \/ new # {} /\ ~storeOk /\ Rejects /\ UNCHANGED delivery
  /\ UNCHANGED <<phase, storeOk, allowed, bounds, webhook, call, rows, requests>>

\* The flush after the new entries; then the pending ones are listed.  They are
\* taken by nextAttemptAt in the code and in any order here.
Pending == {c \in Calls : delivery[c].status = "pending"}
List ==
  /\ pc = "creating"
  /\ \/ storeOk /\ Flushed /\ pc' = "sending" /\ todo' = Pending
                /\ UNCHANGED <<cur, sent, halted>>
     \/ ~storeOk /\ Rejects
  /\ UNCHANGED <<phase, storeOk, allowed, bounds, cache, rows, requests>>

Spent(c) == delivery[c].attempts >= Limit
StopsHere == phase = "closing" \/ sent >= Batch \/ todo = {}

TickDone ==
  /\ pc = "sending" /\ StopsHere
  /\ Returns
  /\ UNCHANGED <<process, bounds, cache, rows, requests>>

\* The next pending entry is not due yet.
NotDue(c) ==
  /\ pc = "sending" /\ ~StopsHere /\ c \in todo
  /\ ~Spent(c) /\ ~delivery[c].due
  /\ todo' = todo \ {c}
  /\ UNCHANGED <<process, bounds, cache, rows, pc, cur, sent, requests>>

\* The final attempt was not acknowledged before a restart, or the endpoint is no
\* longer permitted: the entry is failed without a request.
GiveUp(c) ==
  /\ pc = "sending" /\ ~StopsHere /\ c \in todo
  /\ Spent(c) \/ (delivery[c].due /\ ~allowed)
  /\ \/ storeOk /\ delivery' = [delivery EXCEPT ![c] = WithStatus(@, "failed")]
                /\ pc' = "saving" /\ todo' = todo \ {c} /\ UNCHANGED <<cur, sent, halted>>
     \/ ~storeOk /\ Rejects /\ UNCHANGED delivery
  /\ UNCHANGED <<phase, storeOk, allowed, bounds, webhook, call, rows, requests>>

\* The attempt is saved with its next time before the request is made.
Attempt(c) ==
  /\ pc = "sending" /\ ~StopsHere /\ c \in todo
  /\ ~Spent(c) /\ delivery[c].due /\ allowed
  /\ \/ storeOk /\ delivery' = [delivery EXCEPT ![c] = Tried(@)]
                /\ pc' = "committing" /\ todo' = todo \ {c} /\ cur' = {c}
                /\ UNCHANGED <<sent, halted>>
     \/ ~storeOk /\ Rejects /\ UNCHANGED delivery
  /\ UNCHANGED <<phase, storeOk, allowed, bounds, webhook, call, rows, requests>>

MayPost == storeOk /\ Flushed
Send(c) ==
  /\ pc = "committing" /\ c \in cur
  /\ \/ MayPost /\ pc' = "posted" /\ sent' = sent + 1
                /\ net' = [net EXCEPT ![c] = "flying"]
                /\ posts' = [posts EXCEPT ![c] = @ + 1]
                /\ UNCHANGED <<cur, todo, halted, got>>
     \/ ~storeOk /\ Rejects /\ UNCHANGED requests
  /\ UNCHANGED <<phase, storeOk, allowed, bounds, cache, rows>>

\* A 2xx answer, or anything else within three seconds; the result is saved.
Result(c, ok) == IF ok THEN "delivered"
                 ELSE IF delivery[c].attempts >= Limit THEN "failed" ELSE "pending"
AcknowledgedBySending(c) == net[c] # "idle"                                  \* mutant
Acknowledged(c) == net[c] = "arrived"
Reply(c) ==
  /\ pc = "posted" /\ c \in cur
  /\ \E ok \in BOOLEAN :
       /\ ok => Acknowledged(c)
       /\ \/ storeOk /\ delivery' = [delivery EXCEPT ![c] = WithStatus(@, Result(c, ok))]
                     /\ pc' = "saving" /\ cur' = {} /\ UNCHANGED <<todo, sent, halted>>
          \/ ~storeOk /\ Rejects /\ UNCHANGED delivery
  /\ UNCHANGED <<phase, storeOk, allowed, bounds, webhook, call, rows, requests>>

Saved ==
  /\ pc = "saving"
  /\ \/ storeOk /\ Flushed /\ pc' = "sending" /\ UNCHANGED <<cur, todo, sent, halted>>
     \/ ~storeOk /\ Rejects
  /\ UNCHANGED <<phase, storeOk, allowed, bounds, cache, rows, requests>>

-----------------------------------------------------------------------------
(* Time, the network, and the process *)

\* nextAttemptAt passes, in memory and in the row alike.
Elapse(c) ==
  /\ ~delivery[c].due \/ ~row[c].due
  /\ delivery' = [delivery EXCEPT ![c] = DueNow(@)] /\ row' = [row EXCEPT ![c] = DueNow(@)]
  /\ UNCHANGED <<process, bounds, webhook, call, webhookRow, callRow, dispatcher, requests>>

\* The recipient accepts the request; it may be long after the dispatcher gave up on it.
Arrive(c) ==
  /\ net[c] = "flying" /\ net' = [net EXCEPT ![c] = "arrived"]
  /\ got' = [got EXCEPT ![c] = TRUE]
  /\ UNCHANGED <<process, bounds, cache, rows, dispatcher, posts>>

\* Memory is lost; what the next process finds is the rows.
Down ==
  /\ phase' = "down" /\ storeOk' = TRUE /\ halted' = FALSE /\ Returns
  /\ webhook' = webhookRow /\ call' = callRow /\ delivery' = row
  /\ UNCHANGED <<allowed, now, failures, rows, requests>>

Crash == phase # "down" /\ restarts < MaxRestarts /\ restarts' = restarts + 1 /\ Down

Shutdown ==
  /\ phase = "serving" /\ restarts < MaxRestarts
  /\ phase' = "closing" /\ restarts' = restarts + 1
  /\ UNCHANGED <<storeOk, halted, allowed, now, failures, cache, rows, dispatcher, requests>>

\* close() awaited the running tick; the store is closed last.
Exit == phase = "closing" /\ pc = "idle" /\ (Flushed \/ ~storeOk) /\ Down /\ UNCHANGED restarts

Restart ==
  /\ phase = "down"
  /\ phase' = "serving" /\ allowed' \in BOOLEAN
  /\ UNCHANGED <<storeOk, halted, bounds, cache, rows, dispatcher, requests>>

Dispatch == Tick \/ List \/ TickDone \/ Saved
            \/ \E c \in Calls : NotDue(c) \/ GiveUp(c) \/ Attempt(c) \/ Send(c) \/ Reply(c)
Commit == CommitWebhook \/ \E c \in Calls : CommitCall(c) \/ CommitDelivery(c)
OutcomeNext == \/ Dispatch \/ Commit \/ StoreFails \/ SetEndpoint \/ ClearEndpoint
        \/ Crash \/ Shutdown \/ Exit \/ Restart
        \/ \E c \in Calls : CallEnds(c) \/ Elapse(c) \/ Arrive(c)

OutcomeSpec == OutcomeInit /\ [][OutcomeNext]_outcomeVars

\* The timer ticks, the database answers, a request is answered or times out after
\* three seconds, time passes, and the container is restarted when it exits.
OutcomeFairness == /\ WF_outcomeVars(Dispatch) /\ WF_outcomeVars(Commit) /\ WF_outcomeVars(Exit) /\ WF_outcomeVars(Restart)
            /\ \A c \in Calls : WF_outcomeVars(Elapse(c))
OutcomeFairSpec == OutcomeSpec /\ OutcomeFairness

-----------------------------------------------------------------------------
(* Properties *)

\* Every request is on record before it is made: whatever is lost in a crash, the
\* committed attempts cover the requests (dispatch(): flush before fetch).
PostsOnRecord == \A c \in Calls : posts[c] <= row[c].attempts

\* An outcome is announced only of a call whose terminal record is committed, so no
\* restart can bring the call back to life (dispatch(): terminal calls, FIFO queue).
AnnouncedIsOver == \A c \in Calls : row[c].status # "none" => callRow[c].over

\* The committed outbox behaves as Outbox: announced once, at most Limit requests
\* across all restarts, delivered only if accepted, settled for good.
Promise == INSTANCE Outbox WITH status <- [c \in Calls |-> row[c].status]
ImplementsOutbox == Promise!ObSpec

\* An outcome the campaign owes: announced and not settled, or of a call that ended while
\* the endpoint was set.
Owed(c) ==
  \/ row[c].status = "pending"
  \/ callRow[c].over /\ webhookRow # 0 /\ callRow[c].at >= webhookRow
Settled(c) == row[c].status \in {"delivered", "failed"}

\* Every outcome is settled in the end, whatever the recipient does and also when the process
\* exits right after the call, unless the endpoint changed before it was announced, or the
\* store fails, which stops the dispatcher until somebody restarts the process.  (tick)
OutcomesSettle ==
  \A c \in Calls :
    Owed(c) ~> \/ Settled(c)
               \/ webhook # now /\ row[c].status # "pending"
               \/ ~storeOk
=============================================================================
