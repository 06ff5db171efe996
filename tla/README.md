# MKTR voice bot: a TLA+ development

The repository is a telephone campaign bot: an API process (`server/`) places
outbound calls through FreeSWITCH, plays the clips of a published flow, listens
and classifies what the callee says, and records every outcome in Postgres. A
media worker (`media-worker/`) turns the call's audio into transcripts. This
directory models the parts where order, failure and restarts decide whether the
system is right, checks them with TLC on small instances and proves the most
important results with TLAPS for every instance.

`PROJECT.json` lists components, runs, mutants, the map from definitions to
source lines, hazards and theorems. Paths in this file are relative to the
repository.

## 1. Inventory

| Component | State it keeps | Operations | Hard parts | Modules |
|---|---|---|---|---|
| `CallOrchestrator` (`server/orchestrator.ts`, boot `index.ts`, `shutdown.ts`) | termination promises and reasons, timers, per-call serial queues, the `reconciling` and `stopping` flags | start, answer, transcript, speech, media error, stop, timers, gateway events, reconcile, initialize, shutdown | every `await` lets any other handler in; hangup events bypass the queue; whole-record saves; process exits | `CallLifecycle`, `ListenTurns`, `FlowRun`, `CallBook` |
| `PrismaStore` / `InMemoryStore` (`server/prisma-store.ts`, `store.ts`) | cache of every record, a FIFO of transactions, a failure latch | save*, flush, close, load at boot | the cache is ahead of the rows; one failure refuses everything until restart | inside each module that saves |
| `FreeSwitchEslAdapter`, `EslClient` (`server/telephony.ts`, `esl.ts`) | one socket, the queue of commands, early job results, seen events | originate, hangup, show channels, play, listen, reconnect | replies and events race; a lost connection leaves commands of unknown effect | `EslClient`, `GatewayEvents`, `FrameDecoder` |
| `OutcomeDispatcher` (`server/outcome-delivery.ts`) | one durable delivery per finished campaign call | tick, close | at-least-once with at most eight attempts across crashes | `OutcomeDelivery`, `Outbox` |
| `CampaignDialer` (`server/campaigns.ts`, `contacts.ts`) | campaigns and their contacts, a serial queue of ticks and controls | tick, start, pause, stop, reconcile, import | attempts are committed before the dial; restarts; unconfirmed calls | `CampaignDialer`, `ContactImport` |
| `ConsentPolicy`, consent and DNC evidence (`server/compliance.ts`, `store.ts`) | last consent, last opt-out, DNC result per number | authorize, saveConsent, saveDncClearance | replay of old evidence; a restart must decide alike | `ConsentLedger` |
| `DncChecker` (`server/dnc.ts`) | a chain of paid runs | preview, scrub | credits must not be spent twice; evidence changes meanwhile | `DncChecker` |
| `InboundCallbacks` (`server/inbound-callbacks.ts`) | inbound calls, recordings | receive, reconcile, attach recording | saves call records beside the orchestrator | `CallBook` |
| `RecordingPurger` (`server/recordings.ts`), call history (`call-history.ts`) | files and their expiry | purge, page | unlink and record update are two steps | `RecordingRetention`, `CallHistory` |
| listen windows (`server/listen-window.ts`, orchestrator) | the open window of a call, accepted utterances | open, accept, silence, close | late or duplicate transcripts, speech racing the silence timer | `ListenTurns`, `MediaNet` |
| media worker (`media-worker/`) | reservations, windows, undelivered utterances, provider connections, a capture | reserve, window, audio, deliver, close | receipts lost and retried, lifetime timer, retunes, provider failures | `MediaWorker`, `AudioStream`, `SpeechTurns` |
| flows (`flow-validation.ts`, `advance()`, `pickRoute`, `classifier.ts`) | the graph, its versions; node, counters and result of a call | validateFlow, advance, noSpeech | loops, fallbacks, retry limits | `FlowGraph`, `FlowRun` |
| clips and flows (`app.ts`, `uploads.ts`, `clip-reconciliation.ts`) | cache, rows and files | upload, delete, archive, edit, publish, reconcile at boot | three copies, crashes between any two steps | `ClipLibrary` |

### What makes each component correct

* **Orchestrator.** No more channels than the trunk allows; no channel without a slot
  that accounts for it, which the code keeps but for one race; a dial goes out only with
  the permission recorded in the committed row; terminal records stand; every slot is
  freed; dialing reopens after a restart, and only after everything of before is
  settled.
* **Store.** What `flush` acknowledged is committed; after a failure nothing is
  acknowledged any more.
* **Outcome delivery.** One delivery per finished call, never a ninth request,
  no request that a crash could forget, a settled delivery for every outcome.
* **Campaigns.** Never more dials than attempts, none after a stop, none repeated but
  after a call known to have ended busy or unanswered, and a campaign finishes.
* **Gateway client.** A reply settles the command that asked; no command runs twice;
  a result is heard exactly once; the queue never blocks.
* **Permissions.** The latest opt-out always wins; evidence is never resurrected; no
  credit is spent twice.
* **Conversation.** A transcript is applied once, to its window; no turn waits forever;
  a published flow cannot fail for want of a node, clip or route.
* **Speech.** Each provider connection gets an unbroken stretch of audio; every reply
  is announced and told once.
* **Recordings and clips.** What a record names exists; what is expired goes; what an
  operator was told is on record.

### Not modelled

The web UI, operator sessions (signed cookies), server-sent events, health, metrics
and logging, configuration, the database schema, deployment and scripts: they keep no
state that the properties depend on, or are presentation. Of the HTTP API, parsing,
rate limits and read-only views. Column mapping of the store, the normalised outcome
(`outcomes.ts`), the texts of timelines, latencies, the simulator. Each is listed under
"components" in `PROJECT.json` with its reason.

## 2. How the project is organised

| Run | Module it instantiates | Composes |
|---|---|---|
| `lifecycle_capacity`, `lifecycle_faults`, `lifecycle_orphan` | `MC_CallLifecycle` | `CallLifecycle` |
| `outcome_delivery` | `MC_OutcomeDelivery` | `OutcomeDelivery`, refining `Outbox` |
| `campaign_dialer` | `MC_CampaignDialer` | `CampaignDialer`; the functions of `ContactImport` |
| `permissions` | `MC_DncChecker` | `DncChecker` over `ConsentLedger` |
| `conversation` | `MC_Conversation` | `Conversation` = `ListenTurns` and `MediaWorker` over `MediaNet` |
| `speech` | `MC_AudioStream` | `AudioStream` over `SpeechTurns` |
| `flow_routing` | `MC_FlowRun` | `FlowRun` over `FlowGraph` |
| `gateway` | `MC_GatewayEvents` | `GatewayEvents` over `EslClient`; the functions of `FrameDecoder` |
| `recordings` | `MC_RecordingRetention` | `RecordingRetention` over `CallBook`; the functions of `CallHistory` |
| `content` | `MC_ClipLibrary` | `ClipLibrary` |

Conventions. JavaScript runs one stretch of code at a time, so an action is the code
between two `await`s and everything else may happen at each of them. A cache and its
rows are two variables, and a transaction commits in an action of its own. History
variables, marked so, are read by no guard. An operator marked `mutant` is a plausible
bug of the operator it stands before; each property of a run is broken by one of them.
Every bound is a constant named `Max...` (or a limit of the code made small) and counted
in a guard. The runs check what is hard to get right; a further property that is proved
for every instance is not run again on a small one. Every run is expected to pass but
`lifecycle_orphan`, which shows where the code departs from a document (section 3).

Proved for every value of the constants: every invariant and every action property of the
runs, and the refinement of `Outbox`. The proofs about a module `M` are in `M_proofs`,
which extends it and begins with the inductive invariant `IInv`, the conjunction of its
named parts. Two of these modules hold the proofs about two models whose variables are disjoint:

| Module of proofs | About |
|---|---|
| `CallLifecycle_proofs`, `CampaignDialer_proofs`, `ClipLibrary_proofs` | the module of that name |
| `DncChecker_proofs` | `DncChecker` over `ConsentLedger` |
| `AudioStream_proofs` | `AudioStream` over `SpeechTurns` |
| `RecordingRetention_proofs` | `RecordingRetention` over `CallBook` |
| `Conversation_proofs` | `Conversation`, and `FlowRun` over `FlowGraph`: the turns of a call and its flow |
| `GatewayEvents_proofs` | `GatewayEvents` over `EslClient`, and `OutcomeDelivery`: what comes from the gateway and what is reported of it |

Because they are read together, `FlowRun` and `OutcomeDelivery` name the parts of their
specifications `FlowInit`, `FlowNext`, `FlowSpec` and `OutcomeInit`, `OutcomeNext`,
`OutcomeSpec`.

What remains to be written, in order: the composition of `CallLifecycle` with
`CampaignDialer`, which now stand for each other by nondeterminism; creation of campaigns
and the rotation between them; the scenario of the simulator.

## 3. `CallLifecycle`

**What it stands for.** One API process, its write-behind store, one ESL
connection and FreeSWITCH.

| In the model | In the code |
|---|---|
| `call`, `row`, `flushing`, `storeOk` | cache and rows of `PrismaStore`, who awaits a flush, the failure latch |
| `start[c]`, actions `Start*`, `DialState`, `MayWrite` | `start()`, the guard given to `originate()` |
| `term[c]`, `why`, `again`; `Finish`, `TermSaved`, `KillReply`, `KillFails`, ... | `finish()`, the `terminations` map, `complete()` |
| `op[c]`; `AnsweredEvent`, `Turn`, `TurnRoutes`, `OpEnds` | the serial queue of a call: `answer()`, transcripts, `advance()` |
| `rec`, `reconciling`; `Rec*` | `reconcile()` and the promise it shares |
| `conn`, `chan`, `news`; `Drop`, `Reconnect`, `Fs*` | the ESL connection, the channel at the gateway, its events (external) |
| `stop`, `phase`; `BeginShutdown`, `DrainCalls`, `Exit`, `Restart` | `shutdown.ts`, boot in `index.ts` |
| `evidence` | what `ConsentPolicy.authorize` answers for the destination |

`queued` stands for queued, dialing and ringing, and `answered` for answered,
playing, listening and classifying: no guard modelled here tells them apart.
`pendingStarts` goes up and down between the same two awaits, so it is zero in
every state. Commands reach the gateway in any order here, the code sends them
first-in first-out: the model has more behaviours.

**Dials that are overlooked.** `bgapi originate` is answered before its channel exists, so
an accepted dial is first a job (`chan = "job"`), then a channel. A `uuid_kill` answered
"No such channel", and a listing without the channel, mean the same to the code whether the
channel is gone or yet to come (`telephony.ts:129`, `orchestrator.ts:109`-`115`). `overlooked`
(history) remembers the dials that were looked for while they were a job. The code frees
their slot, although `docs/decisions.md:45` promises to "terminate the provider channel before
releasing its logical slot": the run `lifecycle_orphan` violates `NoOrphanChannel` with one
call and no fault at all. `OrphanWasOverlooked` says that this race is the only way: a dial
that is not overlooked has its slot, in memory and in its row, whatever else happens.
`TrunkCeiling` says of the dials that are not overlooked, on their way or up, that they
never exceed the trunk. An overlooked one comes on top of that, until a later reconciliation
lists it.

**Runs.** `lifecycle_capacity`: two calls, one slot (with one slot the second call
is exactly the one that must be refused), a change of the permission, a lost connection, an
exit. `lifecycle_faults`: one call with its conversation through a lost connection, an exit
and a failed transaction, with the liveness properties. `lifecycle_orphan`: one call, no
faults. One loss of the connection already separates a call's own hangup from that of a
reconciliation; with two, a slot may stay taken (section 12). Deadlock is not checked because
call identifiers and fault budgets run out. `EveryCallEnds` and `DialingReopens` promise
nothing after a failed transaction: the process refuses every save until someone restarts it.

**Fairness.** Weak fairness of every handler that has been scheduled (promises
resolve, timers fire, Postgres answers or fails), of the reconnection (the client
retries for ever), of the restart (the container is restarted) and of the gateway's
progress. None for faults, operators, or callees.

**What is proved** (`CallLifecycle_proofs`), for any number of calls, any ceiling,
any bounds:

* `Invariance`: `IInv` is an invariant. `IInv` is `TypeOK`, `SlotCeiling`, `Books`,
  `RecSees`, `OrphanWasOverlooked`, `TrunkCeiling`.
* `TypeCorrect`, `SlotCeilingHolds`, `OverlookedHolds`, `TrunkCeilingHolds`: parts of it,
  with no assumption on when the gateway creates its channels.
* `TerminalRecordsStand`, `DialsAreRecorded`, `ReconcileSettlesAll`: the action
  properties, from `IInv` and its preservation.

*Why the strengthening is needed.* None of the properties is inductive alone.
`RowFollows` says the row never runs ahead of the cache; `StartIsDurable` says what each
stage of a start has committed, without which the written originate could not be known
to be recorded; `ChannelHistory` says that a channel or an event presupposes an
originate; `DialingClosed` and `RecCovers` say what a running reconciliation still has
in hand, which is what makes its end a proof that nothing of before is left; `RecSees`
says that a dial the reconciliation did not list is neither on its way nor up, unless it
was overlooked. *Argument.* Type lemmas go action group by action group; steps are then
classified by `Kind` (quiet, committing, opening, ending, ...), each part of `IInv` is
preserved per kind, and PTL joins the pieces.

*Only model-checked.* `EveryCallEnds` and `DialingReopens`, which are liveness.

## 4. `OutcomeDelivery` and `Outbox`

`Outbox` is the promise: an outcome is announced once, gets at most `Limit`
requests over all restarts, is delivered only if the recipient accepted a request,
and is settled for good. `OutcomeDelivery` is the dispatcher with cache, rows,
failing transactions, exits, and a network that loses requests and answers.
A delivery is identified with its call. `pc`, `cur`, `todo`, `sent` are the
position of `dispatch()`; `delivery`/`row` are the outbox entry in memory and in
Postgres; `posts` and `got` are history.

**Abstractions.** One campaign with one endpoint; the payload, its signature and the
order by `nextAttemptAt` are left out (any due entry may be next). The
first-in first-out order of the transactions appears as a guard of
`CommitDelivery`.

**Run.** `outcome_delivery` checks the refinement, and that every outcome is settled in
the end: of a finished call as of an announced one (`OutcomesSettle`). Two calls, because
a batch and its order need two; `Limit` 2 instead of eight, which already tells the first
attempt from the last. *Fairness:* the ticks, Postgres, the reply or time-out of
`fetch` (three seconds), the retry delay, exit of a closing process and the restart.
A failed transaction halts the dispatcher until someone restarts it, so the
liveness property promises nothing once the store failed.

**What is proved** (end of `GatewayEvents_proofs`), for any calls, limits and faults:
`OutcomeInvariance` (`DeliveryInv`), `PostsOnRecordHolds`, `AnnouncedIsOverHolds`, and
`OutboxRefinement`, the refinement of `Outbox` under the mapping in the module. The
invariant says that the row lags the cache by at most the save that is being flushed, and
that the number of requests agrees with that save; so what a restart reads is never less
than what was sent. *Only model-checked:* `OutcomesSettle`.

## 5. `CampaignDialer`

Ticks and controls are serialised, so `op` is the single operation under way:
`reconciled` (the tick awaits its flush), `attempting` (the attempt is being committed),
`calling` and `dialed` (inside `start()`), `saving` (the last flush), and for a stop
`controlled`, `skipped`, `ending`. The call service is what `CallLifecycle` shows of it:
reserved, committed, originated at most once, over with a result that may be retried or
not; when its hangup is unconfirmed it stays active. An exit leaves calls saved as
active, which the boot settles: as interrupted, or, if the saved intent of the call was
NO_ANSWER or its channel reports so meanwhile, as unanswered (`SettledCalls`;
`orchestrator.ts:82`, `723`), which is dialed again. The n-th attempt of a contact names
its call.

**Abstractions.** Any eligible contact may be next (rotation and ordinal are left
out). Time only passes or not: a tick may find that the delays are over for some waiting
contact, or for none. The two branches of a tick that cannot be reached are
left out: attempt limit (`QueuedHolds` proves that no waiting contact has
spent its attempts) and trunk limit (the count is taken in the same turn as in
`start()`). Creation is the initial state.

**Run.** `campaign_dialer`: two contacts of one campaign, because completion and stopping
speak of all of them; two attempts, because a retry and the last attempt differ; one line;
and any three of: two controls, an exit, a failed transaction, and one change outside
(hours or dialing that close, or another call on the line).
*Fairness:* weak for what the process does by itself (ticks repeat, Postgres
answers, the container is restarted) and for what passes around it (hours, the
reconciliation, other calls, and calls, whose timers end them at the latest);
strong for `TickAttempts`, because the interval and the delays of the contacts go by, so
of the ticks that could dial again and again one does. `CampaignsFinish` promises
nothing after a failed transaction, which halts the dialer.

**What is proved** (`CampaignDialer_proofs`), for any contacts, campaigns, attempt
limits and bounds: `DialerInvariance`, from it `DialsOnRecordHolds`, `QueuedHolds`,
`CompletionHolds`, `StopHolds`, and of steps `DialsWantedHolds` and `RedialsHold`.
`IInv` relates what memory and database say. `AttemptInHand`: the one attempt under way
counts one more than what an undo would restore, and from its reservation on it is
saved. `NothingAhead`: no call exists beyond the attempts of a contact that is not
finished, in either copy, so that a reservation never meets an older call.
`ActiveIsCurrent`: an active call is that of the last attempt, in either copy, so an
exit leaves only entries that name it. `PastUnanswered`: every attempt before the one a
contact is at, or that it waits to leave behind, has a call saved as one that may be
retried, in whichever copy is read. `CompletionIsDurable` and `StopIsUnderWay` keep the
order of campaign and entries. *Argument.* `Moves` sorts the steps into a dozen kinds
(an attempt that ends is one kind, whether undone, refused, answered or failed); each
part has a lemma with a step per kind; what reconciliation makes of one contact is
`ReconciledFacts`. *Only model-checked:* `CampaignsFinish`.

`ContactImport` is the reading of a contact file (`contacts.ts`) as functions: the run
evaluates, over every small table of cells with quotes, separators and line ends, that
what was written is read (`ReadsAsWritten`) and that each number is imported once
(`ImportsOnce`). The limits of 1 MB and 1000 rows, the header and the
normalisation of a number are left out.

## 6. `ConsentLedger` and `DncChecker`

`ConsentLedger` is the evidence about numbers in the cache and in two append-only tables,
with the order in which evidence replaces evidence (`Replaces`, `IsLatestOptOut`,
`Supersedes`), the decision drawn from it (`MayDial`), and a restart that folds the
tables into a cache again. Evidence comes from operators, callees and the checker, with
any time up to now. `DncChecker` adds the chain of paid runs: `asked` holds
the runs not over, the head is under way; `pc` is the `await` it is at; `submitted`
counts the credits put at stake. The gateway answers completely, with conflicts or
wrongly, or not at all. `reported` (history) is when a number was last reported as
checked.

**Run.** `permissions`: two numbers, evidence of one of them entered from outside, two
runs with batches of one, three pieces of evidence, a validity of one instant and a
clock of two, one restart and one failed transaction: a result can expire, a run wait
behind another, and evidence arrive between any two steps of it. *Fairness:* the running
check and Postgres.

**What is proved** (`DncChecker_proofs`), for any finite set of numbers and any bounds:
`LedgerInvariance` (`IInv`), `OptOutHolds`, `NegativeHolds`, `CreditsHold`,
`ReportsHold`, `NoCreditTwiceHolds` and `RestartHolds`. *Argument.* A step changes the
evidence in one of seven ways (not at all, a consent, an opt-out, a result, several
results, a commit, a restart). `Replaces` is reflexive and transitive, so
`OptOutsRemembered` and `ResultsInOrder`, which say that cache, queue and tables never
lose the newest, are kept by each way; `RunInv` counts the credits of the run, and
`ReportsInForce` ties what was reported to what is in force. `RestartHolds` follows the
two tables as they will be when the queue is written (`Coming`): a commit leaves them as
they are, evidence adds one row behind, and what is read from a table with one more row
is what the cache makes of it by `Replaces` and `IsLatestOptOut`; a restart reads what
it is then asked to agree with. *Only model-checked:* `RunsEnd`.

## 7. `Conversation`: `ListenTurns`, `MediaWorker`, `MediaNet`

One answered call: what the API does between its clips and windows, what the media
worker keeps for that call, and the HTTP requests between the two.

| In the model | In the code |
|---|---|
| `requests`, `awaiting`, `replies` | a `fetch` on its way, its caller's `await`, its response |
| `status`, `win`, `tuning`, `last` | the call record: `status`, `listenWindowId`, the node's endpointing, the last receipt |
| `timer`, `speaking`, `finishing` | `listenTimers`, `speakingWindows`, `terminations` |
| `jobs`, `step` | the serial queue of the call (`enqueue`) and the `await` its head is at |
| `Advances`: a window, a clip, or the end | `advance()`, whose choice is the flow's |
| `TranscriptStarts`, `NoSpeechStarts`, `ClosingSaved`, `Routes` | `classifyTranscript()`, `noSpeech()` |
| `window`, `audio`, `stream`, `reported`, `receipts` | a `CallEntry` of `worker.ts` and the locals of `openAudio()` |
| `life` | whether the entry exists, and whether its lifetime timer is still armed |
| `Connect`, `Accept`, `Abandon` | the upgrade of an audio socket and its lookup |
| `HangupRefused`, `FinishRetried`; `refused` (history) | a `finish()` that rejects, and the `catch` that calls it again |
| `Utter`, `Retry`, `Delivered`, `GiveUp` | `utterance()` and `deliver()` |

`Conversation` conjoins the two sides: each action belongs to one of them and leaves
the variables of the other alone; they meet only in `MediaNet`.

**The network.** A request is handled at most once, at any later time or never, and
also after its sender gave up: `fetch` is aborted by its timeout, the handler is not.
So a retried transcript may arrive before, after, or beside its first copy, a
`DELETE` may arrive after the next window opened, and the lookup may be answered with
a window that has closed. Notices (close, speaking, error) are requests whose outcome
their sender ignores; at most `MaxNotices` are in flight, and one sent beyond that is
lost, which is a legal behaviour of the network already.

**Abstractions.** Which node comes next, which intent the classifier finds, and whether
either throws, is any choice (`FlowRun` has the choice). The store is healthy and no
shutdown or reconciliation runs: `CallLifecycle` has those. Audio frames and the
provider's protocol are those of `AudioStream`; speech heard outside a window changes
nothing. Other calls appear as refusals of `MAX_CALLS` and `MAX_RESERVATIONS`, possible
at any time. `heard` and `spoken` are history.

**Run.** `conversation`: two windows (a late message needs a next window to hit), two
endpointings (the stream of one must not serve the other), one utterance in either
window, two deliveries instead of three (a first and a last attempt), one socket, one
notice in flight, one hangup that is refused (`MaxRefusals`). The endpointing of each
window is a constant, `Endpointing`. 4.5 million states. The worker may exit at any
time. Deadlock is not checked: a call ends.

*No fairness.* The properties are safety. `NoTurnWithoutEnd` is the safety half of "no
caller waits forever": an open window has a timer armed or its `noSpeech()` queued, so what
remains is that timers fire and queues drain. It excepts windows in which a hangup was
refused: `finish()` clears the timers before it asks (`orchestrator.ts:743`), and when the
hangup is not confirmed forgets the termination and leaves the call where it was (`756`-`766`).
Such a call has neither a listen nor a maximum timer left; the `sched_hangup` of its channel,
an operator or a reconnection ends it (`docs/decisions.md:45` promises the last two).

Behaviours met in traces:

* the lifetime timer of a reservation fires once. If it fires while a receipt is
  being delivered, and a window is pushed before that receipt settles, the entry is
  kept by the window without any timer; without audio or a `DELETE` it holds one of
  the 25 reservations until the worker exits (`worker.ts:121`, `133`);
* a window opened and closed while the lookup of an upgrade is in flight is opened
  again by its reply (`worker.ts:206`). A transcript of it is refused with 409, which
  `HeardWhereSpoken` covers;
* a speech notice handled before `startListening()` has returned arms the speaking timer,
  and `enterListening()` then replaces it by the silence timer (`orchestrator.ts:517`):
  a caller who is speaking may be routed as silent. The turn still ends, as
  `NoTurnWithoutEnd` says.

**What is proved** (`Conversation_proofs`), for any windows, utterances, endpointings,
deliveries and sockets: `ConversationInvariance` (`IInv`), from it every invariant of the run
(`HeardHolds`, `AcknowledgedHolds`, `WindowHolds`, `ReservedHolds`, `TurnsEnd`), and
`AnswersStand`: no step changes the utterance that answered a window, and no utterance
answers two. *Argument.* `SortedSteps` sorts the actions into what they do to each side, and
each part of `IInv` has a lemma for the API's steps and one for the worker's, which
only sees the other through `requests` and `replies`. `WindowsInOrder` says that whatever
is known of the latest window, in a request, a reply or the worker, is what its node asked
for, so a late message can only tell of a window that is over; `TranscriptsAreTrue` that every
copy of a transcript says where its utterance was spoken; `JobUnderWay` that a job past its
first `await` has left its window for good; `AnsweredOnce` that `last` is the last answer.

## 8. `FlowGraph` and `FlowRun`

`FlowGraph` is a draft as an operator may have saved it, the checks of publication
(`validateFlow`, as `ValidFlow`) and the choice of an edge (`pickRoute`,
`pickLinearRoute`). A draft's settings are in range, because the schema of the request
(`flowDefinitionSchema`) admits no others; its edges may lead nowhere. `FlowRun` is one
call through a published flow: `advance()` hop by hop with its two counters, retries,
clips, windows, the classifier by rules or by a provider, and the fallback on silence.
A transcript is the set of cues the rules look for.

**Run.** `flow_routing`: every flow of a start, two nodes of any kind and an end with an
edge and perhaps a fallback from each of the two, and the mistakes an operator can make
in one of them. `HopLimit` 5 instead of 64, one more than a round over four
nodes. *Fairness:* the call answers, timers fire, the classifier answers; callees need not
speak. Of `PublishedFlowRuns`: a condition node needs no fallback to be
published and can leave a call without a route for some replies; the property says that
this is the only such failure. A `classify` node before any window has no transcript and
fails the call too; publication does not look for it. A loop of clips ends at
the hop limit.

The searches of the code (nodes reachable from the start, listen nodes, the rounds of a
flow) walk a queue. Here what a search finds is defined without the order of the walk, as what
lies in every set that contains its beginning and is closed under the edges, so that
it can be reasoned about without induction. `firstListenEndpointingMs` returns the first listen
node of its walk; `FirstListens` are the nodes it may return, and the properties ask
only whether there is one.

**What is proved** (end of `Conversation_proofs`), for any flows over any
nodes, whatever the callee says and the provider answers, and any hop limit:
`FlowInvariance` (`FlowInv`), from it `FlowTypesHold`, `PublishedRuns` and `RouteSuits`; and of
the operators alone `ListensAreFound`: in a valid flow the search of the warm-up finds a listen
node exactly if the flow has one. *Argument.* `Published` says where each phase may stand in a
published flow: an edge leads to a node, what plays has its clip, a window is that of a listen
node. `Walked` says that every node visited in this traversal leads to the one the call is at,
through nodes that neither play nor listen; so a second visit is a round of the flow itself.
`Decided` says which edge may have been taken after which reply, for `pickRoute` and for the
fallback on silence alike, whose edges `RouteOfResult` and `FirstOfSome` describe. Each
action of `FlowRun` has a lemma. *Only model-checked:* `SilentCallEnds`.

## 9. `EslClient`, `GatewayEvents`, `FrameDecoder`

`EslClient` is the connection: the fields of the class (`socket`, `ready`, `connecting`,
`timer`, `pending`), the chain of commands, and per socket its state. Node reports a
failed or destroyed socket as 'error' and only later, when the handle is closed, as
'close'; continuations run between the two, which is where a stale event meets a new
socket. `GatewayEvents` adds what `telephony.ts` makes of events: duplicates dropped by
core and sequence number, results of originate jobs matched with the reply that names
them, in either order. The gateway runs a command it received even when the socket is
gone, may restart, and repeats events after a reconnection.

**Run.** `gateway`: an originate and another command, three sockets, tables of size one
instead of 2048 and 128 (the least that forgets), a foreign job, two starts of the
gateway, one repeated event. The last socket does not fail, so that there is an end.
*Fairness:* a socket opens or fails, a handle closes, continuations run, the gateway
runs and answers what it received or the socket is lost.
`ResultIsTold` and `EventsCountOnce` need two jobs and an event that comes twice;
`CommandsRunAsReported` is about what a lost connection leaves to the next one, and a third
command, issued while two sockets overlap, would be the first to notice. Three commands
make 5.8 million states, too many for a run with liveness; the proof covers them.

**What is proved** (`GatewayEvents_proofs`), for any commands, jobs, sockets and sizes of the
tables: `GatewayInvariance` (`IInv`) and from it `TypesHold`, `EventsCountOnceHolds` and
`ResultIsToldHolds`; `CommandsRunAsReportedHolds` from `ClientInv` alone. `OneConnection`
says that a socket that is connecting is the one `connecting` awaits, and that beside a
ready one no other can report anything; so a rejected command's reply cannot be read by the
next (`RepliesMatch`). That rests on `SocketReady` waiting for the 'close' of older sockets:
a handshake takes several turns of the event loop, a 'close' follows its 'error' in the
same one. `SeenIsLatest` says that `seenEvents` is the end of what was accepted;
`ResultsAreKept` that an early result is at least as near to the end of `earlyJobs` as its
event is to the end of what was accepted. A job's result counts as given up from its first
event: `Map.set` does not move an entry that is there. *Only model-checked:*
`EveryCommandSettles`.

`FrameDecoder` is a function of the chunks of a stream; the run evaluates for every
stream of up to two frames over a few bodies, and every way to cut it, that it
decodes to what was sent (`DecodesAsSent`).

## 10. `CallBook`, `RecordingRetention`, `CallHistory`

`CallBook` is the call records with their two writers, the inbound tracker and the
orchestrator, over the queue of transactions, with the recorder of each channel and the
files on disk. `RecordingRetention` adds the purge. Time is what the code compares: a
record is aged a period after its creation, expired a period after its recording was named or
ended, a file stale a period after its last write; the purge goes by the earlier of the
first two, the API offers a recording until the second. `Ages` and `Tick` are those periods
going by when no handler is at work (handlers last seconds, a period days). The API listens
(`serving`) after the first purge of a boot; a later purge that finds nothing to do changes
nothing and is left out. A hangup may fail at any time: the gateway refuses it, or the
connection is lost. Reconciliation takes the calls in any order, one after the other, and
saves the copy that it listed. The transactions do not fail here.

**Run.** `recordings`: a callback and a dial on one line, and two of: a lost
connection, an exit, an operator's stop. `RecordsMatchDisk` speaks of what was recorded: the
name of a dial's file is saved before `uuid_record` (`orchestrator.ts:281`-`284`), so of a dial
whose recorder failed, or never started, the history says that it can be played
(`call-history.ts:69`) and GET answers 404. It allows for the one step between an unlinking
and the save of it, in which GET answers 404 too. `RecordingsExpire` excepts the calls that
a failed reconciliation left active while dialing is closed: the next reconnection has
to come. 1.5 million states. *Fairness:* one condition for the work of the
process and the purge, whose steps are finitely many between two ticks; reconnection; the
end of channels; time.

**What is proved** (`RecordingRetention_proofs`), for any callbacks and dials, any
ceiling and any number of losses, exits and stops: `RetentionInvariance` (`IInv`) and
from it `RetentionTypes`, `CeilingHolds`, `RecordsHold`, and of steps `OnlyExpiredHolds`
and `NeverResurrectedHolds`. None of these is inductive, because a restart replaces
every record in memory by its row, and the rows are anything between what they are and
what the queue will make of them. `After(k, c, r)` says that `r` is what the row of `c`
will be when the first `k` writes are committed; `CacheIsLast` that memory is what comes
out when all are, and `CeilingAhead` that the ceiling holds after every number of them.
`CallbacksAreHeard` and `DialsAreNamed` speak of every copy of a record (in memory, in a
row, on its way): a record that is over has no recorder running, and a file of a dial
has its name in each of them. `SettlingIsSafe` says what reconciliation may still settle
without asking, and from which copy, `AgeIsKept` and `PurgeIsLate` that what the purge
took in hand was old and over when it took it and stays so. *Argument.* The state is
written by many handlers in few ways: for each part of it one lemma says which steps
write it (`RecordMovers`, `WorldMovers`, `TrackerMovers`, ...) and one what such a step
does to a single call (`SavesSuit`, `WorldOf`, `CallOf`, ...); each part of `IInv` is
then kept by a lemma of its own. What a save adds and a commit takes from the queue is
`SaveIsTheLast` and `CommitIsWhatWasSaid`. `IInv` was first checked by TLC on the
instance of the run. *Only model-checked:* `RecordingsExpire`.

`CallHistory` is the paging of the call list as a function: `PagesAreSeamless` says that
pages over immutable fields neither skip nor repeat a call that was there at the first
page, while calls are added. With a filter by status a cursor whose call left the filter
yields an empty last page; the comment at `call-history.ts:101` says of an unknown cursor
that it restarts at the top, where the code returns an empty page.

## 11. `ClipLibrary`, `AudioStream`, `SpeechTurns`

**`ClipLibrary`** keeps flows, versions and clips three times: in the cache, in the rows
and, for audio, in files. Handlers that read, check and save without an `await` are one
action; flushes, conversion, renames and unlinks are steps of their own, with a crash
between any two. A write that fails may have been committed, its answer lost; the
process cannot tell, and refuses every write either way. Boot seeds, loads, compares
records with files, and sets unclaimed files aside. A graph is reduced to the one clip
it plays; the inbound system flow (`ensureFlow`) and uploads aborted in the parser are
left out. The demonstration flow is seeded at version 3 with no row for those before it
(`store.ts:145`, `DemoVersion`), so its versions begin there and those of other flows at
1 (`FirstVersion`). A graceful close is an exit with an empty queue. *Run* `content`:
four requests over two flows and three clips, two writes in the queue (so that a
publication waits behind its clip), versions up to 4, one crash, one failed write, one
lost file. 1.8 million states. *Fairness:* commits, conversions and their renames, and
the boot after an exit. **What is proved** (`ClipLibrary_proofs`), for any clips, flows,
faults and length of the queue: `ClipLibraryInvariance` (`IInv`) and from it
`BytesHold`, `VersionsHold` and `AcknowledgedHolds`. *Argument.* `RowsCatchUp` says that
rows and cache differ by the writes on their way: the last write of a record is what the
cache holds of it, and without one the row is. From there each promise is carried along
the queue: `BytesFollow` (a record has its files in the cache, on its way, and in the
row), `NumbersGoUp` (the writes of a flow count its publications up by one from what its
row has, and a deletion is the last of them), `VersionsFollow` (a publication on its way
is behind the clip it plays), `AsksAreTrue` (what waits for a flush to be told is on its
way). `JobsAreApart` keeps files in work from records, and `BootKeeps` has the boot
change nothing but a status. The steps on the queue are three, a write added, the first
one committed, all lost with the process, with lemmas on the places of a record's writes
(`Ahead`) for each. The proof found one error of the model that the bound of the run
hid: with four or more writes waiting, a flow's identifier could be drawn again while
its deletion was on its way. The code draws random ones, and so does `NewFlowId` now.
`IInv` was first checked by TLC, with a queue of one and of three. *Only model-checked:*
`UploadsSettle`.

**`AudioStream`** is `openAudio()`: frames, the bounded buffer, one provider connection at
a time, retunes, failures, and the capture. **`SpeechTurns`** is what the two
providers' handlers make of messages. Providers are external: nova may
repeat its last final result, flux reports turns. A reply cut by a retune is lost with
its connection; sockets that are closing count as closed; the end callback of a capture
runs also when its file fails while closing (`pcm-capture.ts:83`).
*Run* `speech`: four frames, a buffer of two, three connections, three windows, three
words; one final result remembered instead of 512, the least that recognises a repeat.
*Fairness:* the timer of an opening fires, and the disk answers.
**What is proved** (`AudioStream_proofs`), for any bounds: `SpeechInvariance` (`IInv`)
and from it `TimelineHolds`, `NoStrayHolds`, `WindowsHaveProviders`, `HeardHolds`,
`AnnouncedHolds`, `CaptureHolds`. `OneConnection` says that the newest connection is the
only one, exactly while an endpointing is remembered; `LastIsSeen` that the last final
result is among the remembered ones, so that a repeat is recognised; `UnderWayIsNoticed`
that a reply under way was announced; `TapeIsCurrent` that the list of a working capture is
ahead of its file and level with the call. *Only model-checked:* `NothingLingers`.

## 12. Behaviours met in traces

The checks also showed what the code does in rare orders of events. No property claims
the contrary; whoever changes this code should know of them.

* A hangup answered "No such channel" before the originate job created the channel frees
  the slot; the channel comes up without a call until the next reconciliation (section 3, the
  run `lifecycle_orphan`).
* A hangup that is refused leaves its call without the timers it had (section 7); one that
  plays a clip gets a listen timer again in its next window, but no maximum.
* A transcript handler saves the copy it read before a stop recorded its reason, and the
  reason is lost (`orchestrator.ts:388`; `docs/decisions.md:127`).
* A reconnection joins a reconciliation whose `finish()` is still saving "Hangup not confirmed"
  and then fails: dialing stays closed, and a retained slot taken, until the next
  reconnection, an operator's stop or a restart (`orchestrator.ts:102`; `docs/decisions.md:45`).
  It takes two losses of the connection, and the runs have one.
* An exit between the two transactions of a stop leaves contacts waiting in a stopped
  campaign; they are never dialed (`campaigns.ts:135`; `docs/campaigns.md:18`).
* When `start()` fails and its hangup is not confirmed, the call stays active while
  its contact is saved as `completed` (`campaigns.ts:223`). A later stop, which ends the
  calls of dialing contacts, passes over it without the error that `docs/campaigns.md:18`
  announces.
* While a reconciliation keeps dialing closed, `start()` refuses, and each tick finishes
  one contact as `failed` without a dial.
* The 'close' of a connection that failed clears `this.socket` after the next command has
  set a second one; the second stays open and unused (`esl.ts:149`; `docs/decisions.md:43`).
  Commands that follow settle, as `EveryCommandSettles` says, but by failing unsent.
* After the hangup of a refused callback is confirmed, the tracker saves the copy it took
  before, over an operator's stop of the same call (`docs/inbound-callbacks.md:15`).
* An answer that waited in the tracker's chain while reconciliation listed the active
  calls creates a record whose hangup was already lost; the next reconciliation ends it.
* Archiving the clip of the greeting while callbacks are enabled makes the next boot fail.
* `POST /api/clips` creates a clip that is ready and can be published but has no audio.

## 13. What is not shown

Liveness is checked on small instances only, and not for `Conversation`; it and
`ENABLED` are out of the prover's reach. These properties stay with TLC for that reason:
`EveryCallEnds`, `DialingReopens`, `CampaignsFinish`, `OutcomesSettle`,
`SilentCallEnds`, `EveryCommandSettles`, `RunsEnd`, `RecordingsExpire`, `UploadsSettle`
and `NothingLingers`. What the pure functions compute (`DecodesAsSent`,
`ReadsAsWritten`, `ImportsOnce`, `PagesAreSeamless`) would be an induction over their
input, and is evaluated on bounded inputs. The modules stand for each other by
nondeterminism: the call service in `CampaignDialer`, the flow in `Conversation`, the
permission in `CallLifecycle`, the worker's other calls. Of the system flow for inbound
callbacks, `ensureFlow()` creates it and takes its deletion back
(`inbound-callbacks.ts:104`): what `ClipLibrary` says of flows is of those of operators.
A transaction that is committed and whose answer is lost is a step of its own in
`CallLifecycle` and `ClipLibrary`; in `CampaignDialer`, `OutcomeDelivery` and
`ConsentLedger` what it leaves in the database is that of a commit and then an exit, and
the process saves nothing more before that. `StopsComeThrough` promises nothing of a
stop that an exit or a failed transaction cut off (section 12). FreeSWITCH, Postgres,
the file system, the speech providers, the Registry's gateway and the webhook recipient
are external: modelled by what the code relies on.
