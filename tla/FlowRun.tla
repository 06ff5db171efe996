------------------------------ MODULE FlowRun ------------------------------
(***************************************************************************)
(* One answered call following the published flow it was started with:     *)
(* advance() of CallOrchestrator (server/orchestrator.ts), node by node,   *)
(* with the classifier (server/classifier.ts) and the fallback on silence. *)
(*                                                                         *)
(* The concurrency of a turn is ListenTurns'; here a turn is what it       *)
(* decides.  A transcript is the set of cues the rules look for.  The call *)
(* may be hung up at any moment.                                           *)
(***************************************************************************)
EXTENDS FlowGraph

CONSTANTS
  Flows,        \* drafts an operator may have saved
  Sayings,  \* what the callee may say
  Provider,     \* results the OpenAI classifier may give; {} is the rules classifier
  HopLimit      \* 64

Cues == {"refusal", "callback", "uncertain", "no", "yes"}
\* Why a flow could not go on.
Reasons == {"hops", "loop", "no node", "no route", "no clip", "no transcript"}

ASSUME FlowAssumption ==
  /\ \A draft \in Flows : IsFlow(draft)
  /\ Sayings \subseteq SUBSET Cues /\ Provider \subseteq ClassifierResult
  /\ {"interested", "callback", "not_interested", "unknown"} \subseteq Intents
  /\ {"positive", "neutral", "negative", "uncertain"} \subseteq Sentiments
  /\ Unset \notin Intents \union Sentiments \union Int \union ClassifierResult \union Reasons
  /\ HopLimit \in Nat \ {0}

VARIABLES
  flow,
  phase,     \* "draft", "routing", "playing", "listening", "classifying", "over"
  node,      \* where advance() is, or currentNodeId
  result,    \* the result advance() has, or session.classifierResult
  visited, hops,
  attempts,  \* session.retryAttempts
  target,    \* of the playback
  error,     \* why the flow could not go on, or None
  said,      \* the transcript being classified
  reply,     \* what the last listen window came to (history)
  took       \* the edge the last decision took (history)

counters == <<visited, hops, attempts>>
history == <<reply, took>>
flowVars == <<flow, phase, node, result, counters, target, error, said, history>>

Results == ClassifierResult \union {Unset}

FlowTypes ==
  /\ IsFlow(flow)
  /\ phase \in {"draft", "routing", "playing", "listening", "classifying", "over"}
  /\ node \in NodeIds /\ target \in NodeIds \union {Unset}
  /\ result \in Results /\ reply \in Results
  /\ visited \subseteq NodeIds /\ hops \in 0..HopLimit
  /\ attempts \in [NodeIds -> 0..10]
  /\ error \in Reasons \union {Unset}
  /\ said \in SUBSET Cues /\ took \in 0..Len(flow.edges)

FlowInit ==
  /\ flow \in Flows /\ phase = "draft" /\ node = flow.start
  /\ result = Unset /\ reply = Unset /\ visited = {} /\ hops = 0 /\ took = 0
  /\ attempts = [id \in NodeIds |-> 0] /\ target = Unset /\ error = Unset /\ said = {}

-----------------------------------------------------------------------------

\* advance() goes on at the target of an edge, within one traversal.
Follows(i) == node' = flow.edges[i].target
FlowFails(reason) == phase' = "over" /\ error' = reason
FlowEnds == phase' = "over" /\ UNCHANGED error
Setting(id, setting) == flow.nodes[id][setting]

\* Publishing checks the flow; a call of it is answered.
Answer ==
  /\ phase = "draft" /\ ValidFlow(flow)
  /\ phase' = "routing" /\ UNCHANGED <<flow, node, result, counters, target, error, said, history>>

\* incrementTraversal(), the check for loops, and nodeFor().
Tripped == hops = HopLimit \/ node \in visited \/ node \notin Ids(flow)
Trips ==
  /\ phase = "routing" /\ Tripped
  /\ FlowFails(IF hops = HopLimit THEN "hops" ELSE IF node \in visited THEN "loop" ELSE "no node")
  /\ UNCHANGED <<flow, node, result, counters, target, said, history>>

At(kinds) == phase = "routing" /\ ~Tripped /\ flow.nodes[node].kind \in kinds
CountsAsVisited == visited' = visited \union {node} /\ hops' = hops + 1

AtStart ==
  /\ At({"start"}) /\ CountsAsVisited
  /\ LET i == PickLinearRoute(flow, node) IN
     IF i = 0 THEN FlowFails("no route") /\ UNCHANGED node ELSE Follows(i) /\ UNCHANGED <<phase, error>>
  /\ UNCHANGED <<flow, result, attempts, target, said, history>>

\* playNode() after the route it will take: the clip is looked up again.
Plays ==
  LET i == PickLinearRoute(flow, node) IN
  IF i = 0 THEN FlowFails("no route") /\ UNCHANGED target
  ELSE /\ target' = flow.edges[i].target
       /\ IF Setting(node, "clipReady") THEN phase' = "playing" /\ UNCHANGED error ELSE FlowFails("no clip")
AtClip ==
  /\ At({"playClip"}) /\ CountsAsVisited /\ Plays
  /\ UNCHANGED <<flow, node, result, attempts, said, history>>

MaxAttempts == IF Setting(node, "maxAttempts") = Unset THEN 1 ELSE Setting(node, "maxAttempts")
AtRetry ==
  /\ At({"retry"}) /\ CountsAsVisited
  /\ LET fallback == FirstOf(Fallbacks(flow, Outgoing(flow, node))) IN
     IF attempts[node] >= MaxAttempts
     THEN /\ IF fallback = 0 THEN FlowEnds /\ UNCHANGED node ELSE Follows(fallback) /\ UNCHANGED <<phase, error>>
          /\ UNCHANGED <<attempts, target>>
     ELSE attempts' = [attempts EXCEPT ![node] = @ + 1] /\ Plays /\ UNCHANGED node
  /\ UNCHANGED <<flow, result, said, history>>

AtListen ==
  /\ At({"listen"}) /\ CountsAsVisited
  /\ phase' = "listening" /\ UNCHANGED <<flow, node, result, attempts, target, error, said, history>>

\* A decision: the route of a result at a node.
Decides(i) ==
  IF i = 0 THEN FlowFails("no route") /\ UNCHANGED <<node, took>>
  ELSE Follows(i) /\ took' = i /\ phase' = "routing" /\ UNCHANGED error
AtDecision ==
  /\ At({"classify", "condition"}) /\ CountsAsVisited
  /\ IF result = Unset THEN FlowFails("no transcript") /\ UNCHANGED <<node, took>>
     ELSE Decides(PickRoute(flow, result, node, Setting(node, "threshold")))
  /\ UNCHANGED <<flow, result, attempts, target, said, reply>>

AtEnd ==
  /\ At({"end"}) /\ CountsAsVisited /\ FlowEnds
  /\ UNCHANGED <<flow, node, result, attempts, target, said, history>>

Advance == Trips \/ AtStart \/ AtClip \/ AtRetry \/ AtListen \/ AtDecision \/ AtEnd

-----------------------------------------------------------------------------
(* What starts a traversal. *)

TraversalBegins == visited' = {}
\* playbackStopped(): a new traversal, with the hops of the last one.
PlaybackRoutes ==
  /\ phase = "playing" /\ phase' = "routing" /\ node' = target /\ TraversalBegins
  /\ UNCHANGED <<flow, result, hops, attempts, target, error, said, history>>

Silent == [intent |-> "unknown", sentiment |-> "uncertain", confidence |-> 0]
KeepsFirst(decided) == result' = IF result = Unset THEN decided ELSE result \* mutant
Keeps(decided) == result' = decided
StartsAfresh == hops' = 0                                             \* mutant
GoesOn == UNCHANGED hops
\* noSpeech(): the fallback of the listen node, whatever its other edges say.
NoSpeechRoutes ==
  /\ phase = "listening" /\ Keeps(Silent) /\ reply' = Silent /\ TraversalBegins /\ GoesOn
  /\ Decides(FirstOf(Fallbacks(flow, Outgoing(flow, node))))
  /\ UNCHANGED <<flow, attempts, target, said>>

Hears(cues) ==
  /\ phase = "listening" /\ phase' = "classifying" /\ said' = cues
  /\ UNCHANGED <<flow, node, result, counters, target, error, history>>

\* The rules: refusals win over everything, uncertainty over a plain no.
IntentOf(cues) ==
  IF "refusal" \in cues THEN "not_interested"
  ELSE IF "callback" \in cues THEN "callback"
  ELSE IF "uncertain" \in cues THEN "unknown"
  ELSE IF "no" \in cues THEN "not_interested"
  ELSE IF "yes" \in cues THEN "interested" ELSE "unknown"
Rule(intent) ==
  CASE intent = "interested" -> [intent |-> intent, sentiment |-> "positive", confidence |-> 88]
    [] intent = "callback" -> [intent |-> intent, sentiment |-> "neutral", confidence |-> 86]
    [] intent = "not_interested" -> [intent |-> intent, sentiment |-> "negative", confidence |-> 90]
    [] OTHER -> [intent |-> "unknown", sentiment |-> "uncertain", confidence |-> 42]

\* The provider's answer in time and of the right shape, or the rules' instead of it.
Classifications(cues) == Provider \union {Rule(IntentOf(cues))}

\* The route from the listen node itself; an answer starts a new count of hops.
Classified ==
  /\ phase = "classifying"
  /\ \E decided \in Classifications(said) :
       /\ Keeps(decided) /\ reply' = decided
       /\ Decides(PickRoute(flow, decided, node, Unset))
  /\ TraversalBegins /\ hops' = 0 /\ said' = {}
  /\ UNCHANGED <<flow, attempts, target>>

\* The callee or the operator ends the call, or a limit of its duration.
HangsUp ==
  /\ phase \notin {"draft", "over"} /\ FlowEnds
  /\ UNCHANGED <<flow, node, result, counters, target, said, history>>

FlowNext ==
  \/ Answer \/ Advance \/ PlaybackRoutes \/ NoSpeechRoutes \/ Classified \/ HangsUp
  \/ \E cues \in Sayings : Hears(cues)

FlowSpec == FlowInit /\ [][FlowNext]_flowVars
\* Promises resolve; the gateway reports the end of a clip; timers fire.
FlowFairness ==
  WF_flowVars(Answer) /\ WF_flowVars(Advance) /\ WF_flowVars(PlaybackRoutes) /\ WF_flowVars(NoSpeechRoutes) /\ WF_flowVars(Classified)
FlowFairSpec == FlowSpec /\ FlowFairness

-----------------------------------------------------------------------------
(* Properties. *)

\* A round of nodes that neither play nor listen.
Passing(f, id) == f.nodes[id].kind \in {"start", "classify", "condition", "retry"}
Passed(f, S) == Targets(f, {id \in S \cap Ids(f) : Passing(f, id)})
LeadsTo(f, id, other) ==
  \A S \in SUBSET NodeIds : Passed(f, {id}) \subseteq S /\ Passed(f, S) \subseteq S => other \in S
Round(id) == LeadsTo(flow, id, id)

\* What publication checked cannot fail a call hours later: no missing node, route or clip,
\* and no endless loop unless the flow has one; the first window finds a stream tuned for it.
\* A condition node, which needs no fallback, may still be without a route for a reply.
\* (validateFlow, advance, firstListenEndpointingMs)
PublishedFlowRuns ==
  /\ error \notin {"no node", "no clip"}
  /\ error = "no route" => IsKind(flow, node, "condition")
  /\ error = "loop" => Round(node)
  /\ phase = "routing" /\ hops = 0 => (FlowListens(flow) <=> FirstListens(flow) # {})

\* The edge a decision takes agrees with what the last window came to, a reply or silence;
\* only a fallback, or an edge without a condition, is taken otherwise.  A reply is not
\* decided on again once the callee was silent.  (pickRoute, noSpeech, advance)
RouteSuitsReply ==
  took # 0 =>
    \/ Cond(flow, took).fallback \/ Unconditional(Cond(flow, took))
    \/ /\ Cond(flow, took).intent \in {Unset, reply.intent}
       /\ Cond(flow, took).sentiment \in {Unset, reply.sentiment}
       /\ Cond(flow, took).below # Unset => reply.confidence < Cond(flow, took).below

\* However the flow loops, a call whose callee says nothing ends.  (incrementTraversal)
SilentCallEnds == (phase # "draft") ~> (phase \in {"over", "classifying"})
=============================================================================
