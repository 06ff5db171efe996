----------------------------- MODULE FlowGraph -----------------------------
(***************************************************************************)
(* Call flows: the graph an operator draws (lib/domain.ts and the schema   *)
(* of its requests), what publishing it checks (server/flow-validation.ts, *)
(* server/listen-window.ts) and which edge a call takes                    *)
(* (server/orchestrator.ts).                                               *)
(*                                                                         *)
(* An edge is named by its place in flow.edges, 0 is no edge; a setting    *)
(* that is not given is Unset.  Confidence is counted in per cent.          *)
(***************************************************************************)
EXTENDS Integers, Sequences, FiniteSets

CONSTANTS
  NodeIds, Intents, Sentiments,
  Unset

Kinds == {"start", "playClip", "listen", "classify", "condition", "retry", "end"}
Condition == [intent : Intents \union {Unset}, sentiment : Sentiments \union {Unset},
              below : (0..100) \union {Unset}, fallback : BOOLEAN]
Edge == [source : NodeIds, target : NodeIds, cond : Condition]
\* What a draft may be: its settings are in range, its edges may lead nowhere.
FlowNode == [kind : Kinds, clipReady : BOOLEAN, threshold : (0..100) \union {Unset},
             maxAttempts : (1..10) \union {Unset}, endpointing : {Unset, "quick", "slow"}]
ClassifierResult == [intent : Intents, sentiment : Sentiments, confidence : 0..100]

IsFlow(flow) ==
  /\ flow.start \in NodeIds /\ DOMAIN flow.nodes \subseteq NodeIds
  /\ \A id \in DOMAIN flow.nodes : flow.nodes[id] \in FlowNode
  /\ flow.edges \in Seq(Edge)

Ids(flow) == DOMAIN flow.nodes
IsKind(flow, id, kind) == id \in Ids(flow) /\ flow.nodes[id].kind = kind

-----------------------------------------------------------------------------
(* The edges of a node. *)

Outgoing(flow, id) == {i \in DOMAIN flow.edges : flow.edges[i].source = id}
Cond(flow, i) == flow.edges[i].cond
Fallbacks(flow, I) == {i \in I : Cond(flow, i).fallback}
Unconditional(c) == c.intent = Unset /\ c.sentiment = Unset /\ c.below = Unset /\ ~c.fallback

Matches(c, result) ==
  /\ ~Unconditional(c)
  /\ c.intent = Unset \/ c.intent = result.intent
  /\ c.sentiment = Unset \/ c.sentiment = result.sentiment
  /\ c.below = Unset \/ result.confidence < c.below

Given(setting) == IF setting = Unset THEN 0 ELSE 1
Specificity(c) == Given(c.intent) + Given(c.sentiment) + Given(c.below)
MostSpecific(flow, I) ==
  {i \in I : \A j \in I : Specificity(Cond(flow, j)) <= Specificity(Cond(flow, i))}

FirstOf(I) == IF I = {} THEN 0 ELSE CHOOSE i \in I : \A j \in I : i <= j
Or(i, j) == IF i # 0 THEN i ELSE j

PickLinearRoute(flow, id) ==
  LET out == Outgoing(flow, id) IN
  Or(FirstOf({i \in out : Unconditional(Cond(flow, i))}),
     Or(FirstOf(Fallbacks(flow, out)), FirstOf(out)))

PickRoute(flow, result, id, threshold) ==
  LET out == Outgoing(flow, id)
      matching == {i \in out : Matches(Cond(flow, i), result)}
      Best(I) == FirstOf(MostSpecific(flow, I))
      HasBelow(I) == {i \in I : Cond(flow, i).below # Unset}
      unsure == threshold # Unset /\ result.confidence < threshold
      lowConfidenceRoute ==
        Or(Best(HasBelow(matching)),
           Or(FirstOf(HasBelow(Fallbacks(flow, out))), FirstOf(Fallbacks(flow, out))))
      matched == Or(Best(matching \ Fallbacks(flow, matching)), Best(matching))
      otherwise == Or(FirstOf(Fallbacks(flow, out)),
                      FirstOf({i \in out : Unconditional(Cond(flow, i))}))
  IN IF unsure /\ lowConfidenceRoute # 0 THEN lowConfidenceRoute ELSE Or(matched, otherwise)

-----------------------------------------------------------------------------
(* What can be reached. *)

Targets(flow, S) == {flow.edges[i].target : i \in UNION {Outgoing(flow, id) : id \in S}}

\* The nodes a search from S finds that looks no further than the nodes of Through: the least
\* set that holds S and what follows.  The order of the search is left out.
Search(flow, S, Through) ==
  LET complete == {T \in SUBSET NodeIds : S \subseteq T /\ Targets(flow, T \cap Through) \subseteq T}
  IN {id \in NodeIds : \A T \in complete : id \in T}

Found(flow, S) == Search(flow, S, NodeIds)

Listens(flow) == {id \in Ids(flow) : IsKind(flow, id, "listen")}
FlowListens(flow) == Listens(flow) # {}

\* The warm-up of the worker's stream takes one of the listens found before any other.
FirstListens(flow) == Search(flow, {flow.start}, Ids(flow) \ Listens(flow)) \cap Listens(flow)

-----------------------------------------------------------------------------
(* validateFlow(): one operator per complaint. *)

StartIsValid(flow) == IsKind(flow, flow.start, "start")
EdgesConnect(flow) ==
  \A i \in DOMAIN flow.edges : {flow.edges[i].source, flow.edges[i].target} \subseteq Ids(flow)
\* A retry that can come back to a listen says how often.
RetriesAreCounted(flow) ==
  \A id \in Ids(flow) :
    IsKind(flow, id, "retry") /\ flow.nodes[id].maxAttempts = Unset =>
      \A other \in Found(flow, Targets(flow, {id})) : ~IsKind(flow, other, "listen")
PlayingClipsAreReady(flow) ==                                         \* mutant
  \A id \in Ids(flow) : IsKind(flow, id, "playClip") => flow.nodes[id].clipReady
ClipsAreReady(flow) ==
  \A id \in Ids(flow) : flow.nodes[id].kind \in {"playClip", "retry"} => flow.nodes[id].clipReady
LeadsOn(flow) ==
  \A id \in Ids(flow) : ~IsKind(flow, id, "end") => Outgoing(flow, id) # {}
RequiresFallback(kind) == kind \in {"listen", "classify"}
HasFallbacks(flow) ==
  \A id \in Ids(flow) :
    RequiresFallback(flow.nodes[id].kind) => Fallbacks(flow, Outgoing(flow, id)) # {}
AllReachable(flow) == Ids(flow) \subseteq Found(flow, {flow.start})

ValidFlow(flow) ==
  /\ StartIsValid(flow) /\ EdgesConnect(flow) /\ RetriesAreCounted(flow) /\ ClipsAreReady(flow)
  /\ LeadsOn(flow) /\ HasFallbacks(flow) /\ AllReachable(flow)
=============================================================================
