----------------------------- MODULE MC_FlowRun -----------------------------
(***************************************************************************)
(* Instances of FlowRun for TLC: every flow of a start, two nodes of any   *)
(* kind between and an end, with one edge and perhaps a fallback from each *)
(* of the two, and what one mistake of an operator makes of some of them.  *)
(***************************************************************************)
EXTENDS FlowRun, TLC

CONSTANTS s, a, b, e, gone

AllIntents == {"interested", "callback", "not_interested", "unknown"}
AllSentiments == {"positive", "neutral", "negative", "uncertain"}

Always == [intent |-> Unset, sentiment |-> Unset, below |-> Unset, fallback |-> FALSE]
Fallback == [Always EXCEPT !.fallback = TRUE]
Keen == [Always EXCEPT !.intent = "interested", !.sentiment = "positive"]
Unsure == [Always EXCEPT !.below = 50]
UnsureFallback == [Unsure EXCEPT !.fallback = TRUE]

Node(kind) == [kind |-> kind, clipReady |-> TRUE, threshold |-> IF kind = "classify" THEN 50 ELSE Unset,
               maxAttempts |-> IF kind = "retry" THEN 1 ELSE Unset, endpointing |-> Unset]
E(from, to, cond) == [source |-> from, target |-> to, cond |-> cond]

Middle == {"playClip", "listen", "classify", "condition", "retry"}
Edges(id) ==
  {<<E(id, to, c)>> : to \in {a, b, e}, c \in {Always, Keen, Unsure, Fallback}}
    \union {<<E(id, to, c), E(id, other, d)>> : to \in {a, b, e}, c \in {Keen, Unsure},
                                              other \in {a, b, e}, d \in {Fallback}}

Drawn(kindA, kindB, edgesA, edgesB) ==
  [start |-> s,
   nodes |-> (s :> Node("start")) @@ (a :> Node(kindA)) @@ (b :> Node(kindB)) @@ (e :> Node("end")),
   edges |-> <<E(s, a, Always)>> \o edgesA \o edgesB]
AllDrawn ==
  {Drawn(kindA, kindB, edgesA, edgesB) :
     kindA \in Middle, kindB \in Middle, edgesA \in Edges(a), edgesB \in Edges(b)}

\* Listen, retry until it is used up, and decide after the clip on what was said.
Demo == Drawn("listen", "retry", <<E(a, e, Keen), E(a, b, Fallback)>>, <<E(b, a, Always)>>)
Mistakes(f) ==
  {[f EXCEPT !.nodes[id].clipReady = FALSE] : id \in {a, b}}
    \union {[f EXCEPT !.edges[i].target = n] : i \in 1..3, n \in {gone}}
    \union {[f EXCEPT !.nodes[id].maxAttempts = Unset] : id \in {a, b}}

AllFlows == AllDrawn \union Mistakes(Demo)
Doubts == {[intent |-> "interested", sentiment |-> "uncertain", confidence |-> 30]}
=============================================================================
