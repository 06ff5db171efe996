------------------------------- MODULE Outbox -------------------------------
(***************************************************************************)
(* What outcome delivery promises, without processes, stores or crashes:   *)
(* the outcome of a call is announced once, requested at most Limit times, *)
(* and settled once: delivered only if the recipient accepted a request.   *)
(***************************************************************************)
EXTENDS Naturals

CONSTANTS Calls, Limit
VARIABLES status, posts, got

obVars == <<status, posts, got>>

ObInit == /\ status = [c \in Calls |-> "none"]
          /\ posts = [c \in Calls |-> 0]
          /\ got = [c \in Calls |-> FALSE]

Announce(c) == /\ status[c] = "none" /\ status' = [status EXCEPT ![c] = "pending"]
               /\ UNCHANGED <<posts, got>>
Post(c) == /\ status[c] = "pending" /\ posts[c] < Limit
           /\ posts' = [posts EXCEPT ![c] = @ + 1]
           /\ UNCHANGED <<status, got>>
Accept(c) == /\ posts[c] > 0 /\ got' = [got EXCEPT ![c] = TRUE]
             /\ UNCHANGED <<status, posts>>
Settle(c) == /\ status[c] = "pending"
             /\ \/ got[c] /\ status' = [status EXCEPT ![c] = "delivered"]
                \/ status' = [status EXCEPT ![c] = "failed"]
             /\ UNCHANGED <<posts, got>>

ObNext == \E c \in Calls : Announce(c) \/ Post(c) \/ Accept(c) \/ Settle(c)
ObSpec == ObInit /\ [][ObNext]_obVars
=============================================================================
