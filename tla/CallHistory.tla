---------------------------- MODULE CallHistory ----------------------------
(***************************************************************************)
(* The pages of the call history (server/call-history.ts): newest first,   *)
(* filtered, continued from a cursor that names the last call of the page  *)
(* before.  A call is its place in the order "createdAt|id", and a history *)
(* gives each place that is taken the one field that is filtered by; what  *)
(* a page shows of a call is left out.                                     *)
(***************************************************************************)
EXTENDS Naturals, Sequences, Functions, FiniteSetsExt

CONSTANTS
  MaxCalls,    \* bound on the calls of a history
  MaxNewer,    \* bound on the calls created while it is read
  Fields,      \* values of the field that is filtered by
  Unfiltered,
  MaxLimit     \* the largest page (200)

ASSUME HistoryAssumption == /\ MaxCalls \in Nat /\ MaxNewer \in Nat /\ MaxLimit \in Nat \ {0}
                            /\ Unfiltered \notin Fields

Limited(limit) == Min({Max({limit, 1}), MaxLimit})

Ordered(calls) == LET newest == MaxCalls + MaxNewer IN
  SelectSeq([i \in 1..newest |-> newest + 1 - i], LAMBDA place : place \in DOMAIN calls)
Matched(calls, filter) ==
  SelectSeq(Ordered(calls), LAMBDA place : filter \in {Unfiltered, calls[place]})

\* Cursor 0 asks for the first page; one that is unknown leads past the end.
After(matched, cursor) ==
  LET known == {i \in DOMAIN matched : matched[i] = cursor} IN
  IF cursor = 0 THEN 0 ELSE IF known = {} THEN Len(matched) ELSE Min(known)

Page(calls, filter, limit, cursor) ==
  LET matched == Matched(calls, filter)
      first == After(matched, cursor)
      last == Min({first + Limited(limit), Len(matched)}) IN
  [calls |-> SubSeq(matched, first + 1, last),
   next |-> IF first < last /\ last < Len(matched) THEN matched[last] ELSE 0]

-----------------------------------------------------------------------------
(* Reading page after page while calls are created. *)

\* All pages of a history that holds "old" at the first and "newer" too from the second on.
Pages(old, newer, filter, limit) ==
  LET read[n \in 1..MaxCalls + 1] ==
        IF n = 1 THEN Page(old, filter, limit, 0)
        ELSE LET before == read[n - 1]
                 page == Page(newer, filter, limit, before.next) IN
             IF before.next = 0 THEN before
             ELSE [calls |-> before.calls \o page.calls, next |-> page.next] IN
  read[MaxCalls + 1]

\* Whoever reads on to the last page has seen every call that was there at the first, each
\* once and in order, and no other, although calls were created meanwhile.
PagesAreSeamless ==
  \A taken \in SUBSET (1..MaxCalls) : \A more \in SUBSET (MaxCalls + 1..MaxCalls + MaxNewer) :
    \A newer \in [taken \cup more -> Fields] :
      \A filter \in Fields \cup {Unfiltered} : \A limit \in 0..MaxLimit + 1 :
        LET old == Restrict(newer, taken) IN
        Pages(old, newer, filter, limit) = [calls |-> Matched(old, filter), next |-> 0]
=============================================================================
