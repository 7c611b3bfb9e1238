--------------------------- MODULE MCSafetyGuard ---------------------------
(***************************************************************************)
(* SafetyGuard for TLC.  Trades are interchangeable, and so are requests.  *)
(***************************************************************************)
EXTENDS SafetyGuard, TLC

Symmetric == Permutations(Trades) \cup Permutations(Requests)

(* Bound.  After a lost outcome and a safety row written from an outdated  *)
(* copy only the first half of StatsAddUp is left to check, which is also  *)
(* proved; one win is enough to end a streak.                              *)
Explored ==
    /\ ~(raced /\ stale)
    /\ Cardinality({t \in Trades : trade[t].won}) <= 1

=============================================================================
