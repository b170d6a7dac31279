------------------------------- MODULE MCSaga --------------------------------
(***************************************************************************)
(* TLC instances of the saga.                                              *)
(***************************************************************************)
EXTENDS SagaProps, TLC

\* Enough for one large order or two small ones, and not for both.
Stock2 == [p \in Products |-> 2]

\* Enough for one order of two, with one left that neither gets.
Stock3 == [p \in Products |-> 3]

\* The orders are interchangeable.
OrderSymmetry == Permutations(Orders)

\* Two failures at most, or one event that is appended twice.
TwoTroublesSpec ==
  Init /\ [][Next /\ failures' + 2 * Len(resent') <= 2]_vars

\* One thing goes wrong at most: a failure, or an event that is appended twice.
OneTroubleSpec ==
  Init /\ [][Next /\ failures' + Len(resent') <= 1]_vars /\ Fairness
=============================================================================
