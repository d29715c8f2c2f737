-------------------------- MODULE OptimalAssignment --------------------------
(***************************************************************************)
(* What core::LinearSumAssignment promises: it pairs every index of the    *)
(* smaller side with another index of the larger one, at the least total   *)
(* cost. A NaN cost forbids its pair; a problem that has no pairing        *)
(* without one has no answer.                                              *)
(***************************************************************************)
EXTENDS Integers, FiniteSets, FiniteSetsExt

CONSTANTS Problems,  \* records [rows, cols, cost]: cost[<<r, c>>]
          NaN,       \* a cost that compares with nothing
          NoAnswer

VARIABLES ask, result

vars == <<ask, result>>

Rows(q) == 0 .. q.rows - 1
Cols(q) == 0 .. q.cols - 1

\* No row and no column is in two pairs.
OneToOne(a) == \A x, y \in a : x # y => x[1] # y[1] /\ x[2] # y[2]

\* The pairings of the whole smaller side that no NaN forbids.
Full(q) ==
  IF q.rows <= q.cols
  THEN {a \in {{<<r, f[r]>> : r \in Rows(q)} : f \in [Rows(q) -> Cols(q)]} :
          OneToOne(a) /\ \A x \in a : q.cost[x] # NaN}
  ELSE {a \in {{<<f[c], c>> : c \in Cols(q)} : f \in [Cols(q) -> Rows(q)]} :
          OneToOne(a) /\ \A x \in a : q.cost[x] # NaN}

Total(q, a) == MapThenSumSet(LAMBDA x : q.cost[x], a)

Optimal(q) == {a \in Full(q) : \A b \in Full(q) : Total(q, a) <= Total(q, b)}

Init == ask \in Problems /\ result = NoAnswer

Answer == /\ result = NoAnswer
          /\ result' \in Optimal(ask)
          /\ UNCHANGED ask

Next == Answer

Spec == Init /\ [][Next]_vars
=============================================================================
