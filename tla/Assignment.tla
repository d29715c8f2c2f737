----------------------------- MODULE Assignment ------------------------------
(***************************************************************************)
(* core::LinearSumAssignment (src/core/assignment.cpp): the Hungarian      *)
(* method with potentials, one action for each pass of its loops.          *)
(*                                                                         *)
(* The costs are integers instead of doubles: sums and differences are     *)
(* exact. kInf is far above every reduced cost: it is only ever compared,  *)
(* and kInf - delta is kInf again in double precision.                     *)
(***************************************************************************)
EXTENDS Integers, FiniteSets

CONSTANTS Problems,  \* records [rows, cols, cost]: cost[<<r, c>>]
          NaN,       \* a cost that compares with nothing
          Inf,       \* kInf: above every reduced cost
          NoAnswer

ASSUME ProblemsAssumption ==
  \A q \in Problems :
    /\ q.rows \in Nat /\ q.cols \in Nat
    /\ \A r \in 0 .. q.rows - 1, c \in 0 .. q.cols - 1 :
         q.cost[<<r, c>>] \in Int \cup {NaN}

ASSUME InfAssumption == Inf \notin Int /\ NaN \notin Int

VARIABLES ask,     \* the arguments of the call
          pc,      \* "rows", "scan", "augment", "done", "undefined"
          i,       \* the row that is being added
          j0,      \* the column the search stands at
          u, v,    \* the potentials of rows and columns
          p,       \* column -> the row it is matched to, or 0
          way,     \* column -> the column before it on the path
          minv,    \* column -> its least reduced cost so far
          used,    \* the columns of the search tree
          result   \* the pairs returned, from 0

vars == <<ask, pc, i, j0, u, v, p, way, minv, used, result>>
search == <<u, v, p, way, minv, used>>

-----------------------------------------------------------------------------
(* More rows than columns: the transposed problem is solved. *)

Transposed == ask.rows > ask.cols
n == IF Transposed THEN ask.cols ELSE ask.rows
m == IF Transposed THEN ask.rows ELSE ask.cols

\* at(i, j), from 1.
At(r, c) == ask.cost[IF Transposed THEN <<c - 1, r - 1>> ELSE <<r - 1, c - 1>>]

Init ==
  /\ ask \in Problems
  /\ pc = "rows"
  /\ i = 0 /\ j0 = 0
  /\ u = [r \in 0..n |-> 0] /\ v = [c \in 0..m |-> 0]
  /\ p = [c \in 0..m |-> 0] /\ way = [c \in 0..m |-> 0]
  /\ minv = [c \in 0..m |-> Inf] /\ used = {}
  /\ result = NoAnswer

\* Mutant: used is not cleared for the row.
NextRowKeepsUsed ==
  /\ pc = "rows" /\ i < n
  /\ i' = i + 1 /\ j0' = 0 /\ pc' = "scan"
  /\ p' = [p EXCEPT ![0] = i + 1]
  /\ minv' = [c \in 0..m |-> Inf]
  /\ UNCHANGED <<ask, u, v, way, used, result>>

\* The next row enters at the virtual column 0; u, v, p and way are kept.
NextRow ==
  /\ pc = "rows" /\ i < n
  /\ i' = i + 1 /\ j0' = 0 /\ pc' = "scan"
  /\ p' = [p EXCEPT ![0] = i + 1]
  /\ minv' = [c \in 0..m |-> Inf] /\ used' = {}
  /\ UNCHANGED <<ask, u, v, way, result>>

-----------------------------------------------------------------------------
(* One pass of the do loop. *)

Tree == used \cup {j0}
\* Mutant: the test of used is missing.
FreeAll == 1..m
Free == (1..m) \ Tree

\* Of reduced costs, or Inf.
Less(x, y) == x # Inf /\ (y # Inf => x < y)

\* The current row offers column c a smaller reduced cost: false with NaN.
Improves(c) == /\ At(p[j0], c) # NaN
               /\ Less(At(p[j0], c) - u[p[j0]] - v[c], minv[c])

Lowered(c) == IF c \in Free /\ Improves(c) THEN At(p[j0], c) - u[p[j0]] - v[c]
              ELSE minv[c]

\* The first of the cheapest free columns.
Cheapest(c) == /\ c \in Free /\ Lowered(c) # Inf
               /\ \A d \in Free : \/ Less(Lowered(c), Lowered(d))
                                  \/ Lowered(c) = Lowered(d) /\ c <= d

\* Mutants: only the current row moves; minv is not lowered with the others.
RaisedCurrent(delta) == [u EXCEPT ![p[j0]] = @ + delta]
SlackKept(delta) == [c \in 0..m |-> Lowered(c)]

\* The rows of the tree and their columns move by delta.
Raised(delta) ==
  [r \in 0..n |-> IF \E c \in Tree : p[c] = r THEN u[r] + delta ELSE u[r]]
Sunk(delta) == [c \in 0..m |-> IF c \in Tree THEN v[c] - delta ELSE v[c]]
Slack(delta) == [c \in 0..m |-> IF c \in Tree \/ Lowered(c) = Inf THEN Lowered(c)
                                ELSE Lowered(c) - delta]

Scan ==
  /\ pc = "scan"
  /\ \E j1 \in Free :
       /\ Cheapest(j1)
       /\ used' = Tree
       /\ way' = [c \in 0..m |-> IF c \in Free /\ Improves(c) THEN j0 ELSE way[c]]
       /\ u' = Raised(Lowered(j1)) /\ v' = Sunk(Lowered(j1))
       /\ minv' = Slack(Lowered(j1))
       /\ j0' = j1
       /\ pc' = IF p[j1] = 0 THEN "augment" ELSE "scan"
  /\ UNCHANGED <<ask, i, p, result>>

\* No column is cheapest: j1 stays -1 and p[-1] is read, outside the array.
ScanFails == /\ pc = "scan"
             /\ \A c \in Free : ~Cheapest(c)
             /\ pc' = "undefined"
             /\ UNCHANGED <<ask, i, j0, search, result>>

\* One step back along the path: its columns take over their rows.
Augment ==
  /\ pc = "augment"
  /\ p' = [p EXCEPT ![j0] = p[way[j0]]]
  /\ j0' = way[j0]
  /\ pc' = IF way[j0] = 0 THEN "rows" ELSE "augment"
  /\ UNCHANGED <<ask, i, u, v, way, minv, used, result>>

-----------------------------------------------------------------------------

Matched == {c \in 1..m : p[c] \in 1..n}

\* row_to_col, from 0, swapped back when it was transposed; nothing when a
\* side is empty.
Pair(c) == IF Transposed THEN <<c - 1, p[c] - 1>> ELSE <<p[c] - 1, c - 1>>

Return == /\ pc = "rows" /\ i = n
          /\ result' = {Pair(c) : c \in Matched}
          /\ pc' = "done"
          /\ UNCHANGED <<ask, i, j0, search>>

Next == NextRow \/ Scan \/ ScanFails \/ Augment \/ Return

Spec == Init /\ [][Next]_vars

\* Nothing interrupts the call.
FairSpec == Spec /\ WF_vars(Next)

-----------------------------------------------------------------------------
(* Properties *)

\* The potentials stay feasible for every row that has entered, and tight on
\* every matched pair, over all rows and passes: potentials or a way entry
\* left stale by an earlier row would break one of the two.
Entered == IF pc = "scan" /\ used = {} THEN 1..(i - 1) ELSE 1..i

PotentialsFeasible ==
  /\ \A r \in Entered, c \in 1..m : At(r, c) # NaN => u[r] + v[c] <= At(r, c)
  /\ \A c \in 1..m : c # j0 /\ p[c] # 0 =>
       At(p[c], c) # NaN /\ u[p[c]] + v[c] = At(p[c], c)

\* The search runs out of columns only on a problem that has no pairing of
\* its smaller side without a NaN cost.
Promise == INSTANCE OptimalAssignment

UndefinedOnlyWithoutPairing == pc = "undefined" => Promise!Full(ask) = {}

\* Every index of the smaller side is matched exactly once, at minimal cost
\* (the comment of LinearSumAssignment).
ImplementsOptimalAssignment == Promise!Spec

\* Both loops end: the search reaches a free column, the path leads back to 0.
CallReturns == <>(pc \in {"done", "undefined"})
=============================================================================
