---------------------------- MODULE MCAssignment -----------------------------
EXTENDS Assignment

\* Every cost matrix of a shape.
OfShape(r, c, costs) ==
  [rows : {r}, cols : {c}, cost : [(0 .. r - 1) \X (0 .. c - 1) -> costs]]

MCProblems ==
  UNION {OfShape(0, 2, {0}), OfShape(2, 0, {0}), OfShape(1, 1, {0, NaN}),
         OfShape(2, 3, {-1, 0, 2, NaN}), OfShape(3, 2, {-1, 0, 2, NaN}),
         OfShape(3, 3, {0, 1, NaN})}
=============================================================================
