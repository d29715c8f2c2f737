-------------------------- MODULE AssignmentProofs ---------------------------
(***************************************************************************)
(* core::LinearSumAssignment for problems of every size: the search keeps  *)
(* its potentials feasible, runs out of columns only where no pairing      *)
(* exists, and returns a pairing of least cost.                            *)
(*                                                                         *)
(* The invariant is that of the textbook. What the columns of the tree and *)
(* their rows are to each other: the matching (MatchInv), minv and way as  *)
(* the least reduced costs from the tree (SlackInv), way leading back to   *)
(* column 0 over tight edges (PathInv), the potentials (FeasInv).          *)
(***************************************************************************)
EXTENDS Assignment, FiniteSetsExt, FiniteSetTheorems, TLAPS

-----------------------------------------------------------------------------
(* Sums over finite sets, as MapThenSumSet computes them. Facts about every  *)
(* finite set are proved by a least counterexample: the subset order of a    *)
(* finite set is well founded.                                               *)

\* The sum of g[x] over the x in S.
SumOver(g, S) == MapThenSumSet(LAMBDA x : g[x], S)

\* The element a fold takes first.
Any(S) == CHOOSE x \in S : TRUE

\* s maps each subset of S to its sum.
IsSum(s, g, S) ==
  s = [T \in SUBSET S |-> IF T = {} THEN 0 ELSE g[Any(T)] + s[T \ {Any(T)}]]

\* A nonempty family of subsets of a finite set has a least member in the
\* order of inclusion.
LEMMA SmallestSet ==
  ASSUME NEW S, IsFiniteSet(S), NEW F \in SUBSET (SUBSET S), F # {}
  PROVE  \E T \in F : \A U \in F : U \subseteq T => U = T
  <1>1. IsWellFoundedOn(StrictSubsetOrdering(S), SUBSET S)
    BY FS_StrictSubsetOrderingWellFounded, FS_FiniteSubsetsOfFinite
  <1>2. PICK T \in F : \A U \in F : <<U, T>> \notin StrictSubsetOrdering(S)
    BY <1>1, WFMin
  <1>3. ASSUME NEW U \in F, U \subseteq T PROVE U = T
    BY <1>2, <1>3 DEF StrictSubsetOrdering
  <1> QED
    BY <1>2, <1>3

\* The sum is the value at S of the function that takes the elements of each
\* subset one by one.
LEMMA SumMeans ==
  ASSUME NEW g, NEW S
  PROVE  SumOver(g, S) = (CHOOSE s : IsSum(s, g, S))[S]
  BY DEF SumOver, MapThenSumSet, MapThenFoldSet, IsSum, Any

\* Two such functions agree wherever both are defined.
LEMMA SumsAgree ==
  ASSUME NEW g, NEW S, NEW T, IsFiniteSet(S), NEW s, NEW t, IsSum(s, g, S), IsSum(t, g, T),
         NEW U \in SUBSET S, U \subseteq T
  PROVE  s[U] = t[U]
  <1> DEFINE F == {V \in SUBSET S : V \subseteq T /\ s[V] # t[V]}
  <1> SUFFICES ASSUME F # {} PROVE FALSE
    OBVIOUS
  <1>1. PICK V \in F : \A W \in F : W \subseteq V => W = V
    <2> HIDE DEF F
    <2>1. F \in SUBSET (SUBSET S)
      BY DEF F
    <2> QED
      BY <2>1, SmallestSet
  <1>2. /\ s[V] = IF V = {} THEN 0 ELSE g[Any(V)] + s[V \ {Any(V)}]
        /\ t[V] = IF V = {} THEN 0 ELSE g[Any(V)] + t[V \ {Any(V)}]
    BY <1>1 DEF IsSum
  <1>3. V # {} => Any(V) \in V
    BY DEF Any
  <1>4. V # {} => s[V \ {Any(V)}] = t[V \ {Any(V)}]
    BY <1>1, <1>3
  <1> QED
    BY <1>1, <1>2, <1>4

\* There is such a function on the subsets of every finite set.
LEMMA SumExists ==
  ASSUME NEW g, NEW S, IsFiniteSet(S)
  PROVE  \E s : IsSum(s, g, S)
  <1> DEFINE F == {T \in SUBSET S : ~ \E s : IsSum(s, g, T)}
             Val(T) == (CHOOSE s : IsSum(s, g, T))[T]
  <1> SUFFICES ASSUME F # {} PROVE FALSE
    OBVIOUS
  <1>1. PICK T \in F : \A U \in F : U \subseteq T => U = T
    <2> HIDE DEF F
    <2>1. F \in SUBSET (SUBSET S)
      BY DEF F
    <2> QED
      BY <2>1, SmallestSet
  <1> DEFINE sum == [U \in SUBSET T |->
                       IF U = T THEN IF T = {} THEN 0 ELSE g[Any(T)] + Val(T \ {Any(T)})
                                ELSE Val(U)]
  <1>2. ASSUME NEW U \in SUBSET T, U # {}
        PROVE  Any(U) \in U /\ U \ {Any(U)} \in SUBSET T /\ U \ {Any(U)} # T
    BY <1>2 DEF Any
  <1>3. ASSUME NEW U \in SUBSET T, U # T
        PROVE  Val(U) = IF U = {} THEN 0 ELSE g[Any(U)] + Val(U \ {Any(U)})
    <2>1. PICK s : s = (CHOOSE x : IsSum(x, g, U))
      OBVIOUS
    <2>2. IsSum(s, g, U)
      BY <1>1, <1>3, <2>1
    <2>3. s[U] = IF U = {} THEN 0 ELSE g[Any(U)] + s[U \ {Any(U)}]
      BY <2>2 DEF IsSum
    <2>4. CASE U # {}
      <3> DEFINE W == U \ {Any(U)}
      <3>1. W \in SUBSET U /\ W \in SUBSET T /\ W # T
        BY <1>2, <2>4
      <3>2. PICK w : w = (CHOOSE x : IsSum(x, g, W))
        OBVIOUS
      <3>3. IsSum(w, g, W)
        BY <1>1, <3>1, <3>2
      <3>4. IsFiniteSet(U)
        BY FS_Subset
      <3>5. s[W] = w[W]
        <4> HIDE DEF W
        <4> QED
          BY <2>2, <3>1, <3>3, <3>4, SumsAgree
      <3> QED
        BY <2>1, <2>3, <2>4, <3>2, <3>5
    <2> QED
      BY <2>1, <2>3, <2>4
  <1>4. IsSum(sum, g, T)
    <2> DEFINE next(U) == IF U = {} THEN 0 ELSE g[Any(U)] + sum[U \ {Any(U)}]
    <2> SUFFICES ASSUME NEW U \in SUBSET T PROVE sum[U] = next(U)
      <3>1. sum = [U \in SUBSET T |-> sum[U]]
        OBVIOUS
      <3> HIDE DEF sum
      <3>2. (\A U \in SUBSET T : sum[U] = next(U)) => sum = [U \in SUBSET T |-> next(U)]
        <4> HIDE DEF next
        <4> QED
          BY <3>1
      <3> QED
        BY <3>2 DEF IsSum
    <2>1. U # {} => sum[U \ {Any(U)}] = Val(U \ {Any(U)})
      <3> HIDE DEF Val
      <3> QED
        BY <1>2
    <2> HIDE DEF Val
    <2>2. sum[U] = IF U = T THEN IF T = {} THEN 0 ELSE g[Any(T)] + Val(T \ {Any(T)}) ELSE Val(U)
      OBVIOUS
    <2> HIDE DEF sum
    <2> QED
      BY <2>1, <2>2, <1>3
  <1> QED
    BY <1>1, <1>4

\* The sum of a nonempty set: the first element that is taken, and the rest.
LEMMA SumStep ==
  ASSUME NEW g, NEW S, IsFiniteSet(S)
  PROVE  SumOver(g, S) = IF S = {} THEN 0 ELSE g[Any(S)] + SumOver(g, S \ {Any(S)})
  <1> DEFINE T == S \ {Any(S)}
  <1>1. PICK s : s = (CHOOSE x : IsSum(x, g, S))
    OBVIOUS
  <1>2. PICK t : t = (CHOOSE x : IsSum(x, g, T))
    OBVIOUS
  <1>3. IsSum(s, g, S)
    BY <1>1, SumExists
  <1>4. T \in SUBSET S /\ IsFiniteSet(T)
    BY FS_Subset
  <1>5. IsSum(t, g, T)
    BY <1>2, <1>4, SumExists
  <1>6. s[T] = t[T]
    <2> HIDE DEF T
    <2> QED
      BY <1>3, <1>4, <1>5, SumsAgree
  <1>7. s[S] = IF S = {} THEN 0 ELSE g[Any(S)] + s[T]
    BY <1>3 DEF IsSum
  <1>8. SumOver(g, S) = s[S] /\ SumOver(g, T) = t[T]
    <2> HIDE DEF T
    <2> QED
      BY <1>1, <1>2, SumMeans
  <1> QED
    BY <1>6, <1>7, <1>8

\* The empty sum.
LEMMA SumEmpty ==
  ASSUME NEW g
  PROVE  SumOver(g, {}) = 0
  BY FS_EmptySet, SumStep

\* A sum of integers is an integer.
LEMMA SumInt ==
  ASSUME NEW g, NEW S, IsFiniteSet(S), \A x \in S : g[x] \in Int
  PROVE  SumOver(g, S) \in Int
  <1> DEFINE F == {T \in SUBSET S : SumOver(g, T) \notin Int}
  <1> SUFFICES ASSUME F # {} PROVE FALSE
    OBVIOUS
  <1>1. PICK T \in F : \A U \in F : U \subseteq T => U = T
    <2> HIDE DEF F
    <2>1. F \in SUBSET (SUBSET S)
      BY DEF F
    <2> QED
      BY <2>1, SmallestSet
  <1>2. IsFiniteSet(T)
    BY FS_Subset
  <1>3. SumOver(g, T) = IF T = {} THEN 0 ELSE g[Any(T)] + SumOver(g, T \ {Any(T)})
    BY <1>2, SumStep
  <1>4. T # {} => Any(T) \in T
    BY DEF Any
  <1>5. T # {} => SumOver(g, T \ {Any(T)}) \in Int
    BY <1>1, <1>4
  <1> QED
    BY <1>1, <1>3, <1>4, <1>5

\* Any element may be taken first.
LEMMA SumRemove ==
  ASSUME NEW g, NEW S, IsFiniteSet(S), \A x \in S : g[x] \in Int, NEW x \in S
  PROVE  SumOver(g, S) = g[x] + SumOver(g, S \ {x})
  <1> DEFINE F == {T \in SUBSET S : \E y \in T : SumOver(g, T) # g[y] + SumOver(g, T \ {y})}
  <1> SUFFICES ASSUME F # {} PROVE FALSE
    OBVIOUS
  <1>1. PICK T \in F : \A U \in F : U \subseteq T => U = T
    <2> HIDE DEF F
    <2>1. F \in SUBSET (SUBSET S)
      BY DEF F
    <2> QED
      BY <2>1, SmallestSet
  <1>2. PICK y \in T : SumOver(g, T) # g[y] + SumOver(g, T \ {y})
    BY <1>1
  <1> DEFINE z == Any(T)
  <1>3. z \in T
    BY <1>2 DEF Any
  <1> HIDE DEF z
  <1>4. SumOver(g, T) = g[z] + SumOver(g, T \ {z})
    <2>1. IsFiniteSet(T)
      BY FS_Subset
    <2> QED
      BY <1>2, <2>1, SumStep DEF z
  <1>5. y # z
    BY <1>2, <1>4
  <1>6. ASSUME NEW w \in T, NEW e \in T \ {w}
        PROVE  SumOver(g, T \ {w}) = g[e] + SumOver(g, (T \ {w}) \ {e})
    <2>1. T \ {w} \in SUBSET S /\ T \ {w} \subseteq T /\ T \ {w} # T
      OBVIOUS
    <2>2. T \ {w} \notin F
      BY <1>1, <2>1
    <2> QED
      BY <2>1, <2>2
  <1> DEFINE W == (T \ {y}) \ {z}
  <1>7. W \in SUBSET S /\ (T \ {z}) \ {y} = W
    OBVIOUS
  <1>8. /\ SumOver(g, T \ {z}) = g[y] + SumOver(g, W)
        /\ SumOver(g, T \ {y}) = g[z] + SumOver(g, W)
    BY <1>3, <1>5, <1>6, <1>7
  <1> HIDE DEF W
  <1>9. SumOver(g, W) \in Int
    <2>1. IsFiniteSet(W) /\ \A w \in W : g[w] \in Int
      BY <1>7, FS_Subset
    <2> QED
      BY <2>1, SumInt
  <1>10. g[y] \in Int /\ g[z] \in Int
    BY <1>3
  <1> QED
    BY <1>2, <1>4, <1>8, <1>9, <1>10

\* A sum grows with its terms.
LEMMA SumLe ==
  ASSUME NEW g, NEW h, NEW S, IsFiniteSet(S),
         \A x \in S : g[x] \in Int /\ h[x] \in Int /\ g[x] <= h[x]
  PROVE  SumOver(g, S) <= SumOver(h, S)
  <1> DEFINE F == {T \in SUBSET S : ~ (SumOver(g, T) <= SumOver(h, T))}
  <1> SUFFICES ASSUME F # {} PROVE FALSE
    OBVIOUS
  <1>1. PICK T \in F : \A U \in F : U \subseteq T => U = T
    <2> HIDE DEF F
    <2>1. F \in SUBSET (SUBSET S)
      BY DEF F
    <2> QED
      BY <2>1, SmallestSet
  <1>2. IsFiniteSet(T)
    BY FS_Subset
  <1>3. T # {}
    <2> SUFFICES ASSUME T = {} PROVE FALSE
      OBVIOUS
    <2>1. SumOver(g, T) = 0 /\ SumOver(h, T) = 0
      BY SumEmpty
    <2>2. ~ (SumOver(g, T) <= SumOver(h, T))
      BY <1>1
    <2> QED
      BY <2>1, <2>2
  <1>4. PICK x : x \in T
    BY <1>3
  <1>5. /\ SumOver(g, T) = g[x] + SumOver(g, T \ {x})
        /\ SumOver(h, T) = h[x] + SumOver(h, T \ {x})
    <2>1. \A y \in T : g[y] \in Int /\ h[y] \in Int
      OBVIOUS
    <2> QED
      BY <1>2, <1>4, <2>1, SumRemove
  <1> DEFINE W == T \ {x}
  <1>6. W \in SUBSET S /\ W \subseteq T /\ W # T
    BY <1>4
  <1>7. SumOver(g, W) <= SumOver(h, W)
    BY <1>1, <1>6
  <1>8. SumOver(g, W) \in Int /\ SumOver(h, W) \in Int
    <2>1. IsFiniteSet(W) /\ \A y \in W : g[y] \in Int /\ h[y] \in Int
      BY <1>6, FS_Subset
    <2> HIDE DEF W
    <2> QED
      BY <2>1, SumInt
  <1>9. g[x] \in Int /\ h[x] \in Int /\ g[x] <= h[x]
    BY <1>4
  <1> HIDE DEF W
  <1>10. ~ (SumOver(g, T) <= SumOver(h, T))
    BY <1>1
  <1> QED
    BY <1>5, <1>7, <1>8, <1>9, <1>10 DEF W

\* The weight of a set of pairs that is one to one falls apart into a sum over
\* its first and one over its second components.
LEMMA SumSplit ==
  ASSUME NEW S, IsFiniteSet(S), NEW w, NEW a, NEW b,
         \A x \in S : a[x[1]] \in Int /\ b[x[2]] \in Int /\ w[x] = a[x[1]] + b[x[2]],
         \A x, y \in S : x # y => x[1] # y[1] /\ x[2] # y[2]
  PROVE  SumOver(w, S) = SumOver(a, {x[1] : x \in S}) + SumOver(b, {x[2] : x \in S})
  <1> DEFINE L(T) == {x[1] : x \in T}
             R(T) == {x[2] : x \in T}
             F == {T \in SUBSET S : SumOver(w, T) # SumOver(a, L(T)) + SumOver(b, R(T))}
  <1> SUFFICES ASSUME F # {} PROVE FALSE
    OBVIOUS
  <1>1. PICK T \in F : \A U \in F : U \subseteq T => U = T
    <2> HIDE DEF F
    <2>1. F \in SUBSET (SUBSET S)
      BY DEF F
    <2> QED
      BY <2>1, SmallestSet
  <1>2. ASSUME NEW U \in SUBSET S
        PROVE  /\ IsFiniteSet(U) /\ IsFiniteSet(L(U)) /\ IsFiniteSet(R(U))
               /\ \A x \in U : w[x] \in Int
               /\ \A y \in L(U) : a[y] \in Int
               /\ \A y \in R(U) : b[y] \in Int
    <2>1. IsFiniteSet(U)
      BY FS_Subset
    <2>2. IsFiniteSet(L(U)) /\ IsFiniteSet(R(U))
      <3>1. /\ [x \in U |-> x[1]] \in Surjection(U, L(U))
            /\ [x \in U |-> x[2]] \in Surjection(U, R(U))
        BY DEF Surjection
      <3> QED
        BY <2>1, <3>1, FS_Surjection
    <2> QED
      BY <2>1, <2>2
  <1>3. T # {}
    <2> SUFFICES ASSUME T = {} PROVE FALSE
      OBVIOUS
    <2>1. L(T) = {} /\ R(T) = {}
      OBVIOUS
    <2>2. SumOver(w, T) # SumOver(a, L(T)) + SumOver(b, R(T))
      BY <1>1
    <2> HIDE DEF L, R
    <2>3. SumOver(w, T) = 0 /\ SumOver(a, L(T)) = 0 /\ SumOver(b, R(T)) = 0
      BY <2>1, SumEmpty
    <2> QED
      BY <2>2, <2>3
  <1>4. PICK x : x \in T
    BY <1>3
  <1> DEFINE W == T \ {x}
  <1>5. W \in SUBSET S /\ W \subseteq T /\ W # T
    BY <1>4
  <1>6. L(W) = L(T) \ {x[1]} /\ R(W) = R(T) \ {x[2]} /\ x[1] \in L(T) /\ x[2] \in R(T)
    BY <1>4
  <1>7. SumOver(w, W) = SumOver(a, L(W)) + SumOver(b, R(W))
    BY <1>1, <1>5
  <1> HIDE DEF W, L, R
  <1>8. /\ SumOver(w, T) = w[x] + SumOver(w, W)
        /\ SumOver(a, L(T)) = a[x[1]] + SumOver(a, L(W))
        /\ SumOver(b, R(T)) = b[x[2]] + SumOver(b, R(W))
    <2>1. SumOver(w, T) = w[x] + SumOver(w, W)
      BY <1>2, <1>4, SumRemove DEF W
    <2>2. SumOver(a, L(T)) = a[x[1]] + SumOver(a, L(W))
      BY <1>2, <1>6, SumRemove
    <2>3. SumOver(b, R(T)) = b[x[2]] + SumOver(b, R(W))
      BY <1>2, <1>6, SumRemove
    <2> QED
      BY <2>1, <2>2, <2>3
  <1>9. /\ SumOver(w, W) \in Int /\ SumOver(a, L(W)) \in Int /\ SumOver(b, R(W)) \in Int
    BY <1>2, <1>5, SumInt
  <1>10. a[x[1]] \in Int /\ b[x[2]] \in Int /\ w[x] = a[x[1]] + b[x[2]]
    BY <1>4
  <1>11. SumOver(w, T) # SumOver(a, L(T)) + SumOver(b, R(T))
    BY <1>1 DEF L, R
  <1> QED
    BY <1>7, <1>8, <1>9, <1>10, <1>11

\* Terms that are not positive only make a sum smaller, and zeros not even that.
LEMMA SumSub ==
  ASSUME NEW g, NEW S, IsFiniteSet(S), NEW Z \in SUBSET S,
         \A x \in S : g[x] \in Int, \A x \in S \ Z : g[x] <= 0
  PROVE  /\ SumOver(g, S) <= SumOver(g, Z)
         /\ (\A x \in S \ Z : g[x] = 0) => SumOver(g, S) = SumOver(g, Z)
  <1> DEFINE Holds(T) == /\ SumOver(g, T) <= SumOver(g, Z)
                         /\ (\A x \in T \ Z : g[x] = 0) => SumOver(g, T) = SumOver(g, Z)
             F == {T \in SUBSET S : Z \subseteq T /\ ~Holds(T)}
  <1> SUFFICES ASSUME F # {} PROVE FALSE
    OBVIOUS
  <1>1. PICK T \in F : \A U \in F : U \subseteq T => U = T
    <2> HIDE DEF F
    <2>1. F \in SUBSET (SUBSET S)
      BY DEF F
    <2> QED
      BY <2>1, SmallestSet
  <1>2. ASSUME NEW U \in SUBSET S
        PROVE  IsFiniteSet(U) /\ (\A x \in U : g[x] \in Int) /\ SumOver(g, U) \in Int
    <2>1. IsFiniteSet(U) /\ (\A x \in U : g[x] \in Int)
      BY FS_Subset
    <2> QED
      BY <2>1, SumInt
  <1>3. T # Z
    BY <1>1, <1>2
  <1>4. PICK x \in T : x \notin Z
    BY <1>1, <1>3
  <1> DEFINE W == T \ {x}
  <1>5. W \in SUBSET S /\ W \subseteq T /\ W # T /\ Z \subseteq W
    BY <1>1, <1>4
  <1>6. Holds(W)
    <2> HIDE DEF Holds
    <2> QED
      BY <1>1, <1>5
  <1>7. SumOver(g, T) = g[x] + SumOver(g, W)
    BY <1>2, <1>4, SumRemove
  <1>8. g[x] \in Int /\ g[x] <= 0 /\ SumOver(g, W) \in Int /\ SumOver(g, Z) \in Int
    BY <1>2, <1>4, <1>5
  <1>9. (\A y \in T \ Z : g[y] = 0) => g[x] = 0 /\ \A y \in W \ Z : g[y] = 0
    BY <1>4, <1>5
  <1> HIDE DEF W
  <1> QED
    BY <1>1, <1>6, <1>7, <1>8, <1>9

-----------------------------------------------------------------------------
(* The invariant *)

\* The reduced cost of row r at column c.
Reduced(r, c) == At(r, c) - u[r] - v[c]

\* The arrays have the size of the problem; minv may hold kInf.
TypeInv ==
  /\ ask \in Problems
  /\ pc \in {"rows", "scan", "augment", "done", "undefined"}
  /\ i \in 0..n /\ j0 \in 0..m
  /\ u \in [0..n -> Int] /\ v \in [0..m -> Int]
  /\ p \in [0..m -> 0..n] /\ way \in [0..m -> 0..m]
  /\ minv \in [0..m -> Int \cup {Inf}] /\ used \in SUBSET (0..m)

Searching == pc \in {"scan", "undefined"}

\* The columns whose entry of p is that of a matching: on the way back the
\* row of j0 has moved on and the next one has not come yet.
Live == IF Searching THEN 0..m ELSE (0..m) \ {j0}

\* The rows that have entered, and only they, are matched, each once. During
\* the search the new row is held by column 0.
MatchInv ==
  /\ Searching => p[0] = i /\ i # 0
  /\ pc = "augment" => j0 # 0 /\ i # 0
  /\ pc \in {"rows", "done"} => j0 = 0
  /\ pc = "done" => i = n
  /\ \A c, d \in Live : p[c] = p[d] /\ p[c] # 0 => c = d
  /\ \A c \in Live : p[c] <= i
  /\ \A r \in 1..i : \E c \in Live : p[c] = r

\* Every column of the tree holds a row; column 0 is its root.
TreeInv ==
  /\ Searching => p[j0] # 0 /\ j0 \notin used /\ 0 \in Tree /\ (used = {} => j0 = 0)
  /\ Searching \/ pc = "augment" => \A c \in used : p[c] # 0

\* For a column outside the tree, minv is the least reduced cost over the rows
\* of the tree, and way the column whose row offers it.
SlackInv ==
  Searching =>
    \A c \in (1..m) \ used :
      /\ \A d \in used : At(p[d], c) # NaN => minv[c] # Inf /\ minv[c] <= Reduced(p[d], c)
      /\ minv[c] # Inf => /\ way[c] \in used /\ At(p[way[c]], c) # NaN
                          /\ minv[c] = Reduced(p[way[c]], c)

\* The step back from c costs nothing: its column would take over the row of
\* way[c] at a reduced cost of zero.
TightStep(c) == /\ way[c] \in used /\ At(p[way[c]], c) # NaN
                /\ Reduced(p[way[c]], c) = 0

\* A rank that falls along way: the path back cannot run in a circle, and it
\* passes no column twice. On the way back only what is still ahead is ranked.
Ranks(rank) ==
  /\ Searching => \A c \in Tree : rank[c] <= rank[j0]
  /\ \A c \in Tree \ {0} : rank[c] <= rank[j0] => TightStep(c) /\ rank[way[c]] < rank[c]

\* The way back exists from the moment the search starts until it is walked.
PathInv == Searching \/ pc = "augment" => \E rank \in [0..m -> Nat] : Ranks(rank)

\* The potentials are feasible for the rows that have entered, tight on the
\* matching, and zero on the columns no row has taken, never above it.
FeasInv ==
  /\ \A r \in Entered, c \in 1..m : At(r, c) # NaN => u[r] + v[c] <= At(r, c)
  /\ \A c \in Live \ {0} : p[c] # 0 => At(p[c], c) # NaN /\ u[p[c]] + v[c] = At(p[c], c)
  /\ \A c \in 1..m : v[c] <= 0 /\ (p[c] = 0 => v[c] = 0)

\* The search fails only when every edge out of the tree is NaN.
StuckInv == pc = "undefined" => \A c \in Free, d \in Tree : At(p[d], c) = NaN

\* The inductive invariant.
SearchInv ==
  TypeInv /\ MatchInv /\ TreeInv /\ SlackInv /\ PathInv /\ FeasInv /\ StuckInv

\* The smaller side is the rows of at(i, j), whichever way the problem came.
LEMMA Sizes == ASSUME TypeInv
  PROVE /\ n \in Nat /\ m \in Nat /\ n <= m
        /\ \A r \in 1..n, c \in 1..m : At(r, c) \in Int \cup {NaN}
<1>1. ask.rows \in Nat /\ ask.cols \in Nat
  BY ProblemsAssumption DEF TypeInv
<1>2. \A r \in 0 .. ask.rows - 1, c \in 0 .. ask.cols - 1 : ask.cost[<<r, c>>] \in Int \cup {NaN}
  BY ProblemsAssumption DEF TypeInv
<1> QED BY <1>1, <1>2 DEF n, m, Transposed, At

\* Nothing about the problem changes while the call runs.
LEMMA SameProblem == ASSUME ask' = ask
  PROVE /\ n' = n /\ m' = m /\ Transposed' = Transposed
        /\ \A r, c : At(r, c)' = At(r, c)
BY DEF n, m, Transposed, At

\* The conjuncts of the type invariant, for the provers.
LEMMA Types == ASSUME SearchInv
  PROVE /\ n \in Nat /\ m \in Nat /\ n <= m
        /\ \A r \in 1..n, c \in 1..m : At(r, c) \in Int \cup {NaN}
        /\ i \in 0..n /\ j0 \in 0..m
        /\ u \in [0..n -> Int] /\ v \in [0..m -> Int]
        /\ p \in [0..m -> 0..n] /\ way \in [0..m -> 0..m]
        /\ minv \in [0..m -> Int \cup {Inf}] /\ used \in SUBSET (0..m)
<1>1. TypeInv
  BY DEF SearchInv
<1> QED
  BY <1>1, Sizes DEF TypeInv

\* The tree during the search, as one set of facts.
LEMMA TreeFacts == ASSUME SearchInv, pc \in {"scan", "undefined"}
  PROVE /\ Searching /\ Live = 0..m /\ Free \subseteq 1..m /\ Tree \subseteq 0..m
        /\ 0 \in Tree /\ j0 \in Tree /\ j0 \notin used /\ (used = {} => j0 = 0)
        /\ p[0] = i /\ i \in 1..n
        /\ \A d \in Tree : p[d] \in 1..i
        /\ \A c, d \in 0..m : p[c] = p[d] /\ p[c] # 0 => c = d
        /\ \A r \in 1..i : \E c \in 0..m : p[c] = r
        /\ pc = "scan" => Entered = IF used = {} THEN 1..(i - 1) ELSE 1..i
<1>1. Searching /\ Live = 0..m
  BY DEF Searching, Live
<1>2. /\ p[0] = i /\ i # 0
      /\ \A c, d \in 0..m : p[c] = p[d] /\ p[c] # 0 => c = d
      /\ \A c \in 0..m : p[c] <= i
      /\ \A r \in 1..i : \E c \in 0..m : p[c] = r
  BY <1>1 DEF SearchInv, MatchInv
<1>3. /\ p[j0] # 0 /\ j0 \notin used /\ 0 \in Tree /\ (used = {} => j0 = 0)
      /\ \A c \in used : p[c] # 0
  BY <1>1 DEF SearchInv, TreeInv
<1>4. j0 \in Tree /\ Tree \subseteq 0..m /\ Free \subseteq 1..m
  BY Types DEF Tree, Free
<1>5. ASSUME NEW d \in Tree PROVE p[d] \in 1..i
  <2>1. p[d] # 0
    BY <1>3 DEF Tree
  <2>2. d \in 0..m /\ p[d] <= i
    BY <1>2, <1>4
  <2>3. p[d] \in 0..n /\ i \in 0..n /\ n \in Nat
    BY <2>2, Types
  <2> QED
    BY <2>1, <2>2, <2>3
<1>6. i \in 1..n
  BY <1>2, Types
<1>7. pc = "scan" => Entered = IF used = {} THEN 1..(i - 1) ELSE 1..i
  BY DEF Entered
<1> QED
  BY <1>1, <1>2, <1>3, <1>4, <1>5, <1>6, <1>7

\* way[c] after the pass: the column that offers Lowered(c).
Before(c) == IF c \in Free /\ Improves(c) THEN j0 ELSE way[c]

\* After the first half of a pass, Lowered(c) is the least reduced cost over the
\* whole tree, the current row included, and Before(c) offers it.
LEMMA LoweredFacts == ASSUME SearchInv, pc = "scan", NEW c \in Free
  PROVE /\ Lowered(c) \in Int \cup {Inf}
        /\ \A d \in Tree : At(p[d], c) # NaN =>
             Lowered(c) # Inf /\ Lowered(c) <= Reduced(p[d], c) /\ Reduced(p[d], c) \in Int
        /\ Lowered(c) # Inf => /\ Before(c) \in Tree /\ At(p[Before(c)], c) # NaN
                               /\ Lowered(c) = Reduced(p[Before(c)], c)
<1>1. c \in (1..m) \ used /\ c \in 1..m /\ c \in 0..m /\ m \in Nat
  BY Types, TreeFacts DEF Free, Tree
<1>2. ASSUME NEW d \in Tree, At(p[d], c) # NaN
      PROVE  Reduced(p[d], c) \in Int
  <2>1. p[d] \in 1..n /\ p[d] \in 0..n
    BY TreeFacts, Types
  <2>2. At(p[d], c) \in Int
    BY <1>1, <1>2, <2>1, Types
  <2>3. u[p[d]] \in Int /\ v[c] \in Int
    BY <1>1, <2>1, Types
  <2> QED
    BY <2>2, <2>3 DEF Reduced
<1>3. minv[c] \in Int \cup {Inf}
  BY <1>1, Types
<1>4. /\ \A d \in used : At(p[d], c) # NaN => minv[c] # Inf /\ minv[c] <= Reduced(p[d], c)
      /\ minv[c] # Inf => /\ way[c] \in used /\ At(p[way[c]], c) # NaN
                          /\ minv[c] = Reduced(p[way[c]], c)
  BY <1>1, TreeFacts DEF SearchInv, SlackInv
<1>5. j0 \in Tree /\ used \subseteq Tree
  BY DEF Tree
<1>6. CASE Improves(c)
  <2>1. /\ At(p[j0], c) # NaN /\ Lowered(c) = Reduced(p[j0], c)
        /\ Before(c) = j0 /\ Less(Reduced(p[j0], c), minv[c])
    BY <1>6 DEF Improves, Lowered, Before, Reduced
  <2>2. Reduced(p[j0], c) \in Int
    BY <1>2, <1>5, <2>1
  <2>3. minv[c] # Inf => Lowered(c) < minv[c]
    BY <2>1 DEF Less
  <2>4. ASSUME NEW d \in Tree, At(p[d], c) # NaN
        PROVE  Lowered(c) # Inf /\ Lowered(c) <= Reduced(p[d], c) /\ Reduced(p[d], c) \in Int
    <3>1. Reduced(p[d], c) \in Int /\ Lowered(c) # Inf
      BY <1>2, <2>1, <2>2, <2>4, InfAssumption
    <3>2. CASE d = j0
      BY <2>1, <2>2, <3>1, <3>2
    <3>3. CASE d \in used
      BY <1>3, <1>4, <2>1, <2>2, <2>3, <2>4, <3>1, <3>3, InfAssumption
    <3> QED
      BY <3>2, <3>3 DEF Tree
  <2> QED
    BY <1>5, <2>1, <2>2, <2>4
<1>7. CASE ~Improves(c)
  <2>1. Lowered(c) = minv[c] /\ Before(c) = way[c]
    BY <1>7 DEF Lowered, Before
  <2>2. ASSUME NEW d \in Tree, At(p[d], c) # NaN
        PROVE  Lowered(c) # Inf /\ Lowered(c) <= Reduced(p[d], c) /\ Reduced(p[d], c) \in Int
    <3>1. Reduced(p[d], c) \in Int
      BY <1>2, <2>2
    <3>2. CASE d = j0
      <4>1. ~Less(Reduced(p[d], c), minv[c])
        BY <1>7, <2>2, <3>2 DEF Improves, Reduced
      <4> QED
        BY <1>3, <2>1, <3>1, <4>1, InfAssumption DEF Less
    <3>3. CASE d \in used
      BY <1>4, <2>1, <2>2, <3>1, <3>3
    <3> QED
      BY <3>2, <3>3 DEF Tree
  <2> QED
    BY <1>3, <1>4, <1>5, <2>1, <2>2
<1> QED
  BY <1>6, <1>7

\* If some free column has a price, one of them is cheapest and first.
LEMMA SomeCheapest == ASSUME SearchInv, pc = "scan", NEW e \in Free, Lowered(e) # Inf
  PROVE \E c \in Free : Cheapest(c)
<1> DEFINE F == {c \in Free : Lowered(c) # Inf}
           Ahead(c) == {d \in F : Lowered(d) < Lowered(c) \/ (Lowered(d) = Lowered(c) /\ d < c)}
           Q == {Ahead(c) : c \in F}
<1>1. Free \subseteq 1..m /\ IsFiniteSet(1..m)
  <2>1. IsFiniteSet(1..m)
    BY Types, FS_Interval
  <2> QED
    BY <2>1, TreeFacts
<1>2. \A c \in F : Lowered(c) \in Int /\ c \in Int
  <2> SUFFICES ASSUME NEW c \in F PROVE Lowered(c) \in Int /\ c \in Int
    OBVIOUS
  <2>1. Lowered(c) \in Int \cup {Inf}
    BY LoweredFacts
  <2>2. c \in 1..m /\ m \in Nat
    BY <1>1, Types
  <2> QED
    BY <2>1, <2>2
<1>3. PICK T \in Q : \A U \in Q : U \subseteq T => U = T
  <2>1. \A x \in F : Ahead(x) \in SUBSET (1..m)
    BY <1>1
  <2>2. e \in F
    OBVIOUS
  <2> HIDE DEF F, Ahead
  <2>3. Q \in SUBSET (SUBSET (1..m)) /\ Q # {}
    BY <2>1, <2>2
  <2> HIDE DEF Q
  <2>4. PICK S : S = 1..m
    OBVIOUS
  <2>5. PICK R : R = Q
    OBVIOUS
  <2>6. IsFiniteSet(S) /\ R \in SUBSET (SUBSET S) /\ R # {}
    BY <1>1, <2>3, <2>4, <2>5
  <2>7. \E T \in R : \A U \in R : U \subseteq T => U = T
    BY <2>6, SmallestSet
  <2> QED
    BY <2>5, <2>7
<1>4. PICK c \in F : T = Ahead(c)
  OBVIOUS
<1>5. ASSUME NEW d \in Ahead(c) PROVE FALSE
  <2>1. d \in F /\ Ahead(d) \in Q
    OBVIOUS
  <2>2. Ahead(d) \subseteq Ahead(c)
    <3> SUFFICES ASSUME NEW x \in Ahead(d) PROVE x \in Ahead(c)
      OBVIOUS
    <3>1. /\ Lowered(x) < Lowered(d) \/ (Lowered(x) = Lowered(d) /\ x < d)
          /\ Lowered(d) < Lowered(c) \/ (Lowered(d) = Lowered(c) /\ d < c)
          /\ x \in F /\ d \in F /\ c \in F
      OBVIOUS
    <3>2. /\ Lowered(x) \in Int /\ Lowered(d) \in Int /\ Lowered(c) \in Int
          /\ x \in Int /\ d \in Int /\ c \in Int
      BY <1>2, <3>1
    <3> HIDE DEF F
    <3>3. Lowered(x) < Lowered(c) \/ (Lowered(x) = Lowered(c) /\ x < c)
      BY <3>1, <3>2
    <3> QED
      BY <3>1, <3>3
  <2>3. d \notin Ahead(d)
    <3>1. Lowered(d) \in Int /\ d \in Int
      BY <1>2, <2>1
    <3> HIDE DEF F
    <3> QED
      BY <3>1
  <2> HIDE DEF F, Q, Ahead
  <2> QED
    BY <1>3, <1>4, <1>5, <2>1, <2>2, <2>3
<1>6. ASSUME NEW d \in Free
      PROVE  Less(Lowered(c), Lowered(d)) \/ (Lowered(c) = Lowered(d) /\ c <= d)
  <2>1. CASE Lowered(d) = Inf
    BY <2>1 DEF Less
  <2>2. CASE Lowered(d) # Inf
    <3>1. d \in F /\ c \in F /\ Lowered(c) # Inf
      BY <2>2
    <3>2. d \notin Ahead(c)
      BY <1>5
    <3>3. ~(Lowered(d) < Lowered(c) \/ (Lowered(d) = Lowered(c) /\ d < c))
      BY <3>1, <3>2
    <3>4. Lowered(c) \in Int /\ Lowered(d) \in Int /\ c \in Int /\ d \in Int
      BY <1>2, <3>1
    <3> HIDE DEF F, Q, Ahead
    <3> QED
      BY <3>1, <3>3, <3>4 DEF Less
  <2> QED
    BY <2>1, <2>2
<1> QED
  BY <1>4, <1>6 DEF Cheapest

\* Running out of columns: every edge out of the tree is NaN.
LEMMA ScanFailsKeeps == ASSUME SearchInv, ScanFails PROVE SearchInv'
<1>1. /\ n' = n /\ m' = m /\ \A r, c : At(r, c)' = At(r, c)
  BY SameProblem DEF ScanFails
<1>2. /\ pc = "scan" /\ pc' = "undefined" /\ \A c \in Free : ~Cheapest(c)
      /\ ask' = ask /\ i' = i /\ j0' = j0 /\ u' = u /\ v' = v /\ p' = p /\ way' = way
      /\ minv' = minv /\ used' = used
  BY DEF ScanFails, search
<1>3. /\ Searching /\ Searching' /\ Live = 0..m /\ Live' = 0..m /\ Tree' = Tree /\ Free' = Free
      /\ Entered' \subseteq 1..i
  BY <1>1, <1>2, Types DEF Searching, Live, Tree, Free, Entered
<1>4. StuckInv'
  <2> SUFFICES ASSUME NEW c \in Free, NEW d \in Tree PROVE At(p[d], c) = NaN
    BY <1>1, <1>2, <1>3 DEF StuckInv
  <2>1. Lowered(c) = Inf
    BY <1>2, SomeCheapest
  <2> QED
    BY <1>2, <2>1, LoweredFacts
<1> QED
  <2>1. TypeInv' /\ MatchInv' /\ TreeInv'
    BY <1>1, <1>2, <1>3 DEF SearchInv, TypeInv, MatchInv, TreeInv
  <2>2. SlackInv'
    BY <1>1, <1>2, <1>3 DEF SearchInv, SlackInv, Reduced
  <2>3. PathInv'
    BY <1>1, <1>2, <1>3 DEF SearchInv, PathInv, Ranks, TightStep, Reduced
  <2>4. FeasInv'
    <3>1. ASSUME NEW r \in 1..i, NEW c \in 1..m, At(r, c) # NaN
          PROVE  u[r] + v[c] <= At(r, c)
      <4>1. CASE r \in Entered
        BY <3>1, <4>1 DEF SearchInv, FeasInv
      <4>2. CASE r \notin Entered
        <5>1. used = {} /\ r = p[0] /\ 0 \in Tree /\ c \in Free
          BY <1>2, <4>2, TreeFacts, Types DEF Free, Tree
        <5> QED
          BY <1>1, <1>2, <1>3, <1>4, <3>1, <5>1 DEF StuckInv
      <4> QED
        BY <4>1, <4>2
    <3>2. /\ \A c \in Live \ {0} : p[c] # 0 => At(p[c], c) # NaN /\ u[p[c]] + v[c] = At(p[c], c)
          /\ \A c \in 1..m : v[c] <= 0 /\ (p[c] = 0 => v[c] = 0)
      BY DEF SearchInv, FeasInv
    <3> QED
      BY <1>1, <1>2, <1>3, <3>1, <3>2 DEF FeasInv
  <2> QED
    BY <1>4, <2>1, <2>2, <2>3, <2>4 DEF SearchInv

\* The entries of the arrays, for the provers.
LEMMA Entries == ASSUME SearchInv
  PROVE /\ \A c \in 1..m : c \in 0..m /\ c # 0 /\ v[c] \in Int /\ p[c] \in 0..n /\ u[p[c]] \in Int
        /\ \A r \in 1..i : r \in 1..n /\ r \in 0..n /\ r # 0 /\ u[r] \in Int
        /\ \A r \in 1..i, c \in 1..m : At(r, c) # NaN => At(r, c) \in Int
<1>1. /\ n \in Nat /\ m \in Nat /\ i \in 0..n
      /\ \A r \in 1..n, c \in 1..m : At(r, c) \in Int \cup {NaN}
  BY Types
<1>2. u \in [0..n -> Int] /\ v \in [0..m -> Int] /\ p \in [0..m -> 0..n]
  BY Types
<1>3. ASSUME NEW c \in 1..m
      PROVE  c \in 0..m /\ c # 0 /\ v[c] \in Int /\ p[c] \in 0..n /\ u[p[c]] \in Int
  <2>1. c \in 0..m /\ c # 0
    BY <1>1
  <2> QED
    BY <1>2, <2>1
<1>4. ASSUME NEW r \in 1..i
      PROVE  r \in 1..n /\ r \in 0..n /\ r # 0 /\ u[r] \in Int
  <2>1. r \in 1..n /\ r \in 0..n /\ r # 0
    BY <1>1
  <2> QED
    BY <1>2, <2>1
<1> QED
  BY <1>1, <1>3, <1>4

\* One pass of the do loop: delta moves tree rows up and tree columns down, so
\* no reduced cost falls below zero, edges inside the tree keep theirs, and the
\* edge to the new column becomes tight.
LEMMA ScanKeeps == ASSUME SearchInv, Scan PROVE SearchInv'
<1>1. /\ n' = n /\ m' = m /\ \A r, c : At(r, c)' = At(r, c)
  BY SameProblem DEF Scan
<1>2. PICK j1 \in Free :
        /\ pc = "scan" /\ Cheapest(j1) /\ used' = Tree /\ j0' = j1
        /\ way' = [c \in 0..m |-> IF c \in Free /\ Improves(c) THEN j0 ELSE way[c]]
        /\ u' = Raised(Lowered(j1)) /\ v' = Sunk(Lowered(j1)) /\ minv' = Slack(Lowered(j1))
        /\ pc' = IF p[j1] = 0 THEN "augment" ELSE "scan"
        /\ ask' = ask /\ i' = i /\ p' = p
  BY DEF Scan
<1> DEFINE delta == Lowered(j1)
<1>3. pc = "scan" /\ j1 \in 1..m /\ j1 \notin Tree
  BY <1>2 DEF Free
<1>4. delta \in Int /\ \A c \in Free : Lowered(c) # Inf => delta <= Lowered(c) /\ Lowered(c) \in Int
  <2>1. delta # Inf /\ delta \in Int \cup {Inf}
    BY <1>2, <1>3, LoweredFacts DEF Cheapest
  <2>2. ASSUME NEW c \in Free, Lowered(c) # Inf
        PROVE  delta <= Lowered(c) /\ Lowered(c) \in Int
    <3>1. Lowered(c) \in Int \cup {Inf}
      BY <1>3, LoweredFacts
    <3>2. Less(delta, Lowered(c)) \/ delta = Lowered(c)
      BY <1>2 DEF Cheapest
    <3> HIDE DEF delta
    <3> QED
      BY <2>1, <2>2, <3>1, <3>2 DEF Less
  <2> HIDE DEF delta
  <2> QED
    BY <2>1, <2>2
<1>5. used # {} => delta >= 0
  <2> SUFFICES ASSUME used # {} PROVE delta >= 0
    OBVIOUS
  <2>1. /\ Before(j1) \in Tree /\ At(p[Before(j1)], j1) # NaN
        /\ delta = Reduced(p[Before(j1)], j1)
    BY <1>2, <1>3, <1>4, LoweredFacts, InfAssumption
  <2>2. p[Before(j1)] \in Entered /\ p[Before(j1)] \in 1..i
    BY <1>3, <2>1, TreeFacts
  <2>3. u[p[Before(j1)]] + v[j1] <= At(p[Before(j1)], j1)
    BY <1>3, <2>1, <2>2 DEF SearchInv, FeasInv
  <2>4. u[p[Before(j1)]] \in Int /\ v[j1] \in Int /\ At(p[Before(j1)], j1) \in Int
    BY <1>3, <2>1, <2>2, Entries
  <2> HIDE DEF delta
  <2> QED
    BY <2>1, <2>3, <2>4 DEF Reduced
<1> HIDE DEF delta
<1>6. /\ \A d \in Tree : u'[p[d]] = u[p[d]] + delta
      /\ \A r \in 0..n : (\A d \in Tree : p[d] # r) => u'[r] = u[r]
      /\ \A c \in Tree : v'[c] = v[c] - delta
      /\ \A c \in (0..m) \ Tree : v'[c] = v[c]
  <2>1. \A d \in Tree : d \in 0..m /\ p[d] \in 0..n
    BY <1>3, TreeFacts, Types
  <2> QED
    BY <1>2, <2>1 DEF Raised, Sunk, delta
<1>7. \A c \in Free : /\ c \in 1..m /\ c \in 0..m /\ c \notin Tree
                      /\ minv'[c] = IF Lowered(c) = Inf THEN Inf ELSE Lowered(c) - delta
                      /\ way'[c] = Before(c)
  BY <1>2, Types DEF Free, Slack, Before, delta
<1>8. \A c \in (0..m) \ Free : way'[c] = way[c]
  BY <1>2
<1>9. /\ used # {} => Entered = 1..i
      /\ Entered' = 1..i /\ Live' \subseteq 0..m /\ Live = 0..m
      /\ (Searching' <=> pc' = "scan") /\ Live' = IF Searching' THEN 0..m ELSE (0..m) \ {j1}
      /\ Tree' = Tree \cup {j1} /\ Searching /\ (pc' # "scan" => p[j1] = 0 /\ pc' = "augment")
      /\ (pc' = "scan" => p[j1] # 0)
  BY <1>1, <1>2, TreeFacts DEF Entered, Live, Searching, Tree
<1>10. TypeInv'
  <2>1. u' \in [0..n -> Int] /\ v' \in [0..m -> Int]
    BY <1>2, <1>4, Types DEF Raised, Sunk, delta
  <2>2. way' \in [0..m -> 0..m]
    BY <1>2, Types
  <2>3. minv' \in [0..m -> Int \cup {Inf}]
    <3>1. minv' = [c \in 0..m |-> IF c \in Tree \/ Lowered(c) = Inf THEN Lowered(c) ELSE Lowered(c) - delta]
      BY <1>2 DEF Slack, delta
    <3>2. \A c \in 0..m : c \in Free => Lowered(c) \in Int \cup {Inf}
      BY <1>3, LoweredFacts
    <3>3. \A c \in 0..m : c \notin Free => Lowered(c) \in Int \cup {Inf}
      BY Types DEF Lowered
    <3> QED
      BY <1>4, <3>1, <3>2, <3>3
  <2>4. Tree \in SUBSET (0..m) /\ j1 \in 0..m
    BY <1>3, TreeFacts, Types
  <2> QED
    BY <1>1, <1>2, <2>1, <2>2, <2>3, <2>4 DEF SearchInv, TypeInv
<1>11. MatchInv'
  <2>1. /\ p[0] = i /\ i # 0 /\ \A c, d \in 0..m : p[c] = p[d] /\ p[c] # 0 => c = d
        /\ \A r \in 1..i : \E c \in 0..m : p[c] = r
    BY <1>3, TreeFacts, Types
  <2>2. \A c \in 0..m : p[c] <= i
    BY <1>9 DEF SearchInv, MatchInv
  <2>3. \A r \in 1..i : \E c \in Live' : p[c] = r
    BY <1>3, <1>9, <2>1, Types
  <2>4. j1 # 0
    BY <1>3, Types
  <2> QED
    BY <1>2, <1>9, <2>1, <2>2, <2>3, <2>4 DEF MatchInv
<1>12. TreeInv'
  BY <1>2, <1>3, <1>9, TreeFacts DEF TreeInv
<1>13. \A c \in Free, d \in Tree : At(p[d], c) # NaN =>
         /\ Reduced(p[d], c)' = Reduced(p[d], c) - delta
         /\ Reduced(p[d], c) \in Int
  <2> SUFFICES ASSUME NEW c \in Free, NEW d \in Tree, At(p[d], c) # NaN
               PROVE  /\ Reduced(p[d], c)' = Reduced(p[d], c) - delta
                      /\ Reduced(p[d], c) \in Int
    OBVIOUS
  <2>1. Reduced(p[d], c)' = At(p[d], c) - (u[p[d]] + delta) - v[c]
    BY <1>1, <1>2, <1>6, <1>7 DEF Reduced
  <2>2. u[p[d]] \in Int /\ v[c] \in Int /\ At(p[d], c) \in Int
    <3>1. p[d] \in 0..n /\ p[d] \in 1..n
      BY <1>3, TreeFacts, Types
    <3> QED
      BY <1>7, <3>1, Types
  <2> QED
    BY <1>4, <2>1, <2>2 DEF Reduced
<1>14. SlackInv'
  <2> SUFFICES ASSUME NEW c \in Free
               PROVE  /\ \A d \in Tree : At(p[d], c) # NaN =>
                           minv'[c] # Inf /\ minv'[c] <= Reduced(p[d], c)'
                      /\ minv'[c] # Inf => \E d \in Tree : /\ way'[c] = d /\ At(p[d], c) # NaN
                                                           /\ minv'[c] = Reduced(p[d], c)'
    BY <1>1, <1>2, <1>9 DEF SlackInv, Free
  <2>1. Lowered(c) \in Int \cup {Inf}
    BY <1>3, LoweredFacts
  <2>2. ASSUME NEW d \in Tree, At(p[d], c) # NaN
        PROVE  minv'[c] # Inf /\ minv'[c] <= Reduced(p[d], c)'
    <3>1. Lowered(c) # Inf /\ Lowered(c) <= Reduced(p[d], c) /\ Lowered(c) \in Int
      BY <1>3, <2>1, <2>2, LoweredFacts
    <3>2. minv'[c] = Lowered(c) - delta
      BY <1>7, <3>1
    <3>3. Reduced(p[d], c)' = Reduced(p[d], c) - delta /\ Reduced(p[d], c) \in Int
      BY <1>13, <2>2
    <3> QED
      BY <1>4, <3>1, <3>2, <3>3, InfAssumption
  <2>3. ASSUME minv'[c] # Inf
        PROVE  \E d \in Tree : /\ way'[c] = d /\ At(p[d], c) # NaN
                               /\ minv'[c] = Reduced(p[d], c)'
    <3>1. Lowered(c) # Inf /\ minv'[c] = Lowered(c) - delta /\ way'[c] = Before(c)
      BY <1>7, <2>3
    <3>2. PICK d \in Tree : d = Before(c) /\ At(p[d], c) # NaN /\ Lowered(c) = Reduced(p[d], c)
      BY <1>3, <3>1, LoweredFacts
    <3>3. Reduced(p[d], c)' = Reduced(p[d], c) - delta
      BY <1>13, <3>2
    <3> QED
      BY <3>1, <3>2, <3>3
  <2> QED
    BY <2>2, <2>3
<1>15. PathInv'
  <2>1. PICK rank \in [0..m -> Nat] : Ranks(rank)
    BY <1>9 DEF SearchInv, PathInv
  <2>10. j0 \in Tree /\ j1 \in 0..m /\ j1 \notin Tree /\ \A c \in Tree : c \in 0..m
    BY <1>3, Entries, TreeFacts
  <2>2. PICK longer \in [0..m -> Nat] : longer = [c \in 0..m |-> IF c = j1 THEN rank[j0] + 1 ELSE rank[c]]
    <3>1. rank[j0] \in Nat
      BY <2>10
    <3>2. [c \in 0..m |-> IF c = j1 THEN rank[j0] + 1 ELSE rank[c]] \in [0..m -> Nat]
      BY <3>1
    <3> QED
      BY <3>2
  <2>11. \A c \in Tree : rank[c] <= rank[j0]
    BY <1>9, <2>1 DEF Ranks
  <2>3. /\ longer[j1] = rank[j0] + 1 /\ \A c \in Tree : longer[c] = rank[c] /\ c \in 0..m
        /\ \A c \in Tree : rank[c] <= rank[j0] /\ rank[c] \in Nat
        /\ rank[j0] \in Nat
    BY <2>10, <2>11, <2>2
  <2>4. ASSUME NEW c \in Tree' \ {0} PROVE TightStep(c)' /\ longer[way'[c]] < longer[c]
    <3>1. CASE c = j1
      <4>1. /\ way'[j1] = Before(j1) /\ delta # Inf
        BY <1>4, <1>7, InfAssumption
      <4>2. PICK d \in Tree : d = Before(j1) /\ At(p[d], j1) # NaN /\ delta = Reduced(p[d], j1)
        BY <1>3, <4>1, LoweredFacts DEF delta
      <4>3. Reduced(p[d], j1)' = 0
        BY <1>4, <1>13, <4>2
      <4>4. longer[d] < longer[j1]
        BY <2>3
      <4> QED
        BY <1>1, <1>2, <3>1, <4>1, <4>2, <4>3, <4>4 DEF TightStep
    <3>2. CASE c \in Tree
      <4>1. TightStep(c) /\ rank[way[c]] < rank[c]
        BY <2>1, <2>3, <2>4, <3>2 DEF Ranks
      <4>2. way'[c] = way[c] /\ c \in 1..m /\ c \in 0..m
        <5>1. c \in 0..m /\ c # 0 /\ c \notin Free
          BY <2>3, <2>4, <3>2 DEF Free
        <5>2. c \in 1..m
          BY <5>1, Types
        <5> QED
          BY <1>8, <5>1, <5>2
      <4>3. PICK d \in Tree : d = way[c] /\ At(p[d], c) # NaN /\ Reduced(p[d], c) = 0
        BY <4>1 DEF TightStep, Tree
      <4>4. Reduced(p[d], c)' = 0
        <5>1. Reduced(p[d], c)' = At(p[d], c) - (u[p[d]] + delta) - (v[c] - delta)
          BY <1>1, <1>2, <1>6, <3>2 DEF Reduced
        <5>2. p[d] \in 1..i
          BY <1>3, TreeFacts
        <5>3. u[p[d]] \in Int /\ v[c] \in Int /\ At(p[d], c) \in Int
          BY <4>2, <4>3, <5>2, Entries
        <5> QED
          BY <1>4, <4>3, <5>1, <5>3 DEF Reduced
      <4>5. longer[d] < longer[c]
        BY <2>3, <3>2, <4>1, <4>3
      <4> QED
        BY <1>1, <1>2, <4>2, <4>3, <4>4, <4>5 DEF TightStep
    <3> QED
      BY <1>9, <2>4, <3>1, <3>2
  <2>5. Ranks(longer)'
    <3>1. \A c \in Tree' : longer[c] <= longer[j1]
      BY <1>9, <2>3
    <3> QED
      BY <1>2, <2>4, <3>1 DEF Ranks
  <2> QED
    BY <1>1, <2>5 DEF PathInv
<1>16. FeasInv'
  <2>1. ASSUME NEW c \in Tree, c # 0 PROVE used # {} /\ delta >= 0 /\ v'[c] = v[c] - delta
    <3>1. used # {}
      BY <1>3, <2>1, TreeFacts DEF Tree
    <3> QED
      BY <1>5, <1>6, <3>1
  <2>2. \A c \in 1..m : v[c] \in Int /\ v[c] <= 0 /\ v'[c] \in Int /\ v'[c] <= v[c] /\ c \in 0..m
    <3> SUFFICES ASSUME NEW c \in 1..m
                 PROVE  v[c] \in Int /\ v[c] <= 0 /\ v'[c] \in Int /\ v'[c] <= v[c] /\ c \in 0..m
      OBVIOUS
    <3>1. v[c] \in Int /\ v[c] <= 0 /\ c \in 0..m
      BY Entries DEF SearchInv, FeasInv
    <3>2. CASE c \in Tree
      <4>1. delta >= 0 /\ v'[c] = v[c] - delta
        BY <2>1, <3>2, Entries
      <4> QED
        BY <1>4, <3>1, <4>1
    <3>3. CASE c \notin Tree
      BY <1>6, <3>1, <3>3
    <3> QED
      BY <3>2, <3>3
  <2>3. ASSUME NEW r \in 1..i, NEW c \in 1..m, At(r, c) # NaN
        PROVE  u'[r] + v'[c] <= At(r, c)
    <3>1. r \in 1..n /\ r \in 0..n /\ u[r] \in Int /\ v[c] \in Int /\ At(r, c) \in Int
      BY <2>3, Entries
    <3>2. CASE \E d \in Tree : p[d] = r
      <4>1. PICK d \in Tree : p[d] = r
        BY <3>2
      <4>2. u'[r] = u[r] + delta
        BY <1>6, <4>1
      <4>3. CASE c \in Free
        <5>1. Lowered(c) # Inf /\ Lowered(c) <= At(r, c) - u[r] - v[c]
          BY <1>3, <2>3, <4>1, <4>3, LoweredFacts DEF Reduced
        <5>2. delta <= Lowered(c) /\ Lowered(c) \in Int
          BY <1>4, <4>3, <5>1
        <5>3. v'[c] = v[c]
          BY <1>6, <1>7, <4>3
        <5> QED
          BY <1>4, <3>1, <4>2, <5>1, <5>2, <5>3
      <4>4. CASE c \in Tree
        <5>1. c # 0 /\ used # {} /\ v'[c] = v[c] - delta
          BY <2>1, <4>4, Entries
        <5>2. u[r] + v[c] <= At(r, c)
          BY <1>9, <2>3, <5>1 DEF SearchInv, FeasInv
        <5> QED
          BY <1>4, <3>1, <4>2, <5>1, <5>2
      <4> QED
        BY <4>3, <4>4 DEF Free
    <3>3. CASE \A d \in Tree : p[d] # r
      <4>1. u'[r] = u[r]
        BY <1>6, <3>1, <3>3
      <4>2. r # i
        BY <1>3, <3>3, TreeFacts
      <4>3. r \in Entered
        BY <1>3, <4>2, TreeFacts, Types
      <4>4. u[r] + v[c] <= At(r, c)
        BY <2>3, <4>3 DEF SearchInv, FeasInv
      <4> QED
        BY <2>2, <3>1, <4>1, <4>4
    <3> QED
      BY <3>2, <3>3
  <2>4. ASSUME NEW c \in 1..m, p[c] # 0
        PROVE  At(p[c], c) # NaN /\ u'[p[c]] + v'[c] = At(p[c], c)
    <3>1. At(p[c], c) # NaN /\ u[p[c]] + v[c] = At(p[c], c)
      BY <1>9, <2>2, <2>4, Types DEF SearchInv, FeasInv
    <3>2. p[c] \in 0..n /\ u[p[c]] \in Int /\ v[c] \in Int /\ c \in 0..m
      BY <2>2, Types
    <3>3. CASE c \in Tree
      <4>1. u'[p[c]] = u[p[c]] + delta /\ v'[c] = v[c] - delta
        BY <1>6, <3>3
      <4> QED
        BY <1>4, <3>1, <3>2, <4>1
    <3>4. CASE c \notin Tree
      <4>1. \A d \in Tree : p[d] # p[c]
        BY <1>3, <2>4, <3>2, <3>4, TreeFacts
      <4>2. u'[p[c]] = u[p[c]] /\ v'[c] = v[c]
        BY <1>6, <3>2, <3>4, <4>1
      <4> QED
        BY <3>1, <4>2
    <3> QED
      BY <3>3, <3>4
  <2>5. ASSUME NEW c \in 1..m, p[c] = 0 PROVE v'[c] = 0
    <3>1. c \notin Tree
      BY <1>3, <2>5, TreeFacts, Types
    <3>2. v[c] = 0
      BY <2>5 DEF SearchInv, FeasInv
    <3> QED
      BY <1>6, <2>2, <3>1, <3>2
  <2>6. ASSUME NEW c \in 1..m PROVE v'[c] <= 0
    <3>1. v[c] \in Int /\ v[c] <= 0 /\ v'[c] \in Int /\ v'[c] <= v[c]
      BY <2>2
    <3> QED
      BY <3>1
  <2> QED
    BY <1>1, <1>2, <1>9, <2>3, <2>4, <2>5, <2>6, Types DEF FeasInv
<1>17. StuckInv'
  BY <1>2 DEF StuckInv
<1> QED
  BY <1>10, <1>11, <1>12, <1>14, <1>15, <1>16, <1>17 DEF SearchInv
\* The invariant holds when the call starts.
LEMMA InitSearchInv == Init => SearchInv
<1> SUFFICES ASSUME Init PROVE SearchInv
  OBVIOUS
<1>1. n \in Nat /\ m \in Nat
  <2>1. ask.rows \in Nat /\ ask.cols \in Nat
    BY ProblemsAssumption DEF Init
  <2> QED BY <2>1 DEF n, m
<1>2. TypeInv
  BY <1>1 DEF Init, TypeInv
<1>3. ~Searching /\ pc = "rows" /\ Live = 1..m /\ Entered = {}
  BY <1>1 DEF Init, Searching, Live, Entered
<1>4. MatchInv /\ TreeInv /\ SlackInv /\ PathInv /\ StuckInv
  BY <1>1, <1>3 DEF Init, MatchInv, TreeInv, SlackInv, PathInv, StuckInv
<1>5. FeasInv
  BY <1>1, <1>3 DEF Init, FeasInv
<1> QED
  BY <1>2, <1>4, <1>5 DEF SearchInv

\* The next row enters at column 0, with the matching of the others complete.
LEMMA NextRowKeeps == ASSUME SearchInv, NextRow PROVE SearchInv'
<1>1. /\ n' = n /\ m' = m /\ \A r, c : At(r, c)' = At(r, c)
  BY SameProblem DEF NextRow
<1>2. /\ n \in Nat /\ m \in Nat /\ n <= m /\ TypeInv
  BY Sizes DEF SearchInv
<1>3. /\ pc = "rows" /\ i < n /\ i' = i + 1 /\ j0' = 0 /\ pc' = "scan" /\ used' = {}
      /\ p' = [p EXCEPT ![0] = i + 1] /\ minv' = [c \in 0..m |-> Inf]
      /\ u' = u /\ v' = v /\ way' = way /\ ask' = ask /\ j0 = 0 /\ i \in 0..n
  BY <1>2 DEF NextRow, SearchInv, MatchInv, TypeInv
<1>12. p \in [0..m -> 0..n]
  BY <1>2 DEF TypeInv
<1>4. /\ ~Searching /\ Searching' /\ Live = 1..m /\ Live' = 0..m
      /\ Tree' = {0} /\ Entered = 1..i /\ Entered' = 1..i
  BY <1>1, <1>2, <1>3 DEF Searching, Live, Tree, Entered
<1>5. p'[0] = i + 1 /\ \A c \in 1..m : p'[c] = p[c]
  BY <1>2, <1>3 DEF TypeInv
<1>6. TypeInv'
  <2>1. p' \in [0..m -> 0..n]
    BY <1>2, <1>3, <1>12
  <2>2. minv' \in [0..m -> Int \cup {Inf}] /\ i' \in 0..n /\ j0' \in 0..m
    BY <1>2, <1>3
  <2> QED
    BY <1>1, <1>2, <1>3, <2>1, <2>2 DEF TypeInv
<1>7. MatchInv'
  <2>1. ASSUME NEW c \in 1..m PROVE p[c] \in 0..i
    <3>1. p[c] \in 0..n
      BY <1>2, <1>12
    <3>2. p[c] <= i
      BY <1>4 DEF SearchInv, MatchInv
    <3> QED
      BY <1>2, <1>3, <3>1, <3>2
  <2>2. \A c, d \in 0..m : p'[c] = p'[d] /\ p'[c] # 0 => c = d
    BY <1>2, <1>3, <1>4, <1>5, <2>1 DEF SearchInv, MatchInv
  <2>3. \A c \in 0..m : p'[c] <= i + 1
    BY <1>2, <1>3, <1>5, <2>1
  <2>4. ASSUME NEW r \in 1 .. i + 1 PROVE \E c \in 0..m : p'[c] = r
    <3>1. CASE r = i + 1
      BY <1>2, <1>5, <3>1
    <3>2. CASE r \in 1..i
      BY <1>4, <1>5, <3>2 DEF SearchInv, MatchInv
    <3> QED
      BY <1>3, <3>1, <3>2
  <2> QED
    BY <1>3, <1>4, <1>5, <2>2, <2>3, <2>4 DEF MatchInv
<1>8. TreeInv' /\ SlackInv'
  BY <1>1, <1>3, <1>4, <1>5 DEF TreeInv, SlackInv
<1>9. PathInv'
  <2>1. PICK rank \in [0..m -> Nat] : rank = [c \in 0..m |-> 0]
    OBVIOUS
  <2>2. rank[0] = 0
    BY <1>2, <2>1
  <2>3. Ranks(rank)'
    BY <1>3, <1>4, <2>2 DEF Ranks
  <2> QED
    BY <1>1, <2>1, <2>3 DEF PathInv
<1>10. FeasInv'
  <2>1. \A r \in 1..i, c \in 1..m : At(r, c) # NaN => u[r] + v[c] <= At(r, c)
    BY <1>4 DEF SearchInv, FeasInv
  <2>2. \A c \in 1..m : p[c] # 0 => At(p[c], c) # NaN /\ u[p[c]] + v[c] = At(p[c], c)
    BY <1>4 DEF SearchInv, FeasInv
  <2>3. \A c \in 1..m : v[c] <= 0 /\ (p[c] = 0 => v[c] = 0)
    BY DEF SearchInv, FeasInv
  <2> QED
    BY <1>1, <1>2, <1>3, <1>4, <1>5, <2>1, <2>2, <2>3 DEF FeasInv
<1>11. StuckInv'
  BY <1>3 DEF StuckInv
<1> QED
  BY <1>6, <1>7, <1>8, <1>9, <1>10, <1>11 DEF SearchInv

\* One step back along the path: the hole in the matching moves to a column of
\* lower rank, and the edge that closes behind it is tight.
LEMMA AugmentKeeps == ASSUME SearchInv, Augment PROVE SearchInv'
<1>1. /\ n' = n /\ m' = m /\ \A r, c : At(r, c)' = At(r, c)
  BY SameProblem DEF Augment
<1> DEFINE w == way[j0]
<1>2. /\ pc = "augment" /\ p' = [p EXCEPT ![j0] = p[w]] /\ j0' = w
      /\ pc' = IF w = 0 THEN "rows" ELSE "augment"
      /\ ask' = ask /\ i' = i /\ u' = u /\ v' = v /\ way' = way /\ minv' = minv /\ used' = used
  BY DEF Augment
<1>3. /\ ~Searching /\ ~Searching' /\ Live = (0..m) \ {j0} /\ Live' = (0..m) \ {w}
      /\ Entered = 1..i /\ Entered' = 1..i /\ j0 # 0 /\ i # 0
      /\ \A c \in used : p[c] # 0
  BY <1>1, <1>2 DEF Searching, Live, Entered, SearchInv, MatchInv, TreeInv
<1>4. PICK rank \in [0..m -> Nat] : Ranks(rank)
  BY <1>2 DEF SearchInv, PathInv
<1>5. \A c \in Tree \ {0} : rank[c] <= rank[j0] => TightStep(c) /\ rank[way[c]] < rank[c]
  BY <1>4 DEF Ranks
<1>6. /\ w \in used /\ w \in 0..m /\ w # j0 /\ At(p[w], j0) # NaN /\ Reduced(p[w], j0) = 0
      /\ rank[w] < rank[j0] /\ rank[w] \in Nat /\ rank[j0] \in Nat /\ j0 \in 0..m
  <2>1. j0 \in Tree \ {0} /\ j0 \in 0..m
    BY <1>3, Types DEF Tree
  <2>2. rank[j0] \in Nat
    BY <2>1
  <2>3. TightStep(j0) /\ rank[w] < rank[j0]
    BY <1>5, <2>1, <2>2
  <2>4. w \in used /\ w \in 0..m
    BY <2>3, Types DEF TightStep
  <2>5. rank[w] \in Nat
    BY <2>4
  <2> QED
    BY <2>1, <2>2, <2>3, <2>4, <2>5 DEF TightStep
<1>7. p'[j0] = p[w] /\ p[w] # 0 /\ \A c \in 0..m : c # j0 => p'[c] = p[c]
  <2>1. p \in [0..m -> 0..n]
    BY Types
  <2> QED
    BY <1>2, <1>3, <1>6, <2>1
<1> HIDE DEF w
<1>8. TypeInv'
  <2>1. p' \in [0..m -> 0..n]
    <3>1. p \in [0..m -> 0..n]
      BY Types
    <3> QED
      BY <1>2, <1>6, <3>1
  <2> QED
    BY <1>1, <1>2, <1>6, <2>1 DEF SearchInv, TypeInv
<1>9. MatchInv'
  <2>1. /\ \A c, d \in Live : p[c] = p[d] /\ p[c] # 0 => c = d
        /\ \A c \in Live : p[c] <= i
        /\ \A r \in 1..i : \E c \in Live : p[c] = r
    BY DEF SearchInv, MatchInv
  <2>2. \A c, d \in Live' : p'[c] = p'[d] /\ p'[c] # 0 => c = d
    BY <1>3, <1>6, <1>7, <2>1
  <2>3. \A c \in Live' : p'[c] <= i
    BY <1>3, <1>6, <1>7, <2>1
  <2>4. \A r \in 1..i : \E c \in Live' : p'[c] = r
    BY <1>3, <1>6, <1>7, <2>1
  <2> QED
    BY <1>2, <1>3, <2>2, <2>3, <2>4 DEF MatchInv
<1>10. TreeInv'
  <2>1. \A c \in used : c \in 0..m
    BY Types
  <2> QED
    BY <1>2, <1>3, <1>7, <2>1 DEF TreeInv
<1>11. PathInv'
  <2> SUFFICES ASSUME pc' = "augment" PROVE Ranks(rank)'
    BY <1>1, <1>3, <1>4 DEF PathInv
  <2>1. Tree' = used
    BY <1>2, <1>6 DEF Tree
  <2>2. ASSUME NEW c \in used \ {0}, rank[c] <= rank[w]
        PROVE  TightStep(c)' /\ rank[way[c]] < rank[c]
    <3>1. c \in Tree \ {0} /\ c \in 0..m
      BY Types DEF Tree
    <3>2. rank[c] \in Nat
      BY <3>1
    <3>3. TightStep(c) /\ rank[way[c]] < rank[c] /\ c # j0
      BY <1>5, <1>6, <2>2, <3>1, <3>2
    <3>4. way[c] \in used /\ way[c] \in 0..m
      BY <3>3, Types DEF TightStep
    <3>5. rank[way[c]] \in Nat
      BY <3>4
    <3>6. p'[way[c]] = p[way[c]]
      BY <1>6, <1>7, <2>2, <3>2, <3>3, <3>4, <3>5
    <3> QED
      BY <1>1, <1>2, <3>3, <3>6 DEF TightStep, Reduced
  <2> QED
    BY <1>2, <1>3, <2>1, <2>2 DEF Ranks
<1>12. FeasInv'
  <2>1. /\ \A r \in 1..i, c \in 1..m : At(r, c) # NaN => u[r] + v[c] <= At(r, c)
        /\ \A c \in Live \ {0} : p[c] # 0 => At(p[c], c) # NaN /\ u[p[c]] + v[c] = At(p[c], c)
        /\ \A c \in 1..m : v[c] <= 0 /\ (p[c] = 0 => v[c] = 0)
    BY <1>3 DEF SearchInv, FeasInv
  <2>2. At(p[w], j0) # NaN /\ u[p[w]] + v[j0] = At(p[w], j0)
    <3>1. w \in 0..m /\ j0 \in 1..m /\ p[w] \in 0..n
      BY <1>3, <1>6, Types
    <3>2. p[w] \in 1..n
      BY <1>7, <3>1, Types
    <3>3. At(p[w], j0) \in Int /\ u[p[w]] \in Int /\ v[j0] \in Int
      BY <1>6, <3>1, <3>2, Types
    <3> QED
      BY <1>6, <3>3 DEF Reduced
  <2>3. ASSUME NEW c \in Live' \ {0}, p'[c] # 0
        PROVE  At(p'[c], c) # NaN /\ u[p'[c]] + v[c] = At(p'[c], c)
    <3>1. CASE c = j0
      BY <1>7, <2>2, <3>1
    <3>2. CASE c # j0
      BY <1>3, <1>7, <2>1, <2>3, <3>2
    <3> QED
      BY <3>1, <3>2
  <2>4. \A c \in 1..m : v[c] <= 0 /\ (p'[c] = 0 => v[c] = 0)
    BY <1>7, <2>1, Entries
  <2> QED
    BY <1>1, <1>2, <1>3, <2>1, <2>3, <2>4 DEF FeasInv
<1> QED
  <2>1. SlackInv' /\ StuckInv'
    BY <1>2, <1>3 DEF SlackInv, StuckInv
  <2> QED
    BY <1>8, <1>9, <1>10, <1>11, <1>12, <2>1 DEF SearchInv

\* Returning changes nothing of the search.
LEMMA ReturnKeeps == ASSUME SearchInv, Return PROVE SearchInv'
<1>1. /\ n' = n /\ m' = m /\ \A r, c : At(r, c)' = At(r, c)
  BY SameProblem DEF Return
<1>2. /\ pc = "rows" /\ pc' = "done" /\ i = n
      /\ ask' = ask /\ i' = i /\ j0' = j0 /\ u' = u /\ v' = v /\ p' = p /\ way' = way
      /\ minv' = minv /\ used' = used
  BY DEF Return, search
<1>3. ~Searching /\ ~Searching' /\ Live' = Live /\ Entered' = Entered
  BY <1>1, <1>2 DEF Searching, Live, Entered
<1>4. TypeInv' /\ MatchInv' /\ TreeInv'
  BY <1>1, <1>2, <1>3 DEF SearchInv, TypeInv, MatchInv, TreeInv
<1>5. SlackInv' /\ PathInv' /\ StuckInv'
  BY <1>2, <1>3 DEF SlackInv, PathInv, StuckInv
<1>6. FeasInv'
  BY <1>1, <1>2, <1>3 DEF SearchInv, FeasInv
<1> QED
  BY <1>4, <1>5, <1>6 DEF SearchInv

\* Nor does a step of the caller.
LEMMA StutterKeeps == ASSUME SearchInv, UNCHANGED vars PROVE SearchInv'
<1>1. /\ ask' = ask /\ pc' = pc /\ i' = i /\ j0' = j0 /\ u' = u /\ v' = v /\ p' = p
      /\ way' = way /\ minv' = minv /\ used' = used
  BY DEF vars
<1>2. /\ n' = n /\ m' = m /\ \A r, c : At(r, c)' = At(r, c)
  BY <1>1, SameProblem
<1>3. /\ Searching' = Searching /\ Live' = Live /\ Tree' = Tree /\ Free' = Free
      /\ Entered' = Entered
  BY <1>1, <1>2 DEF Searching, Live, Tree, Free, Entered
<1>4. TypeInv' /\ MatchInv' /\ TreeInv' /\ StuckInv'
  BY <1>1, <1>2, <1>3 DEF SearchInv, TypeInv, MatchInv, TreeInv, StuckInv
<1>5. SlackInv'
  BY <1>1, <1>2, <1>3 DEF SearchInv, SlackInv, Reduced
<1>6. PathInv'
  BY <1>1, <1>2, <1>3 DEF SearchInv, PathInv, Ranks, TightStep, Reduced
<1>7. FeasInv'
  BY <1>1, <1>2, <1>3 DEF SearchInv, FeasInv
<1> QED
  BY <1>4, <1>5, <1>6, <1>7 DEF SearchInv

\* The search keeps its invariant, over all rows and passes and for problems of
\* every size (HungarianRowsLeqCols).
THEOREM SearchCorrect == Spec => []SearchInv
<1>1. SearchInv /\ [Next]_vars => SearchInv'
  BY NextRowKeeps, ScanKeeps, ScanFailsKeeps, AugmentKeeps, ReturnKeeps, StutterKeeps DEF Next
<1> QED
  BY InitSearchInv, <1>1, PTL DEF Spec

\* The potentials are feasible for every row that has entered and tight on every
\* matched pair: none is left stale by an earlier row.
THEOREM Feasible == Spec => []PotentialsFeasible
<1>1. SearchInv => PotentialsFeasible
  <2> SUFFICES ASSUME SearchInv PROVE PotentialsFeasible
    OBVIOUS
  <2>1. ASSUME NEW c \in 1..m, c # j0, p[c] # 0
        PROVE  At(p[c], c) # NaN /\ u[p[c]] + v[c] = At(p[c], c)
    <3>1. c \in Live \ {0}
      BY <2>1, Entries DEF Live
    <3> QED
      BY <2>1, <3>1 DEF SearchInv, FeasInv
  <2> QED
    BY <2>1 DEF SearchInv, FeasInv, PotentialsFeasible
<1> QED
  BY SearchCorrect, <1>1, PTL

\* The pair row r and column c stand for in the order of the caller.
PairOf(r, c) == IF Transposed THEN <<c - 1, r - 1>> ELSE <<r - 1, c - 1>>

\* h gives each row a column of its own, and none that NaN forbids.
Allowed(h) == /\ h \in [1..n -> 1..m]
              /\ \A r, s \in 1..n : h[r] = h[s] => r = s
              /\ \A r \in 1..n : At(r, h[r]) # NaN

\* The pairs such a choice stands for.
Pairing(h) == {PairOf(r, h[r]) : r \in 1..n}

\* A full pairing in the order of the caller is a choice of columns, ...
LEMMA FullIsAllowed == ASSUME TypeInv, NEW a \in Promise!Full(ask)
  PROVE \E h : Allowed(h) /\ a = Pairing(h)
<1>1. n \in Nat /\ m \in Nat
  BY Sizes
<1>2. CASE ~Transposed
  <2>1. ask.rows = n /\ ask.cols = m /\ ask.rows <= ask.cols /\ ask.rows \in Nat /\ ask.cols \in Nat
    BY <1>2, ProblemsAssumption DEF Transposed, n, m, TypeInv
  <2>2. PICK f \in [0..n-1 -> 0..m-1] : a = {<<r, f[r]>> : r \in 0..n-1}
    BY <2>1 DEF Promise!Full, Promise!Rows, Promise!Cols
  <2>3. /\ \A x, y \in a : x # y => x[1] # y[1] /\ x[2] # y[2]
        /\ \A x \in a : ask.cost[x] # NaN
    BY <2>1 DEF Promise!Full, Promise!OneToOne
  <2>4. PICK h : h = [r \in 1..n |-> f[r - 1] + 1]
    OBVIOUS
  <2>5. \A r \in 1..n : r - 1 \in 0..n-1 /\ f[r - 1] \in 0..m-1 /\ <<r - 1, f[r - 1]>> \in a
    BY <1>1, <2>2
  <2>6. h \in [1..n -> 1..m]
    BY <1>1, <2>4, <2>5
  <2>7. \A r \in 1..n : PairOf(r, h[r]) = <<r - 1, f[r - 1]>> /\ h[r] - 1 = f[r - 1]
    BY <1>1, <1>2, <2>4, <2>5 DEF PairOf
  <2>8. \A r \in 1..n : At(r, h[r]) # NaN
    BY <1>2, <2>3, <2>5, <2>7 DEF At
  <2>9. ASSUME NEW r \in 1..n, NEW s \in 1..n, h[r] = h[s] PROVE r = s
    <3>1. <<r - 1, f[r - 1]>> = <<s - 1, f[s - 1]>>
      BY <2>3, <2>5, <2>7, <2>9
    <3> QED
      BY <3>1
  <2>10. a = Pairing(h)
    <3>1. ASSUME NEW x \in 0..n-1 PROVE <<x, f[x]>> \in Pairing(h)
      <4>1. x + 1 \in 1..n /\ (x + 1) - 1 = x
        BY <1>1
      <4> QED
        BY <2>7, <4>1 DEF Pairing
    <3>2. ASSUME NEW r \in 1..n PROVE PairOf(r, h[r]) \in a
      BY <2>5, <2>7
    <3> QED
      BY <2>2, <3>1, <3>2 DEF Pairing
  <2> QED
    BY <2>6, <2>8, <2>9, <2>10 DEF Allowed
<1>3. CASE Transposed
  <2>1. ask.cols = n /\ ask.rows = m /\ ~(ask.rows <= ask.cols) /\ ask.rows \in Nat /\ ask.cols \in Nat
    BY <1>3, ProblemsAssumption DEF Transposed, n, m, TypeInv
  <2>2. PICK f \in [0..n-1 -> 0..m-1] : a = {<<f[r], r>> : r \in 0..n-1}
    BY <2>1 DEF Promise!Full, Promise!Rows, Promise!Cols
  <2>3. /\ \A x, y \in a : x # y => x[1] # y[1] /\ x[2] # y[2]
        /\ \A x \in a : ask.cost[x] # NaN
    BY <2>1 DEF Promise!Full, Promise!OneToOne
  <2>4. PICK h : h = [r \in 1..n |-> f[r - 1] + 1]
    OBVIOUS
  <2>5. \A r \in 1..n : r - 1 \in 0..n-1 /\ f[r - 1] \in 0..m-1 /\ <<f[r - 1], r - 1>> \in a
    BY <1>1, <2>2
  <2>6. h \in [1..n -> 1..m]
    BY <1>1, <2>4, <2>5
  <2>7. \A r \in 1..n : PairOf(r, h[r]) = <<f[r - 1], r - 1>> /\ h[r] - 1 = f[r - 1]
    BY <1>1, <1>3, <2>4, <2>5 DEF PairOf
  <2>8. \A r \in 1..n : At(r, h[r]) # NaN
    BY <1>3, <2>3, <2>5, <2>7 DEF At
  <2>9. ASSUME NEW r \in 1..n, NEW s \in 1..n, h[r] = h[s] PROVE r = s
    <3>1. <<f[r - 1], r - 1>> = <<f[s - 1], s - 1>>
      BY <2>3, <2>5, <2>7, <2>9
    <3> QED
      BY <3>1
  <2>10. a = Pairing(h)
    <3>1. ASSUME NEW x \in 0..n-1 PROVE <<f[x], x>> \in Pairing(h)
      <4>1. x + 1 \in 1..n /\ (x + 1) - 1 = x
        BY <1>1
      <4> QED
        BY <2>7, <4>1 DEF Pairing
    <3>2. ASSUME NEW r \in 1..n PROVE PairOf(r, h[r]) \in a
      BY <2>5, <2>7
    <3> QED
      BY <2>2, <3>1, <3>2 DEF Pairing
  <2> QED
    BY <2>6, <2>8, <2>9, <2>10 DEF Allowed
<1> QED
  BY <1>2, <1>3

\* ... and a choice of columns is a full pairing.
LEMMA AllowedIsFull == ASSUME TypeInv, NEW h, Allowed(h)
  PROVE Pairing(h) \in Promise!Full(ask)
<1>1. n \in Nat /\ m \in Nat
  BY Sizes
<1>2. h \in [1..n -> 1..m] /\ \A r \in 1..n : At(r, h[r]) # NaN
  BY DEF Allowed
<1>3. \A r \in 1..n : h[r] \in 1..m /\ h[r] - 1 \in 0..m-1 /\ r - 1 \in 0..n-1
  BY <1>1, <1>2
<1>4. PICK f \in [0..n-1 -> 0..m-1] : f = [x \in 0..n-1 |-> h[x + 1] - 1]
  <2>1. \A x \in 0..n-1 : x + 1 \in 1..n
    BY <1>1
  <2> QED
    BY <1>3, <2>1
<1>5. \A x \in 0..n-1 : x + 1 \in 1..n /\ (x + 1) - 1 = x
  BY <1>1
<1>6. \A r \in 1..n : f[r - 1] = h[r] - 1
  <2>1. \A r \in 1..n : (r - 1) + 1 = r
    BY <1>1
  <2> QED
    BY <1>3, <1>4, <2>1
<1>7. ASSUME NEW x \in Pairing(h), NEW y \in Pairing(h), x # y
      PROVE  x[1] # y[1] /\ x[2] # y[2]
  <2>1. PICK r \in 1..n : x = PairOf(r, h[r])
    BY DEF Pairing
  <2>2. PICK s \in 1..n : y = PairOf(s, h[s])
    BY DEF Pairing
  <2>3. r # s /\ h[r] # h[s]
    BY <1>7, <2>1, <2>2 DEF Allowed
  <2>4. h[r] - 1 # h[s] - 1 /\ r - 1 # s - 1
    BY <1>1, <1>3, <2>3
  <2> QED
    BY <2>1, <2>2, <2>4 DEF PairOf
<1>8. ASSUME NEW x \in Pairing(h) PROVE ask.cost[x] # NaN
  <2>1. PICK r \in 1..n : x = PairOf(r, h[r])
    BY DEF Pairing
  <2> QED
    BY <1>2, <2>1 DEF At, PairOf
<1>9. CASE ~Transposed
  <2>1. ask.rows = n /\ ask.cols = m /\ ask.rows <= ask.cols
    BY <1>9, ProblemsAssumption DEF Transposed, n, m, TypeInv
  <2>2. Pairing(h) = {<<x, f[x]>> : x \in 0..n-1}
    <3>1. \A r \in 1..n : PairOf(r, h[r]) = <<r - 1, f[r - 1]>>
      BY <1>6, <1>9 DEF PairOf
    <3>2. ASSUME NEW x \in 0..n-1 PROVE <<x, f[x]>> \in Pairing(h)
      BY <1>5, <3>1 DEF Pairing
    <3>3. ASSUME NEW r \in 1..n PROVE PairOf(r, h[r]) \in {<<x, f[x]>> : x \in 0..n-1}
      BY <1>3, <3>1
    <3> QED
      BY <3>2, <3>3 DEF Pairing
  <2>3. Promise!OneToOne(Pairing(h))
    BY <1>7 DEF Promise!OneToOne
  <2> QED
    BY <1>8, <2>1, <2>2, <2>3 DEF Promise!Full, Promise!Rows, Promise!Cols
<1>10. CASE Transposed
  <2>1. ask.cols = n /\ ask.rows = m /\ ~(ask.rows <= ask.cols)
    BY <1>10, ProblemsAssumption DEF Transposed, n, m, TypeInv
  <2>2. Pairing(h) = {<<f[x], x>> : x \in 0..n-1}
    <3>1. \A r \in 1..n : PairOf(r, h[r]) = <<f[r - 1], r - 1>>
      BY <1>6, <1>10 DEF PairOf
    <3>2. ASSUME NEW x \in 0..n-1 PROVE <<f[x], x>> \in Pairing(h)
      BY <1>5, <3>1 DEF Pairing
    <3>3. ASSUME NEW r \in 1..n PROVE PairOf(r, h[r]) \in {<<f[x], x>> : x \in 0..n-1}
      BY <1>3, <3>1
    <3> QED
      BY <3>2, <3>3 DEF Pairing
  <2>3. Promise!OneToOne(Pairing(h))
    BY <1>7 DEF Promise!OneToOne
  <2> QED
    BY <1>8, <2>1, <2>2, <2>3 DEF Promise!Full, Promise!Rows, Promise!Cols
<1> QED
  BY <1>9, <1>10

\* The search reads p[-1] only on a problem that has no full pairing without a
\* NaN: the rows of the tree would all need columns of the tree other than the
\* root, and there is one fewer of these.
THEOREM OnlyWithoutPairing == Spec => []UndefinedOnlyWithoutPairing
<1>1. SearchInv => UndefinedOnlyWithoutPairing
  <2> SUFFICES ASSUME SearchInv, pc = "undefined", NEW a \in Promise!Full(ask) PROVE FALSE
    BY DEF UndefinedOnlyWithoutPairing
  <2>1. PICK h : Allowed(h)
    BY FullIsAllowed DEF SearchInv
  <2>2. h \in [1..n -> 1..m] /\ \A r, s \in 1..n : h[r] = h[s] => r = s
    BY <2>1 DEF Allowed
  <2>3. \A d \in Tree : p[d] \in 1..i /\ p[d] \in 1..n /\ d \in 0..m
    BY TreeFacts, Entries
  <2>4. ASSUME NEW d \in Tree PROVE h[p[d]] \in Tree \ {0}
    <3>1. At(p[d], h[p[d]]) # NaN /\ h[p[d]] \in 1..m
      BY <2>1, <2>2, <2>3 DEF Allowed
    <3>2. h[p[d]] \notin Free
      BY <2>4, <3>1 DEF SearchInv, StuckInv
    <3> QED
      BY <3>1, <3>2, Entries DEF Free
  <2>5. PICK T : T = Tree
    OBVIOUS
  <2>6. PICK g \in [T -> T \ {0}] : \A d \in T : g[d] = h[p[d]]
    <3>1. [d \in T |-> h[p[d]]] \in [T -> T \ {0}]
      BY <2>4, <2>5
    <3> QED
      BY <3>1
  <2>7. IsFiniteSet(T) /\ 0 \in T
    <3>1. IsFiniteSet(0..m) /\ T \in SUBSET (0..m)
      BY <2>3, <2>5, Types, FS_Interval
    <3> QED
      BY <2>5, <3>1, FS_Subset, TreeFacts
  <2>8. IsFiniteSet(T \ {0}) /\ Cardinality(T \ {0}) < Cardinality(T)
    <3>1. Cardinality(T) \in Nat /\ Cardinality(T \ {0}) = Cardinality(T) - 1 /\ IsFiniteSet(T \ {0})
      BY <2>7, FS_CardinalityType, FS_RemoveElement
    <3> QED
      BY <3>1
  <2>9. PICK d \in T, e \in T : d # e /\ g[d] = g[e]
    BY <2>7, <2>8, FS_PigeonHole
  <2>10. p[d] = p[e]
    BY <2>2, <2>3, <2>5, <2>6, <2>9
  <2>11. p[d] # 0
    BY <2>3, <2>5, Entries
  <2> QED
    BY <2>3, <2>5, <2>9, <2>10, <2>11, TreeFacts
<1> QED
  BY SearchCorrect, <1>1, PTL

\* The potentials counted from 0, and their sum as the price of a pair.
Small == [x \in 0..n-1 |-> u[x + 1]]
Large == [x \in 0..m-1 |-> v[x + 1]]
Price == [x \in (0 .. ask.rows - 1) \X (0 .. ask.cols - 1) |->
            IF Transposed THEN Small[x[2]] + Large[x[1]] ELSE Small[x[1]] + Large[x[2]]]
\* The columns a choice takes, from 0.
Columns(h) == {h[r] - 1 : r \in 1..n}

\* What a pair costs and what its potentials say about it.
LEMMA PairFacts == ASSUME SearchInv, pc = "rows", i = n, NEW h, Allowed(h), NEW r \in 1..n
  PROVE /\ h[r] \in 1..m /\ r - 1 \in 0..n-1 /\ h[r] - 1 \in 0..m-1
        /\ Small[r - 1] = u[r] /\ Large[h[r] - 1] = v[h[r]]
        /\ u[r] \in Int /\ v[h[r]] \in Int
        /\ Price[PairOf(r, h[r])] = u[r] + v[h[r]]
        /\ ask.cost[PairOf(r, h[r])] = At(r, h[r]) /\ At(r, h[r]) \in Int
        /\ u[r] + v[h[r]] <= At(r, h[r])
<1>1. n \in Nat /\ m \in Nat
  BY Types
<1>2. h \in [1..n -> 1..m] /\ At(r, h[r]) # NaN
  BY DEF Allowed
<1>3. h[r] \in 1..m /\ r - 1 \in 0..n-1 /\ h[r] - 1 \in 0..m-1
      /\ (r - 1) + 1 = r /\ (h[r] - 1) + 1 = h[r]
  BY <1>1, <1>2
<1>4. Small[r - 1] = u[r] /\ Large[h[r] - 1] = v[h[r]]
  BY <1>3 DEF Small, Large
<1>5. u[r] \in Int /\ v[h[r]] \in Int /\ At(r, h[r]) \in Int
  BY <1>2, <1>3, Entries
<1>6. Price[PairOf(r, h[r])] = u[r] + v[h[r]]
  <2>1. IF Transposed THEN ask.cols = n /\ ask.rows = m ELSE ask.rows = n /\ ask.cols = m
    BY DEF n, m
  <2>2. CASE Transposed
    <3>1. PairOf(r, h[r]) = <<h[r] - 1, r - 1>>
      BY <2>2 DEF PairOf
    <3>2. <<h[r] - 1, r - 1>> \in (0 .. ask.rows - 1) \X (0 .. ask.cols - 1)
      BY <1>3, <2>1, <2>2
    <3>3. Price[<<h[r] - 1, r - 1>>] = Small[r - 1] + Large[h[r] - 1]
      BY <2>2, <3>2 DEF Price
    <3> QED
      BY <1>4, <3>1, <3>3
  <2>3. CASE ~Transposed
    <3>1. PairOf(r, h[r]) = <<r - 1, h[r] - 1>>
      BY <2>3 DEF PairOf
    <3>2. <<r - 1, h[r] - 1>> \in (0 .. ask.rows - 1) \X (0 .. ask.cols - 1)
      BY <1>3, <2>1, <2>3
    <3>3. Price[<<r - 1, h[r] - 1>>] = Small[r - 1] + Large[h[r] - 1]
      BY <2>3, <3>2 DEF Price
    <3> QED
      BY <1>4, <3>1, <3>3
  <2> QED
    BY <2>2, <2>3
<1>7. ask.cost[PairOf(r, h[r])] = At(r, h[r])
  BY DEF PairOf, At
<1>8. u[r] + v[h[r]] <= At(r, h[r])
  <2>1. r \in Entered
    BY DEF Entered
  <2> QED
    BY <1>2, <1>3, <2>1 DEF SearchInv, FeasInv
<1> QED
  BY <1>3, <1>4, <1>5, <1>6, <1>7, <1>8

\* The potentials bound the cost of a pairing from below, and their sum falls
\* apart into one over all rows and one over the columns taken.
LEMMA PairingPrice ==
  ASSUME SearchInv, pc = "rows", i = n, NEW h, Allowed(h),
         NEW w, w = Price, NEW a, a = Small, NEW b, b = Large
  PROVE  /\ IsFiniteSet(Pairing(h))
         /\ \A x \in Pairing(h) : w[x] \in Int /\ ask.cost[x] \in Int /\ w[x] <= ask.cost[x]
         /\ SumOver(w, Pairing(h)) = SumOver(a, 0..n-1) + SumOver(b, Columns(h))
         /\ SumOver(a, 0..n-1) \in Int /\ Columns(h) \subseteq 0..m-1
         /\ \A y \in 0..m-1 : b[y] \in Int /\ b[y] <= 0
<1>1. n \in Nat /\ m \in Nat
  BY Types
<1>2. \A r \in 1..n : /\ h[r] - 1 \in 0..m-1 /\ r - 1 \in 0..n-1
                      /\ a[r - 1] = u[r] /\ b[h[r] - 1] = v[h[r]]
                      /\ u[r] \in Int /\ v[h[r]] \in Int
                      /\ w[PairOf(r, h[r])] = u[r] + v[h[r]]
                      /\ ask.cost[PairOf(r, h[r])] \in Int
                      /\ u[r] + v[h[r]] <= ask.cost[PairOf(r, h[r])]
  BY PairFacts
<1>3. \A x \in 0..n-1 : x + 1 \in 1..n /\ (x + 1) - 1 = x
  BY <1>1
<1>4. IsFiniteSet(Pairing(h))
  <2>1. IsFiniteSet(1..n)
    BY <1>1, FS_Interval
  <2>2. PICK R : R = 1..n
    OBVIOUS
  <2>3. PICK S : S = Pairing(h)
    OBVIOUS
  <2>4. PICK f : f = [r \in R |-> PairOf(r, h[r])]
    OBVIOUS
  <2>5. f \in Surjection(R, S)
    BY <2>2, <2>3, <2>4 DEF Surjection, Pairing
  <2> QED
    BY <2>1, <2>2, <2>3, <2>5, FS_Surjection
<1>5. \A x \in Pairing(h) : w[x] \in Int /\ ask.cost[x] \in Int /\ w[x] <= ask.cost[x]
  BY <1>2 DEF Pairing
<1>6. Columns(h) \subseteq 0..m-1
  BY <1>2 DEF Columns
<1>7. \A y \in 0..m-1 : b[y] \in Int /\ b[y] <= 0
  <2> SUFFICES ASSUME NEW y \in 0..m-1 PROVE b[y] \in Int /\ b[y] <= 0
    OBVIOUS
  <2>1. y + 1 \in 1..m
    BY <1>1
  <2>2. b[y] = v[y + 1]
    BY DEF Large
  <2> QED
    BY <2>1, <2>2, Entries DEF SearchInv, FeasInv
<1>8. \A x \in 0..n-1 : a[x] \in Int
  <2> SUFFICES ASSUME NEW x \in 0..n-1 PROVE a[x] \in Int
    OBVIOUS
  <2>1. x + 1 \in 1..n
    BY <1>3
  <2> QED
    BY <2>1, Entries DEF Small
<1>9. SumOver(a, 0..n-1) \in Int
  <2>1. PICK R : R = 0..n-1
    OBVIOUS
  <2>2. IsFiniteSet(0..n-1)
    BY <1>1, FS_Interval
  <2>3. IsFiniteSet(R) /\ \A x \in R : a[x] \in Int
    BY <1>8, <2>1, <2>2
  <2>4. SumOver(a, R) \in Int
    BY <2>3, SumInt
  <2> QED
    BY <2>1, <2>4
<1>10. PICK S : S = Pairing(h)
  OBVIOUS
<1>11. \A x, y \in S : x # y => x[1] # y[1] /\ x[2] # y[2]
  <2>1. S \in Promise!Full(ask)
    BY <1>10, AllowedIsFull DEF SearchInv
  <2> QED
    BY <2>1 DEF Promise!Full, Promise!OneToOne
<1>12. \A y \in S : \E r \in 1..n : y = PairOf(r, h[r])
  BY <1>10 DEF Pairing
<1>13. CASE ~Transposed
  <2>1. \A r \in 1..n : PairOf(r, h[r]) = <<r - 1, h[r] - 1>>
    BY <1>13 DEF PairOf
  <2>2. \A x \in S : a[x[1]] \in Int /\ b[x[2]] \in Int /\ w[x] = a[x[1]] + b[x[2]]
    BY <1>2, <1>12, <2>1
  <2>3. {x[1] : x \in S} = 0..n-1
    <3>1. ASSUME NEW x \in 0..n-1 PROVE \E y \in S : y[1] = x
      <4>1. PairOf(x + 1, h[x + 1]) \in S /\ PairOf(x + 1, h[x + 1])[1] = x
        BY <1>3, <1>10, <2>1 DEF Pairing
      <4> QED
        BY <4>1
    <3>2. ASSUME NEW y \in S PROVE y[1] \in 0..n-1
      BY <1>2, <1>12, <2>1
    <3> QED
      BY <3>1, <3>2
  <2>4. {x[2] : x \in S} = Columns(h)
    <3>1. ASSUME NEW r \in 1..n PROVE \E y \in S : y[2] = h[r] - 1
      <4>1. PairOf(r, h[r]) \in S /\ PairOf(r, h[r])[2] = h[r] - 1
        BY <1>10, <2>1 DEF Pairing
      <4> QED
        BY <4>1
    <3>2. ASSUME NEW y \in S PROVE y[2] \in Columns(h)
      BY <1>12, <2>1 DEF Columns
    <3> QED
      BY <3>1, <3>2 DEF Columns
  <2>5. SumOver(w, S) = SumOver(a, {x[1] : x \in S}) + SumOver(b, {x[2] : x \in S})
    BY <1>4, <1>10, <1>11, <2>2, SumSplit
  <2> QED
    BY <1>4, <1>5, <1>6, <1>7, <1>9, <1>10, <2>3, <2>4, <2>5
<1>14. CASE Transposed
  <2>1. \A r \in 1..n : PairOf(r, h[r]) = <<h[r] - 1, r - 1>>
    BY <1>14 DEF PairOf
  <2>2. \A x \in S : b[x[1]] \in Int /\ a[x[2]] \in Int /\ w[x] = b[x[1]] + a[x[2]]
    BY <1>2, <1>12, <2>1
  <2>3. {x[2] : x \in S} = 0..n-1
    <3>1. ASSUME NEW x \in 0..n-1 PROVE \E y \in S : y[2] = x
      <4>1. PairOf(x + 1, h[x + 1]) \in S /\ PairOf(x + 1, h[x + 1])[2] = x
        BY <1>3, <1>10, <2>1 DEF Pairing
      <4> QED
        BY <4>1
    <3>2. ASSUME NEW y \in S PROVE y[2] \in 0..n-1
      BY <1>2, <1>12, <2>1
    <3> QED
      BY <3>1, <3>2
  <2>4. {x[1] : x \in S} = Columns(h)
    <3>1. ASSUME NEW r \in 1..n PROVE \E y \in S : y[1] = h[r] - 1
      <4>1. PairOf(r, h[r]) \in S /\ PairOf(r, h[r])[1] = h[r] - 1
        BY <1>10, <2>1 DEF Pairing
      <4> QED
        BY <4>1
    <3>2. ASSUME NEW y \in S PROVE y[1] \in Columns(h)
      BY <1>12, <2>1 DEF Columns
    <3> QED
      BY <3>1, <3>2 DEF Columns
  <2>5. SumOver(w, S) = SumOver(b, {x[1] : x \in S}) + SumOver(a, {x[2] : x \in S})
    BY <1>4, <1>10, <1>11, <2>2, SumSplit
  <2>6. SumOver(b, Columns(h)) \in Int
    <3>1. PICK C : C = Columns(h)
      OBVIOUS
    <3>2. PICK Y : Y = 0..m-1
      OBVIOUS
    <3>3. IsFiniteSet(0..m-1)
      BY <1>1, FS_Interval
    <3>4. IsFiniteSet(C) /\ \A y \in C : b[y] \in Int
      BY <1>6, <1>7, <3>1, <3>2, <3>3, FS_Subset
    <3>5. SumOver(b, C) \in Int
      BY <3>4, SumInt
    <3> QED
      BY <3>1, <3>5
  <2>7. SumOver(w, S) = SumOver(b, Columns(h)) + SumOver(a, 0..n-1)
    BY <2>3, <2>4, <2>5
  <2>8. SumOver(w, S) = SumOver(a, 0..n-1) + SumOver(b, Columns(h))
    BY <1>9, <2>6, <2>7
  <2> QED
    BY <1>4, <1>5, <1>6, <1>7, <1>9, <1>10, <2>8
<1> QED
  BY <1>13, <1>14

\* The matching of the last pass has least cost: it costs what its potentials
\* sum up to, and another pairing pays the same for the rows and at least as
\* much for its columns, whose potentials are negative or zero.
LEMMA ReturnsOptimum ==
  ASSUME SearchInv, pc = "rows", i = n
  PROVE  {Pair(c) : c \in Matched} \in Promise!Optimal(ask)
<1>1. n \in Nat /\ m \in Nat
  BY Types
<1>2. /\ j0 = 0 /\ Live = 1..m
      /\ \A c, d \in 1..m : p[c] = p[d] /\ p[c] # 0 => c = d
      /\ \A r \in 1..n : \E c \in 1..m : p[c] = r
      /\ \A c \in 1..m : p[c] \in 0..n
  <2>1. j0 = 0 /\ ~Searching
    BY DEF SearchInv, MatchInv, Searching
  <2>2. Live = 1..m
    BY <1>1, <2>1 DEF Live
  <2> QED
    BY <2>1, <2>2, Entries DEF SearchInv, MatchInv
<1>3. PICK h \in [1..n -> 1..m] : \A r \in 1..n : p[h[r]] = r
  <2>1. PICK g : g = [r \in 1..n |-> CHOOSE c \in 1..m : p[c] = r]
    OBVIOUS
  <2>2. \A r \in 1..n : g[r] \in 1..m /\ p[g[r]] = r
    BY <1>2, <2>1
  <2>3. g \in [1..n -> 1..m]
    BY <2>1, <2>2
  <2> QED
    BY <2>2, <2>3
<1>4. \A c \in 1..m : p[c] # 0 => p[c] \in 1..n /\ c = h[p[c]]
  <2> SUFFICES ASSUME NEW c \in 1..m, p[c] # 0 PROVE p[c] \in 1..n /\ c = h[p[c]]
    OBVIOUS
  <2>1. p[c] \in 1..n
    BY <1>1, <1>2
  <2> QED
    BY <1>2, <1>3, <2>1
<1>5. Allowed(h)
  <2>1. \A r \in 1..n : At(r, h[r]) # NaN
    <3> SUFFICES ASSUME NEW r \in 1..n PROVE At(r, h[r]) # NaN
      OBVIOUS
    <3>1. h[r] \in Live \ {0} /\ p[h[r]] = r /\ r # 0
      BY <1>1, <1>2, <1>3
    <3> QED
      BY <3>1 DEF SearchInv, FeasInv
  <2> QED
    BY <1>3, <2>1 DEF Allowed
<1>6. {Pair(c) : c \in Matched} = Pairing(h)
  <2>1. ASSUME NEW c \in Matched PROVE Pair(c) \in Pairing(h)
    <3>1. c \in 1..m /\ p[c] \in 1..n /\ c = h[p[c]]
      BY <1>1, <1>4 DEF Matched
    <3>2. Pair(c) = PairOf(p[c], h[p[c]])
      BY <3>1 DEF Pair, PairOf
    <3> QED
      BY <3>1, <3>2 DEF Pairing
  <2>2. ASSUME NEW r \in 1..n PROVE \E c \in Matched : PairOf(r, h[r]) = Pair(c)
    <3>1. h[r] \in Matched /\ p[h[r]] = r
      BY <1>3 DEF Matched
    <3> QED
      BY <3>1 DEF Pair, PairOf
  <2> QED
    BY <2>1, <2>2 DEF Pairing
<1>7. Pairing(h) \in Promise!Full(ask)
  BY <1>5, AllowedIsFull DEF SearchInv
<1>8. ASSUME NEW z \in Promise!Full(ask)
      PROVE  Promise!Total(ask, Pairing(h)) <= Promise!Total(ask, z)
  <2>1. PICK k : Allowed(k) /\ z = Pairing(k)
    BY FullIsAllowed DEF SearchInv
  <2>2. PICK w, a, b, cost, S, T, C, D, Y :
          /\ w = Price /\ a = Small /\ b = Large /\ cost = ask.cost
          /\ S = Pairing(h) /\ T = Pairing(k) /\ C = Columns(h) /\ D = Columns(k) /\ Y = 0..m-1
    OBVIOUS
  <2>3. /\ IsFiniteSet(S) /\ \A x \in S : w[x] \in Int /\ cost[x] \in Int /\ w[x] <= cost[x]
        /\ SumOver(w, S) = SumOver(a, 0..n-1) + SumOver(b, C)
        /\ SumOver(a, 0..n-1) \in Int /\ C \subseteq Y
        /\ \A y \in Y : b[y] \in Int /\ b[y] <= 0
    BY <1>5, <2>2, PairingPrice
  <2>4. /\ IsFiniteSet(T) /\ \A x \in T : w[x] \in Int /\ cost[x] \in Int /\ w[x] <= cost[x]
        /\ SumOver(w, T) = SumOver(a, 0..n-1) + SumOver(b, D) /\ D \subseteq Y
    BY <2>1, <2>2, PairingPrice
  <2>5. IsFiniteSet(Y)
    BY <1>1, <2>2, FS_Interval
  <2>6. \A y \in Y \ C : b[y] = 0
    <3> SUFFICES ASSUME NEW y \in Y \ C PROVE b[y] = 0
      OBVIOUS
    <3>1. y + 1 \in 1..m /\ (y + 1) - 1 = y /\ b[y] = v[y + 1]
      BY <1>1, <2>2 DEF Large
    <3>2. p[y + 1] = 0
      <4>1. \A r \in 1..n : h[r] - 1 # y
        BY <2>2 DEF Columns
      <4> QED
        BY <1>4, <3>1, <4>1
    <3> QED
      BY <3>1, <3>2 DEF SearchInv, FeasInv
  <2>7. SumOver(b, C) = SumOver(b, Y) /\ SumOver(b, Y) <= SumOver(b, D)
    BY <2>3, <2>4, <2>5, <2>6, SumSub
  <2>8. \A x \in S : cost[x] <= w[x]
    <3> SUFFICES ASSUME NEW x \in S PROVE cost[x] <= w[x]
      OBVIOUS
    <3>1. PICK r \in 1..n : x = PairOf(r, h[r])
      BY <2>2 DEF Pairing
    <3>2. /\ w[x] = u[r] + v[h[r]] /\ cost[x] = At(r, h[r])
          /\ u[r] \in Int /\ v[h[r]] \in Int /\ h[r] \in 1..m
      BY <1>5, <2>2, <3>1, PairFacts
    <3>3. h[r] \in Live \ {0} /\ p[h[r]] = r /\ r # 0
      BY <1>1, <1>2, <1>3, <3>2
    <3>4. u[r] + v[h[r]] = At(r, h[r])
      BY <3>3 DEF SearchInv, FeasInv
    <3> QED
      BY <3>2, <3>4
  <2>9. SumOver(cost, S) <= SumOver(w, S) /\ SumOver(w, T) <= SumOver(cost, T)
    BY <2>3, <2>4, <2>8, SumLe
  <2>10. /\ SumOver(cost, S) \in Int /\ SumOver(cost, T) \in Int
         /\ SumOver(w, S) \in Int /\ SumOver(w, T) \in Int
    BY <2>3, <2>4, SumInt
  <2>11. SumOver(b, C) \in Int /\ SumOver(b, D) \in Int /\ SumOver(b, Y) \in Int
    <3>1. IsFiniteSet(C) /\ IsFiniteSet(D)
      BY <2>3, <2>4, <2>5, FS_Subset
    <3>2. (\A y \in C : b[y] \in Int) /\ (\A y \in D : b[y] \in Int)
      BY <2>3, <2>4
    <3> QED
      BY <2>3, <2>5, <3>1, <3>2, SumInt
  <2>12. SumOver(cost, S) <= SumOver(cost, T)
    BY <2>3, <2>4, <2>7, <2>9, <2>10, <2>11
  <2>13. /\ Promise!Total(ask, Pairing(h)) = SumOver(cost, S)
         /\ Promise!Total(ask, z) = SumOver(cost, T)
    BY <2>1, <2>2 DEF Promise!Total, Promise!MapThenSumSet, Promise!MapThenFoldSet,
                      SumOver, MapThenSumSet, MapThenFoldSet
  <2> QED
    BY <2>12, <2>13
<1> QED
  BY <1>6, <1>7, <1>8 DEF Promise!Optimal

\* Nothing is returned before the loop ends.
NotAnswered == pc # "done" => result = NoAnswer

\* The code implements its promise: every index of the smaller side is paired
\* once, at least total cost, and nothing is returned before.
THEOREM ReturnsLeastPairing == Spec => ImplementsOptimalAssignment
<1>1. Init => NotAnswered /\ Promise!Init
  BY DEF Init, NotAnswered, Promise!Init
<1>2. SearchInv /\ NotAnswered /\ [Next]_vars => NotAnswered' /\ [Promise!Next]_Promise!vars
  <2> SUFFICES ASSUME SearchInv, NotAnswered, [Next]_vars
               PROVE  NotAnswered' /\ [Promise!Next]_Promise!vars
    OBVIOUS
  <2>1. CASE Return
    <3>1. pc = "rows" /\ i = n /\ pc' = "done" /\ result = NoAnswer /\ ask' = ask
          /\ result' = {Pair(c) : c \in Matched}
      BY <2>1 DEF Return, NotAnswered
    <3>2. result' \in Promise!Optimal(ask)
      BY <3>1, ReturnsOptimum
    <3> QED
      BY <3>1, <3>2 DEF NotAnswered, Promise!Next, Promise!Answer
  <2>2. CASE NextRow
    BY <2>2 DEF NextRow, NotAnswered, Promise!vars
  <2>3. CASE Scan
    BY <2>3 DEF Scan, NotAnswered, Promise!vars
  <2>4. CASE ScanFails
    BY <2>4 DEF ScanFails, NotAnswered, Promise!vars
  <2>5. CASE Augment
    BY <2>5 DEF Augment, NotAnswered, Promise!vars
  <2>6. CASE UNCHANGED vars
    BY <2>6 DEF vars, NotAnswered, Promise!vars
  <2> QED
    BY <2>1, <2>2, <2>3, <2>4, <2>5, <2>6 DEF Next
<1> QED
  BY SearchCorrect, <1>1, <1>2, PTL DEF Spec, ImplementsOptimalAssignment, Promise!Spec
=============================================================================
