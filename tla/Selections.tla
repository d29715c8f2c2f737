------------------------------ MODULE Selections ------------------------------
(***************************************************************************)
(* Loops that push the chosen elements of a sequence to a new one, and     *)
(* std::stable_sort: sequences by the rank of their places.                *)
(***************************************************************************)
EXTENDS Integers, Sequences, FiniteSets

\* The elements at the places I of s, in their order.
Nth(I, k) == CHOOSE j \in I : Cardinality({i \in I : i <= j}) = k
Among(s, I) == [k \in 1 .. Cardinality(I) |-> s[Nth(I, k)]]

\* The least key first, of equal keys the first one.
NthBy(key, I, k) ==
  CHOOSE j \in I : Cardinality({i \in I : key[i] < key[j] \/ (key[i] = key[j] /\ i <= j)}) = k
SortedBy(s, key) == [k \in DOMAIN s |-> s[NthBy(key, DOMAIN s, k)]]

\* The k-th of I in the order L, a set of pairs.
UpTo(L, I, j) == {i \in I : <<i, j>> \in L}
Ranked(L, I, k) == CHOOSE i \in I : Cardinality(UpTo(L, I, i)) = k
=============================================================================
