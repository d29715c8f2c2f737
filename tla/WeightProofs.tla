----------------------------- MODULE WeightProofs -----------------------------
(***************************************************************************)
(* Weights, from the module to a file and back.                            *)
(*                                                                         *)
(* For every set of networks, weight files and rules of the remapper and   *)
(* sessions of any length: no network works with a value that nobody       *)
(* trained and no report has named, and what is exported comes back. The   *)
(* invariants follow a tensor from the file through the remapper, the list *)
(* of keys and the module into the next file: SilentInv says which random  *)
(* values may be where, ReturnInv that the file of the network that is     *)
(* loading is a listing of it and what of it is still to come.             *)
(*                                                                         *)
(* For every state dictionary that SavePth writes: what LoadPth returns is *)
(* that dictionary. The invariant, RoundTrip, says at each token of the    *)
(* pickle what the machine has on its stack (Reading), that the file holds *)
(* no other bytes (Kept), and which tensors have been taken.               *)
(***************************************************************************)
EXTENDS CommandLine, PthFile, FiniteSetTheorems, SequenceTheorems, WellFoundedInduction, TLAPS

-----------------------------------------------------------------------------
(* Lists *)

\* Of some numbers, one is the least.
LEMMA FirstOfNat ==
  ASSUME NEW F \in SUBSET Nat, F # {}
  PROVE  \E n \in F : \A m \in F : n <= m
  <1>1. \E n \in F : \A m \in F : ~ (<<m, n>> \in OpToRel(<, Nat))
    BY NatLessThanWellFounded, WFMin
  <1>2. PICK n \in F : \A m \in F : ~ (<<m, n>> \in OpToRel(<, Nat))
    BY <1>1
  <1>3. \A m \in F : ~(m < n)
    BY <1>2 DEF OpToRel
  <1>4. n \in Nat /\ \A m \in F : m \in Nat
    OBVIOUS
  <1>5. \A m \in F : n <= m
    BY <1>3, <1>4
  <1> QED
    BY <1>5

\* What a list is.
LEMMA ListIs ==
  ASSUME NEW s, NEW n \in Nat, DOMAIN s = 1 .. n, s = [k \in 1 .. n |-> s[k]]
  PROVE  IsList(s) /\ Len(s) = n
  <1> DEFINE T == Range(s)
  <1>1. \A k \in 1 .. n : s[k] \in T
    BY DEF Range
  <1> HIDE DEF T
  <1>2. s \in [1 .. n -> T]
    BY <1>1
  <1>3. s \in Seq(T) /\ Len(s) = n
    BY <1>2
  <1> QED
    BY <1>3 DEF IsList, T

\* And what it has.
LEMMA ListHas ==
  ASSUME NEW s, IsList(s)
  PROVE  /\ Len(s) \in Nat /\ DOMAIN s = 1 .. Len(s)
         /\ s = [k \in 1 .. Len(s) |-> s[k]]
         /\ (s = <<>> <=> Len(s) = 0)
  <1>1. PICK T : T = Range(s)
    OBVIOUS
  <1>2. s \in Seq(T)
    BY <1>1 DEF IsList
  <1> QED
    BY <1>2

\* One more at the end.
LEMMA AppendList ==
  ASSUME NEW s, IsList(s), NEW e
  PROVE  /\ IsList(Append(s, e)) /\ Len(Append(s, e)) = Len(s) + 1
         /\ \A k \in 1 .. Len(s) : Append(s, e)[k] = s[k]
         /\ Append(s, e)[Len(s) + 1] = e
  <1>1. PICK T : T = Range(s) \cup {e}
    OBVIOUS
  <1>2. /\ Len(s) \in Nat /\ DOMAIN s = 1 .. Len(s) /\ s = [k \in 1 .. Len(s) |-> s[k]]
    BY ListHas
  <1>3. \A k \in 1 .. Len(s) : s[k] \in T
    BY <1>1, <1>2 DEF Range
  <1>4. s \in Seq(T) /\ e \in T
    BY <1>1, <1>2, <1>3
  <1>5. PICK a : a = Append(s, e)
    OBVIOUS
  <1>6. /\ a \in Seq(T) /\ Len(a) = Len(s) + 1
        /\ \A k \in 1 .. Len(s) : a[k] = s[k]
        /\ a[Len(s) + 1] = e
    BY <1>4, <1>5, AppendProperties
  <1>7. Len(a) \in Nat /\ DOMAIN a = 1 .. Len(a) /\ a = [k \in 1 .. Len(a) |-> a[k]]
    BY <1>6
  <1>8. IsList(a)
    BY <1>7, ListIs
  <1> QED
    BY <1>5, <1>6, <1>8

\* One less at the front.
LEMMA TailList ==
  ASSUME NEW s, IsList(s), s # <<>>
  PROVE  /\ IsList(Tail(s)) /\ Len(s) > 0 /\ Len(Tail(s)) = Len(s) - 1
         /\ \A k \in 1 .. Len(Tail(s)) : Tail(s)[k] = s[k + 1]
  <1>1. PICK T : T = Range(s)
    OBVIOUS
  <1>2. s \in Seq(T)
    BY <1>1 DEF IsList
  <1>3. PICK t : t = Tail(s)
    OBVIOUS
  <1>4. t \in Seq(T) /\ Len(t) = Len(s) - 1 /\ \A k \in 1 .. Len(t) : t[k] = s[k + 1]
    BY <1>2, <1>3, HeadTailProperties
  <1>5. Len(t) \in Nat /\ DOMAIN t = 1 .. Len(t) /\ t = [k \in 1 .. Len(t) |-> t[k]]
    BY <1>4
  <1>6. IsList(t)
    BY <1>5, ListIs
  <1>7. Len(s) > 0
    BY <1>4, <1>5, <1>2
  <1> QED
    BY <1>3, <1>4, <1>6, <1>7

-----------------------------------------------------------------------------
(* WeightRemapper::Apply *)

\* out holds what the loop over the entries has made after each of the first n.
IsApplied(out, n, rules, sd) ==
  out = [k \in 0 .. n |->
           IF k = 0 THEN <<>> ELSE Placed(out[k - 1], Map(rules, sd[k][1]), sd[k][2])]

\* The loop has a value.
LEMMA AppliedExists ==
  ASSUME NEW rules, NEW sd, NEW l \in Nat
  PROVE  \E out : IsApplied(out, l, rules, sd)
  <1> DEFINE F == {n \in Nat : ~ \E out : IsApplied(out, n, rules, sd)}
             Put(o, k) == Placed(o, Map(rules, sd[k][1]), sd[k][2])
  <1> SUFFICES ASSUME F # {} PROVE FALSE
    OBVIOUS
  <1>1. PICK n \in F : \A m \in F : n <= m
    <2> HIDE DEF F
    <2>1. F \in SUBSET Nat
      BY DEF F
    <2> QED
      BY <2>1, FirstOfNat
  <1>a. \A out, k : IsApplied(out, k, rules, sd) <=>
          out = [j \in 0 .. k |-> IF j = 0 THEN <<>> ELSE Put(out[j - 1], j)]
    BY DEF IsApplied
  <1> HIDE DEF Put
  <1>2. CASE n = 0
    <2>1. PICK f : f = [g \in 0 .. 0 |-> <<>>]
      OBVIOUS
    <2>2. f = [g \in 0 .. 0 |-> IF g = 0 THEN <<>> ELSE Put(f[g - 1], g)]
      BY <2>1
    <2> QED
      BY <1>2, <2>2, <1>a
  <1>3. CASE n # 0
    <2>1. n - 1 \in Nat /\ n - 1 \notin F
      BY <1>1, <1>3
    <2>2. PICK f : IsApplied(f, n - 1, rules, sd)
      BY <2>1
    <2>3. f = [j \in 0 .. n - 1 |-> IF j = 0 THEN <<>> ELSE Put(f[j - 1], j)]
      BY <1>a, <2>2
    <2>4. /\ f[0] = <<>>
          /\ \A g \in 1 .. n - 1 : f[g] = Put(f[g - 1], g)
      BY <2>1, <2>3
    <2>5. PICK h : h = [g \in 0 .. n |-> IF g = n THEN Put(f[n - 1], n) ELSE f[g]]
      OBVIOUS
    <2>6. \A g \in 0 .. n - 1 : h[g] = f[g]
      BY <2>1, <2>5
    <2>7. \A g \in 0 .. n : h[g] = IF g = 0 THEN <<>> ELSE Put(h[g - 1], g)
      <3> SUFFICES ASSUME NEW g \in 0 .. n
                   PROVE  h[g] = IF g = 0 THEN <<>> ELSE Put(h[g - 1], g)
        OBVIOUS
      <3>1. CASE g = 0
        BY <1>3, <2>4, <2>5, <3>1
      <3>2. CASE g # 0 /\ g = n
        <4>1. h[g - 1] = f[n - 1] /\ h[g] = Put(f[n - 1], n)
          BY <2>1, <2>5, <2>6, <3>2
        <4> QED
          BY <3>2, <4>1
      <3>3. CASE g # 0 /\ g # n
        <4>1. g \in 1 .. n - 1 /\ g \in 0 .. n - 1 /\ g - 1 \in 0 .. n - 1
          BY <3>3
        <4>2. h[g] = f[g] /\ h[g - 1] = f[g - 1]
          BY <2>6, <4>1
        <4> QED
          BY <2>4, <3>3, <4>1, <4>2
      <3> QED
        BY <3>1, <3>2, <3>3
    <2>8. h = [g \in 0 .. n |-> h[g]]
      BY <2>5
    <2>9. h = [g \in 0 .. n |-> IF g = 0 THEN <<>> ELSE Put(h[g - 1], g)]
      BY <2>7, <2>8
    <2> QED
      BY <2>9, <1>a
  <1> QED
    BY <1>2, <1>3

\* Apply, entry by entry.
LEMMA ApplyIs ==
  ASSUME NEW rules, NEW sd, IsList(sd)
  PROVE  \E out : /\ Apply(rules, sd) = out[Len(sd)]
                  /\ out[0] = <<>>
                  /\ \A k \in 1 .. Len(sd) :
                       out[k] = Placed(out[k - 1], Map(rules, sd[k][1]), sd[k][2])
  <1>1. PICK out : out = (CHOOSE o : IsApplied(o, Len(sd), rules, sd))
    OBVIOUS
  <1>2. Len(sd) \in Nat
    BY ListHas
  <1>3. IsApplied(out, Len(sd), rules, sd)
    BY <1>1, <1>2, AppliedExists
  <1>4. Apply(rules, sd) = out[Len(sd)]
    BY <1>1 DEF Apply, IsApplied
  <1>5. /\ out[0] = <<>>
        /\ \A k \in 1 .. Len(sd) :
             out[k] = Placed(out[k - 1], Map(rules, sd[k][1]), sd[k][2])
    BY <1>2, <1>3 DEF IsApplied
  <1> QED
    BY <1>4, <1>5

\* Putting a tensor under a name makes up no other tensor.
LEMMA PlacedTensors ==
  ASSUME NEW out, IsList(out), NEW name, NEW t
  PROVE  /\ IsList(Placed(out, name, t))
         /\ \A k \in 1 .. Len(Placed(out, name, t)) :
              \/ Placed(out, name, t)[k][2] = t
              \/ \E j \in 1 .. Len(out) : Placed(out, name, t)[k][2] = out[j][2]
  <1>1. Len(out) \in Nat /\ DOMAIN out = 1 .. Len(out)
    BY ListHas
  <1>2. CASE name = Dropped
    BY <1>2 DEF Placed
  <1>3. CASE name # Dropped /\ name \in Names(out)
    <2>1. PICK s : s = Placed(out, name, t)
      OBVIOUS
    <2>2. s = [k \in 1 .. Len(out) |-> IF out[k][1] = name THEN <<name, t>> ELSE out[k]]
      BY <1>1, <1>3, <2>1 DEF Placed, Set
    <2>3. DOMAIN s = 1 .. Len(out) /\ s = [k \in 1 .. Len(out) |-> s[k]]
      BY <2>2
    <2>4. IsList(s) /\ Len(s) = Len(out)
      BY <1>1, <2>3, ListIs
    <2>5. \A k \in 1 .. Len(out) : s[k][2] = t \/ s[k][2] = out[k][2]
      BY <2>2
    <2> QED
      BY <2>1, <2>4, <2>5
  <1>4. CASE name # Dropped /\ name \notin Names(out)
    <2>1. PICK s : s = Append(out, <<name, t>>)
      OBVIOUS
    <2>2. Placed(out, name, t) = s
      BY <1>4, <2>1 DEF Placed, Set
    <2>3. /\ IsList(s) /\ Len(s) = Len(out) + 1
          /\ \A k \in 1 .. Len(out) : s[k] = out[k]
          /\ s[Len(out) + 1] = <<name, t>>
      BY <2>1, AppendList
    <2>4. \A k \in 1 .. Len(s) : s[k][2] = t \/ \E j \in 1 .. Len(out) : s[k][2] = out[j][2]
      <3> SUFFICES ASSUME NEW k \in 1 .. Len(s)
                   PROVE  s[k][2] = t \/ \E j \in 1 .. Len(out) : s[k][2] = out[j][2]
        OBVIOUS
      <3>1. CASE k = Len(out) + 1
        BY <2>3, <3>1
      <3>2. CASE k # Len(out) + 1
        <4>1. k \in 1 .. Len(out)
          BY <1>1, <2>3, <3>2
        <4> QED
          BY <2>3, <4>1
      <3> QED
        BY <3>1, <3>2
    <2> QED
      BY <2>2, <2>3, <2>4
  <1> QED
    BY <1>2, <1>3, <1>4

\* The remapper makes a list, and every tensor on it is one of the file.
LEMMA ApplyTensors ==
  ASSUME NEW rules, NEW sd, IsList(sd)
  PROVE  /\ IsList(Apply(rules, sd))
         /\ \A k \in 1 .. Len(Apply(rules, sd)) :
              \E j \in 1 .. Len(sd) : Apply(rules, sd)[k][2] = sd[j][2]
  <1>1. PICK out : /\ Apply(rules, sd) = out[Len(sd)]
                   /\ out[0] = <<>>
                   /\ \A k \in 1 .. Len(sd) :
                        out[k] = Placed(out[k - 1], Map(rules, sd[k][1]), sd[k][2])
    BY ApplyIs
  <1> DEFINE Good(n) == /\ IsList(out[n])
                        /\ \A k \in 1 .. Len(out[n]) :
                             \E j \in 1 .. Len(sd) : out[n][k][2] = sd[j][2]
             F == {n \in Nat : n <= Len(sd) /\ ~Good(n)}
  <1>2. Len(sd) \in Nat
    BY ListHas
  <1>3. SUFFICES ASSUME F # {} PROVE FALSE
    BY <1>1, <1>2
  <1>4. PICK n \in F : \A m \in F : n <= m
    <2> HIDE DEF F
    <2>1. F \in SUBSET Nat
      BY DEF F
    <2> QED
      BY <2>1, <1>3, FirstOfNat
  <1>5. n # 0
    <2> SUFFICES ASSUME n = 0 PROVE FALSE
      OBVIOUS
    <2>1. PICK e : e = <<>>
      OBVIOUS
    <2>2. DOMAIN e = 1 .. 0 /\ e = [k \in 1 .. 0 |-> e[k]]
      BY <2>1
    <2>3. IsList(e) /\ Len(e) = 0
      BY <2>2, ListIs
    <2>4. Good(0)
      BY <1>1, <2>1, <2>3
    <2> QED
      BY <1>4, <2>4
  <1>6. n - 1 \in Nat /\ n - 1 \notin F /\ n \in 1 .. Len(sd) /\ n - 1 <= Len(sd)
    BY <1>2, <1>4, <1>5
  <1>7. Good(n - 1)
    <2> HIDE DEF Good
    <2> QED
      BY <1>6
  <1>8. PICK a, o, name, t : a = out[n] /\ o = out[n - 1] /\ name = Map(rules, sd[n][1]) /\ t = sd[n][2]
    OBVIOUS
  <1>9. a = Placed(o, name, t)
    BY <1>1, <1>6, <1>8
  <1>10. /\ IsList(a)
         /\ \A k \in 1 .. Len(a) : a[k][2] = t \/ \E j \in 1 .. Len(o) : a[k][2] = o[j][2]
    BY <1>7, <1>8, <1>9, PlacedTensors
  <1>11. \A k \in 1 .. Len(o) : \E j \in 1 .. Len(sd) : o[k][2] = sd[j][2]
    BY <1>7, <1>8
  <1>12. \A k \in 1 .. Len(a) : \E j \in 1 .. Len(sd) : a[k][2] = sd[j][2]
    BY <1>6, <1>8, <1>10, <1>11
  <1>13. Good(n)
    BY <1>8, <1>10, <1>12
  <1> QED
    BY <1>4, <1>13

\* A file whose names are distinct and which no rule touches is left as it is.
LEMMA ApplyNothing ==
  ASSUME NEW rules, NEW sd, IsList(sd),
         \A k \in 1 .. Len(sd) : /\ sd[k] = <<sd[k][1], sd[k][2]>>
                                 /\ sd[k][1] # Dropped /\ Map(rules, sd[k][1]) = sd[k][1],
         \A j, k \in 1 .. Len(sd) : sd[j][1] = sd[k][1] => j = k
  PROVE  Apply(rules, sd) = sd
  <1>1. PICK out : /\ Apply(rules, sd) = out[Len(sd)]
                   /\ out[0] = <<>>
                   /\ \A k \in 1 .. Len(sd) :
                        out[k] = Placed(out[k - 1], Map(rules, sd[k][1]), sd[k][2])
    BY ApplyIs
  <1> DEFINE Good(n) == /\ IsList(out[n]) /\ Len(out[n]) = n
                        /\ \A k \in 1 .. n : out[n][k] = sd[k]
             F == {n \in Nat : n <= Len(sd) /\ ~Good(n)}
  <1>2. Len(sd) \in Nat /\ sd = [k \in 1 .. Len(sd) |-> sd[k]]
    BY ListHas
  <1>3. SUFFICES ASSUME F # {} PROVE FALSE
    <2>1. Good(Len(sd))
      BY <1>2, <1>3
    <2>2. PICK a, l : a = out[Len(sd)] /\ l = Len(sd)
      OBVIOUS
    <2>3. IsList(a) /\ Len(a) = l /\ \A k \in 1 .. l : a[k] = sd[k]
      BY <2>1, <2>2
    <2>4. a = [k \in 1 .. l |-> a[k]]
      BY <2>3, ListHas
    <2>5. a = sd
      BY <1>2, <2>2, <2>3, <2>4
    <2> QED
      BY <1>1, <2>2, <2>5
  <1>4. PICK n \in F : \A m \in F : n <= m
    <2> HIDE DEF F
    <2>1. F \in SUBSET Nat
      BY DEF F
    <2> QED
      BY <2>1, <1>3, FirstOfNat
  <1>5. n # 0
    <2> SUFFICES ASSUME n = 0 PROVE FALSE
      OBVIOUS
    <2>1. PICK e : e = <<>>
      OBVIOUS
    <2>2. DOMAIN e = 1 .. 0 /\ e = [k \in 1 .. 0 |-> e[k]]
      BY <2>1
    <2>3. IsList(e) /\ Len(e) = 0
      BY <2>2, ListIs
    <2>4. Good(0)
      BY <1>1, <2>1, <2>3
    <2> QED
      BY <1>4, <2>4
  <1>6. n - 1 \in Nat /\ n - 1 \notin F /\ n \in 1 .. Len(sd) /\ n - 1 <= Len(sd)
    BY <1>2, <1>4, <1>5
  <1>7. Good(n - 1)
    <2> HIDE DEF Good
    <2> QED
      BY <1>6
  <1>8. PICK a, o, name, t : a = out[n] /\ o = out[n - 1] /\ name = sd[n][1] /\ t = sd[n][2]
    OBVIOUS
  <1>9. a = Placed(o, name, t) /\ name # Dropped /\ sd[n] = <<name, t>>
    BY <1>1, <1>6, <1>8
  <1>10. IsList(o) /\ Len(o) = n - 1 /\ DOMAIN o = 1 .. n - 1 /\ \A k \in 1 .. n - 1 : o[k] = sd[k]
    BY <1>7, <1>8, ListHas
  <1>11. name \notin Names(o)
    <2> SUFFICES ASSUME NEW k \in 1 .. n - 1, o[k][1] = name PROVE FALSE
      BY <1>10 DEF Names
    <2>1. k \in 1 .. Len(sd) /\ k # n /\ sd[k][1] = sd[n][1]
      BY <1>6, <1>8, <1>10
    <2> QED
      BY <1>6, <2>1
  <1>12. a = Append(o, <<name, t>>)
    BY <1>9, <1>11 DEF Placed, Set
  <1>13. /\ IsList(a) /\ Len(a) = n - 1 + 1
         /\ \A k \in 1 .. n - 1 : a[k] = o[k]
         /\ a[n - 1 + 1] = <<name, t>>
    BY <1>10, <1>12, AppendList
  <1>14. Good(n)
    <2>1. n - 1 + 1 = n
      BY <1>6
    <2>2. ASSUME NEW k \in 1 .. n PROVE a[k] = sd[k]
      <3>1. k = n \/ k \in 1 .. n - 1
        BY <1>6
      <3> QED
        BY <1>9, <1>10, <1>13, <2>1, <3>1
    <2> QED
      BY <1>8, <1>13, <2>1, <2>2
  <1> QED
    BY <1>4, <1>14
-----------------------------------------------------------------------------
(* The invariant *)

\* If a tensor was made up, the parameter it was made up for is one of names.
KnownTo(t, names) == Random(t) => <<t.data[2], t.data[3]>> \in names

\* What runs, and on what.
CommandInv ==
  /\ step \in {"prompt", "main", "build", "weights", "keys", "work"}
  /\ step # "prompt" => cmd \in Commands
  /\ step \in {"weights", "keys", "work"} => Buildable(cmd)
  /\ step \in {"weights", "keys"} => Verb # "train"
  /\ step \notin {"keys", "work"} => report = NoReport
  /\ step = "keys" => IsList(todo)
  /\ report = [loaded |-> report.loaded, missing |-> report.missing,
               unexpected |-> report.unexpected, mismatched |-> report.mismatched]

\* net has the parameters of the network c and their shapes.
IsNetwork(net, c) ==
  /\ DOMAIN net = Names(Shapes(c)) /\ net = [p \in DOMAIN net |-> net[p]]
  /\ \A p \in DOMAIN net : net[p].shape = Find(Shapes(c), p)

\* Loading changes neither the parameters of a network nor their shapes.
NetworkInv ==
  /\ step \in {"weights", "keys", "work"} => IsNetwork(module, cmd)
  /\ step = "work" /\ Verb = "train" =>
       \A p \in DOMAIN module :
         module[p] = [shape |-> module[p].shape, data |-> module[p].data]

\* Random values reach a file only when a report has named them.
DiskTold ==
  \A f \in DOMAIN disk : disk[f].sd # Unreadable =>
    /\ IsList(disk[f].sd)
    /\ \A k \in 1 .. Len(disk[f].sd) : KnownTo(disk[f].sd[k][2], told)

\* While a file is read, what is still random and not yet known was made up by
\* this process, and is not among what it has loaded.
ModuleTold ==
  /\ step \in {"weights", "keys"} =>
       \A p \in DOMAIN module :
         \/ KnownTo(module[p], told)
         \/ p \notin report.loaded /\ module[p].data = <<"init", cmd.model, p>>
  /\ step = "keys" => \A k \in 1 .. Len(todo) : KnownTo(todo[k][2], told)

SilentInv == CommandInv /\ NetworkInv /\ DiskTold /\ ModuleTold /\ NoSilentInit

\* A file that an export of the command c could have written.
IsExport(f, c) ==
  /\ Buildable(c) /\ f.of.model = c.model /\ f.of.config = c.config
  /\ IsNetwork(f.of.module, c)
  /\ f.sd = Listed(Shapes(c), f.of.module)

DiskExported ==
  \A f \in DOMAIN disk :
    disk[f].sd # Unreadable /\ disk[f].of # << >> => \E c \in Commands : IsExport(disk[f], c)

\* While the file of the same network is read: net is what was exported. Every
\* key that is left is a parameter with its value, every parameter is loaded or
\* still to come.
IsComingBack(net) ==
  /\ IsNetwork(net, cmd)
  /\ \A k \in 1 .. Len(todo) : todo[k][1] \in DOMAIN net /\ todo[k][2] = net[todo[k][1]]
  /\ \A p \in DOMAIN net : \/ p \in report.loaded /\ module[p] = net[p]
                           \/ \E k \in 1 .. Len(todo) : todo[k][1] = p
  /\ report.unexpected = {} /\ report.mismatched = {}

ComingBack == step = "keys" /\ SameNetwork => IsComingBack(disk[cmd.weights].of.module)

-----------------------------------------------------------------------------
(* One key *)

\* The report rep with the key e on the list it belongs on.
Extended(net, rep, e) ==
  [loaded |-> rep.loaded \cup {n \in {e[1]} : Loads(net, e)},
   missing |-> rep.missing,
   unexpected |-> rep.unexpected \cup {n \in {e[1]} : IsUnexpected(net, e)},
   mismatched |-> rep.mismatched \cup {n \in {e[1]} : IsMismatched(net, e)}]

\* Only the lists of the report that a key belongs on grow.
LEMMA ReportedIs ==
  ASSUME NEW net, NEW e, NEW rep,
         rep = [loaded |-> rep.loaded, missing |-> rep.missing,
                unexpected |-> rep.unexpected, mismatched |-> rep.mismatched]
  PROVE  Reported(net, rep, e) = Extended(net, rep, e)
  <1>1. PICK a, b, c : /\ a = {n \in {e[1]} : IsUnexpected(net, e)}
                       /\ b = {n \in {e[1]} : IsMismatched(net, e)}
                       /\ c = {n \in {e[1]} : Loads(net, e)}
    OBVIOUS
  <1>2. PICK l, s, u, x : l = rep.loaded /\ s = rep.missing /\ u = rep.unexpected /\ x = rep.mismatched
    OBVIOUS
  <1>3. rep = [loaded |-> l, missing |-> s, unexpected |-> u, mismatched |-> x]
    BY <1>2
  <1>4. Reported(net, rep, e) =
          [rep EXCEPT !.unexpected = @ \cup a, !.mismatched = @ \cup b, !.loaded = @ \cup c]
    BY <1>1 DEF Reported
  <1>5. Reported(net, rep, e) = [loaded |-> l \cup c, missing |-> s,
                                 unexpected |-> u \cup a, mismatched |-> x \cup b]
    BY <1>3, <1>4
  <1> QED
    BY <1>1, <1>2, <1>5 DEF Extended

\* A key changes the parameter of its name and no other.
LEMMA CopiedIs ==
  ASSUME NEW net, NEW e, net = [p \in DOMAIN net |-> net[p]]
  PROVE  /\ DOMAIN Copied(net, e) = DOMAIN net
         /\ Copied(net, e) = [p \in DOMAIN net |-> Copied(net, e)[p]]
         /\ \A p \in DOMAIN net :
              Copied(net, e)[p] = IF Loads(net, e) /\ p = e[1] THEN e[2] ELSE net[p]
         /\ Loads(net, e) => e[1] \in DOMAIN net /\ net[e[1]].shape = e[2].shape
  <1>1. Loads(net, e) => e[1] \in DOMAIN net /\ net[e[1]].shape = e[2].shape
    BY DEF Loads, IsUnexpected, IsMismatched
  <1>2. CASE Loads(net, e)
    <2>1. PICK c : c = [net EXCEPT ![e[1]] = e[2]]
      OBVIOUS
    <2>2. Copied(net, e) = c
      BY <1>2, <2>1 DEF Copied
    <2>3. /\ DOMAIN c = DOMAIN net /\ c = [p \in DOMAIN net |-> c[p]]
          /\ \A p \in DOMAIN net : c[p] = IF p = e[1] THEN e[2] ELSE net[p]
      BY <2>1
    <2> QED
      BY <1>1, <1>2, <2>2, <2>3
  <1>3. CASE ~Loads(net, e)
    <2>1. Copied(net, e) = net
      BY <1>3 DEF Copied
    <2> QED
      BY <1>1, <1>3, <2>1
  <1> QED
    BY <1>2, <1>3

\* A network stays one.
LEMMA CopiedNetwork ==
  ASSUME NEW net, NEW c, IsNetwork(net, c), NEW e
  PROVE  IsNetwork(Copied(net, e), c)
  <1>1. /\ DOMAIN net = Names(Shapes(c)) /\ net = [p \in DOMAIN net |-> net[p]]
        /\ \A p \in DOMAIN net : net[p].shape = Find(Shapes(c), p)
    BY DEF IsNetwork
  <1>2. PICK d : d = Copied(net, e)
    OBVIOUS
  <1>3. /\ DOMAIN d = DOMAIN net /\ d = [p \in DOMAIN net |-> d[p]]
        /\ \A p \in DOMAIN net : d[p] = IF Loads(net, e) /\ p = e[1] THEN e[2] ELSE net[p]
        /\ Loads(net, e) => e[1] \in DOMAIN net /\ net[e[1]].shape = e[2].shape
    BY <1>1, <1>2, CopiedIs
  <1>4. \A p \in DOMAIN d : d[p].shape = Find(Shapes(c), p)
    BY <1>1, <1>3
  <1> QED
    BY <1>1, <1>2, <1>3, <1>4 DEF IsNetwork

\* The tensors of a listing.
LEMMA ListedIs ==
  ASSUME NEW s, IsList(s), NEW net
  PROVE  /\ IsList(Listed(s, net)) /\ Len(Listed(s, net)) = Len(s)
         /\ \A k \in 1 .. Len(s) : Listed(s, net)[k] = <<s[k][1], net[s[k][1]]>>
  <1>1. Len(s) \in Nat /\ DOMAIN s = 1 .. Len(s)
    BY ListHas
  <1>2. PICK d : d = Listed(s, net)
    OBVIOUS
  <1>3. /\ DOMAIN d = 1 .. Len(s) /\ d = [k \in 1 .. Len(s) |-> d[k]]
        /\ \A k \in 1 .. Len(s) : d[k] = <<s[k][1], net[s[k][1]]>>
    BY <1>1, <1>2 DEF Listed
  <1>4. IsList(d) /\ Len(d) = Len(s)
    BY <1>1, <1>3, ListIs
  <1> QED
    BY <1>2, <1>3, <1>4

\* Writing a file changes no other.
LEMMA WriteIs ==
  ASSUME NEW f, NEW sd, NEW of, Write(f, sd, of)
  PROVE  /\ DOMAIN disk' = DOMAIN disk \cup {f}
         /\ \A g \in DOMAIN disk' : IF g = f THEN disk'[g].sd = sd /\ disk'[g].of = of
                                             ELSE g \in DOMAIN disk /\ disk'[g] = disk[g]
  BY DEF Write

\* What is known stays known.
LEMMA KnownGrows ==
  ASSUME NEW t, NEW s, NEW r, s \subseteq r, KnownTo(t, s)
  PROVE  KnownTo(t, r)
  BY DEF KnownTo
-----------------------------------------------------------------------------
(* No random value without a report *)

\* At the end of a process there is nothing left to be said about its memory.
LEMMA ExitInv ==
  ASSUME NEW code, Exit(code)
  PROVE  CommandInv' /\ NetworkInv' /\ ModuleTold' /\ NoSilentInit' /\ ComingBack' /\ ExportedComesBack'
  <1>1. step' = "prompt" /\ report' = NoReport
    BY DEF Exit
  <1>2. CommandInv'
    BY <1>1 DEF CommandInv, NoReport
  <1>3. NetworkInv' /\ ModuleTold' /\ NoSilentInit' /\ ComingBack' /\ ExportedComesBack'
    BY <1>1 DEF NetworkInv, ModuleTold, NoSilentInit, ComingBack, ExportedComesBack
  <1> QED
    BY <1>2, <1>3

\* The files stay, and what is known only grows.
LEMMA DiskKept ==
  ASSUME DiskTold, disk' = disk, told \subseteq told'
  PROVE  DiskTold'
  <1> SUFFICES ASSUME NEW f \in DOMAIN disk, disk[f].sd # Unreadable
               PROVE  /\ IsList(disk[f].sd)
                      /\ \A k \in 1 .. Len(disk[f].sd) : KnownTo(disk[f].sd[k][2], told')
    BY DEF DiskTold
  <1>1. /\ IsList(disk[f].sd)
        /\ \A k \in 1 .. Len(disk[f].sd) : KnownTo(disk[f].sd[k][2], told)
    BY DEF DiskTold
  <1> QED
    BY <1>1, KnownGrows

\* A step that writes a file of known tensors.
LEMMA DiskWritten ==
  ASSUME DiskTold, UNCHANGED told, NEW f, NEW sd, NEW of, Write(f, sd, of),
         sd # Unreadable => IsList(sd) /\ \A k \in 1 .. Len(sd) : KnownTo(sd[k][2], told)
  PROVE  DiskTold'
  <1>1. /\ DOMAIN disk' = DOMAIN disk \cup {f}
        /\ \A g \in DOMAIN disk' : IF g = f THEN disk'[g].sd = sd /\ disk'[g].of = of
                                            ELSE g \in DOMAIN disk /\ disk'[g] = disk[g]
    BY WriteIs
  <1> SUFFICES ASSUME NEW g \in DOMAIN disk', disk'[g].sd # Unreadable
               PROVE  /\ IsList(disk'[g].sd)
                      /\ \A k \in 1 .. Len(disk'[g].sd) : KnownTo(disk'[g].sd[k][2], told)
    BY DEF DiskTold
  <1>2. CASE g = f
    BY <1>1, <1>2
  <1>3. CASE g # f
    BY <1>1, <1>3 DEF DiskTold
  <1> QED
    BY <1>2, <1>3

\* The state in which everything starts.
LEMMA SilentInit == Init => SilentInv
  <1> SUFFICES ASSUME Init PROVE SilentInv
    OBVIOUS
  <1> USE DEF Init
  <1>1. CommandInv
    BY DEF CommandInv, NoReport
  <1>2. NetworkInv /\ ModuleTold /\ NoSilentInit
    BY DEF NetworkInv, ModuleTold, NoSilentInit
  <1>3. DiskTold
    <2> SUFFICES ASSUME NEW f \in DOMAIN Shipped, Shipped[f] # Unreadable
                 PROVE  IsList(Shipped[f]) /\ \A k \in 1 .. Len(Shipped[f]) : KnownTo(Shipped[f][k][2], told)
      BY DEF DiskTold
    <2>1. IsList(Shipped[f]) /\ \A k \in DOMAIN Shipped[f] : Shipped[f][k][2].data[1] = "trained"
      BY ShippedTrained
    <2>2. DOMAIN Shipped[f] = 1 .. Len(Shipped[f])
      BY <2>1, ListHas
    <2> QED
      BY <2>1, <2>2 DEF KnownTo, Random
  <1> QED
    BY <1>1, <1>2, <1>3 DEF SilentInv

\* Build: every value is of this process.
LEMMA BuildInv ==
  ASSUME SilentInv, Build
  PROVE  SilentInv'
  <1>1. CommandInv /\ DiskTold /\ step = "build" /\ UNCHANGED <<disk, told>>
    BY DEF SilentInv, Build
  <1>2. DiskTold'
    BY <1>1, DiskKept
  <1>3. CASE ~Buildable(cmd)
    <2>1. Exit(UsageError)
      BY <1>3 DEF Build
    <2> QED
      BY <1>2, <2>1, ExitInv DEF SilentInv
  <1>4. CASE Buildable(cmd)
    <2>1. /\ module' = [p \in Names(Shapes(cmd)) |->
                          [shape |-> Find(Shapes(cmd), p), data |-> <<"init", cmd.model, p>>]]
          /\ step' = IF Verb = "train" THEN "work" ELSE "weights"
          /\ UNCHANGED <<cmd, todo, report>>
      BY <1>4 DEF Build, Go
    <2>2. cmd \in Commands /\ report = NoReport
      BY <1>1 DEF CommandInv
    <2>3. Verb' = Verb
      BY <2>1 DEF Verb
    <2>4. CommandInv'
      BY <1>4, <2>1, <2>2, <2>3 DEF CommandInv, NoReport, Buildable
    <2>5. /\ DOMAIN module' = Names(Shapes(cmd))
          /\ module' = [p \in DOMAIN module' |-> module'[p]]
          /\ \A p \in DOMAIN module' : /\ module'[p].shape = Find(Shapes(cmd), p)
                                       /\ module'[p].data = <<"init", cmd.model, p>>
                                       /\ module'[p] = [shape |-> module'[p].shape, data |-> module'[p].data]
      BY <2>1
    <2>6. IsNetwork(module', cmd)
      BY <2>5 DEF IsNetwork
    <2>7. NetworkInv'
      BY <2>1, <2>5, <2>6 DEF NetworkInv
    <2>8. ModuleTold'
      BY <2>1, <2>2, <2>5 DEF ModuleTold, NoReport
    <2>9. NoSilentInit'
      BY <2>1, <2>3 DEF NoSilentInit
    <2> QED
      BY <1>2, <2>4, <2>7, <2>8, <2>9 DEF SilentInv
  <1> QED
    BY <1>3, <1>4

\* OpenWeights: the tensors on the list are those of the file.
LEMMA OpenInv ==
  ASSUME SilentInv, OpenWeights
  PROVE  SilentInv'
  <1>1. CommandInv /\ NetworkInv /\ ModuleTold /\ DiskTold /\ step = "weights" /\ UNCHANGED <<disk, told>>
    BY DEF SilentInv, OpenWeights
  <1>2. DiskTold'
    BY <1>1, DiskKept
  <1>3. CASE ~(cmd.weights \in DOMAIN disk /\ disk[cmd.weights].sd # Unreadable)
    <2>1. Exit(UsageError)
      BY <1>3 DEF OpenWeights
    <2> QED
      BY <1>2, <2>1, ExitInv DEF SilentInv
  <1>4. CASE cmd.weights \in DOMAIN disk /\ disk[cmd.weights].sd # Unreadable
    <2>1. /\ todo' = Apply(RulesOf(cmd.model), disk[cmd.weights].sd)
          /\ step' = "keys" /\ UNCHANGED <<cmd, module, report>>
      BY <1>4 DEF OpenWeights, Go
    <2>2. PICK sd, rules, t : sd = disk[cmd.weights].sd /\ rules = RulesOf(cmd.model) /\ t = Apply(rules, sd)
      OBVIOUS
    <2>3. IsList(sd) /\ \A k \in 1 .. Len(sd) : KnownTo(sd[k][2], told)
      BY <1>1, <1>4, <2>2 DEF DiskTold
    <2>4. IsList(t) /\ \A k \in 1 .. Len(t) : \E j \in 1 .. Len(sd) : t[k][2] = sd[j][2]
      BY <2>2, <2>3, ApplyTensors
    <2>5. todo' = t /\ \A k \in 1 .. Len(t) : KnownTo(t[k][2], told)
      BY <2>1, <2>2, <2>3, <2>4
    <2>6. Verb' = Verb
      BY <2>1 DEF Verb
    <2>7. CommandInv'
      BY <1>1, <2>1, <2>4, <2>5, <2>6 DEF CommandInv
    <2>8. NetworkInv'
      BY <1>1, <2>1, <2>6 DEF NetworkInv
    <2>9. ModuleTold'
      BY <1>1, <2>1, <2>5 DEF ModuleTold
    <2>10. NoSilentInit'
      BY <2>1 DEF NoSilentInit
    <2> QED
      BY <1>2, <2>7, <2>8, <2>9, <2>10 DEF SilentInv
  <1> QED
    BY <1>3, <1>4

\* LoadKey: a parameter that is loaded has a tensor of the file.
LEMMA KeyInv ==
  ASSUME SilentInv, LoadKey
  PROVE  SilentInv'
  <1>1. /\ CommandInv /\ NetworkInv /\ ModuleTold /\ DiskTold
        /\ step = "keys" /\ todo # <<>> /\ UNCHANGED <<disk, cmd, step, told>>
    BY DEF SilentInv, LoadKey
  <1>2. /\ module' = Copied(module, todo[1]) /\ report' = Reported(module, report, todo[1])
        /\ todo' = Tail(todo)
    BY DEF LoadKey
  <1>3. DiskTold'
    BY <1>1, DiskKept
  <1>4. /\ IsList(Tail(todo)) /\ Len(todo) > 0 /\ Len(Tail(todo)) = Len(todo) - 1 /\ Len(todo) \in Nat
        /\ \A k \in 1 .. Len(Tail(todo)) : Tail(todo)[k] = todo[k + 1]
    BY <1>1, TailList, ListHas DEF CommandInv
  <1>5. PICK e : e = todo[1]
    OBVIOUS
  <1>6. report' = [loaded |-> report.loaded \cup {n \in {e[1]} : Loads(module, e)},
                   missing |-> report.missing,
                   unexpected |-> report.unexpected \cup {n \in {e[1]} : IsUnexpected(module, e)},
                   mismatched |-> report.mismatched \cup {n \in {e[1]} : IsMismatched(module, e)}]
    <2>1. report = [loaded |-> report.loaded, missing |-> report.missing,
                    unexpected |-> report.unexpected, mismatched |-> report.mismatched]
      BY <1>1 DEF CommandInv
    <2>2. report' = Extended(module, report, todo[1])
      BY <1>2, <2>1, ReportedIs
    <2>3. report' = Extended(module, report, e)
      BY <1>5, <2>2
    <2> QED
      BY <2>3 DEF Extended
  <1>7. Verb' = Verb
    BY <1>1 DEF Verb
  <1>8. report' = [loaded |-> report'.loaded, missing |-> report'.missing,
                   unexpected |-> report'.unexpected, mismatched |-> report'.mismatched]
    BY <1>6
  <1>9. CommandInv'
    BY <1>1, <1>2, <1>4, <1>7, <1>8 DEF CommandInv
  <1>10. IsNetwork(module, cmd)
    BY <1>1 DEF NetworkInv
  <1>11. IsNetwork(module', cmd)
    BY <1>2, <1>10, CopiedNetwork
  <1>12. NetworkInv'
    BY <1>1, <1>11 DEF NetworkInv
  <1>13. /\ DOMAIN module' = DOMAIN module
         /\ \A p \in DOMAIN module : module'[p] = IF Loads(module, e) /\ p = e[1] THEN e[2] ELSE module[p]
    <2>1. module = [p \in DOMAIN module |-> module[p]]
      BY <1>10 DEF IsNetwork
    <2> QED
      BY <1>2, <1>5, <2>1, CopiedIs
  <1>14. \A k \in 1 .. Len(todo) : KnownTo(todo[k][2], told)
    BY <1>1 DEF ModuleTold
  <1>15. ASSUME NEW p \in DOMAIN module'
         PROVE  \/ KnownTo(module'[p], told)
                \/ p \notin report'.loaded /\ module'[p].data = <<"init", cmd.model, p>>
    <2>1. CASE Loads(module, e) /\ p = e[1]
      <3>1. module'[p] = e[2] /\ KnownTo(e[2], told)
        BY <1>4, <1>5, <1>13, <1>14, <2>1
      <3> QED
        BY <3>1
    <2>2. CASE ~(Loads(module, e) /\ p = e[1])
      <3>1. p \in DOMAIN module /\ module'[p] = module[p]
        BY <1>13, <2>2
      <3>2. KnownTo(module[p], told) \/ (p \notin report.loaded /\ module[p].data = <<"init", cmd.model, p>>)
        BY <1>1, <3>1 DEF ModuleTold
      <3>3. p \notin report.loaded => p \notin report'.loaded
        BY <1>6, <2>2
      <3> QED
        BY <3>1, <3>2, <3>3
    <2> QED
      BY <2>1, <2>2
  <1>16. \A k \in 1 .. Len(todo') : KnownTo(todo'[k][2], told)
    BY <1>2, <1>4, <1>14
  <1>17. ModuleTold'
    BY <1>1, <1>15, <1>16 DEF ModuleTold
  <1>18. NoSilentInit'
    BY <1>1 DEF NoSilentInit
  <1> QED
    BY <1>3, <1>9, <1>12, <1>17, <1>18 DEF SilentInv

\* FinishLoad: what has not been loaded is called missing.
LEMMA FinishInv ==
  ASSUME SilentInv, FinishLoad
  PROVE  SilentInv'
  <1>1. /\ CommandInv /\ NetworkInv /\ ModuleTold /\ DiskTold
        /\ step = "keys" /\ todo = <<>> /\ UNCHANGED <<disk, count>>
    BY DEF SilentInv, FinishLoad
  <1>2. PICK rep : rep = WithMissing(module, report)
    OBVIOUS
  <1>3. /\ told' = told \cup ({cmd.model} \X rep.missing)
        /\ IF ReportWeightsOk(rep)
           THEN Go("work") /\ report' = rep /\ UNCHANGED <<module, todo>>
           ELSE Exit(UsageError)
    BY <1>2 DEF FinishLoad
  <1>4. DiskTold'
    BY <1>1, <1>3, DiskKept
  <1>5. CASE ~ReportWeightsOk(rep)
    <2>1. Exit(UsageError)
      BY <1>3, <1>5
    <2> QED
      BY <1>4, <2>1, ExitInv DEF SilentInv
  <1>6. CASE ReportWeightsOk(rep)
    <2>1. step' = "work" /\ report' = rep /\ UNCHANGED <<cmd, module, todo>>
      BY <1>3, <1>6 DEF Go
    <2>2. rep = [loaded |-> report.loaded, missing |-> DOMAIN module \ report.loaded,
                 unexpected |-> report.unexpected, mismatched |-> report.mismatched]
      <3>1. PICK l, s, u, x : l = report.loaded /\ s = report.missing /\ u = report.unexpected /\ x = report.mismatched
        OBVIOUS
      <3>2. report = [loaded |-> l, missing |-> s, unexpected |-> u, mismatched |-> x]
        BY <1>1, <3>1 DEF CommandInv
      <3>3. rep = [loaded |-> l, missing |-> DOMAIN module \ l, unexpected |-> u, mismatched |-> x]
        BY <1>2, <3>1, <3>2 DEF WithMissing
      <3> QED
        BY <3>1, <3>3
    <2>3. Verb' = Verb /\ Verb # "train"
      BY <1>1, <2>1 DEF Verb, CommandInv
    <2>4. report' = [loaded |-> report'.loaded, missing |-> report'.missing,
                     unexpected |-> report'.unexpected, mismatched |-> report'.mismatched]
      BY <2>1, <2>2
    <2>5. CommandInv'
      BY <1>1, <2>1, <2>3, <2>4 DEF CommandInv
    <2>6. NetworkInv'
      BY <1>1, <2>1, <2>3 DEF NetworkInv
    <2>7. ModuleTold'
      BY <2>1 DEF ModuleTold
    <2>8. ASSUME NEW p \in DOMAIN module, Random(module[p])
          PROVE  <<module[p].data[2], module[p].data[3]>> \in told'
      <3>1. KnownTo(module[p], told) \/ (p \notin report.loaded /\ module[p].data = <<"init", cmd.model, p>>)
        BY <1>1 DEF ModuleTold
      <3>2. CASE KnownTo(module[p], told)
        BY <1>3, <2>8, <3>2 DEF KnownTo
      <3>3. CASE p \notin report.loaded /\ module[p].data = <<"init", cmd.model, p>>
        <4>1. p \in rep.missing
          BY <2>2, <3>3
        <4>2. module[p].data[2] = cmd.model /\ module[p].data[3] = p
          BY <3>3
        <4> QED
          BY <1>3, <4>1, <4>2
      <3> QED
        BY <3>1, <3>2, <3>3
    <2>9. NoSilentInit'
      BY <1>6, <2>1, <2>8 DEF NoSilentInit, ReportWeightsOk
    <2> QED
      BY <1>4, <2>5, <2>6, <2>7, <2>9 DEF SilentInv
  <1> QED
    BY <1>5, <1>6
\* The names of a list are among those of the list with more at its end.
LEMMA FirstNames ==
  ASSUME NEW s, IsList(s), NEW t, IsList(t)
  PROVE  \A k \in 1 .. Len(s) : s[k][1] \in Names(s \o t)
  <1>1. PICK T : T = Range(s) \cup Range(t)
    OBVIOUS
  <1>2. s \in Seq(T) /\ t \in Seq(T)
    <2>1. s = [k \in 1 .. Len(s) |-> s[k]] /\ \A k \in 1 .. Len(s) : s[k] \in T
      BY <1>1, ListHas DEF Range
    <2>2. t = [k \in 1 .. Len(t) |-> t[k]] /\ \A k \in 1 .. Len(t) : t[k] \in T
      BY <1>1, ListHas DEF Range
    <2>3. Len(s) \in Nat /\ Len(t) \in Nat
      BY ListHas
    <2> QED
      BY <2>1, <2>2, <2>3
  <1>3. PICK u : u = s \o t
    OBVIOUS
  <1>4. /\ Len(s) \in Nat /\ Len(t) \in Nat /\ Len(u) = Len(s) + Len(t)
        /\ DOMAIN u = 1 .. Len(u) /\ \A k \in 1 .. Len(s) : u[k] = s[k]
    BY <1>2, <1>3
  <1>5. \A k \in 1 .. Len(s) : k \in DOMAIN u /\ s[k][1] = u[k][1]
    BY <1>4
  <1> QED
    BY <1>3, <1>5 DEF Names
\* Train: what is saved was trained.
LEMMA TrainInv ==
  ASSUME SilentInv, Train
  PROVE  SilentInv'
  <1>1. /\ CommandInv /\ NetworkInv /\ DiskTold /\ step = "work" /\ Verb = "train"
        /\ (\E code : Exit(code)) /\ UNCHANGED told
        /\ Write("last", Trained, << >>) \/ UNCHANGED disk
    BY DEF SilentInv, Train
  <1>2. CommandInv' /\ NetworkInv' /\ ModuleTold' /\ NoSilentInit'
    BY <1>1, ExitInv
  <1>3. CASE UNCHANGED disk
    <2>1. DiskTold'
      BY <1>1, <1>3, DiskKept
    <2> QED
      BY <1>2, <2>1 DEF SilentInv
  <1>4. CASE Write("last", Trained, << >>)
    <2>1. PICK net : net = [p \in DOMAIN module |-> [module[p] EXCEPT !.data = <<"trained", p>>]]
      OBVIOUS
    <2>2. PICK s, sd : s = Params(cmd).parameters /\ sd = Listed(s, net)
      OBVIOUS
    <2>3. Trained = sd
      BY <2>1, <2>2 DEF Trained
    <2>4. Buildable(cmd) /\ cmd \in Commands
      BY <1>1 DEF CommandInv
    <2>5. IsList(s) /\ Len(s) \in Nat /\ DOMAIN s = 1 .. Len(s)
      BY <2>2, <2>4, Networks, ListHas
    <2>6. /\ IsList(sd) /\ Len(sd) = Len(s)
          /\ \A k \in 1 .. Len(s) : sd[k] = <<s[k][1], net[s[k][1]]>>
      BY <2>2, <2>5, ListedIs
    <2>7. \A k \in 1 .. Len(s) : s[k][1] \in DOMAIN module
      <3>1. DOMAIN module = Names(Shapes(cmd))
        BY <1>1 DEF NetworkInv, IsNetwork
      <3>2. IsList(Params(cmd).parameters) /\ IsList(Params(cmd).buffers)
        BY <2>4, Networks
      <3>3. \A k \in 1 .. Len(s) : s[k][1] \in Names(Shapes(cmd))
        BY <2>2, <3>2, FirstNames DEF Shapes
      <3> QED
        BY <3>1, <3>3
    <2>8. ASSUME NEW p \in DOMAIN module
          PROVE  ~Random(net[p])
      <3>1. module[p] = [shape |-> module[p].shape, data |-> module[p].data]
        BY <1>1 DEF NetworkInv
      <3>2. net[p] = [module[p] EXCEPT !.data = <<"trained", p>>]
        BY <2>1
      <3>3. net[p].data = <<"trained", p>>
        BY <3>1, <3>2
      <3> QED
        BY <3>3 DEF Random
    <2>9. ASSUME NEW k \in 1 .. Len(sd)
          PROVE  KnownTo(sd[k][2], told)
      <3>1. sd[k][2] = net[s[k][1]] /\ ~Random(net[s[k][1]])
        BY <2>6, <2>7, <2>8
      <3> QED
        BY <3>1 DEF KnownTo
    <2>10. Write("last", sd, << >>)
      BY <1>4, <2>3
    <2>11. DiskTold'
      BY <1>1, <2>6, <2>9, <2>10, DiskWritten
    <2> QED
      BY <1>2, <2>11 DEF SilentInv
  <1> QED
    BY <1>1, <1>3, <1>4

\* Export: what is random in a network that works is known.
LEMMA ExportedTold ==
  ASSUME SilentInv, Export
  PROVE  SilentInv'
  <1>1. /\ CommandInv /\ NetworkInv /\ DiskTold /\ NoSilentInit /\ step = "work" /\ Verb = "export"
        /\ (\E code : Exit(code)) /\ UNCHANGED told
        /\ \/ UNCHANGED disk
           \/ Write(ExportFile, StateDictFromModule, Origin)
           \/ Write(ExportFile, Unreadable, << >>)
    BY DEF SilentInv, Export
  <1>2. CommandInv' /\ NetworkInv' /\ ModuleTold' /\ NoSilentInit'
    BY <1>1, ExitInv
  <1>3. CASE UNCHANGED disk
    <2>1. DiskTold'
      BY <1>1, <1>3, DiskKept
    <2> QED
      BY <1>2, <2>1 DEF SilentInv
  <1>4. CASE Write(ExportFile, Unreadable, << >>)
    <2>1. DiskTold'
      BY <1>1, <1>4, DiskWritten
    <2> QED
      BY <1>2, <2>1 DEF SilentInv
  <1>5. CASE Write(ExportFile, StateDictFromModule, Origin)
    <2>1. PICK s, net, sd : s = Shapes(cmd) /\ net = module /\ sd = Listed(s, net)
      OBVIOUS
    <2>2. StateDictFromModule = sd
      BY <2>1 DEF StateDictFromModule
    <2>3. Buildable(cmd) /\ cmd \in Commands
      BY <1>1 DEF CommandInv
    <2>4. IsList(s) /\ Len(s) \in Nat /\ DOMAIN s = 1 .. Len(s)
      BY <2>1, <2>3, Networks, ListHas
    <2>5. /\ IsList(sd) /\ Len(sd) = Len(s)
          /\ \A k \in 1 .. Len(s) : sd[k] = <<s[k][1], net[s[k][1]]>>
      BY <2>1, <2>4, ListedIs
    <2>6. \A k \in 1 .. Len(s) : s[k][1] \in DOMAIN module
      BY <1>1, <2>1, <2>4 DEF NetworkInv, IsNetwork, Names
    <2>7. \A p \in DOMAIN module : Random(module[p]) => <<module[p].data[2], module[p].data[3]>> \in told
      BY <1>1 DEF NoSilentInit
    <2>8. ASSUME NEW k \in 1 .. Len(sd)
          PROVE  KnownTo(sd[k][2], told)
      <3>1. sd[k][2] = module[s[k][1]] /\ s[k][1] \in DOMAIN module
        BY <2>1, <2>5, <2>6
      <3> QED
        BY <2>7, <3>1 DEF KnownTo
    <2>9. PICK of : of = Origin
      OBVIOUS
    <2>10. Write(ExportFile, sd, of)
      BY <1>5, <2>2, <2>9
    <2>11. DiskTold'
      BY <1>1, <2>5, <2>8, <2>10, DiskWritten
    <2> QED
      BY <1>2, <2>11 DEF SilentInv
  <1> QED
    BY <1>1, <1>3, <1>4, <1>5

\* A step that ends the process and leaves the files alone.
LEMMA LeaveInv ==
  ASSUME SilentInv, NEW code, Exit(code), UNCHANGED <<disk, told>>
  PROVE  SilentInv'
  <1>1. CommandInv' /\ NetworkInv' /\ ModuleTold' /\ NoSilentInit'
    BY ExitInv
  <1>2. DiskTold'
    BY DiskKept DEF SilentInv
  <1> QED
    BY <1>1, <1>2 DEF SilentInv

\* Every step keeps the invariant.
LEMMA SilentNext ==
  ASSUME SilentInv, [Next]_vars
  PROVE  SilentInv'
  <1> USE DEF SilentInv
  <1>1. CASE Invoke
    <2>1. /\ cmd' \in Commands /\ step' = "main" /\ step = "prompt"
          /\ UNCHANGED <<disk, module, todo, report, told>>
      BY <1>1 DEF Invoke
    <2>2. CommandInv'
      BY <2>1 DEF CommandInv, NoReport
    <2>3. NetworkInv' /\ ModuleTold' /\ NoSilentInit'
      BY <2>1 DEF NetworkInv, ModuleTold, NoSilentInit
    <2>4. DiskTold'
      BY <2>1, DiskKept
    <2> QED
      BY <2>2, <2>3, <2>4
  <1>2. CASE Check
    <2>1. CASE \E code : Exit(code) /\ UNCHANGED <<disk, told>>
      BY <2>1, LeaveInv
    <2>2. CASE Go("build") /\ UNCHANGED <<module, todo, report>>
      <3>1. step = "main" /\ step' = "build" /\ UNCHANGED <<disk, cmd, module, todo, report, told>>
        BY <1>2, <2>2 DEF Check, Go
      <3>2. CommandInv'
        BY <3>1 DEF CommandInv, NoReport
      <3>3. NetworkInv' /\ ModuleTold' /\ NoSilentInit'
        BY <3>1 DEF NetworkInv, ModuleTold, NoSilentInit
      <3>4. DiskTold'
        BY <3>1, DiskKept
      <3> QED
        BY <3>2, <3>3, <3>4
    <2> QED
      BY <1>2, <2>1, <2>2 DEF Check
  <1>3. CASE NoSingleVerb \/ NotYet \/ Evaluate \/ Predict \/ Throw
    <2>1. (\E code : Exit(code)) /\ UNCHANGED <<disk, told>>
      BY <1>3 DEF NoSingleVerb, NotYet, Evaluate, Predict, Throw
    <2> QED
      BY <2>1, LeaveInv
  <1>4. CASE UNCHANGED vars
    <2>1. UNCHANGED <<disk, cmd, step, module, todo, report, told>>
      BY <1>4 DEF vars
    <2>2. Verb' = Verb
      BY <2>1 DEF Verb
    <2>3. CommandInv'
      BY <2>1, <2>2 DEF CommandInv
    <2>4. NetworkInv' /\ ModuleTold' /\ NoSilentInit' /\ DiskTold'
      BY <2>1, <2>2 DEF NetworkInv, ModuleTold, NoSilentInit, DiskTold
    <2> QED
      BY <2>3, <2>4
  <1>5. CASE Build
    BY <1>5, BuildInv
  <1>6. CASE OpenWeights
    BY <1>6, OpenInv
  <1>7. CASE LoadKey
    BY <1>7, KeyInv
  <1>8. CASE FinishLoad
    BY <1>8, FinishInv
  <1>9. CASE Train
    BY <1>9, TrainInv
  <1>10. CASE Export
    BY <1>10, ExportedTold
  <1> QED
    BY <1>1, <1>2, <1>3, <1>4, <1>5, <1>6, <1>7, <1>8, <1>9, <1>10 DEF Next

\* The invariant of the loading of weights holds in every session.
LEMMA SilentInvHolds == Spec => []SilentInv
  <1>1. Init => SilentInv
    BY SilentInit
  <1>2. SilentInv /\ [Next]_vars => SilentInv'
    BY SilentNext
  <1> QED
    BY <1>1, <1>2, PTL DEF Spec

\* No network works with a value nobody trained and no report has named: not
\* even over several commands, where one process exports what another loads.
THEOREM NoSilentInitHolds == Spec => []NoSilentInit
  <1>1. SilentInv => NoSilentInit
    BY DEF SilentInv
  <1> QED
    BY <1>1, SilentInvHolds, PTL
-----------------------------------------------------------------------------
(* What is exported comes back *)

\* The rest of the invariant, beside SilentInv.
ReturnInv == DiskExported /\ ComingBack /\ ExportedComesBack

\* The remapper leaves what a network exported as it is.
LEMMA ExportUntouched ==
  ASSUME NEW c \in Commands, Buildable(c), NEW net
  PROVE  Apply(RulesOf(c.model), Listed(Shapes(c), net)) = Listed(Shapes(c), net)
  <1>1. PICK s, sd, rules : s = Shapes(c) /\ sd = Listed(s, net) /\ rules = RulesOf(c.model)
    OBVIOUS
  <1>2. IsList(s) /\ Len(s) \in Nat /\ DOMAIN s = 1 .. Len(s)
    BY <1>1, Networks, ListHas
  <1>3. \A j, k \in 1 .. Len(s) : s[j][1] = s[k][1] => j = k
    BY <1>1, <1>2, Networks
  <1>4. \A k \in 1 .. Len(s) : s[k][1] # Dropped /\ Map(rules, s[k][1]) = s[k][1]
    <2>1. \A k \in 1 .. Len(s) : s[k][1] \in Names(s)
      BY <1>2 DEF Names
    <2> QED
      BY <1>1, <2>1, OwnNames
  <1>5. /\ IsList(sd) /\ Len(sd) = Len(s)
        /\ \A k \in 1 .. Len(s) : sd[k] = <<s[k][1], net[s[k][1]]>>
    BY <1>1, <1>2, ListedIs
  <1>6. \A k \in 1 .. Len(sd) : /\ sd[k] = <<sd[k][1], sd[k][2]>>
                                /\ sd[k][1] # Dropped /\ Map(rules, sd[k][1]) = sd[k][1]
    BY <1>4, <1>5
  <1>7. \A j, k \in 1 .. Len(sd) : sd[j][1] = sd[k][1] => j = k
    BY <1>3, <1>5
  <1>8. Apply(rules, sd) = sd
    BY <1>5, <1>6, <1>7, ApplyNothing
  <1> QED
    BY <1>1, <1>8

\* Two commands for the same network, built the same way.
LEMMA SameShapes ==
  ASSUME NEW c \in Commands, NEW d \in Commands, Buildable(c),
         d.model = c.model, d.config = c.config
  PROVE  Shapes(d) = Shapes(c)
  <1>1. Params(d) = Params(c)
    BY Networks
  <1> QED
    BY <1>1 DEF Shapes

\* A step that ends a process and leaves the files alone.
LEMMA LeaveReturn ==
  ASSUME ReturnInv, NEW code, Exit(code), UNCHANGED disk
  PROVE  ReturnInv'
  <1>1. ComingBack' /\ ExportedComesBack'
    BY ExitInv
  <1>2. DiskExported'
    BY DEF ReturnInv, DiskExported
  <1> QED
    BY <1>1, <1>2 DEF ReturnInv

\* A step that writes a file.
LEMMA WrittenReturn ==
  ASSUME DiskExported, NEW f, NEW sd, NEW of, Write(f, sd, of),
         sd # Unreadable /\ of # << >> => \E c \in Commands : IsExport([sd |-> sd, of |-> of], c)
  PROVE  DiskExported'
  <1>1. /\ DOMAIN disk' = DOMAIN disk \cup {f}
        /\ \A g \in DOMAIN disk' : IF g = f THEN disk'[g].sd = sd /\ disk'[g].of = of
                                            ELSE g \in DOMAIN disk /\ disk'[g] = disk[g]
    BY WriteIs
  <1> SUFFICES ASSUME NEW g \in DOMAIN disk', disk'[g].sd # Unreadable, disk'[g].of # << >>
               PROVE  \E c \in Commands : IsExport(disk'[g], c)
    BY DEF DiskExported
  <1>2. CASE g = f
    <2>1. PICK c \in Commands : IsExport([sd |-> sd, of |-> of], c)
      BY <1>1, <1>2
    <2>2. disk'[g].sd = sd /\ disk'[g].of = of
      BY <1>1, <1>2
    <2>3. IsExport(disk'[g], c)
      BY <2>1, <2>2 DEF IsExport
    <2> QED
      BY <2>3
  <1>3. CASE g # f
    BY <1>1, <1>3 DEF DiskExported
  <1> QED
    BY <1>2, <1>3

\* Build: nothing has been read.
LEMMA BuildReturn ==
  ASSUME SilentInv, ReturnInv, Build
  PROVE  ReturnInv'
  <1>1. CASE ~Buildable(cmd)
    BY <1>1, LeaveReturn DEF Build
  <1>2. CASE Buildable(cmd)
    <2>1. step' = (IF Verb = "train" THEN "work" ELSE "weights") /\ UNCHANGED <<cmd, disk>>
      BY <1>2 DEF Build, Go
    <2>2. Verb' = Verb
      BY <2>1 DEF Verb
    <2>3. ComingBack' /\ ExportedComesBack'
      BY <2>1, <2>2 DEF ComingBack, ExportedComesBack
    <2>4. DiskExported'
      BY <2>1 DEF ReturnInv, DiskExported
    <2> QED
      BY <2>3, <2>4 DEF ReturnInv
  <1> QED
    BY <1>1, <1>2

\* OpenWeights: the list is what was exported, every parameter is on it.
LEMMA OpenReturn ==
  ASSUME SilentInv, ReturnInv, OpenWeights
  PROVE  ReturnInv'
  <1>1. CASE ~(cmd.weights \in DOMAIN disk /\ disk[cmd.weights].sd # Unreadable)
    BY <1>1, LeaveReturn DEF OpenWeights
  <1>2. CASE cmd.weights \in DOMAIN disk /\ disk[cmd.weights].sd # Unreadable
    <2>1. /\ todo' = Apply(RulesOf(cmd.model), disk[cmd.weights].sd)
          /\ step = "weights" /\ step' = "keys" /\ UNCHANGED <<cmd, disk, module, report>>
      BY <1>2 DEF OpenWeights, Go
    <2>2. DiskExported'
      BY <2>1 DEF ReturnInv, DiskExported
    <2>3. ExportedComesBack'
      BY <2>1 DEF ExportedComesBack
    <2>4. ASSUME SameNetwork
          PROVE  IsComingBack(disk[cmd.weights].of.module)'
      <3>1. PICK f, net : f = disk[cmd.weights] /\ net = f.of.module
        OBVIOUS
      <3>2. f.of.model = cmd.model /\ f.of.config = cmd.config /\ f.of # << >> /\ f.sd # Unreadable
        BY <1>2, <2>4, <3>1 DEF SameNetwork
      <3>3. PICK c \in Commands : IsExport(f, c)
        BY <1>2, <3>1, <3>2 DEF ReturnInv, DiskExported
      <3>4. cmd \in Commands /\ Buildable(cmd) /\ report = NoReport
        BY <2>1 DEF SilentInv, CommandInv
      <3>5. PICK s : s = Shapes(cmd)
        OBVIOUS
      <3>6. Shapes(c) = s /\ Buildable(c)
        BY <3>2, <3>3, <3>4, <3>5, SameShapes DEF IsExport
      <3>7. f.sd = Listed(s, net) /\ IsNetwork(net, c)
        BY <3>1, <3>3, <3>6 DEF IsExport
      <3>8. todo' = Listed(s, net)
        BY <2>1, <3>1, <3>4, <3>5, <3>7, ExportUntouched
      <3>9. IsList(s) /\ Len(s) \in Nat /\ DOMAIN s = 1 .. Len(s)
        BY <3>4, <3>5, Networks, ListHas
      <3>10. PICK t : t = Listed(s, net)
        OBVIOUS
      <3>11. Len(t) = Len(s) /\ \A k \in 1 .. Len(s) : t[k] = <<s[k][1], net[s[k][1]]>>
        BY <3>9, <3>10, ListedIs
      <3>12. DOMAIN net = {s[k][1] : k \in 1 .. Len(s)}
        BY <3>6, <3>7, <3>9 DEF IsNetwork, Names
      <3>13. \A k \in 1 .. Len(t) : t[k][1] \in DOMAIN net /\ t[k][2] = net[t[k][1]]
        BY <3>11, <3>12
      <3>14. \A p \in DOMAIN net : \E k \in 1 .. Len(t) : t[k][1] = p
        BY <3>11, <3>12
      <3>15. IsNetwork(net, cmd)
        BY <3>5, <3>6, <3>7 DEF IsNetwork
      <3>16. report'.unexpected = {} /\ report'.mismatched = {}
        BY <2>1, <3>4 DEF NoReport
      <3>17. todo' = t /\ disk'[cmd'.weights].of.module = net /\ cmd' = cmd
        BY <2>1, <3>1, <3>8, <3>10
      <3> QED
        BY <3>13, <3>14, <3>15, <3>16, <3>17 DEF IsComingBack
    <2>5. SameNetwork' => SameNetwork
      BY <2>1 DEF SameNetwork
    <2>6. ComingBack'
      BY <2>4, <2>5 DEF ComingBack
    <2> QED
      BY <2>2, <2>3, <2>6 DEF ReturnInv
  <1> QED
    BY <1>1, <1>2

\* LoadKey: the key fits, and its parameter gets its value.
LEMMA KeyReturn ==
  ASSUME SilentInv, ReturnInv, LoadKey
  PROVE  ReturnInv'
  <1>1. /\ step = "keys" /\ todo # <<>> /\ UNCHANGED <<disk, cmd, step, told>>
        /\ module' = Copied(module, todo[1]) /\ report' = Reported(module, report, todo[1])
        /\ todo' = Tail(todo)
    BY DEF LoadKey
  <1>2. DiskExported' /\ ExportedComesBack'
    BY <1>1 DEF ReturnInv, DiskExported, ExportedComesBack
  <1>3. ASSUME SameNetwork
        PROVE  IsComingBack(disk[cmd.weights].of.module)'
    <2>1. PICK net, e : net = disk[cmd.weights].of.module /\ e = todo[1]
      OBVIOUS
    <2>2. /\ IsNetwork(net, cmd)
          /\ \A k \in 1 .. Len(todo) : todo[k][1] \in DOMAIN net /\ todo[k][2] = net[todo[k][1]]
          /\ \A p \in DOMAIN net : \/ p \in report.loaded /\ module[p] = net[p]
                                   \/ \E k \in 1 .. Len(todo) : todo[k][1] = p
          /\ report.unexpected = {} /\ report.mismatched = {}
      BY <1>1, <1>3, <2>1 DEF ReturnInv, ComingBack, IsComingBack
    <2>3. IsNetwork(module, cmd)
      BY <1>1 DEF SilentInv, NetworkInv
    <2>4. /\ DOMAIN net = DOMAIN module /\ module = [p \in DOMAIN module |-> module[p]]
          /\ \A p \in DOMAIN net : net[p].shape = module[p].shape
      BY <2>2, <2>3 DEF IsNetwork
    <2>5. /\ Len(todo) \in Nat /\ Len(todo) > 0 /\ Len(Tail(todo)) = Len(todo) - 1
          /\ \A k \in 1 .. Len(Tail(todo)) : Tail(todo)[k] = todo[k + 1]
      BY <1>1, TailList, ListHas DEF SilentInv, CommandInv
    <2>6. e[1] \in DOMAIN net /\ e[2] = net[e[1]]
      BY <2>1, <2>2, <2>5
    <2>7. Loads(module, e) /\ ~IsUnexpected(module, e) /\ ~IsMismatched(module, e)
      BY <2>4, <2>6 DEF Loads, IsUnexpected, IsMismatched
    <2>8. \A p \in DOMAIN net : module'[p] = IF p = e[1] THEN net[p] ELSE module[p]
      BY <1>1, <2>1, <2>4, <2>6, <2>7, CopiedIs
    <2>9. report' = Extended(module, report, e)
      <3>1. report = [loaded |-> report.loaded, missing |-> report.missing,
                      unexpected |-> report.unexpected, mismatched |-> report.mismatched]
        BY DEF SilentInv, CommandInv
      <3>2. report' = Extended(module, report, todo[1])
        BY <1>1, <3>1, ReportedIs
      <3> QED
        BY <2>1, <3>2
    <2>10. /\ report'.loaded = report.loaded \cup {e[1]}
           /\ report'.unexpected = {} /\ report'.mismatched = {}
      BY <2>2, <2>7, <2>9 DEF Extended
    <2>11. PICK t : t = Tail(todo)
      OBVIOUS
    <2>12. Len(t) = Len(todo) - 1 /\ \A k \in 1 .. Len(t) : t[k] = todo[k + 1]
      BY <2>5, <2>11
    <2>13. \A k \in 1 .. Len(t) : t[k][1] \in DOMAIN net /\ t[k][2] = net[t[k][1]]
      BY <2>2, <2>5, <2>12
    <2>14. ASSUME NEW p \in DOMAIN net
           PROVE  \/ p \in report'.loaded /\ module'[p] = net[p]
                  \/ \E k \in 1 .. Len(t) : t[k][1] = p
      <3>1. CASE p = e[1]
        BY <2>8, <2>10, <3>1
      <3>2. CASE p # e[1] /\ p \in report.loaded /\ module[p] = net[p]
        BY <2>8, <2>10, <3>2
      <3>3. CASE p # e[1] /\ \E k \in 1 .. Len(todo) : todo[k][1] = p
        <4>1. PICK k \in 1 .. Len(todo) : todo[k][1] = p
          BY <3>3
        <4>2. k # 1
          BY <2>1, <3>3, <4>1
        <4>3. k - 1 \in 1 .. Len(t) /\ k - 1 + 1 = k
          BY <2>5, <2>12, <4>2
        <4> QED
          BY <2>12, <4>1, <4>3
      <3> QED
        BY <2>2, <3>1, <3>2, <3>3
    <2>15. todo' = t /\ disk'[cmd'.weights].of.module = net /\ cmd' = cmd
      BY <1>1, <2>1, <2>11
    <2> QED
      BY <2>2, <2>10, <2>13, <2>14, <2>15 DEF IsComingBack
  <1>4. SameNetwork' => SameNetwork
    BY <1>1 DEF SameNetwork
  <1>5. ComingBack'
    BY <1>3, <1>4 DEF ComingBack
  <1> QED
    BY <1>2, <1>5 DEF ReturnInv

\* FinishLoad: every parameter has its value, so nothing is missing.
LEMMA FinishReturn ==
  ASSUME SilentInv, ReturnInv, FinishLoad
  PROVE  ReturnInv'
  <1>1. PICK rep : rep = WithMissing(module, report)
    OBVIOUS
  <1>2. /\ step = "keys" /\ todo = <<>> /\ UNCHANGED disk
        /\ IF ReportWeightsOk(rep)
           THEN Go("work") /\ report' = rep /\ UNCHANGED <<module, todo>>
           ELSE Exit(UsageError)
    BY <1>1 DEF FinishLoad
  <1>3. CASE ~ReportWeightsOk(rep)
    BY <1>2, <1>3, LeaveReturn
  <1>4. CASE ReportWeightsOk(rep)
    <2>1. step' = "work" /\ report' = rep /\ UNCHANGED <<cmd, module, disk>>
      BY <1>2, <1>4 DEF Go
    <2>2. DiskExported' /\ ComingBack'
      BY <2>1 DEF ReturnInv, DiskExported, ComingBack
    <2>3. ASSUME SameNetwork
          PROVE  /\ module = disk[cmd.weights].of.module
                 /\ rep.unexpected = {} /\ rep.mismatched = {} /\ rep.missing = {}
      <3>1. PICK net : net = disk[cmd.weights].of.module
        OBVIOUS
      <3>2. /\ IsNetwork(net, cmd)
            /\ \A p \in DOMAIN net : \/ p \in report.loaded /\ module[p] = net[p]
                                     \/ \E k \in 1 .. Len(todo) : todo[k][1] = p
            /\ report.unexpected = {} /\ report.mismatched = {}
        BY <1>2, <2>3, <3>1 DEF ReturnInv, ComingBack, IsComingBack
      <3>3. Len(todo) = 0
        BY <1>2, ListHas DEF SilentInv, CommandInv
      <3>4. \A p \in DOMAIN net : p \in report.loaded /\ module[p] = net[p]
        BY <3>2, <3>3
      <3>5. IsNetwork(module, cmd)
        BY <1>2 DEF SilentInv, NetworkInv
      <3>6. /\ DOMAIN net = DOMAIN module /\ module = [p \in DOMAIN module |-> module[p]]
            /\ net = [p \in DOMAIN net |-> net[p]]
        BY <3>2, <3>5 DEF IsNetwork
      <3>7. module = net
        BY <3>4, <3>6
      <3>8. rep.missing = DOMAIN module \ report.loaded /\ rep.unexpected = {} /\ rep.mismatched = {}
        <4>1. PICK l, s, u, x : l = report.loaded /\ s = report.missing /\ u = report.unexpected /\ x = report.mismatched
          OBVIOUS
        <4>2. report = [loaded |-> l, missing |-> s, unexpected |-> u, mismatched |-> x]
          BY <4>1 DEF SilentInv, CommandInv
        <4>3. rep = [loaded |-> l, missing |-> DOMAIN module \ l, unexpected |-> u, mismatched |-> x]
          BY <1>1, <4>1, <4>2 DEF WithMissing
        <4> QED
          BY <3>2, <4>1, <4>3
      <3> QED
        BY <3>1, <3>4, <3>6, <3>7, <3>8
    <2>4. SameNetwork' => SameNetwork
      BY <2>1 DEF SameNetwork
    <2>5. ExportedComesBack'
      BY <2>1, <2>3, <2>4 DEF ExportedComesBack
    <2> QED
      BY <2>2, <2>5 DEF ReturnInv
  <1> QED
    BY <1>3, <1>4

\* Export: the file is a listing of the network that works.
LEMMA ExportReturn ==
  ASSUME SilentInv, ReturnInv, Export
  PROVE  ReturnInv'
  <1>1. /\ step = "work" /\ (\E code : Exit(code))
        /\ \/ UNCHANGED disk
           \/ Write(ExportFile, StateDictFromModule, Origin)
           \/ Write(ExportFile, Unreadable, << >>)
    BY DEF Export
  <1>2. CASE UNCHANGED disk
    BY <1>1, <1>2, LeaveReturn
  <1>3. ComingBack' /\ ExportedComesBack'
    BY <1>1, ExitInv
  <1>4. CASE Write(ExportFile, Unreadable, << >>)
    <2>1. DiskExported'
      BY <1>4, WrittenReturn DEF ReturnInv
    <2> QED
      BY <1>3, <2>1 DEF ReturnInv
  <1>5. CASE Write(ExportFile, StateDictFromModule, Origin)
    <2>1. PICK c, net : c = cmd /\ net = module
      OBVIOUS
    <2>2. c \in Commands /\ Buildable(c) /\ IsNetwork(net, c)
      BY <1>1, <2>1 DEF SilentInv, CommandInv, NetworkInv
    <2>3. PICK sd, of : sd = Listed(Shapes(c), net) /\ of = [model |-> c.model, config |-> c.config, module |-> net]
      OBVIOUS
    <2>4. StateDictFromModule = sd /\ Origin = of
      BY <2>1, <2>3 DEF StateDictFromModule, Origin
    <2>5. Write(ExportFile, sd, of)
      BY <1>5, <2>4
    <2>6. IsExport([sd |-> sd, of |-> of], c)
      BY <2>2, <2>3 DEF IsExport
    <2>7. DiskExported'
      BY <2>2, <2>5, <2>6, WrittenReturn DEF ReturnInv
    <2> QED
      BY <1>3, <2>7 DEF ReturnInv
  <1> QED
    BY <1>1, <1>2, <1>4, <1>5

\* Train: a checkpoint is not an export.
LEMMA TrainReturn ==
  ASSUME ReturnInv, Train
  PROVE  ReturnInv'
  <1>1. (\E code : Exit(code)) /\ (UNCHANGED disk \/ Write("last", Trained, << >>))
    BY DEF Train
  <1>2. CASE UNCHANGED disk
    BY <1>1, <1>2, LeaveReturn
  <1>3. CASE Write("last", Trained, << >>)
    <2>1. DiskExported'
      BY <1>3, WrittenReturn DEF ReturnInv
    <2>2. ComingBack' /\ ExportedComesBack'
      BY <1>1, ExitInv
    <2> QED
      BY <2>1, <2>2 DEF ReturnInv
  <1> QED
    BY <1>1, <1>2, <1>3

\* Every step keeps this part, too.
LEMMA ReturnNext ==
  ASSUME SilentInv, ReturnInv, [Next]_vars
  PROVE  ReturnInv'
  <1>1. CASE NoSingleVerb \/ NotYet \/ Evaluate \/ Predict \/ Throw
    <2>1. (\E code : Exit(code)) /\ UNCHANGED disk
      BY <1>1 DEF NoSingleVerb, NotYet, Evaluate, Predict, Throw
    <2> QED
      BY <2>1, LeaveReturn
  <1>2. CASE Invoke \/ Check
    <2>1. UNCHANGED disk /\ (step' \in {"main", "build"} \/ \E code : Exit(code))
      BY <1>2 DEF Invoke, Check, Go
    <2>2. CASE \E code : Exit(code)
      BY <2>1, <2>2, LeaveReturn
    <2>3. CASE step' \in {"main", "build"}
      BY <2>1, <2>3 DEF ReturnInv, DiskExported, ComingBack, ExportedComesBack
    <2> QED
      BY <2>1, <2>2, <2>3
  <1>3. CASE UNCHANGED vars
    <2>1. UNCHANGED <<disk, cmd, step, module, todo, report>>
      BY <1>3 DEF vars
    <2>2. Verb' = Verb /\ (SameNetwork' <=> SameNetwork)
      BY <2>1 DEF Verb, SameNetwork
    <2>3. DiskExported'
      BY <2>1 DEF ReturnInv, DiskExported
    <2>4. ComingBack'
      BY <2>1, <2>2 DEF ReturnInv, ComingBack, IsComingBack
    <2>5. ExportedComesBack'
      BY <2>1, <2>2 DEF ReturnInv, ExportedComesBack
    <2> QED
      BY <2>3, <2>4, <2>5 DEF ReturnInv
  <1>4. CASE Build
    BY <1>4, BuildReturn
  <1>5. CASE OpenWeights
    BY <1>5, OpenReturn
  <1>6. CASE LoadKey
    BY <1>6, KeyReturn
  <1>7. CASE FinishLoad
    BY <1>7, FinishReturn
  <1>8. CASE Train
    BY <1>8, TrainReturn
  <1>9. CASE Export
    BY <1>9, ExportReturn
  <1> QED
    BY <1>1, <1>2, <1>3, <1>4, <1>5, <1>6, <1>7, <1>8, <1>9 DEF Next

\* What any network that can be built exports, every network built the same
\* way loads back: value for value, with nothing to report.
THEOREM ExportedComesBackHolds == Spec => []ExportedComesBack
  <1>1. Init => ReturnInv
    <2> SUFFICES ASSUME Init PROVE ReturnInv
      OBVIOUS
    <2>1. DiskExported
      BY DEF Init, DiskExported
    <2>2. ComingBack /\ ExportedComesBack
      BY DEF Init, ComingBack, ExportedComesBack
    <2> QED
      BY <2>1, <2>2 DEF ReturnInv
  <1>2. SilentInv /\ ReturnInv /\ [Next]_vars => ReturnInv'
    BY ReturnNext
  <1>3. ReturnInv => ExportedComesBack
    BY DEF ReturnInv
  <1> QED
    BY <1>1, <1>2, <1>3, SilentInvHolds, PTL DEF Spec

-----------------------------------------------------------------------------
(* More on lists *)

\* Induction, over a set of numbers.
LEMMA Induct ==
  ASSUME NEW S, 0 \in S, \A n \in Nat : n \in S => n + 1 \in S
  PROVE  \A n \in Nat : n \in S
  <1> DEFINE F == {n \in Nat : n \notin S}
  <1> SUFFICES ASSUME F # {} PROVE FALSE
    OBVIOUS
  <1>1. PICK n \in F : \A m \in F : n <= m
    <2> HIDE DEF F
    <2>1. F \in SUBSET Nat
      BY DEF F
    <2> QED
      BY <2>1, FirstOfNat
  <1>2. n # 0 /\ n \in Nat
    BY <1>1
  <1>3. n - 1 \in Nat /\ n - 1 \notin F
    BY <1>1, <1>2
  <1>4. n - 1 \in S
    BY <1>3
  <1> QED
    BY <1>1, <1>2, <1>3, <1>4

-----------------------------------------------------------------------------
(* Numbers and their bytes *)

IsPower(p) == p = [n \in 0 .. 8 |-> IF n = 0 THEN 1 ELSE Base * p[n - 1]]

\* The powers of the base.
LEMMA PowerIs ==
  /\ DOMAIN Power = 0 .. 8
  /\ Power[0] = 1
  /\ \A n \in 1 .. 8 : Power[n] = Base * Power[n - 1]
  /\ \A n \in 0 .. 8 : Power[n] \in Nat /\ Power[n] > 0
  <1> USE BaseAssumption
  <1>1. \E p : IsPower(p)
    <2>1. PICK b1, b2, b3, b4, b5, b6, b7, b8 :
            /\ b1 = Base * 1 /\ b2 = Base * b1 /\ b3 = Base * b2 /\ b4 = Base * b3
            /\ b5 = Base * b4 /\ b6 = Base * b5 /\ b7 = Base * b6 /\ b8 = Base * b7
      OBVIOUS
    <2>2. PICK s : s = <<1, b1, b2, b3, b4, b5, b6, b7, b8>>
      OBVIOUS
    <2>3. PICK p : p = [n \in 0 .. 8 |-> s[n + 1]]
      OBVIOUS
    <2>4. /\ p[0] = 1 /\ p[1] = b1 /\ p[2] = b2 /\ p[3] = b3 /\ p[4] = b4
          /\ p[5] = b5 /\ p[6] = b6 /\ p[7] = b7 /\ p[8] = b8
      BY <2>2, <2>3
    <2>5. \A n \in 0 .. 8 : n = 0 \/ n = 1 \/ n = 2 \/ n = 3 \/ n = 4 \/ n = 5 \/ n = 6
                            \/ n = 7 \/ n = 8
      OBVIOUS
    <2>6. \A n \in 0 .. 8 : p[n] = IF n = 0 THEN 1 ELSE Base * p[n - 1]
      BY <2>1, <2>4, <2>5
    <2>7. p = [n \in 0 .. 8 |-> p[n]]
      BY <2>3
    <2> QED
      BY <2>6, <2>7 DEF IsPower
  <1>2. PICK p : p = (CHOOSE q : IsPower(q))
    OBVIOUS
  <1>3. IsPower(p)
    BY <1>1, <1>2
  <1>4. Power = p
    BY <1>2 DEF Power, IsPower
  <1>5. /\ DOMAIN p = 0 .. 8 /\ p[0] = 1
        /\ \A n \in 1 .. 8 : p[n] = Base * p[n - 1]
    BY <1>3 DEF IsPower
  <1> DEFINE S == {n \in Nat : n \in 0 .. 8 => p[n] \in Nat /\ p[n] > 0}
  <1>6. 0 \in S
    BY <1>5
  <1>7. ASSUME NEW n \in Nat, n \in S PROVE n + 1 \in S
    <2> SUFFICES ASSUME n + 1 \in 0 .. 8 PROVE p[n + 1] \in Nat /\ p[n + 1] > 0
      OBVIOUS
    <2>1. n \in 0 .. 8 /\ n + 1 \in 1 .. 8 /\ n + 1 - 1 = n
      OBVIOUS
    <2>2. p[n] \in Nat /\ p[n] > 0 /\ p[n + 1] = Base * p[n]
      BY <1>5, <1>7, <2>1
    <2>3. PICK x \in Nat : x = p[n] /\ x > 0
      BY <2>2
    <2>4. Base * x \in Nat /\ Base * x > 0
      BY <2>3
    <2> QED
      BY <2>2, <2>3, <2>4
  <1>8. \A n \in Nat : n \in S
    <2> HIDE DEF S
    <2> QED
      BY <1>6, <1>7, Induct
  <1> QED
    BY <1>4, <1>5, <1>8

\* A quotient and its remainder.
LEMMA Parts ==
  ASSUME NEW x \in Nat, NEW d \in Nat, d > 0
  PROVE  /\ x \div d \in Nat /\ x % d \in Nat /\ x % d < d
         /\ x = (x \div d) * d + (x % d)
  <1>1. PICK e \in Int : e = x \div d
    OBVIOUS
  <1>2. PICK s \in Int : s = x % d
    OBVIOUS
  <1>3. x = d * e + s /\ 0 <= s /\ s < d
    BY <1>1, <1>2
  <1>4. e >= 0
    <2> SUFFICES ASSUME e < 0 PROVE FALSE
      OBVIOUS
    <2>1. PICK f \in Nat : e = -1 - f
      <3>1. -1 - e \in Nat /\ e = -1 - (-1 - e)
        OBVIOUS
      <3> QED
        BY <3>1
    <2>2. d * e = -d - d * f /\ d * f \in Nat
      BY <2>1
    <2> QED
      BY <1>3, <2>2
  <1>5. d * e = e * d
    OBVIOUS
  <1> QED
    BY <1>1, <1>2, <1>3, <1>4, <1>5

\* A number has one quotient and one remainder.
LEMMA Division ==
  ASSUME NEW x \in Nat, NEW d \in Nat, d > 0, NEW q \in Nat, NEW r \in Nat,
         r < d, x = q * d + r
  PROVE  x \div d = q /\ x % d = r
  <1>1. PICK e \in Int : e = x \div d
    OBVIOUS
  <1>2. PICK s \in Int : s = x % d
    OBVIOUS
  <1>3. x = d * e + s /\ 0 <= s /\ s < d
    BY <1>1, <1>2
  <1>4. CASE e > q
    <2>1. PICK f \in Nat : e = q + 1 + f
      <3>1. e - q - 1 \in Nat /\ e = q + 1 + (e - q - 1)
        BY <1>4
      <3> QED
        BY <3>1
    <2>2. d * e = q * d + d + d * f /\ d * f >= 0
      BY <2>1
    <2> QED
      BY <1>3, <2>2
  <1>5. CASE e < q
    <2>1. PICK f \in Nat : q = e + 1 + f
      <3>1. q - e - 1 \in Nat /\ q = e + 1 + (q - e - 1)
        BY <1>5
      <3> QED
        BY <3>1
    <2>2. q * d = d * e + d + d * f /\ d * f >= 0
      BY <2>1
    <2> QED
      BY <1>3, <2>2
  <1>6. CASE e = q
    <2>1. d * e = q * d
      BY <1>6
    <2> QED
      BY <1>1, <1>2, <1>3, <1>6, <2>1
  <1> QED
    BY <1>1, <1>4, <1>5, <1>6

\* The next digit of a number.
LEMMA NextDigit ==
  ASSUME NEW x \in Nat, NEW n \in 0 .. 7
  PROVE  /\ x % Power[n + 1] = (x % Power[n]) + ((x \div Power[n]) % Base) * Power[n]
         /\ (x \div Power[n]) % Base \in 0 .. Base - 1
  <1>1. PICK w \in Nat : w = Power[n] /\ w > 0
    BY PowerIs
  <1>2. Power[n + 1] = Base * w
    <2>1. n + 1 \in 1 .. 8 /\ n + 1 - 1 = n
      OBVIOUS
    <2> QED
      BY <1>1, <2>1, PowerIs
  <1>3. PICK q \in Nat : q = x \div w
    BY <1>1, Parts
  <1>4. PICK r \in Nat : r = x % w /\ r < w
    BY <1>1, Parts
  <1>5. x = w * q + r
    <2>1. x = q * w + r
      BY <1>1, <1>3, <1>4, Parts
    <2>2. q * w = w * q
      OBVIOUS
    <2> QED
      BY <2>1, <2>2
  <1>6. PICK e \in Nat : e = q \div Base
    BY BaseAssumption
  <1>7. PICK d \in Nat : d = q % Base /\ d < Base
    BY BaseAssumption
  <1>8. q = Base * e + d
    BY <1>6, <1>7, BaseAssumption
  <1>9. d * w + r \in Nat /\ d * w + r < Base * w /\ Base * w \in Nat /\ Base * w > 0
    <2>1. PICK f \in Nat : Base = d + 1 + f
      <3>1. Base - d - 1 \in Nat /\ Base = d + 1 + (Base - d - 1)
        BY <1>7, BaseAssumption
      <3> QED
        BY <3>1
    <2>2. Base * w = d * w + w + f * w
      BY <2>1
    <2>3. f * w \in Nat /\ d * w \in Nat
      OBVIOUS
    <2> QED
      BY <2>2, <2>3, <1>4
  <1>10. x = e * (Base * w) + (d * w + r)
    <2>1. w * q = w * (Base * e) + w * d
      BY <1>8, BaseAssumption
    <2>2. w * (Base * e) = e * (Base * w) /\ w * d = d * w
      BY BaseAssumption
    <2> QED
      <3>1. PICK a \in Nat, b \in Nat, c \in Nat : a = w * q /\ b = w * (Base * e) /\ c = w * d
        BY BaseAssumption
      <3>2. x = b + c + r
        BY <1>5, <2>1, <3>1
      <3> QED
        BY <2>2, <3>1, <3>2
  <1>11. x % (Base * w) = d * w + r
    <2>1. PICK dd \in Nat : dd = Base * w
      BY <1>9
    <2>2. PICK rr \in Nat : rr = d * w + r
      BY <1>9
    <2>3. x % dd = rr
      BY <2>1, <2>2, <1>9, <1>10, Division
    <2> QED
      BY <2>1, <2>2, <2>3
  <1> QED
    BY <1>1, <1>2, <1>3, <1>4, <1>7, <1>11, BaseAssumption

IsUnsigned(u, bytes) ==
  u = [k \in 0 .. Len(bytes) |-> IF k = 0 THEN 0 ELSE u[k - 1] + bytes[k] * Power[k - 1]]

\* The bytes of a number add up to it again.
LEMMA UnsignedDigits ==
  ASSUME NEW k \in Nat, NEW n \in 1 .. 8
  PROVE  /\ Unsigned(Digits(k, n)) = k % Power[n]
         /\ Len(Digits(k, n)) = n /\ Digits(k, n) # <<>>
         /\ Digits(k, n)[n] = ((k % Power[n]) \div Power[n - 1]) % Base
  <1>1. PICK x \in Nat : x = k % Power[n] /\ x < Power[n]
    <2>1. PICK w \in Nat : w = Power[n] /\ w > 0
      BY PowerIs
    <2> QED
      BY <2>1
  <1>2. PICK b : b = Digits(k, n)
    OBVIOUS
  <1>3. b = [d \in 1 .. n |-> (x \div Power[d - 1]) % Base]
    BY <1>1, <1>2 DEF Digits
  <1>4. \A d \in 1 .. n : (x \div Power[d - 1]) % Base \in Nat
    <2> TAKE d \in 1 .. n
    <2>1. PICK e \in 0 .. 7 : e = d - 1
      OBVIOUS
    <2>2. (x \div Power[e]) % Base \in 0 .. Base - 1
      BY NextDigit
    <2> QED
      BY <2>1, <2>2, BaseAssumption
  <1>5. b \in Seq(Nat) /\ Len(b) = n
    BY <1>3, <1>4
  <1>6. PICK w : w = [m \in 0 .. n |-> x % Power[m]]
    OBVIOUS
  <1>7. \A m \in 0 .. n : w[m] = IF m = 0 THEN 0 ELSE w[m - 1] + b[m] * Power[m - 1]
    <2> TAKE m \in 0 .. n
    <2>1. CASE m = 0
      <3>1. w[m] = x % 1
        BY <1>6, <2>1, PowerIs
      <3> QED
        BY <2>1, <3>1
    <2>2. CASE m # 0
      <3>1. m - 1 \in 0 .. 7 /\ m - 1 + 1 = m /\ m \in 1 .. n /\ m - 1 \in 0 .. n
        BY <2>2
      <3>2. x % Power[m] = (x % Power[m - 1]) + ((x \div Power[m - 1]) % Base) * Power[m - 1]
        BY <3>1, NextDigit
      <3>3. b[m] = (x \div Power[m - 1]) % Base
        BY <1>3, <3>1
      <3>4. w[m] = x % Power[m] /\ w[m - 1] = x % Power[m - 1]
        BY <1>6, <3>1
      <3> QED
        BY <2>2, <3>2, <3>3, <3>4
    <2> QED
      BY <2>1, <2>2
  <1>8. IsUnsigned(w, b)
    <2>1. w = [m \in 0 .. n |-> w[m]]
      BY <1>6
    <2> QED
      BY <1>5, <1>7, <2>1 DEF IsUnsigned
  <1>9. PICK u : u = (CHOOSE v : IsUnsigned(v, b))
    OBVIOUS
  <1>10. IsUnsigned(u, b)
    BY <1>8, <1>9
  <1>11. Unsigned(b) = u[n]
    BY <1>5, <1>9 DEF Unsigned, IsUnsigned
  <1>12. u[0] = 0 /\ \A m \in 1 .. n : u[m] = u[m - 1] + b[m] * Power[m - 1]
    BY <1>5, <1>10 DEF IsUnsigned
  <1> DEFINE S == {m \in Nat : m \in 0 .. n => u[m] = w[m]}
  <1>13. 0 \in S
    BY <1>7, <1>12
  <1>14. ASSUME NEW m \in Nat, m \in S PROVE m + 1 \in S
    <2> SUFFICES ASSUME m + 1 \in 0 .. n PROVE u[m + 1] = w[m + 1]
      OBVIOUS
    <2>1. m \in 0 .. n /\ m + 1 \in 1 .. n /\ m + 1 - 1 = m /\ m + 1 # 0
      OBVIOUS
    <2>2. u[m + 1] = u[m] + b[m + 1] * Power[m]
      BY <1>12, <2>1
    <2>3. w[m + 1] = w[m] + b[m + 1] * Power[m]
      BY <1>7, <2>1
    <2>4. u[m] = w[m]
      BY <1>14, <2>1
    <2> QED
      BY <2>2, <2>3, <2>4
  <1>15. \A m \in Nat : m \in S
    <2> HIDE DEF S
    <2> QED
      BY <1>13, <1>14, Induct
  <1>16. u[n] = x % Power[n]
    BY <1>6, <1>15
  <1>17. x % Power[n] = x
    <2>1. PICK v \in Nat : v = Power[n] /\ v > 0
      BY PowerIs
    <2> QED
      BY <1>1, <2>1
  <1>18. b[n] = (x \div Power[n - 1]) % Base /\ b # <<>>
    BY <1>3, <1>5
  <1> QED
    BY <1>1, <1>2, <1>5, <1>11, <1>16, <1>17, <1>18

\* The top byte of a number in the lower half is in the lower half.
LEMMA TopDigit ==
  ASSUME NEW k \in Nat, NEW n \in 1 .. 8, k < Power[n] \div 2
  PROVE  /\ k < Power[n] /\ k % Power[n] = k
         /\ (k \div Power[n - 1]) % Base < Base \div 2
  <1>1. n - 1 \in 0 .. 8
    OBVIOUS
  <1>2. PICK w \in Nat : w = Power[n - 1] /\ w > 0
    BY <1>1, PowerIs
  <1>3. Power[n] = Base * w
    BY <1>2, PowerIs
  <1>4. PICK h \in Nat : h = Base \div 2 /\ Base = 2 * h /\ h > 0
    BY BaseAssumption
  <1>5. PICK m \in Nat : m = h * w
    BY <1>2, <1>4
  <1>6. Power[n] = 2 * m /\ Power[n] \div 2 = m
    <2>1. Base * w = 2 * m
      BY <1>4, <1>5
    <2>2. (2 * m) \div 2 = m
      OBVIOUS
    <2> QED
      BY <1>3, <2>1, <2>2
  <1>7. k < m
    BY <1>6
  <1>8. k < 2 * m /\ k % (2 * m) = k
    BY <1>7
  <1>9. PICK q \in Nat : q = k \div w
    BY <1>2, Parts
  <1>10. PICK r \in Nat : r = k % w /\ r < w
    BY <1>2, Parts
  <1>11. k = w * q + r
    <2>1. k = q * w + r
      BY <1>2, <1>9, <1>10, Parts
    <2>2. q * w = w * q
      OBVIOUS
    <2> QED
      BY <2>1, <2>2
  <1>12. q < h
    <2> SUFFICES ASSUME q >= h PROVE FALSE
      OBVIOUS
    <2>1. PICK f \in Nat : q = h + f
      <3>1. q - h \in Nat /\ q = h + (q - h)
        OBVIOUS
      <3> QED
        BY <3>1
    <2>2. w * q = h * w + w * f /\ w * f \in Nat
      BY <2>1
    <2> QED
      BY <2>2, <1>5, <1>7, <1>11
  <1>13. q % Base = q
    BY <1>4, <1>12, BaseAssumption
  <1> QED
    BY <1>2, <1>4, <1>6, <1>8, <1>9, <1>12, <1>13

IntOps == {"BININT1", "BININT2", "BININT", "LONG1"}

\* What was put as an integer is read as the same, whatever its width.
LEMMA PutIntIs ==
  ASSUME NEW k \in Nat, k < Power[8] \div 2
  PROVE  \E op \in IntOps : \E a : PutInt(k) = OpArg(op, a) /\ IntOf(op, a) = k
  <1>1. Power[1] = Base
    BY PowerIs, BaseAssumption
  <1>2. /\ Power[1] \in Nat /\ Power[2] \in Nat /\ Power[4] \in Nat /\ Power[8] \in Nat
        /\ Power[1] > 0 /\ Power[2] > 0 /\ Power[4] > 0 /\ Power[8] > 0
    BY PowerIs
  <1>3. CASE k \in 0 .. Base - 1
    <2>1. PutInt(k) = OpArg("BININT1", Digits(k, 1))
      BY <1>3 DEF PutInt
    <2>2. IntOf("BININT1", Digits(k, 1)) = k % Power[1]
      BY UnsignedDigits DEF IntOf
    <2>3. k % Power[1] = k
      BY <1>1, <1>3, BaseAssumption
    <2> QED
      BY <2>1, <2>2, <2>3 DEF IntOps
  <1>4. CASE k \notin 0 .. Base - 1 /\ k \in 0 .. Power[2] - 1
    <2>1. PutInt(k) = OpArg("BININT2", Digits(k, 2))
      BY <1>4 DEF PutInt
    <2>2. IntOf("BININT2", Digits(k, 2)) = k % Power[2]
      BY UnsignedDigits DEF IntOf
    <2>3. k % Power[2] = k
      BY <1>2, <1>4
    <2> QED
      BY <2>1, <2>2, <2>3 DEF IntOps
  <1>5. ASSUME NEW n \in 1 .. 8, k < Power[n] \div 2, NEW op \in {"BININT", "LONG1"}
        PROVE  IntOf(op, Digits(k, n)) = k
    <2>1. PICK b : b = Digits(k, n)
      OBVIOUS
    <2>2. k % Power[n] = k /\ (k \div Power[n - 1]) % Base < Base \div 2
      BY <1>5, TopDigit
    <2>3. Unsigned(b) = k /\ Len(b) = n /\ b[n] = (k \div Power[n - 1]) % Base
      BY <2>1, <2>2, UnsignedDigits
    <2>4. ~(b[Len(b)] >= Base \div 2)
      <3>1. PICK d \in Int : d = (k \div Power[n - 1]) % Base
        <4>1. PICK e \in 0 .. 7 : e = n - 1
          OBVIOUS
        <4>2. (k \div Power[e]) % Base \in 0 .. Base - 1
          BY NextDigit
        <4> QED
          BY <4>1, <4>2, BaseAssumption
      <3> QED
        BY <2>2, <2>3, <3>1, BaseAssumption
    <2>5. Signed(b) = k
      BY <2>3, <2>4 DEF Signed
    <2>6. IntOf(op, b) = Signed(b)
      BY <1>5, <2>3 DEF IntOf
    <2> QED
      BY <2>1, <2>5, <2>6
  <1>6. CASE /\ k \notin 0 .. Base - 1 /\ k \notin 0 .. Power[2] - 1
             /\ k \in -(Power[4] \div 2) .. Power[4] \div 2 - 1
    <2>1. PutInt(k) = OpArg("BININT", Digits(k, 4))
      BY <1>6 DEF PutInt
    <2>2. k < Power[4] \div 2
      BY <1>2, <1>6
    <2>3. IntOf("BININT", Digits(k, 4)) = k
      BY <1>5, <2>2
    <2> QED
      BY <2>1, <2>3 DEF IntOps
  <1>7. CASE /\ k \notin 0 .. Base - 1 /\ k \notin 0 .. Power[2] - 1
             /\ k \notin -(Power[4] \div 2) .. Power[4] \div 2 - 1
    <2>1. PutInt(k) = OpArg("LONG1", Digits(k, LongBytes(k)))
      BY <1>7 DEF PutInt
    <2> DEFINE F == {n \in 1 .. 8 : k < Power[n] \div 2}
               W(n) == /\ k < Power[n] \div 2
                       /\ n = 1 \/ k >= Power[n - 1] \div 2
    <2>2. 8 \in F /\ F \in SUBSET Nat
      OBVIOUS
    <2>3. PICK n \in F : \A m \in F : n <= m
      <3> HIDE DEF F
      <3> QED
        BY <2>2, FirstOfNat
    <2>4. W(n) /\ n \in 1 .. 8
      <3>1. CASE n = 1
        BY <2>3, <3>1
      <3>2. CASE n # 1
        <4>1. n - 1 \in 1 .. 8 /\ n - 1 \notin F
          BY <2>3, <3>2
        <4>2. PICK w \in Nat : w = Power[n - 1]
          BY <4>1, PowerIs
        <4>3. ~(k < w \div 2)
          BY <4>1, <4>2
        <4>4. k >= w \div 2
          BY <4>3
        <4> QED
          BY <2>3, <4>2, <4>4
      <3> QED
        BY <3>1, <3>2
    <2>5. LongBytes(k) = CHOOSE n_1 \in 1 .. 8 : W(n_1)
      BY DEF LongBytes
    <2>6. LongBytes(k) \in 1 .. 8 /\ W(LongBytes(k))
      <3> HIDE DEF W
      <3> QED
        BY <2>4, <2>5
    <2>7. IntOf("LONG1", Digits(k, LongBytes(k))) = k
      <3>1. PICK l \in 1 .. 8 : l = LongBytes(k) /\ k < Power[l] \div 2
        BY <2>6
      <3> QED
        BY <1>5, <3>1
    <2> QED
      BY <2>1, <2>7 DEF IntOps
  <1> QED
    BY <1>3, <1>4, <1>6, <1>7

Joined(a, b) == a \o b

\* Two lists, one after the other.
LEMMA JoinedList ==
  ASSUME NEW a, IsList(a), NEW b, IsList(b)
  PROVE  /\ IsList(Joined(a, b)) /\ Len(Joined(a, b)) = Len(a) + Len(b)
         /\ Len(a) \in Nat /\ Len(b) \in Nat
         /\ \A k \in 1 .. Len(a) : Joined(a, b)[k] = a[k]
         /\ \A k \in 1 .. Len(b) : Joined(a, b)[Len(a) + k] = b[k]
  <1>1. PICK T : T = Range(a) \cup Range(b)
    OBVIOUS
  <1>2. /\ Len(a) \in Nat /\ DOMAIN a = 1 .. Len(a) /\ a = [k \in 1 .. Len(a) |-> a[k]]
        /\ Len(b) \in Nat /\ DOMAIN b = 1 .. Len(b) /\ b = [k \in 1 .. Len(b) |-> b[k]]
    BY ListHas
  <1>3. (\A k \in 1 .. Len(a) : a[k] \in T) /\ (\A k \in 1 .. Len(b) : b[k] \in T)
    BY <1>1, <1>2 DEF Range
  <1>4. a \in Seq(T) /\ b \in Seq(T)
    BY <1>2, <1>3
  <1>5. PICK c : c = a \o b
    OBVIOUS
  <1>6. /\ c \in Seq(T) /\ Len(c) = Len(a) + Len(b)
        /\ \A k \in 1 .. Len(c) : c[k] = IF k <= Len(a) THEN a[k] ELSE b[k - Len(a)]
    BY <1>4, <1>5, ConcatProperties
  <1>7. Len(c) \in Nat /\ DOMAIN c = 1 .. Len(c) /\ c = [k \in 1 .. Len(c) |-> c[k]]
    BY <1>6
  <1>8. IsList(c)
    BY <1>7, ListIs
  <1>9. \A k \in 1 .. Len(a) : c[k] = a[k]
    BY <1>2, <1>6
  <1>10. \A k \in 1 .. Len(b) : c[Len(a) + k] = b[k]
    <2> TAKE k \in 1 .. Len(b)
    <2>1. Len(a) + k \in 1 .. Len(c) /\ ~(Len(a) + k <= Len(a)) /\ Len(a) + k - Len(a) = k
      BY <1>2, <1>6
    <2> QED
      BY <1>6, <2>1
  <1>11. c = Joined(a, b)
    BY <1>5 DEF Joined
  <1> QED
    BY <1>2, <1>6, <1>8, <1>9, <1>10, <1>11

\* The same of lists of m and n elements.
IsJoint(c, a, m, b, n) ==
  /\ IsList(c) /\ Len(c) = m + n /\ m \in Nat /\ n \in Nat
  /\ \A k \in 1 .. m : c[k] = a[k]
  /\ \A k \in 1 .. n : c[m + k] = b[k]

\* Joining two lists joins them.
LEMMA Joins ==
  ASSUME NEW a, IsList(a), NEW b, IsList(b)
  PROVE  IsJoint(Joined(a, b), a, Len(a), b, Len(b))
  BY JoinedList DEF IsJoint

\* A part of a list.
LEMMA PartList ==
  ASSUME NEW s, IsList(s), NEW m \in 1 .. Len(s) + 1, NEW n \in m - 1 .. Len(s)
  PROVE  /\ IsList(SubSeq(s, m, n)) /\ Len(SubSeq(s, m, n)) = n - m + 1
         /\ \A k \in 1 .. n - m + 1 : SubSeq(s, m, n)[k] = s[m + k - 1]
  <1>2. Len(s) \in Nat /\ DOMAIN s = 1 .. Len(s) /\ s = [k \in 1 .. Len(s) |-> s[k]]
    BY ListHas
  <1>3. PICK T : T = Range(s)
    OBVIOUS
  <1>4. s \in Seq(T)
    BY <1>3 DEF IsList
  <1>5. PICK p : p = SubSeq(s, m, n)
    OBVIOUS
  <1>6. m \in Int /\ n \in Int /\ n - m + 1 \in Nat
    BY <1>2
  <1>7. p = [k \in 1 .. n - m + 1 |-> s[m + k - 1]]
    BY <1>4, <1>5, <1>6, <1>2
  <1>8. /\ DOMAIN p = 1 .. n - m + 1 /\ p = [k \in 1 .. n - m + 1 |-> p[k]]
        /\ \A k \in 1 .. n - m + 1 : p[k] = s[m + k - 1]
    BY <1>7
  <1>9. IsList(p) /\ Len(p) = n - m + 1
    BY <1>6, <1>8, ListIs
  <1> QED
    BY <1>5, <1>8, <1>9

\* Lists with the same elements are the same.
LEMMA SameList ==
  ASSUME NEW a, IsList(a), NEW b, IsList(b), Len(a) = Len(b),
         \A k \in 1 .. Len(a) : a[k] = b[k]
  PROVE  a = b
  BY ListHas

-----------------------------------------------------------------------------
(* Shapes *)

IsSpans(acc, shape, n) ==
  acc = [k \in n .. Len(shape) |-> IF k = Len(shape) THEN 1 ELSE shape[k + 1] * acc[k + 1]]

\* The spans of a shape, axis by axis from the last one.
LEMMA SpansExist ==
  ASSUME NEW shape, IsList(shape)
  PROVE  \E acc : IsSpans(acc, shape, 0)
  <1>1. PICK l \in Nat : l = Len(shape)
    BY ListHas
  <1> DEFINE S == {n \in Nat : n <= l => \E acc : IsSpans(acc, shape, l - n)}
  <1>2. 0 \in S
    <2>1. PICK f : f = [k \in l .. l |-> 1]
      OBVIOUS
    <2>2. \A k \in l .. l : k = l
      OBVIOUS
    <2>3. f = [k \in l - 0 .. l |-> IF k = l THEN 1 ELSE shape[k + 1] * f[k + 1]]
      BY <2>1, <2>2
    <2> QED
      BY <1>1, <2>3 DEF IsSpans
  <1>3. ASSUME NEW n \in Nat, n \in S PROVE n + 1 \in S
    <2> SUFFICES ASSUME n + 1 <= l PROVE \E acc : IsSpans(acc, shape, l - (n + 1))
      OBVIOUS
    <2>1. PICK f : IsSpans(f, shape, l - n)
      BY <1>3
    <2>2. PICK b \in Nat : b = l - (n + 1) /\ b < l /\ l - n = b + 1
      BY <1>1
    <2>3. f = [k \in b + 1 .. l |-> IF k = l THEN 1 ELSE shape[k + 1] * f[k + 1]]
      BY <1>1, <2>1, <2>2 DEF IsSpans
    <2>4. PICK h : h = [k \in b .. l |-> IF k = b THEN shape[b + 1] * f[b + 1] ELSE f[k]]
      OBVIOUS
    <2>5. \A k \in b + 1 .. l : h[k] = f[k]
      BY <2>4
    <2>6. \A k \in b .. l : h[k] = IF k = l THEN 1 ELSE shape[k + 1] * h[k + 1]
      <3> TAKE k \in b .. l
      <3>1. CASE k = b
        <4>1. h[k] = shape[b + 1] * f[b + 1] /\ h[b + 1] = f[b + 1] /\ k # l
          BY <2>2, <2>4, <2>5, <3>1
        <4> QED
          BY <3>1, <4>1
      <3>2. CASE k = l
        <4>1. k \in b + 1 .. l
          BY <2>2, <3>2
        <4> QED
          BY <2>3, <2>5, <3>2, <4>1
      <3>3. CASE k # b /\ k # l
        <4>1. k \in b + 1 .. l /\ k + 1 \in b + 1 .. l
          BY <2>2, <3>3
        <4>2. h[k] = f[k] /\ h[k + 1] = f[k + 1]
          BY <2>5, <4>1
        <4> QED
          BY <2>3, <3>3, <4>1, <4>2
      <3> QED
        BY <3>1, <3>2, <3>3
    <2>7. h = [k \in b .. l |-> h[k]]
      BY <2>4
    <2>8. h = [k \in b .. l |-> IF k = l THEN 1 ELSE shape[k + 1] * h[k + 1]]
      BY <2>6, <2>7
    <2> QED
      BY <1>1, <2>2, <2>8 DEF IsSpans
  <1>4. \A n \in Nat : n \in S
    <2> HIDE DEF S
    <2> QED
      BY <1>2, <1>3, Induct
  <1>5. l - l = 0 /\ l <= l
    OBVIOUS
  <1> QED
    BY <1>1, <1>4, <1>5

\* Spans are natural numbers.
LEMMA SpansAre ==
  ASSUME NEW shape, IsList(shape), \A k \in DOMAIN shape : shape[k] \in Nat
  PROVE  \A k \in 0 .. Len(shape) : Spans(shape)[k] \in Nat
  <1>1. PICK l \in Nat : l = Len(shape) /\ DOMAIN shape = 1 .. l
    BY ListHas
  <1>2. PICK acc : acc = (CHOOSE f : IsSpans(f, shape, 0))
    OBVIOUS
  <1>3. IsSpans(acc, shape, 0)
    BY <1>2, SpansExist
  <1>4. Spans(shape) = acc
    BY <1>2 DEF Spans, IsSpans
  <1>5. acc[l] = 1 /\ \A k \in 0 .. l - 1 : acc[k] = shape[k + 1] * acc[k + 1]
    BY <1>1, <1>3 DEF IsSpans
  <1> DEFINE S == {n \in Nat : n <= l => acc[l - n] \in Nat}
  <1>6. 0 \in S
    BY <1>5
  <1>7. ASSUME NEW n \in Nat, n \in S PROVE n + 1 \in S
    <2> SUFFICES ASSUME n + 1 <= l PROVE acc[l - (n + 1)] \in Nat
      OBVIOUS
    <2>1. PICK b \in Nat : b = l - (n + 1) /\ b \in 0 .. l - 1 /\ b + 1 = l - n /\ b + 1 \in 1 .. l
      OBVIOUS
    <2>2. acc[b + 1] \in Nat /\ shape[b + 1] \in Nat
      BY <1>1, <1>7, <2>1
    <2>3. PICK x \in Nat, y \in Nat : x = shape[b + 1] /\ y = acc[b + 1]
      BY <2>2
    <2>4. acc[b] = x * y
      BY <1>5, <2>1, <2>3
    <2> QED
      BY <2>1, <2>4
  <1>8. \A n \in Nat : n \in S
    <2> HIDE DEF S
    <2> QED
      BY <1>6, <1>7, Induct
  <1>9. ASSUME NEW k \in 0 .. l PROVE acc[k] \in Nat
    <2>1. l - k \in Nat /\ l - k <= l /\ l - (l - k) = k
      OBVIOUS
    <2>2. l - k \in S
      BY <1>8, <2>1
    <2> QED
      BY <2>1, <2>2
  <1> QED
    BY <1>1, <1>4, <1>9

\* The strides of a shape are contiguous.
LEMMA StridesAre ==
  ASSUME NEW shape, IsList(shape)
  PROVE  /\ IsList(Strides(shape)) /\ Len(Strides(shape)) = Len(shape)
         /\ \A k \in 1 .. Len(shape) : Strides(shape)[k] = Spans(shape)[k]
         /\ IsContiguous(shape, Strides(shape))
  <1>1. PICK l \in Nat : l = Len(shape) /\ DOMAIN shape = 1 .. l
    BY ListHas
  <1>2. PICK s : s = Strides(shape)
    OBVIOUS
  <1>3. /\ DOMAIN s = 1 .. l /\ s = [k \in 1 .. l |-> s[k]]
        /\ \A k \in 1 .. l : s[k] = Spans(shape)[k]
    BY <1>1, <1>2 DEF Strides
  <1>4. IsList(s) /\ Len(s) = l
    BY <1>3, ListIs
  <1>5. IsContiguous(shape, s)
    BY <1>1, <1>3, <1>4 DEF IsContiguous
  <1> QED
    BY <1>1, <1>2, <1>3, <1>4, <1>5

-----------------------------------------------------------------------------
(* The tokens of data.pkl *)

\* A list of one.
LEMMA OneList == ASSUME NEW e PROVE IsList(<<e>>) /\ Len(<<e>>) = 1 /\ <<e>>[1] = e
  <1>1. PICK s : s = <<e>>
    OBVIOUS
  <1>2. s \in Seq({e})
    BY <1>1
  <1>3. DOMAIN s = 1 .. 1 /\ s = [k \in 1 .. 1 |-> s[k]] /\ s[1] = e
    BY <1>1
  <1>4. IsList(s) /\ Len(s) = 1
    BY <1>3, ListIs
  <1> QED
    BY <1>1, <1>3, <1>4

\* A tuple of integers.
LEMMA IntsTokens ==
  ASSUME NEW s, IsList(s)
  PROVE  /\ IsList(PutInts(s)) /\ Len(PutInts(s)) = Len(s) + 2
         /\ PutInts(s)[1] = Op("MARK") /\ PutInts(s)[Len(s) + 2] = Op("TUPLE")
         /\ \A k \in 1 .. Len(s) : PutInts(s)[1 + k] = PutInt(s[k])
  <1>1. PICK l \in Nat : l = Len(s) /\ DOMAIN s = 1 .. l
    BY ListHas
  <1>2. PICK m, p, e : m = <<Op("MARK")>> /\ p = [k \in DOMAIN s |-> PutInt(s[k])] /\ e = <<Op("TUPLE")>>
    OBVIOUS
  <1>3. IsList(m) /\ Len(m) = 1 /\ m[1] = Op("MARK") /\ IsList(e) /\ Len(e) = 1 /\ e[1] = Op("TUPLE")
    BY <1>2, OneList
  <1>4. DOMAIN p = 1 .. l /\ p = [k \in 1 .. l |-> p[k]] /\ \A k \in 1 .. l : p[k] = PutInt(s[k])
    BY <1>1, <1>2
  <1>5. IsList(p) /\ Len(p) = l
    BY <1>4, ListIs
  <1>6. PICK a : a = Joined(m, p)
    OBVIOUS
  <1>7. /\ IsList(a) /\ Len(a) = 1 + l /\ (\A k \in 1 .. 1 : a[k] = m[k])
        /\ \A k \in 1 .. l : a[1 + k] = p[k]
    <2>1. IsJoint(a, m, 1, p, l)
      BY <1>3, <1>5, <1>6, Joins
    <2> QED
      BY <2>1 DEF IsJoint
  <1>8. PICK b : b = Joined(a, e)
    OBVIOUS
  <1>9. /\ IsList(b) /\ Len(b) = 1 + l + 1
        /\ (\A k \in 1 .. 1 + l : b[k] = a[k]) /\ (\A k \in 1 .. 1 : b[1 + l + k] = e[k])
    <2>1. IsJoint(b, a, 1 + l, e, 1)
      BY <1>3, <1>7, <1>8, Joins
    <2> QED
      BY <2>1 DEF IsJoint
  <1>10. \A k \in 1 .. l : 1 + k \in 1 .. 1 + l
    OBVIOUS
  <1>11. PutInts(s) = b
    BY <1>2, <1>6, <1>8 DEF PutInts, Joined
  <1> QED
    BY <1>1, <1>3, <1>4, <1>7, <1>9, <1>10, <1>11

\* What PutTensor begins with, and what it ends with.
HeadOf(name, t, i) ==
  <<OpArg("BINUNICODE", name), OpArg("GLOBAL", "_rebuild_tensor_v2"),
    Op("MARK"), Op("MARK"), OpArg("BINUNICODE", "storage"),
    OpArg("GLOBAL", StorageTypeName(t.dt)), OpArg("BINUNICODE", Decimal(i)),
    OpArg("BINUNICODE", "cpu"), PutInt(Product(t.shape)), Op("TUPLE"),
    Op("BINPERSID"), PutInt(0)>>
TailOf == <<Op("NEWFALSE"), Op("EMPTY_DICT"), Op("TUPLE"), Op("REDUCE")>>

\* The tokens of a tensor with n axes, by their places.
IsTurn(p, name, t, i, n) ==
  /\ n \in Nat /\ IsList(p) /\ Len(p) = 20 + 2 * n
  /\ \A k \in 1 .. 12 : p[k] = HeadOf(name, t, i)[k]
  /\ p[13] = Op("MARK") /\ p[14 + n] = Op("TUPLE")
  /\ \A k \in 1 .. n : p[13 + k] = PutInt(t.shape[k])
  /\ p[15 + n] = Op("MARK") /\ p[16 + 2 * n] = Op("TUPLE")
  /\ \A k \in 1 .. n : p[15 + n + k] = PutInt(Strides(t.shape)[k])
  /\ p[17 + 2 * n] = Op("NEWFALSE") /\ p[18 + 2 * n] = Op("EMPTY_DICT")
  /\ p[19 + 2 * n] = Op("TUPLE") /\ p[20 + 2 * n] = Op("REDUCE")

\* The pickle of a tensor is a turn.
LEMMA TensorTokens ==
  ASSUME NEW name, NEW t, NEW i, IsList(t.shape)
  PROVE  IsTurn(PutTensor(name, t, i), name, t, i, Len(t.shape))
  <1>a. PICK n, p : n = Len(t.shape) /\ p = PutTensor(name, t, i)
    OBVIOUS
  <1>1. n \in Nat
    BY <1>a, ListHas
  <1>2. PICK h, a, b, e : /\ h = HeadOf(name, t, i) /\ a = PutInts(t.shape)
                          /\ b = PutInts(Strides(t.shape)) /\ e = TailOf
    OBVIOUS
  <1>3. IsList(h) /\ Len(h) = 12
    <2>1. DOMAIN h = 1 .. 12 /\ h = [k \in 1 .. 12 |-> h[k]]
      BY <1>2 DEF HeadOf
    <2> QED
      BY <2>1, ListIs
  <1>4. /\ IsList(e) /\ Len(e) = 4 /\ e[1] = Op("NEWFALSE") /\ e[2] = Op("EMPTY_DICT")
        /\ e[3] = Op("TUPLE") /\ e[4] = Op("REDUCE")
    <2>1. /\ DOMAIN e = 1 .. 4 /\ e = [k \in 1 .. 4 |-> e[k]]
          /\ e[1] = Op("NEWFALSE") /\ e[2] = Op("EMPTY_DICT")
          /\ e[3] = Op("TUPLE") /\ e[4] = Op("REDUCE")
      BY <1>2 DEF TailOf
    <2> QED
      BY <2>1, ListIs
  <1>5. /\ IsList(a) /\ Len(a) = n + 2 /\ a[1] = Op("MARK") /\ a[n + 2] = Op("TUPLE")
        /\ \A k \in 1 .. n : a[1 + k] = PutInt(t.shape[k])
    BY <1>a, <1>2, IntsTokens
  <1>6. /\ IsList(b) /\ Len(b) = n + 2 /\ b[1] = Op("MARK") /\ b[n + 2] = Op("TUPLE")
        /\ \A k \in 1 .. n : b[1 + k] = PutInt(Strides(t.shape)[k])
    <2>1. PICK s : s = Strides(t.shape)
      OBVIOUS
    <2>2. IsList(s) /\ Len(s) = n
      BY <1>a, <2>1, StridesAre
    <2> QED
      BY <1>2, <2>1, <2>2, IntsTokens
  <1>7. PICK ha : ha = Joined(h, a)
    OBVIOUS
  <1>8. /\ IsList(ha) /\ Len(ha) = 12 + (n + 2)
        /\ (\A k \in 1 .. 12 : ha[k] = h[k]) /\ (\A k \in 1 .. n + 2 : ha[12 + k] = a[k])
    <2>1. IsJoint(ha, h, 12, a, n + 2)
      BY <1>3, <1>5, <1>7, Joins
    <2> QED
      BY <2>1 DEF IsJoint
  <1>9. PICK hab : hab = Joined(ha, b)
    OBVIOUS
  <1>10. /\ IsList(hab) /\ Len(hab) = 12 + (n + 2) + (n + 2)
         /\ (\A k \in 1 .. 12 + (n + 2) : hab[k] = ha[k])
         /\ (\A k \in 1 .. n + 2 : hab[12 + (n + 2) + k] = b[k])
    <2>1. IsJoint(hab, ha, 12 + (n + 2), b, n + 2)
      BY <1>6, <1>8, <1>9, Joins
    <2> QED
      BY <2>1 DEF IsJoint
  <1>11. PICK q : q = Joined(hab, e)
    OBVIOUS
  <1>12. /\ IsList(q) /\ Len(q) = 12 + (n + 2) + (n + 2) + 4
         /\ (\A k \in 1 .. 12 + (n + 2) + (n + 2) : q[k] = hab[k])
         /\ (\A k \in 1 .. 4 : q[12 + (n + 2) + (n + 2) + k] = e[k])
    <2>1. IsJoint(q, hab, 12 + (n + 2) + (n + 2), e, 4)
      BY <1>4, <1>10, <1>11, Joins
    <2> QED
      BY <2>1 DEF IsJoint
  <1>13. q = p
    BY <1>a, <1>2, <1>7, <1>9, <1>11 DEF PutTensor, HeadOf, TailOf, Joined
  <1>14. /\ \A k \in 1 .. 12 : q[k] = h[k]
         /\ \A k \in 1 .. n + 2 : q[12 + k] = a[k]
         /\ \A k \in 1 .. n + 2 : q[14 + n + k] = b[k]
         /\ \A k \in 1 .. 4 : q[16 + 2 * n + k] = e[k]
    <2>1. ASSUME NEW k \in 1 .. 12 PROVE q[k] = h[k]
      <3>1. k \in 1 .. 12 + (n + 2) + (n + 2) /\ k \in 1 .. 12 + (n + 2)
        BY <1>1
      <3> QED
        BY <1>8, <1>10, <1>12, <3>1
    <2>2. ASSUME NEW k \in 1 .. n + 2 PROVE q[12 + k] = a[k]
      <3>1. 12 + k \in 1 .. 12 + (n + 2) + (n + 2) /\ 12 + k \in 1 .. 12 + (n + 2)
        BY <1>1
      <3> QED
        BY <1>8, <1>10, <1>12, <3>1
    <2>3. ASSUME NEW k \in 1 .. n + 2 PROVE q[14 + n + k] = b[k]
      <3>1. 14 + n + k \in 1 .. 12 + (n + 2) + (n + 2) /\ 14 + n + k = 12 + (n + 2) + k
        BY <1>1
      <3> QED
        BY <1>10, <1>12, <3>1
    <2>4. ASSUME NEW k \in 1 .. 4 PROVE q[16 + 2 * n + k] = e[k]
      <3>1. 16 + 2 * n + k = 12 + (n + 2) + (n + 2) + k
        BY <1>1
      <3> QED
        BY <1>12, <3>1
    <2> QED
      BY <2>1, <2>2, <2>3, <2>4
  <1>15. Len(q) = 20 + 2 * n
    BY <1>1, <1>12
  <1>16. /\ q[13] = Op("MARK") /\ q[14 + n] = Op("TUPLE")
         /\ \A k \in 1 .. n : q[13 + k] = PutInt(t.shape[k])
    <2>a. 1 \in 1 .. n + 2 /\ n + 2 \in 1 .. n + 2 /\ 12 + (n + 2) = 14 + n /\ 12 + 1 = 13
      BY <1>1
    <2>1. q[12 + 1] = a[1] /\ q[12 + (n + 2)] = a[n + 2]
      BY <1>14, <2>a
    <2>2. ASSUME NEW k \in 1 .. n PROVE q[13 + k] = PutInt(t.shape[k])
      <3>1. 1 + k \in 1 .. n + 2 /\ 12 + (1 + k) = 13 + k
        BY <1>1
      <3> QED
        BY <1>5, <1>14, <3>1
    <2> QED
      BY <1>5, <2>a, <2>1, <2>2
  <1>17. /\ q[15 + n] = Op("MARK") /\ q[16 + 2 * n] = Op("TUPLE")
         /\ \A k \in 1 .. n : q[15 + n + k] = PutInt(Strides(t.shape)[k])
    <2>a. /\ 1 \in 1 .. n + 2 /\ n + 2 \in 1 .. n + 2
          /\ 14 + n + (n + 2) = 16 + 2 * n /\ 14 + n + 1 = 15 + n
      BY <1>1
    <2>1. q[14 + n + 1] = b[1] /\ q[14 + n + (n + 2)] = b[n + 2]
      BY <1>14, <2>a
    <2>2. ASSUME NEW k \in 1 .. n PROVE q[15 + n + k] = PutInt(Strides(t.shape)[k])
      <3>1. PICK j \in 1 .. n + 2 : j = 1 + k /\ 14 + n + j = 15 + n + k
        BY <1>1
      <3> QED
        BY <1>6, <1>14, <3>1
    <2> QED
      BY <1>6, <2>a, <2>1, <2>2
  <1>18. /\ q[17 + 2 * n] = Op("NEWFALSE") /\ q[18 + 2 * n] = Op("EMPTY_DICT")
         /\ q[19 + 2 * n] = Op("TUPLE") /\ q[20 + 2 * n] = Op("REDUCE")
    <2>1. /\ 16 + 2 * n + 1 = 17 + 2 * n /\ 16 + 2 * n + 2 = 18 + 2 * n
          /\ 16 + 2 * n + 3 = 19 + 2 * n /\ 16 + 2 * n + 4 = 20 + 2 * n
      BY <1>1
    <2>2. /\ q[16 + 2 * n + 1] = e[1] /\ q[16 + 2 * n + 2] = e[2]
          /\ q[16 + 2 * n + 3] = e[3] /\ q[16 + 2 * n + 4] = e[4]
      BY <1>14
    <2> QED
      BY <1>4, <2>1, <2>2
  <1> QED
    BY <1>a, <1>1, <1>2, <1>12, <1>13, <1>14, <1>15, <1>16, <1>17, <1>18 DEF IsTurn

\* The tokens of the i-th tensor, and those before and after all of them.
Turn(sd, i) == PutTensor(sd[i][1], sd[i][2], i - 1)
Opening == <<Op("PROTO"), Op("EMPTY_DICT"), Op("MARK")>>
Closing == <<Op("SETITEMS"), Op("STOP")>>

IsPickled(out, sd, n) ==
  out = [i \in 0 .. n |-> IF i = 0 THEN Opening ELSE Joined(out[i - 1], Turn(sd, i))]

\* The loop over the tensors has a value.
LEMMA PickledExists ==
  ASSUME NEW sd, NEW l \in Nat
  PROVE  \E out : IsPickled(out, sd, l)
  <1> DEFINE S == {n \in Nat : \E out : IsPickled(out, sd, n)}
             Put(o, k) == Joined(o, Turn(sd, k))
  <1>a. \A out, k : IsPickled(out, sd, k) <=>
          out = [j \in 0 .. k |-> IF j = 0 THEN Opening ELSE Put(out[j - 1], j)]
    BY DEF IsPickled
  <1> HIDE DEF Put
  <1>1. 0 \in S
    <2>1. PICK f : f = [g \in 0 .. 0 |-> Opening]
      OBVIOUS
    <2>2. f = [g \in 0 .. 0 |-> IF g = 0 THEN Opening ELSE Put(f[g - 1], g)]
      BY <2>1
    <2> QED
      BY <2>2, <1>a
  <1>2. ASSUME NEW m \in Nat, m \in S PROVE m + 1 \in S
    <2>1. PICK n \in Nat : n = m + 1 /\ n # 0 /\ n - 1 = m
      OBVIOUS
    <2>2. PICK f : IsPickled(f, sd, m)
      BY <1>2
    <2>3. f = [j \in 0 .. n - 1 |-> IF j = 0 THEN Opening ELSE Put(f[j - 1], j)]
      BY <1>a, <2>1, <2>2
    <2>4. /\ f[0] = Opening
          /\ \A g \in 1 .. n - 1 : f[g] = Put(f[g - 1], g)
      BY <2>1, <2>3
    <2>5. PICK h : h = [g \in 0 .. n |-> IF g = n THEN Put(f[n - 1], n) ELSE f[g]]
      OBVIOUS
    <2>6. \A g \in 0 .. n - 1 : h[g] = f[g]
      BY <2>1, <2>5
    <2>7. \A g \in 0 .. n : h[g] = IF g = 0 THEN Opening ELSE Put(h[g - 1], g)
      <3> TAKE g \in 0 .. n
      <3>1. CASE g = 0
        BY <2>1, <2>4, <2>5, <3>1
      <3>2. CASE g # 0 /\ g = n
        <4>1. h[g - 1] = f[n - 1] /\ h[g] = Put(f[n - 1], n)
          BY <2>1, <2>5, <2>6, <3>2
        <4> QED
          BY <3>2, <4>1
      <3>3. CASE g # 0 /\ g # n
        <4>1. g \in 1 .. n - 1 /\ g \in 0 .. n - 1 /\ g - 1 \in 0 .. n - 1
          BY <3>3
        <4>2. h[g] = f[g] /\ h[g - 1] = f[g - 1]
          BY <2>6, <4>1
        <4> QED
          BY <2>4, <3>3, <4>1, <4>2
      <3> QED
        BY <3>1, <3>2, <3>3
    <2>8. h = [g \in 0 .. n |-> h[g]]
      BY <2>5
    <2>9. h = [g \in 0 .. n |-> IF g = 0 THEN Opening ELSE Put(h[g - 1], g)]
      BY <2>7, <2>8
    <2> QED
      BY <2>1, <2>9, <1>a
  <1>3. \A n \in Nat : n \in S
    <2> HIDE DEF S
    <2> QED
      BY <1>1, <1>2, Induct
  <1> QED
    BY <1>3

\* Turn by turn.
LEMMA PickledIs ==
  ASSUME NEW sd, IsList(sd)
  PROVE  /\ Pickled(sd)[0] = Opening
         /\ \A i \in 1 .. Len(sd) : Pickled(sd)[i] = Joined(Pickled(sd)[i - 1], Turn(sd, i))
  <1>1. PICK out : out = (CHOOSE o : IsPickled(o, sd, Len(sd)))
    OBVIOUS
  <1>2. Len(sd) \in Nat
    BY ListHas
  <1>3. IsPickled(out, sd, Len(sd))
    BY <1>1, <1>2, PickledExists
  <1>4. Pickled(sd) = out
    BY <1>1 DEF Pickled, IsPickled, Opening, Turn, Joined
  <1>5. /\ out[0] = Opening
        /\ \A i \in 1 .. Len(sd) : out[i] = Joined(out[i - 1], Turn(sd, i))
    BY <1>2, <1>3 DEF IsPickled
  <1> QED
    BY <1>4, <1>5

\* The number of tokens before the (i + 1)-st turn.
Before(sd, i) == Len(Pickled(sd)[i])

\* p starts with the list o.
StartsWith(p, o) == Len(o) <= Len(p) /\ \A k \in 1 .. Len(o) : p[k] = o[k]

\* What starts with a list still does with more behind it.
LEMMA StartsJoined ==
  ASSUME NEW o, IsList(o), NEW a, IsList(a), NEW b, IsList(b), StartsWith(a, o)
  PROVE  StartsWith(Joined(a, b), o)
  <1>1. PICK c : c = Joined(a, b)
    OBVIOUS
  <1>2. PICK l \in Nat, m \in Nat, n \in Nat : l = Len(o) /\ m = Len(a) /\ n = Len(b)
    BY ListHas
  <1>3. IsJoint(c, a, m, b, n)
    BY <1>1, <1>2, Joins
  <1> QED
    BY <1>1, <1>2, <1>3 DEF IsJoint, StartsWith

\* A turn is a list.
LEMMA TurnList ==
  ASSUME NEW sd, IsStateDict(sd), NEW i \in 1 .. Len(sd)
  PROVE  /\ IsRawTensor(sd[i][2]) /\ IsList(Turn(sd, i))
         /\ Len(Turn(sd, i)) = 20 + 2 * Len(sd[i][2].shape)
         /\ IsTurn(Turn(sd, i), sd[i][1], sd[i][2], i - 1, Len(sd[i][2].shape))
         /\ Len(sd[i][2].shape) \in Nat
  <1>1. IsList(sd) /\ DOMAIN sd = 1 .. Len(sd)
    BY ListHas DEF IsStateDict
  <1>2. IsRawTensor(sd[i][2])
    BY <1>1 DEF IsStateDict
  <1>3. PICK t, n, p : t = sd[i][2] /\ n = Len(t.shape) /\ p = PutTensor(sd[i][1], t, i - 1)
    OBVIOUS
  <1>4. IsList(t.shape)
    BY <1>2, <1>3 DEF IsRawTensor
  <1>5. IsTurn(p, sd[i][1], t, i - 1, n) /\ n \in Nat /\ IsList(p) /\ Len(p) = 20 + 2 * n
    <2>1. IsTurn(p, sd[i][1], t, i - 1, n)
      BY <1>3, <1>4, TensorTokens
    <2> QED
      BY <2>1 DEF IsTurn
  <1>6. p = Turn(sd, i)
    BY <1>3 DEF Turn
  <1> QED
    BY <1>2, <1>3, <1>5, <1>6

\* What has been written stays where it is.
LEMMA PickledGrows ==
  ASSUME NEW sd, IsStateDict(sd)
  PROVE  \A n \in 0 .. Len(sd) :
           IsList(Pickled(sd)[n]) /\ \A i \in 0 .. n : StartsWith(Pickled(sd)[n], Pickled(sd)[i])
  <1>1. IsList(sd)
    BY DEF IsStateDict
  <1>2. PICK l \in Nat : l = Len(sd)
    BY <1>1, ListHas
  <1>3. PICK out : out = Pickled(sd)
    OBVIOUS
  <1>4. /\ out[0] = Opening
        /\ \A i \in 1 .. l : out[i] = Joined(out[i - 1], Turn(sd, i))
    BY <1>1, <1>2, <1>3, PickledIs
  <1> DEFINE Good(n) == \A i \in 0 .. n : IsList(out[i]) /\ StartsWith(out[n], out[i])
             S == {n \in Nat : n <= l => Good(n)}
  <1>5. \A o : IsList(o) => StartsWith(o, o)
    <2> TAKE o
    <2> HAVE IsList(o)
    <2>1. Len(o) \in Nat
      BY ListHas
    <2> QED
      BY <2>1 DEF StartsWith
  <1>6. 0 \in S
    <2>1. PICK o : o = Opening
      OBVIOUS
    <2>2. DOMAIN o = 1 .. 3 /\ o = [k \in 1 .. 3 |-> o[k]]
      BY <2>1 DEF Opening
    <2>3. IsList(o)
      BY <2>2, ListIs
    <2>4. \A i \in 0 .. 0 : i = 0
      OBVIOUS
    <2> QED
      BY <1>4, <1>5, <2>1, <2>3, <2>4
  <1>7. ASSUME NEW m \in Nat, m \in S PROVE m + 1 \in S
    <2> SUFFICES ASSUME m + 1 <= l PROVE Good(m + 1)
      OBVIOUS
    <2>1. PICK n \in 1 .. l : n = m + 1 /\ n - 1 = m
      OBVIOUS
    <2>2. Good(m)
      BY <1>7
    <2>3. out[n] = Joined(out[m], Turn(sd, n))
      BY <1>4, <2>1
    <2>4. IsList(out[m]) /\ IsList(Turn(sd, n))
      <3>1. m \in 0 .. m
        OBVIOUS
      <3> QED
        BY <1>2, <2>1, <2>2, <3>1, TurnList
    <2>5. IsList(out[n])
      <3>1. IsJoint(out[n], out[m], Len(out[m]), Turn(sd, n), Len(Turn(sd, n)))
        BY <2>3, <2>4, Joins
      <3> QED
        BY <3>1 DEF IsJoint
    <2>6. ASSUME NEW i \in 0 .. n PROVE IsList(out[i]) /\ StartsWith(out[n], out[i])
      <3>1. CASE i = n
        BY <1>5, <2>5, <3>1
      <3>2. CASE i # n
        <4>1. i \in 0 .. m /\ i \in Nat
          BY <2>1, <3>2
        <4>2. StartsWith(out[m], out[i])
          BY <2>2, <4>1
        <4>3. IsList(out[i])
          BY <2>2, <4>1
        <4> QED
          BY <2>3, <2>4, <4>2, <4>3, StartsJoined
      <3> QED
        BY <3>1, <3>2
    <2> QED
      BY <2>1, <2>6
  <1>8. \A n \in Nat : n \in S
    <2> HIDE DEF S
    <2> QED
      BY <1>6, <1>7, Induct
  <1> QED
    <2>1. ASSUME NEW n \in 0 .. l
          PROVE  IsList(out[n]) /\ \A i \in 0 .. n : StartsWith(out[n], out[i])
      <3>1. n \in S /\ n \in 0 .. n
        BY <1>8
      <3> QED
        BY <3>1
    <2> QED
      BY <1>2, <1>3, <2>1

\* data.pkl, token by token.
LEMMA TokensAre ==
  ASSUME NEW sd, IsStateDict(sd)
  PROVE  /\ Before(sd, 0) = 3
         /\ \A i \in 0 .. Len(sd) : Before(sd, i) \in Nat
         /\ \A k \in 1 .. 3 : DataPkl(sd)[k] = Opening[k]
         /\ \A i \in 1 .. Len(sd) : Before(sd, i) = Before(sd, i - 1) + Len(Turn(sd, i))
         /\ \A i \in 1 .. Len(sd) : \A j \in 1 .. Len(Turn(sd, i)) :
              DataPkl(sd)[Before(sd, i - 1) + j] = Turn(sd, i)[j]
         /\ DataPkl(sd)[Before(sd, Len(sd)) + 1] = Op("SETITEMS")
         /\ DataPkl(sd)[Before(sd, Len(sd)) + 2] = Op("STOP")
  <1>1. IsList(sd)
    BY DEF IsStateDict
  <1>2. PICK l \in Nat : l = Len(sd)
    BY <1>1, ListHas
  <1>3. PICK out, d : out = Pickled(sd) /\ d = DataPkl(sd)
    OBVIOUS
  <1>4. /\ out[0] = Opening
        /\ \A i \in 1 .. l : out[i] = Joined(out[i - 1], Turn(sd, i))
    BY <1>1, <1>2, <1>3, PickledIs
  <1>5. \A n \in 0 .. l :
          IsList(out[n]) /\ \A i \in 0 .. n : StartsWith(out[n], out[i])
    BY <1>2, <1>3, PickledGrows
  <1>6. PICK c : c = Closing
    OBVIOUS
  <1>7. IsList(c) /\ Len(c) = 2 /\ c[1] = Op("SETITEMS") /\ c[2] = Op("STOP")
    <2>1. DOMAIN c = 1 .. 2 /\ c = [k \in 1 .. 2 |-> c[k]] /\ c[1] = Op("SETITEMS") /\ c[2] = Op("STOP")
      BY <1>6 DEF Closing
    <2> QED
      BY <2>1, ListIs
  <1>8. d = Joined(out[l], c)
    BY <1>2, <1>3, <1>6 DEF DataPkl, Joined, Closing
  <1>9. l \in 0 .. l /\ IsList(out[l])
    BY <1>5
  <1>10. IsJoint(d, out[l], Len(out[l]), c, 2)
    BY <1>7, <1>8, <1>9, Joins
  <1>11. \A n \in 0 .. l : Len(out[n]) \in Nat /\ Before(sd, n) = Len(out[n])
    BY <1>3, <1>5, ListHas DEF Before
  <1>12. \A n \in 0 .. l : Len(out[n]) <= Len(out[l]) /\ \A k \in 1 .. Len(out[n]) : d[k] = out[n][k]
    <2> TAKE n \in 0 .. l
    <2>1. StartsWith(out[l], out[n])
      BY <1>5, <1>9
    <2>2. ASSUME NEW k \in 1 .. Len(out[n]) PROVE d[k] = out[n][k]
      <3>1. k \in 1 .. Len(out[l]) /\ out[l][k] = out[n][k]
        BY <1>9, <1>11, <2>1 DEF StartsWith
      <3> QED
        BY <1>10, <3>1 DEF IsJoint
    <2> QED
      BY <2>1, <2>2 DEF StartsWith
  <1>13. Len(Opening) = 3
    <2>1. PICK o : o = Opening
      OBVIOUS
    <2>2. DOMAIN o = 1 .. 3 /\ o = [k \in 1 .. 3 |-> o[k]]
      BY <2>1 DEF Opening
    <2> QED
      BY <2>1, <2>2, ListIs
  <1>14. Before(sd, 0) = 3 /\ \A k \in 1 .. 3 : d[k] = Opening[k]
    <2>1. 0 \in 0 .. l
      OBVIOUS
    <2>2. \A k \in 1 .. Len(out[0]) : d[k] = out[0][k]
      BY <1>12, <2>1
    <2> QED
      BY <1>4, <1>11, <1>13, <2>1, <2>2
  <1>15. ASSUME NEW i \in 1 .. l
         PROVE  /\ Before(sd, i) = Before(sd, i - 1) + Len(Turn(sd, i))
                /\ \A j \in 1 .. Len(Turn(sd, i)) : d[Before(sd, i - 1) + j] = Turn(sd, i)[j]
    <2>1. i \in 0 .. l /\ i - 1 \in 0 .. l
      OBVIOUS
    <2>2. IsList(out[i - 1]) /\ IsList(Turn(sd, i)) /\ Len(Turn(sd, i)) \in Nat
      BY <1>2, <1>5, <2>1, TurnList, ListHas
    <2>a. PICK b : b = out[i - 1]
      OBVIOUS
    <2>3. PICK m \in Nat, n \in Nat : m = Len(b) /\ n = Len(Turn(sd, i))
      BY <1>11, <2>a, <2>1, <2>2
    <2>4. IsJoint(out[i], b, m, Turn(sd, i), n)
      BY <1>4, <2>a, <2>2, <2>3, Joins
    <2>5. Before(sd, i) = m + n /\ Before(sd, i - 1) = m /\ Len(out[i]) = m + n
      BY <1>11, <2>a, <2>1, <2>3, <2>4 DEF IsJoint
    <2>6. ASSUME NEW j \in 1 .. n PROVE d[m + j] = Turn(sd, i)[j]
      <3>1. m + j \in 1 .. Len(out[i])
        BY <2>5
      <3>2. d[m + j] = out[i][m + j]
        BY <1>12, <2>1, <3>1
      <3>3. out[i][m + j] = Turn(sd, i)[j]
        BY <2>4 DEF IsJoint
      <3> QED
        BY <3>2, <3>3
    <2> QED
      BY <2>3, <2>5, <2>6
  <1>16. d[Before(sd, l) + 1] = Op("SETITEMS") /\ d[Before(sd, l) + 2] = Op("STOP")
    <2>1. Before(sd, l) = Len(out[l]) /\ 1 \in 1 .. 2 /\ 2 \in 1 .. 2
      BY <1>9, <1>11
    <2>2. d[Len(out[l]) + 1] = c[1] /\ d[Len(out[l]) + 2] = c[2]
      BY <1>10, <2>1 DEF IsJoint
    <2> QED
      BY <1>7, <2>1, <2>2
  <1> QED
    BY <1>2, <1>3, <1>11, <1>14, <1>15, <1>16

-----------------------------------------------------------------------------
(* The machine, opcode by opcode *)

Mark == Simple("Mark")
Added(s, v) == Append(s, v)

\* The tokens that only push a value.
Pushing(tok, v) ==
  \/ tok = Op("MARK") /\ v = Mark
  \/ tok = Op("NEWFALSE") /\ v = Simple("False")
  \/ tok = Op("EMPTY_DICT") /\ v = Dict(<<>>)
  \/ \E a : tok = OpArg("BINUNICODE", a) /\ v = Str(a)
  \/ \E a : tok = OpArg("GLOBAL", a) /\ v = Global(a)
  \/ \E op \in IntOps : \E a : tok = OpArg(op, a) /\ v = IntVal(IntOf(op, a))

Moved(s) == stack' = s /\ pos' = pos + 1 /\ UNCHANGED <<buf, status>>

\* What Execute does with a token depends on its opcode alone.
LEMMA OnlyOp ==
  ASSUME Execute
  PROVE  /\ status = "run" /\ pos <= Len(buf)
         /\ Token.op = "PROTO" => Proto
         /\ Token.op = "MARK" => MarkOp
         /\ Token.op = "NEWFALSE" => Push(Simple("False"))
         /\ Token.op = "EMPTY_DICT" => Push(Dict(<<>>))
         /\ Token.op = "BINUNICODE" => String
         /\ Token.op \in IntOps => Push(IntVal(IntOf(Token.op, Token.arg)))
         /\ Token.op = "GLOBAL" => Push(Global(Token.arg))
         /\ Token.op = "TUPLE" => TupleToMark
         /\ Token.op = "SETITEMS" => SetItems
         /\ Token.op = "BINPERSID" => BinPersid
         /\ Token.op = "REDUCE" => Reduce
         /\ Token.op = "STOP" => Stop
  <1>1. PICK o : o = Token.op
    OBVIOUS
  <1>2. \/ o = "PROTO" /\ Proto
        \/ o = "MARK" /\ MarkOp
        \/ o \in {"NEWTRUE", "NEWFALSE", "NONE", "BINFLOAT"} /\ Constant
        \/ o \in {"EMPTY_DICT", "EMPTY_TUPLE", "EMPTY_LIST"} /\ Empty
        \/ o = "BINUNICODE" /\ String
        \/ o \in IntOps /\ Integer
        \/ o \in {"GLOBAL", "STACK_GLOBAL"} /\ GlobalOp
        \/ o \in {"BINPUT", "BINGET"} 
        \/ o = "TUPLE" /\ TupleToMark
        \/ o \in {"TUPLE1", "TUPLE2", "TUPLE3"}
        \/ o \in {"NEWOBJ", "BUILD", "APPEND", "APPENDS", "SETITEM"}
        \/ o = "SETITEMS" /\ SetItems
        \/ o = "BINPERSID" /\ BinPersid
        \/ o = "REDUCE" /\ Reduce
        \/ o = "STOP" /\ Stop
    <2>1. CASE Proto
      BY <1>1, <2>1 DEF Proto, At
    <2>2. CASE MarkOp
      BY <1>1, <2>2 DEF MarkOp, At
    <2>3. CASE Constant
      BY <1>1, <2>3 DEF Constant, At
    <2>4. CASE Empty
      BY <1>1, <2>4 DEF Empty, At
    <2>5. CASE String
      BY <1>1, <2>5 DEF String, At
    <2>6. CASE Integer
      BY <1>1, <2>6 DEF Integer, At, IntOps
    <2>7. CASE GlobalOp
      BY <1>1, <2>7 DEF GlobalOp, At
    <2>8. CASE BinPut \/ BinGet
      BY <1>1, <2>8 DEF BinPut, BinGet, At
    <2>9. CASE TupleToMark
      BY <1>1, <2>9 DEF TupleToMark, At
    <2>10. CASE TupleN
      BY <1>1, <2>10 DEF TupleN, At
    <2>11. CASE NewObj \/ BuildOp \/ AppendOp \/ Appends \/ SetItem
      BY <1>1, <2>11 DEF NewObj, BuildOp, AppendOp, Appends, SetItem, At
    <2>12. CASE SetItems
      BY <1>1, <2>12 DEF SetItems, At
    <2>13. CASE BinPersid
      BY <1>1, <2>13 DEF BinPersid, At
    <2>14. CASE Reduce
      BY <1>1, <2>14 DEF Reduce, At
    <2>15. CASE Stop
      BY <1>1, <2>15 DEF Stop, At
    <2> QED
      BY <2>1, <2>2, <2>3, <2>4, <2>5, <2>6, <2>7, <2>8, <2>9, <2>10, <2>11, <2>12,
         <2>13, <2>14, <2>15 DEF Execute
  <1>3. status = "run" /\ pos <= Len(buf)
    <2>1. CASE Proto \/ MarkOp \/ Constant \/ Empty \/ String \/ Integer
      BY <2>1 DEF Proto, MarkOp, Constant, Empty, String, Integer, At
    <2>2. CASE GlobalOp \/ BinPut \/ BinGet \/ TupleToMark \/ TupleN
      BY <2>2 DEF GlobalOp, BinPut, BinGet, TupleToMark, TupleN, At
    <2>3. CASE NewObj \/ BuildOp \/ AppendOp \/ Appends \/ SetItem \/ SetItems
      BY <2>3 DEF NewObj, BuildOp, AppendOp, Appends, SetItem, SetItems, At
    <2>4. CASE BinPersid \/ Reduce \/ Stop
      BY <2>4 DEF BinPersid, Reduce, Stop, At
    <2> QED
      BY <2>1, <2>2, <2>3, <2>4 DEF Execute
  <1>4. o = "NEWFALSE" /\ Constant => Push(Simple("False"))
    BY <1>1 DEF Constant, At
  <1>5. o = "EMPTY_DICT" /\ Empty => Push(Dict(<<>>))
    BY <1>1 DEF Empty, At
  <1>6. o \in IntOps /\ Integer => Push(IntVal(IntOf(Token.op, Token.arg)))
    BY <1>1 DEF Integer, At
  <1>7. o = "GLOBAL" /\ GlobalOp => Push(Global(Token.arg))
    BY <1>1 DEF GlobalOp, At
  <1> QED
    BY <1>1, <1>2, <1>3, <1>4, <1>5, <1>6, <1>7 DEF IntOps

\* A value is pushed.
LEMMA PushStep ==
  ASSUME Execute, NEW v, Pushing(Token, v)
  PROVE  Moved(Added(stack, v))
  <1>1. SUFFICES ASSUME Push(v) PROVE Moved(Added(stack, v))
    <2>1. CASE Token = Op("MARK") /\ v = Mark
      BY <2>1, OnlyOp DEF Op, MarkOp, Mark
    <2>2. CASE Token = Op("NEWFALSE") /\ v = Simple("False")
      BY <2>2, OnlyOp DEF Op
    <2>3. CASE Token = Op("EMPTY_DICT") /\ v = Dict(<<>>)
      BY <2>3, OnlyOp DEF Op
    <2>4. CASE \E a : Token = OpArg("BINUNICODE", a) /\ v = Str(a)
      BY <2>4, OnlyOp DEF OpArg, String
    <2>5. CASE \E a : Token = OpArg("GLOBAL", a) /\ v = Global(a)
      BY <2>5, OnlyOp DEF OpArg
    <2>6. CASE \E op \in IntOps : \E a : Token = OpArg(op, a) /\ v = IntVal(IntOf(op, a))
      <3>0. PICK op \in IntOps : \E a : Token = OpArg(op, a) /\ v = IntVal(IntOf(op, a))
        BY <2>6
      <3>1. PICK a : Token = OpArg(op, a) /\ v = IntVal(IntOf(op, a))
        BY <3>0
      <3>2. Token.op = op /\ Token.arg = a
        BY <3>1 DEF OpArg
      <3> QED
        BY <3>1, <3>2, OnlyOp
    <2> QED
      BY <2>1, <2>2, <2>3, <2>4, <2>5, <2>6 DEF Pushing
  <1> QED
    BY <1>1 DEF Push, Become, Moved, Added

-----------------------------------------------------------------------------
(* What lies on the stack *)

\* t is s with v on top.
Grew(t, s, v) == /\ IsList(t) /\ Len(t) = Len(s) + 1
                 /\ \A k \in 1 .. Len(s) : t[k] = s[k]
                 /\ t[Len(s) + 1] = v

\* Pushing adds a value on top.
LEMMA AddedGrew ==
  ASSUME NEW s, IsList(s), NEW v
  PROVE  Grew(Added(s, v), s, v)
  <1>1. /\ IsList(Append(s, v)) /\ Len(Append(s, v)) = Len(s) + 1
        /\ \A k \in 1 .. Len(s) : Append(s, v)[k] = s[k]
        /\ Append(s, v)[Len(s) + 1] = v
    BY AppendList
  <1> QED
    BY <1>1 DEF Grew, Added

\* t is s up to m, and there v.
Cut(t, s, m, v) == /\ IsList(t) /\ Len(t) = m
                   /\ \A k \in 1 .. m - 1 : t[k] = s[k]
                   /\ t[m] = v

\* A value in the place of the m-th and all above it.
LEMMA CutBelow ==
  ASSUME NEW s, IsList(s), NEW m \in 1 .. Len(s), NEW v
  PROVE  Cut(Added(SubSeq(s, 1, m - 1), v), s, m, v)
  <1>1. Len(s) \in Nat
    BY ListHas
  <1>2. PICK l \in Nat : l = m - 1
    BY <1>1
  <1>3. 1 \in 1 .. Len(s) + 1 /\ l \in 1 - 1 .. Len(s)
    BY <1>1, <1>2
  <1>4. PICK p : p = SubSeq(s, 1, l)
    OBVIOUS
  <1>5. /\ IsList(p) /\ Len(p) = l - 1 + 1
        /\ \A k \in 1 .. l - 1 + 1 : p[k] = s[1 + k - 1]
    BY <1>3, <1>4, PartList
  <1>6. Len(p) = l /\ \A k \in 1 .. l : p[k] = s[k]
    <2>1. \A k \in 1 .. l : k \in 1 .. l - 1 + 1 /\ 1 + k - 1 = k
      BY <1>2
    <2>2. l - 1 + 1 = l
      BY <1>2
    <2> QED
      BY <1>5, <2>1, <2>2
  <1>7. Grew(Added(p, v), p, v)
    BY <1>5, AddedGrew
  <1>8. m = l + 1
    BY <1>2
  <1>9. Cut(Added(p, v), s, m, v)
    BY <1>2, <1>6, <1>7, <1>8 DEF Grew, Cut
  <1> QED
    BY <1>2, <1>4, <1>9

\* Above the first b places lie the first m of w.
OnTop(s, b, w, m) == IsList(s) /\ Len(s) = b + m /\ \A k \in 1 .. m : s[b + k] = w[k]

\* The next value of w is pushed.
LEMMA OnTopGrows ==
  ASSUME NEW s, NEW b \in Nat, NEW w, NEW m \in Nat, OnTop(s, b, w, m),
         NEW t, Grew(t, s, w[m + 1])
  PROVE  OnTop(t, b, w, m + 1) /\ \A k \in 1 .. b : t[k] = s[k]
  <1>1. Len(s) = b + m /\ Len(t) = b + (m + 1) /\ IsList(t)
    BY DEF OnTop, Grew
  <1>2. ASSUME NEW k \in 1 .. m + 1 PROVE t[b + k] = w[k]
    <2>1. CASE k = m + 1
      <3>1. b + k = Len(s) + 1
        BY <1>1, <2>1
      <3> QED
        BY <2>1, <3>1 DEF Grew
    <2>2. CASE k \in 1 .. m
      <3>1. b + k \in 1 .. Len(s)
        BY <1>1, <2>2
      <3> QED
        BY <2>2, <3>1 DEF Grew, OnTop
    <2> QED
      BY <2>1, <2>2
  <1>3. \A k \in 1 .. b : k \in 1 .. Len(s)
    BY <1>1
  <1> QED
    BY <1>1, <1>2, <1>3 DEF OnTop, Grew

\* x is w up to the c-th place, and there v.
Changed(x, w, c, v) == x[c] = v /\ \A k \in 1 .. c - 1 : x[k] = w[k]

IsSum(d, b, c) == d = b + c
SameUpTo(t, s, b) == \A k \in 1 .. b : t[k] = s[k]

\* Above b, s is cut at the c-th place, where v comes, so that u lies there.
LEMMA OnTopCut ==
  ASSUME NEW s, NEW b \in Nat, NEW w, NEW m \in Nat, OnTop(s, b, w, m),
         NEW c \in 1 .. m, NEW v, NEW t, NEW d, IsSum(d, b, c), Cut(t, s, d, v),
         NEW u, Changed(u, w, c, v)
  PROVE  OnTop(t, b, u, c) /\ SameUpTo(t, s, b)
  <1> SUFFICES ASSUME Cut(t, s, b + c, v)
               PROVE  OnTop(t, b, u, c) /\ \A k \in 1 .. b : t[k] = s[k]
    BY DEF IsSum, SameUpTo
  <1>1. Len(t) = b + c /\ IsList(t) /\ t[b + c] = v /\ Len(s) = b + m
    BY DEF Cut, OnTop
  <1>2. ASSUME NEW k \in 1 .. c PROVE t[b + k] = u[k]
    <2>1. CASE k = c
      BY <1>1, <2>1 DEF Changed
    <2>2. CASE k \in 1 .. c - 1
      <3>1. b + k \in 1 .. b + c - 1 /\ k \in 1 .. m
        BY <2>2
      <3>2. t[b + k] = s[b + k]
        BY <3>1 DEF Cut
      <3> QED
        BY <2>2, <3>1, <3>2 DEF OnTop, Changed
    <2> QED
      BY <2>1, <2>2
  <1>3. \A k \in 1 .. b : k \in 1 .. b + c - 1
    OBVIOUS
  <1> QED
    BY <1>1, <1>2, <1>3 DEF OnTop, Cut

\* The same, by another list.
LEMMA OnTopSame ==
  ASSUME NEW s, NEW b, NEW w, NEW m, OnTop(s, b, w, m),
         NEW u, \A k \in 1 .. m : u[k] = w[k]
  PROVE  OnTop(s, b, u, m)
  BY DEF OnTop

-----------------------------------------------------------------------------
(* The opcodes that take from the stack *)

Part(s, m, n) == SubSeq(s, m, n)

\* The last mark.
LEMMA MarkIs ==
  ASSUME IsList(stack), NEW m \in 1 .. Len(stack), stack[m] = Mark,
         \A k \in m + 1 .. Len(stack) : ~IsMark(stack[k])
  PROVE  Marks # {} /\ LastMark = m
  <1>1. Len(stack) \in Nat /\ DOMAIN stack = 1 .. Len(stack)
    BY ListHas
  <1>2. m \in Marks
    BY <1>1 DEF Marks, IsMark, Mark, Simple
  <1>3. \A l \in Marks : l \in 1 .. Len(stack) /\ l <= m
    <2> TAKE l \in Marks
    <2>1. l \in 1 .. Len(stack) /\ IsMark(stack[l])
      BY <1>1 DEF Marks
    <2>2. l \notin m + 1 .. Len(stack)
      BY <2>1
    <2> QED
      BY <1>1, <2>1, <2>2
  <1>4. \A k \in Marks : (\A l \in Marks : l <= k) => k = m
    BY <1>1, <1>2, <1>3
  <1>5. PICK k : k = LastMark
    OBVIOUS
  <1>6. k \in Marks /\ \A l \in Marks : l <= k
    BY <1>2, <1>3, <1>5 DEF LastMark
  <1> QED
    BY <1>2, <1>4, <1>5, <1>6

\* A tuple is made of what lies above the last mark, and takes its place.
LEMMA TupleStep ==
  ASSUME Execute, Token = Op("TUPLE"),
         IsList(stack), NEW m \in 1 .. Len(stack), stack[m] = Mark,
         \A k \in m + 1 .. Len(stack) : ~IsMark(stack[k])
  PROVE  /\ Cut(stack', stack, m, Tuple(Part(stack, m + 1, Len(stack))))
         /\ pos' = pos + 1 /\ UNCHANGED <<buf, status>>
  <1>1. TupleToMark
    BY OnlyOp DEF Op
  <1>2. LastMark = m
    BY MarkIs
  <1>3. PICK v : v = Tuple(Part(stack, m + 1, Len(stack)))
    OBVIOUS
  <1>4. stack' = Added(SubSeq(stack, 1, m - 1), v) /\ pos' = pos + 1 /\ UNCHANGED <<buf, status>>
    BY <1>1, <1>2, <1>3 DEF TupleToMark, Become, Added, BelowMark, PoppedToMark, Part
  <1>5. Cut(Added(SubSeq(stack, 1, m - 1), v), stack, m, v)
    BY CutBelow
  <1> QED
    BY <1>3, <1>4, <1>5

\* u is what w has from c to m.
IsPart(u, w, c, m) == IsList(u) /\ Len(u) = m - c /\ \A k \in 1 .. m - c : u[k] = w[c + k]

\* What lies above a place.
LEMMA PartOnTop ==
  ASSUME NEW s, NEW b \in Nat, NEW w, NEW m \in Nat, OnTop(s, b, w, m), NEW c \in 0 .. m,
         NEW u, IsPart(u, w, c, m)
  PROVE  \A d \in Nat : d = b + c + 1 => Part(s, d, Len(s)) = u
  <1>1. Len(s) = b + m /\ IsList(s)
    BY DEF OnTop
  <1>2. PICK x \in Nat, l \in Nat : x = b + c + 1 /\ l = Len(s)
    BY <1>1
  <1>a. PICK p : p = SubSeq(s, x, l)
    OBVIOUS
  <1>3. x \in 1 .. Len(s) + 1 /\ l \in x - 1 .. Len(s)
    BY <1>1, <1>2
  <1>4. /\ IsList(p) /\ Len(p) = l - x + 1
        /\ \A k \in 1 .. l - x + 1 : p[k] = s[x + k - 1]
    BY <1>1, <1>a, <1>3, PartList
  <1>5. Len(p) = m - c
    BY <1>1, <1>2, <1>4
  <1>6. ASSUME NEW k \in 1 .. Len(p) PROVE p[k] = u[k]
    <2>1. k \in 1 .. l - x + 1 /\ x + k - 1 = b + (c + k) /\ c + k \in 1 .. m
      BY <1>1, <1>2, <1>5
    <2>2. p[k] = s[b + (c + k)]
      BY <1>4, <2>1
    <2>3. s[b + (c + k)] = w[c + k]
      BY <2>1 DEF OnTop
    <2>4. k \in 1 .. m - c
      BY <1>5
    <2> QED
      BY <2>2, <2>3, <2>4 DEF IsPart
  <1>7. p = u
    BY <1>4, <1>5, <1>6, SameList DEF IsPart
  <1> QED
    BY <1>2, <1>a, <1>7 DEF Part

\* A persistent id names a storage.
LEMMA PersidStep ==
  ASSUME Execute, Token = Op("BINPERSID"), IsList(stack), Len(stack) > 0,
         NEW u, stack[Len(stack)] = Tuple(u), Len(u) = 5, u[1] = Str("storage"),
         NEW name \in DOMAIN DTypeOf, u[2] = Global(name), NEW key, u[3] = Str(key)
  PROVE  /\ Cut(stack', stack, Len(stack), Storage(key, DTypeOf[name]))
         /\ pos' = pos + 1 /\ UNCHANGED <<buf, status>>
  <1>1. BinPersid
    BY OnlyOp DEF Op
  <1>2. PICK v : v = Storage(key, DTypeOf[name])
    OBVIOUS
  <1>3. Top.items = u
    BY DEF Top, Tuple
  <1>a. PICK x, y : x = u[3] /\ y = u[2]
    OBVIOUS
  <1>b. x.kind = "Str" /\ x.s = key /\ y.s2 = name
    BY <1>a DEF Str, Global
  <1>c. StorageKey(x) = key
    BY <1>b DEF StorageKey
  <1>4. StorageKey(Top.items[3]) = key /\ Top.items[2].s2 = name
    BY <1>3, <1>a, <1>b, <1>c
  <1>5. stack' = Added(SubSeq(stack, 1, Len(stack) - 1), v) /\ pos' = pos + 1 /\ UNCHANGED <<buf, status>>
    BY <1>1, <1>2, <1>4 DEF BinPersid, Below, Added
  <1>6. Len(stack) \in 1 .. Len(stack)
    <2>1. Len(stack) \in Nat
      BY ListHas
    <2> QED
      BY <2>1
  <1>7. Cut(Added(SubSeq(stack, 1, Len(stack) - 1), v), stack, Len(stack), v)
    BY <1>6, CutBelow
  <1> QED
    BY <1>2, <1>5, <1>7

IntVals(s) == [k \in DOMAIN s |-> IntVal(s[k])]

\* And what is read back of the integers of a tuple.
LEMMA IntValsList ==
  ASSUME NEW s, IsList(s)
  PROVE  /\ IsList(IntVals(s)) /\ Len(IntVals(s)) = Len(s)
         /\ \A k \in 1 .. Len(s) : IntVals(s)[k] = IntVal(s[k])
         /\ Ints(Tuple(IntVals(s))) = s
  <1>1. PICK l \in Nat : l = Len(s) /\ DOMAIN s = 1 .. l /\ s = [k \in 1 .. l |-> s[k]]
    BY ListHas
  <1>2. PICK v : v = IntVals(s)
    OBVIOUS
  <1>3. DOMAIN v = 1 .. l /\ v = [k \in 1 .. l |-> v[k]] /\ \A k \in 1 .. l : v[k] = IntVal(s[k])
    BY <1>1, <1>2 DEF IntVals
  <1>4. IsList(v) /\ Len(v) = l
    BY <1>3, ListIs
  <1>5. Ints(Tuple(v)) = [k \in DOMAIN v |-> IntOrZero(v[k])]
    BY DEF Ints, Tuple
  <1>6. \A k \in 1 .. l : IntOrZero(v[k]) = s[k]
    BY <1>3 DEF IntOrZero, IntVal
  <1>7. Ints(Tuple(v)) = s
    BY <1>1, <1>3, <1>5, <1>6
  <1> QED
    BY <1>1, <1>2, <1>3, <1>4, <1>7

\* A function and its arguments become the description of a tensor.
LEMMA ReduceStep ==
  ASSUME Execute, Token = Op("REDUCE"), IsList(stack), Len(stack) > 1,
         NEW u, stack[Len(stack) - 1] = Global("_rebuild_tensor_v2"), stack[Len(stack)] = Tuple(u),
         NEW st, u[1] = st, u[2] = IntVal(0),
         NEW shape, IsList(shape), u[3] = Tuple(IntVals(shape)),
         NEW stride, IsList(stride), u[4] = Tuple(IntVals(stride))
  PROVE  /\ Cut(stack', stack, Len(stack) - 1, TensorVal(st, 0, shape, stride))
         /\ pos' = pos + 1 /\ UNCHANGED <<buf, status>>
  <1>1. Reduce
    BY OnlyOp DEF Op
  <1>2. PICK v : v = TensorVal(st, 0, shape, stride)
    OBVIOUS
  <1>3. PICK l \in Nat : l = Len(stack) - 1 /\ l > 0 /\ Len(stack) - 0 = Len(stack)
    <2>1. Len(stack) \in Nat
      BY ListHas
    <2> QED
      BY <2>1
  <1>4. Arg(1) = Global("_rebuild_tensor_v2") /\ Arg(0) = Tuple(u)
    BY <1>3 DEF Arg
  <1>5. Tuple(u).items = u /\ IntOrZero(u[2]) = 0
    BY DEF Tuple, IntOrZero, IntVal
  <1>6. Ints(u[3]) = shape /\ Ints(u[4]) = stride
    BY IntValsList
  <1>7. Reduced(Arg(1), Arg(0)) = v
    BY <1>2, <1>4, <1>5, <1>6 DEF Reduced, IsRebuild
  <1>8. Below(2) = SubSeq(stack, 1, l - 1)
    <2>1. Len(stack) - 2 = l - 1
      BY <1>3
    <2> QED
      BY <2>1 DEF Below
  <1>9. stack' = Added(SubSeq(stack, 1, l - 1), v) /\ pos' = pos + 1 /\ UNCHANGED <<buf, status>>
    BY <1>1, <1>7, <1>8 DEF Reduce, Become, Added
  <1>10. l \in 1 .. Len(stack)
    BY <1>3
  <1>11. Cut(Added(SubSeq(stack, 1, l - 1), v), stack, l, v)
    BY <1>10, CutBelow
  <1> QED
    BY <1>2, <1>3, <1>9, <1>11

-----------------------------------------------------------------------------
(* One tensor *)

\* What the machine makes of the i-th tensor.
StoreOf(sd, i) == Storage(Decimal(i - 1), sd[i][2].dt)
Held(sd, i) == TensorVal(StoreOf(sd, i), 0, sd[i][2].shape, Strides(sd[i][2].shape))
Sizes(sd, i) == Tuple(IntVals(sd[i][2].shape))
Steps(sd, i) == Tuple(IntVals(Strides(sd[i][2].shape)))
Axes(sd, i) == Len(sd[i][2].shape)

\* A dictionary and a mark, and above them names and tensors.
Ground(s, sd, i) ==
  /\ IsList(s) /\ Len(s) >= 2 + 2 * i /\ s[1] = Dict(<<>>) /\ s[2] = Mark
  /\ \A m \in 1 .. i : s[2 * m + 1] = Str(sd[m][1]) /\ s[2 * m + 2] = Held(sd, m)

PersItems(sd, i) ==
  <<Str("storage"), Global(StorageTypeName(sd[i][2].dt)), Str(Decimal(i - 1)),
    Str("cpu"), IntVal(Product(sd[i][2].shape))>>
Arguments(sd, i) ==
  <<StoreOf(sd, i), IntVal(0), Sizes(sd, i), Steps(sd, i), Simple("False"), Dict(<<>>)>>

\* What lies above the ground in the course of a turn.
ToPersid(sd, i) ==
  <<Str(sd[i][1]), Global("_rebuild_tensor_v2"), Mark, Mark,
    Str("storage"), Global(StorageTypeName(sd[i][2].dt)), Str(Decimal(i - 1)),
    Str("cpu"), IntVal(Product(sd[i][2].shape))>>
AtPersid(sd, i) ==
  <<Str(sd[i][1]), Global("_rebuild_tensor_v2"), Mark, Tuple(PersItems(sd, i))>>
ToSizes(sd, i) ==
  Joined(<<Str(sd[i][1]), Global("_rebuild_tensor_v2"), Mark, StoreOf(sd, i), IntVal(0), Mark>>,
         IntVals(sd[i][2].shape))
ToSteps(sd, i) ==
  Joined(<<Str(sd[i][1]), Global("_rebuild_tensor_v2"), Mark, StoreOf(sd, i), IntVal(0),
           Sizes(sd, i), Mark>>, IntVals(Strides(sd[i][2].shape)))
ToReduce(sd, i) ==
  <<Str(sd[i][1]), Global("_rebuild_tensor_v2"), Mark, StoreOf(sd, i), IntVal(0),
    Sizes(sd, i), Steps(sd, i), Simple("False"), Dict(<<>>)>>
AtReduce(sd, i) == <<Str(sd[i][1]), Global("_rebuild_tensor_v2"), Tuple(Arguments(sd, i))>>

\* After j tokens of the i-th turn.
Phase(s, sd, i, j) ==
  LET n == Axes(sd, i) IN
  \/ j \in 0 .. 9 /\ OnTop(s, 2 * i, ToPersid(sd, i), j)
  \/ j = 10 /\ OnTop(s, 2 * i, AtPersid(sd, i), 4)
  \/ j \in 11 .. 13 + n /\ OnTop(s, 2 * i, ToSizes(sd, i), j - 7)
  \/ j \in 14 + n .. 15 + 2 * n /\ OnTop(s, 2 * i, ToSteps(sd, i), j - 8 - n)
  \/ j \in 16 + 2 * n .. 18 + 2 * n /\ OnTop(s, 2 * i, ToReduce(sd, i), j - 9 - 2 * n)
  \/ j = 19 + 2 * n /\ OnTop(s, 2 * i, AtReduce(sd, i), 3)

\* The ground is not touched.
LEMMA GroundKept ==
  ASSUME NEW s, NEW sd, NEW i \in Nat \ {0}, Ground(s, sd, i - 1),
         NEW t, IsList(t), Len(t) >= 2 * i, \A k \in 1 .. 2 * i : t[k] = s[k]
  PROVE  Ground(t, sd, i - 1)
  <1>1. 1 \in 1 .. 2 * i /\ 2 \in 1 .. 2 * i /\ 2 + 2 * (i - 1) = 2 * i
    OBVIOUS
  <1>2. ASSUME NEW m \in 1 .. i - 1
        PROVE  t[2 * m + 1] = Str(sd[m][1]) /\ t[2 * m + 2] = Held(sd, m)
    <2>1. 2 * m + 1 \in 1 .. 2 * i /\ 2 * m + 2 \in 1 .. 2 * i
      OBVIOUS
    <2> QED
      BY <2>1 DEF Ground
  <1> QED
    BY <1>1, <1>2 DEF Ground

Advance == pos' = pos + 1 /\ UNCHANGED <<buf, status>>

\* The next value of w is pushed.
LEMMA PushOn ==
  ASSUME Execute, NEW sd, NEW i \in Nat \ {0}, Ground(stack, sd, i - 1),
         NEW w, NEW m \in Nat, OnTop(stack, 2 * i, w, m), Pushing(Token, w[m + 1])
  PROVE  Ground(stack', sd, i - 1) /\ OnTop(stack', 2 * i, w, m + 1) /\ Advance
  <1>1. PICK v, t : v = w[m + 1] /\ t = Added(stack, v)
    OBVIOUS
  <1>2. stack' = t /\ Advance
    BY <1>1, PushStep DEF Moved, Advance
  <1>3. IsList(stack)
    BY DEF OnTop
  <1>4. Grew(t, stack, v)
    BY <1>1, <1>3, AddedGrew
  <1>5. 2 * i \in Nat
    OBVIOUS
  <1>6. OnTop(t, 2 * i, w, m + 1) /\ \A k \in 1 .. 2 * i : t[k] = stack[k]
    BY <1>1, <1>4, <1>5, OnTopGrows
  <1>7. IsList(t) /\ Len(t) >= 2 * i
    BY <1>6 DEF OnTop
  <1>8. Ground(t, sd, i - 1)
    BY <1>6, <1>7, GroundKept
  <1> QED
    BY <1>2, <1>6, <1>8

\* The items u above the mark at the c-th place become a tuple there.
LEMMA TupleOn ==
  ASSUME Execute, NEW sd, NEW i \in Nat \ {0}, Ground(stack, sd, i - 1),
         NEW w, NEW m \in Nat, OnTop(stack, 2 * i, w, m), Token = Op("TUPLE"),
         NEW c \in 1 .. m, w[c] = Mark, \A k \in c + 1 .. m : ~IsMark(w[k]),
         NEW u, IsPart(u, w, c, m), NEW x, Changed(x, w, c, Tuple(u))
  PROVE  Ground(stack', sd, i - 1) /\ OnTop(stack', 2 * i, x, c) /\ Advance
  <1>1. PICK b \in Nat : b = 2 * i
    OBVIOUS
  <1>2. IsList(stack) /\ Len(stack) = b + m
    BY <1>1 DEF OnTop
  <1>3. PICK d \in Nat : d = b + c
    BY <1>1
  <1>4. d \in 1 .. Len(stack) /\ stack[d] = Mark
    <2>1. stack[b + c] = w[c]
      BY <1>1 DEF OnTop
    <2> QED
      BY <1>2, <1>3, <2>1
  <1>5. \A k \in d + 1 .. Len(stack) : ~IsMark(stack[k])
    <2> TAKE k \in d + 1 .. Len(stack)
    <2>1. PICK l \in c + 1 .. m : k = b + l
      <3>1. k - b \in c + 1 .. m /\ k = b + (k - b)
        BY <1>2, <1>3
      <3> QED
        BY <3>1
    <2>2. stack[b + l] = w[l]
      BY <1>1 DEF OnTop
    <2> QED
      BY <2>1, <2>2
  <1>6. /\ Cut(stack', stack, d, Tuple(Part(stack, d + 1, Len(stack))))
        /\ pos' = pos + 1 /\ UNCHANGED <<buf, status>>
    BY <1>2, <1>4, <1>5, TupleStep
  <1>7. \A e \in Nat : e = b + c + 1 => Part(stack, e, Len(stack)) = u
    <2>1. OnTop(stack, b, w, m) /\ c \in 0 .. m
      BY <1>1
    <2> QED
      BY <2>1, PartOnTop
  <1>8. Part(stack, d + 1, Len(stack)) = u
    <2>1. d + 1 \in Nat /\ d + 1 = b + c + 1
      BY <1>3
    <2> QED
      BY <1>7, <2>1
  <1>9. PICK t : t = stack'
    OBVIOUS
  <1>10. Cut(t, stack, d, Tuple(u))
    BY <1>6, <1>8, <1>9
  <1>11. OnTop(t, b, x, c) /\ \A k \in 1 .. b : t[k] = stack[k]
    <2>1. OnTop(stack, b, w, m)
      BY <1>1
    <2>2. PICK v, s : v = Tuple(u) /\ s = stack
      OBVIOUS
    <2>3. OnTop(s, b, w, m) /\ Changed(x, w, c, v) /\ Cut(t, s, d, v)
      BY <1>10, <2>1, <2>2
    <2>4. IsSum(d, b, c)
      BY <1>3 DEF IsSum
    <2>5. OnTop(t, b, x, c) /\ SameUpTo(t, s, b)
      BY <2>3, <2>4, OnTopCut
    <2> QED
      BY <2>2, <2>5 DEF SameUpTo
  <1>12. IsList(t) /\ Len(t) >= 2 * i
    BY <1>1, <1>11 DEF OnTop
  <1>13. Ground(t, sd, i - 1)
    BY <1>1, <1>11, <1>12, GroundKept
  <1> QED
    BY <1>1, <1>6, <1>9, <1>11, <1>13 DEF Advance

-----------------------------------------------------------------------------
(* The values above the ground *)

\* What is known of the i-th tensor.
LEMMA TensorIs ==
  ASSUME NEW sd, IsStateDict(sd), NEW i \in 1 .. Len(sd)
  PROVE  /\ i \in Nat \ {0} /\ Axes(sd, i) \in Nat /\ Len(sd) \in Nat
         /\ IsRawTensor(sd[i][2]) /\ IsList(sd[i][2].shape)
         /\ IsList(Strides(sd[i][2].shape)) /\ Len(Strides(sd[i][2].shape)) = Axes(sd, i)
         /\ IsTurn(Turn(sd, i), sd[i][1], sd[i][2], i - 1, Axes(sd, i))
         /\ StorageTypeName(sd[i][2].dt) \in DOMAIN DTypeOf
         /\ DTypeOf[StorageTypeName(sd[i][2].dt)] = sd[i][2].dt
         /\ Product(sd[i][2].shape) \in Nat /\ Product(sd[i][2].shape) < Power[8] \div 2
         /\ \A k \in 1 .. Axes(sd, i) :
              /\ sd[i][2].shape[k] \in Nat /\ sd[i][2].shape[k] < Power[8] \div 2
              /\ Strides(sd[i][2].shape)[k] \in Nat /\ Strides(sd[i][2].shape)[k] < Power[8] \div 2
  <1>1. IsRawTensor(sd[i][2]) /\ Axes(sd, i) \in Nat
        /\ IsTurn(Turn(sd, i), sd[i][1], sd[i][2], i - 1, Axes(sd, i))
    BY TurnList DEF Axes
  <1>2. Len(sd) \in Nat
    BY ListHas DEF IsStateDict
  <1>3. PICK t, s, n : t = sd[i][2] /\ s = t.shape /\ n = Axes(sd, i)
    OBVIOUS
  <1>4. /\ t.dt \in Range(DTypeOf) /\ IsList(s)
        /\ \A k \in DOMAIN s : s[k] \in Nat /\ s[k] < Power[8] \div 2
        /\ \A k \in 0 .. Len(s) : Spans(s)[k] < Power[8] \div 2
    BY <1>1, <1>3 DEF IsRawTensor
  <1>5. n = Len(s) /\ DOMAIN s = 1 .. n /\ n \in Nat
    BY <1>3, <1>4, ListHas DEF Axes
  <1>6. \A k \in 0 .. Len(s) : Spans(s)[k] \in Nat
    BY <1>4, SpansAre
  <1>7. /\ IsList(Strides(s)) /\ Len(Strides(s)) = n
        /\ \A k \in 1 .. n : Strides(s)[k] = Spans(s)[k]
    BY <1>4, <1>5, StridesAre
  <1>8. Product(s) \in Nat /\ Product(s) < Power[8] \div 2
    <2>1. 0 \in 0 .. Len(s)
      BY <1>5
    <2> QED
      BY <1>4, <1>6, <2>1 DEF Product
  <1>9. StorageTypeName(t.dt) \in DOMAIN DTypeOf /\ DTypeOf[StorageTypeName(t.dt)] = t.dt
    <2>1. PICK f : f = DTypeOf
      OBVIOUS
    <2>2. \E x \in DOMAIN f : f[x] = t.dt
      BY <1>4, <2>1 DEF Range
    <2> QED
      BY <2>1, <2>2 DEF StorageTypeName
  <1>10. \A k \in 1 .. n : k \in 0 .. Len(s) /\ k \in DOMAIN s
    BY <1>5
  <1>11. \A k \in 1 .. n : /\ s[k] \in Nat /\ s[k] < Power[8] \div 2
                           /\ Strides(s)[k] \in Nat /\ Strides(s)[k] < Power[8] \div 2
    BY <1>4, <1>6, <1>7, <1>10
  <1> QED
    BY <1>1, <1>2, <1>3, <1>4, <1>7, <1>8, <1>9, <1>11

\* An integer is pushed.
LEMMA PushesInt ==
  ASSUME NEW k \in Nat, k < Power[8] \div 2
  PROVE  Pushing(PutInt(k), IntVal(k))
  <1>1. PICK op \in IntOps : \E a : PutInt(k) = OpArg(op, a) /\ IntOf(op, a) = k
    BY PutIntIs
  <1>2. PICK a : PutInt(k) = OpArg(op, a) /\ IntOf(op, a) = k
    BY <1>1
  <1>3. PutInt(k) = OpArg(op, a) /\ IntVal(k) = IntVal(IntOf(op, a))
    BY <1>2
  <1> QED
    BY <1>3 DEF Pushing

\* Values that are no marks.
LEMMA NoMarks ==
  /\ \A a : ~IsMark(Str(a)) /\ ~IsMark(Global(a)) /\ ~IsMark(IntVal(a)) /\ ~IsMark(Tuple(a))
  /\ \A a : ~IsMark(Dict(a)) /\ ~IsMark(Simple("False"))
  /\ \A a, b : ~IsMark(Storage(a, b))
  /\ \A a, b, c, d : ~IsMark(TensorVal(a, b, c, d))
  BY DEF IsMark, Str, Global, IntVal, Tuple, Dict, Simple, Storage, TensorVal

\* The values of the lists, one by one.
LEMMA ToPersidHas ==
  ASSUME NEW sd, NEW i
  PROVE  /\ ToPersid(sd, i)[1] = Str(sd[i][1])
         /\ ToPersid(sd, i)[2] = Global("_rebuild_tensor_v2")
         /\ ToPersid(sd, i)[3] = Mark /\ ToPersid(sd, i)[4] = Mark
         /\ ToPersid(sd, i)[5] = Str("storage")
         /\ ToPersid(sd, i)[6] = Global(StorageTypeName(sd[i][2].dt))
         /\ ToPersid(sd, i)[7] = Str(Decimal(i - 1))
         /\ ToPersid(sd, i)[8] = Str("cpu")
         /\ ToPersid(sd, i)[9] = IntVal(Product(sd[i][2].shape))
  BY DEF ToPersid

\* The twelve tokens before the sizes.
LEMMA HeadHas ==
  ASSUME NEW name, NEW t, NEW i
  PROVE  /\ HeadOf(name, t, i)[1] = OpArg("BINUNICODE", name)
         /\ HeadOf(name, t, i)[2] = OpArg("GLOBAL", "_rebuild_tensor_v2")
         /\ HeadOf(name, t, i)[3] = Op("MARK") /\ HeadOf(name, t, i)[4] = Op("MARK")
         /\ HeadOf(name, t, i)[5] = OpArg("BINUNICODE", "storage")
         /\ HeadOf(name, t, i)[6] = OpArg("GLOBAL", StorageTypeName(t.dt))
         /\ HeadOf(name, t, i)[7] = OpArg("BINUNICODE", Decimal(i))
         /\ HeadOf(name, t, i)[8] = OpArg("BINUNICODE", "cpu")
         /\ HeadOf(name, t, i)[9] = PutInt(Product(t.shape))
         /\ HeadOf(name, t, i)[10] = Op("TUPLE")
         /\ HeadOf(name, t, i)[11] = Op("BINPERSID")
         /\ HeadOf(name, t, i)[12] = PutInt(0)
  BY DEF HeadOf

\* The tokens that only push, and what they push.
LEMMA Pushes ==
  /\ \A a : Pushing(OpArg("BINUNICODE", a), Str(a)) /\ Pushing(OpArg("GLOBAL", a), Global(a))
  /\ Pushing(Op("MARK"), Mark) /\ Pushing(Op("NEWFALSE"), Simple("False"))
  /\ Pushing(Op("EMPTY_DICT"), Dict(<<>>))
  <1>1. \A a : Pushing(OpArg("BINUNICODE", a), Str(a))
    BY DEF Pushing
  <1>2. \A a : Pushing(OpArg("GLOBAL", a), Global(a))
    BY DEF Pushing
  <1>3. Pushing(Op("MARK"), Mark) /\ Pushing(Op("NEWFALSE"), Simple("False"))
        /\ Pushing(Op("EMPTY_DICT"), Dict(<<>>))
    BY DEF Pushing
  <1> QED
    BY <1>1, <1>2, <1>3

\* What the j-th token of a turn does.
Turned(sd, i, j) == Ground(stack', sd, i - 1) /\ Phase(stack', sd, i, j) /\ Advance

\* Up to the persistent id.
LEMMA PersidTurn ==
  ASSUME Execute, NEW sd, IsStateDict(sd), NEW i \in 1 .. Len(sd), Ground(stack, sd, i - 1),
         NEW j \in 0 .. 8, OnTop(stack, 2 * i, ToPersid(sd, i), j), Token = Turn(sd, i)[j + 1]
  PROVE  Turned(sd, i, j + 1)
  <1>1. i \in Nat \ {0} /\ IsTurn(Turn(sd, i), sd[i][1], sd[i][2], i - 1, Axes(sd, i))
        /\ Product(sd[i][2].shape) \in Nat /\ Product(sd[i][2].shape) < Power[8] \div 2
    BY TensorIs
  <1>2. PICK w, h : w = ToPersid(sd, i) /\ h = HeadOf(sd[i][1], sd[i][2], i - 1)
    OBVIOUS
  <1>3. Token = h[j + 1]
    <2>1. j + 1 \in 1 .. 12
      OBVIOUS
    <2> QED
      BY <1>1, <1>2, <2>1 DEF IsTurn
  <1>4. Pushing(h[j + 1], w[j + 1])
    <2>1. Pushing(h[1], w[1]) /\ Pushing(h[2], w[2]) /\ Pushing(h[3], w[3])
      BY <1>2, ToPersidHas, HeadHas, Pushes
    <2>2. Pushing(h[4], w[4]) /\ Pushing(h[5], w[5]) /\ Pushing(h[6], w[6])
      BY <1>2, ToPersidHas, HeadHas, Pushes
    <2>3. Pushing(h[7], w[7]) /\ Pushing(h[8], w[8])
      BY <1>2, ToPersidHas, HeadHas, Pushes
    <2>4. Pushing(h[9], w[9])
      BY <1>1, <1>2, ToPersidHas, HeadHas, PushesInt
    <2>5. j + 1 \in {1, 2, 3, 4, 5, 6, 7, 8, 9}
      OBVIOUS
    <2> QED
      BY <2>1, <2>2, <2>3, <2>4, <2>5
  <1>5. j \in Nat /\ OnTop(stack, 2 * i, w, j) /\ Pushing(Token, w[j + 1])
    BY <1>2, <1>3, <1>4
  <1>6. Ground(stack', sd, i - 1) /\ OnTop(stack', 2 * i, w, j + 1) /\ Advance
    BY <1>1, <1>5, PushOn
  <1>7. j + 1 \in 0 .. 9
    OBVIOUS
  <1> QED
    BY <1>2, <1>6, <1>7 DEF Turned, Phase

\* The five items of a persistent id.
LEMMA IdTurn ==
  ASSUME Execute, NEW sd, IsStateDict(sd), NEW i \in 1 .. Len(sd), Ground(stack, sd, i - 1),
         OnTop(stack, 2 * i, ToPersid(sd, i), 9), Token = Turn(sd, i)[10]
  PROVE  Turned(sd, i, 10)
  <1>1. i \in Nat \ {0} /\ IsTurn(Turn(sd, i), sd[i][1], sd[i][2], i - 1, Axes(sd, i))
    BY TensorIs
  <1>2. Token = Op("TUPLE")
    <2>1. 10 \in 1 .. 12
      OBVIOUS
    <2>2. Token = HeadOf(sd[i][1], sd[i][2], i - 1)[10]
      BY <1>1, <2>1 DEF IsTurn
    <2> QED
      BY <2>2, HeadHas
  <1>3. PICK w, u, x : w = ToPersid(sd, i) /\ u = PersItems(sd, i) /\ x = AtPersid(sd, i)
    OBVIOUS
  <1>4. w[4] = Mark /\ \A k \in 4 + 1 .. 9 : ~IsMark(w[k])
    <2>1. \A k \in 4 + 1 .. 9 : k \in {5, 6, 7, 8, 9}
      OBVIOUS
    <2> QED
      BY <1>3, <2>1, ToPersidHas, NoMarks
  <1>5. IsPart(u, w, 4, 9)
    <2>1. DOMAIN u = 1 .. 5 /\ u = [k \in 1 .. 5 |-> u[k]]
      BY <1>3 DEF PersItems
    <2>2. IsList(u) /\ Len(u) = 5
      BY <2>1, ListIs
    <2>3. u[1] = w[5] /\ u[2] = w[6] /\ u[3] = w[7] /\ u[4] = w[8] /\ u[5] = w[9]
      BY <1>3, ToPersidHas DEF PersItems
    <2>4. \A k \in 1 .. 9 - 4 : k \in {1, 2, 3, 4, 5}
      OBVIOUS
    <2> QED
      BY <2>2, <2>3, <2>4 DEF IsPart
  <1>6. Changed(x, w, 4, Tuple(u))
    <2>1. x[4] = Tuple(u) /\ x[1] = w[1] /\ x[2] = w[2] /\ x[3] = w[3]
      BY <1>3, ToPersidHas DEF AtPersid
    <2>2. \A k \in 1 .. 4 - 1 : k \in {1, 2, 3}
      OBVIOUS
    <2> QED
      BY <2>1, <2>2 DEF Changed
  <1>7. Ground(stack', sd, i - 1) /\ OnTop(stack', 2 * i, x, 4) /\ Advance
    <2>1. 9 \in Nat /\ 4 \in 1 .. 9 /\ OnTop(stack, 2 * i, w, 9)
      BY <1>3
    <2> QED
      BY <1>1, <1>2, <1>4, <1>5, <1>6, <2>1, TupleOn
  <1> QED
    BY <1>3, <1>7 DEF Turned, Phase

\* The values of the lists that go on with integers.
LEMMA ToSizesHas ==
  ASSUME NEW sd, IsStateDict(sd), NEW i \in 1 .. Len(sd)
  PROVE  /\ ToSizes(sd, i)[1] = Str(sd[i][1])
         /\ ToSizes(sd, i)[2] = Global("_rebuild_tensor_v2")
         /\ ToSizes(sd, i)[3] = Mark /\ ToSizes(sd, i)[4] = StoreOf(sd, i)
         /\ ToSizes(sd, i)[5] = IntVal(0) /\ ToSizes(sd, i)[6] = Mark
         /\ \A k \in 1 .. Axes(sd, i) : ToSizes(sd, i)[6 + k] = IntVal(sd[i][2].shape[k])
  <1>1. IsList(sd[i][2].shape) /\ Axes(sd, i) \in Nat
    BY TensorIs
  <1>2. PICK a, v, n, w : /\ a = <<Str(sd[i][1]), Global("_rebuild_tensor_v2"), Mark,
                                   StoreOf(sd, i), IntVal(0), Mark>>
                          /\ v = IntVals(sd[i][2].shape) /\ n = Axes(sd, i) /\ w = ToSizes(sd, i)
    OBVIOUS
  <1>3. IsList(v) /\ Len(v) = n /\ \A k \in 1 .. n : v[k] = IntVal(sd[i][2].shape[k])
    BY <1>1, <1>2, IntValsList DEF Axes
  <1>4. /\ DOMAIN a = 1 .. 6 /\ a = [k \in 1 .. 6 |-> a[k]]
        /\ a[1] = Str(sd[i][1]) /\ a[2] = Global("_rebuild_tensor_v2") /\ a[3] = Mark
        /\ a[4] = StoreOf(sd, i) /\ a[5] = IntVal(0) /\ a[6] = Mark
    BY <1>2
  <1>5. IsList(a) /\ Len(a) = 6
    BY <1>4, ListIs
  <1>6. IsJoint(w, a, 6, v, n)
    BY <1>2, <1>3, <1>5, Joins DEF ToSizes
  <1>7. \A k \in {1, 2, 3, 4, 5, 6} : k \in 1 .. 6
    OBVIOUS
  <1>8. \A k \in {1, 2, 3, 4, 5, 6} : w[k] = a[k]
    BY <1>6, <1>7 DEF IsJoint
  <1>9. \A k \in 1 .. n : w[6 + k] = v[k]
    BY <1>6 DEF IsJoint
  <1> QED
    BY <1>2, <1>3, <1>4, <1>8, <1>9

\* What lies on the ground while the strides come.
LEMMA ToStepsHas ==
  ASSUME NEW sd, IsStateDict(sd), NEW i \in 1 .. Len(sd)
  PROVE  /\ ToSteps(sd, i)[1] = Str(sd[i][1])
         /\ ToSteps(sd, i)[2] = Global("_rebuild_tensor_v2")
         /\ ToSteps(sd, i)[3] = Mark /\ ToSteps(sd, i)[4] = StoreOf(sd, i)
         /\ ToSteps(sd, i)[5] = IntVal(0) /\ ToSteps(sd, i)[6] = Sizes(sd, i)
         /\ ToSteps(sd, i)[7] = Mark
         /\ \A k \in 1 .. Axes(sd, i) :
              ToSteps(sd, i)[7 + k] = IntVal(Strides(sd[i][2].shape)[k])
  <1>1. /\ IsList(Strides(sd[i][2].shape)) /\ Axes(sd, i) \in Nat
        /\ Len(Strides(sd[i][2].shape)) = Axes(sd, i)
    BY TensorIs
  <1>2. PICK a, v, n, w : /\ a = <<Str(sd[i][1]), Global("_rebuild_tensor_v2"), Mark,
                                   StoreOf(sd, i), IntVal(0), Sizes(sd, i), Mark>>
                          /\ v = IntVals(Strides(sd[i][2].shape)) /\ n = Axes(sd, i)
                          /\ w = ToSteps(sd, i)
    OBVIOUS
  <1>3. IsList(v) /\ Len(v) = n /\ \A k \in 1 .. n : v[k] = IntVal(Strides(sd[i][2].shape)[k])
    BY <1>1, <1>2, IntValsList
  <1>4. /\ DOMAIN a = 1 .. 7 /\ a = [k \in 1 .. 7 |-> a[k]]
        /\ a[1] = Str(sd[i][1]) /\ a[2] = Global("_rebuild_tensor_v2") /\ a[3] = Mark
        /\ a[4] = StoreOf(sd, i) /\ a[5] = IntVal(0) /\ a[6] = Sizes(sd, i) /\ a[7] = Mark
    BY <1>2
  <1>5. IsList(a) /\ Len(a) = 7
    BY <1>4, ListIs
  <1>6. IsJoint(w, a, 7, v, n)
    BY <1>2, <1>3, <1>5, Joins DEF ToSteps
  <1>7. \A k \in {1, 2, 3, 4, 5, 6, 7} : k \in 1 .. 7
    OBVIOUS
  <1>8. \A k \in {1, 2, 3, 4, 5, 6, 7} : w[k] = a[k]
    BY <1>6, <1>7 DEF IsJoint
  <1>9. \A k \in 1 .. n : w[7 + k] = v[k]
    BY <1>6 DEF IsJoint
  <1> QED
    BY <1>2, <1>3, <1>4, <1>8, <1>9

\* And before the arguments become a tuple.
LEMMA ToReduceHas ==
  ASSUME NEW sd, NEW i
  PROVE  /\ ToReduce(sd, i)[1] = Str(sd[i][1])
         /\ ToReduce(sd, i)[2] = Global("_rebuild_tensor_v2")
         /\ ToReduce(sd, i)[3] = Mark /\ ToReduce(sd, i)[4] = StoreOf(sd, i)
         /\ ToReduce(sd, i)[5] = IntVal(0) /\ ToReduce(sd, i)[6] = Sizes(sd, i)
         /\ ToReduce(sd, i)[7] = Steps(sd, i)
         /\ ToReduce(sd, i)[8] = Simple("False") /\ ToReduce(sd, i)[9] = Dict(<<>>)
  BY DEF ToReduce

\* The top of a stack.
LEMMA TopOf ==
  ASSUME NEW s, NEW b \in Nat, NEW w, NEW m \in Nat \ {0}, OnTop(s, b, w, m)
  PROVE  /\ Len(s) = b + m /\ Len(s) \in Nat /\ Len(s) > 0 /\ s[Len(s)] = w[m]
         /\ m > 1 => Len(s) > 1 /\ s[Len(s) - 1] = w[m - 1]
  <1>1. Len(s) = b + m /\ m \in 1 .. m
    BY DEF OnTop
  <1>2. s[b + m] = w[m]
    BY <1>1 DEF OnTop
  <1>3. ASSUME m > 1 PROVE s[Len(s) - 1] = w[m - 1]
    <2>1. m - 1 \in 1 .. m /\ Len(s) - 1 = b + (m - 1)
      BY <1>1, <1>3
    <2>2. s[b + (m - 1)] = w[m - 1]
      BY <2>1 DEF OnTop
    <2> QED
      BY <2>1, <2>2
  <1> QED
    BY <1>1, <1>2, <1>3

\* The storage of the tensor.
LEMMA StoreTurn ==
  ASSUME Execute, NEW sd, IsStateDict(sd), NEW i \in 1 .. Len(sd), Ground(stack, sd, i - 1),
         OnTop(stack, 2 * i, AtPersid(sd, i), 4), Token = Turn(sd, i)[11]
  PROVE  Turned(sd, i, 11)
  <1>1. /\ i \in Nat \ {0} /\ IsTurn(Turn(sd, i), sd[i][1], sd[i][2], i - 1, Axes(sd, i))
        /\ Axes(sd, i) \in Nat
        /\ StorageTypeName(sd[i][2].dt) \in DOMAIN DTypeOf
        /\ DTypeOf[StorageTypeName(sd[i][2].dt)] = sd[i][2].dt
    BY TensorIs
  <1>2. Token = Op("BINPERSID")
    <2>1. 11 \in 1 .. 12
      OBVIOUS
    <2>2. Token = HeadOf(sd[i][1], sd[i][2], i - 1)[11]
      BY <1>1, <2>1 DEF IsTurn
    <2> QED
      BY <2>2, HeadHas
  <1>3. PICK w, u, x : w = AtPersid(sd, i) /\ u = PersItems(sd, i) /\ x = ToSizes(sd, i)
    OBVIOUS
  <1>4. PICK name \in DOMAIN DTypeOf, key \in {Decimal(i - 1)} : name = StorageTypeName(sd[i][2].dt)
    BY <1>1
  <1>5. Len(u) = 5 /\ u[1] = Str("storage") /\ u[2] = Global(name) /\ u[3] = Str(key)
    BY <1>3, <1>4 DEF PersItems
  <1>6. w[4] = Tuple(u)
    BY <1>3 DEF AtPersid
  <1>7. PICK b \in Nat : b = 2 * i
    BY <1>1
  <1>8. OnTop(stack, b, w, 4) /\ 4 \in Nat \ {0}
    BY <1>3, <1>7
  <1>9. Len(stack) = b + 4 /\ Len(stack) > 0 /\ stack[Len(stack)] = Tuple(u) /\ IsList(stack)
    BY <1>6, <1>8, TopOf DEF OnTop
  <1>10. PICK v, t, d : v = Storage(key, DTypeOf[name]) /\ t = stack' /\ d = Len(stack)
    OBVIOUS
  <1>11. Cut(t, stack, d, v) /\ pos' = pos + 1 /\ UNCHANGED <<buf, status>>
    BY <1>2, <1>5, <1>9, <1>10, PersidStep
  <1>12. v = StoreOf(sd, i)
    BY <1>1, <1>4, <1>10 DEF StoreOf
  <1>13. Changed(x, w, 4, v)
    <2>1. x[4] = v /\ x[1] = w[1] /\ x[2] = w[2] /\ x[3] = w[3]
      BY <1>3, <1>12, ToSizesHas DEF AtPersid
    <2>2. \A k \in 1 .. 4 - 1 : k \in {1, 2, 3}
      OBVIOUS
    <2> QED
      BY <2>1, <2>2 DEF Changed
  <1>14. OnTop(t, b, x, 4) /\ SameUpTo(t, stack, b)
    <2>1. PICK s : s = stack
      OBVIOUS
    <2>2. IsSum(d, b, 4) /\ 4 \in 1 .. 4 /\ OnTop(s, b, w, 4) /\ Cut(t, s, d, v)
      BY <1>8, <1>9, <1>10, <1>11, <2>1 DEF IsSum
    <2>3. OnTop(t, b, x, 4) /\ SameUpTo(t, s, b)
      BY <1>13, <2>2, OnTopCut
    <2> QED
      BY <2>1, <2>3
  <1>15. Ground(t, sd, i - 1)
    <2>1. IsList(t) /\ Len(t) >= 2 * i /\ \A k \in 1 .. 2 * i : t[k] = stack[k]
      BY <1>7, <1>14 DEF OnTop, SameUpTo
    <2> QED
      BY <1>1, <2>1, GroundKept
  <1>16. 11 \in 11 .. 13 + Axes(sd, i) /\ 11 - 7 = 4
    BY <1>1
  <1>17. Phase(t, sd, i, 11)
    BY <1>3, <1>7, <1>14, <1>16 DEF Phase
  <1> QED
    BY <1>10, <1>11, <1>15, <1>17 DEF Turned, Advance

\* The offset, and the sizes one by one.
LEMMA SizesTurn ==
  ASSUME Execute, NEW sd, IsStateDict(sd), NEW i \in 1 .. Len(sd), Ground(stack, sd, i - 1),
         NEW j \in 11 .. 12 + Axes(sd, i), OnTop(stack, 2 * i, ToSizes(sd, i), j - 7),
         Token = Turn(sd, i)[j + 1]
  PROVE  Turned(sd, i, j + 1)
  <1>1. /\ i \in Nat \ {0} /\ IsTurn(Turn(sd, i), sd[i][1], sd[i][2], i - 1, Axes(sd, i))
        /\ Axes(sd, i) \in Nat
        /\ \A k \in 1 .. Axes(sd, i) :
             sd[i][2].shape[k] \in Nat /\ sd[i][2].shape[k] < Power[8] \div 2
    BY TensorIs
  <1>2. PICK w, p, n, s : w = ToSizes(sd, i) /\ p = Turn(sd, i) /\ n = Axes(sd, i) /\ s = sd[i][2].shape
    OBVIOUS
  <1>3. PICK m \in Nat : m = j - 7
    BY <1>1
  <1>4. Pushing(Token, w[m + 1])
    <2>1. CASE j = 11
      <3>1. 12 \in 1 .. 12 /\ j + 1 = 12 /\ m + 1 = 5
        BY <1>3, <2>1
      <3>a. Token = HeadOf(sd[i][1], sd[i][2], i - 1)[12]
        BY <1>1, <3>1 DEF IsTurn
      <3>2. Token = PutInt(0)
        BY <3>a, HeadHas
      <3>b. PICK x, y : x = Power[8] \div 2 /\ y = Product(sd[i][2].shape)
        OBVIOUS
      <3>c. Power[8] \in Nat /\ y \in Nat /\ y < x
        BY <3>b, TensorIs, PowerIs
      <3>3. 0 < Power[8] \div 2
        BY <3>b, <3>c
      <3>4. Pushing(PutInt(0), IntVal(0))
        BY <3>3, PushesInt
      <3>5. w[5] = IntVal(0)
        BY <1>2, ToSizesHas
      <3> QED
        BY <3>1, <3>2, <3>4, <3>5
    <2>2. CASE j = 12
      <3>1. j + 1 = 13 /\ m + 1 = 6
        BY <1>3, <2>2
      <3>2. Token = Op("MARK")
        BY <1>1, <3>1 DEF IsTurn
      <3>3. w[6] = Mark
        BY <1>2, ToSizesHas
      <3> QED
        BY <3>1, <3>2, <3>3, Pushes
    <2>3. CASE j \in 13 .. 12 + n
      <3>1. PICK k \in 1 .. n : k = j - 12
        BY <1>1, <1>2, <2>3
      <3>2. j + 1 = 13 + k /\ m + 1 = 6 + k
        BY <1>3, <3>1
      <3>3. Token = PutInt(s[k])
        BY <1>1, <1>2, <3>2 DEF IsTurn
      <3>4. w[6 + k] = IntVal(s[k])
        BY <1>2, ToSizesHas
      <3>5. Pushing(PutInt(s[k]), IntVal(s[k]))
        BY <1>1, <1>2, PushesInt
      <3> QED
        BY <3>2, <3>3, <3>4, <3>5
    <2> QED
      BY <1>1, <1>2, <2>1, <2>2, <2>3
  <1>5. OnTop(stack, 2 * i, w, m)
    BY <1>2, <1>3
  <1>6. Ground(stack', sd, i - 1) /\ OnTop(stack', 2 * i, w, m + 1) /\ Advance
    BY <1>1, <1>4, <1>5, PushOn
  <1>7. j + 1 \in 11 .. 13 + n /\ m + 1 = j + 1 - 7
    BY <1>1, <1>2, <1>3
  <1>8. Phase(stack', sd, i, j + 1)
    BY <1>2, <1>6, <1>7 DEF Phase
  <1> QED
    BY <1>6, <1>8 DEF Turned

\* The tuple of the sizes.
LEMMA SizesTuple ==
  ASSUME Execute, NEW sd, IsStateDict(sd), NEW i \in 1 .. Len(sd), Ground(stack, sd, i - 1),
         OnTop(stack, 2 * i, ToSizes(sd, i), 6 + Axes(sd, i)),
         Token = Turn(sd, i)[14 + Axes(sd, i)]
  PROVE  Turned(sd, i, 14 + Axes(sd, i))
  <1>1. /\ i \in Nat \ {0} /\ IsTurn(Turn(sd, i), sd[i][1], sd[i][2], i - 1, Axes(sd, i))
        /\ Axes(sd, i) \in Nat /\ IsList(sd[i][2].shape)
    BY TensorIs
  <1>2. Token = Op("TUPLE")
    BY <1>1 DEF IsTurn
  <1>3. PICK w, u, x, n : /\ w = ToSizes(sd, i) /\ u = IntVals(sd[i][2].shape)
                          /\ x = ToSteps(sd, i) /\ n = Axes(sd, i)
    OBVIOUS
  <1>4. PICK m \in Nat : m = 6 + n
    BY <1>1, <1>3
  <1>5. w[6] = Mark /\ \A k \in 1 .. n : w[6 + k] = IntVal(sd[i][2].shape[k])
    BY <1>3, ToSizesHas
  <1>6. \A k \in 6 + 1 .. m : ~IsMark(w[k])
    <2> TAKE k \in 6 + 1 .. m
    <2>1. PICK l \in 1 .. n : k = 6 + l
      <3>1. k - 6 \in 1 .. n /\ k = 6 + (k - 6)
        BY <1>1, <1>3, <1>4
      <3> QED
        BY <3>1
    <2> QED
      BY <1>5, <2>1, NoMarks
  <1>7. IsPart(u, w, 6, m)
    <2>1. IsList(u) /\ Len(u) = n /\ \A k \in 1 .. n : u[k] = IntVal(sd[i][2].shape[k])
      BY <1>1, <1>3, IntValsList DEF Axes
    <2>2. m - 6 = n
      BY <1>1, <1>3, <1>4
    <2> QED
      BY <1>5, <2>1, <2>2 DEF IsPart
  <1>8. Changed(x, w, 6, Tuple(u))
    <2>1. /\ w[1] = x[1] /\ w[2] = x[2] /\ w[3] = x[3] /\ w[4] = x[4] /\ w[5] = x[5]
          /\ x[6] = Sizes(sd, i)
      BY <1>3, ToSizesHas, ToStepsHas
    <2>2. \A k \in 1 .. 6 - 1 : k \in {1, 2, 3, 4, 5}
      OBVIOUS
    <2>3. Sizes(sd, i) = Tuple(u)
      BY <1>3 DEF Sizes
    <2> QED
      BY <2>1, <2>2, <2>3 DEF Changed
  <1>9. Ground(stack', sd, i - 1) /\ OnTop(stack', 2 * i, x, 6) /\ Advance
    <2>1. 6 \in 1 .. m /\ OnTop(stack, 2 * i, w, m)
      BY <1>1, <1>3, <1>4
    <2> QED
      BY <1>1, <1>2, <1>5, <1>6, <1>7, <1>8, <2>1, TupleOn
  <1>10. 14 + n \in 14 + n .. 15 + 2 * n /\ 14 + n - 8 - n = 6
    BY <1>1, <1>3
  <1>11. Phase(stack', sd, i, 14 + n)
    <2>1. PICK j \in Nat : j = 14 + n
      BY <1>1, <1>3
    <2>2. /\ j \in 14 + Axes(sd, i) .. 15 + 2 * Axes(sd, i)
          /\ OnTop(stack', 2 * i, ToSteps(sd, i), j - 8 - Axes(sd, i))
      BY <1>1, <1>3, <1>9, <1>10, <2>1
    <2>3. Phase(stack', sd, i, j)
      BY <2>2 DEF Phase
    <2> QED
      BY <2>1, <2>3
  <1> QED
    BY <1>3, <1>9, <1>11 DEF Turned

\* The strides one by one.
LEMMA StepsTurn ==
  ASSUME Execute, NEW sd, IsStateDict(sd), NEW i \in 1 .. Len(sd), Ground(stack, sd, i - 1),
         NEW j \in 14 + Axes(sd, i) .. 14 + 2 * Axes(sd, i),
         OnTop(stack, 2 * i, ToSteps(sd, i), j - 8 - Axes(sd, i)),
         Token = Turn(sd, i)[j + 1]
  PROVE  Turned(sd, i, j + 1)
  <1>1. /\ i \in Nat \ {0} /\ IsTurn(Turn(sd, i), sd[i][1], sd[i][2], i - 1, Axes(sd, i))
        /\ Axes(sd, i) \in Nat
        /\ \A k \in 1 .. Axes(sd, i) :
             Strides(sd[i][2].shape)[k] \in Nat /\ Strides(sd[i][2].shape)[k] < Power[8] \div 2
    BY TensorIs
  <1>2. PICK w, p, n, s : /\ w = ToSteps(sd, i) /\ p = Turn(sd, i) /\ n = Axes(sd, i)
                          /\ s = Strides(sd[i][2].shape)
    OBVIOUS
  <1>3. PICK m \in Nat : m = j - 8 - n
    BY <1>1, <1>2
  <1>4. Pushing(Token, w[m + 1])
    <2>1. CASE j = 14 + n
      <3>1. j + 1 = 15 + n /\ m + 1 = 7
        BY <1>1, <1>2, <1>3, <2>1
      <3>2. Token = Op("MARK")
        BY <1>1, <1>2, <3>1 DEF IsTurn
      <3>3. w[7] = Mark
        BY <1>2, ToStepsHas
      <3> QED
        BY <3>1, <3>2, <3>3, Pushes
    <2>2. CASE j \in 15 + n .. 14 + 2 * n
      <3>1. PICK k \in 1 .. n : k = j - 14 - n
        BY <1>1, <1>2, <2>2
      <3>a. n \in Nat /\ k \in Nat /\ j \in Nat
        BY <1>1, <1>2, <2>2
      <3>2. j + 1 = 15 + n + k /\ m + 1 = 7 + k
        BY <1>3, <3>1, <3>a
      <3>3. Token = PutInt(s[k])
        BY <1>1, <1>2, <3>2 DEF IsTurn
      <3>4. w[7 + k] = IntVal(s[k])
        BY <1>2, ToStepsHas
      <3>5. Pushing(PutInt(s[k]), IntVal(s[k]))
        BY <1>1, <1>2, PushesInt
      <3> QED
        BY <3>2, <3>3, <3>4, <3>5
    <2> QED
      BY <1>1, <1>2, <2>1, <2>2
  <1>5. OnTop(stack, 2 * i, w, m)
    BY <1>2, <1>3
  <1>6. Ground(stack', sd, i - 1) /\ OnTop(stack', 2 * i, w, m + 1) /\ Advance
    BY <1>1, <1>4, <1>5, PushOn
  <1>7. j + 1 \in 14 + n .. 15 + 2 * n /\ m + 1 = j + 1 - 8 - n
    BY <1>1, <1>2, <1>3
  <1>8. Phase(stack', sd, i, j + 1)
    <2>1. PICK h \in Nat : h = j + 1
      BY <1>1, <1>2
    <2>2. /\ h \in 14 + Axes(sd, i) .. 15 + 2 * Axes(sd, i)
          /\ OnTop(stack', 2 * i, ToSteps(sd, i), h - 8 - Axes(sd, i))
      BY <1>1, <1>2, <1>6, <1>7, <2>1
    <2>3. Phase(stack', sd, i, h)
      BY <2>2 DEF Phase
    <2> QED
      BY <2>1, <2>3
  <1> QED
    BY <1>6, <1>8 DEF Turned

\* The tuple of the strides.
LEMMA StepsTuple ==
  ASSUME Execute, NEW sd, IsStateDict(sd), NEW i \in 1 .. Len(sd), Ground(stack, sd, i - 1),
         OnTop(stack, 2 * i, ToSteps(sd, i), 7 + Axes(sd, i)),
         Token = Turn(sd, i)[16 + 2 * Axes(sd, i)]
  PROVE  Turned(sd, i, 16 + 2 * Axes(sd, i))
  <1>1. /\ i \in Nat \ {0} /\ IsTurn(Turn(sd, i), sd[i][1], sd[i][2], i - 1, Axes(sd, i))
        /\ Axes(sd, i) \in Nat /\ IsList(Strides(sd[i][2].shape))
        /\ Len(Strides(sd[i][2].shape)) = Axes(sd, i)
    BY TensorIs
  <1>2. Token = Op("TUPLE")
    BY <1>1 DEF IsTurn
  <1>3. PICK w, u, x, n : /\ w = ToSteps(sd, i) /\ u = IntVals(Strides(sd[i][2].shape))
                          /\ x = ToReduce(sd, i) /\ n = Axes(sd, i)
    OBVIOUS
  <1>4. PICK m \in Nat : m = 7 + n
    BY <1>1, <1>3
  <1>5. w[7] = Mark /\ \A k \in 1 .. n : w[7 + k] = IntVal(Strides(sd[i][2].shape)[k])
    BY <1>3, ToStepsHas
  <1>6. \A k \in 7 + 1 .. m : ~IsMark(w[k])
    <2> TAKE k \in 7 + 1 .. m
    <2>1. PICK l \in 1 .. n : k = 7 + l
      <3>1. k - 7 \in 1 .. n /\ k = 7 + (k - 7)
        BY <1>1, <1>3, <1>4
      <3> QED
        BY <3>1
    <2> QED
      BY <1>5, <2>1, NoMarks
  <1>7. IsPart(u, w, 7, m)
    <2>1. IsList(u) /\ Len(u) = n /\ \A k \in 1 .. n : u[k] = IntVal(Strides(sd[i][2].shape)[k])
      BY <1>1, <1>3, IntValsList
    <2>2. m - 7 = n
      BY <1>1, <1>3, <1>4
    <2> QED
      BY <1>5, <2>1, <2>2 DEF IsPart
  <1>8. Changed(x, w, 7, Tuple(u))
    <2>1. /\ w[1] = x[1] /\ w[2] = x[2] /\ w[3] = x[3] /\ w[4] = x[4] /\ w[5] = x[5]
          /\ w[6] = x[6] /\ x[7] = Steps(sd, i)
      BY <1>3, ToStepsHas, ToReduceHas
    <2>2. \A k \in 1 .. 7 - 1 : k \in {1, 2, 3, 4, 5, 6}
      OBVIOUS
    <2>3. Steps(sd, i) = Tuple(u)
      BY <1>3 DEF Steps
    <2> QED
      BY <2>1, <2>2, <2>3 DEF Changed
  <1>9. Ground(stack', sd, i - 1) /\ OnTop(stack', 2 * i, x, 7) /\ Advance
    <2>1. 7 \in 1 .. m /\ OnTop(stack, 2 * i, w, m)
      BY <1>1, <1>3, <1>4
    <2> QED
      BY <1>1, <1>2, <1>5, <1>6, <1>7, <1>8, <2>1, TupleOn
  <1>10. Phase(stack', sd, i, 16 + 2 * n)
    <2>1. PICK j \in Nat : j = 16 + 2 * n
      BY <1>1, <1>3
    <2>2. /\ j \in 16 + 2 * Axes(sd, i) .. 18 + 2 * Axes(sd, i)
          /\ OnTop(stack', 2 * i, ToReduce(sd, i), j - 9 - 2 * Axes(sd, i))
      <3>1. j \in 16 + 2 * n .. 18 + 2 * n /\ j - 9 - 2 * n = 7
        <4>1. n \in Nat
          BY <1>1, <1>3
        <4> QED
          BY <2>1, <4>1
      <3>2. n = Axes(sd, i) /\ x = ToReduce(sd, i)
        BY <1>3
      <3> QED
        BY <1>9, <3>1, <3>2
    <2>3. Phase(stack', sd, i, j)
      BY <2>2 DEF Phase
    <2> QED
      BY <2>1, <2>3
  <1> QED
    BY <1>3, <1>9, <1>10 DEF Turned

\* requires_grad and the hooks.
LEMMA FlagsTurn ==
  ASSUME Execute, NEW sd, IsStateDict(sd), NEW i \in 1 .. Len(sd), Ground(stack, sd, i - 1),
         NEW j \in 16 + 2 * Axes(sd, i) .. 17 + 2 * Axes(sd, i),
         OnTop(stack, 2 * i, ToReduce(sd, i), j - 9 - 2 * Axes(sd, i)),
         Token = Turn(sd, i)[j + 1]
  PROVE  Turned(sd, i, j + 1)
  <1>1. /\ i \in Nat \ {0} /\ IsTurn(Turn(sd, i), sd[i][1], sd[i][2], i - 1, Axes(sd, i))
        /\ Axes(sd, i) \in Nat
    BY TensorIs
  <1>2. PICK w, n : w = ToReduce(sd, i) /\ n = Axes(sd, i)
    OBVIOUS
  <1>3. PICK m \in Nat : m = j - 9 - 2 * n
    BY <1>1, <1>2
  <1>4. Pushing(Token, w[m + 1])
    <2>1. CASE j = 16 + 2 * n
      <3>1. j + 1 = 17 + 2 * n /\ m + 1 = 8
        BY <1>1, <1>2, <1>3, <2>1
      <3>2. Token = Op("NEWFALSE")
        BY <1>1, <1>2, <3>1 DEF IsTurn
      <3>3. w[8] = Simple("False")
        BY <1>2, ToReduceHas
      <3> QED
        BY <3>1, <3>2, <3>3, Pushes
    <2>2. CASE j = 17 + 2 * n
      <3>1. j + 1 = 18 + 2 * n /\ m + 1 = 9
        BY <1>1, <1>2, <1>3, <2>2
      <3>2. Token = Op("EMPTY_DICT")
        BY <1>1, <1>2, <3>1 DEF IsTurn
      <3>3. w[9] = Dict(<<>>)
        BY <1>2, ToReduceHas
      <3> QED
        BY <3>1, <3>2, <3>3, Pushes
    <2>3. j = 16 + 2 * n \/ j = 17 + 2 * n
      BY <1>1, <1>2
    <2> QED
      BY <2>1, <2>2, <2>3
  <1>5. OnTop(stack, 2 * i, w, m)
    BY <1>2, <1>3
  <1>6. Ground(stack', sd, i - 1) /\ OnTop(stack', 2 * i, w, m + 1) /\ Advance
    BY <1>1, <1>4, <1>5, PushOn
  <1>7. j + 1 \in 16 + 2 * n .. 18 + 2 * n /\ m + 1 = j + 1 - 9 - 2 * n
    BY <1>1, <1>2, <1>3
  <1>8. Phase(stack', sd, i, j + 1)
    <2>1. PICK h \in Nat : h = j + 1
      BY <1>1, <1>2
    <2>2. /\ h \in 16 + 2 * Axes(sd, i) .. 18 + 2 * Axes(sd, i)
          /\ OnTop(stack', 2 * i, ToReduce(sd, i), h - 9 - 2 * Axes(sd, i))
      <3>1. h \in 16 + 2 * Axes(sd, i) .. 18 + 2 * Axes(sd, i)
        BY <1>1, <1>2, <1>7, <2>1
      <3>2. PICK e \in Nat : e = m + 1
        OBVIOUS
      <3>a. n \in Nat /\ j \in Nat
        BY <1>1, <1>2
      <3>b. h = j + 1 /\ e = j + 1 - 9 - 2 * n
        BY <1>7, <2>1, <3>2
      <3>c. h - 9 - 2 * n = e
        BY <3>a, <3>b
      <3>3. h - 9 - 2 * Axes(sd, i) = e
        BY <1>2, <3>c
      <3>4. OnTop(stack', 2 * i, ToReduce(sd, i), e)
        BY <1>2, <1>6, <3>2
      <3> QED
        BY <3>1, <3>3, <3>4
    <2>3. Phase(stack', sd, i, h)
      BY <2>2 DEF Phase
    <2> QED
      BY <2>1, <2>3
  <1> QED
    BY <1>6, <1>8 DEF Turned

\* The tuple of the arguments.
LEMMA ArgumentsTuple ==
  ASSUME Execute, NEW sd, IsStateDict(sd), NEW i \in 1 .. Len(sd), Ground(stack, sd, i - 1),
         OnTop(stack, 2 * i, ToReduce(sd, i), 9), Token = Turn(sd, i)[19 + 2 * Axes(sd, i)]
  PROVE  Turned(sd, i, 19 + 2 * Axes(sd, i))
  <1>1. /\ i \in Nat \ {0} /\ IsTurn(Turn(sd, i), sd[i][1], sd[i][2], i - 1, Axes(sd, i))
        /\ Axes(sd, i) \in Nat
    BY TensorIs
  <1>2. Token = Op("TUPLE")
    BY <1>1 DEF IsTurn
  <1>3. PICK w, u, x : w = ToReduce(sd, i) /\ u = Arguments(sd, i) /\ x = AtReduce(sd, i)
    OBVIOUS
  <1>4. w[3] = Mark /\ \A k \in 3 + 1 .. 9 : ~IsMark(w[k])
    <2>1. \A k \in 3 + 1 .. 9 : k \in {4, 5, 6, 7, 8, 9}
      OBVIOUS
    <2> QED
      BY <1>3, <2>1, ToReduceHas, NoMarks DEF StoreOf, Sizes, Steps
  <1>5. IsPart(u, w, 3, 9)
    <2>1. DOMAIN u = 1 .. 6 /\ u = [k \in 1 .. 6 |-> u[k]]
      BY <1>3 DEF Arguments
    <2>2. IsList(u) /\ Len(u) = 6
      BY <2>1, ListIs
    <2>3. /\ u[1] = w[4] /\ u[2] = w[5] /\ u[3] = w[6] /\ u[4] = w[7] /\ u[5] = w[8]
          /\ u[6] = w[9]
      BY <1>3, ToReduceHas DEF Arguments
    <2>4. \A k \in 1 .. 9 - 3 : k \in {1, 2, 3, 4, 5, 6}
      OBVIOUS
    <2> QED
      BY <2>2, <2>3, <2>4 DEF IsPart
  <1>6. Changed(x, w, 3, Tuple(u))
    <2>1. x[3] = Tuple(u) /\ x[1] = w[1] /\ x[2] = w[2]
      BY <1>3, ToReduceHas DEF AtReduce
    <2>2. \A k \in 1 .. 3 - 1 : k \in {1, 2}
      OBVIOUS
    <2> QED
      BY <2>1, <2>2 DEF Changed
  <1>7. Ground(stack', sd, i - 1) /\ OnTop(stack', 2 * i, x, 3) /\ Advance
    <2>1. 9 \in Nat /\ 3 \in 1 .. 9 /\ OnTop(stack, 2 * i, w, 9)
      BY <1>3
    <2> QED
      BY <1>1, <1>2, <1>4, <1>5, <1>6, <2>1, TupleOn
  <1>8. Phase(stack', sd, i, 19 + 2 * Axes(sd, i))
    BY <1>3, <1>7 DEF Phase
  <1> QED
    BY <1>7, <1>8 DEF Turned

\* The name and its tensor are on the ground.
Laid(s, sd, i) == Ground(s, sd, i) /\ Len(s) = 2 + 2 * i

\* The last token of a turn makes the tensor.
LEMMA TensorTurn ==
  ASSUME Execute, NEW sd, IsStateDict(sd), NEW i \in 1 .. Len(sd), Ground(stack, sd, i - 1),
         OnTop(stack, 2 * i, AtReduce(sd, i), 3), Token = Turn(sd, i)[20 + 2 * Axes(sd, i)]
  PROVE  Laid(stack', sd, i) /\ Advance
  <1>1. /\ i \in Nat \ {0} /\ IsTurn(Turn(sd, i), sd[i][1], sd[i][2], i - 1, Axes(sd, i))
        /\ Axes(sd, i) \in Nat /\ IsList(sd[i][2].shape) /\ IsList(Strides(sd[i][2].shape))
    BY TensorIs
  <1>2. Token = Op("REDUCE")
    BY <1>1 DEF IsTurn
  <1>3. PICK w, u : w = AtReduce(sd, i) /\ u = Arguments(sd, i)
    OBVIOUS
  <1>4. PICK st, shape, stride :
          st = StoreOf(sd, i) /\ shape = sd[i][2].shape /\ stride = Strides(sd[i][2].shape)
    OBVIOUS
  <1>5. u[1] = st /\ u[2] = IntVal(0) /\ u[3] = Tuple(IntVals(shape)) /\ u[4] = Tuple(IntVals(stride))
    <2>1. u[1] = StoreOf(sd, i) /\ u[2] = IntVal(0) /\ u[3] = Sizes(sd, i) /\ u[4] = Steps(sd, i)
      BY <1>3 DEF Arguments
    <2> QED
      BY <1>4, <2>1 DEF Sizes, Steps
  <1>6. w[1] = Str(sd[i][1]) /\ w[2] = Global("_rebuild_tensor_v2") /\ w[3] = Tuple(u)
    BY <1>3 DEF AtReduce
  <1>7. PICK b \in Nat : b = 2 * i
    BY <1>1
  <1>8. OnTop(stack, b, w, 3) /\ 3 \in Nat \ {0} /\ 3 > 1 /\ 3 - 1 = 2
    BY <1>3, <1>7
  <1>9. /\ Len(stack) = b + 3 /\ Len(stack) > 1 /\ stack[Len(stack)] = Tuple(u) /\ IsList(stack)
        /\ stack[Len(stack) - 1] = Global("_rebuild_tensor_v2")
    BY <1>6, <1>8, TopOf DEF OnTop
  <1>10. PICK v, t, d : v = TensorVal(st, 0, shape, stride) /\ t = stack' /\ d = Len(stack) - 1
    OBVIOUS
  <1>11. Cut(t, stack, d, v) /\ pos' = pos + 1 /\ UNCHANGED <<buf, status>>
    BY <1>1, <1>2, <1>4, <1>5, <1>9, <1>10, ReduceStep
  <1>12. v = Held(sd, i)
    BY <1>4, <1>10 DEF Held
  <1>13. PICK x : x = <<Str(sd[i][1]), v>>
    OBVIOUS
  <1>14. x[1] = w[1] /\ x[2] = v
    BY <1>6, <1>13
  <1>15. Changed(x, w, 2, v)
    <2>1. \A k \in 1 .. 2 - 1 : k = 1
      OBVIOUS
    <2> QED
      BY <1>14, <2>1 DEF Changed
  <1>16. OnTop(t, b, x, 2) /\ SameUpTo(t, stack, b)
    <2>1. PICK s : s = stack
      OBVIOUS
    <2>2. IsSum(d, b, 2) /\ 2 \in 1 .. 3 /\ OnTop(s, b, w, 3) /\ Cut(t, s, d, v)
      BY <1>8, <1>9, <1>10, <1>11, <2>1 DEF IsSum
    <2>3. OnTop(t, b, x, 2) /\ SameUpTo(t, s, b)
      BY <1>15, <2>2, OnTopCut
    <2> QED
      BY <2>1, <2>3
  <1>17. IsList(t) /\ Len(t) = b + 2 /\ t[b + 1] = Str(sd[i][1]) /\ t[b + 2] = Held(sd, i)
    <2>1. 1 \in 1 .. 2 /\ 2 \in 1 .. 2
      OBVIOUS
    <2> QED
      BY <1>6, <1>12, <1>14, <1>16, <2>1 DEF OnTop
  <1>18. Ground(t, sd, i - 1)
    <2>1. IsList(t) /\ Len(t) >= 2 * i /\ \A k \in 1 .. 2 * i : t[k] = stack[k]
      BY <1>7, <1>16, <1>17 DEF SameUpTo
    <2> QED
      BY <1>1, <2>1, GroundKept
  <1>19. Ground(t, sd, i)
    <2>1. \A m \in 1 .. i : m = i \/ m \in 1 .. i - 1
      BY <1>1
    <2>2. Len(t) >= 2 + 2 * i /\ t[2 * i + 1] = Str(sd[i][1]) /\ t[2 * i + 2] = Held(sd, i)
      BY <1>7, <1>17
    <2> QED
      BY <1>18, <2>1, <2>2 DEF Ground
  <1>20. Len(t) = 2 + 2 * i
    BY <1>7, <1>17
  <1> QED
    BY <1>10, <1>11, <1>19, <1>20 DEF Laid, Advance

\* A turn goes through its phases.
LEMMA TurnStep ==
  ASSUME Execute, NEW sd, IsStateDict(sd), NEW i \in 1 .. Len(sd), Ground(stack, sd, i - 1),
         NEW j \in 0 .. 18 + 2 * Axes(sd, i), Phase(stack, sd, i, j), Token = Turn(sd, i)[j + 1]
  PROVE  Turned(sd, i, j + 1)
  <1>1. Axes(sd, i) \in Nat
    BY TensorIs
  <1>2. PICK n \in Nat, h \in Nat : n = Axes(sd, i) /\ h = j
    BY <1>1
  <1>3. CASE h \in 0 .. 9 /\ OnTop(stack, 2 * i, ToPersid(sd, i), h)
    <2>1. CASE h = 9
      <3>1. j + 1 = 10
        BY <1>2, <2>1
      <3>2. Token = Turn(sd, i)[10] /\ OnTop(stack, 2 * i, ToPersid(sd, i), 9)
        BY <1>3, <2>1, <3>1
      <3>3. Turned(sd, i, 10)
        BY <3>2, IdTurn
      <3> QED
        BY <3>1, <3>3
    <2>2. CASE h # 9
      <3>1. h \in 0 .. 8
        BY <1>3, <2>2
      <3> QED
        BY <1>2, <1>3, <3>1, PersidTurn
    <2> QED
      BY <2>1, <2>2
  <1>4. CASE h = 10 /\ OnTop(stack, 2 * i, AtPersid(sd, i), 4)
    <2>1. j + 1 = 11
      BY <1>2, <1>4
    <2>2. Token = Turn(sd, i)[11]
      BY <2>1
    <2>3. Turned(sd, i, 11)
      BY <1>4, <2>2, StoreTurn
    <2> QED
      BY <2>1, <2>3
  <1>5. CASE h \in 11 .. 13 + n /\ OnTop(stack, 2 * i, ToSizes(sd, i), h - 7)
    <2>1. CASE h = 13 + n
      <3>1. j + 1 = 14 + n /\ h - 7 = 6 + n
        BY <1>2, <2>1
      <3>2. /\ OnTop(stack, 2 * i, ToSizes(sd, i), 6 + Axes(sd, i))
            /\ Token = Turn(sd, i)[14 + Axes(sd, i)]
        BY <1>2, <1>5, <3>1
      <3>3. Turned(sd, i, 14 + Axes(sd, i))
        BY <3>2, SizesTuple
      <3> QED
        BY <1>2, <3>1, <3>3
    <2>2. CASE h # 13 + n
      <3>1. h \in 11 .. 12 + Axes(sd, i)
        BY <1>2, <1>5, <2>2
      <3> QED
        BY <1>2, <1>5, <3>1, SizesTurn
    <2> QED
      BY <2>1, <2>2
  <1>6. CASE h \in 14 + n .. 15 + 2 * n /\ OnTop(stack, 2 * i, ToSteps(sd, i), h - 8 - n)
    <2>1. CASE h = 15 + 2 * n
      <3>1. j + 1 = 16 + 2 * n /\ h - 8 - n = 7 + n
        BY <1>2, <2>1
      <3>2. /\ OnTop(stack, 2 * i, ToSteps(sd, i), 7 + Axes(sd, i))
            /\ Token = Turn(sd, i)[16 + 2 * Axes(sd, i)]
        BY <1>2, <1>6, <3>1
      <3>3. Turned(sd, i, 16 + 2 * Axes(sd, i))
        BY <3>2, StepsTuple
      <3> QED
        BY <1>2, <3>1, <3>3
    <2>2. CASE h # 15 + 2 * n
      <3>a. h \in 14 + n .. 14 + 2 * n
        BY <1>6, <2>2
      <3>1. h \in 14 + Axes(sd, i) .. 14 + 2 * Axes(sd, i)
        BY <1>2, <3>a
      <3>2. OnTop(stack, 2 * i, ToSteps(sd, i), h - 8 - Axes(sd, i))
        BY <1>2, <1>6
      <3> QED
        BY <1>2, <3>1, <3>2, StepsTurn
    <2> QED
      BY <2>1, <2>2
  <1>7. CASE h \in 16 + 2 * n .. 18 + 2 * n /\ OnTop(stack, 2 * i, ToReduce(sd, i), h - 9 - 2 * n)
    <2>1. CASE h = 18 + 2 * n
      <3>1. j + 1 = 19 + 2 * n /\ h - 9 - 2 * n = 9
        BY <1>2, <2>1
      <3>2. /\ OnTop(stack, 2 * i, ToReduce(sd, i), 9)
            /\ Token = Turn(sd, i)[19 + 2 * Axes(sd, i)]
        BY <1>2, <1>7, <3>1
      <3>3. Turned(sd, i, 19 + 2 * Axes(sd, i))
        BY <3>2, ArgumentsTuple
      <3> QED
        BY <1>2, <3>1, <3>3
    <2>2. CASE h # 18 + 2 * n
      <3>1. h \in 16 + 2 * Axes(sd, i) .. 17 + 2 * Axes(sd, i)
        BY <1>2, <1>7, <2>2
      <3>2. OnTop(stack, 2 * i, ToReduce(sd, i), h - 9 - 2 * Axes(sd, i))
        BY <1>2, <1>7
      <3> QED
        BY <1>2, <3>1, <3>2, FlagsTurn
    <2> QED
      BY <2>1, <2>2
  <1>8. h # 19 + 2 * n
    BY <1>2
  <1>9. Phase(stack, sd, i, h)
    BY <1>2
  <1>10. \/ h \in 0 .. 9 /\ OnTop(stack, 2 * i, ToPersid(sd, i), h)
         \/ h = 10 /\ OnTop(stack, 2 * i, AtPersid(sd, i), 4)
         \/ h \in 11 .. 13 + n /\ OnTop(stack, 2 * i, ToSizes(sd, i), h - 7)
         \/ h \in 14 + n .. 15 + 2 * n /\ OnTop(stack, 2 * i, ToSteps(sd, i), h - 8 - n)
         \/ h \in 16 + 2 * n .. 18 + 2 * n /\ OnTop(stack, 2 * i, ToReduce(sd, i), h - 9 - 2 * n)
         \/ h = 19 + 2 * n
    BY <1>2, <1>9 DEF Phase
  <1> QED
    BY <1>3, <1>4, <1>5, <1>6, <1>7, <1>8, <1>10

\* The end of a turn.
LEMMA TurnEnds ==
  ASSUME Execute, NEW sd, IsStateDict(sd), NEW i \in 1 .. Len(sd), Ground(stack, sd, i - 1),
         NEW j \in Nat, j = 19 + 2 * Axes(sd, i), Phase(stack, sd, i, j), Token = Turn(sd, i)[j + 1]
  PROVE  Laid(stack', sd, i) /\ Advance
  <1>1. Axes(sd, i) \in Nat
    BY TensorIs
  <1>2. PICK n \in Nat, h \in Nat : n = Axes(sd, i) /\ h = 19 + 2 * n
    BY <1>1
  <1>3. /\ h \notin 0 .. 9 /\ h # 10 /\ h \notin 11 .. 13 + n /\ h \notin 14 + n .. 15 + 2 * n
        /\ h \notin 16 + 2 * n .. 18 + 2 * n /\ h + 1 = 20 + 2 * n
    <2>1. h > 10 /\ h > 13 + n /\ h > 15 + 2 * n /\ h > 18 + 2 * n /\ h + 1 = 20 + 2 * n
      BY <1>2
    <2> QED
      BY <2>1
  <1>4. Phase(stack, sd, i, h) /\ Token = Turn(sd, i)[20 + 2 * Axes(sd, i)]
    BY <1>2, <1>3
  <1>5. OnTop(stack, 2 * i, AtReduce(sd, i), 3)
    BY <1>2, <1>3, <1>4 DEF Phase
  <1> QED
    BY <1>4, <1>5, TensorTurn

-----------------------------------------------------------------------------
(* The whole pickle *)

AllEntries(sd) == [m \in 1 .. Len(sd) |-> <<Str(sd[m][1]), Held(sd, m)>>]
Weights(sd) == Dict(AllEntries(sd))
HasWeights(s, sd) == IsList(s) /\ s # <<>> /\ s[Len(s)] = Weights(sd)

\* How far the machine has come with the pickle of sd, its stack s at place p.
InTurn(s, p, sd, i, j) == /\ p = Before(sd, i - 1) + 1 + j
                          /\ Ground(s, sd, i - 1) /\ Phase(s, sd, i, j)
AfterTurns(s, p, sd) == p = Before(sd, Len(sd)) + 1 /\ Laid(s, sd, Len(sd))
IsReading(s, p, sd) ==
  \/ p \in {1, 2} /\ s = <<>>
  \/ p = 3 /\ s = <<Dict(<<>>)>>
  \/ \E i \in 1 .. Len(sd) : \E j \in 0 .. 19 + 2 * Axes(sd, i) : InTurn(s, p, sd, i, j)
  \/ AfterTurns(s, p, sd)
  \/ p = Before(sd, Len(sd)) + 2 /\ HasWeights(s, sd)

Reading(sd) ==
  /\ buf = DataPkl(sd)
  /\ status \in {"run", "stop"}
  /\ status = "run" => IsReading(stack, pos, sd)
  /\ status = "stop" => HasWeights(stack, sd)

\* Names and tensors become the entries of the dictionary below them.
LEMMA EntriesStep ==
  ASSUME Execute, Token = Op("SETITEMS"), NEW sd, IsList(sd), Laid(stack, sd, Len(sd))
  PROVE  HasWeights(stack', sd) /\ Advance
  <1>1. SetItems
    BY OnlyOp DEF Op
  <1>2. PICK l \in Nat : l = Len(sd)
    BY ListHas
  <1>3. /\ IsList(stack) /\ Len(stack) = 2 + 2 * l /\ stack[1] = Dict(<<>>) /\ stack[2] = Mark
        /\ \A m \in 1 .. l : stack[2 * m + 1] = Str(sd[m][1]) /\ stack[2 * m + 2] = Held(sd, m)
    BY <1>2 DEF Laid, Ground
  <1>4. \A k \in 2 + 1 .. Len(stack) : ~IsMark(stack[k])
    <2> TAKE k \in 2 + 1 .. Len(stack)
    <2>1. PICK m \in 1 .. l : k = 2 * m + 1 \/ k = 2 * m + 2
      <3>1. (k - 1) \div 2 \in 1 .. l /\ (k = 2 * ((k - 1) \div 2) + 1 \/ k = 2 * ((k - 1) \div 2) + 2)
        BY <1>2, <1>3
      <3> QED
        BY <3>1
    <2>2. stack[2 * m + 1] = Str(sd[m][1]) /\ stack[2 * m + 2] = Held(sd, m)
      BY <1>3
    <2> QED
      BY <2>1, <2>2, NoMarks DEF Held
  <1>5. LastMark = 2
    <2>1. 2 \in 1 .. Len(stack)
      BY <1>2, <1>3
    <2> QED
      BY <1>3, <1>4, <2>1, MarkIs
  <1>6. PICK g, p : g = SubSeq(stack, 1, 1) /\ p = SubSeq(stack, 3, Len(stack))
    OBVIOUS
  <1>7. BelowMark = g /\ PoppedToMark = p
    <2>1. 2 + 1 = 3 /\ 2 - 1 = 1
      OBVIOUS
    <2> QED
      BY <1>5, <1>6, <2>1 DEF BelowMark, PoppedToMark
  <1>8. IsList(g) /\ Len(g) = 1 /\ g[1] = Dict(<<>>)
    <2>1. 1 \in 1 .. Len(stack) + 1 /\ 1 \in 1 - 1 .. Len(stack) /\ 1 - 1 + 1 = 1 /\ 1 + 1 - 1 = 1 /\ 1 \in 1 .. 1
      BY <1>2, <1>3
    <2>2. IsList(g) /\ Len(g) = 1 - 1 + 1 /\ \A k \in 1 .. 1 - 1 + 1 : g[k] = stack[1 + k - 1]
      BY <1>3, <1>6, <2>1, PartList
    <2> QED
      BY <1>3, <2>1, <2>2
  <1>9. IsList(p) /\ Len(p) = 2 * l /\ \A k \in 1 .. 2 * l : p[k] = stack[2 + k]
    <2>1. PICK x \in Nat : x = Len(stack)
      BY <1>2, <1>3
    <2>2. 3 \in 1 .. Len(stack) + 1 /\ x \in 3 - 1 .. Len(stack)
      BY <1>2, <1>3, <2>1
    <2>3. p = SubSeq(stack, 3, x)
      BY <1>6, <2>1
    <2>4. IsList(p) /\ Len(p) = x - 3 + 1 /\ \A k \in 1 .. x - 3 + 1 : p[k] = stack[3 + k - 1]
      BY <1>3, <2>2, <2>3, PartList
    <2>5. x - 3 + 1 = 2 * l /\ \A k \in 1 .. 2 * l : 3 + k - 1 = 2 + k
      BY <1>2, <1>3, <2>1
    <2> QED
      BY <2>4, <2>5
  <1>10. PICK e, d : e = Entries(p) /\ d = Dict(<<>>)
    OBVIOUS
  <1>11. e = AllEntries(sd) /\ IsList(e)
    <2>1. Len(p) \div 2 = l
      BY <1>2, <1>9
    <2>2. ASSUME NEW k \in 1 .. l
          PROVE  p[2 * k - 1] = Str(sd[k][1]) /\ p[2 * k] = Held(sd, k)
      <3>1. 2 * k - 1 \in 1 .. 2 * l /\ 2 * k \in 1 .. 2 * l
            /\ 2 + (2 * k - 1) = 2 * k + 1 /\ 2 + 2 * k = 2 * k + 2
        BY <1>2
      <3>2. p[2 * k - 1] = stack[2 * k + 1] /\ p[2 * k] = stack[2 * k + 2]
        BY <1>9, <3>1
      <3> QED
        BY <1>3, <3>2
    <2>3. e = [k \in 1 .. l |-> <<p[2 * k - 1], p[2 * k]>>]
      BY <1>10, <2>1 DEF Entries
    <2>4. e = AllEntries(sd)
      BY <1>2, <2>2, <2>3 DEF AllEntries
    <2>5. DOMAIN e = 1 .. l /\ e = [k \in 1 .. l |-> e[k]]
      BY <2>3
    <2> QED
      BY <2>4, <2>5, ListIs
  <1>12. PICK o : o = <<>> \o e
    OBVIOUS
  <1>13. o = e
    <2>1. PICK n : n = <<>>
      OBVIOUS
    <2>2. IsList(n) /\ Len(n) = 0
      <3>1. n \in Seq(Range(n)) /\ Len(n) = 0
        BY <2>1
      <3> QED
        BY <3>1 DEF IsList
    <2>3. o = Joined(n, e)
      BY <1>12, <2>1 DEF Joined
    <2>4. IsJoint(o, n, 0, e, Len(e))
      BY <1>11, <2>2, <2>3, Joins
    <2>5. IsList(o) /\ Len(o) = Len(e) /\ \A k \in 1 .. Len(o) : o[k] = e[k]
      BY <1>11, <2>4, ListHas DEF IsJoint
    <2> QED
      BY <1>11, <2>5, SameList
  <1>14. d.kind = "Dict" /\ d.entries = <<>> /\ g[Len(g)] = d
    BY <1>8, <1>10 DEF Dict
  <1>15. PICK t : t = WithEntries(g, p)
    OBVIOUS
  <1>16. t = [g EXCEPT ![1] = Dict(e)]
    <2>1. g # <<>>
      BY <1>8
    <2>2. TopIs(g, "Dict")
      BY <1>14, <2>1 DEF TopIs
    <2>3. t = [g EXCEPT ![Len(g)] = Dict(@.entries \o Entries(p))]
      BY <1>15, <2>2 DEF WithEntries
    <2>4. t = [g EXCEPT ![1] = Dict(g[1].entries \o e)]
      BY <1>8, <1>10, <2>3
    <2>5. g[1].entries \o e = o
      BY <1>8, <1>10, <1>12, <1>14
    <2> QED
      BY <1>13, <2>4, <2>5
  <1>17. IsList(t) /\ Len(t) = 1 /\ t[1] = Dict(e)
    <2>1. DOMAIN g = 1 .. 1 /\ g = [k \in 1 .. 1 |-> g[k]]
      BY <1>8, ListHas
    <2>a. PICK y : y = Dict(e)
      OBVIOUS
    <2>b. t = [g EXCEPT ![1] = y]
      BY <1>16, <2>a
    <2>c. t = [k \in 1 .. 1 |-> y]
      <3>1. t = [k \in DOMAIN g |-> IF k = 1 THEN y ELSE g[k]]
        BY <2>b
      <3>2. \A k \in 1 .. 1 : k = 1
        OBVIOUS
      <3> QED
        BY <2>1, <3>1, <3>2
    <2>2. DOMAIN t = 1 .. 1 /\ t = [k \in 1 .. 1 |-> t[k]] /\ t[1] = Dict(e)
      BY <2>a, <2>c
    <2> QED
      BY <2>2, ListIs
  <1>18. HasWeights(t, sd)
    <2>1. t # <<>>
      BY <1>17
    <2> QED
      BY <1>11, <1>17, <2>1 DEF HasWeights, Weights
  <1>19. stack' = t /\ Advance
    BY <1>1, <1>7, <1>15 DEF SetItems, Become, Advance
  <1> QED
    BY <1>18, <1>19

\* After i turns comes the next one, or the end.
LEMMA NextTurn ==
  ASSUME NEW sd, IsStateDict(sd), NEW i \in 0 .. Len(sd), NEW s, Laid(s, sd, i),
         NEW p \in Nat, p = Before(sd, i) + 1
  PROVE  IsReading(s, p, sd)
  <1>1. PICK l \in Nat : l = Len(sd)
    BY ListHas DEF IsStateDict
  <1>2. CASE i = l
    BY <1>1, <1>2 DEF IsReading, AfterTurns
  <1>3. CASE i # l
    <2>1. PICK h \in 1 .. l : h = i + 1 /\ h - 1 = i
      BY <1>1, <1>3
    <2>2. Axes(sd, h) \in Nat
      BY <1>1, <2>1, TensorIs
    <2>3. Before(sd, i) \in Nat
      BY TokensAre
    <2>4. p = Before(sd, h - 1) + 1 + 0
      BY <2>1, <2>3
    <2>5. Ground(s, sd, h - 1)
      BY <2>1 DEF Laid
    <2>6. OnTop(s, 2 * h, ToPersid(sd, h), 0)
      <3>1. IsList(s) /\ Len(s) = 2 + 2 * i /\ 2 + 2 * i = 2 * h + 0
        BY <1>1, <2>1 DEF Laid, Ground
      <3> QED
        BY <3>1 DEF OnTop
    <2>7. Phase(s, sd, h, 0)
      <3>1. 0 \in 0 .. 9
        OBVIOUS
      <3> QED
        BY <2>6, <3>1 DEF Phase
    <2>8. 0 \in 0 .. 19 + 2 * Axes(sd, h)
      BY <2>2
    <2>9. InTurn(s, p, sd, h, 0)
      BY <2>4, <2>5, <2>7 DEF InTurn
    <2> QED
      BY <1>1, <2>8, <2>9 DEF IsReading
  <1> QED
    BY <1>2, <1>3

\* The header.
LEMMA HeaderStep ==
  ASSUME Execute, NEW sd, IsStateDict(sd), buf = DataPkl(sd),
         \/ pos \in {1, 2} /\ stack = <<>>
         \/ pos = 3 /\ stack = <<Dict(<<>>)>>
  PROVE  IsReading(stack', pos', sd) /\ UNCHANGED <<buf, status>>
  <1>1. \A k \in 1 .. 3 : buf[k] = Opening[k]
    BY TokensAre
  <1>2. Opening[1] = Op("PROTO") /\ Opening[2] = Op("EMPTY_DICT") /\ Opening[3] = Op("MARK")
    BY DEF Opening
  <1>3. CASE pos = 1 /\ stack = <<>>
    <2>1. Token = Op("PROTO")
      <3>1. 1 \in 1 .. 3
        OBVIOUS
      <3> QED
        BY <1>1, <1>2, <1>3, <3>1 DEF Token
    <2>2. Proto
      BY <2>1, OnlyOp DEF Op
    <2>3. stack' = <<>> /\ pos' = 2 /\ UNCHANGED <<buf, status>>
      BY <1>3, <2>2 DEF Proto, Become
    <2> QED
      BY <2>3 DEF IsReading
  <1>4. CASE pos = 2 /\ stack = <<>>
    <2>1. Token = Op("EMPTY_DICT")
      <3>1. 2 \in 1 .. 3
        OBVIOUS
      <3> QED
        BY <1>1, <1>2, <1>4, <3>1 DEF Token
    <2>2. PICK d : d = Dict(<<>>)
      OBVIOUS
    <2>3. Moved(Added(stack, d))
      BY <2>1, <2>2, Pushes, PushStep
    <2>4. stack' = Append(<<>>, d) /\ pos' = 3 /\ UNCHANGED <<buf, status>>
      BY <1>4, <2>3 DEF Moved, Added
    <2>5. Append(<<>>, d) = <<d>>
      OBVIOUS
    <2> QED
      BY <2>2, <2>4, <2>5 DEF IsReading
  <1>5. CASE pos = 3 /\ stack = <<Dict(<<>>)>>
    <2>1. Token = Op("MARK")
      <3>1. 3 \in 1 .. 3
        OBVIOUS
      <3> QED
        BY <1>1, <1>2, <1>5, <3>1 DEF Token
    <2>2. Moved(Added(stack, Mark))
      BY <2>1, Pushes, PushStep
    <2>3. PICK s, d : s = stack' /\ d = Dict(<<>>)
      OBVIOUS
    <2>4. stack = <<d>> /\ IsList(stack) /\ Len(stack) = 1 /\ stack[1] = d
      <3>1. IsList(<<d>>) /\ Len(<<d>>) = 1 /\ <<d>>[1] = d
        BY OneList
      <3> QED
        BY <1>5, <2>3, <3>1
    <2>5. Grew(s, stack, Mark)
      <3>1. Grew(Added(stack, Mark), stack, Mark)
        BY <2>4, AddedGrew
      <3> QED
        BY <2>2, <2>3, <3>1 DEF Moved
    <2>6. IsList(s) /\ Len(s) = 2 /\ s[1] = d /\ s[2] = Mark
      <3>1. 1 \in 1 .. 1 /\ 1 + 1 = 2
        OBVIOUS
      <3> QED
        BY <2>4, <2>5, <3>1 DEF Grew
    <2>7. Laid(s, sd, 0)
      <3>1. 2 + 2 * 0 = 2 /\ 1 .. 0 = {}
        OBVIOUS
      <3> QED
        BY <2>3, <2>6, <3>1 DEF Laid, Ground
    <2>8. pos' = 4 /\ UNCHANGED <<buf, status>>
      BY <1>5, <2>2 DEF Moved
    <2>9. IsReading(s, 4, sd)
      <3>1. Before(sd, 0) = 3 /\ 4 = 3 + 1 /\ 4 \in Nat
        BY TokensAre
      <3>2. 0 \in 0 .. Len(sd)
        <4>1. Len(sd) \in Nat
          BY ListHas DEF IsStateDict
        <4> QED
          BY <4>1
      <3> QED
        BY <2>7, <3>1, <3>2, NextTurn
    <2> QED
      BY <2>3, <2>8, <2>9
  <1> QED
    BY <1>3, <1>4, <1>5

\* One token of a turn.
LEMMA TokenStep ==
  ASSUME Execute, NEW sd, IsStateDict(sd), buf = DataPkl(sd),
         NEW i \in 1 .. Len(sd), NEW j \in 0 .. 19 + 2 * Axes(sd, i), InTurn(stack, pos, sd, i, j)
  PROVE  IsReading(stack', pos', sd) /\ UNCHANGED <<buf, status>>
  <1>1. PICK l \in Nat, n \in Nat, h \in Nat : l = Len(sd) /\ n = Axes(sd, i) /\ h = j
    <2>1. Len(sd) \in Nat /\ Axes(sd, i) \in Nat
      BY TensorIs
    <2> QED
      BY <2>1
  <1>2. Len(Turn(sd, i)) = 20 + 2 * n
    BY <1>1, TurnList DEF Axes
  <1>3. /\ Before(sd, i - 1) \in Nat /\ Before(sd, i) = Before(sd, i - 1) + (20 + 2 * n)
        /\ \A k \in 1 .. 20 + 2 * n : DataPkl(sd)[Before(sd, i - 1) + k] = Turn(sd, i)[k]
    <2>1. i - 1 \in 0 .. Len(sd)
      BY <1>1
    <2>2. Before(sd, i - 1) \in Nat
      BY <2>1, TokensAre
    <2>3. Before(sd, i) = Before(sd, i - 1) + Len(Turn(sd, i))
      BY TokensAre
    <2>4. \A k \in 1 .. Len(Turn(sd, i)) : DataPkl(sd)[Before(sd, i - 1) + k] = Turn(sd, i)[k]
      BY TokensAre
    <2> QED
      BY <1>2, <2>2, <2>3, <2>4
  <1>4. /\ pos = Before(sd, i - 1) + (h + 1) /\ Ground(stack, sd, i - 1) /\ Phase(stack, sd, i, h)
        /\ h + 1 \in 1 .. 20 + 2 * n
    BY <1>1, <1>3 DEF InTurn
  <1>5. Token = Turn(sd, i)[h + 1]
    BY <1>3, <1>4 DEF Token
  <1>6. CASE h = 19 + 2 * n
    <2>1. Laid(stack', sd, i) /\ Advance
      BY <1>1, <1>4, <1>5, <1>6, TurnEnds
    <2>a. PICK b \in Nat : b = Before(sd, i - 1)
      BY <1>3
    <2>b. Before(sd, i) = b + (20 + 2 * n) /\ pos = b + (h + 1)
      BY <1>3, <1>4, <2>a
    <2>c. pos' = pos + 1 /\ UNCHANGED <<buf, status>>
      BY <2>1 DEF Advance
    <2>2. pos' = Before(sd, i) + 1 /\ UNCHANGED <<buf, status>> /\ pos' \in Nat
      BY <1>6, <2>b, <2>c
    <2>3. PICK p \in Nat, s \in {stack'} : s = stack' /\ p = pos'
      BY <2>2
    <2>4. i \in 0 .. Len(sd)
      BY <1>1
    <2>5. IsReading(s, p, sd)
      BY <2>1, <2>2, <2>3, <2>4, NextTurn
    <2> QED
      BY <2>2, <2>3, <2>5
  <1>7. CASE h # 19 + 2 * n
    <2>1. h \in 0 .. 18 + 2 * Axes(sd, i)
      BY <1>1, <1>7
    <2>2. Turned(sd, i, h + 1)
      BY <1>4, <1>5, <2>1, TurnStep
    <2>3. pos' = Before(sd, i - 1) + 1 + (h + 1) /\ UNCHANGED <<buf, status>>
      BY <1>3, <1>4, <2>2 DEF Turned, Advance
    <2>4. h + 1 \in 0 .. 19 + 2 * Axes(sd, i)
      BY <1>1, <2>1
    <2>5. InTurn(stack', pos', sd, i, h + 1)
      BY <2>2, <2>3 DEF InTurn, Turned
    <2> QED
      BY <2>3, <2>4, <2>5 DEF IsReading
  <1> QED
    BY <1>6, <1>7

\* The machine reads the pickle that SavePth wrote.
LEMMA ReadingStep ==
  ASSUME Execute, NEW sd, IsStateDict(sd), Reading(sd)
  PROVE  Reading(sd)'
  <1>1. status = "run"
    BY OnlyOp
  <1>2. buf = DataPkl(sd) /\ IsReading(stack, pos, sd)
    BY <1>1 DEF Reading
  <1>3. IsList(sd) /\ Len(sd) \in Nat
    BY ListHas DEF IsStateDict
  <1>4. /\ buf[Before(sd, Len(sd)) + 1] = Op("SETITEMS")
        /\ buf[Before(sd, Len(sd)) + 2] = Op("STOP")
    BY <1>2, TokensAre
  <1>5. Before(sd, Len(sd)) \in Nat
    <2>1. Len(sd) \in 0 .. Len(sd)
      BY <1>3
    <2> QED
      BY <2>1, TokensAre
  <1>6. CASE (pos \in {1, 2} /\ stack = <<>>) \/ (pos = 3 /\ stack = <<Dict(<<>>)>>)
    <2>1. IsReading(stack', pos', sd) /\ UNCHANGED <<buf, status>>
      BY <1>2, <1>6, HeaderStep
    <2> QED
      BY <1>1, <1>2, <2>1 DEF Reading
  <1>7. CASE \E i \in 1 .. Len(sd) : \E j \in 0 .. 19 + 2 * Axes(sd, i) : InTurn(stack, pos, sd, i, j)
    <2>1. PICK i \in 1 .. Len(sd) : \E j \in 0 .. 19 + 2 * Axes(sd, i) : InTurn(stack, pos, sd, i, j)
      BY <1>7
    <2>2. PICK j \in 0 .. 19 + 2 * Axes(sd, i) : InTurn(stack, pos, sd, i, j)
      BY <2>1
    <2>3. IsReading(stack', pos', sd) /\ UNCHANGED <<buf, status>>
      BY <1>2, <2>2, TokenStep
    <2> QED
      BY <1>1, <1>2, <2>3 DEF Reading
  <1>8. CASE AfterTurns(stack, pos, sd)
    <2>1. Token = Op("SETITEMS") /\ Laid(stack, sd, Len(sd))
      BY <1>4, <1>8 DEF AfterTurns, Token
    <2>2. HasWeights(stack', sd) /\ Advance
      BY <1>3, <2>1, EntriesStep
    <2>3. pos' = Before(sd, Len(sd)) + 2
      BY <1>5, <1>8, <2>2 DEF AfterTurns, Advance
    <2>4. IsReading(stack', pos', sd)
      BY <2>2, <2>3 DEF IsReading
    <2> QED
      BY <1>1, <1>2, <2>2, <2>4 DEF Reading, Advance
  <1>9. CASE pos = Before(sd, Len(sd)) + 2 /\ HasWeights(stack, sd)
    <2>1. Token = Op("STOP")
      BY <1>4, <1>9 DEF Token
    <2>2. Stop
      BY <2>1, OnlyOp DEF Op
    <2>3. status' = "stop" /\ UNCHANGED <<buf, stack>>
      BY <2>2 DEF Stop
    <2> QED
      BY <1>2, <1>9, <2>3 DEF Reading, HasWeights
  <1> QED
    BY <1>2, <1>6, <1>7, <1>8, <1>9 DEF IsReading

-----------------------------------------------------------------------------
(* The dictionary of the tensors *)

\* All the elements are the list.
LEMMA AmongAll ==
  ASSUME NEW e, IsList(e)
  PROVE  Among(e, 1 .. Len(e)) = e
  <1>1. PICK l \in Nat : l = Len(e) /\ DOMAIN e = 1 .. l /\ e = [k \in 1 .. l |-> e[k]]
    BY ListHas
  <1>2. Cardinality(1 .. l) = l
    BY FS_Interval
  <1>3. ASSUME NEW k \in 1 .. l PROVE Nth(1 .. l, k) = k
    <2>1. \A j \in 1 .. l : Cardinality({i \in 1 .. l : i <= j}) = j
      <3> TAKE j \in 1 .. l
      <3>1. {i \in 1 .. l : i <= j} = 1 .. j
        OBVIOUS
      <3>2. Cardinality(1 .. j) = j
        BY FS_Interval
      <3> QED
        BY <3>1, <3>2
    <2>2. PICK n : n = Nth(1 .. l, k)
      OBVIOUS
    <2>3. n \in 1 .. l /\ Cardinality({i \in 1 .. l : i <= n}) = k
      BY <2>1, <2>2 DEF Nth
    <2> QED
      BY <2>1, <2>2, <2>3
  <1>4. Among(e, 1 .. l) = [k \in 1 .. l |-> e[Nth(1 .. l, k)]]
    BY <1>2 DEF Among
  <1> QED
    BY <1>1, <1>3, <1>4

\* No element is the empty list.
LEMMA AmongNone == ASSUME NEW s PROVE Among(s, {}) = <<>>
  <1>1. Cardinality({}) = 0
    BY FS_EmptySet
  <1>2. 1 .. 0 = {}
    OBVIOUS
  <1>3. Among(s, {}) = [k \in {} |-> s[Nth({}, k)]]
    BY <1>1, <1>2 DEF Among
  <1>4. [k \in {} |-> s[Nth({}, k)]] = <<>>
    OBVIOUS
  <1> QED
    BY <1>3, <1>4

\* The entries of the dictionary, in the order of the tensors.
LEMMA EntriesList ==
  ASSUME NEW sd, IsList(sd)
  PROVE  /\ IsList(AllEntries(sd)) /\ Len(AllEntries(sd)) = Len(sd)
         /\ \A m \in 1 .. Len(sd) : AllEntries(sd)[m] = <<Str(sd[m][1]), Held(sd, m)>>
  <1>1. PICK l \in Nat : l = Len(sd)
    BY ListHas
  <1>2. PICK e : e = AllEntries(sd)
    OBVIOUS
  <1>3. /\ DOMAIN e = 1 .. l /\ e = [m \in 1 .. l |-> e[m]]
        /\ \A m \in 1 .. l : e[m] = <<Str(sd[m][1]), Held(sd, m)>>
    BY <1>1, <1>2 DEF AllEntries
  <1>4. IsList(e) /\ Len(e) = l
    BY <1>3, ListIs
  <1> QED
    BY <1>1, <1>2, <1>3, <1>4

\* The tensors that are picked from it are all of them.
LEMMA PicksAll ==
  ASSUME NEW sd, IsList(sd)
  PROVE  PickTensors(Weights(sd)) = AllEntries(sd)
  <1>1. PICK e, w : e = AllEntries(sd) /\ w = Weights(sd)
    OBVIOUS
  <1>2. w.entries = e
    BY <1>1 DEF Weights, Dict
  <1>3. /\ IsList(e) /\ Len(e) = Len(sd) /\ Len(e) \in Nat /\ DOMAIN e = 1 .. Len(e)
        /\ \A m \in 1 .. Len(e) : e[m] = <<Str(sd[m][1]), Held(sd, m)>>
    BY <1>1, EntriesList, ListHas
  <1>4. \A m \in 1 .. Len(e) : e[m][1].kind = "Str" /\ e[m][2].kind = "Tensor"
    <2> TAKE m \in 1 .. Len(e)
    <2>1. e[m][1] = Str(sd[m][1]) /\ e[m][2] = Held(sd, m)
      BY <1>3
    <2>2. Str(sd[m][1]).kind = "Str" /\ Held(sd, m).kind = "Tensor"
      BY DEF Str, Held, TensorVal
    <2> QED
      BY <2>1, <2>2
  <1>5. NamedTensors(w) = e
    <2>1. {k \in DOMAIN w.entries :
             w.entries[k][1].kind = "Str" /\ w.entries[k][2].kind = "Tensor"} = 1 .. Len(e)
      BY <1>2, <1>3, <1>4
    <2>2. NamedTensors(w) = Among(e, 1 .. Len(e))
      BY <1>2, <2>1 DEF NamedTensors
    <2> QED
      BY <1>3, <2>2, AmongAll
  <1>6. CASE e # <<>>
    BY <1>1, <1>5, <1>6 DEF PickTensors
  <1>7. CASE e = <<>>
    <2>1. {k \in DOMAIN w.entries : w.entries[k][2].kind = "Dict"} = {}
      BY <1>2, <1>3, <1>7
    <2>2. PICK n : n = Nested(w)
      OBVIOUS
    <2>3. n = <<>>
      BY <2>1, <2>2, AmongNone DEF Nested
    <2>4. {k \in DOMAIN n : Canonical(n[k])} = {}
      BY <2>3
    <2>5. PICK c : c = Among(n, {k \in DOMAIN n : Canonical(n[k])})
      OBVIOUS
    <2>6. c = <<>>
      BY <2>4, <2>5, AmongNone
    <2>7. Richest(n) = <<>>
      BY <2>3 DEF Richest
    <2>8. PickTensors(w) = <<>>
      BY <1>5, <1>7, <2>2, <2>5, <2>6, <2>7 DEF PickTensors
    <2> QED
      BY <1>1, <1>7, <2>8
  <1> QED
    BY <1>6, <1>7
-----------------------------------------------------------------------------
(* The file *)

\* What has been written of sd.
HasEntries(f, sd) ==
  /\ f = ZipFile(f.entries, f.final)
  /\ "data.pkl" \in DOMAIN f.entries => f.entries["data.pkl"] = DataPkl(sd)
  /\ \A i \in 1 .. Len(sd) :
       Decimal(i - 1) \in DOMAIN f.entries => f.entries[Decimal(i - 1)] = sd[i][2].data

\* New entries hide old ones of their name, and nothing else.
LEMMA OverHas ==
  ASSUME NEW e, NEW f
  PROVE  /\ DOMAIN Over(e, f) = DOMAIN e \cup DOMAIN f
         /\ \A k \in DOMAIN e : Over(e, f)[k] = e[k]
         /\ \A k \in DOMAIN f : k \notin DOMAIN e => Over(e, f)[k] = f[k]
  BY DEF Over

\* An archive is its entries and whether it is finished.
LEMMA ZipIs ==
  ASSUME NEW e, NEW b
  PROVE  /\ ZipFile(e, b).entries = e /\ ZipFile(e, b).final = b /\ ZipFile(e, b).kind = "zip"
         /\ ZipFile(e, b) = ZipFile(ZipFile(e, b).entries, ZipFile(e, b).final)
  BY DEF ZipFile

\* The next entry of a save leaves the file one of sd.
LEMMA EntryAdded ==
  ASSUME NEW sd, IsList(sd), DecimalsDiffer(Len(sd)), NEW n \in Nat, NEW f, HasEntries(f, sd), NEW b
  PROVE  HasEntries(ZipFile(Over(EntryOf(sd, n), f.entries), b), sd)
  <1>1. PICK l \in Nat : l = Len(sd)
    BY ListHas
  <1>2. PICK e, g, o, z : e = EntryOf(sd, n) /\ g = f.entries /\ o = Over(e, g) /\ z = ZipFile(o, b)
    OBVIOUS
  <1>3. /\ DOMAIN o = DOMAIN e \cup DOMAIN g
        /\ \A k \in DOMAIN e : o[k] = e[k]
        /\ \A k \in DOMAIN g : k \notin DOMAIN e => o[k] = g[k]
    <2>1. /\ DOMAIN Over(e, g) = DOMAIN e \cup DOMAIN g
          /\ \A k \in DOMAIN e : Over(e, g)[k] = e[k]
          /\ \A k \in DOMAIN g : k \notin DOMAIN e => Over(e, g)[k] = g[k]
      BY OverHas
    <2> QED
      BY <1>2, <2>1
  <1>4. z.entries = o /\ z = ZipFile(z.entries, z.final)
    BY <1>2, ZipIs
  <1>5. /\ "data.pkl" \in DOMAIN g => g["data.pkl"] = DataPkl(sd)
        /\ \A i \in 1 .. l : Decimal(i - 1) \in DOMAIN g => g[Decimal(i - 1)] = sd[i][2].data
    BY <1>1, <1>2 DEF HasEntries
  <1>6. ASSUME NEW i \in 1 .. l
        PROVE  /\ Decimal(i - 1) \notin {"data.pkl", "version", "byteorder"}
               /\ \A k \in 1 .. l : Decimal(i - 1) = Decimal(k - 1) => i = k
    <2>1. \A k \in 1 .. l : k - 1 \in 0 .. l - 1
      BY <1>1
    <2>2. ASSUME NEW k \in 1 .. l, Decimal(i - 1) = Decimal(k - 1) PROVE i = k
      <3>1. i - 1 = k - 1
        BY <1>1, <2>1, <2>2 DEF DecimalsDiffer
      <3> QED
        BY <1>1, <3>1
    <2> QED
      BY <1>1, <2>1, <2>2 DEF DecimalsDiffer
  <1>7. CASE n = 0
    <2>1. DOMAIN e = {"data.pkl"} /\ e["data.pkl"] = DataPkl(sd)
      BY <1>2, <1>7 DEF EntryOf
    <2>2. "data.pkl" \in DOMAIN o => o["data.pkl"] = DataPkl(sd)
      BY <1>3, <2>1
    <2>3. \A i \in 1 .. l : Decimal(i - 1) \in DOMAIN o => o[Decimal(i - 1)] = sd[i][2].data
      BY <1>3, <1>5, <1>6, <2>1
    <2> QED
      BY <1>1, <1>2, <1>4, <2>2, <2>3 DEF HasEntries
  <1>8. CASE n \in 1 .. l
    <2>1. n # 0 /\ n <= Len(sd)
      BY <1>1, <1>8
    <2>2. DOMAIN e = {Decimal(n - 1)} /\ e[Decimal(n - 1)] = sd[n][2].data
      BY <1>2, <2>1 DEF EntryOf
    <2>3. "data.pkl" \in DOMAIN o => o["data.pkl"] = DataPkl(sd)
      BY <1>3, <1>5, <1>6, <1>8, <2>2
    <2>4. \A i \in 1 .. l : Decimal(i - 1) \in DOMAIN o => o[Decimal(i - 1)] = sd[i][2].data
      <3> TAKE i \in 1 .. l
      <3> HAVE Decimal(i - 1) \in DOMAIN o
      <3>1. CASE i = n
        BY <1>3, <2>2, <3>1
      <3>2. CASE i # n
        <4>1. Decimal(i - 1) # Decimal(n - 1)
          BY <1>6, <1>8, <3>2
        <4> QED
          BY <1>3, <1>5, <2>2, <4>1
      <3> QED
        BY <3>1, <3>2
    <2> QED
      BY <1>1, <1>2, <1>4, <2>3, <2>4 DEF HasEntries
  <1>9. CASE n > l
    <2>1. n # 0 /\ ~(n <= Len(sd))
      BY <1>1, <1>9
    <2>2. e = [version |-> "3", byteorder |-> "little"]
      BY <1>2, <2>1 DEF EntryOf
    <2>3. DOMAIN e = {"version", "byteorder"}
      BY <2>2
    <2>4. "data.pkl" \in DOMAIN o => o["data.pkl"] = DataPkl(sd)
      BY <1>3, <1>5, <2>3
    <2>5. \A i \in 1 .. l : Decimal(i - 1) \in DOMAIN o => o[Decimal(i - 1)] = sd[i][2].data
      BY <1>3, <1>5, <1>6, <2>3
    <2> QED
      BY <1>1, <1>2, <1>4, <2>4, <2>5 DEF HasEntries
  <1> QED
    BY <1>1, <1>7, <1>8, <1>9

-----------------------------------------------------------------------------
(* The tensors cut out of their storages *)

\* The first k tensors have been taken, and the rest is still to come.
Taken(sd, k) ==
  /\ IsList(result) /\ Len(result) = k /\ \A m \in 1 .. k : result[m] = sd[m]
  /\ IsList(pending) /\ Len(pending) = Len(sd) - k
  /\ \A m \in 1 .. Len(sd) - k : pending[m] = <<Str(sd[k + m][1]), Held(sd, k + m)>>

HasBytes(sd) ==
  \A i \in 1 .. Len(sd) :
    Decimal(i - 1) \in DOMAIN store => store[Decimal(i - 1)] = sd[i][2].data

\* An element has one, two, four or eight bytes.
LEMMA SizeOf == \A dt \in Range(DTypeOf) : DTypeSize(dt) \in {1, 2, 4, 8}
  <1> TAKE dt \in Range(DTypeOf)
  <1>1. dt \in {"F32", "F64", "F16", "BF16", "I64", "I32", "I16", "I8", "U8", "Bool"}
    <2>1. PICK f : f = DTypeOf
      OBVIOUS
    <2>2. PICK x \in DOMAIN f : dt = f[x]
      BY <2>1 DEF Range
    <2>3. DOMAIN f = {"FloatStorage", "DoubleStorage", "HalfStorage", "BFloat16Storage",
                      "LongStorage", "IntStorage", "ShortStorage", "CharStorage",
                      "ByteStorage", "BoolStorage"}
      BY <2>1 DEF DTypeOf
    <2>4. /\ f.FloatStorage = "F32" /\ f.DoubleStorage = "F64" /\ f.HalfStorage = "F16"
          /\ f.BFloat16Storage = "BF16" /\ f.LongStorage = "I64" /\ f.IntStorage = "I32"
          /\ f.ShortStorage = "I16" /\ f.CharStorage = "I8" /\ f.ByteStorage = "U8"
          /\ f.BoolStorage = "Bool"
      BY <2>1 DEF DTypeOf
    <2> QED
      BY <2>2, <2>3, <2>4
  <1> QED
    BY <1>1 DEF DTypeSize

\* All the bytes from the first one.
LEMMA SliceAll ==
  ASSUME NEW d, IsList(d)
  PROVE  Slice(d, 0, Len(d)) = d
  <1>1. PICK l \in Nat : l = Len(d)
    BY ListHas
  <1>2. 1 \in 1 .. Len(d) + 1 /\ l \in 1 - 1 .. Len(d)
    BY <1>1
  <1>3. PICK p : p = SubSeq(d, 1, l)
    OBVIOUS
  <1>4. IsList(p) /\ Len(p) = l - 1 + 1 /\ \A k \in 1 .. l - 1 + 1 : p[k] = d[1 + k - 1]
    BY <1>2, <1>3, PartList
  <1>5. l - 1 + 1 = l /\ \A k \in 1 .. l : 1 + k - 1 = k
    BY <1>1
  <1>6. Len(p) = Len(d) /\ \A k \in 1 .. Len(p) : p[k] = d[k]
    BY <1>1, <1>4, <1>5
  <1>7. p = d
    BY <1>4, <1>6, SameList
  <1>8. 0 + 1 = 1 /\ 0 + l = l
    OBVIOUS
  <1> QED
    BY <1>1, <1>3, <1>7, <1>8 DEF Slice

\* A new name comes last.
LEMMA SetNew ==
  ASSUME NEW s, IsList(s), NEW name, NEW t, \A k \in 1 .. Len(s) : s[k][1] # name
  PROVE  Set(s, name, t) = Append(s, <<name, t>>)
  <1>1. DOMAIN s = 1 .. Len(s)
    BY ListHas
  <1>2. name \notin Names(s)
    BY <1>1 DEF Names
  <1> QED
    BY <1>2 DEF Set

\* One tensor.
LEMMA TakeStep ==
  ASSUME NEW sd, IsStateDict(sd), NEW k \in 0 .. Len(sd), Taken(sd, k), HasBytes(sd),
         TakeTensor, phase' # "refused"
  PROVE  /\ k + 1 \in 0 .. Len(sd) /\ Taken(sd, k + 1)' /\ phase' = "tensors"
         /\ UNCHANGED <<obj, file, entry, store>>
  <1>1. PICK l \in Nat : l = Len(sd)
    BY ListHas DEF IsStateDict
  <1>2. Len(pending) = l - k /\ IsList(pending) /\ pending # <<>>
    BY <1>1 DEF Taken, TakeTensor
  <1>3. k \in Nat /\ k + 1 \in 1 .. l
    <2>1. Len(pending) # 0
      BY <1>2, ListHas
    <2> QED
      BY <1>1, <1>2, <2>1
  <1>4. PICK i \in 1 .. l : i = k + 1 /\ i - 1 = k
    BY <1>3
  <1>5. pending[1] = <<Str(sd[i][1]), Held(sd, i)>>
    <2>1. 1 \in 1 .. Len(sd) - k
      BY <1>1, <1>3
    <2> QED
      BY <1>4, <2>1 DEF Taken
  <1>6. PICK name, t : name = sd[i][1] /\ t = sd[i][2]
    OBVIOUS
  <1>7. /\ IsRawTensor(t) /\ sd[i] = <<name, t>>
        /\ \A j \in 1 .. l : sd[i][1] = sd[j][1] => i = j
    <2>1. DOMAIN sd = 1 .. l
      BY <1>1, ListHas DEF IsStateDict
    <2> QED
      BY <1>6, <2>1 DEF IsStateDict
  <1>8. pending[1][1].s = name
    BY <1>5, <1>6 DEF Str
  <1>9. PICK h : h = pending[1][2]
    OBVIOUS
  <1>10. h.s = Decimal(i - 1) /\ h.dt = t.dt /\ h.i = 0 /\ h.shape = t.shape
    BY <1>5, <1>6, <1>9 DEF Held, TensorVal, StoreOf, Storage
  <1>11. PICK b : b = RawTensor(h.dt, h.shape,
                                Slice(store[h.s], h.i * DTypeSize(h.dt), Extent(h)))
    OBVIOUS
  <1>12. /\ TensorFits(h) /\ result' = Set(result, name, b) /\ pending' = Tail(pending)
         /\ phase' = "tensors" /\ UNCHANGED <<obj, file, entry, store>>
    BY <1>8, <1>9, <1>11 DEF TakeTensor, Refuse, filevars
  <1>13. b = t
    <2>1. IsList(t.data) /\ Len(t.data) = Product(t.shape) * DTypeSize(t.dt)
          /\ t = RawTensor(t.dt, t.shape, t.data) /\ t.dt \in Range(DTypeOf)
      BY <1>7 DEF IsRawTensor
    <2>2. store[h.s] = t.data
      <3>1. h.s \in DOMAIN store
        BY <1>12 DEF TensorFits
      <3> QED
        BY <1>1, <1>6, <1>10, <3>1 DEF HasBytes
    <2>3. h.i * DTypeSize(h.dt) = 0
      <3>1. DTypeSize(h.dt) \in Nat
        BY <1>10, <2>1, SizeOf
      <3> QED
        BY <1>10, <3>1
    <2>4. Extent(h) = Len(t.data)
      BY <1>10, <2>1 DEF Extent
    <2>5. Slice(t.data, 0, Len(t.data)) = t.data
      BY <2>1, SliceAll
    <2> QED
      BY <1>10, <1>11, <2>1, <2>2, <2>3, <2>4, <2>5
  <1>14. /\ IsList(result) /\ Len(result) = k /\ \A m \in 1 .. k : result[m] = sd[m]
    BY DEF Taken
  <1>15. \A m \in 1 .. Len(result) : result[m][1] # name
    <2> TAKE m \in 1 .. Len(result)
    <2>1. m \in 1 .. l /\ m # i /\ result[m] = sd[m]
      BY <1>1, <1>3, <1>4, <1>14
    <2> QED
      BY <1>6, <1>7, <2>1
  <1>16. result' = Append(result, <<name, t>>)
    BY <1>12, <1>13, <1>14, <1>15, SetNew
  <1>17. /\ IsList(result') /\ Len(result') = i
         /\ \A m \in 1 .. i : result'[m] = sd[m]
    <2>1. PICK e, r : e = <<name, t>> /\ r = Append(result, e)
      OBVIOUS
    <2>2. IsList(r) /\ Len(r) = k + 1 /\ (\A m \in 1 .. k : r[m] = result[m]) /\ r[k + 1] = e
      BY <1>14, <2>1, AppendList
    <2>3. \A m \in 1 .. i : m = i \/ m \in 1 .. k
      BY <1>3, <1>4
    <2>4. \A m \in 1 .. i : r[m] = sd[m]
      BY <1>4, <1>7, <1>14, <2>1, <2>2, <2>3
    <2> QED
      BY <1>4, <1>16, <2>1, <2>2, <2>4
  <1>18. /\ IsList(pending') /\ Len(pending') = l - i
         /\ \A m \in 1 .. l - i : pending'[m] = <<Str(sd[i + m][1]), Held(sd, i + m)>>
    <2>1. PICK p : p = Tail(pending)
      OBVIOUS
    <2>2. IsList(p) /\ Len(p) = Len(pending) - 1 /\ \A m \in 1 .. Len(p) : p[m] = pending[m + 1]
      BY <1>2, <2>1, TailList
    <2>3. Len(p) = l - i
      BY <1>1, <1>2, <1>3, <1>4, <2>2
    <2>4. ASSUME NEW m \in 1 .. l - i
          PROVE  p[m] = <<Str(sd[i + m][1]), Held(sd, i + m)>>
      <3>1. m + 1 \in 1 .. Len(sd) - k /\ k + (m + 1) = i + m /\ m \in 1 .. Len(p)
        BY <1>1, <1>3, <1>4, <2>3
      <3>2. p[m] = pending[m + 1]
        BY <2>2, <3>1
      <3>3. pending[m + 1] = <<Str(sd[k + (m + 1)][1]), Held(sd, k + (m + 1))>>
        BY <3>1 DEF Taken
      <3> QED
        BY <3>1, <3>2, <3>3
    <2> QED
      BY <1>12, <2>1, <2>2, <2>3, <2>4
  <1>19. Taken(sd, i)'
    BY <1>1, <1>17, <1>18 DEF Taken
  <1> QED
    BY <1>1, <1>3, <1>4, <1>12, <1>19

-----------------------------------------------------------------------------
(* A file of sd, from its first entry to its load *)

\* The file holds nothing but sd.
Kept(sd) == entry \in Nat /\ (file # NoFile => HasEntries(file, sd))

\* What a load of the file has come to.
LoadOf(sd) ==
  /\ phase \in {"write", "saved", "save_failed", "gone", "pickle", "tensors", "loaded", "refused"}
  /\ phase \notin {"tensors", "loaded", "refused"} => result = <<>>
  /\ phase \in {"pickle", "tensors"} => file # NoFile
  /\ phase = "pickle" => Reading(sd)
  /\ phase = "tensors" => HasBytes(sd) /\ \E k \in 0 .. Len(sd) : Taken(sd, k)
  /\ phase = "loaded" => result = sd

\* A save of sd and the load that follows.
RoundTrip(sd) == IsStateDict(sd) /\ DecimalsDiffer(Len(sd)) /\ Kept(sd) /\ LoadOf(sd)

\* An archive that is closed keeps its entries.
LEMMA ZipKept ==
  ASSUME NEW sd, NEW f, HasEntries(f, sd), NEW b
  PROVE  HasEntries(ZipFile(f.entries, b), sd)
  <1>1. PICK g, z : g = f.entries /\ z = ZipFile(g, b)
    OBVIOUS
  <1>2. z.entries = g /\ z = ZipFile(z.entries, z.final)
    BY <1>1, ZipIs
  <1>3. HasEntries(z, sd)
    BY <1>1, <1>2 DEF HasEntries
  <1> QED
    BY <1>1, <1>3

\* A file that is written.
LEMMA SaveKeeps ==
  ASSUME NEW sd, obj.sd = sd, RoundTrip(sd), Save
  PROVE  Kept(sd)' /\ LoadOf(sd)' /\ UNCHANGED obj
  <1>1. /\ IsList(sd) /\ DecimalsDiffer(Len(sd)) /\ entry \in Nat
        /\ file # NoFile => HasEntries(file, sd)
        /\ phase \notin {"tensors", "loaded", "refused"} => result = <<>>
    BY DEF RoundTrip, Kept, LoadOf, IsStateDict
  <1>2. /\ phase = "write" /\ UNCHANGED <<obj, result>>
        /\ phase' \in {"write", "saved", "save_failed", "gone"}
    BY DEF Save, CreateFile, AddEntry, Finish, Crash, loadvars, filevars
  <1>3. LoadOf(sd)'
    BY <1>1, <1>2 DEF LoadOf
  <1>4. CASE CreateFile
    <2>1. ASSUME file' = ZipFile(<< >>, FALSE) PROVE HasEntries(file, sd)'
      <3>1. PICK z : z = ZipFile(<< >>, FALSE)
        OBVIOUS
      <3>2. z.entries = << >> /\ z = ZipFile(z.entries, z.final)
        BY <3>1, ZipIs
      <3>3. HasEntries(z, sd)
        BY <3>2 DEF HasEntries
      <3> QED
        BY <2>1, <3>1, <3>3 DEF HasEntries
    <2> QED
      BY <1>1, <1>2, <1>3, <1>4, <2>1 DEF CreateFile, Kept, HasEntries
  <1>5. CASE AddEntry
    <2>1. HasEntries(file, sd)
      BY <1>1, <1>5 DEF AddEntry
    <2>2. CASE file' = ZipFile(Over(EntryOf(obj.sd, entry), file.entries), FALSE) /\ entry' = entry + 1
      <3>0. PICK n \in Nat : n = entry
        BY <1>1
      <3>1. PICK f, z : f = file /\ z = ZipFile(Over(EntryOf(sd, n), f.entries), FALSE)
        OBVIOUS
      <3>2. HasEntries(f, sd)
        BY <2>1, <3>1
      <3>3. HasEntries(z, sd)
        BY <1>1, <3>1, <3>2, EntryAdded
      <3>4. file' = z
        BY <2>2, <3>0, <3>1
      <3>5. entry' \in Nat
        BY <1>1, <2>2
      <3> QED
        BY <1>2, <1>3, <3>3, <3>4, <3>5 DEF Kept, HasEntries
    <2>3. CASE file' = ZipFile(file.entries, TRUE) /\ UNCHANGED entry
      <3>1. HasEntries(ZipFile(file.entries, TRUE), sd)
        BY <2>1, ZipKept
      <3> QED
        BY <1>1, <1>2, <1>3, <2>3, <3>1 DEF Kept, HasEntries
    <2> QED
      BY <1>5, <2>2, <2>3 DEF AddEntry
  <1>6. CASE Finish
    <2>1. HasEntries(file, sd)
      BY <1>1, <1>6 DEF Finish
    <2>2. HasEntries(ZipFile(file.entries, TRUE), sd)
      BY <2>1, ZipKept
    <2>3. UNCHANGED entry /\ file' \in {file, ZipFile(file.entries, TRUE)}
      BY <1>6 DEF Finish
    <2> QED
      BY <1>1, <1>2, <1>3, <2>1, <2>2, <2>3 DEF Kept, HasEntries
  <1>7. CASE Crash
    BY <1>1, <1>2, <1>3, <1>7 DEF Crash, Kept, filevars, HasEntries
  <1> QED
    BY <1>2, <1>3, <1>4, <1>5, <1>6, <1>7 DEF Save

\* A file that is opened: its pickle is that of sd.
LEMMA OpenKeeps ==
  ASSUME NEW sd, RoundTrip(sd), OpenFails \/ OpenModern \/ OpenLegacy
  PROVE  LoadOf(sd)' /\ UNCHANGED filevars
  <1>1. /\ file # NoFile => HasEntries(file, sd)
        /\ phase \notin {"tensors", "loaded", "refused"} => result = <<>>
    BY DEF RoundTrip, Kept, LoadOf
  <1>2. CASE OpenFails
    BY <1>2 DEF OpenFails, Refuse, LoadOf
  <1>3. CASE OpenModern
    <2>1. /\ file # NoFile /\ file.kind = "zip" /\ "data.pkl" \in DOMAIN file.entries
          /\ Start(file.entries["data.pkl"], 1) /\ phase' = "pickle"
          /\ UNCHANGED filevars /\ UNCHANGED result /\ Written
      BY <1>3 DEF OpenModern, Opens
    <2>2. file.entries["data.pkl"] = DataPkl(sd)
      BY <1>1, <2>1 DEF HasEntries
    <2>3. buf' = DataPkl(sd) /\ pos' = 1 /\ stack' = <<>> /\ status' = "run"
      BY <2>1, <2>2 DEF Start
    <2>4. Reading(sd)'
      BY <2>3 DEF Reading, IsReading
    <2>5. result' = <<>>
      BY <1>1, <2>1 DEF Written
    <2> QED
      BY <2>1, <2>4, <2>5 DEF LoadOf, filevars
  <1>4. CASE OpenLegacy
    <2>1. file # NoFile /\ file.kind = "legacy"
      BY <1>4 DEF OpenLegacy, Opens
    <2>2. file.kind = "zip"
      <3>1. file = ZipFile(file.entries, file.final)
        BY <1>1, <2>1 DEF HasEntries
      <3> QED
        BY <3>1, ZipIs
    <2> QED
      BY <2>1, <2>2
  <1> QED
    BY <1>2, <1>3, <1>4 DEF OpenFails

\* The pickle that is read.
LEMMA PickleKeeps ==
  ASSUME NEW sd, RoundTrip(sd), RunPickle \/ FailPickle
  PROVE  LoadOf(sd)' /\ UNCHANGED filevars
  <1>1. CASE RunPickle
    <2>1. phase = "pickle" /\ Execute /\ UNCHANGED filevars /\ UNCHANGED <<phase, result>>
      BY <1>1 DEF RunPickle, loadvars
    <2>2. IsStateDict(sd) /\ Reading(sd) /\ file # NoFile /\ result = <<>>
      BY <2>1 DEF RoundTrip, LoadOf
    <2>3. Reading(sd)'
      BY <2>1, <2>2, ReadingStep
    <2> QED
      BY <2>1, <2>2, <2>3 DEF LoadOf, filevars
  <1>2. CASE FailPickle
    <2>1. phase' = "refused" /\ UNCHANGED filevars
      BY <1>2 DEF FailPickle, Refuse
    <2> QED
      BY <2>1 DEF LoadOf
  <1> QED
    BY <1>1, <1>2

\* The weights are the tensors still to be taken.
LEMMA RootKeeps ==
  ASSUME NEW sd, RoundTrip(sd), ModernRoot
  PROVE  LoadOf(sd)' /\ UNCHANGED filevars
  <1>1. phase = "pickle" /\ status = "stop" /\ UNCHANGED filevars /\ UNCHANGED result
    BY DEF ModernRoot
  <1>2. /\ IsStateDict(sd) /\ IsList(sd) /\ DecimalsDiffer(Len(sd)) /\ HasEntries(file, sd)
        /\ HasWeights(stack, sd) /\ file # NoFile /\ result = <<>>
    BY <1>1 DEF RoundTrip, Kept, LoadOf, Reading, IsStateDict
  <1>3. CASE phase' = "refused"
    BY <1>1, <1>3 DEF LoadOf
  <1>4. CASE phase' # "refused"
    <2>1. /\ phase' = "tensors" /\ pending' = PickTensors(Top)
          /\ store' = [k \in DOMAIN file.entries \ {"data.pkl", "version", "byteorder"}
                         |-> file.entries[k]]
      BY <1>4 DEF ModernRoot, Refuse
    <2>2. Top = Weights(sd)
      BY <1>2 DEF HasWeights, Top
    <2>3. pending' = AllEntries(sd)
      <3>1. PICK w : w = Weights(sd)
        OBVIOUS
      <3>2. PickTensors(w) = AllEntries(sd)
        BY <1>2, <3>1, PicksAll
      <3> QED
        BY <2>1, <2>2, <3>1, <3>2
    <2>4. Taken(sd, 0)'
      <3>0. PICK l \in Nat : l = Len(sd)
        BY <1>2, ListHas
      <3>1. PICK p : p = AllEntries(sd) /\ l = Len(sd)
        BY <3>0
      <3>2. IsList(p) /\ Len(p) = l /\ \A m \in 1 .. l : p[m] = <<Str(sd[m][1]), Held(sd, m)>>
        BY <1>2, <3>1, EntriesList
      <3>3. IsList(<<>>) /\ Len(<<>>) = 0
        <4>1. \A r \in {<<>>} : DOMAIN r = 1 .. 0 /\ r = [k \in 1 .. 0 |-> r[k]]
          OBVIOUS
        <4> QED
          BY <4>1, ListIs
      <3>4. l - 0 = l /\ 1 .. 0 = {} /\ \A m \in 1 .. l : 0 + m = m
        OBVIOUS
      <3>5. result' = <<>> /\ pending' = p
        BY <1>1, <1>2, <2>3, <3>1
      <3> QED
        BY <3>1, <3>2, <3>3, <3>4, <3>5 DEF Taken
    <2>5. HasBytes(sd)'
      <3>1. PICK g, s : /\ g = file.entries
                        /\ s = [k \in DOMAIN g \ {"data.pkl", "version", "byteorder"} |-> g[k]]
        OBVIOUS
      <3>2. \A i \in 1 .. Len(sd) : Decimal(i - 1) \in DOMAIN s => s[Decimal(i - 1)] = sd[i][2].data
        BY <1>2, <3>1 DEF HasEntries
      <3>3. store' = s
        BY <2>1, <3>1
      <3> QED
        BY <3>2, <3>3 DEF HasBytes
    <2>6. 0 \in 0 .. Len(sd)
      <3>1. Len(sd) \in Nat
        BY <1>2, ListHas
      <3> QED
        BY <3>1
    <2> QED
      BY <1>1, <1>2, <2>1, <2>4, <2>5, <2>6 DEF LoadOf, filevars
  <1> QED
    BY <1>1, <1>3, <1>4

\* A tensor that is taken, and the end.
LEMMA TensorsKeep ==
  ASSUME NEW sd, RoundTrip(sd), TakeTensor \/ Return
  PROVE  LoadOf(sd)' /\ UNCHANGED filevars
  <1>1. phase = "tensors" /\ UNCHANGED filevars
    BY DEF TakeTensor, Return
  <1>2. IsStateDict(sd) /\ HasBytes(sd) /\ file # NoFile
    BY <1>1 DEF RoundTrip, LoadOf
  <1>3. PICK k \in 0 .. Len(sd) : Taken(sd, k)
    BY <1>1 DEF RoundTrip, LoadOf
  <1>4. CASE phase' = "refused"
    BY <1>1, <1>4 DEF LoadOf
  <1>5. CASE TakeTensor /\ phase' # "refused"
    <2>1. /\ k + 1 \in 0 .. Len(sd) /\ Taken(sd, k + 1)' /\ phase' = "tensors"
          /\ UNCHANGED <<obj, file, entry, store>>
      BY <1>2, <1>3, <1>5, TakeStep
    <2>2. HasBytes(sd)'
      BY <1>2, <2>1 DEF HasBytes
    <2>3. PICK q \in 0 .. Len(sd) : q = k + 1
      BY <2>1
    <2>4. Taken(sd, q)'
      BY <2>1, <2>3
    <2>5. file' # NoFile
      BY <1>2, <2>1
    <2> QED
      BY <1>1, <2>1, <2>2, <2>4, <2>5 DEF LoadOf
  <1>6. CASE Return /\ phase' # "refused"
    <2>1. phase' = "loaded" /\ pending = <<>> /\ UNCHANGED result
      BY <1>6 DEF Return, loadvars
    <2>2. PICK l \in Nat : l = Len(sd) /\ IsList(sd)
      BY <1>2, ListHas DEF IsStateDict
    <2>3. /\ IsList(result) /\ Len(result) = k /\ Len(pending) = l - k
          /\ \A m \in 1 .. k : result[m] = sd[m]
      BY <1>3, <2>2 DEF Taken
    <2>4. k = l
      <3>1. Len(pending) = 0
        BY <2>1
      <3> QED
        BY <2>2, <2>3, <3>1
    <2>5. result = sd
      BY <2>2, <2>3, <2>4, SameList
    <2> QED
      BY <1>1, <2>1, <2>5 DEF LoadOf
  <1> QED
    BY <1>1, <1>4, <1>5, <1>6

\* The steps of the legacy loader are never taken on an archive.
LEMMA NoLegacy ==
  ASSUME NEW sd, RoundTrip(sd), NextArchive \/ LastArchive \/ ReadStorage \/ StoragesRead
  PROVE  FALSE
  <1>1. phase # "payload"
    BY DEF RoundTrip, LoadOf
  <1>2. CASE NextArchive \/ LastArchive
    <2>1. phase = "pickle" /\ file.kind = "legacy"
      BY <1>2 DEF NextArchive, LastArchive
    <2>2. HasEntries(file, sd)
      BY <2>1 DEF RoundTrip, Kept, LoadOf
    <2>3. file.kind = "zip"
      <3>1. file = ZipFile(file.entries, file.final)
        BY <2>2 DEF HasEntries
      <3> QED
        BY <3>1, ZipIs
    <2> QED
      BY <2>1, <2>3
  <1>3. CASE ReadStorage \/ StoragesRead
    BY <1>1, <1>3 DEF ReadStorage, StoragesRead
  <1> QED
    BY <1>2, <1>3

\* The inductive invariant.
PthInv == obj \in Objects /\ (obj.by = "SavePth" => RoundTrip(obj.sd))

\* It holds before the file is made.
LEMMA PthInitInv == ASSUME PthInit PROVE PthInv
  <1>1. obj \in Objects
    BY DEF PthInit
  <1>2. ASSUME obj.by = "SavePth" PROVE RoundTrip(obj.sd)
    <2>1. PICK sd : sd = obj.sd
      OBVIOUS
    <2>2. IsStateDict(sd) /\ DecimalsDiffer(Len(sd))
      BY <1>1, <1>2, <2>1, SavedDicts
    <2>3. file = NoFile /\ phase = "write" /\ entry = 0 /\ result = <<>>
      BY <1>2 DEF PthInit, Idle
    <2>4. Kept(sd) /\ LoadOf(sd)
      BY <2>3 DEF Kept, LoadOf
    <2> QED
      BY <2>1, <2>2, <2>4 DEF RoundTrip
  <1> QED
    BY <1>1, <1>2 DEF PthInv

\* Every step keeps it.
LEMMA PthNextInv == ASSUME PthInv, [PthNext]_pthvars PROVE PthInv'
  <1>1. CASE UNCHANGED pthvars
    <2>1. UNCHANGED <<obj, file, entry, phase, result, pending, store, buf, stack, pos, status>>
      BY <1>1 DEF pthvars, vmvars
    <2>2. ASSUME obj.by = "SavePth" PROVE RoundTrip(obj.sd)'
      <3>1. RoundTrip(obj.sd)
        BY <2>2 DEF PthInv
      <3>2. Kept(obj.sd)'
        BY <2>1, <3>1 DEF RoundTrip, Kept
      <3>3. LoadOf(obj.sd)'
        BY <2>1, <3>1 DEF RoundTrip, LoadOf, Reading, HasBytes, Taken
      <3> QED
        BY <2>1, <3>1, <3>2, <3>3 DEF RoundTrip
    <2> QED
      BY <2>1, <2>2 DEF PthInv
  <1>2. CASE PthNext
    <2>1. UNCHANGED obj
      BY <1>2 DEF PthNext, Save, Load, CreateFile, AddEntry, Finish, Crash, OpenFails, OpenModern,
                  OpenLegacy, RunPickle, FailPickle, ModernRoot, NextArchive, LastArchive,
                  ReadStorage, StoragesRead, TakeTensor, Return, filevars
    <2>2. ASSUME obj.by = "SavePth" PROVE RoundTrip(obj.sd)'
      <3>1. PICK sd : sd = obj.sd
        OBVIOUS
      <3>2. RoundTrip(sd)
        BY <2>2, <3>1 DEF PthInv
      <3>3. CASE Save
        BY <3>1, <3>2, <3>3, SaveKeeps DEF RoundTrip
      <3>4. CASE Load
        <4>1. LoadOf(sd)' /\ UNCHANGED filevars
          BY <3>2, <3>4, OpenKeeps, PickleKeeps, RootKeeps, TensorsKeep, NoLegacy DEF Load
        <4>2. Kept(sd)'
          BY <3>2, <4>1 DEF RoundTrip, Kept, filevars
        <4> QED
          BY <2>1, <3>1, <3>2, <4>1, <4>2 DEF RoundTrip
      <3> QED
        BY <1>2, <3>3, <3>4 DEF PthNext
    <2> QED
      BY <2>1, <2>2 DEF PthInv
  <1> QED
    BY <1>1, <1>2

\* Whatever state dict SavePth wrote, however many tensors of whatever shapes,
\* and wherever the save failed or the process ended: LoadPth returns exactly
\* that dict or refuses the file.
THEOREM LoadedIsSavedHolds == PthSpec => [](obj.by = "SavePth" => LoadedIsSaved)
  <1>1. PthInit => PthInv
    BY PthInitInv
  <1>2. PthInv /\ [PthNext]_pthvars => PthInv'
    BY PthNextInv
  <1>3. PthInv => (obj.by = "SavePth" => LoadedIsSaved)
    BY DEF PthInv, RoundTrip, LoadOf, LoadedIsSaved, Expected
  <1> QED
    BY <1>1, <1>2, <1>3, PTL DEF PthSpec
=============================================================================
