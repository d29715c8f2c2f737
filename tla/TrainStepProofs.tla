-------------------------- MODULE TrainStepProofs ----------------------------
(***************************************************************************)
(* For every batch and every registered or other model: the mask of the    *)
(* denoising groups keeps them apart through every layer of the decoder;   *)
(* the outputs of the layers are collected and taught once by every kind   *)
(* of supervision; a denoising query is taught the object its box was made *)
(* of, or background.                                                      *)
(***************************************************************************)
EXTENDS TrainStep, FiniteSetTheorems, SequenceTheorems, WellFoundedInduction, TLAPS

------------------------------------------------------------------------------
(* The longest image of a batch.                                            *)

LEMMA LeastBound ==
  ASSUME NEW T, T \subseteq Nat, T # {}
  PROVE  \E x \in T : \A y \in T : x <= y
  <1>1. \E x \in T : \A y \in T : ~ (<<y, x>> \in OpToRel(<, Nat))
    BY NatLessThanWellFounded, WFMin
  <1>2. PICK x \in T : \A y \in T : ~ (<<y, x>> \in OpToRel(<, Nat))
    BY <1>1
  <1>3. \A y \in T : ~(y < x)
    BY <1>2 DEF OpToRel
  <1>4. x \in Nat /\ \A y \in T : y \in Nat
    OBVIOUS
  <1>5. \A y \in T : x <= y
    BY <1>3, <1>4
  <1> QED
    BY <1>5

LEMMA LongestImage ==
  ASSUME NEW images, DOMAIN images # {}, NEW m \in Nat,
         \A b \in DOMAIN images : Len(images[b]) \in 0..m
  PROVE  MaxLen(images) \in Nat /\ \A b \in DOMAIN images : Len(images[b]) <= MaxLen(images)
  <1> DEFINE T == {n \in Nat : \A b \in DOMAIN images : Len(images[b]) <= n}
  <1>1. m \in T
    OBVIOUS
  <1>2. PICK x \in T : \A y \in T : x <= y
    BY <1>1, LeastBound, T \subseteq Nat, T # {}
  <1>3. x \in {Len(images[b]) : b \in DOMAIN images}
    <2>1. SUFFICES ASSUME \A b \in DOMAIN images : Len(images[b]) # x
                   PROVE  FALSE
      OBVIOUS
    <2>2. \A b \in DOMAIN images : Len(images[b]) \in Nat /\ Len(images[b]) < x
      BY <1>2, <2>1
    <2>3. x > 0
      BY <1>2, <2>2
    <2>4. x - 1 \in T
      BY <1>2, <2>2, <2>3
    <2>5. x \in Nat /\ x <= x - 1
      BY <1>2, <2>4
    <2> QED
      BY <2>5
  <1>4. \E n \in {Len(images[b]) : b \in DOMAIN images} : \A b \in DOMAIN images : Len(images[b]) <= n
    BY <1>2, <1>3
  <1>5. /\ MaxLen(images) \in {Len(images[b]) : b \in DOMAIN images}
        /\ \A b \in DOMAIN images : Len(images[b]) <= MaxLen(images)
    BY <1>4 DEF MaxLen
  <1> QED
    BY <1>5

------------------------------------------------------------------------------
(* The groups.                                                              *)

Layout(d) == d.active => d.gw \in Nat \ {0} /\ d.groups \in Nat /\ d.num_dn = d.groups * d.gw

LEMMA MadeInGroups ==
  ASSUME NEW images, NEW G \in Int, NEW contrastive, MaxLen(images) \in Nat
  PROVE  Layout(MakeDenoising(images, G, contrastive))
  <1> DEFINE t_pad == MaxLen(images)
             gw == (IF contrastive THEN 2 ELSE 1) * t_pad
  <1>1. CASE t_pad = 0 \/ G <= 0
    BY <1>1 DEF MakeDenoising, NoDenoising, Layout
  <1>2. CASE ~(t_pad = 0 \/ G <= 0)
    <2>1. gw \in Nat \ {0} /\ G \in Nat
      BY <1>2
    <2>2. /\ MakeDenoising(images, G, contrastive).gw = gw
          /\ MakeDenoising(images, G, contrastive).groups = G
          /\ MakeDenoising(images, G, contrastive).num_dn = G * gw
      BY <1>2 DEF MakeDenoising
    <2> QED
      BY <2>1, <2>2 DEF Layout
  <1> QED
    BY <1>1, <1>2

LEMMA GroupOfSlot ==
  ASSUME NEW g \in Nat \ {0}, NEW G \in Nat, NEW q \in Nat, q < G * g
  PROVE  /\ q \div g \in 0..G - 1
         /\ q \in (q \div g) * g..((q \div g) + 1) * g - 1
  <1> DEFINE i == q \div g
  <1>1. i \in Int /\ i * g <= q /\ q < i * g + g
    OBVIOUS
  <1>2. (i + 1) * g = i * g + g /\ i * g \in Int
    BY <1>1
  <1>3. i >= 0
    BY <1>1
  <1>4. i < G
    BY <1>1
  <1> QED
    BY <1>1, <1>2, <1>3, <1>4

\* Where the mask lets q attend to k, both are of one group.
LEMMA MaskIsolates ==
  ASSUME NEW d, d.gw \in Nat \ {0}, d.groups \in Nat, d.num_dn = d.groups * d.gw,
         NEW q \in Nat, NEW k \in Nat, ~Blocked(d, q, k)
  PROVE  /\ q < d.num_dn <=> k < d.num_dn
         /\ q < d.num_dn => q \div d.gw = k \div d.gw
  <1> DEFINE InGroup(s, i) == s \in i * d.gw..(i + 1) * d.gw - 1
             gq == q \div d.gw
             gk == k \div d.gw
  <1>1. d.num_dn \in Nat
    OBVIOUS
  <1>2. CASE q >= d.num_dn
    BY <1>1, <1>2 DEF Blocked
  <1>3. CASE q < d.num_dn
    <2>1. gq \in 0..d.groups - 1 /\ InGroup(q, gq)
      BY <1>3, GroupOfSlot
    <2>2. k < d.num_dn
      BY <1>1, <2>1 DEF Blocked
    <2>3. gk \in 0..d.groups - 1 /\ InGroup(k, gk)
      BY <2>2, GroupOfSlot
    <2>4. gq = gk
      BY <2>1, <2>3 DEF Blocked
    <2> QED
      BY <1>3, <2>2, <2>4
  <1> QED
    BY <1>1, <1>2, <1>3

------------------------------------------------------------------------------
(* What has been seen stays within the group, layer after layer.            *)

IInv ==
  /\ job \in Jobs
  /\ Layout(dn)
  /\ pc \in {"denoise", "encode", "select"} => DOMAIN seen = {}
  /\ DOMAIN seen \subseteq Nat
  /\ DnLeaksNothing

LEMMA InitIInv == Init => IInv
  BY DEF Init, IInv, Layout, NoDenoising, DnLeaksNothing

LEMMA DenoiseIInv == ASSUME IInv, Denoise PROVE IInv'
  <1>1. Layout(dn)'
    <2>1. CASE job.training /\ net.denoising /\ job.dn_number > 0
      <3>1. MaxLen(job.images) \in Nat
        BY LongestImage, JobsAssumption DEF IInv
      <3> QED
        BY <2>1, <3>1, MadeInGroups, JobsAssumption DEF Denoise, IInv
    <2>2. CASE ~(job.training /\ net.denoising /\ job.dn_number > 0)
      BY <2>2 DEF Denoise, Layout, NoDenoising
    <2> QED
      BY <2>1, <2>2
  <1>2. DOMAIN seen' = {}
    BY DEF Denoise, IInv
  <1> QED
    BY <1>1, <1>2 DEF Denoise, IInv, DnLeaksNothing

LEMMA SelectIInv == ASSUME IInv, Select PROVE IInv'
  <1>1. dn' = dn /\ job' = job
    BY DEF Select
  <1>2. Layout(dn)' /\ job' \in Jobs
    BY <1>1 DEF IInv, Layout
  <1>3. CASE seen' = seen
    BY <1>1, <1>2, <1>3 DEF Select, IInv, DnLeaksNothing, GroupAt
  <1>4. CASE seen' = IF dn.active THEN [q \in 0..dn.num_dn + net.num_queries - 1 |-> {GroupAt(q)}] ELSE <<>>
    <2>1. CASE dn.active
      <3>1. dn.num_dn \in Nat /\ net.num_queries \in Nat
        BY <2>1, JobsAssumption DEF IInv, Layout, net
      <3> QED
        BY <1>1, <1>2, <1>4, <2>1, <3>1 DEF Select, IInv, DnLeaksNothing, GroupAt
    <2>2. CASE ~dn.active
      BY <1>1, <1>2, <1>4, <2>2 DEF Select, IInv, DnLeaksNothing
    <2> QED
      BY <2>1, <2>2
  <1> QED
    BY <1>3, <1>4 DEF Select

LEMMA DecoderLayerIInv == ASSUME IInv, DecoderLayer PROVE IInv'
  <1>1. dn' = dn /\ job' = job
    BY DEF DecoderLayer
  <1>2. Layout(dn)' /\ job' \in Jobs
    BY <1>1 DEF IInv, Layout
  <1>3. pc' \in {"threw", "heads"}
    BY DEF DecoderLayer
  <1>4. CASE ~dn.active
    BY <1>1, <1>2, <1>3, <1>4 DEF DecoderLayer, IInv, DnLeaksNothing
  <1>5. CASE dn.active
    <2>1. seen' = [q \in DOMAIN seen |-> seen[q] \cup UNION {seen[k] : k \in Unmasked(q)}]
      BY <1>5 DEF DecoderLayer
    <2>2. ASSUME NEW q \in DOMAIN seen, NEW k \in Unmasked(q)
          PROVE  seen[k] = {GroupAt(q)}
      <3>1. k \in DOMAIN seen /\ ~Blocked(dn, q, k) /\ q \in Nat /\ k \in Nat
        BY <2>2 DEF Unmasked, IInv
      <3>2. /\ dn.gw \in Nat \ {0} /\ dn.groups \in Nat /\ dn.num_dn = dn.groups * dn.gw
        BY <1>5 DEF IInv, Layout
      <3>3. /\ q < dn.num_dn <=> k < dn.num_dn
            /\ q < dn.num_dn => q \div dn.gw = k \div dn.gw
        BY <3>1, <3>2, MaskIsolates
      <3>4. GroupAt(k) = GroupAt(q)
        BY <3>3 DEF GroupAt
      <3> QED
        BY <3>1, <3>4 DEF IInv, DnLeaksNothing
    <2>3. ASSUME NEW q \in DOMAIN seen PROVE seen'[q] = {GroupAt(q)}
      <3>1. seen[q] = {GroupAt(q)}
        BY DEF IInv, DnLeaksNothing
      <3>2. \A v \in UNION {seen[k] : k \in Unmasked(q)} : v = GroupAt(q)
        BY <2>2
      <3> QED
        BY <2>1, <3>1, <3>2
    <2> QED
      BY <1>1, <1>2, <1>3, <2>1, <2>3 DEF IInv, DnLeaksNothing, GroupAt
  <1> QED
    BY <1>4, <1>5

\* The other actions leave the queries as they are.
LEMMA OthersIInv ==
  ASSUME IInv, [Encoder \/ LayerOutput \/ FinalOutput \/ Mismatch \/ Compute \/ Backward]_vars
  PROVE  IInv'
  <1>1. /\ dn' = dn /\ job' = job /\ seen' = seen
        /\ pc' \in {"denoise", "encode", "select"} => pc \in {"denoise", "encode", "select"}
    BY DEF Encoder, LayerOutput, FinalOutput, Mismatch, Compute, Backward, vars
  <1> QED
    BY <1>1 DEF IInv, Layout, DnLeaksNothing, GroupAt

LEMMA NextIInv == IInv /\ [Next]_vars => IInv'
  <1> SUFFICES ASSUME IInv, [Next]_vars PROVE IInv'
    OBVIOUS
  <1>1. CASE Denoise
    BY <1>1, DenoiseIInv
  <1>2. CASE Select
    BY <1>2, SelectIInv
  <1>3. CASE DecoderLayer
    BY <1>3, DecoderLayerIInv
  <1>4. CASE [Encoder \/ LayerOutput \/ FinalOutput \/ Mismatch \/ Compute \/ Backward]_vars
    BY <1>4, OthersIInv
  <1> QED
    BY <1>1, <1>2, <1>3, <1>4 DEF Next

(* However many layers the decoder has, however many groups of noised boxes *)
(* a batch of any images is given: no matching query comes to depend on a   *)
(* denoising one, and no group on another.  (MakeDenoising's attn_mask in   *)
(* the self-attention of every layer.)                                      *)
THEOREM GroupsStayApart == Spec => []DnLeaksNothing
  <1>1. IInv => DnLeaksNothing
    BY DEF IInv
  <1> QED
    BY InitIInv, NextIInv, <1>1, PTL DEF Spec

------------------------------------------------------------------------------
(* What the loss is made of.                                                *)

(* The outputs of the first k layers, over the matching queries and over    *)
(* the denoising ones, while the decoder runs and when it is through.       *)
MatchingOf(l) == [layer |-> l, from |-> dn.num_dn, count |-> net.num_queries]
DnOf(l)       == [layer |-> l, from |-> 0, count |-> dn.num_dn]

MatchingAux(k) == [i \in 1..k |-> MatchingOf(i)]
DnAux(k)       == [i \in 1..k |-> DnOf(i)]

Collected(k, aux) == IF CollectAux /\ k > 0 THEN [active |-> TRUE, aux |-> aux] ELSE NoOutput
Complete(aux, last) == [active |-> TRUE, aux |-> IF CollectAux THEN aux ELSE <<>>, final |-> last]

OutputsAfter(k) ==
  /\ k \in Nat
  /\ det = Collected(k, MatchingAux(k))
  /\ dn_out = IF dn.active THEN Collected(k, DnAux(k)) ELSE NoOutput

OutputsComplete ==
  /\ layer = net.dec_layers /\ layer \in Nat \ {0}
  /\ det = Complete(MatchingAux(layer - 1), MatchingOf(layer))
  /\ dn_out = IF dn.active THEN Complete(DnAux(layer - 1), DnOf(layer)) ELSE NoOutput

(* The terms of the loss are a prefix of what is to be added, of all when   *)
(* it is complete.                                                          *)
TaughtInv ==
  /\ job \in Jobs
  /\ dn.active \in BOOLEAN
  /\ pc \in {"denoise", "encode", "select"} => layer = 0 /\ det = NoOutput /\ dn_out = NoOutput
  /\ pc = "decode" => OutputsAfter(layer)
  /\ pc = "heads" => layer \in Nat \ {0} /\ layer <= net.dec_layers /\ OutputsAfter(layer - 1)
  /\ pc \in {"denoise", "encode", "select", "decode", "heads"} => terms = <<>>
  /\ pc = "loss" \/ (pc = "done" /\ job.training) =>
       /\ OutputsComplete
       /\ \E k \in Nat : terms = [i \in 1..k |-> Todo[i]]
  /\ pc = "loss" => job.training
  /\ pc = "done" /\ job.training => Len(terms) = Len(Todo)

\* What the assumption says of the batch at hand.
LEMMA JobTypes ==
  ASSUME job \in Jobs
  PROVE  net.dec_layers \in Int /\ net.num_queries \in Nat
  BY JobsAssumption DEF net

\* Following one output with the next keeps the outputs of the first layers.
LEMMA AppendedNext ==
  ASSUME NEW k \in Nat \ {0}, NEW g, g = [i \in 1..k |-> g[i]],
         NEW f, f = [i \in 1..k - 1 |-> g[i]]
  PROVE  Append(f, g[k]) = g
  <1> DEFINE D == {g[i] : i \in 1..k}
  <1>1. f \in Seq(D) /\ Len(f) = k - 1
    <2>1. PICK m \in Nat : m = k - 1
      OBVIOUS
    <2>2. f = [i \in 1..m |-> g[i]] /\ \A i \in 1..m : g[i] \in D
      BY <2>1
    <2> HIDE DEF D
    <2>3. f \in [1..m -> D]
      BY <2>2
    <2>4. f \in Seq(D)
      BY <2>1, <2>3, SeqDef
    <2>5. DOMAIN f = 1..m /\ DOMAIN f = 1..Len(f) /\ Len(f) \in Nat
      BY <2>3, <2>4
    <2> QED
      BY <2>1, <2>4, <2>5
  <1>2. g \in Seq(D) /\ Len(g) = k
    OBVIOUS
  <1>3. g[k] \in D
    OBVIOUS
  <1>4. PICK h : h = Append(f, g[k])
    OBVIOUS
  <1>5. h \in Seq(D) /\ Len(h) = k
    BY <1>1, <1>3, <1>4
  <1>6. \A i \in 1..k : h[i] = g[i]
    BY <1>1, <1>3, <1>4
  <1> QED
    BY <1>2, <1>4, <1>5, <1>6

\* An output that has collected others, and one that has not.
LEMMA PushedRecord ==
  ASSUME NEW a, NEW x, NEW o, o = [active |-> TRUE, aux |-> a]
  PROVE  Pushed(o, x) = [active |-> TRUE, aux |-> Append(a, x)]
  BY DEF Pushed, Aux

LEMMA PushedFirst ==
  ASSUME NEW x, NEW g, g = [i \in 1..1 |-> x]
  PROVE  Pushed(NoOutput, x) = [active |-> TRUE, aux |-> g]
  <1>1. Append(<<>>, x) = g
    OBVIOUS
  <1> QED
    BY <1>1 DEF Pushed, NoOutput, Aux

\* Pushing the output of a layer gives those of one layer more.
LEMMA PushedMatching ==
  ASSUME layer \in Nat \ {0}, CollectAux, det = Collected(layer - 1, MatchingAux(layer - 1))
  PROVE  Pushed(det, MatchingSlice) = Collected(layer, MatchingAux(layer))
  <1>1. PICK k : k = layer
    OBVIOUS
  <1>2. PICK g : g = MatchingAux(k)
    OBVIOUS
  <1>3. PICK f : f = MatchingAux(k - 1)
    OBVIOUS
  <1>4. g = [i \in 1..k |-> g[i]] /\ f = [i \in 1..k - 1 |-> g[i]] /\ g[k] = MatchingSlice
    BY <1>1, <1>2, <1>3 DEF MatchingAux, MatchingSlice, Slice, MatchingOf
  <1>5. Collected(layer, MatchingAux(layer)) = [active |-> TRUE, aux |-> g]
    BY <1>1, <1>2 DEF Collected
  <1>6. CASE k = 1
    <2>1. det = NoOutput
      BY <1>1, <1>6 DEF Collected
    <2>2. g = [i \in 1..1 |-> g[k]]
      BY <1>4, <1>6
    <2> QED
      BY <1>4, <1>5, <2>1, <2>2, PushedFirst
  <1>7. CASE k # 1
    <2>1. PICK d : d = det
      OBVIOUS
    <2>2. d = [active |-> TRUE, aux |-> f]
      BY <1>1, <1>3, <1>7, <2>1 DEF Collected
    <2>3. Append(f, g[k]) = g
      BY <1>1, <1>4, AppendedNext
    <2>4. Pushed(d, g[k]) = [active |-> TRUE, aux |-> Append(f, g[k])]
      BY <2>2, PushedRecord
    <2> QED
      BY <1>4, <1>5, <2>1, <2>3, <2>4
  <1> QED
    BY <1>6, <1>7

LEMMA PushedDn ==
  ASSUME layer \in Nat \ {0}, CollectAux, dn_out = Collected(layer - 1, DnAux(layer - 1))
  PROVE  Pushed(dn_out, DnSlice) = Collected(layer, DnAux(layer))
  <1>1. PICK k : k = layer
    OBVIOUS
  <1>2. PICK g : g = DnAux(k)
    OBVIOUS
  <1>3. PICK f : f = DnAux(k - 1)
    OBVIOUS
  <1>4. g = [i \in 1..k |-> g[i]] /\ f = [i \in 1..k - 1 |-> g[i]] /\ g[k] = DnSlice
    BY <1>1, <1>2, <1>3 DEF DnAux, DnSlice, Slice, DnOf
  <1>5. Collected(layer, DnAux(layer)) = [active |-> TRUE, aux |-> g]
    BY <1>1, <1>2 DEF Collected
  <1>6. CASE k = 1
    <2>1. dn_out = NoOutput
      BY <1>1, <1>6 DEF Collected
    <2>2. g = [i \in 1..1 |-> g[k]]
      BY <1>4, <1>6
    <2> QED
      BY <1>4, <1>5, <2>1, <2>2, PushedFirst
  <1>7. CASE k # 1
    <2>1. PICK d : d = dn_out
      OBVIOUS
    <2>2. d = [active |-> TRUE, aux |-> f]
      BY <1>1, <1>3, <1>7, <2>1 DEF Collected
    <2>3. Append(f, g[k]) = g
      BY <1>1, <1>4, AppendedNext
    <2>4. Pushed(d, g[k]) = [active |-> TRUE, aux |-> Append(f, g[k])]
      BY <2>2, PushedRecord
    <2> QED
      BY <1>4, <1>5, <2>1, <2>3, <2>4
  <1> QED
    BY <1>6, <1>7

\* A sequence that gives every element of a set, each once.
Once(s, R) ==
  \E n \in Nat : /\ s = [i \in 1..n |-> s[i]]
                 /\ \A i, j \in 1..n : s[i] = s[j] => i = j
                 /\ R = {s[i] : i \in 1..n}

\* Nothing, two disjoint sets one after the other, and how many there are.
LEMMA OnceEmpty == Once(<<>>, {})
  <1>1. <<>> = [i \in 1..0 |-> <<>>[i]]
    OBVIOUS
  <1> QED
    BY <1>1 DEF Once

LEMMA OnceConcat ==
  ASSUME NEW s, NEW R, Once(s, R), NEW t, NEW T, Once(t, T), R \cap T = {}
  PROVE  Once(s \o t, R \cup T)
  <1>1. PICK n \in Nat : /\ s = [i \in 1..n |-> s[i]]
                         /\ \A i, j \in 1..n : s[i] = s[j] => i = j
                         /\ R = {s[i] : i \in 1..n}
    BY DEF Once
  <1>2. PICK m \in Nat : /\ t = [i \in 1..m |-> t[i]]
                         /\ \A i, j \in 1..m : t[i] = t[j] => i = j
                         /\ T = {t[i] : i \in 1..m}
    BY DEF Once
  <1> DEFINE D == R \cup T
  <1>3. s \in Seq(D) /\ Len(s) = n
    BY <1>1
  <1>4. t \in Seq(D) /\ Len(t) = m
    BY <1>2
  <1>5. PICK u : u = s \o t
    OBVIOUS
  <1>6. u \in Seq(D) /\ Len(u) = n + m
    <2> HIDE DEF D
    <2>1. s \o t \in Seq(D)
      BY <1>3, <1>4
    <2>2. Len(s \o t) = Len(s) + Len(t)
      BY <1>3, <1>4
    <2> QED
      BY <1>3, <1>4, <1>5, <2>1, <2>2
  <1>7. /\ \A i \in 1..n : u[i] = s[i]
        /\ \A i \in n + 1 .. n + m : u[i] = t[i - n] /\ i - n \in 1..m
    BY <1>3, <1>4, <1>5
  <1>8. \A i \in 1..n + m : i \in 1..n \/ i \in n + 1 .. n + m
    OBVIOUS
  <1>9. \A i, j \in 1..n + m : u[i] = u[j] => i = j
    <2> SUFFICES ASSUME NEW i \in 1..n + m, NEW j \in 1..n + m, u[i] = u[j] PROVE i = j
      OBVIOUS
    <2>1. CASE i \in 1..n /\ j \in 1..n
      BY <1>1, <1>7, <2>1
    <2>2. CASE i \in n + 1 .. n + m /\ j \in n + 1 .. n + m
      <3>1. i - n = j - n
        BY <1>2, <1>7, <2>2
      <3> QED
        BY <3>1
    <2>3. CASE i \in 1..n /\ j \in n + 1 .. n + m
      <3>1. u[i] \in R /\ u[j] \in T
        BY <1>1, <1>2, <1>7, <2>3
      <3> QED
        BY <3>1
    <2>4. CASE j \in 1..n /\ i \in n + 1 .. n + m
      <3>1. u[j] \in R /\ u[i] \in T
        BY <1>1, <1>2, <1>7, <2>4
      <3> QED
        BY <3>1
    <2> QED
      BY <1>8, <2>1, <2>2, <2>3, <2>4
  <1>10. {u[i] : i \in 1..n + m} = R \cup T
    <2>1. ASSUME NEW i \in 1..n + m PROVE u[i] \in R \cup T
      BY <1>6
    <2>2. ASSUME NEW x \in R PROVE \E i \in 1..n + m : u[i] = x
      <3>1. PICK i \in 1..n : s[i] = x
        BY <1>1
      <3>2. i \in 1..n + m
        OBVIOUS
      <3> QED
        BY <1>7, <3>1, <3>2
    <2>3. ASSUME NEW x \in T PROVE \E i \in 1..n + m : u[i] = x
      <3>1. PICK i \in 1..m : t[i] = x
        BY <1>2
      <3>2. i + n \in n + 1 .. n + m /\ (i + n) - n = i
        OBVIOUS
      <3> QED
        BY <1>7, <3>1, <3>2
    <2> QED
      BY <2>1, <2>2, <2>3
  <1>11. u = [i \in 1..n + m |-> u[i]] /\ n + m \in Nat
    BY <1>6
  <1>12. Once(u, R \cup T)
    BY <1>9, <1>10, <1>11 DEF Once
  <1> QED
    BY <1>5, <1>12

LEMMA OnceCount ==
  ASSUME NEW s, NEW R, Once(s, R)
  PROVE  {s[i] : i \in DOMAIN s} = R /\ Len(s) = Cardinality(R) /\ Len(s) \in Nat /\ DOMAIN s = 1..Len(s)
  <1>1. PICK n \in Nat : /\ s = [i \in 1..n |-> s[i]]
                         /\ \A i, j \in 1..n : s[i] = s[j] => i = j
                         /\ R = {s[i] : i \in 1..n}
    BY DEF Once
  <1>2. s \in Seq(R) /\ Len(s) = n /\ DOMAIN s = 1..n
    BY <1>1
  <1>3. s \in Bijection(1..n, R)
    BY <1>1, <1>2 DEF Bijection, Injection, Surjection, IsInjective
  <1>4. Cardinality(1..n) = n /\ IsFiniteSet(1..n)
    BY FS_Interval
  <1>5. ExistsBijection(1..n, R)
    BY <1>3 DEF ExistsBijection
  <1>6. Cardinality(R) = n
    BY <1>4, <1>5, FS_Bijection
  <1> QED
    BY <1>1, <1>2, <1>6

\* Functions that agree have the same image.
LEMMA SameImage ==
  ASSUME NEW S, NEW f, NEW g,
         \A i \in S : \E l \in S : f[i] = g[l], \A l \in S : \E i \in S : f[i] = g[l]
  PROVE  {f[i] : i \in S} = {g[l] : l \in S}
  OBVIOUS

\* The first m outputs, and the terms of one kind over those of the layers S.
Taken(of, m) == [i \in 1..m |-> of[i]]
TermsFor(kind, of, S) == {[kind |-> kind, of |-> of[l]] : l \in S}

\* The terms of one kind are one for every supervised output.
LEMMA TermsOnce ==
  ASSUME NEW kind, NEW L \in Nat \ {0}, NEW of, \A i, j \in 1..L : of[i] = of[j] => i = j,
         NEW deep \in BOOLEAN, NEW S, S = IF deep THEN 1..L ELSE {L},
         NEW out, out.aux = IF deep THEN Taken(of, L - 1) ELSE <<>>, out.final = of[L]
  PROVE  Once(TermsOf(kind, out), TermsFor(kind, of, S))
  <1> DEFINE Slices == {of[i] : i \in 1..L}
  <1>1. <<of[L]>> \in Seq(Slices) /\ Len(<<of[L]>>) = 1 /\ <<of[L]>>[1] = of[L]
    OBVIOUS
  <1>2. CASE deep
    <2>1. PICK m \in Nat : m = L - 1
      OBVIOUS
    <2>2. PICK a : a = [i \in 1..m |-> of[i]] /\ a = out.aux
      BY <1>2, <2>1 DEF Taken
    <2>3. a \in Seq(Slices) /\ Len(a) = m
      BY <2>1, <2>2
    <2>4. PICK s : s = <<of[L]>> \o a
      OBVIOUS
    <2>5. s \in Seq(Slices) /\ Len(s) = L /\ DOMAIN s = 1..L
      BY <1>1, <2>1, <2>3, <2>4
    <2>6. s[1] = of[L] /\ \A i \in 2..L : s[i] = of[i - 1]
      BY <1>1, <2>1, <2>2, <2>3, <2>4
    <2>7. PICK f : f = Of(kind, s)
      OBVIOUS
    <2>8. TermsOf(kind, out) = f
      BY <1>2, <2>1, <2>2, <2>4, <2>7 DEF TermsOf
    <2>9. f = [i \in 1..L |-> [kind |-> kind, of |-> s[i]]]
      BY <2>5, <2>7 DEF Of
    <2>10. \A i, j \in 1..L : f[i] = f[j] => i = j
      <3> SUFFICES ASSUME NEW i \in 1..L, NEW j \in 1..L, f[i] = f[j] PROVE i = j
        OBVIOUS
      <3>1. s[i] = s[j]
        <4>1. f[i].of = s[i] /\ f[j].of = s[j]
          BY <2>9
        <4> QED
          BY <4>1
      <3>2. (i = 1 \/ i \in 2..L) /\ (j = 1 \/ j \in 2..L)
        OBVIOUS
      <3>3. CASE i = 1 /\ j = 1
        BY <3>3
      <3>4. CASE i = 1 /\ j \in 2..L
        BY <2>6, <3>1, <3>4
      <3>5. CASE i \in 2..L /\ j = 1
        BY <2>6, <3>1, <3>5
      <3>6. CASE i \in 2..L /\ j \in 2..L
        <4>1. i - 1 \in 1..L /\ j - 1 \in 1..L
          BY <3>6
        <4>2. i - 1 = j - 1
          BY <2>6, <3>1, <3>6, <4>1
        <4> QED
          BY <4>2
      <3> QED
        BY <3>2, <3>3, <3>4, <3>5, <3>6
    <2>11. {f[i] : i \in 1..L} = {[kind |-> kind, of |-> of[l]] : l \in 1..L}
      <3>1. ASSUME NEW i \in 1..L PROVE \E l \in 1..L : f[i] = [kind |-> kind, of |-> of[l]]
        <4>1. CASE i = 1
          BY <2>6, <2>9, <4>1
        <4>2. CASE i # 1
          <5>1. i \in 2..L /\ i - 1 \in 1..L
            BY <4>2
          <5> QED
            BY <2>6, <2>9, <5>1
        <4> QED
          BY <4>1, <4>2
      <3>2. ASSUME NEW l \in 1..L PROVE \E i \in 1..L : f[i] = [kind |-> kind, of |-> of[l]]
        <4>1. CASE l = L
          BY <2>6, <2>9, <4>1
        <4>2. CASE l # L
          <5>1. l + 1 \in 2..L /\ (l + 1) - 1 = l /\ l + 1 \in 1..L
            BY <4>2
          <5> QED
            BY <2>6, <2>9, <5>1
        <4> QED
          BY <4>1, <4>2
      <3>3. PICK term_of : term_of = [l \in 1..L |-> [kind |-> kind, of |-> of[l]]]
        OBVIOUS
      <3>4. {[kind |-> kind, of |-> of[l]] : l \in 1..L} = {term_of[l] : l \in 1..L}
        BY <3>3
      <3>5. /\ \A i \in 1..L : \E l \in 1..L : f[i] = term_of[l]
            /\ \A l \in 1..L : \E i \in 1..L : f[i] = term_of[l]
        BY <3>1, <3>2, <3>3
      <3>6. {f[i] : i \in 1..L} = {term_of[l] : l \in 1..L}
        <4>1. PICK U : U = 1..L
          OBVIOUS
        <4>2. \A i \in U : \E l \in U : f[i] = term_of[l]
          BY <3>5, <4>1
        <4>3. \A l \in U : \E i \in U : f[i] = term_of[l]
          BY <3>5, <4>1
        <4>4. {f[i] : i \in U} = {term_of[l] : l \in U}
          BY <4>2, <4>3, SameImage
        <4> QED
          BY <4>1, <4>4
      <3> QED
        BY <3>4, <3>6
    <2>12. f = [i \in 1..L |-> f[i]]
      BY <2>9
    <2>13. Once(f, {[kind |-> kind, of |-> of[l]] : l \in 1..L})
      BY <2>10, <2>11, <2>12 DEF Once
    <2> QED
      BY <1>2, <2>8, <2>13 DEF TermsFor
  <1>3. CASE ~deep
    <2>1. PICK s : s = <<of[L]>> \o <<>>
      OBVIOUS
    <2>2. s = <<of[L]>> /\ DOMAIN s = 1..1 /\ s[1] = of[L]
      BY <1>1, <2>1
    <2>3. PICK f : f = Of(kind, s)
      OBVIOUS
    <2>4. TermsOf(kind, out) = f
      BY <1>3, <2>1, <2>3 DEF TermsOf
    <2>5. f = [i \in 1..1 |-> [kind |-> kind, of |-> of[L]]]
      BY <2>2, <2>3 DEF Of
    <2>6. {[kind |-> kind, of |-> of[l]] : l \in {L}} = {[kind |-> kind, of |-> of[L]]}
      OBVIOUS
    <2>7. {f[i] : i \in 1..1} = {f[1]} /\ f[1] = [kind |-> kind, of |-> of[L]]
      BY <2>5
    <2>8. f = [i \in 1..1 |-> f[i]] /\ \A i, j \in 1..1 : i = j
      BY <2>5
    <2>9. Once(f, {f[1]})
      BY <2>7, <2>8 DEF Once
    <2> QED
      BY <1>3, <2>4, <2>6, <2>7, <2>9 DEF TermsFor
  <1> QED
    BY <1>2, <1>3

------------------------------------------------------------------------------
(* The outputs are collected, layer by layer, and the terms added.          *)

\* TaughtInv is inductive: one lemma for every action that disturbs it.
LEMMA InitTaught == Init => TaughtInv
  BY DEF Init, TaughtInv, NoDenoising

LEMMA DenoiseTaught == ASSUME TaughtInv, Denoise PROVE TaughtInv'
  <1>1. dn'.active \in BOOLEAN
    BY DEF Denoise, MakeDenoising, NoDenoising
  <1> QED
    BY <1>1 DEF Denoise, TaughtInv

LEMMA SelectTaught == ASSUME TaughtInv, Select PROVE TaughtInv'
  <1>1. /\ job' = job /\ dn' = dn /\ layer' = layer /\ det' = det /\ dn_out' = dn_out /\ terms' = terms
        /\ pc = "select" /\ pc' \in {"threw", "decode"}
    BY DEF Select
  <1>2. layer = 0 /\ det = NoOutput /\ dn_out = NoOutput /\ terms = <<>>
    BY <1>1 DEF TaughtInv
  <1>3. OutputsAfter(layer)'
    BY <1>1, <1>2 DEF OutputsAfter, Collected, NoOutput
  <1> QED
    BY <1>1, <1>2, <1>3 DEF TaughtInv

LEMMA DecoderLayerTaught == ASSUME TaughtInv, DecoderLayer PROVE TaughtInv'
  <1>1. /\ job' = job /\ dn' = dn /\ layer' = layer + 1 /\ det' = det /\ dn_out' = dn_out /\ terms' = terms
        /\ pc = "decode" /\ pc' \in {"threw", "heads"} /\ layer < net.dec_layers
    BY DEF DecoderLayer
  <1>2. layer \in Nat /\ OutputsAfter(layer) /\ terms = <<>> /\ job \in Jobs
    BY <1>1 DEF TaughtInv, OutputsAfter
  <1>3. layer' - 1 = layer /\ layer' \in Nat \ {0}
    BY <1>1, <1>2
  <1>4. OutputsAfter(layer - 1)'
    BY <1>1, <1>2, <1>3 DEF OutputsAfter, Collected, CollectAux, MatchingAux, MatchingOf, DnAux, DnOf, net
  <1>5. layer' <= net'.dec_layers
    BY <1>1, <1>2, JobTypes DEF net
  <1> QED
    BY <1>1, <1>2, <1>3, <1>4, <1>5 DEF TaughtInv

LEMMA LayerOutputTaught == ASSUME TaughtInv, LayerOutput PROVE TaughtInv'
  <1>1. /\ job' = job /\ dn' = dn /\ layer' = layer /\ terms' = terms
        /\ pc = "heads" /\ pc' = "decode"
        /\ det' = IF CollectAux THEN Pushed(det, MatchingSlice) ELSE det
        /\ dn_out' = IF CollectAux /\ dn.active THEN Pushed(dn_out, DnSlice) ELSE dn_out
    BY DEF LayerOutput
  <1>2. layer \in Nat \ {0} /\ OutputsAfter(layer - 1) /\ terms = <<>> /\ job \in Jobs /\ dn.active \in BOOLEAN
    BY <1>1 DEF TaughtInv
  <1>3. det' = Collected(layer, MatchingAux(layer))
    <2>1. CASE CollectAux
      BY <1>1, <1>2, <2>1, PushedMatching DEF OutputsAfter
    <2>2. CASE ~CollectAux
      BY <1>1, <1>2, <2>2 DEF OutputsAfter, Collected
    <2> QED
      BY <2>1, <2>2
  <1>4. dn_out' = IF dn.active THEN Collected(layer, DnAux(layer)) ELSE NoOutput
    <2>1. CASE dn.active /\ CollectAux
      BY <1>1, <1>2, <2>1, PushedDn DEF OutputsAfter
    <2>2. CASE dn.active /\ ~CollectAux
      BY <1>1, <1>2, <2>2 DEF OutputsAfter, Collected
    <2>3. CASE ~dn.active
      BY <1>1, <1>2, <2>3 DEF OutputsAfter
    <2> QED
      BY <2>1, <2>2, <2>3
  <1>5. OutputsAfter(layer)'
    BY <1>1, <1>2, <1>3, <1>4
    DEF OutputsAfter, Collected, CollectAux, MatchingAux, MatchingOf, DnAux, DnOf, net
  <1> QED
    BY <1>1, <1>2, <1>5 DEF TaughtInv

\* What has been collected when the last layer runs.
LEMMA AuxAfter ==
  ASSUME NEW k \in Nat, NEW aux, k = 0 => aux = <<>>
  PROVE  Aux(Collected(k, aux)) = IF CollectAux THEN aux ELSE <<>>
  BY DEF Aux, Collected, NoOutput

LEMMA FinalOutputTaught == ASSUME TaughtInv, FinalOutput PROVE TaughtInv'
  <1>1. /\ job' = job /\ dn' = dn /\ layer' = layer /\ terms' = terms
        /\ pc = "heads" /\ layer = net.dec_layers /\ pc' = IF job.training THEN "loss" ELSE "done"
        /\ det' = [active |-> TRUE, aux |-> Aux(det), final |-> MatchingSlice]
        /\ dn_out' = IF dn.active THEN [active |-> TRUE, aux |-> Aux(dn_out), final |-> DnSlice]
                                  ELSE NoOutput
    BY DEF FinalOutput
  <1>2. layer \in Nat \ {0} /\ OutputsAfter(layer - 1) /\ terms = <<>> /\ job \in Jobs /\ dn.active \in BOOLEAN
    BY <1>1 DEF TaughtInv
  <1>3. PICK k \in Nat : k = layer - 1
    BY <1>2
  <1>4. det' = Complete(MatchingAux(layer - 1), MatchingOf(layer))
    <2>1. PICK a : a = MatchingAux(k)
      OBVIOUS
    <2>2. k = 0 => a = <<>>
      BY <2>1 DEF MatchingAux
    <2>3. Aux(det) = IF CollectAux THEN a ELSE <<>>
      BY <1>2, <1>3, <2>1, <2>2, AuxAfter DEF OutputsAfter
    <2> QED
      BY <1>1, <1>3, <2>1, <2>3 DEF Complete, MatchingSlice, Slice, MatchingOf
  <1>5. dn.active => dn_out' = Complete(DnAux(layer - 1), DnOf(layer))
    <2>1. PICK a : a = DnAux(k)
      OBVIOUS
    <2>2. k = 0 => a = <<>>
      BY <2>1 DEF DnAux
    <2>3. dn.active => Aux(dn_out) = IF CollectAux THEN a ELSE <<>>
      BY <1>2, <1>3, <2>1, <2>2, AuxAfter DEF OutputsAfter
    <2> QED
      BY <1>1, <1>3, <2>1, <2>3 DEF Complete, DnSlice, Slice, DnOf
  <1>6. OutputsComplete'
    BY <1>1, <1>2, <1>4, <1>5
    DEF OutputsComplete, Complete, CollectAux, MatchingAux, MatchingOf, DnAux, DnOf, net
  <1>7. \E j \in Nat : terms' = [i \in 1..j |-> Todo'[i]]
    <2>1. <<>> = [i \in 1..0 |-> Todo'[i]]
      OBVIOUS
    <2> QED
      BY <1>1, <1>2, <2>1
  <1> QED
    BY <1>1, <1>2, <1>6, <1>7 DEF TaughtInv

LEMMA ComputeTaught == ASSUME TaughtInv, Compute PROVE TaughtInv'
  <1>1. /\ job' = job /\ dn' = dn /\ layer' = layer /\ det' = det /\ dn_out' = dn_out
        /\ pc = "loss" /\ pc' = "loss" /\ terms' = Append(terms, NextTerm)
    BY DEF Compute
  <1>2. OutputsComplete /\ job \in Jobs /\ dn.active \in BOOLEAN
    BY <1>1 DEF TaughtInv
  <1>3. PICK todo : todo = Todo
    OBVIOUS
  <1>4. Todo' = todo
    BY <1>1, <1>3 DEF Todo, net
  <1>5. PICK k \in Nat : terms = [i \in 1..k |-> todo[i]]
    BY <1>1, <1>3 DEF TaughtInv
  <1>6. PICK g : g = [i \in 1..k + 1 |-> todo[i]]
    OBVIOUS
  <1>7. Len(terms) = k
    BY <1>5
  <1>8. NextTerm = g[k + 1]
    BY <1>3, <1>6, <1>7 DEF NextTerm
  <1>9. k + 1 \in Nat \ {0} /\ (k + 1) - 1 = k /\ g = [i \in 1..k + 1 |-> g[i]]
    BY <1>6
  <1>10. PICK f : f = terms
    OBVIOUS
  <1>11. f = [i \in 1..(k + 1) - 1 |-> g[i]]
    BY <1>5, <1>6, <1>9, <1>10
  <1>12. PICK m \in Nat \ {0} : m = k + 1
    BY <1>9
  <1>13. Append(f, g[m]) = g
    BY <1>9, <1>11, <1>12, AppendedNext
  <1>14. terms' = [i \in 1..m |-> Todo'[i]] /\ m \in Nat
    BY <1>1, <1>4, <1>6, <1>8, <1>10, <1>12, <1>13
  <1>15. OutputsComplete'
    BY <1>1, <1>2 DEF OutputsComplete, Complete, CollectAux, MatchingAux, MatchingOf, DnAux, DnOf, net
  <1> QED
    BY <1>1, <1>2, <1>14, <1>15 DEF TaughtInv

\* The other actions leave the outputs and the terms as they are.
LEMMA OthersTaught ==
  ASSUME TaughtInv, [Encoder \/ Mismatch \/ Backward]_vars
  PROVE  TaughtInv'
  <1>1. /\ job' = job /\ dn' = dn /\ layer' = layer /\ det' = det /\ dn_out' = dn_out /\ terms' = terms
        /\ \/ pc' = pc \/ pc' = "threw"
           \/ pc = "encode" /\ pc' = "select"
           \/ pc = "loss" /\ pc' = "done" /\ Len(terms) = Len(Todo)
    BY DEF Encoder, Mismatch, Backward, vars
  <1>2. Todo' = Todo /\ (OutputsComplete' <=> OutputsComplete)
        /\ (OutputsAfter(layer)' <=> OutputsAfter(layer))
        /\ (OutputsAfter(layer - 1)' <=> OutputsAfter(layer - 1))
    BY <1>1 DEF Todo, OutputsComplete, OutputsAfter, Complete, Collected, CollectAux,
                MatchingAux, MatchingOf, DnAux, DnOf, net
  <1>3. net' = net
    BY <1>1 DEF net
  <1> QED
    BY <1>1, <1>2, <1>3 DEF TaughtInv

LEMMA NextTaught == TaughtInv /\ [Next]_vars => TaughtInv'
  BY DenoiseTaught, SelectTaught, DecoderLayerTaught, LayerOutputTaught, FinalOutputTaught,
     ComputeTaught, OthersTaught DEF Next

\* When the decoder is through, the terms to add are the ones that are due.
LEMMA TodoOnce ==
  ASSUME TaughtInv, OutputsComplete, job.training
  PROVE  LET S == IF DeepSupervised(net) THEN 1..net.dec_layers ELSE {net.dec_layers}
             due(kind) == {[kind |-> kind, of |-> MatchingOf(l)] : l \in S}
         IN  Once(Todo, due("one") \cup (IF net.dense_o2m_k > 0 THEN due("many") ELSE {})
                          \cup (IF dn.active THEN {[kind |-> "dn", of |-> DnOf(l)] : l \in S} ELSE {}))
  <1>1. PICK L \in Nat \ {0} : L = layer /\ L = net.dec_layers
    BY DEF OutputsComplete
  <1>2. PICK deep \in BOOLEAN : deep = DeepSupervised(net)
    BY DEF DeepSupervised
  <1>3. CollectAux <=> deep
    BY <1>2 DEF CollectAux
  <1>4. PICK S : S = IF deep THEN 1..L ELSE {L}
    OBVIOUS
  <1>5. PICK matching : matching = [l \in 1..L |-> MatchingOf(l)]
    OBVIOUS
  <1>6. PICK noised : noised = [l \in 1..L |-> DnOf(l)]
    OBVIOUS
  <1>7. S \subseteq 1..L
    BY <1>4
  <1>8. \A i, j \in 1..L : (matching[i] = matching[j] => i = j) /\ (noised[i] = noised[j] => i = j)
    BY <1>5, <1>6 DEF MatchingOf, DnOf
  <1>9. PICK d : d = det
    OBVIOUS
  <1>10. PICK o : o = dn_out
    OBVIOUS
  <1>10a. PICK a1 : a1 = IF deep THEN Taken(matching, L - 1) ELSE <<>>
    OBVIOUS
  <1>10b. PICK a2 : a2 = IF deep THEN Taken(noised, L - 1) ELSE <<>>
    OBVIOUS
  <1>11. d = [active |-> TRUE, aux |-> a1, final |-> matching[L]]
    <2>1. Taken(matching, L - 1) = MatchingAux(layer - 1) /\ matching[L] = MatchingOf(layer)
      BY <1>1, <1>5 DEF MatchingAux, Taken
    <2> QED
      BY <1>1, <1>3, <1>9, <1>10a, <2>1 DEF OutputsComplete, Complete
  <1>12. dn.active => o = [active |-> TRUE, aux |-> a2, final |-> noised[L]]
    <2>1. Taken(noised, L - 1) = DnAux(layer - 1) /\ noised[L] = DnOf(layer)
      BY <1>1, <1>6 DEF DnAux, Taken
    <2> QED
      BY <1>1, <1>3, <1>10, <1>10b, <2>1 DEF OutputsComplete, Complete
  <1>13. o.active <=> dn.active
    <2>1. CASE dn.active
      BY <1>12, <2>1
    <2>2. CASE ~dn.active
      BY <1>10, <2>2 DEF OutputsComplete, NoOutput
    <2> QED
      BY <2>1, <2>2
  <1> DEFINE due(kind) == {[kind |-> kind, of |-> matching[l]] : l \in S}
             back == {[kind |-> "dn", of |-> noised[l]] : l \in S}
             many == net.dense_o2m_k > 0
  <1>14. Once(TermsOf("one", d), due("one")) /\ Once(TermsOf("many", d), due("many"))
    <2>1. \A i, j \in 1..L : matching[i] = matching[j] => i = j
      BY <1>8
    <2>2. d.aux = a1 /\ d.final = matching[L]
      BY <1>11
    <2>3. \A kind : Once(TermsOf(kind, d), TermsFor(kind, matching, S))
      BY <1>1, <1>2, <1>4, <1>10a, <2>1, <2>2, TermsOnce
    <2> QED
      BY <2>3 DEF TermsFor
  <1>15. dn.active => Once(TermsOf("dn", o), back)
    <2>1. \A i, j \in 1..L : noised[i] = noised[j] => i = j
      BY <1>8
    <2>2. ASSUME dn.active PROVE Once(TermsOf("dn", o), back)
      <3>1. o = [active |-> TRUE, aux |-> a2, final |-> noised[L]]
        BY <1>12, <2>2
      <3>2. o.aux = a2 /\ o.final = noised[L]
        BY <3>1
      <3>3. Once(TermsOf("dn", o), TermsFor("dn", noised, S))
        BY <1>1, <1>2, <1>4, <1>10b, <2>1, <3>2, TermsOnce
      <3> QED
        BY <3>3 DEF TermsFor
    <2> QED
      BY <2>2
  <1>16. due("one") \cap due("many") = {} /\ (due("one") \cup due("many")) \cap back = {}
    OBVIOUS
  <1>17. PICK one : one = due("one")
    OBVIOUS
  <1>18. PICK extra : extra = IF many THEN due("many") ELSE {}
    OBVIOUS
  <1>19. PICK rest : rest = IF dn.active THEN back ELSE {}
    OBVIOUS
  <1>20. one \cap extra = {} /\ (one \cup extra) \cap rest = {}
    BY <1>16, <1>17, <1>18, <1>19
  <1>21. PICK s : s = TermsOf("one", d)
    OBVIOUS
  <1>22. PICK t : t = IF many THEN TermsOf("many", d) ELSE <<>>
    OBVIOUS
  <1>23. PICK u : u = IF dn.active THEN TermsOf("dn", o) ELSE <<>>
    OBVIOUS
  <1>24. Once(s, one) /\ Once(t, extra) /\ Once(u, rest)
    <2> HIDE DEF due, back, many
    <2>1. Once(t, extra)
      BY <1>14, <1>18, <1>22, OnceEmpty
    <2>2. Once(u, rest)
      BY <1>15, <1>19, <1>23, OnceEmpty
    <2> QED
      BY <1>14, <1>17, <1>21, <2>1, <2>2
  <1>25. PICK st : st = s \o t
    OBVIOUS
  <1>26. Once(st, one \cup extra)
    BY <1>20, <1>24, <1>25, OnceConcat
  <1>27. PICK first : first = one \cup extra
    OBVIOUS
  <1>28. Once(st \o u, first \cup rest)
    BY <1>20, <1>24, <1>26, <1>27, OnceConcat
  <1>29. Todo = st \o u
    BY <1>9, <1>10, <1>13, <1>21, <1>22, <1>23, <1>25 DEF Todo
  <1>30. {[kind |-> "one", of |-> MatchingOf(l)] : l \in S} = one
    BY <1>5, <1>7, <1>17
  <1>31. (IF many THEN {[kind |-> "many", of |-> MatchingOf(l)] : l \in S} ELSE {}) = extra
    BY <1>5, <1>7, <1>18
  <1>32. (IF dn.active THEN {[kind |-> "dn", of |-> DnOf(l)] : l \in S} ELSE {}) = rest
    BY <1>6, <1>7, <1>19
  <1>33. S = IF DeepSupervised(net) THEN 1..net.dec_layers ELSE {net.dec_layers}
    BY <1>1, <1>2, <1>4
  <1> QED
    BY <1>27, <1>28, <1>29, <1>30, <1>31, <1>32, <1>33

(* Whatever the model and the batch, every supervised layer of the decoder  *)
(* is taught once by each kind of supervision, over the right queries.      *)
(* (DetectionModel's collection of the layers' outputs, TrainStep's loops.) *)
THEOREM LayersTaughtOnce == Spec => []EveryLayerTaughtOnce
  <1>1. TaughtInv => EveryLayerTaughtOnce
    <2> SUFFICES ASSUME TaughtInv, pc = "done", job.training
                 PROVE  EveryLayerTaughtOnce
      BY DEF EveryLayerTaughtOnce
    <2> DEFINE S == IF DeepSupervised(net) THEN 1..net.dec_layers ELSE {net.dec_layers}
               matching == {"one"} \cup (IF net.dense_o2m_k > 0 THEN {"many"} ELSE {})
               dns == IF dn.active THEN {[kind |-> "dn", of |-> DnOf(l)] : l \in S} ELSE {}
               due(kind) == {[kind |-> kind, of |-> MatchingOf(l)] : l \in S}
               all == due("one") \cup (IF net.dense_o2m_k > 0 THEN due("many") ELSE {}) \cup dns
    <2>1. OutputsComplete /\ Len(terms) = Len(Todo)
      BY DEF TaughtInv
    <2>2. Once(Todo, all)
      BY <2>1, TodoOnce
    <2>3. PICK todo : todo = Todo
      OBVIOUS
    <2>4. PICK R : R = all
      OBVIOUS
    <2>5. {todo[i] : i \in DOMAIN todo} = R /\ Len(todo) = Cardinality(R) /\ Len(todo) \in Nat /\ DOMAIN todo = 1..Len(todo)
      BY <2>2, <2>3, <2>4, OnceCount
    <2>6. PICK k \in Nat : terms = [i \in 1..k |-> todo[i]]
      BY <2>3 DEF TaughtInv
    <2>7. k = Len(todo)
      BY <2>1, <2>3, <2>6
    <2>8. {terms[i] : i \in DOMAIN terms} = R /\ Len(terms) = Cardinality(R)
      BY <2>5, <2>6, <2>7
    <2> DEFINE matchings == {[kind |-> k2, of |-> MatchingOf(l)] : k2 \in matching, l \in S}
    <2>9. matchings = due("one") \cup (IF net.dense_o2m_k > 0 THEN due("many") ELSE {})
      OBVIOUS
    <2>10. EveryLayerTaughtOnce
             <=> /\ {terms[i] : i \in DOMAIN terms} = matchings \cup dns
                 /\ Len(terms) = Cardinality(matchings \cup dns)
      BY DEF EveryLayerTaughtOnce, MatchingOf, DnOf
    <2> HIDE DEF matchings, dns
    <2>11. R = matchings \cup dns
      BY <2>4, <2>9
    <2> QED
      BY <2>8, <2>10, <2>11
  <1> QED
    BY <1>1, InitTaught, NextTaught, PTL DEF Spec

------------------------------------------------------------------------------
(* What a denoising query is held against.                                  *)

\* Slots of two groups never overlap: the division by the width of a group
\* gives the group back, and with it the object.
SlotAt(w, g, t) == g * w + t - 1

LEMMA SlotOfObject ==
  ASSUME NEW w \in Nat \ {0}, NEW g \in Nat, NEW t \in 1..w
  PROVE  SlotAt(w, g, t) \div w = g /\ t = SlotAt(w, g, t) - g * w + 1
  <1>1. g * w \in Nat
    OBVIOUS
  <1> DEFINE q == g * w + t - 1
  <1>2. q \in Nat /\ g * w <= q /\ q < g * w + w /\ t = q - g * w + 1
    BY <1>1
  <1>3. PICK i : i = q \div w
    OBVIOUS
  <1>4. i \in Int /\ i * w <= q /\ q < i * w + w
    BY <1>2, <1>3
  <1>5. i = g
    <2>1. \A a, b \in Int : a < b => a * w + w <= b * w
      <3> SUFFICES ASSUME NEW a \in Int, NEW b \in Int, a < b PROVE a * w + w <= b * w
        OBVIOUS
      <3>1. b - a - 1 \in Nat
        OBVIOUS
      <3>2. (b - a - 1) * w \in Nat
        BY <3>1
      <3>3. (b - a - 1) * w = b * w - a * w - w
        OBVIOUS
      <3>4. a * w \in Int /\ b * w \in Int
        OBVIOUS
      <3> QED
        BY <3>2, <3>3, <3>4
    <2>2. ~(i < g)
      <3> SUFFICES ASSUME i < g PROVE FALSE
        OBVIOUS
      <3>1. i * w + w <= g * w /\ i * w \in Int
        BY <1>4, <2>1
      <3> QED
        BY <1>1, <1>2, <1>4, <3>1
    <2>3. ~(g < i)
      <3> SUFFICES ASSUME g < i PROVE FALSE
        OBVIOUS
      <3>1. g * w + w <= i * w /\ i * w \in Int
        BY <1>4, <2>1
      <3> QED
        BY <1>1, <1>2, <1>4, <3>1
    <2> QED
      BY <1>4, <2>2, <2>3
  <1> QED
    BY <1>2, <1>3, <1>5 DEF SlotAt

\* Slot s is that of object t in one of G groups of width w.
IsSlotOf(s, G, w, t) == s \div w < G /\ s = SlotAt(w, s \div w, t)

\* The slot of an object in a group, whatever its image has besides.
LEMMA HeldAt ==
  ASSUME NEW s \in Nat, NEW T \in Nat, NEW G \in Nat, NEW w \in Nat \ {0}, T <= w
  PROVE  /\ TgtIndex(s, T, G, w) \in 0..T
         /\ \A t \in 1..T : TgtIndex(s, T, G, w) = t <=> IsSlotOf(s, G, w, t)
  <1> DEFINE targets == {t \in 1..T : \E g \in 0..G - 1 : s = Positive(g * w, t)}
  <1>1. \A t \in targets : s \div w < G /\ s = SlotAt(w, s \div w, t) /\ t = s - (s \div w) * w + 1
    <2> SUFFICES ASSUME NEW t \in 1..T, NEW g \in 0..G - 1, s = Positive(g * w, t)
                 PROVE  s \div w < G /\ s = SlotAt(w, s \div w, t) /\ t = s - (s \div w) * w + 1
      OBVIOUS
    <2>1. s = g * w + t - 1 /\ g \in Nat /\ t \in 1..w
      BY DEF Positive
    <2>2. s = SlotAt(w, g, t)
      BY <2>1 DEF SlotAt
    <2>3. s \div w = g /\ t = s - g * w + 1
      BY <2>1, <2>2, SlotOfObject
    <2> QED
      BY <2>1, <2>2, <2>3
  <1>2. \A t \in 1..T : s \div w < G /\ s = SlotAt(w, s \div w, t) => t \in targets
    <2> SUFFICES ASSUME NEW t \in 1..T, s \div w < G, s = SlotAt(w, s \div w, t)
                 PROVE  \E g \in 0..G - 1 : s = Positive(g * w, t)
      OBVIOUS
    <2>1. s \div w \in 0..G - 1
      OBVIOUS
    <2> QED
      BY <2>1 DEF Positive, SlotAt
  <1>3. targets \subseteq 1..T
    OBVIOUS
  <1>4. TgtIndex(s, T, G, w) = IF targets = {} THEN 0 ELSE CHOOSE t \in targets : TRUE
    BY DEF TgtIndex
  <1> HIDE DEF targets
  <1>5. CASE targets = {}
    BY <1>2, <1>4, <1>5 DEF IsSlotOf
  <1>6. CASE targets # {}
    <2>1. PICK t \in targets : t = TgtIndex(s, T, G, w)
      BY <1>4, <1>6
    <2>2. \A u \in targets : u = t
      BY <1>1, <2>1
    <2> QED
      BY <1>1, <1>2, <1>3, <2>1, <2>2 DEF IsSlotOf
  <1> QED
    BY <1>5, <1>6

\* What is in a slot is near an object exactly when it is held against it.
LEMMA NearIsHeld ==
  ASSUME NEW s \in Nat, NEW T \in Nat, NEW G \in Nat, NEW w \in Nat \ {0}, NEW t_pad, NEW contrastive
  PROVE  LET made == Noised(s, T, G, w, t_pad, contrastive)
             held == TgtIndex(s, T, G, w)
         IN  /\ made.near <=> held # 0
             /\ made.near => made.of = held
  <1> DEFINE targets == {t \in 1..T : \E g \in 0..G - 1 : s = Positive(g * w, t)}
             negatives == {t \in 1..T : contrastive /\ \E g \in 0..G - 1 : s = Negative(g * w, t, t_pad)}
  <1>1. TgtIndex(s, T, G, w) = IF targets = {} THEN 0 ELSE CHOOSE t \in targets : TRUE
    BY DEF TgtIndex
  <1>2. Noised(s, T, G, w, t_pad, contrastive)
          = CASE targets # {} -> [of |-> CHOOSE t \in targets : TRUE, near |-> TRUE]
              [] targets = {} /\ negatives # {} -> [of |-> CHOOSE t \in negatives : TRUE, near |-> FALSE]
              [] OTHER -> Absent
    BY DEF Noised
  <1>3. 0 \notin targets
    OBVIOUS
  <1> HIDE DEF targets, negatives
  <1>4. CASE targets # {}
    <2>1. (CHOOSE t \in targets : TRUE) \in targets
      BY <1>4
    <2> QED
      BY <1>1, <1>2, <1>3, <1>4, <2>1
  <1>5. CASE targets = {} /\ negatives # {}
    BY <1>1, <1>2, <1>5
  <1>6. CASE targets = {} /\ negatives = {}
    BY <1>1, <1>2, <1>6 DEF Absent
  <1> QED
    BY <1>4, <1>5, <1>6

\* The pairs of the denoising queries of one image.
PairsOf(h, n) == {<<s, h[s]>> : s \in {i \in 0..n - 1 : h[i] > 0}}

\* A query has at most the pair it is held against.
LEMMA MatchedToPairs ==
  ASSUME NEW n \in Nat, NEW h, \A q \in 0..n - 1 : h[q] \in Nat,
         NEW match, match = PairsOf(h, n)
  PROVE  \A q \in 0..n - 1 : MatchedTo(match, q) = IF h[q] > 0 THEN {h[q]} ELSE {}
  <1> SUFFICES ASSUME NEW q \in 0..n - 1
               PROVE  MatchedTo(match, q) = IF h[q] > 0 THEN {h[q]} ELSE {}
    OBVIOUS
  <1>1. \A t : <<q, t>> \in match <=> t = h[q] /\ h[q] > 0
    BY DEF PairsOf
  <1>2. \A t : <<q, t>> \in match => t \in {p[2] : p \in match}
    <2> SUFFICES ASSUME NEW t, <<q, t>> \in match PROVE \E p \in match : t = p[2]
      OBVIOUS
    <2>1. <<q, t>>[2] = t
      OBVIOUS
    <2> QED
      BY <2>1
  <1>3. \A t : t \in MatchedTo(match, q) <=> <<q, t>> \in match
    BY <1>2 DEF MatchedTo
  <1> QED
    BY <1>1, <1>3

\* No query is contested, so each is taught what it is held against.
LEMMA ClassesOfPairs ==
  ASSUME NEW n \in Nat, NEW h, \A q \in 0..n - 1 : h[q] \in Nat,
         NEW match, match = PairsOf(h, n), NEW c \in TargetClasses(match, n)
  PROVE  \A q \in 0..n - 1 : c[q] = h[q]
  <1>1. \A q \in 0..n - 1 : MatchedTo(match, q) = IF h[q] > 0 THEN {h[q]} ELSE {}
    BY MatchedToPairs
  <1> DEFINE contested == {q \in 0..n - 1 : Cardinality(MatchedTo(match, q)) > 1}
  <1>2. contested = {}
    <2> SUFFICES ASSUME NEW q \in 0..n - 1 PROVE ~(Cardinality(MatchedTo(match, q)) > 1)
      OBVIOUS
    <2>1. Cardinality({h[q]}) = 1 /\ Cardinality({}) = 0
      BY FS_Singleton, FS_EmptySet
    <2> QED
      BY <1>1, <2>1
  <1> HIDE DEF contested
  <1>3. PICK f : c = [q \in 0..n - 1 |->
                        CASE q \in contested -> f[q]
                          [] MatchedTo(match, q) = {} -> Background
                          [] OTHER -> CHOOSE t \in MatchedTo(match, q) : TRUE]
    BY DEF TargetClasses, contested
  <1>4. ASSUME NEW q \in 0..n - 1 PROVE c[q] = h[q]
    <2>1. CASE h[q] > 0
      <3>1. MatchedTo(match, q) = {h[q]}
        BY <1>1, <2>1
      <3>2. c[q] = CHOOSE t \in MatchedTo(match, q) : TRUE
        BY <1>2, <1>3, <3>1
      <3>3. (CHOOSE t \in MatchedTo(match, q) : TRUE) \in MatchedTo(match, q)
        BY <3>1
      <3> QED
        BY <3>1, <3>2, <3>3
    <2>2. CASE ~(h[q] > 0)
      <3>1. MatchedTo(match, q) = {} /\ h[q] = 0
        BY <1>1, <2>2
      <3> QED
        BY <1>2, <1>3, <3>1 DEF Background
    <2> QED
      BY <2>1, <2>2
  <1> QED
    BY <1>4

\* Each query of an image of T objects is held against the one its slot is for.
HeldBySlot(h, n, G, w, T) ==
  \A q \in 0..n - 1 : /\ h[q] \in 0..T
                      /\ \A t \in 1..T : h[q] = t <=> IsSlotOf(q, G, w, t)

\* What the layout d says of an image b of T objects.
SlotsFit(d, b, T) ==
  /\ T \in Nat /\ T <= d.gw
  /\ BuildDnMatches(d)[b] = PairsOf(d.tgt_index[b], d.num_dn)
  /\ HeldBySlot(d.tgt_index[b], d.num_dn, d.groups, d.gw, T)
  /\ \A q \in 0..d.num_dn - 1 : /\ d.dn_ref[b][q].near <=> d.tgt_index[b][q] # 0
                                /\ d.dn_ref[b][q].near => d.dn_ref[b][q].of = d.tgt_index[b][q]

\* What MakeDenoising says of a slot.
LEMMA MadeSlots ==
  ASSUME NEW images, DOMAIN images # {}, NEW m \in Nat,
         \A b \in DOMAIN images : Len(images[b]) \in 0..m,
         NEW G \in Int, NEW contrastive \in BOOLEAN,
         NEW d, d = MakeDenoising(images, G, contrastive), d.active
  PROVE  /\ d.gw \in Nat \ {0} /\ d.groups \in Nat /\ d.num_dn = d.groups * d.gw
         /\ \A b \in DOMAIN images : SlotsFit(d, b, Len(images[b]))
  <1> DEFINE t_pad == MaxLen(images)
             gw == (IF contrastive THEN 2 ELSE 1) * t_pad
  <1>1. t_pad \in Nat /\ \A b \in DOMAIN images : Len(images[b]) \in Nat /\ Len(images[b]) <= t_pad
    BY LongestImage
  <1> HIDE DEF t_pad
  <1>2. ~(t_pad = 0 \/ G <= 0)
    BY DEF MakeDenoising, NoDenoising, t_pad
  <1>3. gw \in Nat \ {0} /\ G \in Nat /\ t_pad <= gw
    BY <1>1, <1>2
  <1> HIDE DEF gw
  <1>4. d = [active |-> TRUE, groups |-> G, gw |-> gw, num_dn |-> G * gw,
             dn_ref |-> [b \in DOMAIN images |->
                          [s \in 0..G * gw - 1 |->
                             Noised(s, Len(images[b]), G, gw, t_pad, contrastive)]],
             tgt_index |-> [b \in DOMAIN images |->
                             [s \in 0..G * gw - 1 |-> TgtIndex(s, Len(images[b]), G, gw)]]]
    BY <1>2 DEF MakeDenoising, t_pad, gw
  <1>5. d.gw = gw /\ d.groups = G /\ d.num_dn = G * gw
    BY <1>4
  <1>6. \A b \in DOMAIN images, q \in 0..G * gw - 1 :
          /\ d.dn_ref[b][q] = Noised(q, Len(images[b]), G, gw, t_pad, contrastive)
          /\ d.tgt_index[b][q] = TgtIndex(q, Len(images[b]), G, gw)
    BY <1>4
  <1>7. DOMAIN d.tgt_index = DOMAIN images
    BY <1>4
  <1>8. ASSUME NEW b \in DOMAIN images PROVE BuildDnMatches(d)[b] = PairsOf(d.tgt_index[b], d.num_dn)
    BY <1>7 DEF BuildDnMatches, PairsOf
  <1>9. ASSUME NEW b \in DOMAIN images, NEW q \in 0..G * gw - 1
        PROVE  /\ d.tgt_index[b][q] \in 0..Len(images[b])
               /\ \A t \in 1..Len(images[b]) :
                    d.tgt_index[b][q] = t <=> IsSlotOf(q, G, gw, t)
               /\ d.dn_ref[b][q].near <=> d.tgt_index[b][q] # 0
               /\ d.dn_ref[b][q].near => d.dn_ref[b][q].of = d.tgt_index[b][q]
    <2>1. PICK T \in Nat : T = Len(images[b]) /\ T <= gw
      BY <1>1, <1>3
    <2>2. PICK w \in Nat \ {0} : w = gw
      BY <1>3
    <2>3. q \in Nat /\ q < G * w
      <3>1. G * w \in Nat
        BY <1>3, <2>2
      <3> QED
        BY <2>2, <3>1
    <2>4. q \div w < G
      BY <1>3, <2>2, <2>3, GroupOfSlot
    <2>5. /\ TgtIndex(q, T, G, w) \in 0..T
          /\ \A t \in 1..T : TgtIndex(q, T, G, w) = t <=> IsSlotOf(q, G, w, t)
      <3>1. PICK p \in Nat : p = q
        BY <2>3
      <3>2. PICK H \in Nat : H = G
        BY <1>3
      <3>3. T <= w
        BY <2>1, <2>2
      <3>4. /\ TgtIndex(p, T, H, w) \in 0..T
            /\ \A t \in 1..T : TgtIndex(p, T, H, w) = t <=> IsSlotOf(p, H, w, t)
        BY <3>3, HeldAt
      <3> QED
        BY <3>1, <3>2, <3>4
    <2>6. PICK pad : pad = t_pad
      OBVIOUS
    <2>7. /\ Noised(q, T, G, w, pad, contrastive).near <=> TgtIndex(q, T, G, w) # 0
          /\ Noised(q, T, G, w, pad, contrastive).near
               => Noised(q, T, G, w, pad, contrastive).of = TgtIndex(q, T, G, w)
      BY <1>3, <2>1, <2>2, <2>3, NearIsHeld
    <2>8. d.tgt_index[b][q] = TgtIndex(q, T, G, w) /\ d.dn_ref[b][q] = Noised(q, T, G, w, pad, contrastive)
      BY <1>6, <2>1, <2>2, <2>6
    <2> QED
      BY <2>1, <2>2, <2>4, <2>5, <2>7, <2>8
  <1>10. ASSUME NEW b \in DOMAIN images PROVE SlotsFit(d, b, Len(images[b]))
    <2>1. HeldBySlot(d.tgt_index[b], d.num_dn, d.groups, d.gw, Len(images[b]))
      BY <1>5, <1>9 DEF HeldBySlot
    <2> QED
      BY <1>1, <1>3, <1>5, <1>8, <1>9, <2>1 DEF SlotsFit
  <1> QED
    BY <1>3, <1>5, <1>10

\* Each group has one query for each object.
GroupOf(q, w) == q \div w + 1

\* One of n queries in group g is held against object t.
OneIn(h, n, w, g, t) ==
  Cardinality({q \in 0..n - 1 : GroupOf(q, w) = g /\ <<q, t>> \in PairsOf(h, n)}) = 1

LEMMA OnePerGroup ==
  ASSUME NEW w \in Nat \ {0}, NEW G \in Nat, NEW n \in Nat, n = G * w, NEW T \in Nat, T <= w, NEW h,
         HeldBySlot(h, n, G, w, T), NEW g \in 1..G, NEW t \in 1..T
  PROVE  OneIn(h, n, w, g, t)
  <1>1. PICK k \in Nat : k = g - 1
    OBVIOUS
  <1>2. PICK u \in 1..w : u = t
    OBVIOUS
  <1>3. PICK x : x = SlotAt(w, k, t)
    OBVIOUS
  <1>4. x \div w = k
    BY <1>2, <1>3, SlotOfObject
  <1>5. x \in 0..n - 1
    <2>1. (G - k - 1) \in Nat
      BY <1>1
    <2>2. (G - k - 1) * w \in Nat
      BY <2>1
    <2>3. (G - k - 1) * w = G * w - k * w - w
      BY <1>1
    <2>4. k * w \in Nat /\ G * w \in Nat
      BY <1>1
    <2>5. k * w + w <= n
      BY <2>2, <2>3, <2>4
    <2> QED
      BY <1>1, <1>2, <1>3, <2>4, <2>5 DEF SlotAt
  <1>6. IsSlotOf(x, G, w, t)
    BY <1>1, <1>3, <1>4 DEF IsSlotOf
  <1>7. h[x] = t
    BY <1>5, <1>6 DEF HeldBySlot
  <1>8. GroupOf(x, w) = g /\ <<x, t>> \in PairsOf(h, n)
    BY <1>1, <1>4, <1>5, <1>7 DEF GroupOf, PairsOf
  <1>9. ASSUME NEW q \in 0..n - 1, GroupOf(q, w) = g, <<q, t>> \in PairsOf(h, n)
        PROVE  q = x
    <2>1. h[q] = t
      BY <1>9 DEF PairsOf
    <2>2. IsSlotOf(q, G, w, t)
      BY <2>1 DEF HeldBySlot
    <2>3. q \div w \in Int
      OBVIOUS
    <2>4. q \div w = k
      BY <1>1, <1>9, <2>3 DEF GroupOf
    <2> QED
      BY <1>3, <2>2, <2>4 DEF IsSlotOf
  <1>10. {q \in 0..n - 1 : GroupOf(q, w) = g /\ <<q, t>> \in PairsOf(h, n)} = {x}
    BY <1>5, <1>8, <1>9
  <1> QED
    BY <1>10, FS_Singleton DEF OneIn

------------------------------------------------------------------------------
(* The denoising terms of the loss.                                         *)

\* The denoising queries of the step are those of its batch.
DnMade == dn.active => dn = MakeDenoising(job.images, job.dn_number, job.contrastive)

\* Where the loss has not begun.
Forward == {"denoise", "encode", "select", "decode", "heads"}

(* No term has been added before the loss, and a denoising one is right.    *)
RebuildInv ==
  /\ DnMade
  /\ pc \in Forward => term = NoTerm
  /\ ReconstructsItsOwnObject

\* A denoising term is over the denoising queries, of which there are some.
LEMMA DnTerms ==
  ASSUME TaughtInv, pc = "loss", Compute, NextTerm.kind = "dn"
  PROVE  dn.active /\ NextTerm.of.from = 0 /\ NextTerm.of.count = dn.num_dn
  <1>1. OutputsComplete /\ job.training /\ Len(terms) < Len(Todo)
    BY DEF TaughtInv, Compute
  <1> DEFINE S == IF DeepSupervised(net) THEN 1..net.dec_layers ELSE {net.dec_layers}
             due(kind) == {[kind |-> kind, of |-> MatchingOf(l)] : l \in S}
             dns == IF dn.active THEN {[kind |-> "dn", of |-> DnOf(l)] : l \in S} ELSE {}
             all == due("one") \cup (IF net.dense_o2m_k > 0 THEN due("many") ELSE {}) \cup dns
  <1>2. Once(Todo, all)
    BY <1>1, TodoOnce
  <1>3. PICK todo : todo = Todo
    OBVIOUS
  <1>4. PICK R : R = all
    OBVIOUS
  <1>5. {todo[i] : i \in DOMAIN todo} = R /\ Len(todo) \in Nat /\ DOMAIN todo = 1..Len(todo)
    BY <1>2, <1>3, <1>4, OnceCount
  <1>6. PICK k \in Nat : terms = [i \in 1..k |-> todo[i]]
    BY <1>3 DEF TaughtInv
  <1>7. Len(terms) = k /\ k + 1 \in 1..Len(todo)
    <2>1. Len(terms) = k
      BY <1>6
    <2> QED
      BY <1>1, <1>3, <1>5, <2>1
  <1>8. NextTerm = todo[k + 1] /\ todo[k + 1] \in R
    BY <1>3, <1>5, <1>7 DEF NextTerm
  <1>9. NextTerm \in dns
    <2>1. \A x \in due("one") \cup due("many") : x.kind # "dn"
      OBVIOUS
    <2>2. R \subseteq due("one") \cup due("many") \cup dns
      BY <1>4
    <2> HIDE DEF due, dns
    <2> QED
      BY <1>8, <2>1, <2>2
  <1>10. \A x \in dns : dn.active /\ x.of.from = 0 /\ x.of.count = dn.num_dn
    BY DEF DnOf
  <1> QED
    BY <1>9, <1>10

\* What the property says of an image of T objects, in the words of its layout.
GroupIn(d, q) == IF q < d.num_dn THEN q \div d.gw + 1 ELSE 0

RightQueries(d, b, o) ==
  \A q \in 0..d.num_dn - 1 :
    LET made == d.dn_ref[b][q]
        held == IF made.near THEN {made.of} ELSE {}
    IN  /\ MatchedTo(o.match, q) = held
        /\ o.classes[q] = IF made.near THEN made.of ELSE Background

RightObjects(d, T, o) ==
  \A t \in 1..T : \A g \in 1..d.groups :
    Cardinality({q \in 0..d.num_dn - 1 : GroupIn(d, q) = g /\ <<q, t>> \in o.match}) = 1

\* What the property says of a term.
RightTerm(d, images, x) ==
  x.kind = "dn" =>
    /\ x.of.from = 0 /\ x.of.count = d.num_dn
    /\ \A b \in DOMAIN images : RightQueries(d, b, x.images[b])
    /\ \A b \in DOMAIN images : RightObjects(d, Len(images[b]), x.images[b])

\* Every image of a denoising term is taught what it should be.
LEMMA RebuiltImage ==
  ASSUME TaughtInv, DnMade, dn.active, NEW b \in Images,
         NEW o \in Outcomes("dn", b, dn.num_dn)
  PROVE  RightQueries(dn, b, o) /\ RightObjects(dn, Len(job.images[b]), o)
  <1>1. PICK d : d = dn
    OBVIOUS
  <1>2. PICK images : images = job.images
    OBVIOUS
  <1>3. /\ DOMAIN images # {} /\ (\A i \in DOMAIN images : Len(images[i]) \in 0..MaxObjects)
        /\ MaxObjects \in Nat /\ job.dn_number \in Int /\ job.contrastive \in BOOLEAN
    BY <1>2, JobsAssumption DEF TaughtInv
  <1>4. PICK m \in Nat : m = MaxObjects
    BY <1>3
  <1>5. PICK G \in Int : G = job.dn_number
    BY <1>3
  <1>6. PICK c \in BOOLEAN : c = job.contrastive
    BY <1>3
  <1>7. d = MakeDenoising(images, G, c) /\ d.active
    BY <1>1, <1>2, <1>5, <1>6 DEF DnMade
  <1>8. /\ d.gw \in Nat \ {0} /\ d.groups \in Nat /\ d.num_dn = d.groups * d.gw
        /\ \A i \in DOMAIN images : SlotsFit(d, i, Len(images[i]))
    BY <1>3, <1>4, <1>7, MadeSlots
  <1>9. b \in DOMAIN images
    BY <1>2 DEF Images
  <1>9a. SlotsFit(d, b, Len(images[b]))
    BY <1>8, <1>9
  <1>10. PICK w \in Nat \ {0} : w = d.gw
    BY <1>8
  <1>11. PICK K \in Nat : K = d.groups
    BY <1>8
  <1>12. PICK n \in Nat : n = d.num_dn /\ n = K * w
    BY <1>8, <1>10, <1>11
  <1>13. PICK T \in Nat : T = Len(images[b]) /\ T <= w
    BY <1>9a, <1>10 DEF SlotsFit
  <1>14. PICK h : h = d.tgt_index[b]
    OBVIOUS
  <1>15. /\ HeldBySlot(h, n, K, w, T)
         /\ \A q \in 0..n - 1 : /\ d.dn_ref[b][q].near <=> h[q] # 0
                                /\ d.dn_ref[b][q].near => d.dn_ref[b][q].of = h[q]
    BY <1>9a, <1>10, <1>11, <1>12, <1>13, <1>14 DEF SlotsFit
  <1>16. PICK match : match = PairsOf(h, n)
    OBVIOUS
  <1>17. MatchesOf("dn", b, n) = {match}
    BY <1>1, <1>9a, <1>12, <1>14, <1>16 DEF MatchesOf, SlotsFit
  <1>18. o.match = match /\ o.classes \in TargetClasses(match, n)
    <2>1. Outcomes("dn", b, n) = UNION {{[match |-> x, classes |-> y] : y \in TargetClasses(x, n)} : x \in {match}}
      BY <1>17 DEF Outcomes
    <2>2. o \in {[match |-> match, classes |-> y] : y \in TargetClasses(match, n)}
      BY <1>1, <1>12, <2>1
    <2> QED
      BY <2>2
  <1>19. \A q \in 0..n - 1 : h[q] \in Nat
    BY <1>15 DEF HeldBySlot
  <1>20. \A q \in 0..n - 1 : MatchedTo(match, q) = IF h[q] > 0 THEN {h[q]} ELSE {}
    BY <1>16, <1>19, MatchedToPairs
  <1>21. PICK y : y = o.classes
    OBVIOUS
  <1>22. \A q \in 0..n - 1 : y[q] = h[q]
    <2>1. y \in TargetClasses(match, n)
      BY <1>18, <1>21
    <2> QED
      BY <1>16, <1>19, <2>1, ClassesOfPairs
  <1>23. ASSUME NEW q \in 0..dn.num_dn - 1
         PROVE  LET made == dn.dn_ref[b][q]
                    held == IF made.near THEN {made.of} ELSE {}
                IN  /\ MatchedTo(o.match, q) = held
                    /\ o.classes[q] = IF made.near THEN made.of ELSE Background
    <2>1. q \in 0..n - 1
      BY <1>1, <1>12
    <2>2. CASE h[q] = 0
      <3>1. ~dn.dn_ref[b][q].near
        BY <1>1, <1>15, <2>1, <2>2
      <3>2. MatchedTo(match, q) = {} /\ y[q] = 0
        BY <1>20, <1>22, <2>1, <2>2
      <3> QED
        BY <1>18, <1>21, <3>1, <3>2 DEF Background
    <2>3. CASE h[q] # 0
      <3>1. dn.dn_ref[b][q].near /\ dn.dn_ref[b][q].of = h[q]
        BY <1>1, <1>15, <2>1, <2>3
      <3>2. MatchedTo(match, q) = {h[q]} /\ y[q] = h[q]
        BY <1>19, <1>20, <1>22, <2>1, <2>3
      <3> QED
        BY <1>18, <1>21, <3>1, <3>2
    <2> QED
      BY <2>2, <2>3
  <1>24. ASSUME NEW t \in 1..T, NEW g \in 1..dn.groups
         PROVE  Cardinality({q \in 0..dn.num_dn - 1 : GroupIn(dn, q) = g /\ <<q, t>> \in o.match}) = 1
    <2>1. g \in 1..K
      BY <1>1, <1>11
    <2>2. OneIn(h, n, w, g, t)
      BY <1>12, <1>13, <1>15, <2>1, OnePerGroup
    <2>3. \A q \in 0..n - 1 : GroupIn(dn, q) = GroupOf(q, w)
      BY <1>1, <1>10, <1>12 DEF GroupIn, GroupOf
    <2>4. {q \in 0..dn.num_dn - 1 : GroupIn(dn, q) = g /\ <<q, t>> \in o.match}
            = {q \in 0..n - 1 : GroupOf(q, w) = g /\ <<q, t>> \in PairsOf(h, n)}
      BY <1>1, <1>12, <1>16, <1>18, <2>3
    <2> QED
      BY <2>2, <2>4 DEF OneIn
  <1>25. Len(job.images[b]) = T
    BY <1>2, <1>13
  <1>26. RightQueries(dn, b, o)
    BY <1>23 DEF RightQueries
  <1>27. RightObjects(dn, T, o)
    BY <1>24 DEF RightObjects
  <1> QED
    BY <1>25, <1>26, <1>27

\* The property in these words, before a step and after it.
LEMMA RightIsRebuilt ==
  /\ ReconstructsItsOwnObject <=> RightTerm(dn, job.images, term)
  /\ ReconstructsItsOwnObject' <=> RightTerm(dn', job'.images, term')
  <1>1. ReconstructsItsOwnObject <=> RightTerm(dn, job.images, term)
    BY DEF ReconstructsItsOwnObject, RightTerm, RightQueries, RightObjects, Images, Objects, GroupAt, GroupIn
  <1>2. ReconstructsItsOwnObject' <=> RightTerm(dn', job'.images, term')
    BY DEF ReconstructsItsOwnObject, RightTerm, RightQueries, RightObjects, Images, Objects, GroupAt, GroupIn
  <1> QED
    BY <1>1, <1>2

\* An action that leaves the batch, its denoising queries and the term alone.
LEMMA SameTerm ==
  ASSUME RebuildInv, job' = job, dn' = dn, term' = term,
         pc' \in Forward => pc \in Forward
  PROVE  RebuildInv'
  <1>1. DnMade'
    BY DEF RebuildInv, DnMade
  <1>2. ReconstructsItsOwnObject'
    BY RightIsRebuilt DEF RebuildInv
  <1> QED
    BY <1>1, <1>2 DEF RebuildInv

\* RebuildInv is inductive.
LEMMA InitRebuild == Init => RebuildInv
  BY DEF Init, RebuildInv, DnMade, ReconstructsItsOwnObject, NoDenoising, NoTerm

LEMMA DenoiseRebuild == ASSUME TaughtInv, RebuildInv, Denoise PROVE RebuildInv'
  <1>1. /\ job' = job /\ pc' = "encode" /\ term' = NoTerm
        /\ \/ dn' = MakeDenoising(job.images, job.dn_number, job.contrastive)
           \/ dn' = NoDenoising
    BY DEF Denoise, RebuildInv, Forward
  <1>2. DnMade'
    BY <1>1 DEF DnMade, NoDenoising
  <1>3. ReconstructsItsOwnObject'
    BY <1>1 DEF ReconstructsItsOwnObject, NoTerm
  <1> QED
    BY <1>1, <1>2, <1>3 DEF RebuildInv

LEMMA ComputeRebuild == ASSUME TaughtInv, RebuildInv, Compute PROVE RebuildInv'
  <1>1. job' = job /\ dn' = dn /\ pc = "loss" /\ pc' = "loss" /\ DnMade
    BY DEF Compute, RebuildInv
  <1>2. PICK next : next = NextTerm
    OBVIOUS
  <1>3. PICK outcome : /\ \A b \in Images : outcome[b] \in Outcomes(next.kind, b, next.of.count)
                       /\ term' = [kind |-> next.kind, of |-> next.of, images |-> outcome]
    BY <1>2 DEF Compute
  <1>4. term'.kind = next.kind /\ term'.of = next.of /\ term'.images = outcome
    BY <1>3
  <1>5. DnMade'
    BY <1>1 DEF DnMade
  <1>6. ASSUME term'.kind = "dn" PROVE ReconstructsItsOwnObject'
    <2>1. next.kind = "dn"
      BY <1>4, <1>6
    <2>2. dn.active /\ next.of.from = 0 /\ next.of.count = dn.num_dn
      BY <1>1, <1>2, <2>1, DnTerms
    <2>3. ASSUME NEW b \in DOMAIN job.images
          PROVE  RightQueries(dn, b, outcome[b]) /\ RightObjects(dn, Len(job.images[b]), outcome[b])
      <3>1. b \in Images
        BY DEF Images
      <3>2. outcome[b] \in Outcomes("dn", b, dn.num_dn)
        BY <1>3, <2>1, <2>2, <3>1
      <3>3. PICK o : o = outcome[b]
        OBVIOUS
      <3>4. o \in Outcomes("dn", b, dn.num_dn)
        BY <3>2, <3>3
      <3> QED
        BY <1>1, <2>2, <3>1, <3>3, <3>4, RebuiltImage
    <2>4. RightTerm(dn, job.images, term')
      BY <1>4, <2>2, <2>3 DEF RightTerm
    <2> QED
      BY <1>1, <2>4, RightIsRebuilt
  <1>7. ReconstructsItsOwnObject'
    BY <1>6 DEF ReconstructsItsOwnObject
  <1> QED
    BY <1>1, <1>5, <1>7 DEF RebuildInv, Forward

\* The other actions leave the term as it is.
LEMMA OthersRebuild ==
  ASSUME RebuildInv,
         [\/ Encoder \/ Select \/ DecoderLayer \/ LayerOutput \/ FinalOutput \/ Mismatch \/ Backward]_vars
  PROVE  RebuildInv'
  <1>1. /\ job' = job /\ dn' = dn /\ term' = term
        /\ pc' \in Forward => pc \in Forward
    BY DEF Encoder, Select, DecoderLayer, LayerOutput, FinalOutput, Mismatch, Backward, vars, Forward
  <1> QED
    BY <1>1, SameTerm

LEMMA NextRebuild == TaughtInv /\ RebuildInv /\ [Next]_vars => RebuildInv'
  BY DenoiseRebuild, ComputeRebuild, OthersRebuild DEF Next

(* Whatever the objects of the images, the groups and the kind of noise, a  *)
(* denoising query is taught the object its box was made of, or background. *)
(* (MakeDenoising's layout, BuildDnMatches, Compute, the split of outputs.) *)
THEOREM ObjectsRebuilt == Spec => []ReconstructsItsOwnObject
  <1>1. Init => TaughtInv /\ RebuildInv
    BY InitTaught, InitRebuild
  <1>2. TaughtInv /\ RebuildInv /\ [Next]_vars => (TaughtInv /\ RebuildInv)'
    BY NextTaught, NextRebuild
  <1>3. RebuildInv => ReconstructsItsOwnObject
    BY DEF RebuildInv
  <1> QED
    BY <1>1, <1>2, <1>3, PTL DEF Spec
==============================================================================
