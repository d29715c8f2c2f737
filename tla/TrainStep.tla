------------------------------ MODULE TrainStep ------------------------------
(***************************************************************************)
(* A batch through a model: the forward every caller runs, and what        *)
(* Trainer::TrainStep makes of it -- the denoising queries before, the     *)
(* terms of the loss after, one by one in the order they are added.  The   *)
(* values of tensors are not modelled, so every cost can be any: a match   *)
(* is any the matcher can give.  The optimizer and the EMA after the loss  *)
(* are TrainingRun's.                                                      *)
(***************************************************************************)
EXTENDS Models, Denoising

CONSTANTS
  Jobs,       \* [net, h, w, training, images, dn_number, contrastive]
  MaxObjects  \* no image of a job has more

ASSUME JobsAssumption ==
  /\ MaxObjects \in Nat
  /\ \A j \in Jobs : /\ j.dn_number \in Int /\ j.contrastive \in BOOLEAN
                     /\ j.net.num_queries \in Nat
                     /\ j.net.dec_layers \in Int
                     /\ DOMAIN j.images # {}
                     /\ \A b \in DOMAIN j.images : Len(j.images[b]) \in 0..MaxObjects

VARIABLES
  job,
  pc,      \* "denoise", "encode", "select", "decode", "heads", "loss", "done" or "threw"
  dn,      \* DenoisingInput and DnLayout
  levels,  \* the memory
  tgt,     \* the block of queries, the denoising ones first
  layer,   \* decoder layers run
  seen,    \* per query: the groups it has information of (0: the matching queries)
  det,     \* Detections: the final output and the auxiliary ones
  dn_out,  \* DenoisingOut, likewise
  term,    \* the term of the loss added last
  terms    \* the kind and layer of those added so far

vars == <<job, pc, dn, levels, tgt, layer, seen, det, dn_out, term, terms>>

net == job.net
NoTerm == [kind |-> "none"]
NoOutput == [active |-> FALSE]

Init ==
  /\ job \in Jobs
  /\ pc = "denoise" /\ dn = NoDenoising /\ levels = <<>> /\ tgt = Threw /\ layer = 0 /\ seen = <<>>
  /\ det = NoOutput /\ dn_out = NoOutput /\ term = NoTerm /\ terms = <<>>

------------------------------------------------------------------------------
(* The forward.                                                             *)

(* Only a model that supports it, in training, gets denoising queries.      *)
Denoise ==
  /\ pc = "denoise"
  /\ dn' = IF job.training /\ net.denoising /\ job.dn_number > 0
           THEN MakeDenoising(job.images, job.dn_number, job.contrastive) ELSE NoDenoising
  /\ pc' = "encode"
  /\ UNCHANGED <<job, levels, tgt, layer, seen, det, dn_out, term, terms>>

Encoder ==
  /\ pc = "encode"
  /\ levels' = Encode(net, Map(3, job.h, job.w))
  /\ pc' = IF \E i \in DOMAIN levels' : levels'[i] = Threw THEN "threw" ELSE "select"
  /\ UNCHANGED <<job, dn, tgt, layer, seen, det, dn_out, term, terms>>

Images == DOMAIN job.images
Objects(b) == 1..Len(job.images[b])

(* CostMatrix selects the column of every label, label_enc the row.         *)
LabelsFit == \A b \in Images : \A t \in Objects(b) : job.images[b][t] < ClassWidth(net)
LabelsEmbed == \A b \in Images : \A t \in Objects(b) : job.images[b][t] <= net.num_classes

(* topk refuses to choose more queries than there are tokens.  The group of *)
(* a query is the position it has in the block of denoising queries.        *)
GroupAt(q) == IF q < dn.num_dn THEN q \div dn.gw + 1 ELSE 0

Select ==
  /\ pc = "select"
  /\ IF (TwoStage(net) /\ Tokens(levels) < net.num_queries) \/ (dn.active /\ ~LabelsEmbed)
     THEN pc' = "threw" /\ UNCHANGED <<tgt, seen>>
     ELSE /\ pc' = "decode"
          /\ tgt' = Map(net.hidden_dim, dn.num_dn + net.num_queries, 1)
          /\ seen' = IF dn.active THEN [q \in 0..dn.num_dn + net.num_queries - 1 |-> {GroupAt(q)}] ELSE <<>>
  /\ UNCHANGED <<job, dn, levels, layer, det, dn_out, term, terms>>

(* A slice of the queries as the layer that has just run gives it           *)
Slice(from, count) == [layer |-> layer, from |-> from, count |-> count]
MatchingSlice == Slice(dn.num_dn, net.num_queries)
DnSlice == Slice(0, dn.num_dn)

Unmasked(q) == {k \in DOMAIN seen : ~Blocked(dn, q, k)}

DecoderLayer ==
  /\ pc = "decode" /\ layer < net.dec_layers
  /\ tgt' = LayerOf(net, tgt, levels)
  /\ layer' = layer + 1
  /\ seen' = IF dn.active THEN [q \in DOMAIN seen |-> seen[q] \cup UNION {seen[k] : k \in Unmasked(q)}]
                          ELSE <<>>
  /\ pc' = IF tgt' = Threw THEN "threw" ELSE "heads"
  /\ UNCHANGED <<job, dn, levels, det, dn_out, term, terms>>

(* In training the output of every layer but the last is auxiliary.         *)
CollectAux == job.training /\ DeepSupervised(net)

Aux(out) == IF out.active THEN out.aux ELSE <<>>

Pushed(out, slice) == [active |-> TRUE, aux |-> Append(Aux(out), slice)]

(* Mutant: the denoising outputs of the layers before the last are dropped. *)
LayerOutputMatchingOnly ==
  /\ pc = "heads" /\ layer < net.dec_layers
  /\ det' = IF CollectAux THEN Pushed(det, MatchingSlice) ELSE det
  /\ pc' = "decode"
  /\ UNCHANGED <<job, dn, levels, tgt, layer, seen, dn_out, term, terms>>

LayerOutput ==
  /\ pc = "heads" /\ layer < net.dec_layers
  /\ det' = IF CollectAux THEN Pushed(det, MatchingSlice) ELSE det
  /\ dn_out' = IF CollectAux /\ dn.active THEN Pushed(dn_out, DnSlice) ELSE dn_out
  /\ pc' = "decode"
  /\ UNCHANGED <<job, dn, levels, tgt, layer, seen, term, terms>>

FinalOutput ==
  /\ pc = "heads" /\ layer = net.dec_layers
  /\ det' = [active |-> TRUE, aux |-> Aux(det), final |-> MatchingSlice]
  /\ dn_out' = IF dn.active THEN [active |-> TRUE, aux |-> Aux(dn_out), final |-> DnSlice] ELSE NoOutput
  /\ pc' = IF job.training THEN "loss" ELSE "done"
  /\ UNCHANGED <<job, dn, levels, tgt, layer, seen, term, terms>>

------------------------------------------------------------------------------
(* The loss.                                                                *)

(* The terms: the final output, the auxiliary ones; with dense supervision  *)
(* the same outputs again, one to many; the denoising outputs.              *)
Of(kind, slices) == [i \in DOMAIN slices |-> [kind |-> kind, of |-> slices[i]]]
TermsOf(kind, out) == Of(kind, <<out.final>> \o out.aux)

Todo ==
  TermsOf("one", det)
  \o (IF net.dense_o2m_k > 0 THEN TermsOf("many", det) ELSE <<>>)
  \o (IF dn_out.active THEN TermsOf("dn", dn_out) ELSE <<>>)

NextTerm == Todo[Len(terms) + 1]

(* HungarianMatch: as many pairs as there can be, no query and no object    *)
(* twice, the cheapest of these -- and any of these can be.                 *)
HungarianMatches(b, queries) ==
  LET pairs == [Objects(b) -> 0..queries - 1]
      size == IF Len(job.images[b]) < queries THEN Len(job.images[b]) ELSE queries
      Injective(f, T) == \A t, u \in T : f[t] = f[u] => t = u
  IN  UNION {{{<<f[t], t>> : t \in T} : f \in {g \in pairs : Injective(g, T)}} :
               T \in {U \in SUBSET Objects(b) : Cardinality(U) = size}}

(* OneToManyMatch: each object its k cheapest queries                       *)
OneToManyMatches(b, queries, k) ==
  LET kk == IF k < queries THEN k ELSE queries
      choices == {Q \in SUBSET (0..queries - 1) : Cardinality(Q) = kk}
  IN  {UNION {{<<q, t>> : q \in f[t]} : t \in Objects(b)} : f \in [Objects(b) -> choices]}

MatchesOf(kind, b, queries) ==
  CASE kind = "one" -> HungarianMatches(b, queries)
    [] kind = "many" -> OneToManyMatches(b, queries, net.dense_o2m_k)
    [] kind = "dn" -> {BuildDnMatches(dn)[b]}

(* SetCriterion::Compute.  A query is taught the label of the object it is  *)
(* matched to, or background; where it has several, any of them: which of   *)
(* the equal indices index_copy_ writes last is not defined.                *)
Background == 0
MatchedTo(match, q) == {t \in {p[2] : p \in match} : <<q, t>> \in match}

TargetClasses(match, queries) ==
  LET contested == {q \in 0..queries - 1 : Cardinality(MatchedTo(match, q)) > 1}
      choices == {f \in [contested -> {p[2] : p \in match}] : \A q \in contested : f[q] \in MatchedTo(match, q)}
  IN  {[q \in 0..queries - 1 |->
          CASE q \in contested -> f[q]
            [] MatchedTo(match, q) = {} -> Background
            [] OTHER -> CHOOSE t \in MatchedTo(match, q) : TRUE] : f \in choices}

Outcomes(kind, b, queries) ==
  UNION {{[match |-> match, classes |-> c] : c \in TargetClasses(match, queries)} :
           match \in MatchesOf(kind, b, queries)}

Mismatch ==
  /\ pc = "loss" /\ Len(terms) < Len(Todo)
  /\ ~LabelsFit
  /\ pc' = "threw"
  /\ UNCHANGED <<job, dn, levels, tgt, layer, seen, det, dn_out, term, terms>>

Compute ==
  /\ pc = "loss" /\ Len(terms) < Len(Todo)
  /\ LabelsFit
  /\ \E outcome \in [Images -> UNION {Outcomes(NextTerm.kind, b, NextTerm.of.count) : b \in Images}] :
       /\ \A b \in Images : outcome[b] \in Outcomes(NextTerm.kind, b, NextTerm.of.count)
       /\ term' = [kind |-> NextTerm.kind, of |-> NextTerm.of, images |-> outcome]
  /\ terms' = Append(terms, NextTerm)
  /\ UNCHANGED <<job, pc, dn, levels, tgt, layer, seen, det, dn_out>>

Backward ==
  /\ pc = "loss" /\ Len(terms) = Len(Todo)
  /\ pc' = "done"
  /\ UNCHANGED <<job, dn, levels, tgt, layer, seen, det, dn_out, term, terms>>

Next == \/ Denoise \/ Encoder \/ Select \/ DecoderLayer \/ LayerOutput \/ FinalOutput
        \/ Mismatch \/ Compute \/ Backward

Spec == Init /\ [][Next]_vars

------------------------------------------------------------------------------
(* The property of the sizes.                                               *)

Eighths(n) == CeilDiv(n, 8)
Sixteenths(n) == CeilDiv(n, 16)

(* What an extent of the image must be, of every family of necks            *)
ExtentRuns(n) ==
  CASE net.family = "rt_detr" -> Eighths(n) % 4 = 0
    [] net.family = "rf_detr" -> n >= net.patch
    [] net.family = "rf_real" -> n \div 16 > 0 /\ (n \div 16) % net.vit.windows = 0
    [] net.family = "dfine" /\ net.sta # <<>> -> n % 32 = 0
    [] net.family = "dfine" /\ net.sta = <<>> /\ net.decoder_deimv2 ->
         Sixteenths(n) % 2 = 0 \/ Sixteenths(n) = 1
    [] net.family = "dfine" /\ net.sta = <<>> /\ ~net.decoder_deimv2 ->
         IF net.num_levels = 2 THEN Sixteenths(n) % 2 = 0 ELSE Eighths(n) % 4 = 0
    [] OTHER -> TRUE

ImageRuns == ExtentRuns(job.h) /\ ExtentRuns(job.w)

EnoughTokens == TwoStage(net) => Tokens(levels) >= net.num_queries

(* A batch runs to its end when the image has a size at which the model's   *)
(* pyramid fits together, with as many tokens as the model chooses queries, *)
(* and no label is beyond the class head.  It throws otherwise, and no      *)
(* other view, sum, concatenation or product of a registered model fails.   *)
(* (Encode of every model, RunCore's topk, CostMatrix's index_select.)      *)
SizesThatRun ==
  /\ pc = "done" => ImageRuns /\ EnoughTokens /\ (job.training => LabelsFit)
  /\ pc = "threw" => \/ ~ImageRuns
                     \/ layer = 0 /\ (\A i \in DOMAIN levels : levels[i] # Threw) /\ ~EnoughTokens
                     \/ job.training /\ ~LabelsFit

(* Every registered model runs at the size the CLI defaults to and at its   *)
(* own.  (main.cpp's --imgsz of 640; the imgsz of every Meta.)              *)
EveryModelTakesItsSize ==
  pc = "threw" => job.h # job.w \/ job.h \notin {640, net.imgsz} \/ job.training

------------------------------------------------------------------------------
(* The properties of the denoising and of the loss.                         *)

(* After any number of decoder layers, nothing of an object's noised boxes  *)
(* has reached a matching query, nor a group of denoising queries another:  *)
(* the model cannot read the answer off the queries it is given.            *)
(* (MakeDenoising's attn_mask, through every layer of the decoder.)         *)
DnLeaksNothing == \A q \in DOMAIN seen : seen[q] = {GroupAt(q)}

(* A denoising query that stands near an object is held against that very   *)
(* object, box and class; a contrastive negative and the padding of an      *)
(* image with fewer objects are background.  (MakeDenoising's layout,       *)
(* BuildDnMatches and Compute; the slice the outputs are split at.)         *)
ReconstructsItsOwnObject ==
  term.kind = "dn" =>
    /\ term.of.from = 0 /\ term.of.count = dn.num_dn
    /\ \A b \in Images, q \in 0..dn.num_dn - 1 :
         LET made == dn.dn_ref[b][q]
             held == IF made.near THEN {made.of} ELSE {}
         IN  /\ MatchedTo(term.images[b].match, q) = held
             /\ term.images[b].classes[q] = IF made.near THEN made.of ELSE Background
    /\ \A b \in Images : \A t \in Objects(b) :
         \A g \in 1..dn.groups :
           Cardinality({q \in 0..dn.num_dn - 1 :
             GroupAt(q) = g /\ <<q, t>> \in term.images[b].match}) = 1

(* When the loss is complete, every supervised layer of the decoder has     *)
(* been taught once by each kind of supervision the model has, over the     *)
(* matching queries or over the denoising ones, and no other output has.    *)
(* (TrainStep's loops over aux_logits and dn_aux_logits.)                   *)
EveryLayerTaughtOnce ==
  pc = "done" /\ job.training =>
    LET supervised == IF DeepSupervised(net) THEN 1..net.dec_layers ELSE {net.dec_layers}
        matching == {"one"} \cup (IF net.dense_o2m_k > 0 THEN {"many"} ELSE {})
        Over(l, from, count) == [layer |-> l, from |-> from, count |-> count]
        due == {[kind |-> k, of |-> Over(l, dn.num_dn, net.num_queries)] : k \in matching, l \in supervised}
               \cup IF dn.active THEN {[kind |-> "dn", of |-> Over(l, 0, dn.num_dn)] : l \in supervised}
                                 ELSE {}
    IN  /\ {terms[i] : i \in DOMAIN terms} = due
        /\ Len(terms) = Cardinality(due)
==============================================================================
