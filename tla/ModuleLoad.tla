------------------------------ MODULE ModuleLoad -----------------------------
(***************************************************************************)
(* How the tensors of a StateDict reach the parameters of a network:       *)
(* WeightRemapper (src/weights/remapper.cpp), the rules of the networks    *)
(* that have some, and one turn of the loop of LoadStateDictInto           *)
(* (torch_bridge.cpp). A name is the sequence of its dotted parts.         *)
(***************************************************************************)
EXTENDS SequencesExt, StateDicts

(* A rule. Its pattern is a sequence of sets of parts; a replacement keeps *)
(* the first parts of what it matched (its $1) and puts "to" after them.   *)
Rule(kind, pat, keep, to) == [kind |-> kind, pat |-> pat, keep |-> keep, to |-> to]

Word(s) == [k \in DOMAIN s |-> {s[k]}]
Digit == {"0", "1", "2"}

Drop(pat)               == Rule("drop_any", pat, 0, <<>>)
DropFrom(pat)           == Rule("drop_start", pat, 0, <<>>)
DropName(pat)           == Rule("drop_whole", pat, 0, <<>>)
ReplaceEach(pat, to)     == Rule("replace_any", pat, 0, to)
ReplaceFrom(pat, n, to) == Rule("replace_start", pat, n, to)

\* DetrResNetImpl::UpstreamRemapper; "box" says where the layers of the box
\* head go, which upstream numbers without the activations between them.
R50RulesTo(box) ==
  << Drop(Word(<<"num_batches_tracked">>)),
     ReplaceFrom(Word(<<"backbone", "0", "body">>), 0, <<"backbone">>),
     ReplaceFrom(Word(<<"transformer", "encoder", "layers">>), 0, <<"encoder">>),
     ReplaceFrom(Word(<<"transformer", "decoder", "norm">>), 0, <<"decoder_norm">>),
     ReplaceFrom(Word(<<"transformer", "decoder", "layers">>), 0, <<"decoder">>),
     ReplaceEach(Word(<<"multihead_attn">>), <<"cross_attn">>),
     ReplaceEach(Word(<<"bbox_embed", "layers", "0">>), <<"bbox_embed", box[1]>>),
     ReplaceEach(Word(<<"bbox_embed", "layers", "1">>), <<"bbox_embed", box[2]>>),
     ReplaceEach(Word(<<"bbox_embed", "layers", "2">>), <<"bbox_embed", box[3]>>) >>

DetrR50RulesSwapped == R50RulesTo(<<"2", "0", "4">>)
DetrR50Rules == R50RulesTo(<<"0", "2", "4">>)

\* DFineImpl::UpstreamRemapper; a middle of any length is one "bn" here. The
\* counters of the neck are parameters of ours, those of the backbone are not.
DFineRules ==
  << DropName(Word(<<"backbone", "bn", "num_batches_tracked">>)),
     ReplaceFrom(<<{"encoder"}, {"downsample_convs"}, Digit, {"0"}>>, 3, <<>>),
     DropName(<<{"decoder"}, {"up", "reg_scale"}>>),
     DropName(<<{"decoder"}, {"decoder"}, {"up", "reg_scale"}>>),
     DropName(<<{"decoder"}, {"anchors", "valid_mask"}>>),
     DropFrom(Word(<<"decoder", "denoising_class_embed">>)) >>

RulesOf(model) == CASE model = "detr-r50" -> DetrR50Rules
                    [] model = "dfine-n"  -> DFineRules
                    [] OTHER -> <<>>

-----------------------------------------------------------------------------
(* Map *)

Fits(name, i, pat) == /\ i + Len(pat) - 1 <= Len(name)
                      /\ \A k \in DOMAIN pat : name[i + k - 1] \in pat[k]

Places(rule, name) ==
  CASE rule.kind \in {"drop_any", "replace_any"}     -> DOMAIN name
    [] rule.kind \in {"drop_start", "replace_start"} -> {1}
    [] rule.kind = "drop_whole" -> {i \in {1} : Len(rule.pat) = Len(name)}

Hits(rule, name) == {i \in Places(rule, name) : Fits(name, i, rule.pat)}

IsDrop(rule) == rule.kind \in {"drop_any", "drop_start", "drop_whole"}

\* regex_replace: every hit, from the left, that does not overlap the last one.
Replaced(rule, name) ==
  LET from[i \in 1 .. Len(name) + Len(rule.pat)] ==
        IF i > Len(name) THEN <<>>
        ELSE IF i \in Hits(rule, name)
             THEN SubSeq(name, i, i + rule.keep - 1) \o rule.to \o from[i + Len(rule.pat)]
             ELSE <<name[i]>> \o from[i + 1]
  IN  from[1]

Dropped == <<>>

ApplyRule(rule, name) ==
  IF name = Dropped THEN Dropped
  ELSE IF IsDrop(rule) THEN IF Hits(rule, name) = {} THEN name ELSE Dropped
  ELSE Replaced(rule, name)

\* The rules, each on what the one before it made.
Map(rules, name) == FoldLeft(LAMBDA n, rule : ApplyRule(rule, n), name, rules)

-----------------------------------------------------------------------------
(* Apply *)

\* WeightRemapper::Apply
Placed(out, name, t) == IF name = Dropped THEN out ELSE Set(out, name, t)

Apply(rules, sd) ==
  LET out[k \in 0 .. Len(sd)] ==
        IF k = 0 THEN <<>> ELSE Placed(out[k - 1], Map(rules, sd[k][1]), sd[k][2])
  IN  out[Len(sd)]

-----------------------------------------------------------------------------
(* LoadStateDictInto, not strict: where one key goes, and the report. *)

NoReport == [loaded |-> {}, missing |-> {}, unexpected |-> {}, mismatched |-> {}]

IsUnexpected(module, e) == e[1] \notin DOMAIN module
IsMismatched(module, e) == /\ e[1] \in DOMAIN module
                           /\ module[e[1]].shape # e[2].shape

Loads(module, e) == ~IsUnexpected(module, e) /\ ~IsMismatched(module, e)

Copied(module, e) ==
  IF Loads(module, e) THEN [module EXCEPT ![e[1]] = e[2]] ELSE module

UsedWhenNamed(module, report, e) ==
  [report EXCEPT
     !.unexpected = @ \cup {n \in {e[1]} : IsUnexpected(module, e)},
     !.mismatched = @ \cup {n \in {e[1]} : IsMismatched(module, e)},
     !.loaded     = @ \cup {n \in {e[1]} : ~IsUnexpected(module, e)}]

Reported(module, report, e) ==
  [report EXCEPT
     !.unexpected = @ \cup {n \in {e[1]} : IsUnexpected(module, e)},
     !.mismatched = @ \cup {n \in {e[1]} : IsMismatched(module, e)},
     !.loaded     = @ \cup {n \in {e[1]} : Loads(module, e)}]

WithMissing(module, report) ==
  [report EXCEPT !.missing = DOMAIN module \ report.loaded]
=============================================================================
