------------------------------- MODULE CocoEval ------------------------------
(***************************************************************************)
(* The COCO metric of src/eval/coco_eval.cpp as operators. An IoU is one   *)
(* of a few levels that each detection brings for each object of its       *)
(* image; precision, recall and recall thresholds count in 1/Unit, Unit    *)
(* being divided by every count of an instance, so they are exact.         *)
(***************************************************************************)
EXTENDS Selections, SequencesExt

CONSTANTS IouThrs,   \* the levels that count as a match, rising
          AreaRng,   \* area ranges <<lowest, highest>>
          MaxDets,   \* detections per image that count, rising
          RecThrs,   \* recall thresholds in 1/Unit, rising
          Unit

Undefined == -1

\* IouDtGt
Iou(dt, gt) == dt.iou[gt.obj]

OutOf(area, rng) == area < rng[1] \/ area > rng[2]
GtIgnored(gt, rng) == gt.iscrowd \/ OutOf(gt.area, rng)

AsTheyCome(gts, rng) == gts

\* The objects that count first, otherwise as they come.
RegularFirst(gts, rng) == Among(gts, {g \in DOMAIN gts : ~GtIgnored(gts[g], rng)})
                          \o Among(gts, {g \in DOMAIN gts : GtIgnored(gts[g], rng)})

\* stable_sort
ByScore(s) == SortedBy(s, [i \in DOMAIN s |-> -s[i].score])

\* One detection's turn through the objects: the last of the best IoU, but
\* no ignored object once a regular one is found. 0 is no match.
Look(s, g, dt, gts, taken, rng) ==
  IF s.done \/ (g \in taken /\ ~gts[g].iscrowd) THEN s
  ELSE IF /\ s.match # 0 /\ ~GtIgnored(gts[s.match], rng)
          /\ GtIgnored(gts[g], rng)
       THEN [best |-> s.best, match |-> s.match, done |-> TRUE]
  ELSE IF Iou(dt, gts[g]) < s.best THEN s
  ELSE [best |-> Iou(dt, gts[g]), match |-> g, done |-> FALSE]

BestMatch(dt, gts, taken, thr, rng) ==
  LET turn[g \in 0 .. Len(gts)] ==
        IF g = 0 THEN [best |-> thr, match |-> 0, done |-> FALSE]
        ELSE Look(turn[g - 1], g, dt, gts, taken, rng)
  IN  turn[Len(gts)].match

\* The matches at one threshold, detection by detection.
Matches(dts, gts, thr, rng) ==
  LET match[d \in DOMAIN dts] ==
        BestMatch(dts[d], gts, {match[b] : b \in 1 .. d - 1}, thr, rng)
  IN  match

FirstOf(s, n) == SubSeq(s, 1, IF Len(s) < n THEN Len(s) ELSE n)

\* EvaluateImg; "match" keeps which object it was, the code only whether.
EvaluateImg(gts, dts, rng) ==
  LET sorted == RegularFirst(gts, rng)
      kept   == FirstOf(dts, MaxDets[Len(MaxDets)])
      match  == [t \in DOMAIN IouThrs |-> Matches(kept, sorted, IouThrs[t], rng)]
  IN  [valid  |-> gts # <<>> \/ dts # <<>>,
       gts    |-> sorted, dts |-> kept, match |-> match,
       ignore |-> [t \in DOMAIN IouThrs |-> [d \in DOMAIN kept |->
                     IF match[t][d] # 0 THEN GtIgnored(sorted[match[t][d]], rng)
                     ELSE OutOf(kept[d].area, rng)]],
       regular |-> {g \in DOMAIN gts : ~GtIgnored(gts[g], rng)}]

OfClass(s, cat) == Among(s, {i \in DOMAIN s : s[i].class_id = cat})

\* evaluateImg of every image, for one category and area.
EvaluateAll(images, cat, rng) ==
  [i \in DOMAIN images |-> EvaluateImg(OfClass(images[i].gts, cat),
                                       ByScore(OfClass(images[i].dts, cat)), rng)]

-----------------------------------------------------------------------------
(* Accumulate *)

\* The detections of all images that count, <<image, place>>.
Counted(evals, t, m) ==
  UNION {{i} \X {d \in DOMAIN FirstOf(evals[i].dts, MaxDets[m]) : ~evals[i].ignore[t][d]} :
           i \in {i \in DOMAIN evals : evals[i].valid}}

\* As they are pushed, and by a stable sort of the scores.
Listed(p, q) == p[1] < q[1] \/ (p[1] = q[1] /\ p[2] <= q[2])
Score(evals, p) == evals[p[1]].dts[p[2]].score
Ahead(evals, p, q) == \/ Score(evals, p) > Score(evals, q)
                      \/ Score(evals, p) = Score(evals, q) /\ Listed(p, q)

Entry(evals, t, p) == [score |-> Score(evals, p), hit |-> evals[p[1]].match[t][p[2]] # 0]

EntriesAsListed(evals, t, m) ==
  LET all   == Counted(evals, t, m)
      order == {q \in all \X all : Listed(q[1], q[2])}
  IN  [k \in 1 .. Cardinality(all) |-> Entry(evals, t, Ranked(order, all, k))]

\* The detections of all images that count at a threshold, best score first.
Entries(evals, t, m) ==
  LET all   == Counted(evals, t, m)
      order == {q \in all \X all : Ahead(evals, q[1], q[2])}
  IN  [k \in 1 .. Cardinality(all) |-> Entry(evals, t, Ranked(order, all, k))]

\* The objects that count, of all images.
Npig(evals) == Cardinality(UNION {{i} \X evals[i].regular :
                                    i \in {i \in DOMAIN evals : evals[i].valid}})

Hits(entries, n) == Cardinality({i \in 1 .. n : entries[i].hit})

Rc(entries, npig) == [n \in DOMAIN entries |-> (Unit * Hits(entries, n)) \div npig]
Pr(entries) == [n \in DOMAIN entries |-> (Unit * Hits(entries, n)) \div n]

Raw(pr) == pr

\* From the right, the best precision so far.
Envelope(pr) ==
  LET from[n \in DOMAIN pr] == IF n = Len(pr) \/ pr[n] > from[n + 1] THEN pr[n]
                               ELSE from[n + 1]
  IN  from

\* The first cut that reaches the recall, none being precision 0.
At(rc, pr, r) == LET reach == {n \in DOMAIN rc : rc[n] >= r}
                 IN  IF reach = {} THEN 0
                     ELSE pr[CHOOSE n \in reach : \A k \in reach : n <= k]

NoCurve == [recall |-> Undefined, precision |-> [r \in DOMAIN RecThrs |-> Undefined]]

Curve(evals, t, m) ==
  LET npig == Npig(evals)
      en   == Entries(evals, t, m)
      rc   == Rc(en, npig)
      pr   == Envelope(Pr(en))
  IN  IF evals = <<>> \/ npig = 0 THEN NoCurve
      ELSE [recall    |-> IF en = <<>> THEN 0 ELSE rc[Len(rc)],
            precision |-> [r \in DOMAIN RecThrs |-> At(rc, pr, RecThrs[r])]]

Accumulate(evals) == [t \in DOMAIN IouThrs |-> [m \in DOMAIN MaxDets |-> Curve(evals, t, m)]]

-----------------------------------------------------------------------------
(* Summarize: a mean as its sum and how many values it is of. *)

MeanValid(bag) == \* a sequence of values
  LET valid == SelectSeq(bag, LAMBDA v : v # Undefined)
  IN  <<FoldLeft(+, 0, valid), Len(valid)>>

\* curves[category][area]; the numbers of the report.
ApOf(curves, ts, a, m) ==
  MeanValid(FlattenSeq([t \in 1 .. Len(ts) |-> FlattenSeq([r \in DOMAIN RecThrs |->
    [k \in DOMAIN curves |-> curves[k][a][ts[t]][m].precision[r]]])]))

ArOf(curves, a, m) ==
  MeanValid(FlattenSeq([t \in DOMAIN IouThrs |->
    [k \in DOMAIN curves |-> curves[k][a][t][m].recall]]))

AllThrs == [t \in DOMAIN IouThrs |-> t]

Summary(curves) ==
  LET most == Len(MaxDets)
  IN  [ap      |-> ApOf(curves, AllThrs, 1, most),
       ap50    |-> ApOf(curves, <<1>>, 1, most),
       by_area |-> [a \in 2 .. Len(AreaRng) |-> ApOf(curves, AllThrs, a, most)],
       ar      |-> [m \in DOMAIN MaxDets |-> ArOf(curves, 1, m)],
       ar_area |-> [a \in 2 .. Len(AreaRng) |-> ArOf(curves, a, most)]]

Curves(images, cats) ==
  [k \in DOMAIN cats |-> [a \in DOMAIN AreaRng |->
     Accumulate(EvaluateAll(images, cats[k], AreaRng[a]))]]

CocoEvaluate(images, cats) == Summary(Curves(images, cats))
=============================================================================
