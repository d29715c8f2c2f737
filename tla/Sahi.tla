--------------------------------- MODULE Sahi --------------------------------
(***************************************************************************)
(* Sliced inference (src/infer/sahi.cpp) as operators: where tiles lie,    *)
(* what is detected in one, and how the detections of all are merged.      *)
(* Boxes and tiles have whole corners and are half open; a score is a      *)
(* number and the IoU threshold a fraction.                                *)
(***************************************************************************)
EXTENDS Integers, SequencesExt

CONSTANTS SliceW, SliceH,      \* the size of a tile
          OverlapW, OverlapH,  \* in tenths of it
          IouNum, IouDen       \* postprocess_iou

ASSUME TileSizes == /\ SliceW \in Nat \ {0} /\ SliceH \in Nat \ {0}
                    /\ OverlapW \in Nat /\ OverlapH \in Nat

-----------------------------------------------------------------------------
(* AxisOrigins *)

\* lround of tenths
Rounded(tenths, slice) == (2 * tenths * slice + 10) \div 20
Larger(a, b) == IF a > b THEN a ELSE b
Smaller(a, b) == IF a < b THEN a ELSE b

UnboundedStep(slice, tenths) == slice - Rounded(tenths, slice)
StepWithoutOverlap(slice, tenths) == Larger(1, slice)

StepOf(slice, tenths) == Larger(1, slice - Rounded(tenths, slice))
StepX == StepOf(SliceW, OverlapW)
StepY == StepOf(SliceH, OverlapH)

IsLast(at, slice, img) == at + slice >= img

\* A tile that would leave the image moves back to its border.
Origin(at, slice, img) == IF IsLast(at, slice, img) THEN img - slice ELSE at

With(origins, o) == IF origins = <<>> \/ origins[Len(origins)] # o
                    THEN Append(origins, o) ELSE origins

-----------------------------------------------------------------------------
(* ComputeSlices and Crop *)

Tile(x0, y0, w, h) == [x0 |-> x0, y0 |-> y0, x1 |-> Smaller(x0 + SliceW, w),
                       y1 |-> Smaller(y0 + SliceH, h)]

\* Row by row.
ComputeSlices(xs, ys, w, h) ==
  [k \in 1 .. Len(ys) * Len(xs) |->
     Tile(xs[1 + ((k - 1) % Len(xs))], ys[1 + (k - 1) \div Len(xs)], w, h)]

Inside(b, t) == t.x0 <= b.x0 /\ b.x1 <= t.x1 /\ t.y0 <= b.y0 /\ b.y1 <= t.y1
Meets(b, t)  == b.x0 < t.x1 /\ t.x0 < b.x1 /\ b.y0 < t.y1 /\ t.y0 < b.y1
Common(b, t) == [x0 |-> Larger(b.x0, t.x0), y0 |-> Larger(b.y0, t.y0),
                 x1 |-> Smaller(b.x1, t.x1), y1 |-> Smaller(b.y1, t.y1)]
Moved(b, dx, dy) == [x0 |-> b.x0 + dx, y0 |-> b.y0 + dy, x1 |-> b.x1 + dx, y1 |-> b.y1 + dy]

\* The network on a crop: an object that is whole there is found with its
\* score, a part of one with the score of a part. Boxes are those of the crop.
Detect(objects, t) ==
  {[cls |-> o.cls, box |-> Moved(Common(o.box, t), -t.x0, -t.y0),
    score |-> IF Inside(o.box, t) THEN o.score ELSE o.part]
   : o \in {q \in objects : Meets(q.box, t)}}

NotMoved(ds, t) == ds
ShiftedBack(ds, t) == {[cls |-> d.cls, box |-> Moved(d.box, t.x0, t.y0), score |-> d.score] : d \in ds}

Above(ds, floor) == {d \in ds : d.score >= floor}

-----------------------------------------------------------------------------
(* NmsPerClass. Of equal detections the first removes the others (an IoU of *)
(* 1 is above any threshold), so the pool is a set.                         *)

Area(b) == Larger(0, b.x1 - b.x0) * Larger(0, b.y1 - b.y0)
Inter(a, b) == Area(Common(a, b))
Exceeds(part, whole) == IouDen * part > IouNum * whole
Overlaps(a, b) == Exceeds(Inter(a, b), Area(a) + Area(b) - Inter(a, b))

\* Classes in order; of a class the best scores, equal ones in any order.
FirstOf(ds) ==
  LET cls == Min({d.cls : d \in ds})
  IN  {d \in ds : d.cls = cls /\ \A e \in ds : e.cls = cls => d.score >= e.score}

RemovedOfAnyClass(d, ds) == {e \in ds \ {d} : Overlaps(d.box, e.box)}
RemovedBy(d, ds) == {e \in ds \ {d} : e.cls = d.cls /\ Overlaps(d.box, e.box)}

Hull(boxes) == [x0 |-> Min({b.x0 : b \in boxes}), y0 |-> Min({b.y0 : b \in boxes}),
                x1 |-> Max({b.x1 : b \in boxes}), y1 |-> Max({b.y1 : b \in boxes})]

\* With merge a kept box grows over those it removed.
Kept(d, ds, merge) ==
  IF merge THEN [cls |-> d.cls, score |-> d.score,
                 box |-> Hull({e.box : e \in {d} \cup RemovedBy(d, ds)})]
  ELSE d
=============================================================================
