----------------------------- MODULE Prediction ------------------------------
(***************************************************************************)
(* --predict: the images that a source names, one after another            *)
(* (RunPredictTorch of main.cpp), each given to the network whole or, with *)
(* --sahi, in overlapping tiles whose boxes are shifted back and merged;   *)
(* then what is left is drawn and saved. A path is a number.               *)
(***************************************************************************)
EXTENDS Sahi, TLC

CONSTANTS Sources,        \* what --source may name: [kind, entries]
          Configs,        \* [sahi, full, merge]
          Readable,       \* the paths whose image can be read
          Width, Height,  \* path -> size of its image
          Scenes,         \* path -> what is to be seen: [cls, box, score, part]
          IsImage(_),     \* the path has the extension of an image
          Stem(_),        \* its file name without extension
          ConfTile, ConfShown  \* the floors of SahiConfig and of --conf

ASSUME PictureSizes == \A p \in Readable : /\ Width[p] \in Nat \ {0}
                                           /\ Height[p] \in Nat \ {0}

\* What is to be seen is in the picture.
ASSUME SceneBoxes ==
  \A s \in Scenes : \A p \in Readable : \A o \in s[p] :
    /\ o.box \in [x0 : 0 .. Width[p], y0 : 0 .. Height[p], x1 : 0 .. Width[p], y1 : 0 .. Height[p]]
    /\ o.box.x0 < o.box.x1 /\ o.box.y0 < o.box.y1

VARIABLES source, cfg, scene,
          todo,     \* paths still to predict
          path,     \* the one being predicted
          x, y,     \* the loop variables of AxisOrigins
          xs, ys,   \* the origins found so far
          tiles,    \* tiles still to be looked at
          pool,     \* what they had, in coordinates of the image
          dets,     \* the detections of the image
          saved,    \* output file -> [of, drawn]
          pc

vars == <<source, cfg, scene, todo, path, x, y, xs, ys, tiles, pool, dets, saved, pc>>

Init == /\ source \in Sources /\ cfg \in Configs /\ scene \in Scenes
        /\ todo = <<>> /\ path = 0
        /\ x = 0 /\ y = 0 /\ xs = <<>> /\ ys = <<>>
        /\ tiles = <<>> /\ pool = {} /\ dets = {}
        /\ saved = << >> /\ pc = "resolve"

-----------------------------------------------------------------------------
(* ResolveImageSources: the images of a directory, or those a glob matches, *)
(* in order; the one file named; or an error.                              *)

Unsupported == {"url", "webcam", "stdin"}

Resolved == IF source.kind \in Unsupported \cup {"absent"} THEN <<>>
            ELSE IF source.kind = "file" THEN source.entries
            ELSE SortSeq(SelectSeq(source.entries, IsImage), <)

Resolve ==
  /\ pc = "resolve"
  /\ todo' = Resolved
  /\ pc' = IF todo' = <<>> THEN "refused" ELSE "image"
  /\ UNCHANGED <<source, cfg, scene, path, x, y, xs, ys, tiles, pool, dets, saved>>

\* LoadRgb; an image that cannot be read is passed over.
Load ==
  /\ pc = "image" /\ todo # <<>>
  /\ todo' = Tail(todo)
  /\ IF todo[1] \in Readable
     THEN /\ path' = todo[1]
          /\ pc' = IF cfg.sahi THEN "columns" ELSE "forward"
     ELSE UNCHANGED <<path, pc>>
  /\ x' = 0 /\ y' = 0 /\ xs' = <<>> /\ ys' = <<>> /\ pool' = {} /\ dets' = {}
  /\ UNCHANGED <<source, cfg, scene, tiles, saved>>

Done ==
  /\ pc = "image" /\ todo = <<>>
  /\ pc' = "done"
  /\ UNCHANGED <<source, cfg, scene, todo, path, x, y, xs, ys, tiles, pool, dets, saved>>

-----------------------------------------------------------------------------
(* SahiDetect *)

\* One turn of AxisOrigins for the columns: a small image has the origin 0.
Column ==
  LET w == Width[path]
  IN  /\ pc = "columns"
      /\ IF w <= SliceW
         THEN xs' = <<0>> /\ pc' = "rows" /\ UNCHANGED x
         ELSE /\ xs' = With(xs, Origin(x, SliceW, w))
              /\ x' = x + StepX
              /\ pc' = IF IsLast(x, SliceW, w) THEN "rows" ELSE pc
      /\ UNCHANGED <<source, cfg, scene, todo, path, y, ys, tiles, pool, dets, saved>>

Row ==
  LET h == Height[path]
  IN  /\ pc = "rows"
      /\ IF h <= SliceH
         THEN ys' = <<0>> /\ pc' = "slices" /\ UNCHANGED y
         ELSE /\ ys' = With(ys, Origin(y, SliceH, h))
              /\ y' = y + StepY
              /\ pc' = IF IsLast(y, SliceH, h) THEN "slices" ELSE pc
      /\ UNCHANGED <<source, cfg, scene, todo, path, x, xs, tiles, pool, dets, saved>>

Slices ==
  /\ pc = "slices"
  /\ tiles' = ComputeSlices(xs, ys, Width[path], Height[path])
  /\ pc' = "tiles"
  /\ UNCHANGED <<source, cfg, scene, todo, path, x, y, xs, ys, pool, dets, saved>>

DetectTile ==
  /\ pc = "tiles" /\ tiles # <<>>
  /\ pool' = pool \cup Above(ShiftedBack(Detect(scene[path], tiles[1]), tiles[1]), ConfTile)
  /\ tiles' = Tail(tiles)
  /\ UNCHANGED <<source, cfg, scene, todo, path, x, y, xs, ys, dets, saved, pc>>

\* The whole image as well, if configured.
Whole == [x0 |-> 0, y0 |-> 0, x1 |-> Width[path], y1 |-> Height[path]]

TilesDone ==
  /\ pc = "tiles" /\ tiles = <<>>
  /\ pool' = pool \cup IF cfg.full THEN Above(Detect(scene[path], Whole), ConfTile) ELSE {}
  /\ pc' = "nms"
  /\ UNCHANGED <<source, cfg, scene, todo, path, x, y, xs, ys, tiles, dets, saved>>

\* NmsPerClass, one kept detection after another.
Keep ==
  /\ pc = "nms" /\ pool # {}
  /\ \E d \in FirstOf(pool) : /\ dets' = dets \cup {Kept(d, pool, cfg.merge)}
                              /\ pool' = pool \ ({d} \cup RemovedBy(d, pool))
  /\ UNCHANGED <<source, cfg, scene, todo, path, x, y, xs, ys, tiles, saved, pc>>

Merged ==
  /\ pc = "nms" /\ pool = {}
  /\ pc' = "save"
  /\ UNCHANGED <<source, cfg, scene, todo, path, x, y, xs, ys, tiles, pool, dets, saved>>

-----------------------------------------------------------------------------
Forward ==
  /\ pc = "forward"
  /\ dets' = Detect(scene[path], Whole)
  /\ pc' = "save"
  /\ UNCHANGED <<source, cfg, scene, todo, path, x, y, xs, ys, tiles, pool, saved>>

\* DrawRect: corners are clamped to the picture and the last column or row of
\* a rectangle is drawn too.
Clamp(v, size) == Smaller(Larger(v, 0), size - 1)
DrawRect(b) == <<Clamp(b.x0, Width[path]), Clamp(b.y0, Height[path]),
                 Clamp(b.x1, Width[path]), Clamp(b.y1, Height[path])>>

Drawn == {<<d.cls, DrawRect(d.box)>> : d \in Above(dets, ConfShown)}

\* A file that cannot be written is only warned of.
Save ==
  /\ pc = "save"
  /\ \/ saved' = (Stem(path) :> [of |-> path, drawn |-> Drawn]) @@ saved
     \/ UNCHANGED saved
  /\ pc' = "image"
  /\ UNCHANGED <<source, cfg, scene, todo, path, x, y, xs, ys, tiles, pool, dets>>

Next == \/ Resolve \/ Load \/ Done \/ Column \/ Row \/ Slices \/ DetectTile
        \/ TilesDone \/ Keep \/ Merged \/ Forward \/ Save

\* One thread: whatever is next is done.
Spec == Init /\ [][Next]_vars /\ WF_vars(Next)

-----------------------------------------------------------------------------
(* Properties *)

\* Along one axis: the tiles lie within the image, none is short, and what
\* is no longer than the overlap, or a single pixel, is whole in one of them.
Fits(a, b, slice, tenths) == /\ b = a + 1 \/ b - a <= Rounded(tenths, slice)
                             /\ b - a <= slice

Covers(origins, img, slice, tenths) ==
  /\ \A i \in DOMAIN origins : /\ 0 <= origins[i]
                               /\ img > slice => origins[i] + slice <= img
  /\ \A a, b \in 0 .. img :
       a < b /\ Fits(a, b, slice, tenths) =>
         \E i \in DOMAIN origins : origins[i] <= a /\ b <= Smaller(origins[i] + slice, img)

\* AxisOrigins leaves nothing out, although its last tile moves back: an
\* object no larger than the overlap is not cut by every tile that sees it.
WholeInSomeTile ==
  pc \in {"slices", "tiles"} =>
    /\ Covers(xs, Width[path], SliceW, OverlapW)
    /\ Covers(ys, Height[path], SliceH, OverlapH)

\* Such an object is in the result of the merge, found with a box of its class
\* that overlaps it, or that contains it when boxes are merged, whatever parts
\* of it and of others the tiles found and however those are scored.
Small(b) == /\ Fits(b.x0, b.x1, SliceW, OverlapW)
            /\ Fits(b.y0, b.y1, SliceH, OverlapH)

SmallObjectIsFound ==
  pc = "save" /\ cfg.sahi =>
    \A o \in scene[path] :
      Small(o.box) /\ o.score >= ConfTile =>
        \E d \in dets :
          d.cls = o.cls /\ IF cfg.merge THEN Inside(o.box, d.box)
                           ELSE d.box = o.box \/ Overlaps(o.box, d.box)

\* Every source is worked through: the loop of AxisOrigins ends for every
\* overlap, one of the whole tile and more included.
PredictEnds == <>(pc \in {"done", "refused"})
=============================================================================
