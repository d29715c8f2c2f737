------------------------------- MODULE Datasets ------------------------------
(***************************************************************************)
(* How annotations on disk become a Dataset (src/data/dataset.cpp,         *)
(* coco.cpp, yolo.cpp): operators on values, since loading keeps no state. *)
(*                                                                         *)
(* A path is a number, numbers being in the order of the paths. A document *)
(* is a record of its parsed parts, or Malformed. Of a box, "obj" is the   *)
(* object it annotates, "bbox" its own area and "area" that of the segment *)
(* (0: unknown), in quarters of the image.                                 *)
(***************************************************************************)
EXTENDS Selections, SequencesExt

CONSTANTS Malformed,  \* a document no parser accepts
          Absent,     \* a field or file that is not there
          Outside     \* a file name that leaves the directory of the images

Failed == [ok |-> FALSE]
Loaded(samples, names) == [ok |-> TRUE, samples |-> samples, class_names |-> names]

IndicesOf(ds, split) == Among([i \in DOMAIN ds.samples |-> i],
                              {i \in DOMAIN ds.samples : ds.samples[i].split = split})

-----------------------------------------------------------------------------
(* COCO: categories [id, name], images [id, file, w, h], annotations       *)
(* [image, category, crowd, box, area, obj], each a sequence or Absent.    *)

AsListed(cats) == cats

\* The class of a category is its place in the order of the ids.
ById(cats) == SortedBy(cats, [i \in DOMAIN cats |-> cats[i].id])

ClassOf(cats, id) == (CHOOSE i \in DOMAIN cats : cats[i].id = id) - 1
Known(cats, id) == \E i \in DOMAIN cats : cats[i].id = id

\* A later image with the id of an earlier one takes its annotations.
SampleOf(images, id) ==
  CHOOSE i \in DOMAIN images : /\ images[i].id = id
                               /\ \A j \in DOMAIN images : images[j].id = id => j <= i

\* An annotation that is used; any other is skipped without a word.
Usable(doc, a) ==
  /\ a.image # Absent /\ a.category # Absent /\ a.box # Absent
  /\ \E i \in DOMAIN doc.images : doc.images[i].id = a.image
  /\ Known(doc.categories, a.category)
  /\ LET s == doc.images[SampleOf(doc.images, a.image)] IN s.w > 0 /\ s.h > 0

\* A crowd is a box too: only the loader leaves it out of the targets.
CocoBox(cats, a, raw) ==
  [class_id |-> IF raw THEN a.category ELSE ClassOf(cats, a.category),
   iscrowd |-> a.crowd, bbox |-> a.box, area |-> a.area, obj |-> a.obj]

CocoBoxes(doc, cats, k, raw) ==
  LET all  == doc.annotations
      mine == Among(all, {i \in DOMAIN all : /\ Usable(doc, all[i])
                                             /\ SampleOf(doc.images, all[i].image) = k})
  IN  [i \in DOMAIN mine |-> CocoBox(cats, mine[i], raw)]

CocoParses(doc) ==
  /\ doc # Malformed
  /\ doc.categories # Absent /\ doc.images # Absent
  /\ \A c \in Range(doc.categories) : c.id # Absent /\ c.name # Absent
  /\ \A im \in Range(doc.images) : im.id # Absent /\ im.file \notin {Absent, Outside}

LoadCocoJson(doc, split, raw) ==
  IF ~CocoParses(doc) THEN Failed
  ELSE LET cats == ById(doc.categories)
       IN  Loaded([k \in DOMAIN doc.images |->
                     [path |-> doc.images[k].file, split |-> split,
                      w |-> doc.images[k].w, h |-> doc.images[k].h,
                      boxes |-> IF doc.annotations = Absent THEN <<>>
                                ELSE CocoBoxes(doc, cats, k, raw)]],
                  [i \in DOMAIN cats |-> cats[i].name])

-----------------------------------------------------------------------------
(* YOLO: names, and for each split the image files it has and their label  *)
(* lines. Nothing says how large an image is. The names are Absent, or     *)
(* [listed, of]: a sequence, or a map from integers.                       *)

\* A map is read in the order of its keys, whatever they are.
ParseNames(names) ==
  IF names = Absent THEN <<>>
  ELSE IF names.listed THEN names.of
  ELSE Among(names.of, DOMAIN names.of)

\* A line that does not parse is skipped; no label file means no objects.
ReadLabels(labels) ==
  IF labels = Absent THEN <<>>
  ELSE LET good == Among(labels, {i \in DOMAIN labels : labels[i] # Malformed})
       IN  [i \in DOMAIN good |-> [class_id |-> good[i].cls, iscrowd |-> FALSE,
                                   bbox |-> good[i].box, area |-> 0, obj |-> good[i].obj]]

CollectSplit(files, split, labels) ==
  LET sorted == SortedBy(files, files)
  IN  [i \in DOMAIN files |-> [path |-> sorted[i], split |-> split, w |-> 0, h |-> 0,
                               boxes |-> ReadLabels(labels[sorted[i]])]]

LoadYolo(yaml) ==
  IF yaml = Malformed \/ {yaml.train, yaml.val, yaml.test} = {Absent}
  THEN Failed
  ELSE LET part(files, split) == IF files = Absent THEN <<>>
                                 ELSE CollectSplit(files, split, yaml.labels)
       IN  Loaded(part(yaml.train, "train") \o part(yaml.val, "val")
                    \o part(yaml.test, "test"),
                  ParseNames(yaml.names))

-----------------------------------------------------------------------------
(* LoadDataset, with DetectFormat: what a directory or a file holds.       *)

DetectFormat(root) ==
  CASE root.kind = "json" -> "coco"
    [] root.kind \in {"parquet"} -> "detr"
    [] root.kind = "yaml" -> "yolo"
    [] root.kind = "directory" ->
         (IF root.yaml # Absent THEN "yolo"
          ELSE IF root.train # Absent \/ root.val # Absent THEN "coco" ELSE "auto")
    [] OTHER -> "auto"

\* The class names are those of the first annotation file that there is.
MergedCoco(root, raw) ==
  LET part(doc, split) == IF doc = Absent THEN Loaded(<<>>, Absent)
                          ELSE LoadCocoJson(doc, split, raw)
      train == part(root.train, "train")
      val   == part(root.val, "val")
  IN  IF {root.train, root.val} = {Absent} \/ ~train.ok \/ ~val.ok THEN Failed
      ELSE Loaded(train.samples \o val.samples,
                  IF root.train # Absent THEN train.class_names ELSE val.class_names)

LoadDataset(root, raw) ==
  CASE DetectFormat(root) = "coco" ->
         IF root.kind = "json" THEN LoadCocoJson(root.val, "val", raw)
         ELSE MergedCoco(root, raw)
    [] DetectFormat(root) = "yolo" -> LoadYolo(root.yaml)
    [] OTHER -> Failed
=============================================================================
