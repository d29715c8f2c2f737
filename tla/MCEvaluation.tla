---------------------------- MODULE MCEvaluation -----------------------------
(***************************************************************************)
(* Datasets of two or three images with up to three objects of two         *)
(* categories, and every way two detections may overlap three objects.     *)
(***************************************************************************)
EXTENDS Evaluation

\* Objects: "f"ar is a crowd, "s" is small, "d" is a dog, the others are cats.
MCObjects == {"a", "b", "s", "f", "d", "e"}

Cat == [id |-> 3, name |-> "cat"]
Dog == [id |-> 7, name |-> "dog"]

Im(id, w) == [id |-> id, file |-> id, w |-> w, h |-> w]
An(image, cat, obj, area) == [image |-> image, category |-> cat, crowd |-> obj = "f",
                              box |-> 2, area |-> area, obj |-> obj]

Doc(cats, ims, anns) == [categories |-> cats, images |-> ims, annotations |-> anns]

Train == Doc(<<Cat, Dog>>, <<Im(9, 4)>>, <<An(9, 7, "d", 0)>>)

\* Three objects on the first image in two orders, others on the second.
Second == <<An(2, 7, "d", 0), An(2, 3, "e", 2)>>
Val(objs) == Doc(<<Dog, Cat>>, <<Im(1, 4), Im(2, 4)>>,
                 [k \in DOMAIN objs |-> An(1, 3, objs[k], IF objs[k] = "s" THEN 1 ELSE 2)] \o Second)

Vals == {Val(<<"a", "s", "f">>), Val(<<"f", "s", "a">>), Val(<<"a", "b", "s">>), Val(<<"s", "a", "b">>)}

Dir(train, val) == [kind |-> "directory", yaml |-> Absent, train |-> train, val |-> val]

\* Annotations without an image, a category, a size or a box are skipped.
Ragged == [Val(<<"a", "s">>) EXCEPT
             !.images = Append(@, Im(4, 0)),
             !.annotations = @ \o <<An(8, 3, "a", 0), An(1, 5, "a", 0), An(4, 3, "a", 0),
                                    [An(1, 3, "a", 0) EXCEPT !.box = Absent],
                                    [An(1, 3, "a", 0) EXCEPT !.category = Absent]>>]

\* The second image has the id of the first, whose annotations it gets, and
\* its categories are not all of those of the other file.
Doubled == [Val(<<"a", "s">>) EXCEPT !.images[2].id = 1,
              !.categories = <<Dog, [id |-> 5, name |-> "cow"], Cat>>]

Lines(objs) == [k \in DOMAIN objs |-> [cls |-> IF objs[k] = "d" THEN 1 ELSE 0,
                                       box |-> 1, obj |-> objs[k]]]
Yaml == [names |-> [listed |-> TRUE, of |-> <<"cat", "dog">>], train |-> <<9>>, val |-> <<2, 1>>, test |-> Absent,
         labels |-> [f \in {1, 2, 9} |->
           CASE f = 1 -> Append(Lines(<<"a", "b">>), Malformed)
             [] f = 2 -> Lines(<<"d">>) [] f = 9 -> Absent]]

\* Names by number, without a gap, with one, and none.
Mapped(of) == [Yaml EXCEPT !.names = [listed |-> FALSE, of |-> of]]
Yamled == {Mapped((1 :> "dog") @@ (0 :> "cat")), Mapped((0 :> "cat") @@ (2 :> "dog")),
           [Yaml EXCEPT !.names = Absent]}

Broken ==
  {[kind |-> "json", val |-> Malformed], [kind |-> "parquet"], [kind |-> "nothing"],
   [kind |-> "yaml", yaml |-> Malformed], Dir(Absent, Absent),
   [kind |-> "yaml", yaml |-> [Yaml EXCEPT !.train = Absent, !.val = Absent]],
   Dir([Train EXCEPT !.categories = Absent], Ragged),
   Dir(Train, [Ragged EXCEPT !.images[1].file = Outside])}

Other == {[kind |-> "json", val |-> Ragged], Dir(Train, Ragged),
          Dir(Train, [Ragged EXCEPT !.annotations = Absent]),
          [kind |-> "yaml", yaml |-> Yaml],
          Dir(Train, Doubled), Dir(Absent, Doubled),
          [Dir(Absent, Absent) EXCEPT !.yaml = [Yaml EXCEPT !.test = <<1>>]]}

Opt(split, single, max, batch) ==
  [raw |-> FALSE, split |-> split, single |-> single, focal |-> FALSE,
   max_images |-> max, batch |-> batch]

\* An answer: queries that overlap the objects of their image.
Query(cat, dog, none, area, a, b, c) ==
  [score |-> <<cat, dog, none>>,
   box |-> [area |-> area,
            iou |-> [o \in MCObjects |->
                       CASE o = "a" -> a [] o \in {"b", "f"} -> b [] o = "s" -> c
                         [] o = "d" -> a [] OTHER -> b]]]

OnSecond == <<Query(2, 7, 1, 2, 1, 0, 0), Query(6, 1, 8, 1, 0, 2, 0)>>

Nets(levels) ==
  {(1 :> <<Query(5, 0, 3, 2, x[1], x[2], x[3]), Query(9, 4, 0, 1, x[4], x[5], x[6])>>)
     @@ (2 :> OnSecond) : x \in [1 .. 6 -> levels]}

Some == {(1 :> <<Query(5, 0, 3, 2, 2, 1, 0), Query(9, 4, 0, 1, 2, 0, 1)>>) @@ (2 :> OnSecond),
         (2 :> OnSecond), << >>}

Case(roots, opts, nets) == [root : roots, opt : opts, net : nets]

MCCases ==
  Case({Dir(Train, v) : v \in Vals}, {Opt("val", TRUE, 0, 1)}, Nets({0, 1, 2}))
  \cup Case({Dir(Train, v) : v \in Vals} \cup Other,
            {Opt("val", TRUE, m, 1) : m \in 0 .. 2}
              \cup {Opt("val", FALSE, m, b) : m \in 0 .. 2, b \in 1 .. 2}
              \cup {[Opt("val", FALSE, 0, 3) EXCEPT !.focal = TRUE],
                    [Opt("val", TRUE, 0, 1) EXCEPT !.raw = TRUE],
                    Opt("test", FALSE, 0, 2), Opt("test", TRUE, 0, 2)}, Some)
  \cup Case({[kind |-> "yaml", yaml |-> y] : y \in Yamled}, {Opt("val", TRUE, 0, 1)}, Some)
  \cup Case(Broken, {Opt("val", TRUE, 0, 1)}, Some)

MCSizeOf == [p \in {1, 2, 4, 9} |-> IF p = 2 THEN <<2, 4>> ELSE <<4, 4>>]
MCBlank == <<Query(1, 2, 8, 1, 0, 0, 0)>>

MCIouThrs == <<1, 2>>
MCAreaRng == <<<<0, 1000>>, <<0, 4>>>>
MCMaxDets == <<1, 2>>
MCRecThrs == <<0, 6, 12>>
=============================================================================
