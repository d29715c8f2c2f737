---------------------------- MODULE MCPrediction -----------------------------
EXTENDS Prediction

\* Path 1 is 7 by 4, path 2 smaller than a tile, path 3 cannot be read and
\* path 4 is text. Tiles are 3 by 2, their columns overlap by one pixel and
\* their rows by the whole tile, where AxisOrigins falls back on a step of 1.
MCReadable == {1, 2}
MCWidth    == <<7, 2>>
MCHeight   == <<4, 2>>
MCIsImage(p) == p # 4
MCStem(p)    == p

MCSources == {[kind |-> "directory", entries |-> <<4, 2, 3, 1>>],
              [kind |-> "glob", entries |-> <<4>>],
              [kind |-> "file", entries |-> <<4>>],
              [kind |-> "absent", entries |-> <<1>>]}

MCConfigs == {[sahi |-> TRUE, full |-> f, merge |-> m] : f, m \in BOOLEAN}
             \cup {[sahi |-> FALSE, full |-> FALSE, merge |-> FALSE]}

Boxed(x0, y0, w, h) == [x0 |-> x0, y0 |-> y0, x1 |-> x0 + w, y1 |-> y0 + h]
Object(cls, b, score, part) == [cls |-> cls, box |-> b, score |-> score, part |-> part]

\* A small object anywhere, above or at the floor, and beside it a larger
\* one of its class or of another one, parts of which may be scored higher.
Small1 == {Object(1, Boxed(a, b, 1, h), 2, 1) : a \in 0 .. 6, b \in 0 .. 3, h \in 1 .. 2}
Large1 == {Object(c, Boxed(a, 1, w, 2), 3, p) : c \in 0 .. 1, a \in {1}, w \in {2, 4}, p \in {1, 3}}

MCScenes == {<< {s, l}, {o \in {s} : o.box.x1 <= 2 /\ o.box.y1 <= 2} >> :
             s \in {o \in Small1 : o.box.y1 <= 4}, l \in Large1}
=============================================================================
