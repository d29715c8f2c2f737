---------------------------- MODULE MCBatchLoader ----------------------------
(* A split of four samples in batches of three: the second batch is partial *)
(* and smaller than the pool.  Sample 4 cannot be decoded, 2 has a crowd.   *)
EXTENDS BatchLoader

MCSplit == <<0, 2, 4, 5>>
MCDecodable == {0, 2, 5}
MCBoxes == [s \in {0, 2, 4, 5} |->
              IF s = 2 THEN <<[class |-> 1, crowd |-> TRUE], [class |-> 0, crowd |-> FALSE]>>
                       ELSE <<[class |-> s, crowd |-> FALSE]>>]
\* Two seeds that give different orders.
MCDraw(s, i) == IF s = 1 THEN i * 7 + 1 ELSE i * 3
=============================================================================
