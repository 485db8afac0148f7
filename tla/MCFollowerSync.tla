--------------------------- MODULE MCFollowerSync ---------------------------
(***************************************************************************)
(* Two shares per block, both sampled; the second block samples index 1    *)
(* twice when MCRepeated is used.                                          *)
(***************************************************************************)
EXTENDS FollowerSync

MCSample   == [h \in 1 .. MaxHeight |-> <<1, 2>>]
MCRepeated == [h \in 1 .. MaxHeight |-> IF h = 2 THEN <<1, 1>> ELSE <<1, 2>>]
MCOnce     == [p \in Peers |-> 1]
MCTwice    == [p \in Peers |-> IF p = Producer THEN 2 ELSE 1]
=============================================================================
