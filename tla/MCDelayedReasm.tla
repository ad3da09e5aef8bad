--------------------------- MODULE MCDelayedReasm ---------------------------
(* A hello of three units at offset 2 of a stream, one unit before it and   *)
(* one after it, in segments of one or two units or in one piece.           *)
EXTENDS DelayedReasm
AnySegment == {s \in [off : 1 .. 5, len : {1, 2}] : s.off + s.len <= 6} \cup {[off |-> 2, len |-> 3]}
=============================================================================
