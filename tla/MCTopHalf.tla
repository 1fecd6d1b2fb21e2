------------------------------ MODULE MCTopHalf ------------------------------
(* A ring of four slots, so that it fills and wraps, and bytes whose halves *)
(* differ, with the terminator among them.                                 *)
EXTENDS TopHalf

MCBytes == {0, 90, 165, 240}
=============================================================================
