------------------------------- MODULE MCAsgn2 -------------------------------
(* Rings of four slots and pages of four bytes, so that the ring wraps, a   *)
(* batch can straddle a page end, and sessions cross pages.                 *)
EXTENDS Asgn2

CONSTANT cat

MCProcs == {cat}
=============================================================================
