------------------------------- MODULE MCLocks -------------------------------
(* The two users of each lock, with a second copy of the careful one: when  *)
(* the lock becomes free, one waits and another arrives.                    *)
EXTENDS Locks

CONSTANTS mutex2, mutex3, mutex3b

MCUsers == {mutex2, mutex3, mutex3b}
=============================================================================
