------------------------------ MODULE ByteFifo ------------------------------
(***************************************************************************)
(* A bounded first-in first-out queue of bytes: what the circular buffer   *)
(* between the interrupt handler and the tasklet of asgn2 promises.        *)
(***************************************************************************)
EXTENDS Integers, Sequences

CONSTANTS Byte,      \* the bytes that may be queued
          None,      \* no byte
          Capacity   \* how many bytes the queue holds

VARIABLES q, offer   \* the queue, and the byte the producer is about to queue

FifoInit == q = <<>> /\ offer = None

Offer(b) == offer = None /\ offer' = b /\ q' = q

\* The byte offered is appended; none that is queued is overwritten.
Put ==
  /\ offer # None
  /\ Len(q) < Capacity
  /\ q' = Append(q, offer)
  /\ offer' = None

\* A byte is refused only by a queue that is full.
Refuse ==
  /\ offer # None
  /\ Len(q) = Capacity
  /\ q' = q
  /\ offer' = None

\* The consumer removes the n oldest bytes in one go.
Take(n) == q' = SubSeq(q, n + 1, Len(q)) /\ offer' = offer

FifoNext == \/ \E b \in Byte : Offer(b)
            \/ Put \/ Refuse
            \/ \E n \in 1..Len(q) : Take(n)

FifoSpec == FifoInit /\ [][FifoNext]_<<q, offer>>
=============================================================================
