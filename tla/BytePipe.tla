------------------------------ MODULE BytePipe ------------------------------
(***************************************************************************)
(* What the asgn2 device promises between its port and its reader: a pipe  *)
(* of bytes in which a zero byte ends a session.  A read hands over bytes  *)
(* in the order they came, each once, and never a terminator; a terminator *)
(* leaves the pipe when a read returns nothing.                            *)
(***************************************************************************)
EXTENDS Integers, Sequences

CONSTANT Byte      \* what may be sent
VARIABLES chan,    \* sent and not handed over yet
          got      \* what the current, or the last, read has handed over

PipeInit == chan = <<>> /\ got = <<>>

Accept(b) == chan' = Append(chan, b) /\ got' = got

NewRead == got' = <<>> /\ chan' = chan

Deliver(n) ==
  /\ \A i \in 1..n : chan[i] # 0
  /\ got' = got \o SubSeq(chan, 1, n)
  /\ chan' = SubSeq(chan, n + 1, Len(chan))

EndSession ==
  /\ chan # <<>> /\ Head(chan) = 0
  /\ chan' = Tail(chan)
  /\ got' = <<>>

PipeNext == \/ \E b \in Byte : Accept(b)
            \/ NewRead
            \/ \E n \in 1..Len(chan) : Deliver(n)
            \/ EndSession

PipeSpec == PipeInit /\ [][PipeNext]_<<chan, got>>
=============================================================================
