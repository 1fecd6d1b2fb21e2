------------------------------- MODULE TopHalf -------------------------------
(***************************************************************************)
(* The top half of the asgn2 driver: the dummy GPIO port raises one        *)
(* interrupt per half byte, dummyport_interrupt assembles the halves and   *)
(* stores the byte in the circular buffer that bottom_half, the tasklet,   *)
(* drains.                                                                 *)
(*                                                                         *)
(* One interrupt is one step: the line is edge triggered with IRQF_DISABLED *)
(* and the machine has one core, so the handler is never interrupted.      *)
(***************************************************************************)
EXTENDS Integers, Sequences

CONSTANTS BUF_SIZE,  \* slots of the circular buffer (1024 in the code)
          Bytes      \* the bytes the port may send

ASSUME BufSizeAssumption == BUF_SIZE \in Nat /\ BUF_SIZE >= 2
ASSUME BytesAssumption == Bytes \subseteq 0..255

VARIABLES buf, head, tail,       \* circ_buffer
          half_byte, sig_flag,   \* the handler's static variables
          scheduled,             \* TASKLET_STATE_SCHED of the tasklet
          sending                \* the byte the port has sent one half of, or Idle

ringVars == <<buf, head, tail>>
topVars == <<buf, head, tail, half_byte, sig_flag, scheduled, sending>>

Idle == -1
Slots == 0..(BUF_SIZE - 1)

\* <linux/circ_buf.h>: the macros mask with size - 1, which for a power of
\* two, as BUF_SIZE is, is the remainder.
CIRC_CNT(h, t, size) == (h - t) % size
CIRC_SPACE(h, t, size) == CIRC_CNT(t, h + 1, size)

\* The bytes between head and tail, oldest first.
RingContent ==
  [k \in 1..CIRC_CNT(tail, head, BUF_SIZE) |-> buf[(head + k - 1) % BUF_SIZE]]

-----------------------------------------------------------------------------
(* The port.  A half byte is the set of data pins that are high.           *)

PinsOf(nibble) ==
  {pin \in {7, 17, 22, 24} :
     \/ pin = 7  /\ nibble % 2 = 1
     \/ pin = 17 /\ (nibble \div 2) % 2 = 1
     \/ pin = 22 /\ (nibble \div 4) % 2 = 1
     \/ pin = 24 /\ nibble \div 8 = 1}

read_half_byte(pins) ==
  (IF 7 \in pins THEN 1 ELSE 0) + (IF 17 \in pins THEN 2 ELSE 0)
    + (IF 22 \in pins THEN 4 ELSE 0) + (IF 24 \in pins THEN 8 ELSE 0)

-----------------------------------------------------------------------------
(* The interrupt handler.                                                  *)

\* Faulty variant: the first half is not shifted into the high bits.
HighNibbleUnshifted(pins) ==
  /\ sig_flag = 1
  /\ half_byte' = read_half_byte(pins)
  /\ sig_flag' = 0
  /\ UNCHANGED <<buf, head, tail, scheduled>>

HighNibble(pins) ==
  /\ sig_flag = 1
  /\ half_byte' = read_half_byte(pins) * 16
  /\ sig_flag' = 0
  /\ UNCHANGED <<buf, head, tail, scheduled>>

\* Faulty variant: the slot kept free to tell full from empty is given away.
RingNeverFull == CIRC_SPACE(tail, head, BUF_SIZE) < 0

RingFull == CIRC_SPACE(tail, head, BUF_SIZE) = 0

\* Faulty variant: tail runs past the end of the array.
StoreNoWrap(b) ==
  /\ ~RingFull
  /\ buf' = [buf EXCEPT ![tail] = b]
  /\ tail' = tail + 1
  /\ scheduled' = TRUE

Store(b) ==
  /\ ~RingFull
  /\ buf' = [buf EXCEPT ![tail] = b]
  /\ tail' = (tail + 1) % BUF_SIZE
  /\ scheduled' = TRUE

\* No room: a terminator is written to the spare slot, tail stays.
StoreSpare(b) ==
  /\ RingFull
  /\ b = 0
  /\ buf' = [buf EXCEPT ![tail] = b]
  /\ UNCHANGED <<tail, scheduled>>

\* No room for any other byte: it is dropped.
Drop(b) ==
  /\ RingFull
  /\ b # 0
  /\ UNCHANGED <<buf, tail, scheduled>>

\* The low bits of half_byte are clear here, so the bitwise or is a sum.
LowNibble(pins) ==
  /\ sig_flag = 0
  /\ LET b == half_byte + read_half_byte(pins)
     IN  /\ half_byte' = b
         /\ sig_flag' = 1
         /\ Store(b) \/ StoreSpare(b) \/ Drop(b)
  /\ UNCHANGED head

dummyport_interrupt(pins) == HighNibble(pins) \/ LowNibble(pins)

SendHigh(b) ==
  /\ sending = Idle
  /\ sending' = b
  /\ dummyport_interrupt(PinsOf(b \div 16))

SendLow ==
  /\ sending # Idle
  /\ sending' = Idle
  /\ dummyport_interrupt(PinsOf(sending % 16))

Port == (\E b \in Bytes : SendHigh(b)) \/ SendLow

-----------------------------------------------------------------------------
(* What the tasklet does to the circular buffer.                           *)

\* The softirq clears the tasklet's state bit before it calls bottom_half.
Dispatch == scheduled /\ scheduled' = FALSE

Consume(n) == head' = (head + n) % BUF_SIZE

Tasklet ==
  /\ Dispatch
  /\ \E n \in 0..CIRC_CNT(tail, head, BUF_SIZE) : Consume(n)
  /\ UNCHANGED <<buf, tail, half_byte, sig_flag, sending>>

TopInit ==
  /\ buf = [s \in Slots |-> 0]
  /\ head = 0
  /\ tail = 0
  /\ half_byte = 0
  /\ sig_flag = 1
  /\ scheduled = FALSE
  /\ sending = Idle

TopNext == Port \/ Tasklet

TopSpec == TopInit /\ [][TopNext]_topVars

-----------------------------------------------------------------------------
(* Properties.                                                             *)

TopTypeOK ==
  /\ buf \in [Slots -> 0..255]
  /\ head \in Slots
  /\ tail \in Slots
  /\ half_byte \in 0..255
  /\ sig_flag \in {0, 1}
  /\ scheduled \in BOOLEAN
  /\ sending \in Bytes \cup {Idle}

\* A byte that enters the circular buffer (lines 172-175) is the byte the port
\* sent, put together from its two halves: no half is lost, swapped or mixed
\* with one of another byte.
StoredIsSent == [][tail' # tail => buf'[tail] = sending]_topVars

\* The circular buffer is a first-in first-out queue of BUF_SIZE - 1 bytes: a
\* store never overwrites a byte the tasklet has not taken, a byte is dropped
\* only when the buffer is full, and the two ends never confuse full with empty
\* (lines 172-182 and 211, 237).
Fifo == INSTANCE ByteFifo WITH q <- RingContent, offer <- sending, None <- Idle,
                               Byte <- Bytes, Capacity <- BUF_SIZE - 1
RingIsFifo == Fifo!FifoSpec
=============================================================================
