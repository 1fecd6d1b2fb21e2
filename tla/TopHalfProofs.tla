---------------------------- MODULE TopHalfProofs ----------------------------
(***************************************************************************)
(* Proofs about the top half, for every size of the circular buffer and    *)
(* every set of bytes.                                                     *)
(***************************************************************************)
EXTENDS TopHalf, TLAPS

(***************************************************************************)
(* Arithmetic of the ring.                                                 *)
(***************************************************************************)

\* A remainder stays within the ring.
LEMMA RemainderInRange ==
  ASSUME NEW x \in Int PROVE x % BUF_SIZE \in Slots
BY BufSizeAssumption DEF Slots

\* An index that is less than one lap ahead wraps at most once.
LEMMA WrapOnce ==
  ASSUME NEW x \in 0..(2 * BUF_SIZE - 1)
  PROVE  x % BUF_SIZE = IF x < BUF_SIZE THEN x ELSE x - BUF_SIZE
BY BufSizeAssumption

\* How many bytes lie between two indices.
LEMMA CountBetween ==
  ASSUME NEW h \in Slots, NEW t \in Slots
  PROVE  CIRC_CNT(t, h, BUF_SIZE) = IF h <= t THEN t - h ELSE t - h + BUF_SIZE
BY BufSizeAssumption DEF Slots, CIRC_CNT

\* The buffer is full exactly when the slot after tail is head, which is when
\* it holds BUF_SIZE - 1 bytes.
LEMMA FullWhenOneLeft ==
  ASSUME head \in Slots, tail \in Slots
  PROVE  RingFull <=> CIRC_CNT(tail, head, BUF_SIZE) = BUF_SIZE - 1
<1>1. CIRC_SPACE(tail, head, BUF_SIZE) = (head - (tail + 1)) % BUF_SIZE
  BY DEF CIRC_SPACE, CIRC_CNT
<1>2. CASE head <= tail
  <2>1. (head - (tail + 1)) % BUF_SIZE = head - (tail + 1) + BUF_SIZE
    BY <1>2, BufSizeAssumption DEF Slots
  <2> QED BY <1>1, <1>2, <2>1, CountBetween, BufSizeAssumption DEF Slots, RingFull
<1>3. CASE tail < head
  <2>1. (head - (tail + 1)) % BUF_SIZE = head - (tail + 1)
    BY <1>3, BufSizeAssumption DEF Slots
  <2> QED BY <1>1, <1>3, <2>1, CountBetween, BufSizeAssumption DEF Slots, RingFull
<1> QED BY <1>2, <1>3, BufSizeAssumption DEF Slots

(***************************************************************************)
(* Half bytes.                                                             *)
(***************************************************************************)

\* read_half_byte puts the levels of the four pins back together.
LEMMA PinsRoundTrip ==
  ASSUME NEW n \in 0..15 PROVE read_half_byte(PinsOf(n)) = n
<1>1. /\ 7 \in PinsOf(n) <=> n % 2 = 1
      /\ 17 \in PinsOf(n) <=> (n \div 2) % 2 = 1
      /\ 22 \in PinsOf(n) <=> (n \div 4) % 2 = 1
      /\ 24 \in PinsOf(n) <=> n \div 8 = 1
  BY DEF PinsOf
<1>2. n = (n % 2) + (2 * ((n \div 2) % 2)) + (4 * ((n \div 4) % 2)) + (8 * (n \div 8))
  OBVIOUS
<1>3. /\ n % 2 \in {0, 1}
      /\ (n \div 2) % 2 \in {0, 1}
      /\ (n \div 4) % 2 \in {0, 1}
      /\ n \div 8 \in {0, 1}
  OBVIOUS
<1> QED BY <1>1, <1>2, <1>3 DEF read_half_byte

\* Whatever the pins, four of them make a number below sixteen.
LEMMA HalfByteRange ==
  ASSUME NEW pins PROVE read_half_byte(pins) \in 0..15
BY DEF read_half_byte

\* The two halves of a byte are half bytes, and determine it.
LEMMA HalvesOfByte ==
  ASSUME NEW b \in Bytes
  PROVE  /\ b \in 0..255
         /\ b \div 16 \in 0..15
         /\ b % 16 \in 0..15
         /\ b = ((b \div 16) * 16) + (b % 16)
<1>1. b \in 0..255
  BY BytesAssumption
<1> QED BY <1>1

(***************************************************************************)
(* The inductive invariant: the handler and the port agree on which half    *)
(* comes next, and the half kept between two interrupts is the high half of *)
(* the byte being sent.  Type correctness alone is not inductive: without   *)
(* the agreement, half_byte + read_half_byte may exceed 255.                *)
(***************************************************************************)
InStep ==
  /\ sig_flag = 1 <=> sending = Idle
  /\ sending # Idle => half_byte = (sending \div 16) * 16

TopInv == TopTypeOK /\ InStep

LEMMA TopInvInit == TopInit => TopInv
<1> SUFFICES ASSUME TopInit PROVE TopInv
  OBVIOUS
<1>1. buf \in [Slots -> 0..255]
  BY DEF TopInit
<1>2. head \in Slots /\ tail \in Slots /\ half_byte \in 0..255
  BY BufSizeAssumption DEF TopInit, Slots
<1>3. sig_flag \in {0, 1} /\ scheduled \in BOOLEAN /\ sending \in Bytes \cup {Idle}
  BY DEF TopInit
<1>4. InStep
  BY DEF TopInit, InStep
<1> QED BY <1>1, <1>2, <1>3, <1>4 DEF TopInv, TopTypeOK

\* Between bytes the handler waits for a high half: sending one is never taken
\* for a low half.
LEMMA HighStep ==
  ASSUME TopInv, NEW b \in Bytes, SendHigh(b)
  PROVE  /\ sending = Idle /\ sending' = b /\ b # Idle
         /\ half_byte' = (b \div 16) * 16
         /\ sig_flag' = 0
         /\ UNCHANGED <<buf, head, tail, scheduled>>
<1>1. sig_flag = 1
  BY DEF SendHigh, TopInv, InStep
<1>2. HighNibble(PinsOf(b \div 16))
  BY <1>1 DEF SendHigh, dummyport_interrupt, LowNibble
<1>3. read_half_byte(PinsOf(b \div 16)) = b \div 16
  BY HalvesOfByte, PinsRoundTrip
<1>4. b # Idle
  BY HalvesOfByte DEF Idle
<1> QED BY <1>2, <1>3, <1>4 DEF SendHigh, HighNibble

\* After a high half the handler completes the byte the port is sending.
LEMMA LowStep ==
  ASSUME TopInv, SendLow
  PROVE  /\ sending \in Bytes /\ sending' = Idle
         /\ half_byte' = sending
         /\ sig_flag' = 1
         /\ Store(sending) \/ StoreSpare(sending) \/ Drop(sending)
         /\ UNCHANGED head
<1>1. sending \in Bytes /\ sig_flag = 0
  BY DEF SendLow, TopInv, InStep, TopTypeOK
<1>2. LowNibble(PinsOf(sending % 16))
  BY <1>1 DEF SendLow, dummyport_interrupt, HighNibble
<1>3. read_half_byte(PinsOf(sending % 16)) = sending % 16
  BY <1>1, HalvesOfByte, PinsRoundTrip
<1>4. half_byte + read_half_byte(PinsOf(sending % 16)) = sending
  BY <1>1, <1>3, HalvesOfByte DEF TopInv, InStep, SendLow
<1> QED BY <1>1, <1>2, <1>4 DEF SendLow, LowNibble

LEMMA TopInvStep == TopInv /\ [TopNext]_topVars => TopInv'
<1> SUFFICES ASSUME TopInv, [TopNext]_topVars PROVE TopInv'
  OBVIOUS
<1>1. ASSUME NEW b \in Bytes, SendHigh(b) PROVE TopInv'
  <2>1. half_byte' \in 0..255
    BY <1>1, HighStep, HalvesOfByte
  <2>2. TopTypeOK'
    BY <1>1, <2>1, HighStep DEF TopInv, TopTypeOK
  <2>3. InStep'
    BY <1>1, HighStep DEF InStep
  <2> QED BY <2>2, <2>3 DEF TopInv
<1>2. ASSUME SendLow PROVE TopInv'
  <2>1. sending \in 0..255
    BY <1>2, LowStep, HalvesOfByte
  <2>2. buf' \in [Slots -> 0..255] /\ tail' \in Slots /\ scheduled' \in BOOLEAN
    <3>1. CASE Store(sending)
      BY <2>1, <3>1, RemainderInRange DEF Store, TopInv, TopTypeOK, Slots
    <3>2. CASE StoreSpare(sending)
      BY <2>1, <3>2 DEF StoreSpare, TopInv, TopTypeOK
    <3>3. CASE Drop(sending)
      BY <3>3 DEF Drop, TopInv, TopTypeOK
    <3> QED BY <1>2, <3>1, <3>2, <3>3, LowStep
  <2>3. TopTypeOK'
    BY <1>2, <2>1, <2>2, LowStep DEF TopInv, TopTypeOK
  <2>4. InStep'
    BY <1>2, LowStep DEF InStep
  <2> QED BY <2>3, <2>4 DEF TopInv
<1>3. ASSUME Tasklet PROVE TopInv'
  <2>1. PICK n \in 0..CIRC_CNT(tail, head, BUF_SIZE) : Consume(n)
    BY <1>3 DEF Tasklet
  <2>2. CIRC_CNT(tail, head, BUF_SIZE) \in Slots
    BY RemainderInRange DEF CIRC_CNT, TopInv, TopTypeOK, Slots
  <2>3. head' \in Slots
    BY <2>1, <2>2, RemainderInRange DEF Consume, TopInv, TopTypeOK, Slots
  <2> QED BY <1>3, <2>3 DEF Tasklet, Dispatch, TopInv, TopTypeOK, InStep
<1>4. ASSUME UNCHANGED topVars PROVE TopInv'
  BY <1>4 DEF topVars, TopInv, TopTypeOK, InStep
<1> QED BY <1>1, <1>2, <1>3, <1>4 DEF TopNext, Port

THEOREM TopInvariant == TopSpec => []TopInv
BY TopInvInit, TopInvStep, PTL DEF TopSpec

\* The indices stay in the ring and every slot holds a byte.
THEOREM TopTypeCorrect == TopSpec => []TopTypeOK
<1>1. TopInv => TopTypeOK
  BY DEF TopInv
<1> QED BY <1>1, TopInvariant, PTL

\* A byte that enters the ring is the one the port sent, whatever the order in
\* which interrupts and tasklet runs follow one another.
THEOREM HalvesAssembled == TopSpec => StoredIsSent
<1>1. TopInv /\ [TopNext]_topVars => [tail' # tail => buf'[tail] = sending]_topVars
  <2> SUFFICES ASSUME TopInv, TopNext, tail' # tail PROVE buf'[tail] = sending
    BY DEF topVars
  <2>1. ASSUME NEW b \in Bytes, SendHigh(b) PROVE FALSE
    BY <2>1, HighStep
  <2>2. ASSUME SendLow PROVE buf'[tail] = sending
    <3>1. Store(sending)
      BY <2>2, LowStep DEF StoreSpare, Drop
    <3> QED BY <3>1 DEF Store, TopInv, TopTypeOK
  <2>3. ASSUME Tasklet PROVE FALSE
    BY <2>3 DEF Tasklet
  <2> QED BY <2>1, <2>2, <2>3 DEF TopNext, Port
<1> QED BY <1>1, TopInvariant, PTL DEF TopSpec, StoredIsSent

(***************************************************************************)
(* The ring implements the queue of ByteFifo.                              *)
(***************************************************************************)

\* The slot k places after h.
LEMMA SlotAfter ==
  ASSUME NEW h \in Slots, NEW k \in 0..BUF_SIZE
  PROVE  /\ (h + k) % BUF_SIZE = IF h + k < BUF_SIZE THEN h + k ELSE h + k - BUF_SIZE
         /\ (h + k) % BUF_SIZE \in Slots
<1>1. h + k \in 0..(2 * BUF_SIZE - 1)
  BY BufSizeAssumption DEF Slots
<1> QED BY <1>1, WrapOnce, BufSizeAssumption DEF Slots

\* With room for one more byte, the slot written is beyond the content, and
\* the count grows by one.
LEMMA CountAfterStore ==
  ASSUME NEW h \in Slots, NEW t \in Slots,
         CIRC_CNT(t, h, BUF_SIZE) # BUF_SIZE - 1
  PROVE  /\ CIRC_CNT((t + 1) % BUF_SIZE, h, BUF_SIZE) = CIRC_CNT(t, h, BUF_SIZE) + 1
         /\ (h + CIRC_CNT(t, h, BUF_SIZE)) % BUF_SIZE = t
         /\ \A k \in 0..(CIRC_CNT(t, h, BUF_SIZE) - 1) : (h + k) % BUF_SIZE # t
<1> DEFINE u == (t + 1) % BUF_SIZE
           n == CIRC_CNT(t, h, BUF_SIZE)
<1>1. u = (IF t + 1 < BUF_SIZE THEN t + 1 ELSE t + 1 - BUF_SIZE) /\ u \in Slots
  BY SlotAfter, BufSizeAssumption
<1>2. n = IF h <= t THEN t - h ELSE t - h + BUF_SIZE
  BY CountBetween
<1>3. CIRC_CNT(u, h, BUF_SIZE) = IF h <= u THEN u - h ELSE u - h + BUF_SIZE
  BY <1>1, CountBetween
<1>4. n \in 0..(BUF_SIZE - 2)
  BY <1>2, BufSizeAssumption DEF Slots
<1>5. ASSUME NEW k \in 0..n
      PROVE  (h + k) % BUF_SIZE = IF h + k < BUF_SIZE THEN h + k ELSE h + k - BUF_SIZE
  BY <1>4, SlotAfter, BufSizeAssumption
<1> HIDE DEF u, n
<1>6. CIRC_CNT(u, h, BUF_SIZE) = n + 1
  BY <1>1, <1>2, <1>3, <1>4, BufSizeAssumption DEF Slots
<1>7. (h + n) % BUF_SIZE = t
  BY <1>2, <1>4, <1>5, BufSizeAssumption DEF Slots
<1>8. ASSUME NEW k \in 0..(n - 1) PROVE (h + k) % BUF_SIZE # t
  <2>1. k \in 0..n
    BY <1>4
  <2>2. (h + k) % BUF_SIZE = IF h + k < BUF_SIZE THEN h + k ELSE h + k - BUF_SIZE
    BY <2>1, <1>5
  <2> QED BY <2>2, <1>2, <1>4, BufSizeAssumption DEF Slots
<1> QED BY <1>6, <1>7, <1>8 DEF u, n

\* Taking c bytes leaves the others where they are.
LEMMA CountAfterTake ==
  ASSUME NEW h \in Slots, NEW t \in Slots, NEW c \in 0..CIRC_CNT(t, h, BUF_SIZE)
  PROVE  /\ CIRC_CNT(t, (h + c) % BUF_SIZE, BUF_SIZE) = CIRC_CNT(t, h, BUF_SIZE) - c
         /\ \A k \in 0..(CIRC_CNT(t, h, BUF_SIZE) - c) :
              (((h + c) % BUF_SIZE) + k) % BUF_SIZE = (h + (c + k)) % BUF_SIZE
<1> DEFINE g == (h + c) % BUF_SIZE
           n == CIRC_CNT(t, h, BUF_SIZE)
<1>1. n = IF h <= t THEN t - h ELSE t - h + BUF_SIZE
  BY CountBetween
<1>2. n \in 0..(BUF_SIZE - 1) /\ c \in 0..n
  BY <1>1, BufSizeAssumption DEF Slots
<1>3. g = (IF h + c < BUF_SIZE THEN h + c ELSE h + c - BUF_SIZE) /\ g \in Slots
  BY <1>2, SlotAfter, BufSizeAssumption
<1>4. CIRC_CNT(t, g, BUF_SIZE) = IF g <= t THEN t - g ELSE t - g + BUF_SIZE
  BY <1>3, CountBetween
<1>5. ASSUME NEW k \in 0..(n - c)
      PROVE  /\ (g + k) % BUF_SIZE = IF g + k < BUF_SIZE THEN g + k ELSE g + k - BUF_SIZE
             /\ (h + (c + k)) % BUF_SIZE =
                  IF h + (c + k) < BUF_SIZE THEN h + (c + k) ELSE h + (c + k) - BUF_SIZE
  <2>1. k \in 0..BUF_SIZE /\ c + k \in 0..BUF_SIZE
    BY <1>2, BufSizeAssumption
  <2> QED BY <2>1, <1>3, SlotAfter
<1> HIDE DEF g, n
<1>6. CIRC_CNT(t, g, BUF_SIZE) = n - c
  BY <1>1, <1>2, <1>3, <1>4, BufSizeAssumption DEF Slots
<1>7. ASSUME NEW k \in 0..(n - c)
      PROVE  (g + k) % BUF_SIZE = (h + (c + k)) % BUF_SIZE
  BY <1>1, <1>2, <1>3, <1>5, BufSizeAssumption DEF Slots
<1> QED BY <1>6, <1>7 DEF g, n

\* A function on 1..n is a sequence of length n.
LEMMA SequenceOfFunction ==
  ASSUME NEW S, NEW n \in Nat, NEW s \in [1..n -> S]
  PROVE  s \in Seq(S) /\ Len(s) = n
OBVIOUS

RingContentOK ==
  /\ CIRC_CNT(tail, head, BUF_SIZE) \in 0..(BUF_SIZE - 1)
  /\ RingContent \in Seq(0..255)
  /\ Len(RingContent) = CIRC_CNT(tail, head, BUF_SIZE)
  /\ \A k \in 1..CIRC_CNT(tail, head, BUF_SIZE) :
       RingContent[k] = buf[(head + k - 1) % BUF_SIZE]

\* What the ring holds is a sequence of bytes, of the length CIRC_CNT counts.
LEMMA RingContentType == TopTypeOK => RingContentOK
<1> SUFFICES ASSUME TopTypeOK PROVE RingContentOK
  OBVIOUS
<1>1. CIRC_CNT(tail, head, BUF_SIZE) \in 0..(BUF_SIZE - 1)
  <2>1. tail \in Slots /\ head \in Slots
    BY DEF TopTypeOK
  <2> QED BY <2>1, CountBetween, BufSizeAssumption DEF Slots
<1>2. ASSUME NEW k \in 1..CIRC_CNT(tail, head, BUF_SIZE)
      PROVE  buf[(head + k - 1) % BUF_SIZE] \in 0..255
  <2>1. head + k - 1 \in Int
    BY <1>1, BufSizeAssumption DEF TopTypeOK, Slots
  <2> QED BY <2>1, RemainderInRange DEF TopTypeOK
<1>3. RingContent \in [1..CIRC_CNT(tail, head, BUF_SIZE) -> 0..255]
  BY <1>2 DEF RingContent
<1>4. \A k \in 1..CIRC_CNT(tail, head, BUF_SIZE) :
        RingContent[k] = buf[(head + k - 1) % BUF_SIZE]
  BY DEF RingContent
<1> HIDE DEF RingContent
<1>5. CIRC_CNT(tail, head, BUF_SIZE) \in Nat
  BY <1>1
<1>6. RingContent \in Seq(0..255) /\ Len(RingContent) = CIRC_CNT(tail, head, BUF_SIZE)
  BY <1>3, <1>5, SequenceOfFunction
<1> QED BY <1>1, <1>4, <1>6 DEF RingContentOK

LEMMA RingContentTypeNext == TopTypeOK' => RingContentOK'
BY RingContentType, PTL

\* A store appends to the content.
LEMMA StoreIsPut ==
  ASSUME TopTypeOK, TopTypeOK', NEW b \in 0..255, Store(b), UNCHANGED head
  PROVE  Len(RingContent) < BUF_SIZE - 1 /\ RingContent' = Append(RingContent, b)
<1> DEFINE n == CIRC_CNT(tail, head, BUF_SIZE)
<1>1. /\ n \in 0..(BUF_SIZE - 1)
      /\ RingContent \in Seq(0..255)
      /\ Len(RingContent) = n
      /\ \A k \in 1..n : RingContent[k] = buf[(head + k - 1) % BUF_SIZE]
  BY RingContentType DEF RingContentOK
<1>2. /\ CIRC_CNT(tail', head', BUF_SIZE) \in 0..(BUF_SIZE - 1)
      /\ RingContent' \in Seq(0..255)
      /\ Len(RingContent') = CIRC_CNT(tail', head', BUF_SIZE)
      /\ \A k \in 1..CIRC_CNT(tail', head', BUF_SIZE) :
           RingContent'[k] = buf'[(head' + k - 1) % BUF_SIZE]
  BY RingContentTypeNext DEF RingContentOK
<1>3. n # BUF_SIZE - 1
  BY FullWhenOneLeft DEF Store, TopTypeOK
<1>4. head \in Slots /\ tail \in Slots /\ head' = head /\ tail' = (tail + 1) % BUF_SIZE
  BY DEF Store, TopTypeOK
<1>5. /\ CIRC_CNT(tail', head', BUF_SIZE) = n + 1
      /\ (head + n) % BUF_SIZE = tail
      /\ \A k \in 0..(n - 1) : (head + k) % BUF_SIZE # tail
  BY <1>3, <1>4, CountAfterStore
<1> HIDE DEF n
<1>6. RingContent'[n + 1] = b
  <2>1. head' + (n + 1) - 1 = head + n
    BY <1>1, <1>4, BufSizeAssumption DEF Slots
  <2>2. RingContent'[n + 1] = buf'[tail]
    BY <1>1, <1>2, <1>5, <2>1
  <2> QED BY <2>2 DEF Store, TopTypeOK
<1>7. ASSUME NEW k \in 1..n PROVE RingContent'[k] = RingContent[k]
  <2>1. /\ head + k - 1 = head + (k - 1)
        /\ k - 1 \in 0..(n - 1)
        /\ head + (k - 1) \in Int
    BY <1>1, <1>4, BufSizeAssumption DEF Slots
  <2>2. (head + k - 1) % BUF_SIZE \in Slots /\ (head + k - 1) % BUF_SIZE # tail
    BY <1>5, <2>1, RemainderInRange
  <2>3. buf'[(head + k - 1) % BUF_SIZE] = buf[(head + k - 1) % BUF_SIZE]
    BY <2>2 DEF Store, TopTypeOK
  <2>4. k \in 1..(n + 1)
    BY <1>1
  <2> QED BY <1>1, <1>2, <1>4, <1>5, <2>3, <2>4
<1>8. RingContent' = Append(RingContent, b)
  BY <1>1, <1>2, <1>5, <1>6, <1>7
<1>9. Len(RingContent) < BUF_SIZE - 1
  BY <1>1, <1>3, BufSizeAssumption
<1> QED BY <1>8, <1>9

\* Advancing head takes a prefix of the content.
LEMMA ConsumeIsTake ==
  ASSUME TopTypeOK, TopTypeOK', NEW c \in 0..CIRC_CNT(tail, head, BUF_SIZE),
         Consume(c), UNCHANGED <<buf, tail, sending>>
  PROVE  c \in 0..Len(RingContent) /\ Fifo!Take(c)
<1> DEFINE n == CIRC_CNT(tail, head, BUF_SIZE)
<1>1. /\ n \in 0..(BUF_SIZE - 1)
      /\ RingContent \in Seq(0..255)
      /\ Len(RingContent) = n
      /\ \A k \in 1..n : RingContent[k] = buf[(head + k - 1) % BUF_SIZE]
  BY RingContentType DEF RingContentOK
<1>2. /\ RingContent' \in Seq(0..255)
      /\ Len(RingContent') = CIRC_CNT(tail', head', BUF_SIZE)
      /\ \A k \in 1..CIRC_CNT(tail', head', BUF_SIZE) :
           RingContent'[k] = buf'[(head' + k - 1) % BUF_SIZE]
  BY RingContentTypeNext DEF RingContentOK
<1>3. /\ head \in Slots /\ tail \in Slots /\ buf' = buf /\ tail' = tail
      /\ head' = (head + c) % BUF_SIZE /\ head' \in Slots
  BY DEF Consume, TopTypeOK
<1>4. /\ CIRC_CNT(tail', head', BUF_SIZE) = n - c
      /\ \A k \in 0..(n - c) :
           (head' + k) % BUF_SIZE = (head + (c + k)) % BUF_SIZE
  BY <1>3, CountAfterTake
<1> HIDE DEF n
<1>5. c \in 0..n
  BY DEF n
<1>6. ASSUME NEW k \in 1..(n - c) PROVE RingContent'[k] = RingContent[c + k]
  <2>1. /\ k - 1 \in 0..(n - c)
        /\ c + k \in 1..n
        /\ head' + k - 1 = head' + (k - 1)
        /\ head + (c + k) - 1 = head + (c + (k - 1))
    BY <1>1, <1>3, <1>5, BufSizeAssumption DEF Slots
  <2>2. (head' + k - 1) % BUF_SIZE = (head + (c + k) - 1) % BUF_SIZE
    BY <1>4, <2>1
  <2> QED BY <1>1, <1>2, <1>3, <1>4, <2>1, <2>2
<1>7. RingContent' = SubSeq(RingContent, c + 1, Len(RingContent))
  BY <1>1, <1>2, <1>4, <1>5, <1>6
<1> QED BY <1>1, <1>5, <1>7 DEF Fifo!Take

\* Advancing head by nothing leaves the queue alone.
LEMMA ConsumeStep ==
  ASSUME TopTypeOK, TopTypeOK', NEW c \in 0..CIRC_CNT(tail, head, BUF_SIZE),
         Consume(c), UNCHANGED <<buf, tail, sending>>
  PROVE  [Fifo!FifoNext]_<<RingContent, sending>>
<1>1. c \in 0..Len(RingContent) /\ Fifo!Take(c)
  BY ConsumeIsTake
<1>2. RingContent \in Seq(0..255)
  BY RingContentType DEF RingContentOK
<1>3. CASE c = 0
  BY <1>1, <1>2, <1>3 DEF Fifo!Take
<1>4. CASE c # 0
  BY <1>1, <1>2, <1>4 DEF Fifo!FifoNext
<1> QED BY <1>3, <1>4

\* Every step of the top half is a step of the queue, or leaves it alone.
LEMMA RingStep ==
  ASSUME TopInv, TopInv', [TopNext]_topVars
  PROVE  [Fifo!FifoNext]_<<RingContent, sending>>
<1>1. TopTypeOK /\ TopTypeOK'
  BY DEF TopInv
<1>2. ASSUME UNCHANGED ringVars PROVE UNCHANGED RingContent
  BY <1>2 DEF ringVars, RingContent
<1>3. ASSUME NEW b \in Bytes, SendHigh(b) PROVE [Fifo!FifoNext]_<<RingContent, sending>>
  <2>1. RingContent' = RingContent /\ sending = Idle /\ sending' = b
    BY <1>2, <1>3, HighStep DEF ringVars
  <2>2. Fifo!Offer(b)
    BY <2>1 DEF Fifo!Offer
  <2> QED BY <2>2 DEF Fifo!FifoNext
<1>4. ASSUME SendLow, RingFull, UNCHANGED RingContent PROVE Fifo!Refuse
  <2>1. Len(RingContent) = BUF_SIZE - 1
    BY <1>1, <1>4, FullWhenOneLeft, RingContentType DEF TopTypeOK, RingContentOK
  <2> QED BY <1>4, <2>1 DEF Fifo!Refuse, SendLow
<1>5. ASSUME SendLow PROVE [Fifo!FifoNext]_<<RingContent, sending>>
  <2>1. sending \in Bytes /\ sending \in 0..255 /\ UNCHANGED head
    BY <1>5, LowStep, HalvesOfByte
  <2>2. CASE Store(sending)
    <3>1. Len(RingContent) < BUF_SIZE - 1 /\ RingContent' = Append(RingContent, sending)
      BY <1>1, <2>1, <2>2, StoreIsPut
    <3>2. Fifo!Put
      BY <1>5, <3>1 DEF Fifo!Put, SendLow
    <3> QED BY <3>2 DEF Fifo!FifoNext
  <2>3. CASE StoreSpare(sending)
    \* the slot written is the one between the last byte and the first
    <3>1. /\ CIRC_CNT(tail, head, BUF_SIZE) \in 0..(BUF_SIZE - 1)
          /\ head \in Slots /\ tail \in Slots
      BY <1>1, RingContentType DEF TopTypeOK, RingContentOK
    <3>2. tail = (head + CIRC_CNT(tail, head, BUF_SIZE)) % BUF_SIZE
      <4>1. (head + CIRC_CNT(tail, head, BUF_SIZE)) % BUF_SIZE
              = IF head + CIRC_CNT(tail, head, BUF_SIZE) < BUF_SIZE
                THEN head + CIRC_CNT(tail, head, BUF_SIZE)
                ELSE head + CIRC_CNT(tail, head, BUF_SIZE) - BUF_SIZE
        BY <3>1, SlotAfter, BufSizeAssumption
      <4> QED BY <3>1, <4>1, CountBetween, BufSizeAssumption DEF Slots
    <3>3. ASSUME NEW k \in 1..CIRC_CNT(tail, head, BUF_SIZE)
          PROVE  (head + k - 1) % BUF_SIZE # tail
      <4> DEFINE j == k - 1
      <4>1. j \in 0..BUF_SIZE /\ j < CIRC_CNT(tail, head, BUF_SIZE)
        BY <3>1, BufSizeAssumption
      <4>2. (head + j) % BUF_SIZE
              = IF head + j < BUF_SIZE THEN head + j ELSE head + j - BUF_SIZE
        BY <3>1, <4>1, SlotAfter
      <4>3. head + k - 1 = head + j
        BY <3>1 DEF Slots
      <4> HIDE DEF j
      <4>4. CIRC_CNT(tail, head, BUF_SIZE)
              = IF head <= tail THEN tail - head ELSE tail - head + BUF_SIZE
        BY <3>1, CountBetween
      <4>5. (head + j) % BUF_SIZE # tail
        <5>1. CASE head + j < BUF_SIZE
          BY <3>1, <4>1, <4>2, <4>4, <5>1, BufSizeAssumption DEF Slots
        <5>2. CASE ~(head + j < BUF_SIZE)
          BY <3>1, <4>1, <4>2, <4>4, <5>2, BufSizeAssumption DEF Slots
        <5> QED BY <5>1, <5>2
      <4> QED BY <4>3, <4>5
    <3>4. /\ tail' = tail /\ head' = head
          /\ buf' = [buf EXCEPT ![tail] = sending]
      BY <2>1, <2>3 DEF StoreSpare
    <3>5. \A k \in 1..CIRC_CNT(tail, head, BUF_SIZE) :
            buf'[(head + k - 1) % BUF_SIZE] = buf[(head + k - 1) % BUF_SIZE]
      BY <1>1, <3>3, <3>4 DEF TopTypeOK
    <3>6. UNCHANGED RingContent
      BY <3>4, <3>5 DEF RingContent
    <3> QED BY <1>4, <1>5, <2>3, <3>6 DEF StoreSpare, Fifo!FifoNext
  <2>4. CASE Drop(sending)
    <3>1. UNCHANGED RingContent
      BY <1>2, <2>1, <2>4 DEF Drop, ringVars
    <3> QED BY <1>4, <1>5, <2>4, <3>1 DEF Drop, Fifo!FifoNext
  <2> QED BY <1>5, <2>2, <2>3, <2>4, LowStep
<1>6. ASSUME Tasklet PROVE [Fifo!FifoNext]_<<RingContent, sending>>
  <2>1. PICK c \in 0..CIRC_CNT(tail, head, BUF_SIZE) : Consume(c)
    BY <1>6 DEF Tasklet
  <2> QED BY <1>1, <1>6, <2>1, ConsumeStep DEF Tasklet
<1>7. ASSUME UNCHANGED topVars PROVE UNCHANGED <<RingContent, sending>>
  BY <1>2, <1>7 DEF topVars, ringVars
<1> QED BY <1>3, <1>5, <1>6, <1>7 DEF TopNext, Port

\* The circular buffer is a first-in first-out queue of BUF_SIZE - 1 bytes.
THEOREM RingRefinesFifo == TopSpec => RingIsFifo
<1>1. TopInit => RingContent = <<>> /\ sending = Idle
  <2> SUFFICES ASSUME TopInit PROVE RingContent = <<>> /\ sending = Idle
    OBVIOUS
  <2>1. CIRC_CNT(tail, head, BUF_SIZE) = 0
    BY CountBetween, BufSizeAssumption DEF TopInit, Slots
  <2> QED BY <2>1 DEF RingContent, TopInit
<1> QED BY <1>1, RingStep, TopInvariant, PTL
        DEF TopSpec, RingIsFifo, Fifo!FifoSpec, Fifo!FifoInit
=============================================================================
