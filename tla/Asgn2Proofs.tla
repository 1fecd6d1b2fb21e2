----------------------------- MODULE Asgn2Proofs -----------------------------
(***************************************************************************)
(* Proofs about the asgn2 driver as a whole: for every size of the ring    *)
(* and of a page, every width of size_t, and whatever interrupts whatever. *)
(***************************************************************************)
EXTENDS Asgn2, TopHalfProofs, AdmissionProofs, QueueLemmas, WellFoundedInduction

(***************************************************************************)
(* The inductive invariant, in parts.                                      *)
(***************************************************************************)

Page == [Offsets -> 0..255]

\* The page queue is made of pages and of numbers of the right range.
QueueOK ==
  /\ page_queue \in [head_index : Int, tail_index : Int,
                     head_offset : 0..PAGE_SIZE, tail_offset : Offsets]
  /\ mem_list \in Seq(Page)
  /\ num_pages \in Int
  /\ data_size \in 0..(SIZE_RANGE - 1)
  /\ wait_flag \in {0, 1}

\* The batch the tasklet has counted is still in the ring: only the tasklet
\* takes bytes out.
BatchInRing ==
  /\ bh \in [pc : {"idle", "count", "copy"}, count : Slots]
  /\ bh.pc = "copy" => bh.count <= CIRC_CNT(tail, head, BUF_SIZE)

Before == {"set_wait", "wait", "asleep"}
InLoop == {"page", "free", "num", "store_num", "indices"}
Places == {"idle", "store_tail", "size", "store_size"} \cup Before \cup InLoop

\* A read under way: what its local variables mean at each place.
ReadOK ==
  /\ rd \in [pc : Places, size : Nat, actual : Nat, pos : Nat, more : BOOLEAN,
             freed : Nat, eof : BOOLEAN, reg : Int]
  /\ rd.pc # "idle" => fd[reader] = "open"
  /\ rd.pc \in Before => rd.freed = 0 /\ ubuf = <<>>
  /\ rd.pc = "free" => rd.pos < Len(mem_list)

\* The mark is up only between reads or at the end of one, and never at the
\* place behind a page.  A terminator met in the loop is within its page.
MarkOK ==
  /\ null_location # PAGE_SIZE
  /\ rd.pc \in Before \cup InLoop \cup {"store_tail"} => null_location = -1
  /\ rd.pc = "page" => null_flag = 0
  /\ rd.pc \in InLoop \cup {"store_tail"} /\ null_flag = 1
       => page_queue.head_offset # PAGE_SIZE

\* What the user has got is bytes.
UserOK == ubuf \in Seq(0..255)

Asgn2Inv ==
  /\ TopInv /\ AdmInv
  /\ QueueOK /\ BatchInRing /\ ReadOK /\ MarkOK /\ UserOK
  /\ NoNullDelivered /\ UserBufferKept /\ MarkAtHead /\ HeadInFirstPage

(***************************************************************************)
(* Arithmetic and sequences.                                               *)
(***************************************************************************)

\* A nonempty set of naturals up to a bound has a greatest element, and Max is
\* it.  The greatest is as far as possible below the bound: NatLessThanWellFounded.
LEMMA MaxOfBounded ==
  ASSUME NEW limit \in Nat, NEW S \in SUBSET (0..limit), S # {}
  PROVE  Max(S) \in S /\ \A x \in S : x <= Max(S)
<1> DEFINE T == {limit - x : x \in S}
<1>1. T \subseteq Nat /\ T # {}
  OBVIOUS
<1>2. \E y \in T : \A z \in T : ~(<<z, y>> \in OpToRel(<, Nat))
  BY <1>1, WFMin, NatLessThanWellFounded
<1>3. PICK y \in T : \A z \in T : ~(<<z, y>> \in OpToRel(<, Nat))
  BY <1>2
<1>4. \A z \in T : ~(z < y)
  BY <1>1, <1>3 DEF OpToRel
<1>5. PICK m \in S : y = limit - m
  OBVIOUS
<1>6. ASSUME NEW x \in S PROVE m >= x
  <2>1. ~(limit - x < limit - m)
    BY <1>4, <1>5
  <2> QED BY <2>1
<1>7. \E x \in S : \A z \in S : x >= z
  BY <1>6
<1> QED BY <1>7 DEF Max

LEMMA ConcatType ==
  ASSUME NEW S, NEW s \in Seq(S), NEW t \in Seq(S)
  PROVE  s \o t \in Seq(S) /\ Len(s \o t) = Len(s) + Len(t)
OBVIOUS

LEMMA ElementType ==
  ASSUME NEW S, NEW s \in Seq(S)
  PROVE  /\ Len(s) \in Nat /\ DOMAIN s = 1..Len(s) /\ s \in [1..Len(s) -> S]
         /\ \A i \in DOMAIN s : s[i] \in S
OBVIOUS

\* Pages that were never written hold bytes all the same.
LEMMA NewPagesProperties ==
  ASSUME NEW n \in Nat, NEW g \in Garbage
  PROVE  NewPages(n, g) \in Seq(Page) /\ Len(NewPages(n, g)) = n
<1>1. [o \in Offsets |-> g] \in Page
  BY GarbageAssumption DEF Page
<1>2. NewPages(n, g) \in [1..n -> Page]
  BY <1>1 DEF NewPages
<1> HIDE DEF NewPages
<1> QED BY <1>2, SequenceOfFunction

LEMMA ReaderInProcs == reader \in Procs /\ Procs = {reader}
<1>1. \E p : Procs = {p}
  BY OneReader, ProcsAssumption, FS_Singleton
<1> QED BY <1>1 DEF reader

LEMMA SizesPositive == PAGE_SIZE \in Nat \ {0} /\ BUF_SIZE \in Nat \ {0} /\ 0 \in Offsets
BY PageAssumption, BufSizeAssumption DEF Offsets

(***************************************************************************)
(* The initial states.                                                     *)
(***************************************************************************)

LEMMA Asgn2InvInit == Init => Asgn2Inv
<1> SUFFICES ASSUME Init PROVE Asgn2Inv
  OBVIOUS
<1>1. TopInv /\ AdmInv
  BY TopInvInit, AdmInvInit DEF Init
<1>2. QueueOK
  BY SizesPositive, SizeRangeAssumption DEF Init, QueueOK
<1>3. BatchInRing
  BY BufSizeAssumption DEF Init, BatchInRing, Slots
<1>4. ReadOK /\ UserOK
  BY DEF Init, ReadOK, UserOK, Places, Before
<1>5. MarkOK /\ MarkAtHead
  BY SizesPositive DEF Init, MarkOK, MarkAtHead, Before, InLoop
<1>6. NoNullDelivered /\ UserBufferKept /\ HeadInFirstPage
  BY DEF Init, NoNullDelivered, UserBufferKept, HeadInFirstPage, Looping
<1> QED BY <1>1, <1>2, <1>3, <1>4, <1>5, <1>6 DEF Asgn2Inv

(***************************************************************************)
(* The ring and the port.                                                  *)
(***************************************************************************)

LEMMA CountInSlots ==
  ASSUME TopTypeOK PROVE CIRC_CNT(tail, head, BUF_SIZE) \in Slots
BY RemainderInRange DEF CIRC_CNT, TopTypeOK, Slots

\* An interrupt takes nothing out of the ring.
LEMMA InterruptKeepsBatch ==
  ASSUME TopInv, (\E b \in Bytes : SendHigh(b)) \/ SendLow
  PROVE  /\ TopInv'
         /\ head' = head
         /\ CIRC_CNT(tail, head, BUF_SIZE) <= CIRC_CNT(tail', head', BUF_SIZE)
<1>1. TopInv'
  BY TopInvStep DEF TopNext, Port
<1>2. CIRC_CNT(tail, head, BUF_SIZE) \in Slots /\ head \in Slots /\ tail \in Slots
  BY CountInSlots DEF TopInv, TopTypeOK
<1>3. ASSUME NEW b \in Bytes, SendHigh(b)
      PROVE  UNCHANGED <<head, tail>>
  BY <1>3, HighStep
<1>4. ASSUME SendLow
      PROVE  /\ head' = head
             /\ CIRC_CNT(tail, head, BUF_SIZE) <= CIRC_CNT(tail', head', BUF_SIZE)
  <2>1. head' = head /\ (Store(sending) \/ UNCHANGED tail)
    BY <1>4, LowStep DEF StoreSpare, Drop
  <2>2. CASE Store(sending)
    <3>1. CIRC_CNT(tail, head, BUF_SIZE) # BUF_SIZE - 1
      BY <1>2, <2>2, FullWhenOneLeft DEF Store
    <3>2. CIRC_CNT(tail', head', BUF_SIZE) = CIRC_CNT(tail, head, BUF_SIZE) + 1
      BY <1>2, <2>1, <2>2, <3>1, CountAfterStore DEF Store
    <3> QED BY <1>2, <2>1, <3>2 DEF Slots
  <2>3. CASE UNCHANGED tail
    BY <1>2, <2>1, <2>3 DEF Slots
  <2> QED BY <2>1, <2>2, <2>3
<1> QED BY <1>1, <1>2, <1>3, <1>4 DEF Slots

(***************************************************************************)
(* The tasklet.                                                            *)
(***************************************************************************)

LEMMA PagesMissingType ==
  ASSUME QueueOK, BatchInRing PROVE PagesMissing \in Nat
<1>1. data_size + bh.count \in Int
  BY DEF QueueOK, BatchInRing, Slots
<1>2. (data_size + bh.count) % SIZE_RANGE \in Int
  BY <1>1, SizeRangeAssumption
<1>3. ((((data_size + bh.count) % SIZE_RANGE) + PAGE_SIZE - 1) \div PAGE_SIZE) - num_pages \in Int
  BY <1>2, SizesPositive DEF QueueOK
<1> QED BY <1>3 DEF PagesMissing, Greater

\* What a run of the tasklet that copies a batch of n does to the queue.
CopiesBatch(n) ==
  /\ n \in 0..bh.count
  /\ Consume(n)
  /\ page_queue' \in [head_index : {page_queue.head_index}, tail_index : Int,
                       head_offset : {page_queue.head_offset}, tail_offset : Offsets]
  /\ mem_list' \in Seq(Page)
  /\ Len(mem_list) <= Len(mem_list')
  /\ num_pages' \in Int
  /\ data_size' \in 0..(SIZE_RANGE - 1)

LEMMA BhCopyBatch ==
  ASSUME Asgn2Inv, NEW g \in Garbage, BhCopy(g) PROVE \E n : CopiesBatch(n)
<1> DEFINE pages == mem_list \o NewPages(PagesMissing, g)
           off   == page_queue.tail_offset
           start == Greater(0, page_queue.tail_index) * PAGE_SIZE + off
           n     == Lesser(bh.count, Greater(0, Len(pages) * PAGE_SIZE - start))
           first == Lesser(n, PAGE_SIZE - off)
           place(i, o) == (i - 1) * PAGE_SIZE + o - start
           begin_offset == IF n = 0 THEN 0 ELSE (off + n) % PAGE_SIZE
<1>1. /\ mem_list' =
           [i \in DOMAIN pages |-> [o \in Offsets |->
              IF place(i, o) \in 0..(n - 1) THEN BatchByte(place(i, o), first, g)
              ELSE pages[i][o]]]
      /\ num_pages' = num_pages + PagesMissing
      /\ data_size' = (data_size + n) % SIZE_RANGE
      /\ page_queue' = [page_queue EXCEPT
                          !.tail_index = IF begin_offset = 0 THEN @ + 1 ELSE @,
                          !.tail_offset = begin_offset]
      /\ Consume(n)
  BY DEF BhCopy
<1>2. PagesMissing \in Nat
  BY PagesMissingType DEF Asgn2Inv
<1>3. NewPages(PagesMissing, g) \in Seq(Page)
  BY <1>2, NewPagesProperties
<1>4. pages \in Seq(Page) /\ Len(mem_list) <= Len(pages)
  BY <1>3 DEF Asgn2Inv, QueueOK
<1>5. /\ page_queue \in [head_index : Int, tail_index : Int,
                          head_offset : 0..PAGE_SIZE, tail_offset : Offsets]
      /\ off \in Offsets /\ bh.count \in Slots
      /\ data_size \in 0..(SIZE_RANGE - 1)
  BY DEF Asgn2Inv, QueueOK, BatchInRing
<1> HIDE DEF pages
<1>6. Len(pages) * PAGE_SIZE \in Int /\ start \in Int
  <2>1. \A x, y \in Int : x * y \in Int
    OBVIOUS
  <2>2. Len(pages) \in Int /\ Greater(0, page_queue.tail_index) \in Int
    BY <1>4, <1>5 DEF Greater
  <2> QED BY <1>5, <2>1, <2>2, SizesPositive DEF Offsets
<1> HIDE DEF off, start
<1>7. n \in 0..bh.count
  BY <1>5, <1>6 DEF Lesser, Greater, Slots
<1> HIDE DEF n
<1>8. first \in 0..n
  BY <1>5, <1>7, SizesPositive DEF Lesser, Slots, Offsets
<1>9. ASSUME NEW k \in 0..(n - 1) PROVE BatchByte(k, first, g) \in 0..255
  <2>1. head \in Slots /\ buf \in [Slots -> 0..255]
    BY DEF Asgn2Inv, TopInv, TopTypeOK
  <2> DEFINE src == IF k < first THEN head + k
                    ELSE ((head + first) % BUF_SIZE) + (k - first)
  <2>2. (head + first) % BUF_SIZE \in Slots
    <3>1. head + first \in Int
      BY <1>5, <1>7, <1>8, <2>1 DEF Slots
    <3> QED BY <3>1, RemainderInRange
  <2>3. src \in Nat
    BY <1>5, <1>7, <1>8, <2>1, <2>2 DEF Slots
  <2>4. BatchByte(k, first, g) = IF src < BUF_SIZE THEN buf[src] ELSE g
    BY DEF BatchByte
  <2> HIDE DEF src
  <2>5. src < BUF_SIZE => src \in Slots
    BY <2>3, BufSizeAssumption DEF Slots
  <2> QED BY <2>1, <2>4, <2>5, GarbageAssumption
<1> HIDE DEF first, place
<1>10. mem_list' \in Seq(Page) /\ Len(mem_list') = Len(pages)
  <2>1. DOMAIN pages = 1..Len(pages) /\ Len(pages) \in Nat
    BY <1>4
  <2>2. \A i \in DOMAIN pages : pages[i] \in Page
    BY <1>4
  <2>3. \A i \in DOMAIN pages : mem_list'[i] \in Page
    BY <1>1, <1>9, <2>2 DEF Page
  <2>4. mem_list' \in [1..Len(pages) -> Page]
    BY <1>1, <2>1, <2>3
  <2> QED BY <2>1, <2>4, SequenceOfFunction
<1>11. begin_offset \in Offsets
  BY <1>5, <1>7, SizesPositive DEF Offsets, Slots
<1> HIDE DEF begin_offset
<1>12. page_queue' \in [head_index : {page_queue.head_index}, tail_index : Int,
                        head_offset : {page_queue.head_offset}, tail_offset : Offsets]
  <2> DEFINE index == IF begin_offset = 0 THEN page_queue.tail_index + 1
                      ELSE page_queue.tail_index
  <2>1. page_queue' = [page_queue EXCEPT !.tail_index = index,
                                         !.tail_offset = begin_offset]
    BY <1>1
  <2>2. index \in Int
    BY <1>5
  <2> HIDE DEF index
  <2> QED BY <1>5, <1>11, <2>1, <2>2
<1>13. num_pages' \in Int
  BY <1>1, <1>2 DEF Asgn2Inv, QueueOK
<1>14. data_size' \in 0..(SIZE_RANGE - 1)
  BY <1>1, <1>5, <1>7, SizeRangeAssumption DEF Slots
<1>15. Len(mem_list) <= Len(mem_list')
  BY <1>4, <1>10
<1> QED BY <1>1, <1>7, <1>10, <1>12, <1>13, <1>14, <1>15 DEF CopiesBatch

(***************************************************************************)
(* Steps of the port and of the tasklet preserve the invariant.            *)
(***************************************************************************)

\* What the invariant says of the reader and of the queue.
ReaderInv ==
  /\ QueueOK /\ ReadOK /\ MarkOK /\ UserOK
  /\ NoNullDelivered /\ UserBufferKept /\ MarkAtHead /\ HeadInFirstPage

LEMMA ReaderFrame ==
  ASSUME ReaderInv,
         UNCHANGED <<admVars, queueVars, null_location, wait_flag, rd, ubuf>>
  PROVE  ReaderInv'
BY DEF ReaderInv, QueueOK, ReadOK, MarkOK, UserOK, NoNullDelivered, UserBufferKept,
       MarkAtHead, HeadInFirstPage, Looping, admVars, queueVars

LEMMA AdmFrame == ASSUME AdmInv, UNCHANGED admVars PROVE AdmInv'
BY AdmInvStep

LEMMA RingFrame ==
  ASSUME TopInv, BatchInRing, UNCHANGED <<topVars, bh>>
  PROVE  TopInv' /\ BatchInRing'
BY TopInvStep DEF BatchInRing, topVars

LEMMA PortStep ==
  ASSUME Asgn2Inv, (\E b \in Bytes : PortHigh(b)) \/ PortLow
  PROVE  Asgn2Inv'
<1>1. /\ (\E b \in Bytes : SendHigh(b)) \/ SendLow
      /\ UNCHANGED <<admVars, queueVars, null_location, wait_flag, bh, rd, ubuf>>
  BY DEF PortHigh, PortLow
<1>2. /\ TopInv' /\ head' = head
      /\ CIRC_CNT(tail, head, BUF_SIZE) <= CIRC_CNT(tail', head', BUF_SIZE)
  BY <1>1, InterruptKeepsBatch DEF Asgn2Inv
<1>3. BatchInRing'
  <2>1. bh.count \in Slots /\ CIRC_CNT(tail, head, BUF_SIZE) \in Slots
    BY CountInSlots DEF Asgn2Inv, BatchInRing, TopInv
  <2>2. CIRC_CNT(tail', head', BUF_SIZE) \in Slots
    BY <1>2, RemainderInRange DEF CIRC_CNT, TopInv, TopTypeOK, Slots
  <2> QED BY <1>1, <1>2, <2>1, <2>2 DEF Asgn2Inv, BatchInRing, Slots
<1>4. AdmInv' /\ ReaderInv'
  BY <1>1, AdmFrame, ReaderFrame DEF Asgn2Inv, ReaderInv
<1> QED BY <1>2, <1>3, <1>4 DEF Asgn2Inv, ReaderInv

LEMMA BhEnterStep == ASSUME Asgn2Inv, BhEnter PROVE Asgn2Inv'
<1>1. /\ UNCHANGED <<ringVars, half_byte, sig_flag, sending>> /\ scheduled' = FALSE
      /\ bh' = [bh EXCEPT !.pc = "count"]
      /\ UNCHANGED <<admVars, queueVars, null_location, wait_flag, rd, ubuf>>
  BY DEF BhEnter, Dispatch
<1>2. TopInv'
  BY <1>1 DEF Asgn2Inv, TopInv, TopTypeOK, InStep, ringVars
<1>3. BatchInRing'
  BY <1>1 DEF Asgn2Inv, BatchInRing
<1>4. AdmInv' /\ ReaderInv'
  BY <1>1, AdmFrame, ReaderFrame DEF Asgn2Inv, ReaderInv
<1> QED BY <1>2, <1>3, <1>4 DEF Asgn2Inv, ReaderInv

LEMMA BhCountStep == ASSUME Asgn2Inv, BhCount PROVE Asgn2Inv'
<1>1. /\ bh' = [pc |-> "copy", count |-> CIRC_CNT(tail, head, BUF_SIZE)]
      /\ UNCHANGED <<topVars, admVars, queueVars, null_location, wait_flag, rd, ubuf>>
  BY DEF BhCount
<1>2. TopInv' /\ CIRC_CNT(tail, head, BUF_SIZE) \in Slots
  BY <1>1, TopInvStep, CountInSlots DEF Asgn2Inv, TopInv
<1>3. BatchInRing'
  BY <1>1, <1>2 DEF BatchInRing, topVars, Slots
<1>4. AdmInv' /\ ReaderInv'
  BY <1>1, AdmFrame, ReaderFrame DEF Asgn2Inv, ReaderInv
<1> QED BY <1>2, <1>3, <1>4 DEF Asgn2Inv, ReaderInv

LEMMA BhAllocFailStep ==
  ASSUME Asgn2Inv, NEW g \in Garbage, NEW n \in 0..MaxPages, BhAllocFail(n, g)
  PROVE  Asgn2Inv'
<1>1. /\ mem_list' = mem_list \o NewPages(n, g)
      /\ num_pages' = num_pages + n
      /\ bh' = [pc |-> "idle", count |-> 0]
      /\ UNCHANGED <<topVars, admVars, page_queue, data_size, null_location, wait_flag,
                     rd, ubuf>>
  BY DEF BhAllocFail
<1>2. TopInv' /\ AdmInv'
  BY <1>1, TopInvStep, AdmFrame DEF Asgn2Inv
<1>3. BatchInRing'
  BY <1>1, BufSizeAssumption DEF BatchInRing, Slots
<1>4. NewPages(n, g) \in Seq(Page)
  BY MaxPagesAssumption, NewPagesProperties
<1>5. /\ mem_list' \in Seq(Page) /\ Len(mem_list) <= Len(mem_list')
      /\ Len(mem_list) \in Nat /\ Len(mem_list') \in Nat
  BY <1>1, <1>4 DEF Asgn2Inv, QueueOK
<1>6. QueueOK'
  BY <1>1, <1>5, MaxPagesAssumption DEF Asgn2Inv, QueueOK
<1>7. ReadOK'
  BY <1>1, <1>5 DEF Asgn2Inv, ReadOK, admVars
<1> QED BY <1>1, <1>2, <1>3, <1>6, <1>7
        DEF Asgn2Inv, MarkOK, UserOK, NoNullDelivered, UserBufferKept, MarkAtHead,
            HeadInFirstPage, Looping, admVars

LEMMA BhCopyStep ==
  ASSUME Asgn2Inv, NEW g \in Garbage, BhCopy(g) PROVE Asgn2Inv'
<1>1. PICK n : CopiesBatch(n)
  BY BhCopyBatch
<1>2. /\ bh.pc = "copy" /\ bh' = [pc |-> "idle", count |-> 0]
      /\ wait_flag' = 0 /\ rd' = WakeReader
      /\ UNCHANGED <<buf, tail, half_byte, sig_flag, scheduled, sending, admVars,
                     null_location, ubuf>>
  BY DEF BhCopy
<1>3. TopInv'
  <2>1. head + n \in Int
    BY <1>1 DEF CopiesBatch, Asgn2Inv, TopInv, TopTypeOK, BatchInRing, Slots
  <2>2. head' \in Slots
    BY <1>1, <2>1, RemainderInRange DEF CopiesBatch, Consume
  <2> QED BY <1>2, <2>2 DEF Asgn2Inv, TopInv, TopTypeOK, InStep
<1>4. AdmInv'
  BY <1>2, AdmFrame DEF Asgn2Inv
<1>5. BatchInRing'
  BY <1>2, BufSizeAssumption DEF BatchInRing, Slots
<1>6. QueueOK'
  BY <1>1, <1>2 DEF CopiesBatch, Asgn2Inv, QueueOK
<1>7. /\ page_queue'.head_index = page_queue.head_index
      /\ page_queue'.head_offset = page_queue.head_offset
      /\ Len(mem_list) \in Nat /\ Len(mem_list') \in Nat /\ Len(mem_list) <= Len(mem_list')
  BY <1>1 DEF CopiesBatch, Asgn2Inv, QueueOK
\* waking the reader only takes it from asleep to wait
<1>8. \/ rd' = rd
      \/ rd.pc = "asleep" /\ rd' = [rd EXCEPT !.pc = "wait"]
  BY <1>2 DEF WakeReader
<1>9. ReadOK' /\ UserOK'
  BY <1>2, <1>7, <1>8 DEF Asgn2Inv, ReadOK, UserOK, Before, Places, admVars
<1>10. MarkOK' /\ MarkAtHead'
  BY <1>2, <1>7, <1>8
     DEF Asgn2Inv, ReadOK, MarkOK, MarkAtHead, Before, InLoop, admVars
<1>11. NoNullDelivered' /\ UserBufferKept' /\ HeadInFirstPage'
  BY <1>2, <1>7, <1>8
     DEF Asgn2Inv, ReadOK, NoNullDelivered, UserBufferKept, HeadInFirstPage, Looping
<1> QED BY <1>3, <1>4, <1>5, <1>6, <1>9, <1>10, <1>11 DEF Asgn2Inv

LEMMA BottomHalfStep == ASSUME Asgn2Inv, BottomHalf PROVE Asgn2Inv'
BY BhEnterStep, BhCountStep, BhCopyStep, BhAllocFailStep DEF BottomHalf

(***************************************************************************)
(* Steps of the process preserve the invariant.  They leave the ring and   *)
(* the tasklet alone.                                                      *)
(***************************************************************************)

ReaderFields ==
  rd \in [pc : Places, size : Nat, actual : Nat, pos : Nat, more : BOOLEAN,
          freed : Nat, eof : BOOLEAN, reg : Int]

LEMMA ReadCallStep ==
  ASSUME Asgn2Inv, NEW n \in ReadSizes, ReadCall(n) PROVE Asgn2Inv'
<1>1. /\ fd[reader] = "open" /\ rd.pc = "idle" /\ ubuf' = <<>> /\ n \in Nat
      /\ UNCHANGED <<topVars, bh, admVars, mem_list, num_pages, data_size, wait_flag>>
  BY ReadSizesAssumption, SizeRangeAssumption DEF ReadCall, CallsRead
<1>2. TopInv' /\ BatchInRing' /\ AdmInv'
  BY <1>1, RingFrame, AdmFrame DEF Asgn2Inv
<1>3. UserOK' /\ NoNullDelivered'
  BY <1>1 DEF UserOK, NoNullDelivered
<1>4. CASE ReadPastNull
  <2>1. /\ page_queue.head_offset = null_location /\ null_location' = -1
        /\ page_queue' = [page_queue EXCEPT !.head_offset = page_queue.head_offset + 1]
        /\ rd' = [rd EXCEPT !.pc = "idle", !.eof = TRUE]
    BY <1>4 DEF ReadPastNull, Return
  <2>2. page_queue.head_offset + 1 \in 0..PAGE_SIZE
    BY <2>1, SizesPositive DEF Asgn2Inv, QueueOK, MarkOK
  <2>3. QueueOK'
    BY <1>1, <2>1, <2>2 DEF Asgn2Inv, QueueOK
  <2>4. ReadOK'
    BY <2>1 DEF Asgn2Inv, ReadOK, Before, Places
  <2>5. rd'.pc = "idle" /\ page_queue'.head_index = page_queue.head_index
    BY <2>1 DEF Asgn2Inv, ReadOK, QueueOK
  <2>6. MarkOK' /\ MarkAtHead'
    BY <2>1, <2>5, SizesPositive DEF MarkOK, MarkAtHead, Before, InLoop
  <2>7. UserBufferKept' /\ HeadInFirstPage'
    BY <1>1, <2>5 DEF Asgn2Inv, UserBufferKept, HeadInFirstPage, Looping
  <2> QED BY <1>2, <1>3, <2>3, <2>4, <2>6, <2>7 DEF Asgn2Inv
<1>5. CASE ReadTestEmpty(n)
  <2> DEFINE place == IF QueueEmpty THEN "set_wait" ELSE "wait"
  <2>1. /\ page_queue.head_offset # null_location
        /\ rd' = [Reading(n) EXCEPT !.pc = place]
        /\ UNCHANGED <<page_queue, null_location>>
    BY <1>5 DEF ReadTestEmpty
  <2>2. /\ ReaderFields' /\ rd'.pc = place /\ rd'.size = n /\ rd'.actual = 0
        /\ rd'.freed = 0
    <3>1. ReaderFields /\ place \in Places
      BY DEF Asgn2Inv, ReadOK, ReaderFields, Places, Before
    <3> HIDE DEF place
    <3>2. rd' = [pc |-> place, size |-> n, actual |-> 0, pos |-> 0, more |-> FALSE,
                 freed |-> 0, eof |-> FALSE, reg |-> 0]
      BY <2>1, <3>1 DEF Reading, ReaderFields
    <3> QED BY <1>1, <3>1, <3>2 DEF ReaderFields
  <2>3. place \in Before /\ place \notin InLoop
    BY DEF Before, InLoop
  <2> HIDE DEF place
  <2>4. QueueOK'
    BY <1>1, <2>1 DEF Asgn2Inv, QueueOK
  <2>5. ReadOK'
    BY <1>1, <2>2, <2>3 DEF ReadOK, ReaderFields, admVars, Before
  <2>6. MarkOK' /\ MarkAtHead'
    BY <2>1, <2>2, <2>3 DEF Asgn2Inv, MarkOK, MarkAtHead, Before, InLoop
  <2>7. UserBufferKept'
    BY <1>1, <2>2 DEF UserBufferKept
  <2>8. HeadInFirstPage'
    BY <1>1, <2>1, <2>2, <2>3 DEF Asgn2Inv, HeadInFirstPage, Looping, InLoop, Before
  <2> QED BY <1>2, <1>3, <2>4, <2>5, <2>6, <2>7, <2>8 DEF Asgn2Inv
<1> QED BY <1>4, <1>5 DEF ReadCall

LEMMA ReadSetWaitStep == ASSUME Asgn2Inv, ReadSetWait PROVE Asgn2Inv'
<1>1. /\ rd.pc = "set_wait" /\ wait_flag' = 1 /\ rd' = [rd EXCEPT !.pc = "wait"]
      /\ UNCHANGED <<topVars, bh, admVars, queueVars, null_location, ubuf>>
  BY DEF ReadSetWait
<1>2. TopInv' /\ BatchInRing' /\ AdmInv'
  BY <1>1, RingFrame, AdmFrame DEF Asgn2Inv
<1>3. QueueOK' /\ UserOK' /\ NoNullDelivered'
  BY <1>1 DEF Asgn2Inv, QueueOK, UserOK, NoNullDelivered, queueVars
<1>4. ReadOK'
  BY <1>1 DEF Asgn2Inv, ReadOK, Before, Places, admVars
<1>5. MarkOK' /\ MarkAtHead'
  BY <1>1 DEF Asgn2Inv, ReadOK, MarkOK, MarkAtHead, Before, InLoop, queueVars
<1>6. UserBufferKept' /\ HeadInFirstPage'
  BY <1>1 DEF Asgn2Inv, ReadOK, UserBufferKept, HeadInFirstPage, Looping, queueVars
<1> QED BY <1>2, <1>3, <1>4, <1>5, <1>6 DEF Asgn2Inv

LEMMA ReadSleepStep == ASSUME Asgn2Inv, ReadSleep PROVE Asgn2Inv'
<1>1. /\ rd.pc = "wait" /\ rd' = [rd EXCEPT !.pc = "asleep"]
      /\ UNCHANGED <<topVars, bh, admVars, queueVars, null_location, wait_flag, ubuf>>
  BY DEF ReadSleep
<1>2. TopInv' /\ BatchInRing' /\ AdmInv'
  BY <1>1, RingFrame, AdmFrame DEF Asgn2Inv
<1>3. QueueOK' /\ UserOK' /\ NoNullDelivered'
  BY <1>1 DEF Asgn2Inv, QueueOK, UserOK, NoNullDelivered, queueVars
<1>4. ReadOK'
  BY <1>1 DEF Asgn2Inv, ReadOK, Before, Places, admVars
<1>5. MarkOK' /\ MarkAtHead'
  BY <1>1 DEF Asgn2Inv, ReadOK, MarkOK, MarkAtHead, Before, InLoop, queueVars
<1>6. UserBufferKept' /\ HeadInFirstPage'
  BY <1>1 DEF Asgn2Inv, ReadOK, UserBufferKept, HeadInFirstPage, Looping, queueVars
<1> QED BY <1>2, <1>3, <1>4, <1>5, <1>6 DEF Asgn2Inv

\* The size a read is about to copy is at most what was asked for, also when
\* the subtraction has wrapped.
LEMMA ActualSizeBound ==
  ASSUME QueueOK, ReaderFields PROVE ActualSize \in 0..rd.size
<1>1. data_size - page_queue.head_offset \in Int
  BY SizesPositive DEF QueueOK
<1>2. (data_size - page_queue.head_offset) % SIZE_RANGE \in Nat
  BY <1>1, SizeRangeAssumption
<1> QED BY <1>2 DEF ActualSize, Lesser, ReaderFields

LEMMA ReadBeginStep == ASSUME Asgn2Inv, ReadBegin PROVE Asgn2Inv'
<1>1. /\ rd.pc \in {"wait", "asleep"}
      /\ IF null_flag = 1 THEN Return(<<>>)
         ELSE rd' = [rd EXCEPT !.pc = "page", !.actual = ActualSize]
      /\ UNCHANGED <<topVars, bh, admVars, queueVars, null_location, wait_flag, ubuf>>
  BY DEF ReadBegin
<1>2. TopInv' /\ BatchInRing' /\ AdmInv'
  BY <1>1, RingFrame, AdmFrame DEF Asgn2Inv
<1>3. QueueOK' /\ UserOK' /\ NoNullDelivered'
  BY <1>1 DEF Asgn2Inv, QueueOK, UserOK, NoNullDelivered, queueVars
<1>4. CASE null_flag = 1
  <2>1. rd' = [rd EXCEPT !.pc = "idle", !.eof = TRUE]
    BY <1>1, <1>4 DEF Return
  <2>2. ReadOK' /\ rd'.pc = "idle"
    BY <2>1 DEF Asgn2Inv, ReadOK, Before, Places
  <2>3. MarkOK' /\ MarkAtHead'
    BY <1>1, <2>2 DEF Asgn2Inv, MarkOK, MarkAtHead, Before, InLoop, queueVars
  <2>4. UserBufferKept' /\ HeadInFirstPage'
    BY <1>1, <2>2 DEF Asgn2Inv, UserBufferKept, HeadInFirstPage, Looping, queueVars
  <2> QED BY <1>2, <1>3, <2>2, <2>3, <2>4 DEF Asgn2Inv
<1>5. CASE null_flag # 1
  <2>1. rd' = [rd EXCEPT !.pc = "page", !.actual = ActualSize]
    BY <1>1, <1>5
  <2>2. ActualSize \in 0..rd.size /\ ReaderFields /\ ubuf = <<>> /\ rd.freed = 0
    BY <1>1, ActualSizeBound DEF Asgn2Inv, ReadOK, ReaderFields, Before
  <2>3. /\ ReaderFields' /\ rd'.pc = "page" /\ rd'.actual = ActualSize
        /\ rd'.size = rd.size /\ rd'.freed = 0
    <3>1. ActualSize \in Nat /\ "page" \in Places
      BY <2>2 DEF ReaderFields, Places, InLoop
    <3> QED BY <2>1, <2>2, <3>1 DEF ReaderFields
  <2>4. ReadOK'
    BY <1>1, <2>3 DEF Asgn2Inv, ReadOK, ReaderFields, Before, admVars
  <2>5. MarkOK' /\ MarkAtHead'
    BY <1>1, <1>5, <2>3
       DEF Asgn2Inv, AdmInv, AdmTypeOK, MarkOK, MarkAtHead, Before, InLoop, queueVars, admVars
  <2>6. UserBufferKept'
    BY <1>1, <2>2, <2>3 DEF UserBufferKept, ReaderFields
  <2>7. HeadInFirstPage'
    BY <1>1, <2>3 DEF Asgn2Inv, HeadInFirstPage, Looping, queueVars
  <2> QED BY <1>2, <1>3, <2>4, <2>5, <2>6, <2>7 DEF Asgn2Inv
<1> QED BY <1>4, <1>5

\* How many bytes of a page a round of the loop copies: Max is of a set that is
\* bounded and not empty.
LEMMA ClearBytesMax ==
  ASSUME NEW page, NEW off, NEW limit \in Nat
  PROVE  /\ Max(ClearBytes(page, off, limit)) \in 0..limit
         /\ \A j \in 0..(Max(ClearBytes(page, off, limit)) - 1) : page[off + j] # 0
<1> DEFINE S == ClearBytes(page, off, limit)
<1>1. S \in SUBSET (0..limit)
  BY DEF ClearBytes
<1>2. 0 \in S
  BY DEF ClearBytes
<1>3. Max(S) \in S
  BY <1>1, <1>2, MaxOfBounded
<1> QED BY <1>3 DEF ClearBytes

\* What a round of the loop does.
CopiesClearBytes(n) ==
  /\ n \in 0..rd.actual
  /\ ubuf' \in Seq(0..255)
  /\ Len(ubuf') = Len(ubuf) + n
  /\ \A i \in DOMAIN ubuf' : ubuf'[i] # 0
  /\ page_queue' \in [head_index : {page_queue.head_index}, tail_index : Int,
                       head_offset : 0..PAGE_SIZE, tail_offset : Offsets]
  /\ null_flag' = null_flag \/ (null_flag' = 1 /\ page_queue'.head_offset # PAGE_SIZE)
  /\ \E more \in BOOLEAN :
       rd' = [rd EXCEPT !.pc = "free", !.actual = rd.actual - n, !.more = more]

LEMMA ReadPageCopies ==
  ASSUME Asgn2Inv, ReadPage PROVE \E n : CopiesClearBytes(n)
<1> DEFINE page  == mem_list[rd.pos + 1]
           off   == page_queue.head_offset
           limit == Lesser(rd.actual, PAGE_SIZE - off)
           n     == Max(ClearBytes(page, off, limit))
           copy  == [k \in 1..n |-> page[off + k - 1]]
           next  == IF n > 0 THEN (off + n) % PAGE_SIZE ELSE off
           more  == rd.pos + 1 < Len(mem_list)
<1>1. /\ rd.pos < Len(mem_list)
      /\ ubuf' = ubuf \o copy
      /\ null_flag' = IF n < limit THEN 1 ELSE null_flag
      /\ page_queue' = [page_queue EXCEPT !.head_offset = next]
      /\ rd' = [rd EXCEPT !.pc = "free", !.actual = rd.actual - n, !.more = more]
  BY DEF ReadPage
<1>2. /\ ReaderFields /\ rd.pos + 1 \in 1..Len(mem_list)
      /\ off \in 0..PAGE_SIZE /\ mem_list \in Seq(Page)
  BY <1>1 DEF Asgn2Inv, ReadOK, ReaderFields, QueueOK
<1>3. page \in Page
  BY <1>2
<1>4. limit \in 0..rd.actual /\ limit <= PAGE_SIZE - off
  BY <1>2, SizesPositive DEF Lesser, ReaderFields
<1> HIDE DEF limit
<1>5. n \in 0..limit /\ \A j \in 0..(n - 1) : page[off + j] # 0
  BY <1>4, ClearBytesMax
<1> HIDE DEF n, page
<1>6. ASSUME NEW k \in 1..n PROVE copy[k] \in 1..255
  <2>1. k - 1 \in 0..(n - 1) /\ off + k - 1 = off + (k - 1) /\ off + (k - 1) \in Offsets
    BY <1>2, <1>4, <1>5, SizesPositive DEF Offsets, ReaderFields
  <2>2. page[off + (k - 1)] # 0 /\ page[off + (k - 1)] \in 0..255
    BY <1>3, <1>5, <2>1 DEF Page
  <2>3. copy[k] = page[off + (k - 1)]
    BY <2>1
  <2> QED BY <2>2, <2>3
<1>7. copy \in [1..n -> 1..255] /\ n \in Nat
  BY <1>2, <1>4, <1>5, <1>6 DEF ReaderFields
<1> HIDE DEF copy, off
<1>8. copy \in Seq(1..255) /\ Len(copy) = n
  BY <1>7, SequenceOfFunction
<1>9. ubuf \in Seq(0..255) /\ (\A i \in DOMAIN ubuf : ubuf[i] # 0)
  BY DEF Asgn2Inv, UserOK, NoNullDelivered
<1>10. ubuf \in Seq(1..255)
  <2>1. /\ Len(ubuf) \in Nat /\ ubuf \in [1..Len(ubuf) -> 0..255]
        /\ \A i \in 1..Len(ubuf) : ubuf[i] \in 0..255 /\ ubuf[i] # 0
    BY <1>9, ElementType
  <2>2. \A i \in 1..Len(ubuf) : ubuf[i] \in 1..255
    BY <2>1
  <2>3. ubuf \in [1..Len(ubuf) -> 1..255]
    BY <2>1, <2>2
  <2> QED BY <2>1, <2>3, SequenceOfFunction
<1>11. ubuf' \in Seq(1..255) /\ Len(ubuf') = Len(ubuf) + n
  BY <1>1, <1>8, <1>10, ConcatType
<1>12. ubuf' \in Seq(0..255) /\ \A i \in DOMAIN ubuf' : ubuf'[i] # 0
  <2>1. /\ Len(ubuf') \in Nat /\ ubuf' \in [1..Len(ubuf') -> 1..255]
        /\ \A i \in DOMAIN ubuf' : ubuf'[i] \in 1..255
    BY <1>11, ElementType
  <2>2. ubuf' \in [1..Len(ubuf') -> 0..255]
    BY <2>1
  <2>3. ubuf' \in Seq(0..255)
    BY <2>1, <2>2, SequenceOfFunction
  <2>4. ASSUME NEW i \in DOMAIN ubuf' PROVE ubuf'[i] # 0
    <3>1. ubuf'[i] \in 1..255
      BY <2>1
    <3> QED BY <3>1
  <2> QED BY <2>3, <2>4
<1>13. next \in 0..PAGE_SIZE /\ (n < limit => next # PAGE_SIZE)
  BY <1>2, <1>4, <1>5, SizesPositive DEF ReaderFields
<1> HIDE DEF next
<1>14. /\ page_queue' \in [head_index : {page_queue.head_index}, tail_index : Int,
                            head_offset : 0..PAGE_SIZE, tail_offset : Offsets]
       /\ page_queue'.head_offset = next
  BY <1>1, <1>13 DEF Asgn2Inv, QueueOK
<1>15. null_flag' = null_flag \/ (null_flag' = 1 /\ page_queue'.head_offset # PAGE_SIZE)
  BY <1>1, <1>13, <1>14
<1>16. n \in 0..rd.actual
  BY <1>2, <1>4, <1>5 DEF ReaderFields
<1>17. more \in BOOLEAN
  OBVIOUS
<1> QED BY <1>1, <1>11, <1>12, <1>14, <1>15, <1>16, <1>17 DEF CopiesClearBytes

LEMMA ReadPageStep == ASSUME Asgn2Inv, ReadPage PROVE Asgn2Inv'
<1>1. PICK n : CopiesClearBytes(n)
  BY ReadPageCopies
<1>2. /\ rd.pc = "page" /\ rd.pos < Len(mem_list)
      /\ UNCHANGED <<topVars, bh, nprocs, max_nprocs, fd, leaked, mem_list, num_pages,
                     data_size, null_location, wait_flag>>
  BY DEF ReadPage
<1>3. TopInv' /\ BatchInRing'
  BY <1>2, RingFrame DEF Asgn2Inv
<1>4. fd[reader] = "open" /\ null_flag = 0 /\ null_location = -1 /\ ReaderFields
  BY <1>2 DEF Asgn2Inv, ReadOK, MarkOK, InLoop, ReaderFields
<1>5. AdmInv'
  <2>1. CASE null_flag' = null_flag
    BY <1>2, <2>1, AdmFrame DEF Asgn2Inv, admVars
  <2>2. CASE null_flag' = 1
    BY <1>2, <1>4, <2>2, AdmInvStep, ReaderInProcs DEF Asgn2Inv, AdmNext, ReadFindsNull
  <2> QED BY <1>1, <2>1, <2>2 DEF CopiesClearBytes
<1>6. QueueOK' /\ UserOK' /\ NoNullDelivered'
  BY <1>1, <1>2 DEF CopiesClearBytes, Asgn2Inv, QueueOK, UserOK, NoNullDelivered
<1>7. /\ n \in 0..rd.actual
      /\ ReaderFields' /\ rd'.pc = "free" /\ rd'.actual = rd.actual - n
      /\ rd'.size = rd.size /\ rd'.freed = rd.freed /\ rd'.pos = rd.pos
  <2>1. PICK more \in BOOLEAN :
          rd' = [rd EXCEPT !.pc = "free", !.actual = rd.actual - n, !.more = more]
    BY <1>1 DEF CopiesClearBytes
  <2>2. n \in 0..rd.actual /\ rd.actual - n \in Nat /\ "free" \in Places
    BY <1>1, <1>4 DEF CopiesClearBytes, ReaderFields, Places, InLoop
  <2> QED BY <1>4, <2>1, <2>2 DEF ReaderFields
<1>8. ReadOK'
  BY <1>2, <1>4, <1>7 DEF ReadOK, ReaderFields, Before
<1>9. MarkOK' /\ MarkAtHead'
  BY <1>1, <1>2, <1>4, <1>7, SizesPositive DEF CopiesClearBytes, MarkOK, MarkAtHead
<1>10. UserBufferKept'
  <2>1. Len(ubuf') = Len(ubuf) + n /\ Len(ubuf) \in Nat
    BY <1>1 DEF CopiesClearBytes, Asgn2Inv, UserOK
  <2>2. Len(ubuf) + rd.actual <= rd.size
    BY <1>2 DEF Asgn2Inv, UserBufferKept
  <2> QED BY <1>4, <1>7, <2>1, <2>2 DEF UserBufferKept, ReaderFields
<1>11. HeadInFirstPage'
  BY <1>1, <1>2, <1>7 DEF CopiesClearBytes, Asgn2Inv, HeadInFirstPage, Looping
<1> QED BY <1>3, <1>5, <1>6, <1>8, <1>9, <1>10, <1>11 DEF Asgn2Inv

\* After a page the loop goes on or is left; nothing else changes.
LEMMA AfterPageType ==
  ASSUME NEW r \in [pc : Places, size : Nat, actual : Nat, pos : Nat, more : BOOLEAN,
                    freed : Nat, eof : BOOLEAN, reg : Int]
  PROVE  \E to \in {"page", "indices"} :
           AfterPage(r) = [r EXCEPT !.pc = to] /\ (to = "page" => null_flag # 1)
BY DEF AfterPage

LEMMA ReadNextPageStep == ASSUME Asgn2Inv, ReadNextPage PROVE Asgn2Inv'
<1>1. /\ rd.pc = "free"
      /\ FreePage \/ KeepPage
      /\ UNCHANGED <<topVars, bh, admVars, num_pages, data_size, null_location,
                     wait_flag, ubuf>>
  BY DEF ReadNextPage
<1>2. TopInv' /\ BatchInRing' /\ AdmInv' /\ UserOK' /\ NoNullDelivered'
  BY <1>1, RingFrame, AdmFrame DEF Asgn2Inv, UserOK, NoNullDelivered
<1>3. /\ ReaderFields /\ rd.pos < Len(mem_list) /\ fd'[reader] = "open"
      /\ null_location = -1 /\ (null_flag = 1 => page_queue.head_offset # PAGE_SIZE)
      /\ page_queue.head_index = rd.freed /\ null_flag' = null_flag
      /\ null_flag \in {0, 1}
  <2>1. ReaderFields /\ rd.pos < Len(mem_list) /\ fd'[reader] = "open"
    BY <1>1 DEF Asgn2Inv, ReadOK, ReaderFields, admVars
  <2>2. null_location = -1 /\ (null_flag = 1 => page_queue.head_offset # PAGE_SIZE)
    BY <1>1 DEF Asgn2Inv, MarkOK, InLoop
  <2>3. page_queue.head_index = rd.freed
    BY <1>1 DEF Asgn2Inv, HeadInFirstPage, Looping
  <2>4. null_flag' = null_flag /\ null_flag \in {0, 1}
    BY <1>1 DEF Asgn2Inv, AdmInv, AdmTypeOK, admVars
  <2> QED BY <2>1, <2>2, <2>3, <2>4
<1>4. CASE FreePage
  <2>1. /\ page_queue' = [page_queue EXCEPT !.head_index = page_queue.head_index + 1]
        /\ mem_list' = RemoveAt(mem_list, rd.pos + 1)
        /\ rd' = [rd EXCEPT !.pc = "num", !.freed = rd.freed + 1]
    BY <1>4 DEF FreePage
  <2>2. mem_list' \in Seq(Page)
    <3>1. rd.pos + 1 \in 1..Len(mem_list) /\ mem_list \in Seq(Page)
      BY <1>3 DEF ReaderFields, Asgn2Inv, QueueOK
    <3> QED BY <2>1, <3>1, RemoveAtElements
  <2>3. /\ ReaderFields' /\ rd'.pc = "num" /\ rd'.actual = rd.actual
        /\ rd'.size = rd.size /\ rd'.freed = rd.freed + 1
    <3>1. rd.freed + 1 \in Nat /\ "num" \in Places
      BY <1>3 DEF ReaderFields, Places, InLoop
    <3> QED BY <1>3, <2>1, <3>1 DEF ReaderFields
  <2>4. /\ QueueOK' /\ page_queue'.head_index = rd.freed + 1
        /\ page_queue'.head_offset = page_queue.head_offset
    <3>1. page_queue \in [head_index : Int, tail_index : Int,
                          head_offset : 0..PAGE_SIZE, tail_offset : Offsets]
      BY DEF Asgn2Inv, QueueOK
    <3>2. /\ page_queue' \in [head_index : Int, tail_index : Int,
                              head_offset : 0..PAGE_SIZE, tail_offset : Offsets]
          /\ page_queue'.head_index = page_queue.head_index + 1
          /\ page_queue'.head_offset = page_queue.head_offset
      BY <2>1, <3>1
    <3>3. QueueOK'
      BY <1>1, <2>2, <3>2 DEF Asgn2Inv, QueueOK
    <3> QED BY <1>3, <3>2, <3>3
  <2>5. ReadOK'
    BY <1>3, <2>3 DEF ReadOK, ReaderFields, Before
  <2>6. MarkOK' /\ MarkAtHead'
    BY <1>1, <1>3, <2>3, <2>4, SizesPositive DEF MarkOK, MarkAtHead
  <2>7. UserBufferKept'
    BY <1>1, <2>3 DEF Asgn2Inv, UserBufferKept
  <2>8. HeadInFirstPage'
    BY <2>3, <2>4 DEF HeadInFirstPage, Looping
  <2> QED BY <1>2, <2>4, <2>5, <2>6, <2>7, <2>8 DEF Asgn2Inv
<1>5. CASE KeepPage
  <2>1. UNCHANGED <<page_queue, mem_list>> /\ rd' = AfterPage([rd EXCEPT !.pos = rd.pos + 1])
    BY <1>5 DEF KeepPage
  <2>2. [rd EXCEPT !.pos = rd.pos + 1]
          \in [pc : Places, size : Nat, actual : Nat, pos : Nat, more : BOOLEAN,
               freed : Nat, eof : BOOLEAN, reg : Int]
    BY <1>3 DEF ReaderFields
  <2>3. PICK to \in {"page", "indices"} :
          rd' = [[rd EXCEPT !.pos = rd.pos + 1] EXCEPT !.pc = to]
            /\ (to = "page" => null_flag # 1)
    BY <2>1, <2>2, AfterPageType
  <2>4. /\ ReaderFields' /\ rd'.pc = to /\ rd'.actual = rd.actual
        /\ rd'.size = rd.size /\ rd'.freed = rd.freed
    BY <1>3, <2>2, <2>3 DEF ReaderFields, Places, InLoop
  <2>5. QueueOK'
    BY <1>1, <2>1 DEF Asgn2Inv, QueueOK
  <2>6. ReadOK'
    BY <1>3, <2>4 DEF ReadOK, ReaderFields, Before
  <2>7. MarkOK' /\ MarkAtHead'
    BY <1>1, <1>3, <2>1, <2>3, <2>4, SizesPositive DEF MarkOK, MarkAtHead
  <2>8. UserBufferKept'
    BY <1>1, <2>4 DEF Asgn2Inv, UserBufferKept
  <2>9. HeadInFirstPage'
    BY <1>3, <2>1, <2>4 DEF HeadInFirstPage, Looping
  <2> QED BY <1>2, <2>5, <2>6, <2>7, <2>8, <2>9 DEF Asgn2Inv
<1> QED BY <1>1, <1>4, <1>5

LEMMA ReadNoPageStep == ASSUME Asgn2Inv, ReadNoPage PROVE Asgn2Inv'
<1>1. /\ rd.pc = "page" /\ rd' = [rd EXCEPT !.pc = "indices"]
      /\ UNCHANGED <<topVars, bh, admVars, queueVars, null_location, wait_flag, ubuf>>
  BY DEF ReadNoPage
<1>2. TopInv' /\ BatchInRing' /\ AdmInv' /\ QueueOK' /\ UserOK' /\ NoNullDelivered'
  BY <1>1, RingFrame, AdmFrame DEF Asgn2Inv, QueueOK, UserOK, NoNullDelivered, queueVars
<1>3. ReadOK'
  BY <1>1 DEF Asgn2Inv, ReadOK, Before, Places, InLoop, admVars
<1>4. MarkOK' /\ MarkAtHead'
  BY <1>1 DEF Asgn2Inv, ReadOK, MarkOK, MarkAtHead, Before, InLoop, queueVars, admVars
<1>5. UserBufferKept' /\ HeadInFirstPage'
  BY <1>1 DEF Asgn2Inv, ReadOK, UserBufferKept, HeadInFirstPage, Looping, queueVars
<1> QED BY <1>2, <1>3, <1>4, <1>5 DEF Asgn2Inv

LEMMA LoadNumStep == ASSUME Asgn2Inv, LoadNum PROVE Asgn2Inv'
<1>1. /\ rd.pc = "num" /\ rd' = [rd EXCEPT !.pc = "store_num", !.reg = num_pages]
      /\ UNCHANGED <<topVars, bh, admVars, queueVars, null_location, wait_flag, ubuf>>
  BY DEF LoadNum, Load
<1>2. TopInv' /\ BatchInRing' /\ AdmInv' /\ QueueOK' /\ UserOK' /\ NoNullDelivered'
  BY <1>1, RingFrame, AdmFrame DEF Asgn2Inv, QueueOK, UserOK, NoNullDelivered, queueVars
<1>3. ReaderFields /\ fd'[reader] = "open" /\ num_pages \in Int
  BY <1>1 DEF Asgn2Inv, ReadOK, ReaderFields, QueueOK, admVars
<1>4. /\ ReaderFields' /\ rd'.pc = "store_num" /\ rd'.actual = rd.actual
      /\ rd'.size = rd.size /\ rd'.freed = rd.freed
  BY <1>1, <1>3 DEF ReaderFields, Places, InLoop
<1>5. ReadOK'
  BY <1>3, <1>4 DEF ReadOK, ReaderFields, Before
<1>6. MarkOK' /\ MarkAtHead'
  BY <1>1, <1>4 DEF Asgn2Inv, MarkOK, MarkAtHead, Before, InLoop, queueVars, admVars
<1>7. UserBufferKept'
  BY <1>1, <1>4 DEF Asgn2Inv, UserBufferKept
<1>8. HeadInFirstPage'
  BY <1>1, <1>4 DEF Asgn2Inv, HeadInFirstPage, Looping, queueVars
<1> QED BY <1>2, <1>5, <1>6, <1>7, <1>8 DEF Asgn2Inv

LEMMA StoreNumStep == ASSUME Asgn2Inv, StoreNum PROVE Asgn2Inv'
<1>1. /\ rd.pc = "store_num" /\ num_pages' = rd.reg - 1 /\ rd' = AfterPage(rd)
      /\ UNCHANGED <<topVars, bh, admVars, page_queue, mem_list, data_size,
                     null_location, wait_flag, ubuf>>
  BY DEF StoreNum
<1>2. TopInv' /\ BatchInRing' /\ AdmInv' /\ UserOK' /\ NoNullDelivered'
  BY <1>1, RingFrame, AdmFrame DEF Asgn2Inv, UserOK, NoNullDelivered
<1>3. ReaderFields /\ fd'[reader] = "open" /\ null_flag \in {0, 1}
  BY <1>1 DEF Asgn2Inv, ReadOK, ReaderFields, admVars, AdmInv, AdmTypeOK
<1>4. PICK to \in {"page", "indices"} :
        rd' = [rd EXCEPT !.pc = to] /\ (to = "page" => null_flag # 1)
  BY <1>1, <1>3, AfterPageType DEF ReaderFields
<1>5. /\ ReaderFields' /\ rd'.pc = to /\ rd'.actual = rd.actual
      /\ rd'.size = rd.size /\ rd'.freed = rd.freed
  BY <1>3, <1>4 DEF ReaderFields, Places, InLoop
<1>6. QueueOK'
  BY <1>1, <1>3 DEF Asgn2Inv, QueueOK, ReaderFields
<1>7. ReadOK'
  BY <1>3, <1>5 DEF ReadOK, ReaderFields, Before
<1>8. MarkOK' /\ MarkAtHead'
  BY <1>1, <1>3, <1>4, <1>5 DEF Asgn2Inv, MarkOK, MarkAtHead, Before, InLoop, admVars
<1>9. UserBufferKept'
  BY <1>1, <1>5 DEF Asgn2Inv, UserBufferKept
<1>10. HeadInFirstPage'
  BY <1>1, <1>5 DEF Asgn2Inv, HeadInFirstPage, Looping
<1> QED BY <1>2, <1>6, <1>7, <1>8, <1>9, <1>10 DEF Asgn2Inv

\* The head goes back by the pages freed, to the first page.
LEMMA ReadHeadStep == ASSUME Asgn2Inv, ReadHead PROVE Asgn2Inv'
<1>1. /\ rd.pc = "indices"
      /\ page_queue' = [page_queue EXCEPT !.head_index = page_queue.head_index - rd.freed]
      /\ rd' = [rd EXCEPT !.pc = "store_tail", !.reg = page_queue.tail_index]
      /\ UNCHANGED <<topVars, bh, admVars, mem_list, num_pages, data_size,
                     null_location, wait_flag, ubuf>>
  BY DEF ReadHead, HeadRenumbered
<1>2. TopInv' /\ BatchInRing' /\ AdmInv' /\ UserOK' /\ NoNullDelivered'
  BY <1>1, RingFrame, AdmFrame DEF Asgn2Inv, UserOK, NoNullDelivered
<1>3. ReaderFields /\ fd'[reader] = "open"
  BY <1>1 DEF Asgn2Inv, ReadOK, ReaderFields, admVars
<1>4. /\ page_queue \in [head_index : Int, tail_index : Int,
                          head_offset : 0..PAGE_SIZE, tail_offset : Offsets]
      /\ page_queue.head_index = rd.freed
  BY <1>1 DEF Asgn2Inv, QueueOK, HeadInFirstPage, Looping
<1>5. /\ page_queue' \in [head_index : Int, tail_index : Int,
                           head_offset : 0..PAGE_SIZE, tail_offset : Offsets]
      /\ page_queue'.head_index = 0 /\ page_queue'.head_offset = page_queue.head_offset
  BY <1>1, <1>3, <1>4 DEF ReaderFields
<1>6. /\ ReaderFields' /\ rd'.pc = "store_tail" /\ rd'.actual = rd.actual
      /\ rd'.size = rd.size
  BY <1>1, <1>3, <1>4 DEF ReaderFields, Places
<1>7. QueueOK'
  BY <1>1, <1>5 DEF Asgn2Inv, QueueOK
<1>8. ReadOK'
  BY <1>3, <1>6 DEF ReadOK, ReaderFields, Before
<1>9. MarkOK' /\ MarkAtHead'
  BY <1>1, <1>5, <1>6 DEF Asgn2Inv, MarkOK, MarkAtHead, Before, InLoop, admVars
<1>10. UserBufferKept'
  BY <1>1, <1>6 DEF Asgn2Inv, UserBufferKept
<1>11. HeadInFirstPage'
  BY <1>5, <1>6 DEF HeadInFirstPage, Looping
<1> QED BY <1>2, <1>7, <1>8, <1>9, <1>10, <1>11 DEF Asgn2Inv

\* The mark is set where the read has stopped, which is in a page.
LEMMA StoreTailStep == ASSUME Asgn2Inv, StoreTail PROVE Asgn2Inv'
<1>1. /\ rd.pc = "store_tail"
      /\ page_queue' = [page_queue EXCEPT !.tail_index = rd.reg - rd.freed]
      /\ null_location' = IF null_flag = 1 THEN page_queue.head_offset ELSE null_location
      /\ rd' = [rd EXCEPT !.pc = "size"]
      /\ UNCHANGED <<topVars, bh, admVars, mem_list, num_pages, data_size,
                     wait_flag, ubuf>>
  BY DEF StoreTail, TailRenumbered
<1>2. TopInv' /\ BatchInRing' /\ AdmInv' /\ UserOK' /\ NoNullDelivered'
  BY <1>1, RingFrame, AdmFrame DEF Asgn2Inv, UserOK, NoNullDelivered
<1>3. ReaderFields /\ fd'[reader] = "open"
  BY <1>1 DEF Asgn2Inv, ReadOK, ReaderFields, admVars
<1>4. /\ page_queue \in [head_index : Int, tail_index : Int,
                          head_offset : 0..PAGE_SIZE, tail_offset : Offsets]
      /\ page_queue.head_index = 0
      /\ null_location = -1 /\ (null_flag = 1 => page_queue.head_offset # PAGE_SIZE)
  BY <1>1 DEF Asgn2Inv, QueueOK, HeadInFirstPage, Looping, MarkOK
<1>5. /\ page_queue' \in [head_index : Int, tail_index : Int,
                           head_offset : 0..PAGE_SIZE, tail_offset : Offsets]
      /\ page_queue'.head_index = 0 /\ page_queue'.head_offset = page_queue.head_offset
  <2>1. rd.reg - rd.freed \in Int
    BY <1>3 DEF ReaderFields
  <2> QED BY <1>1, <1>4, <2>1
<1>6. /\ ReaderFields' /\ rd'.pc = "size" /\ rd'.actual = rd.actual
      /\ rd'.size = rd.size
  BY <1>1, <1>3 DEF ReaderFields, Places
<1>7. QueueOK'
  BY <1>1, <1>5 DEF Asgn2Inv, QueueOK
<1>8. ReadOK'
  BY <1>3, <1>6 DEF ReadOK, ReaderFields, Before
<1>9. MarkOK' /\ MarkAtHead'
  BY <1>1, <1>4, <1>5, <1>6, SizesPositive DEF MarkOK, MarkAtHead, Before, InLoop
<1>10. UserBufferKept'
  BY <1>1, <1>6 DEF Asgn2Inv, UserBufferKept
<1>11. HeadInFirstPage'
  BY <1>5, <1>6 DEF HeadInFirstPage, Looping
<1> QED BY <1>2, <1>7, <1>8, <1>9, <1>10, <1>11 DEF Asgn2Inv

LEMMA LoadSizeStep == ASSUME Asgn2Inv, LoadSize PROVE Asgn2Inv'
<1>1. /\ rd.pc = "size" /\ rd' = [rd EXCEPT !.pc = "store_size", !.reg = data_size]
      /\ UNCHANGED <<topVars, bh, admVars, queueVars, null_location, wait_flag, ubuf>>
  BY DEF LoadSize, Load
<1>2. TopInv' /\ BatchInRing' /\ AdmInv' /\ QueueOK' /\ UserOK' /\ NoNullDelivered'
  BY <1>1, RingFrame, AdmFrame DEF Asgn2Inv, QueueOK, UserOK, NoNullDelivered, queueVars
<1>3. ReaderFields /\ fd'[reader] = "open" /\ data_size \in Int
  BY <1>1 DEF Asgn2Inv, ReadOK, ReaderFields, QueueOK, admVars
<1>4. /\ ReaderFields' /\ rd'.pc = "store_size" /\ rd'.actual = rd.actual
      /\ rd'.size = rd.size
  BY <1>1, <1>3 DEF ReaderFields, Places
<1>5. ReadOK'
  BY <1>3, <1>4 DEF ReadOK, ReaderFields, Before
<1>6. MarkOK' /\ MarkAtHead'
  BY <1>1, <1>4 DEF Asgn2Inv, MarkOK, MarkAtHead, Before, InLoop, queueVars
<1>7. UserBufferKept'
  BY <1>1, <1>4 DEF Asgn2Inv, UserBufferKept
<1>8. HeadInFirstPage'
  BY <1>1, <1>4 DEF Asgn2Inv, HeadInFirstPage, Looping, queueVars
<1> QED BY <1>2, <1>5, <1>6, <1>7, <1>8 DEF Asgn2Inv

LEMMA StoreSizeStep == ASSUME Asgn2Inv, StoreSize PROVE Asgn2Inv'
<1>1. /\ rd.pc = "store_size"
      /\ data_size' = (rd.reg - rd.freed * PAGE_SIZE) % SIZE_RANGE
      /\ rd' = [rd EXCEPT !.pc = "idle", !.eof = (ubuf = <<>>)]
      /\ UNCHANGED <<topVars, bh, admVars, page_queue, mem_list, num_pages,
                     null_location, wait_flag, ubuf>>
  BY DEF StoreSize, Return
<1>2. TopInv' /\ BatchInRing' /\ AdmInv' /\ UserOK' /\ NoNullDelivered'
  BY <1>1, RingFrame, AdmFrame DEF Asgn2Inv, UserOK, NoNullDelivered
<1>3. ReaderFields
  BY DEF Asgn2Inv, ReadOK, ReaderFields
<1>4. ReaderFields' /\ rd'.pc = "idle"
  BY <1>1, <1>3 DEF ReaderFields, Places
<1>5. data_size' \in 0..(SIZE_RANGE - 1)
  <2>1. \A x, y \in Int : x * y \in Int
    OBVIOUS
  <2>2. rd.reg - rd.freed * PAGE_SIZE \in Int
    BY <1>3, <2>1, SizesPositive DEF ReaderFields
  <2> QED BY <1>1, <2>2, SizeRangeAssumption
<1>6. QueueOK'
  BY <1>1, <1>5 DEF Asgn2Inv, QueueOK
<1>7. ReadOK'
  BY <1>4 DEF ReadOK, ReaderFields, Before
<1>8. MarkOK' /\ MarkAtHead'
  BY <1>1, <1>4 DEF Asgn2Inv, MarkOK, MarkAtHead, Before, InLoop
<1>9. UserBufferKept'
  BY <1>4 DEF UserBufferKept
<1>10. HeadInFirstPage'
  BY <1>1, <1>4 DEF Asgn2Inv, HeadInFirstPage, Looping
<1> QED BY <1>2, <1>6, <1>7, <1>8, <1>9, <1>10 DEF Asgn2Inv

LEMMA ReadStep == ASSUME Asgn2Inv, Read PROVE Asgn2Inv'
BY ReadCallStep, ReadSetWaitStep, ReadSleepStep, ReadBeginStep, ReadPageStep,
   ReadNextPageStep, ReadNoPageStep, LoadNumStep, StoreNumStep, ReadHeadStep,
   StoreTailStep, LoadSizeStep, StoreSizeStep
   DEF Read

\* Between two reads the process may open and close the device.
LEMMA IdleFrame ==
  ASSUME ReaderInv, rd.pc = "idle", ReaderFields', rd'.pc = "idle",
         UNCHANGED <<queueVars, null_location, wait_flag, ubuf>>
  PROVE  ReaderInv'
<1>1. QueueOK' /\ UserOK' /\ NoNullDelivered'
  BY DEF ReaderInv, QueueOK, UserOK, NoNullDelivered, queueVars
<1>2. ReadOK'
  BY DEF ReadOK, ReaderFields, Before
<1>3. MarkOK' /\ MarkAtHead'
  BY DEF ReaderInv, MarkOK, MarkAtHead, Before, InLoop, queueVars
<1>4. UserBufferKept' /\ HeadInFirstPage'
  BY DEF ReaderInv, UserBufferKept, HeadInFirstPage, Looping, queueVars
<1> QED BY <1>1, <1>2, <1>3, <1>4 DEF ReaderInv

LEMMA OpenCloseStep == ASSUME Asgn2Inv, Open \/ Close PROVE Asgn2Inv'
<1>1. UNCHANGED <<topVars, bh, queueVars, null_location, wait_flag, ubuf>>
  BY DEF Open, Close
<1>2. [AdmNext]_admVars
  BY ReaderInProcs DEF Open, Close, AdmNext
<1>3. TopInv' /\ BatchInRing' /\ AdmInv'
  BY <1>1, <1>2, RingFrame, AdmInvStep DEF Asgn2Inv
<1>4. ReaderFields
  BY DEF Asgn2Inv, ReadOK, ReaderFields
<1>5. ReaderInv
  BY DEF Asgn2Inv, ReaderInv
\* a process that is opening the device does not read it
<1>6. CASE Open
  <2>1. fd[reader] # "open" /\ (rd' = rd \/ rd' = [rd EXCEPT !.eof = FALSE])
    BY <1>6 DEF Open, OpenCall, OpenPass, OpenAdmit, Move
  <2>2. rd.pc = "idle" /\ ReaderFields' /\ rd'.pc = "idle"
    BY <1>4, <2>1 DEF Asgn2Inv, ReadOK, ReaderFields
  <2> QED BY <1>1, <1>3, <1>5, <2>2, IdleFrame DEF Asgn2Inv, ReaderInv
<1>7. CASE Close
  <2>1. rd.pc = "idle" /\ ReaderFields' /\ rd'.pc = "idle"
    BY <1>4, <1>7 DEF Close, ReaderFields
  <2> QED BY <1>1, <1>3, <1>5, <2>1, IdleFrame DEF Asgn2Inv, ReaderInv
<1> QED BY <1>6, <1>7

LEMMA StutterStep == ASSUME Asgn2Inv, UNCHANGED vars PROVE Asgn2Inv'
<1>1. UNCHANGED <<topVars, bh>>
      /\ UNCHANGED <<admVars, queueVars, null_location, wait_flag, rd, ubuf>>
  BY DEF vars
<1> QED BY <1>1, RingFrame, AdmFrame, ReaderFrame DEF Asgn2Inv, ReaderInv

LEMMA Asgn2InvStep == Asgn2Inv /\ [Next]_vars => Asgn2Inv'
BY PortStep, BottomHalfStep, OpenCloseStep, ReadStep, StutterStep DEF Next

\* The driver keeps the invariant through every step of the port, the tasklet
\* and the process (asgn_2.c:158-390), for every combination of what may
\* interrupt what.
THEOREM Asgn2Invariant == Spec => []Asgn2Inv
BY Asgn2InvInit, Asgn2InvStep, PTL DEF Spec

(***************************************************************************)
(* What follows from it.                                                   *)
(***************************************************************************)

\* Offsets stay within their pages and data_size within size_t, whatever
\* interrupts whatever; only a process that has the device open is in a read.
THEOREM Asgn2TypeCorrect == Spec => []Asgn2TypeOK
<1>1. Asgn2Inv => Asgn2TypeOK
  <2> SUFFICES ASSUME Asgn2Inv PROVE Asgn2TypeOK
    OBVIOUS
  <2>1. \A i \in DOMAIN mem_list : mem_list[i] \in [Offsets -> 0..255]
    BY ElementType DEF Asgn2Inv, QueueOK, Page
  <2>2. rd.pc \in {"idle", "set_wait", "wait", "asleep", "page", "free", "num",
                  "store_num", "indices", "store_tail", "size", "store_size"}
    BY DEF Asgn2Inv, ReadOK, Places, Before, InLoop
  <2> QED BY <2>1, <2>2 DEF Asgn2Inv, QueueOK, BatchInRing, ReadOK, Asgn2TypeOK
<1> QED BY <1>1, Asgn2Invariant, PTL

\* No terminator is ever copied to the user.
THEOREM TerminatorsKept == Spec => []NoNullDelivered
<1>1. Asgn2Inv => NoNullDelivered
  BY DEF Asgn2Inv
<1> QED BY <1>1, Asgn2Invariant, PTL

\* No read writes past the end of the user's buffer, also when the size left has
\* wrapped below zero.
THEOREM UserBufferSafe == Spec => []UserBufferKept
<1>1. Asgn2Inv => UserBufferKept
  BY DEF Asgn2Inv
<1> QED BY <1>1, Asgn2Invariant, PTL

\* The mark never drifts from the head.
THEOREM MarkFollowsHead == Spec => []MarkAtHead
<1>1. Asgn2Inv => MarkAtHead
  BY DEF Asgn2Inv
<1> QED BY <1>1, Asgn2Invariant, PTL

\* A read starts in the first page.
THEOREM HeadStaysInFirstPage == Spec => []HeadInFirstPage
<1>1. Asgn2Inv => HeadInFirstPage
  BY DEF Asgn2Inv
<1> QED BY <1>1, Asgn2Invariant, PTL

(***************************************************************************)
(* The driver is made of the parts that are specified on their own.        *)
(***************************************************************************)

LEMMA RingStepOfDriver ==
  ASSUME Asgn2Inv, Asgn2Inv', [Next]_vars
  PROVE  [Fifo!FifoNext]_<<RingContent, sending>>
<1>1. TopInv /\ TopInv' /\ TopTypeOK /\ TopTypeOK'
  BY DEF Asgn2Inv, TopInv
<1>2. ASSUME [TopNext]_topVars PROVE [Fifo!FifoNext]_<<RingContent, sending>>
  BY <1>1, <1>2, RingStep
<1>3. ASSUME NEW b \in Bytes, PortHigh(b) PROVE [TopNext]_topVars
  BY <1>3 DEF PortHigh, TopNext, Port
<1>4. ASSUME PortLow PROVE [TopNext]_topVars
  BY <1>4 DEF PortLow, TopNext, Port
<1>5. ASSUME BhEnter PROVE UNCHANGED <<RingContent, sending>>
  BY <1>5 DEF BhEnter, ringVars, RingContent
<1>6. ASSUME NEW g \in Garbage, BhCopy(g)
      PROVE  [Fifo!FifoNext]_<<RingContent, sending>>
  <2>1. PICK n : CopiesBatch(n)
    BY <1>6, BhCopyBatch
  <2>2. n \in 0..CIRC_CNT(tail, head, BUF_SIZE)
    <3>1. CIRC_CNT(tail, head, BUF_SIZE) \in Slots
      BY <1>1, CountInSlots
    <3> QED BY <1>6, <2>1, <3>1 DEF CopiesBatch, BhCopy, Asgn2Inv, BatchInRing, Slots
  <2>3. Consume(n) /\ UNCHANGED <<buf, tail, sending>>
    BY <1>6, <2>1 DEF CopiesBatch, BhCopy
  <2> QED BY <1>1, <2>2, <2>3, ConsumeStep
<1>7. ASSUME BottomHalf PROVE [Fifo!FifoNext]_<<RingContent, sending>>
  <2>1. ASSUME BhCount PROVE [TopNext]_topVars
    BY <2>1 DEF BhCount
  <2>2. ASSUME NEW g \in Garbage, NEW n \in 0..MaxPages, BhAllocFail(n, g)
        PROVE  [TopNext]_topVars
    BY <2>2 DEF BhAllocFail
  <2> QED BY <1>2, <1>5, <1>6, <1>7, <2>1, <2>2 DEF BottomHalf
<1>8. ASSUME Open \/ Close \/ Read \/ UNCHANGED vars PROVE [TopNext]_topVars
  <2>1. ASSUME Open \/ Close \/ UNCHANGED vars PROVE UNCHANGED topVars
    BY <2>1 DEF Open, Close, vars
  <2>2. ASSUME Read PROVE UNCHANGED topVars
    BY <2>2 DEF Read, ReadCall, ReadSetWait, ReadSleep, ReadBegin, ReadPage, ReadNextPage,
                ReadNoPage, LoadNum, LoadSize, Load, StoreNum, ReadHead, StoreTail,
                StoreSize
  <2> QED BY <1>8, <2>1, <2>2
<1> QED BY <1>2, <1>3, <1>4, <1>7, <1>8 DEF Next

\* The ring is a first-in first-out queue also while the tasklet is interrupted
\* between counting a batch and taking it.
THEOREM DriverRingRefinesFifo == Spec => RingIsFifo
<1>1. Init => RingContent = <<>> /\ sending = Idle
  <2> SUFFICES ASSUME Init PROVE RingContent = <<>> /\ sending = Idle
    OBVIOUS
  <2>1. CIRC_CNT(tail, head, BUF_SIZE) = 0
    BY CountBetween, BufSizeAssumption DEF Init, TopInit, Slots
  <2> QED BY <2>1 DEF RingContent, Init, TopInit
<1> QED BY <1>1, RingStepOfDriver, Asgn2Invariant, PTL
        DEF Spec, RingIsFifo, Fifo!FifoSpec, Fifo!FifoInit

LEMMA AdmissionStepOfDriver ==
  ASSUME Asgn2Inv, [Next]_vars PROVE [AdmNext]_admVars
<1>1. ASSUME Open \/ Close PROVE [AdmNext]_admVars
  BY <1>1, ReaderInProcs DEF Open, Close, AdmNext
<1>2. ASSUME ReadPage PROVE [AdmNext]_admVars
  <2>1. fd[reader] = "open"
    BY <1>2 DEF ReadPage, Asgn2Inv, ReadOK
  <2>2. /\ UNCHANGED <<nprocs, max_nprocs, fd, leaked>>
        /\ null_flag' = 1 \/ null_flag' = null_flag
    BY <1>2 DEF ReadPage
  <2> QED BY <2>1, <2>2, ReaderInProcs DEF AdmNext, ReadFindsNull, admVars
<1>3. ASSUME Read, ~ReadPage PROVE UNCHANGED admVars
  BY <1>3 DEF Read, ReadCall, ReadSetWait, ReadSleep, ReadBegin, ReadNextPage,
              ReadNoPage, LoadNum, LoadSize, Load, StoreNum, ReadHead, StoreTail,
              StoreSize
<1>4. ASSUME BottomHalf PROVE UNCHANGED admVars
  BY <1>4 DEF BottomHalf, BhEnter, BhCount, BhCopy, BhAllocFail
<1>5. ASSUME (\E b \in Bytes : PortHigh(b)) \/ PortLow \/ UNCHANGED vars
      PROVE  UNCHANGED admVars
  BY <1>5 DEF PortHigh, PortLow, vars
<1> QED BY <1>1, <1>2, <1>3, <1>4, <1>5 DEF Next

\* The process that reads the device is one of those that Admission speaks of:
\* a read that meets a terminator is its ReadFindsNull, so the accounting and
\* the separation of sessions hold of the whole driver.
THEOREM DriverRefinesAdmission == Spec => AdmSpec
<1>1. Init => AdmInit
  BY DEF Init
<1> QED BY <1>1, AdmissionStepOfDriver, Asgn2Invariant, PTL DEF Spec, AdmSpec

(***************************************************************************)
(* The quiet driver.  What is added to Asgn2Inv when nothing overlaps: one *)
(* byte at most is on its way, and the numbers that the tasklet and a read *)
(* keep of the queue agree with each other and with what the pages hold.   *)
(***************************************************************************)

Stored == CIRC_CNT(tail, head, BUF_SIZE)
InRead == rd.pc \in InLoop \cup {"store_tail", "size", "store_size"}
TailIndex == page_queue.tail_index - (IF TailStale THEN rd.freed ELSE 0)

\* A byte on its way goes to tail_offset; it is in the ring exactly as long as
\* the tasklet has not taken it, and nothing is on its way during a read.
PortOK ==
  /\ Stored = IF scheduled \/ bh.pc # "idle" THEN 1 ELSE 0
  /\ scheduled => bh.pc = "idle"
  /\ bh.pc = "copy" => bh.count = 1
  /\ sending # Idle => Stored = 0
  /\ rd.pc \notin {"idle", "asleep"} => Stored = 0
  /\ sending = 0 => page_queue.tail_offset \in NullSlots
  /\ Stored = 1 /\ buf[head] = 0 => page_queue.tail_offset \in NullSlots
  /\ sent \in 0..MaxBytes
  /\ data_size + Stored + (IF sending = Idle THEN 0 ELSE 1) <= sent

\* The sizes, the indices and the list agree.
SizeOK ==
  /\ page_queue.head_offset \in Offsets
  /\ TailIndex \in Nat
  /\ data_size = TailPlace + (IF InRead THEN rd.freed * PAGE_SIZE ELSE 0)
  /\ HeadPlace <= TailPlace
  /\ Len(mem_list) = TailIndex + (IF page_queue.tail_offset = 0 THEN 0 ELSE 1)
  /\ num_pages = Len(mem_list) + (IF rd.pc \in {"num", "store_num"} THEN 1 ELSE 0)
  /\ rd.pc = "store_num" => rd.reg = num_pages
  /\ rd.pc = "store_tail" => rd.reg = page_queue.tail_index
  /\ rd.pc = "store_size" => rd.reg = data_size
  /\ wait_flag = 1 => HeadPlace = TailPlace

\* Terminators are where the port puts them.
NullsOK ==
  \A i \in DOMAIN mem_list : \A o \in Offsets :
    (i - 1) * PAGE_SIZE + o < TailPlace /\ mem_list[i][o] = 0 => o \in NullSlots

NullAhead ==
  page_queue.head_offset < TailPlace /\ mem_list[1][page_queue.head_offset] = 0

\* A mark, and null_flag in a read, mean that the next byte is a terminator;
\* after the read the flag has its mark, until the terminator is passed and the
\* process closes the device.
SessionOK ==
  /\ null_location # -1 => NullAhead
  /\ null_flag = 1 /\ rd.pc \in InLoop \cup {"store_tail"} => NullAhead
  /\ null_flag = 1 /\ rd.pc \in {"idle", "size", "store_size"} =>
       null_location # -1 \/ rd.eof
  /\ rd.pc # "idle" => ~rd.eof
  /\ rd.pc \in Before => null_flag = 0
  /\ rd.pc \in {"free", "num", "store_num", "indices", "store_tail", "size", "store_size"}
       => ubuf # <<>> \/ null_flag = 1

\* The loop of a read is always in the first page, and is left when all is read
\* or a terminator is met.
LoopOK ==
  /\ rd.pc = "set_wait" => HeadPlace = TailPlace
  /\ rd.pc = "wait" => wait_flag = 1 \/ HeadPlace < TailPlace
  /\ rd.pc \in Before => rd.size >= MaxBytes
  /\ rd.pc \in Before \cup {"page", "free", "num", "store_num"} => rd.pos = 0
  /\ rd.pc \in {"page", "free", "num", "store_num"} => rd.actual = TailPlace - HeadPlace
  /\ rd.pc = "page" => HeadPlace < TailPlace
  /\ rd.pc = "free" => rd.more = (Len(mem_list) > 1)
  /\ rd.pc \in {"num", "store_num"} => rd.more = (Len(mem_list) > 0)
  /\ rd.pc = "free" /\ page_queue.head_offset = 0 => null_flag = 0
  /\ rd.pc \in {"num", "store_num"} => null_flag = 0 /\ page_queue.head_offset = 0
  /\ rd.pc = "free" /\ page_queue.head_offset # 0 =>
       null_flag = 1 \/ HeadPlace = TailPlace

QuietInv == PortOK /\ SizeOK /\ NullsOK /\ SessionOK /\ LoopOK

\* What the invariant says of the page queue and of its reader.
QueueInv == SizeOK /\ NullsOK /\ SessionOK /\ LoopOK

\* The port and the first steps of the tasklet do not touch the queue.
LEMMA QueueInvFrame ==
  ASSUME QueueInv,
         UNCHANGED <<admVars, queueVars, null_location, wait_flag, rd, ubuf>>
  PROVE  QueueInv'
BY DEF QueueInv, SizeOK, NullsOK, SessionOK, LoopOK, NullAhead, TailIndex, TailPlace,
       TailStale, Looping, HeadPlace, InRead, queueVars, admVars

LEMMA QuietInvInit == QuietDriver /\ Init => QuietInv
<1> SUFFICES ASSUME QuietDriver, Init PROVE QuietInv
  OBVIOUS
<1>1. /\ TailIndex = 0 /\ TailPlace = 0 /\ HeadPlace = 0 /\ ~InRead
      /\ page_queue.head_offset = 0 /\ page_queue.tail_offset = 0
      /\ mem_list = <<>> /\ num_pages = 0 /\ data_size = 0 /\ rd.pc = "idle"
      /\ null_flag = 0 /\ null_location = -1
  BY SizesPositive DEF Init, AdmInit, TailIndex, TailPlace, HeadPlace, TailStale, Looping, InRead,
     InLoop
<1>2. Stored = 0 /\ ~scheduled /\ sending = Idle /\ sent = 0 /\ bh.pc = "idle"
  BY BufSizeAssumption, CountBetween DEF Init, TopInit, Stored, Slots
<1>3. PortOK
  BY <1>1, <1>2 DEF PortOK, QuietDriver, Idle
<1>4. SizeOK
  BY <1>1, SizesPositive DEF SizeOK
<1>5. NullsOK /\ SessionOK /\ LoopOK
  BY <1>1 DEF NullsOK, SessionOK, LoopOK, Before, InLoop
<1> QED BY <1>3, <1>4, <1>5 DEF QuietInv

(***************************************************************************)
(* The port and the first steps of the tasklet.                            *)
(***************************************************************************)

\* The port sends the two halves of a byte, and the second stores it.
LEMMA QuietPortHighStep ==
  ASSUME QuietDriver, Asgn2Inv, QuietInv, NEW b \in Bytes, PortHigh(b)
  PROVE  QuietInv'
<1>1. /\ bh.pc = "idle" /\ ~scheduled /\ rd.pc \in {"idle", "asleep"}
      /\ sent < MaxBytes /\ sent' = sent + 1 /\ (b = 0 => NextSlot \in NullSlots)
      /\ UNCHANGED <<admVars, queueVars, null_location, wait_flag, bh, rd, ubuf>>
  BY DEF PortHigh, PortFree, QuietDriver
<1>2. sending = Idle /\ sending' = b /\ b # Idle /\ UNCHANGED <<buf, head, tail, scheduled>>
  BY HighStep DEF PortHigh, Asgn2Inv
<1>3. Stored = 0 /\ Stored' = 0
  BY <1>1, <1>2 DEF QuietInv, PortOK, Stored
<1>4. NextSlot = page_queue.tail_offset
  BY <1>3, SizesPositive DEF NextSlot, Stored, Asgn2Inv, QueueOK, Offsets
<1>5. data_size \in Nat
  BY SizeRangeAssumption DEF Asgn2Inv, QueueOK
<1>6. PortOK'
  BY <1>1, <1>2, <1>3, <1>4, <1>5 DEF QuietInv, PortOK, QuietDriver, queueVars, Idle
<1> QED BY <1>1, <1>6, QueueInvFrame DEF QuietInv, QueueInv

LEMMA QuietPortLowStep ==
  ASSUME QuietDriver, Asgn2Inv, QuietInv, PortLow
  PROVE  QuietInv'
<1>1. /\ bh.pc = "idle" /\ ~scheduled /\ rd.pc \in {"idle", "asleep"}
      /\ sent' = sent
      /\ UNCHANGED <<admVars, queueVars, null_location, wait_flag, bh, rd, ubuf>>
  BY DEF PortLow, PortFree, QuietDriver
<1>2. /\ sending \in Bytes /\ sending' = Idle /\ UNCHANGED head
      /\ Store(sending) \/ StoreSpare(sending) \/ Drop(sending)
  BY LowStep DEF PortLow, Asgn2Inv
<1>3. Stored = 0 /\ sending # Idle
  BY <1>2, BytesAssumption DEF QuietInv, PortOK, PortLow, SendLow
<1>4. head \in Slots /\ tail \in Slots /\ buf \in [Slots -> 0..255]
  BY DEF Asgn2Inv, TopInv, TopTypeOK
<1>5. Stored # BUF_SIZE - 1
  BY <1>3, BufSizeAssumption
<1>6. Store(sending)
  BY <1>2, <1>4, <1>5, FullWhenOneLeft DEF Stored, StoreSpare, Drop
<1>7. Stored' = 1
  <2>1. CIRC_CNT((tail + 1) % BUF_SIZE, head, BUF_SIZE) = CIRC_CNT(tail, head, BUF_SIZE) + 1
    BY <1>4, <1>5, CountAfterStore DEF Stored
  <2> QED BY <1>2, <1>3, <1>6, <2>1 DEF Stored, Store
<1>8. head = tail
  <2>1. CIRC_CNT(tail, head, BUF_SIZE) = 0
    BY <1>3 DEF Stored
  <2> QED BY <1>4, <2>1, CountBetween, BufSizeAssumption DEF Slots
<1>9. buf'[head'] = sending /\ scheduled'
  BY <1>2, <1>4, <1>6, <1>8 DEF Store
<1>10. data_size \in Nat
  BY SizeRangeAssumption DEF Asgn2Inv, QueueOK
<1>11. PortOK'
  BY <1>1, <1>2, <1>3, <1>7, <1>9, <1>10 DEF QuietInv, PortOK, queueVars, Idle
<1> QED BY <1>1, <1>11, QueueInvFrame DEF QuietInv, QueueInv

\* The tasklet takes its turn, and counts one byte.
LEMMA QuietBhEnterStep ==
  ASSUME QuietDriver, Asgn2Inv, QuietInv, BhEnter PROVE QuietInv'
<1>1. /\ scheduled /\ ~scheduled' /\ bh.pc = "idle" /\ bh' = [bh EXCEPT !.pc = "count"]
      /\ UNCHANGED <<buf, head, tail, sending, sent>>
      /\ UNCHANGED <<admVars, queueVars, null_location, wait_flag, rd, ubuf>>
  BY DEF BhEnter, Dispatch, ringVars
<1>2. bh'.pc = "count" /\ Stored' = Stored
  BY <1>1 DEF Asgn2Inv, BatchInRing, Stored
<1>3. PortOK'
  BY <1>1, <1>2 DEF QuietInv, PortOK, queueVars
<1> QED BY <1>1, <1>3, QueueInvFrame DEF QuietInv, QueueInv

LEMMA QuietBhCountStep ==
  ASSUME QuietDriver, Asgn2Inv, QuietInv, BhCount PROVE QuietInv'
<1>1. /\ bh.pc = "count" /\ bh' = [pc |-> "copy", count |-> Stored]
      /\ UNCHANGED <<topVars, sent>>
      /\ UNCHANGED <<admVars, queueVars, null_location, wait_flag, rd, ubuf>>
  BY DEF BhCount, Stored
<1>2. Stored = 1 /\ Stored' = Stored
  BY <1>1 DEF QuietInv, PortOK, Stored, topVars
<1>3. PortOK'
  BY <1>1, <1>2 DEF QuietInv, PortOK, queueVars, topVars
<1> QED BY <1>1, <1>3, QueueInvFrame DEF QuietInv, QueueInv

(***************************************************************************)
(* Places, and what the tasklet does with a batch of one byte.             *)
(***************************************************************************)

\* Places in a list of pages: page and offset determine the place and are
\* determined by it.
LEMMA PlaceOf ==
  ASSUME NEW q \in Nat, NEW r \in Offsets
  PROVE  /\ q * PAGE_SIZE \in Nat /\ (q + 1) * PAGE_SIZE = q * PAGE_SIZE + PAGE_SIZE
         /\ (q * PAGE_SIZE + r) \div PAGE_SIZE = q
         /\ (q * PAGE_SIZE + r) % PAGE_SIZE = r
<1>1. q * PAGE_SIZE \in Nat /\ (q + 1) * PAGE_SIZE = q * PAGE_SIZE + PAGE_SIZE
  BY SizesPositive
<1>2. (q * PAGE_SIZE + r) % PAGE_SIZE = r
  BY <1>1, SizesPositive DEF Offsets
<1>3. (q * PAGE_SIZE + r) \div PAGE_SIZE = q
  BY <1>1, SizesPositive DEF Offsets
<1> QED BY <1>1, <1>2, <1>3

\* A place is in one page, at one offset.
LEMMA PlaceUnique ==
  ASSUME NEW q \in Nat, NEW r \in Offsets, NEW q2 \in Nat, NEW r2 \in Offsets
  PROVE  /\ q * PAGE_SIZE + r = q2 * PAGE_SIZE + r2 => q = q2 /\ r = r2
         /\ q < q2 => q * PAGE_SIZE + r < q2 * PAGE_SIZE
<1>1. q * PAGE_SIZE + r = q2 * PAGE_SIZE + r2 => q = q2 /\ r = r2
  BY PlaceOf
<1>2. ASSUME q < q2 PROVE q * PAGE_SIZE + r < q2 * PAGE_SIZE
  <2>1. (q + 1) * PAGE_SIZE <= q2 * PAGE_SIZE
    <3> DEFINE d == q2 - (q + 1)
    <3>1. d \in Nat /\ q2 = q + 1 + d
      BY <1>2
    <3>2. \A x \in Nat : x * PAGE_SIZE \in Nat
      BY SizesPositive
    <3> HIDE DEF d
    <3>3. (q + 1 + d) * PAGE_SIZE = (q + 1) * PAGE_SIZE + d * PAGE_SIZE
      BY <3>1, SizesPositive
    <3> QED BY <3>1, <3>2, <3>3
  <2> QED BY <2>1, PlaceOf, SizesPositive DEF Offsets
<1> QED BY <1>1, <1>2

\* While the tasklet has a byte the reader is idle or asleep, and the numbers are
\* as between reads.
LEMMA QuietAtCopy ==
  ASSUME QuietDriver, Asgn2Inv, QuietInv, bh.pc = "copy"
  PROVE  /\ Stored = 1 /\ bh.count = 1 /\ ~scheduled /\ sending = Idle
         /\ rd.pc \in {"idle", "asleep"} /\ ~TailStale /\ ~InRead
         /\ TailIndex = page_queue.tail_index /\ TailIndex \in Nat
         /\ page_queue.tail_offset \in Offsets
         /\ TailPlace = TailIndex * PAGE_SIZE + page_queue.tail_offset
         /\ HeadPlace = page_queue.head_offset
         /\ data_size = TailPlace /\ data_size \in Nat /\ data_size + 1 <= MaxBytes
         /\ num_pages = Len(mem_list)
<1>1. Stored = 1 /\ bh.count = 1 /\ ~scheduled /\ sending = Idle
  BY DEF QuietInv, PortOK
<1>2. rd.pc \in {"idle", "asleep"}
  BY <1>1 DEF QuietInv, PortOK
<1>3. ~TailStale /\ ~InRead /\ rd.pc # "free" /\ rd.pc \notin {"num", "store_num"}
  BY <1>2 DEF TailStale, Looping, InRead, InLoop
<1>4. page_queue.tail_index \in Int /\ page_queue.tail_offset \in Offsets
  BY DEF Asgn2Inv, QueueOK
<1>5. TailIndex = page_queue.tail_index /\ TailIndex \in Nat
  BY <1>3, <1>4 DEF TailIndex, QuietInv, SizeOK
<1>6. TailPlace = TailIndex * PAGE_SIZE + page_queue.tail_offset
  BY <1>3, <1>4, <1>5 DEF TailPlace
<1>7. HeadPlace = page_queue.head_offset
  BY <1>3 DEF HeadPlace
<1>8. TailPlace \in Nat
  BY <1>4, <1>5, <1>6, PlaceOf DEF Offsets
<1>9. data_size = TailPlace
  BY <1>3, <1>8 DEF QuietInv, SizeOK
<1>10. num_pages = Len(mem_list)
  <2>1. Len(mem_list) \in Nat
    BY DEF Asgn2Inv, QueueOK
  <2> QED BY <1>3, <2>1 DEF QuietInv, SizeOK
<1>11. data_size + 1 <= MaxBytes
  BY <1>1, <1>8, <1>9 DEF QuietInv, PortOK, QuietDriver, Idle
<1> QED BY <1>1, <1>2, <1>3, <1>4, <1>5, <1>6, <1>7, <1>8, <1>9, <1>10, <1>11

\* How many pages a batch of one byte needs, and that they are to be had.
LEMMA QuietPages ==
  ASSUME QuietDriver, Asgn2Inv, QuietInv, bh.pc = "copy"
  PROVE  /\ PagesMissing = IF page_queue.tail_offset = 0 THEN 1 ELSE 0
         /\ Len(mem_list) + PagesMissing = TailIndex + 1
         /\ TailIndex + 1 <= MaxPages
<1> DEFINE to == page_queue.tail_offset
<1>1. /\ bh.count = 1 /\ TailIndex \in Nat /\ to \in Offsets
      /\ data_size = TailIndex * PAGE_SIZE + to /\ data_size \in Nat
      /\ data_size + 1 <= MaxBytes /\ num_pages = Len(mem_list)
  BY QuietAtCopy
<1>2. Len(mem_list) = TailIndex + (IF to = 0 THEN 0 ELSE 1)
  BY DEF QuietInv, SizeOK
<1> HIDE DEF to
<1>3. (data_size + bh.count) % SIZE_RANGE = data_size + 1
  <2>1. data_size + 1 \in 0..(SIZE_RANGE - 1)
    BY <1>1, SizeRangeAssumption DEF QuietDriver
  <2> QED BY <1>1, <2>1, SizeRangeAssumption
<1>4. ((data_size + 1) + PAGE_SIZE - 1) \div PAGE_SIZE = TailIndex + 1
  <2>1. (data_size + 1) + PAGE_SIZE - 1 = (TailIndex + 1) * PAGE_SIZE + to
    <3>1. TailIndex * PAGE_SIZE \in Nat /\ to \in Nat
          /\ (TailIndex + 1) * PAGE_SIZE = TailIndex * PAGE_SIZE + PAGE_SIZE
      BY <1>1, PlaceOf DEF Offsets
    <3> QED BY <1>1, <3>1, SizesPositive
  <2>2. TailIndex + 1 \in Nat
    BY <1>1
  <2>3. ((TailIndex + 1) * PAGE_SIZE + to) \div PAGE_SIZE = TailIndex + 1
    BY <1>1, <2>2, PlaceOf
  <2> QED BY <2>1, <2>3
<1>5. PagesMissing = IF to = 0 THEN 1 ELSE 0
  <2>1. PagesMissing = Greater(0, (TailIndex + 1) - num_pages)
    BY <1>3, <1>4 DEF PagesMissing
  <2> QED BY <1>1, <1>2, <2>1 DEF Greater
<1>6. TailIndex + 1 <= MaxPages
  <2>1. CASE MaxPages <= TailIndex
    <3>1. MaxPages * PAGE_SIZE <= TailIndex * PAGE_SIZE
      <4>1. MaxPages = TailIndex \/ MaxPages < TailIndex
        BY <1>1, <2>1, MaxPagesAssumption
      <4>2. MaxPages < TailIndex => MaxPages * PAGE_SIZE + 0 < TailIndex * PAGE_SIZE
        BY <1>1, MaxPagesAssumption, SizesPositive, PlaceUnique
      <4>3. MaxPages * PAGE_SIZE \in Nat /\ TailIndex * PAGE_SIZE \in Nat
        BY <1>1, MaxPagesAssumption, PlaceOf
      <4> QED BY <4>1, <4>2, <4>3
    <3>2. MaxPages * PAGE_SIZE \in Nat /\ TailIndex * PAGE_SIZE \in Nat /\ to \in Nat
      BY <1>1, MaxPagesAssumption, SizesPositive DEF Offsets
    <3> QED BY <1>1, <3>1, <3>2 DEF QuietDriver
  <2> QED BY <1>1, <2>1, MaxPagesAssumption
<1> QED BY <1>1, <1>2, <1>5, <1>6 DEF to

\* Memory lasts.
LEMMA QuietNoAllocFail ==
  ASSUME QuietDriver, Asgn2Inv, QuietInv, NEW n, NEW g
  PROVE  ~BhAllocFail(n, g)
<1>1. SUFFICES ASSUME BhAllocFail(n, g) PROVE FALSE
  OBVIOUS
<1>2. bh.pc = "copy" /\ (AllocFails \/ Len(mem_list) + PagesMissing > MaxPages)
  BY <1>1 DEF BhAllocFail
<1>3. Len(mem_list) + PagesMissing <= MaxPages
  BY <1>2, QuietPages
<1>4. Len(mem_list) + PagesMissing \in Nat /\ MaxPages \in Nat
  BY <1>2, QuietPages, QuietAtCopy, MaxPagesAssumption
<1> QED BY <1>2, <1>3, <1>4 DEF QuietDriver

\* What a run of the tasklet does when the ring holds one byte.
CopiesByte(g) ==
  /\ mem_list' \in Seq(Page) /\ Len(mem_list') = TailIndex + 1
  /\ \A i \in 1..(TailIndex + 1), o \in Offsets :
       mem_list'[i][o] = IF (i - 1) * PAGE_SIZE + o = TailPlace THEN buf[head]
                         ELSE IF i <= Len(mem_list) THEN mem_list[i][o] ELSE g
  /\ num_pages' = TailIndex + 1
  /\ data_size' = data_size + 1
  /\ page_queue'.head_offset = page_queue.head_offset
  /\ \/ /\ page_queue.tail_offset + 1 = PAGE_SIZE
        /\ page_queue'.tail_index = page_queue.tail_index + 1
        /\ page_queue'.tail_offset = 0
     \/ /\ page_queue.tail_offset + 1 \in Offsets
        /\ page_queue'.tail_index = page_queue.tail_index
        /\ page_queue'.tail_offset = page_queue.tail_offset + 1
  /\ Stored' = 0

LEMMA QuietBhCopyFacts ==
  ASSUME QuietDriver, Asgn2Inv, QuietInv, NEW g \in Garbage, BhCopy(g)
  PROVE  CopiesByte(g)
<1> DEFINE pages == mem_list \o NewPages(PagesMissing, g)
           off   == page_queue.tail_offset
           start == Greater(0, page_queue.tail_index) * PAGE_SIZE + off
           n     == Lesser(bh.count, Greater(0, Len(pages) * PAGE_SIZE - start))
           first == Lesser(n, PAGE_SIZE - off)
           begin_offset == IF n = 0 THEN 0 ELSE (off + n) % PAGE_SIZE
<1>1. /\ bh.pc = "copy"
      /\ mem_list' =
           [i \in DOMAIN pages |-> [o \in Offsets |->
              LET k == (i - 1) * PAGE_SIZE + o - start
              IN  IF k \in 0..(n - 1) THEN BatchByte(k, first, g) ELSE pages[i][o]]]
      /\ num_pages' = num_pages + PagesMissing
      /\ data_size' = (data_size + n) % SIZE_RANGE
      /\ page_queue' = [page_queue EXCEPT
                          !.tail_index = IF begin_offset = 0 THEN @ + 1 ELSE @,
                          !.tail_offset = begin_offset]
      /\ Consume(n) /\ UNCHANGED <<buf, tail>>
  BY DEF BhCopy
<1>2. /\ Stored = 1 /\ bh.count = 1
      /\ TailIndex = page_queue.tail_index /\ TailIndex \in Nat /\ off \in Offsets
      /\ TailPlace = TailIndex * PAGE_SIZE + off
      /\ data_size = TailPlace /\ data_size \in Nat /\ data_size + 1 <= MaxBytes
      /\ num_pages = Len(mem_list)
  BY <1>1, QuietAtCopy
<1>3. /\ PagesMissing = IF off = 0 THEN 1 ELSE 0
      /\ Len(mem_list) + PagesMissing = TailIndex + 1
  BY <1>1, QuietPages
<1>4. /\ pages \in Seq(Page) /\ Len(pages) = TailIndex + 1
      /\ \A i \in 1..(TailIndex + 1), o \in Offsets :
           pages[i][o] = IF i <= Len(mem_list) THEN mem_list[i][o] ELSE g
  <2>1. PagesMissing \in Nat /\ mem_list \in Seq(Page)
    BY <1>3 DEF Asgn2Inv, QueueOK
  <2>2. NewPages(PagesMissing, g) \in Seq(Page) /\ Len(NewPages(PagesMissing, g)) = PagesMissing
    BY <2>1, NewPagesProperties
  <2>3. \A i \in 1..PagesMissing, o \in Offsets : NewPages(PagesMissing, g)[i][o] = g
    BY <2>1 DEF NewPages
  <2> HIDE DEF NewPages
  <2> DEFINE np == NewPages(PagesMissing, g)
  <2> HIDE DEF np
  <2>4. np \in Seq(Page) /\ Len(np) = PagesMissing
        /\ \A i \in 1..PagesMissing, o \in Offsets : np[i][o] = g
    BY <2>2, <2>3 DEF np
  <2>5. pages = mem_list \o np
    BY DEF np
  <2> HIDE DEF pages
  <2>6. pages \in Seq(Page) /\ Len(pages) = TailIndex + 1
    BY <1>3, <2>1, <2>4, <2>5, ConcatType
  <2>7. ASSUME NEW i \in 1..(TailIndex + 1), NEW o \in Offsets
        PROVE  pages[i][o] = IF i <= Len(mem_list) THEN mem_list[i][o] ELSE g
    <3>1. pages[i] = IF i <= Len(mem_list) THEN mem_list[i] ELSE np[i - Len(mem_list)]
      BY <1>3, <2>1, <2>4, <2>5
    <3>2. i <= Len(mem_list) \/ i - Len(mem_list) \in 1..PagesMissing
      BY <1>2, <1>3, <2>1
    <3> QED BY <2>4, <3>1, <3>2
  <2> QED BY <2>6, <2>7
<1> HIDE DEF pages
<1>5. start = TailPlace
  BY <1>2 DEF Greater
<1>6. n = 1
  <2>1. Len(pages) * PAGE_SIZE - start = PAGE_SIZE - off
    <3>1. /\ TailIndex * PAGE_SIZE \in Nat
          /\ (TailIndex + 1) * PAGE_SIZE = TailIndex * PAGE_SIZE + PAGE_SIZE
      BY <1>2, PlaceOf
    <3>2. off \in Nat
      BY <1>2, SizesPositive DEF Offsets
    <3> HIDE DEF start, off
    <3>3. Len(pages) * PAGE_SIZE = TailIndex * PAGE_SIZE + PAGE_SIZE
      BY <1>4, <3>1
    <3>4. start = TailIndex * PAGE_SIZE + off
      BY <1>2, <1>5
    <3> QED BY <3>1, <3>2, <3>3, <3>4, SizesPositive
  <2>2. PAGE_SIZE - off \in Nat \ {0}
    BY <1>2, SizesPositive DEF Offsets
  <2> HIDE DEF start, off
  <2> QED BY <1>2, <2>1, <2>2 DEF Lesser, Greater
<1>7. first = 1
  BY <1>2, <1>6, SizesPositive DEF Lesser, Offsets
<1> HIDE DEF n, first, start
<1>8. BatchByte(0, first, g) = buf[head]
  <2>1. head \in Slots
    BY DEF Asgn2Inv, TopInv, TopTypeOK
  <2>2. 0 < first /\ head + 0 = head /\ head < BUF_SIZE
    BY <1>7, <2>1, BufSizeAssumption DEF Slots
  <2> QED BY <2>2 DEF BatchByte
<1>9. ASSUME NEW i \in 1..(TailIndex + 1), NEW o \in Offsets
      PROVE  mem_list'[i][o] = IF (i - 1) * PAGE_SIZE + o = TailPlace THEN buf[head]
                               ELSE IF i <= Len(mem_list) THEN mem_list[i][o] ELSE g
  <2>1. i \in DOMAIN pages
    BY <1>2, <1>4
  <2> DEFINE k == (i - 1) * PAGE_SIZE + o - start
  <2>2. mem_list'[i][o] = IF k \in 0..(n - 1) THEN BatchByte(k, first, g) ELSE pages[i][o]
    BY <1>1, <2>1
  <2> DEFINE x == (i - 1) * PAGE_SIZE
  <2>3. x \in Nat /\ o \in Nat /\ start \in Nat
    <3>1. i - 1 \in Nat
      OBVIOUS
    <3> QED BY <1>2, <1>5, <3>1, SizesPositive DEF Offsets
  <2>4. k \in 0..(n - 1) <=> x + o = TailPlace
    <3>1. k = x + o - start
      OBVIOUS
    <3> HIDE DEF x, k
    <3> QED BY <1>5, <1>6, <2>3, <3>1
  <2>5. k \in 0..(n - 1) => k = 0
    BY <1>6
  <2> HIDE DEF k
  <2> QED BY <1>4, <1>8, <2>2, <2>4, <2>5
<1>10. mem_list' \in Seq(Page) /\ Len(mem_list') = TailIndex + 1
  <2>1. DOMAIN pages = 1..(TailIndex + 1) /\ TailIndex + 1 \in Nat
    BY <1>2, <1>4
  <2>2. head \in Slots /\ buf \in [Slots -> 0..255] /\ g \in 0..255
    BY GarbageAssumption DEF Asgn2Inv, TopInv, TopTypeOK
  <2>3. \A i \in 1..Len(mem_list), o \in Offsets : mem_list[i][o] \in 0..255
    BY ElementType DEF Asgn2Inv, QueueOK, Page
  <2>4. ASSUME NEW i \in 1..(TailIndex + 1) PROVE mem_list'[i] \in Page
    <3>1. mem_list'[i] = [o \in Offsets |-> mem_list'[i][o]]
      BY <1>1, <2>1
    <3>2. ASSUME NEW o \in Offsets PROVE mem_list'[i][o] \in 0..255
      <4>1. Len(mem_list) \in Nat
        BY DEF Asgn2Inv, QueueOK
      <4>2. i <= Len(mem_list) => mem_list[i][o] \in 0..255
        <5>1. i <= Len(mem_list) => i \in 1..Len(mem_list)
          BY <1>2, <4>1
        <5> QED BY <2>3, <5>1, Zenon
      <4>3. buf[head] \in 0..255
        BY <2>2
      <4> QED BY <1>9, <2>2, <4>2, <4>3
    <3> QED BY <3>1, <3>2 DEF Page
  <2>5. mem_list' \in [1..(TailIndex + 1) -> Page]
    BY <1>1, <2>1, <2>4
  <2> QED BY <2>1, <2>5, SequenceOfFunction
<1>11. num_pages' = TailIndex + 1
  BY <1>1, <1>2, <1>3
<1>12. data_size' = data_size + 1
  <2>1. data_size + 1 \in 0..(SIZE_RANGE - 1)
    BY <1>2, SizeRangeAssumption DEF QuietDriver
  <2>2. data_size' = (data_size + 1) % SIZE_RANGE
    BY <1>1, <1>6
  <2> QED BY <2>1, <2>2, SizeRangeAssumption
<1>13. /\ page_queue'.head_offset = page_queue.head_offset
       /\ \/ /\ page_queue.tail_offset + 1 = PAGE_SIZE
             /\ page_queue'.tail_index = page_queue.tail_index + 1
             /\ page_queue'.tail_offset = 0
          \/ /\ page_queue.tail_offset + 1 \in Offsets
             /\ page_queue'.tail_index = page_queue.tail_index
             /\ page_queue'.tail_offset = page_queue.tail_offset + 1
  <2>1. page_queue \in [head_index : Int, tail_index : Int,
                        head_offset : 0..PAGE_SIZE, tail_offset : Offsets]
    BY DEF Asgn2Inv, QueueOK
  <2>2. begin_offset = (off + 1) % PAGE_SIZE
    BY <1>6
  <2>3. \/ off + 1 = PAGE_SIZE /\ begin_offset = 0
        \/ off + 1 \in Offsets /\ begin_offset = off + 1 /\ begin_offset # 0
    <3>1. off \in 0..(PAGE_SIZE - 1) /\ PAGE_SIZE \in Nat \ {0}
      BY <1>2, SizesPositive DEF Offsets
    <3> HIDE DEF off, begin_offset
    <3>2. CASE off + 1 = PAGE_SIZE
      <4>1. PAGE_SIZE % PAGE_SIZE = 0
        BY <3>1
      <4> QED BY <2>2, <3>2, <4>1
    <3>3. CASE off + 1 # PAGE_SIZE
      <4>1. off + 1 \in 0..(PAGE_SIZE - 1) /\ off + 1 # 0
        BY <3>1, <3>3
      <4>2. (off + 1) % PAGE_SIZE = off + 1
        BY <3>1, <4>1
      <4> QED BY <2>2, <4>1, <4>2 DEF Offsets
    <3> QED BY <3>2, <3>3
  <2> HIDE DEF begin_offset
  <2> QED BY <1>1, <2>1, <2>3
<1>14. Stored' = 0
  <2>1. head \in Slots /\ tail \in Slots /\ 1 \in 0..CIRC_CNT(tail, head, BUF_SIZE)
    BY <1>2 DEF Asgn2Inv, TopInv, TopTypeOK, Stored
  <2>2. CIRC_CNT(tail, (head + 1) % BUF_SIZE, BUF_SIZE) = CIRC_CNT(tail, head, BUF_SIZE) - 1
    BY <2>1, CountAfterTake
  <2> QED BY <1>1, <1>2, <1>6, <2>2 DEF Stored, Consume
<1> QED BY <1>9, <1>10, <1>11, <1>12, <1>13, <1>14 DEF CopiesByte

\* The tail moves on by one place and the head stays.
LEMMA QuietBhCopyMoves ==
  ASSUME QuietDriver, Asgn2Inv, QuietInv, NEW g \in Garbage, BhCopy(g)
  PROVE  /\ rd' = [rd EXCEPT !.pc = IF rd.pc = "asleep" THEN "wait" ELSE rd.pc]
         /\ rd'.pc \in {"idle", "wait"} /\ ~TailStale' /\ ~InRead'
         /\ TailIndex' = page_queue'.tail_index
         /\ page_queue'.tail_offset \in Offsets
         /\ TailPlace' = TailPlace + 1
         /\ HeadPlace' = HeadPlace
<1>1. bh.pc = "copy" /\ rd' = WakeReader
  BY DEF BhCopy
<1>2. rd.pc \in {"idle", "asleep"}
  BY <1>1, QuietAtCopy
<1>3. CopiesByte(g)
  BY QuietBhCopyFacts
<1>4. /\ rd' = [rd EXCEPT !.pc = IF rd.pc = "asleep" THEN "wait" ELSE rd.pc]
      /\ rd'.pc \in {"idle", "wait"}
  BY <1>1, <1>2 DEF WakeReader, Asgn2Inv, ReadOK
<1>5. ~TailStale' /\ ~InRead' /\ HeadPlace' = HeadPlace
  BY <1>2, <1>3, <1>4 DEF TailStale, Looping, InRead, InLoop, HeadPlace, CopiesByte
<1>6. /\ TailIndex = page_queue.tail_index /\ TailIndex \in Nat
      /\ page_queue.tail_offset \in Offsets
      /\ TailPlace = TailIndex * PAGE_SIZE + page_queue.tail_offset
  BY <1>1, QuietAtCopy
<1>7. page_queue'.tail_index \in Nat /\ page_queue'.tail_offset \in Offsets
  BY <1>3, <1>6, SizesPositive DEF CopiesByte
<1>8. TailIndex' = page_queue'.tail_index
  BY <1>5, <1>7 DEF TailIndex
<1>9. TailPlace' = page_queue'.tail_index * PAGE_SIZE + page_queue'.tail_offset
  BY <1>5, <1>7 DEF TailPlace
<1>10. TailPlace' = TailPlace + 1
  <2>1. /\ TailIndex * PAGE_SIZE \in Nat
        /\ (TailIndex + 1) * PAGE_SIZE = TailIndex * PAGE_SIZE + PAGE_SIZE
    BY <1>6, PlaceOf
  <2>2. page_queue.tail_offset \in Nat
    BY <1>6, SizesPositive DEF Offsets
  <2> DEFINE x == TailIndex * PAGE_SIZE
  <2>3. x \in Nat /\ TailPlace = x + page_queue.tail_offset
    BY <1>6, <2>1
  <2>4. CASE page_queue'.tail_index = page_queue.tail_index
    <3>1. page_queue'.tail_offset = page_queue.tail_offset + 1
      BY <1>3, <1>6, <2>4 DEF CopiesByte
    <3>2. TailPlace' = x + page_queue'.tail_offset
      BY <1>6, <1>9, <2>4
    <3> HIDE DEF x
    <3> QED BY <2>2, <2>3, <3>1, <3>2
  <2>5. CASE page_queue'.tail_index = page_queue.tail_index + 1
    <3>1. page_queue'.tail_offset = 0 /\ page_queue.tail_offset + 1 = PAGE_SIZE
      BY <1>3, <1>6, <2>5 DEF CopiesByte
    <3>2. TailPlace' = x + PAGE_SIZE + 0
      BY <1>6, <1>9, <2>1, <2>5, <3>1
    <3> HIDE DEF x
    <3> QED BY <2>2, <2>3, <3>1, <3>2, SizesPositive
  <2> QED BY <1>3, <2>4, <2>5 DEF CopiesByte
<1> QED BY <1>4, <1>5, <1>7, <1>8, <1>10

\* A terminator that is ahead stays where it is when a byte is added.
\* What was in the pages below the tail stays there when the tasklet adds a byte.
LEMMA QuietOldBytes ==
  ASSUME QuietDriver, Asgn2Inv, QuietInv, NEW g, bh.pc = "copy", CopiesByte(g),
         NEW i \in 1..(TailIndex + 1), NEW o \in Offsets,
         (i - 1) * PAGE_SIZE + o < TailPlace
  PROVE  i \in 1..Len(mem_list) /\ mem_list'[i][o] = mem_list[i][o]
<1>1. /\ TailIndex \in Nat /\ page_queue.tail_offset \in Offsets
      /\ TailPlace = TailIndex * PAGE_SIZE + page_queue.tail_offset
      /\ data_size = TailPlace /\ data_size \in Nat
  BY QuietAtCopy
<1>2. Len(mem_list) = TailIndex + (IF page_queue.tail_offset = 0 THEN 0 ELSE 1)
  BY DEF QuietInv, SizeOK
<1>3. (i - 1) * PAGE_SIZE + o \in Nat
  <2>1. i - 1 \in Nat
    OBVIOUS
  <2> QED BY <2>1, SizesPositive DEF Offsets
<1>4. i <= Len(mem_list)
  <2>1. CASE page_queue.tail_offset = 0
    <3>1. CASE i = TailIndex + 1
      <4>1. (i - 1) * PAGE_SIZE = TailIndex * PAGE_SIZE
        BY <1>1, <3>1
      <4>2. TailIndex * PAGE_SIZE \in Nat /\ o \in Nat
        BY <1>1, SizesPositive DEF Offsets
      <4> QED BY <1>1, <2>1, <4>1, <4>2
    <3>2. CASE i # TailIndex + 1
      BY <1>1, <1>2, <2>1, <3>2
    <3> QED BY <3>1, <3>2
  <2>2. CASE page_queue.tail_offset # 0
    BY <1>1, <1>2, <2>2
  <2> QED BY <2>1, <2>2
<1>5. mem_list'[i][o] = IF (i - 1) * PAGE_SIZE + o = TailPlace THEN buf[head]
                        ELSE IF i <= Len(mem_list) THEN mem_list[i][o] ELSE g
  BY DEF CopiesByte
<1>6. (i - 1) * PAGE_SIZE + o # TailPlace
  BY <1>1, <1>3
<1>7. i \in 1..Len(mem_list)
  BY <1>1, <1>2, <1>4
<1> QED BY <1>4, <1>5, <1>6, <1>7

LEMMA QuietBhCopyStep ==
  ASSUME QuietDriver, Asgn2Inv, QuietInv, NEW g \in Garbage, BhCopy(g)
  PROVE  QuietInv'
<1>1. /\ bh.pc = "copy" /\ bh'.pc = "idle" /\ wait_flag' = 0
      /\ UNCHANGED <<buf, scheduled, sending, admVars, null_location, ubuf, sent>>
  BY DEF BhCopy
<1>2. CopiesByte(g)
  BY QuietBhCopyFacts
<1>3. /\ rd' = [rd EXCEPT !.pc = IF rd.pc = "asleep" THEN "wait" ELSE rd.pc]
      /\ rd'.pc \in {"idle", "wait"} /\ ~InRead'
      /\ TailIndex' = page_queue'.tail_index
      /\ TailPlace' = TailPlace + 1
      /\ HeadPlace' = HeadPlace
  BY QuietBhCopyMoves
<1>4. /\ Stored = 1 /\ ~scheduled /\ sending = Idle
      /\ rd.pc \in {"idle", "asleep"}
      /\ TailIndex = page_queue.tail_index /\ TailIndex \in Nat
      /\ page_queue.tail_offset \in Offsets
      /\ TailPlace = TailIndex * PAGE_SIZE + page_queue.tail_offset
      /\ HeadPlace = page_queue.head_offset
      /\ data_size = TailPlace /\ data_size \in Nat
  BY <1>1, QuietAtCopy
<1>5. HeadPlace <= TailPlace /\ HeadPlace \in Nat /\ page_queue.head_offset \in Offsets
      /\ Len(mem_list) = TailIndex + (IF page_queue.tail_offset = 0 THEN 0 ELSE 1)
  BY <1>4, SizesPositive DEF QuietInv, SizeOK, Offsets
<1>6. PortOK'
  BY <1>1, <1>2, <1>3, <1>4 DEF QuietInv, PortOK, CopiesByte, Idle
<1>7. SizeOK'
  <2>1. TailIndex' \in Nat
        /\ Len(mem_list') = TailIndex' + (IF page_queue'.tail_offset = 0 THEN 0 ELSE 1)
    BY <1>2, <1>3, <1>4, SizesPositive DEF CopiesByte, Offsets
  <2>2. data_size' = TailPlace' /\ HeadPlace' <= TailPlace' /\ num_pages' = Len(mem_list')
    BY <1>2, <1>3, <1>4, <1>5 DEF CopiesByte
  <2>3. page_queue'.head_offset \in Offsets /\ num_pages' \in Int /\ TailPlace' \in Int
    BY <1>2, <1>3, <1>4, <1>5 DEF CopiesByte
  <2> QED BY <1>1, <1>3, <2>1, <2>2, <2>3 DEF SizeOK
<1>8. ASSUME NEW i \in 1..(TailIndex + 1), NEW o \in Offsets,
             (i - 1) * PAGE_SIZE + o < TailPlace
      PROVE  i \in 1..Len(mem_list) /\ mem_list'[i][o] = mem_list[i][o]
  BY <1>1, <1>2, <1>8, QuietOldBytes
<1>9. NullsOK'
  <2> SUFFICES ASSUME NEW i \in 1..(TailIndex + 1), NEW o \in Offsets,
                      (i - 1) * PAGE_SIZE + o < TailPlace + 1, mem_list'[i][o] = 0
               PROVE  o \in NullSlots
    <3>1. DOMAIN mem_list' = 1..(TailIndex + 1)
      BY <1>2, <1>4 DEF CopiesByte
    <3> QED BY <1>3, <3>1 DEF NullsOK
  <2>1. (i - 1) * PAGE_SIZE + o \in Nat /\ i - 1 \in Nat
    <3>1. i - 1 \in Nat
      OBVIOUS
    <3> QED BY <3>1, SizesPositive DEF Offsets
  <2>2. CASE (i - 1) * PAGE_SIZE + o = TailPlace
    <3>1. buf[head] = 0
      BY <1>2, <2>2 DEF CopiesByte
    <3>2. o = page_queue.tail_offset
      BY <1>4, <2>1, <2>2, PlaceUnique
    <3> QED BY <1>4, <3>1, <3>2 DEF QuietInv, PortOK
  <2>3. CASE (i - 1) * PAGE_SIZE + o # TailPlace
    <3>1. (i - 1) * PAGE_SIZE + o < TailPlace
      BY <1>4, <2>1, <2>3
    <3>2. i \in DOMAIN mem_list /\ mem_list[i][o] = 0
      BY <1>8, <3>1, ElementType DEF Asgn2Inv, QueueOK
    <3> QED BY <3>1, <3>2 DEF QuietInv, NullsOK
  <2> QED BY <2>2, <2>3
<1>10. NullAhead => NullAhead'
  <2> SUFFICES ASSUME NullAhead PROVE NullAhead'
    OBVIOUS
  <2>1. page_queue.head_offset < TailPlace /\ mem_list[1][page_queue.head_offset] = 0
    BY DEF NullAhead
  <2>2. 1 \in 1..(TailIndex + 1) /\ (1 - 1) * PAGE_SIZE + page_queue.head_offset < TailPlace
    <3>1. page_queue.head_offset \in Nat /\ (1 - 1) * PAGE_SIZE = 0
      BY <1>5, SizesPositive DEF Offsets
    <3>2. (1 - 1) * PAGE_SIZE + page_queue.head_offset = page_queue.head_offset
      BY <3>1
    <3> QED BY <1>4, <2>1, <3>2
  <2>3. mem_list'[1][page_queue.head_offset] = mem_list[1][page_queue.head_offset]
    BY <1>5, <1>8, <2>2
  <2> QED BY <1>2, <1>3, <1>4, <1>5, <2>1, <2>3 DEF NullAhead, CopiesByte
<1>11. SessionOK'
  BY <1>1, <1>3, <1>4, <1>10 DEF Asgn2Inv, ReadOK, QuietInv, SessionOK, Before, InLoop, admVars
<1>12. LoopOK'
  BY <1>3, <1>4, <1>5 DEF Asgn2Inv, ReadOK, QuietInv, LoopOK, Before
<1> QED BY <1>6, <1>7, <1>9, <1>11, <1>12 DEF QuietInv

(***************************************************************************)
(* The steps of a read, and of opening and closing the device.             *)
(***************************************************************************)

LEMMA SumShrinks ==
  ASSUME NEW a \in Nat, NEW b \in Nat, NEW c \in Nat, NEW s \in Nat, b <= a, a + c <= s
  PROVE  b + 0 + c <= s
OBVIOUS

\* A step of the reader: nothing is in the ring, and the tail stays where it is.
LEMMA QuietReaderPort ==
  ASSUME QuietDriver, Asgn2Inv, QuietInv, ReaderTurn, UNCHANGED <<topVars, bh, sent>>,
         page_queue'.tail_offset = page_queue.tail_offset,
         data_size' \in Nat, data_size' <= data_size
  PROVE  PortOK'
<1>1. bh.pc = "idle" /\ ~scheduled
  BY DEF ReaderTurn, QuietDriver
<1>2. Stored = 0 /\ Stored' = 0
  BY <1>1 DEF QuietInv, PortOK, Stored, topVars
<1>3. data_size \in Nat
  BY SizeRangeAssumption DEF Asgn2Inv, QueueOK
<1>4. UNCHANGED <<buf, head, scheduled, sending, bh, sent>>
  BY DEF topVars, ringVars
<1>5. data_size + (IF sending = Idle THEN 0 ELSE 1) <= sent /\ sent \in 0..MaxBytes
  BY <1>2, <1>3 DEF QuietInv, PortOK
<1>6. data_size' + Stored' + (IF sending' = Idle THEN 0 ELSE 1) <= sent'
  <2>1. MaxBytes \in Nat
    BY DEF QuietDriver
  <2>2. sent \in Nat /\ sent' = sent /\ sending' = sending
    BY <1>4, <1>5, <2>1
  <2> DEFINE coming == IF sending = Idle THEN 0 ELSE 1
  <2>3. coming \in {0, 1} /\ data_size + coming <= sent
    BY <1>5
  <2>4. data_size' + Stored' + coming <= sent'
    <3> HIDE DEF coming
    <3>1. Stored' = 0
      BY <1>2
    <3>2. coming \in Nat /\ data_size + coming <= sent
      BY <2>3
    <3>3. data_size' + 0 + coming <= sent
      BY <1>3, <2>2, <3>2, SumShrinks
    <3> QED BY <2>2, <3>1, <3>3
  <2> QED BY <2>2, <2>4 DEF Idle
<1>7. sending' = 0 => page_queue'.tail_offset \in NullSlots
  BY <1>4 DEF QuietInv, PortOK
<1>8. Stored' = 0 /\ bh'.pc = "idle" /\ ~scheduled' /\ sent' \in 0..MaxBytes
  BY <1>1, <1>2, <1>4, <1>5
<1> HIDE DEF Stored
<1>9. buf'[head'] = buf[head]
  BY <1>4
<1>10. Stored' # 1 /\ 0 # 1
  BY <1>8
<1> QED BY <1>6, <1>7, <1>8, <1>10, Zenon DEF PortOK

\* What the numbers of the queue are when no page has been freed.
LEMMA QuietAtRest ==
  ASSUME Asgn2Inv, QuietInv
  PROVE  /\ ReaderFields
         /\ page_queue.head_offset \in Offsets /\ page_queue.tail_offset \in Offsets
         /\ page_queue.tail_index \in Int
         /\ TailIndex \in Nat /\ Len(mem_list) \in Nat
         /\ TailPlace = TailIndex * PAGE_SIZE + page_queue.tail_offset
         /\ TailPlace \in Nat /\ HeadPlace \in Nat /\ HeadPlace <= TailPlace
         /\ data_size \in Nat
         /\ ~InRead => data_size = TailPlace
         /\ rd.pc # "free" => HeadPlace = page_queue.head_offset
         /\ page_queue.head_offset # 0 => HeadPlace = page_queue.head_offset
<1>1. ReaderFields /\ page_queue.tail_index \in Int /\ page_queue.tail_offset \in Offsets
      /\ Len(mem_list) \in Nat /\ data_size \in Nat
  BY SizeRangeAssumption DEF Asgn2Inv, ReadOK, ReaderFields, QueueOK
<1>2. page_queue.head_offset \in Offsets /\ TailIndex \in Nat /\ HeadPlace <= TailPlace
  BY DEF QuietInv, SizeOK
<1>3. TailPlace = TailIndex * PAGE_SIZE + page_queue.tail_offset
  BY DEF TailPlace, TailIndex
<1>4. TailPlace \in Nat
  <2>1. TailIndex * PAGE_SIZE \in Nat
    BY <1>2, PlaceOf
  <2>2. page_queue.tail_offset \in Nat
    BY <1>1, SizesPositive DEF Offsets
  <2> QED BY <1>3, <2>1, <2>2
<1>5. HeadPlace \in Nat /\ (rd.pc # "free" => HeadPlace = page_queue.head_offset)
      /\ (page_queue.head_offset # 0 => HeadPlace = page_queue.head_offset)
  BY <1>2, SizesPositive DEF HeadPlace, Offsets
<1>6. ~InRead => data_size = TailPlace
  BY <1>4 DEF QuietInv, SizeOK
<1> QED BY <1>1, <1>2, <1>3, <1>4, <1>5, <1>6

\* What a read finds ahead of it is in the first page.
LEMMA FirstPage ==
  ASSUME Asgn2Inv, QuietInv, NEW o \in Offsets, o < TailPlace
  PROVE  /\ 1 \in 1..Len(mem_list)
         /\ mem_list[1] \in Page
         /\ mem_list[1][o] = 0 => o \in NullSlots
<1>1. /\ page_queue.tail_offset \in Offsets /\ TailIndex \in Nat /\ Len(mem_list) \in Nat
      /\ TailPlace = TailIndex * PAGE_SIZE + page_queue.tail_offset
      /\ mem_list \in Seq(Page)
  BY QuietAtRest DEF Asgn2Inv, QueueOK
<1>2. Len(mem_list) # 0
  <2>1. CASE TailIndex = 0
    <3>1. TailPlace = page_queue.tail_offset
      BY <1>1, <2>1, SizesPositive DEF Offsets
    <3>2. page_queue.tail_offset # 0
      BY <3>1, SizesPositive DEF Offsets
    <3> QED BY <2>1, <3>2 DEF QuietInv, SizeOK
  <2>2. CASE TailIndex # 0
    BY <1>1, <2>2 DEF QuietInv, SizeOK
  <2> QED BY <2>1, <2>2
<1>3. 1 \in 1..Len(mem_list) /\ 1 \in DOMAIN mem_list /\ mem_list[1] \in Page
  BY <1>1, <1>2, ElementType
<1>4. (1 - 1) * PAGE_SIZE + o < TailPlace
  <2>1. o \in Nat /\ (1 - 1) * PAGE_SIZE = 0
    BY SizesPositive DEF Offsets
  <2>2. (1 - 1) * PAGE_SIZE + o = o
    BY <2>1
  <2> QED BY <2>2
<1> QED BY <1>3, <1>4 DEF QuietInv, NullsOK

\* A terminator is passed where there is one.
LEMMA QuietReadPastNull ==
  ASSUME QuietDriver, Asgn2Inv, QuietInv, NEW n \in ReadSizes, ReadCall(n), ReadPastNull
  PROVE  QuietInv' /\ NullAhead /\ TailPlace' = TailPlace /\ HeadPlace' = HeadPlace + 1
<1>1. /\ ReaderTurn /\ rd.pc = "idle" /\ ubuf' = <<>>
      /\ page_queue.head_offset = null_location /\ null_location' = -1
      /\ page_queue' = [page_queue EXCEPT !.head_offset = page_queue.head_offset + 1]
      /\ rd' = [rd EXCEPT !.pc = "idle", !.eof = TRUE]
      /\ UNCHANGED <<topVars, admVars, mem_list, num_pages, data_size, wait_flag, bh, sent>>
  BY DEF ReadCall, CallsRead, ReadPastNull, Return
<1>2. /\ ReaderFields
      /\ page_queue.head_offset \in Offsets /\ page_queue.tail_offset \in Offsets
      /\ page_queue.tail_index \in Int
      /\ TailIndex \in Nat /\ Len(mem_list) \in Nat
      /\ TailPlace \in Nat /\ HeadPlace = page_queue.head_offset
      /\ data_size \in Nat
  BY <1>1, QuietAtRest
<1>3. NullAhead
  BY <1>1, <1>2, SizesPositive DEF QuietInv, SessionOK, Offsets
<1>4. page_queue.head_offset \in NullSlots
  BY <1>2, <1>3, FirstPage DEF NullAhead
<1>5. page_queue.head_offset + 1 \in Offsets
  BY <1>2, <1>4, SizesPositive DEF QuietDriver, Offsets
<1>6. /\ page_queue'.head_offset = page_queue.head_offset + 1
      /\ page_queue'.tail_offset = page_queue.tail_offset
      /\ page_queue'.tail_index = page_queue.tail_index
      /\ rd'.pc = "idle" /\ rd'.eof = TRUE
  BY <1>1, <1>2 DEF Asgn2Inv, QueueOK, ReaderFields
<1>7. /\ TailIndex' = TailIndex /\ TailPlace' = TailPlace /\ ~InRead /\ ~InRead'
      /\ HeadPlace' = HeadPlace + 1
  BY <1>1, <1>2, <1>6 DEF TailIndex, TailPlace, TailStale, Looping, InRead, InLoop, HeadPlace
<1>8. PortOK'
  BY <1>1, <1>2, <1>6, QuietReaderPort
<1>9. HeadPlace < TailPlace
  BY <1>2, <1>3 DEF NullAhead
<1>10. SizeOK'
  <2>1. HeadPlace' <= TailPlace' /\ wait_flag' # 1
    BY <1>1, <1>2, <1>7, <1>9, SizesPositive DEF QuietInv, SizeOK, Offsets
  <2> QED BY <1>1, <1>2, <1>5, <1>6, <1>7, <2>1 DEF QuietInv, SizeOK
<1>11. NullsOK'
  BY <1>1, <1>7 DEF QuietInv, NullsOK
<1>12. SessionOK' /\ LoopOK'
  BY <1>1, <1>6 DEF SessionOK, LoopOK, Before, InLoop
<1> QED BY <1>3, <1>7, <1>8, <1>10, <1>11, <1>12 DEF QuietInv

LEMMA QuietReadTestEmpty ==
  ASSUME QuietDriver, Asgn2Inv, QuietInv, NEW n \in ReadSizes, ReadCall(n), ReadTestEmpty(n)
  PROVE  QuietInv' /\ TailPlace' = TailPlace /\ HeadPlace' = HeadPlace
<1> DEFINE place == IF QueueEmpty THEN "set_wait" ELSE "wait"
<1>1. /\ ReaderTurn /\ rd.pc = "idle" /\ ~rd.eof /\ ubuf' = <<>>
      /\ page_queue.head_offset # null_location
      /\ rd' = [Reading(n) EXCEPT !.pc = place]
      /\ UNCHANGED <<topVars, admVars, page_queue, null_location, mem_list, num_pages,
                     data_size, wait_flag, bh, sent>>
  BY DEF ReadCall, CallsRead, ReadTestEmpty, QuietDriver
<1>2. /\ ReaderFields
      /\ page_queue.head_offset \in Offsets /\ page_queue.tail_offset \in Offsets
      /\ page_queue.tail_index \in Int
      /\ TailIndex \in Nat /\ Len(mem_list) \in Nat
      /\ TailPlace = TailIndex * PAGE_SIZE + page_queue.tail_offset
      /\ TailPlace \in Nat /\ HeadPlace = page_queue.head_offset /\ HeadPlace <= TailPlace
      /\ data_size \in Nat
  BY <1>1, QuietAtRest
<1>3. ~TailStale /\ ~InRead /\ TailIndex = page_queue.tail_index
  BY <1>1, <1>2 DEF TailStale, Looping, InRead, InLoop, TailIndex
<1>4. QueueEmpty <=> HeadPlace = TailPlace
  <2>1. page_queue.head_index = 0
    BY <1>3 DEF Asgn2Inv, HeadInFirstPage, TailStale
  <2>2. 0 * PAGE_SIZE + page_queue.head_offset = HeadPlace
    <3>1. 0 * PAGE_SIZE = 0 /\ page_queue.head_offset \in Nat
      BY <1>2, SizesPositive DEF Offsets
    <3> QED BY <1>2, <3>1
  <2>3. HeadPlace = TailPlace => QueueEmpty
    BY <1>2, <1>3, <2>1, <2>2, PlaceUnique DEF QueueEmpty
  <2>4. QueueEmpty => HeadPlace = TailPlace
    BY <1>2, <1>3, <2>1, <2>2 DEF QueueEmpty
  <2> QED BY <2>3, <2>4
<1>5. null_flag = 0 /\ null_location = -1
  <2>1. null_location = -1
    BY <1>1 DEF Asgn2Inv, MarkAtHead
  <2> QED BY <1>1, <2>1 DEF QuietInv, SessionOK, Asgn2Inv, AdmInv, AdmTypeOK
<1>6. /\ rd'.pc = place /\ rd'.size = n /\ rd'.pos = 0 /\ rd'.freed = 0 /\ ~rd'.eof
  <2>1. rd' = [pc |-> place, size |-> n, actual |-> 0, pos |-> 0, more |-> FALSE,
               freed |-> 0, eof |-> FALSE, reg |-> 0]
    BY <1>1, <1>2 DEF Reading, ReaderFields
  <2> QED BY <2>1
<1>7. place \in {"set_wait", "wait"} /\ (place = "set_wait" <=> HeadPlace = TailPlace)
  BY <1>4
<1> HIDE DEF place
<1>8. /\ TailIndex' = TailIndex /\ TailPlace' = TailPlace /\ ~InRead'
      /\ HeadPlace' = HeadPlace
  BY <1>1, <1>2, <1>3, <1>6, <1>7
     DEF TailIndex, TailPlace, TailStale, Looping, InRead, InLoop, HeadPlace
<1>9. PortOK'
  BY <1>1, <1>2, QuietReaderPort
<1>10. SizeOK'
  BY <1>1, <1>2, <1>3, <1>6, <1>7, <1>8 DEF QuietInv, SizeOK
<1>11. NullsOK'
  BY <1>1, <1>8 DEF QuietInv, NullsOK
<1>12. SessionOK'
  BY <1>1, <1>5, <1>6, <1>7 DEF SessionOK, Before, InLoop, admVars
<1>13. LoopOK'
  <2>1. n >= MaxBytes
    BY DEF QuietDriver
  <2>2. place = "wait" => HeadPlace' < TailPlace'
    <3>1. HeadPlace \in Nat /\ TailPlace \in Nat /\ HeadPlace <= TailPlace
      BY <1>1, QuietAtRest
    <3>2. HeadPlace # TailPlace => HeadPlace < TailPlace
      BY <3>1
    <3> QED BY <1>7, <1>8, <3>2
  <2>3. place = "set_wait" => HeadPlace' = TailPlace'
    BY <1>7, <1>8
  <2> QED BY <1>6, <1>7, <2>1, <2>2, <2>3 DEF LoopOK, Before
<1> QED BY <1>8, <1>9, <1>10, <1>11, <1>12, <1>13 DEF QuietInv

\* A step in which the reader moves on and leaves the queue as it is.
LEMMA QueueUntouched ==
  ASSUME QuietDriver, Asgn2Inv, QuietInv, ReaderTurn, UNCHANGED <<topVars, queueVars, bh, sent>>,
         rd'.freed = rd.freed,
         rd.freed = 0 \/ (TailStale /\ TailStale') \/ (~TailStale /\ ~TailStale')
  PROVE  /\ PortOK' /\ NullsOK' /\ TailIndex' = TailIndex /\ TailPlace' = TailPlace
         /\ (NullAhead => NullAhead')
<1>1. UNCHANGED <<page_queue, mem_list, num_pages, data_size>> /\ data_size \in Nat
      /\ page_queue.tail_index \in Int
  BY QuietAtRest DEF queueVars
<1>2. PortOK'
  <2>1. UNCHANGED <<topVars, bh, sent>>
    OBVIOUS
  <2> QED BY <1>1, <2>1, QuietReaderPort
<1>3. TailIndex' = TailIndex /\ TailPlace' = TailPlace
  BY <1>1 DEF TailIndex, TailPlace
<1>4. NullsOK'
  BY <1>1, <1>3 DEF QuietInv, NullsOK
<1>5. NullAhead => NullAhead'
  BY <1>1, <1>3, Zenon DEF NullAhead
<1> QED BY <1>2, <1>3, <1>4, <1>5

LEMMA QuietReadSetWait ==
  ASSUME QuietDriver, Asgn2Inv, QuietInv, ReadSetWait
  PROVE  QuietInv' /\ TailPlace' = TailPlace /\ HeadPlace' = HeadPlace
<1>1. /\ ReaderTurn /\ rd.pc = "set_wait" /\ wait_flag' = 1
      /\ rd' = [rd EXCEPT !.pc = "wait"]
      /\ UNCHANGED <<topVars, queueVars, bh, sent>>
      /\ UNCHANGED <<admVars, page_queue, mem_list, num_pages, data_size, null_location, ubuf>>
  BY DEF ReadSetWait, queueVars
<1>2. /\ rd'.pc = "wait" /\ rd'.freed = rd.freed /\ rd'.size = rd.size /\ rd'.pos = rd.pos
      /\ rd'.eof = rd.eof /\ rd.freed = 0
  BY <1>1, QuietAtRest DEF ReaderFields, Asgn2Inv, ReadOK, Before
<1>3. PortOK' /\ NullsOK' /\ TailIndex' = TailIndex /\ TailPlace' = TailPlace
      /\ (NullAhead => NullAhead')
  BY <1>1, <1>2, QueueUntouched
<1>4. HeadPlace' = HeadPlace /\ HeadPlace = TailPlace
  BY <1>1, <1>2 DEF HeadPlace, QuietInv, LoopOK
<1>5. SizeOK'
  BY <1>1, <1>2, <1>3, <1>4 DEF QuietInv, SizeOK, InRead, InLoop
<1>6. SessionOK'
  BY <1>1, <1>2, <1>3 DEF QuietInv, SessionOK, Before, InLoop, admVars
<1>7. LoopOK'
  BY <1>1, <1>2 DEF QuietInv, LoopOK, Before
<1> QED BY <1>3, <1>4, <1>5, <1>6, <1>7 DEF QuietInv

LEMMA QuietReadSleep ==
  ASSUME QuietDriver, Asgn2Inv, QuietInv, ReadSleep
  PROVE  QuietInv' /\ TailPlace' = TailPlace /\ HeadPlace' = HeadPlace
<1>1. /\ ReaderTurn /\ rd.pc = "wait" /\ wait_flag = 1
      /\ rd' = [rd EXCEPT !.pc = "asleep"]
      /\ UNCHANGED <<topVars, queueVars, bh, sent>>
      /\ UNCHANGED <<admVars, page_queue, mem_list, num_pages, data_size, null_location,
                     wait_flag, ubuf>>
  BY DEF ReadSleep, queueVars
<1>2. /\ rd'.pc = "asleep" /\ rd'.freed = rd.freed /\ rd'.size = rd.size /\ rd'.pos = rd.pos
      /\ rd'.eof = rd.eof /\ rd.freed = 0
  BY <1>1, QuietAtRest DEF ReaderFields, Asgn2Inv, ReadOK, Before
<1>3. PortOK' /\ NullsOK' /\ TailIndex' = TailIndex /\ TailPlace' = TailPlace
      /\ (NullAhead => NullAhead')
  BY <1>1, <1>2, QueueUntouched
<1>4. HeadPlace' = HeadPlace
  BY <1>1, <1>2 DEF HeadPlace
<1>5. SizeOK'
  BY <1>1, <1>2, <1>3, <1>4 DEF QuietInv, SizeOK, InRead, InLoop
<1>6. SessionOK'
  BY <1>1, <1>2, <1>3 DEF QuietInv, SessionOK, Before, InLoop, admVars
<1>7. LoopOK'
  BY <1>1, <1>2 DEF QuietInv, LoopOK, Before
<1> QED BY <1>3, <1>4, <1>5, <1>6, <1>7 DEF QuietInv

\* The subtraction of asgn_2.c:313 does not wrap, and the count asked for is no
\* limit: a read sets out to hand over all that is in the pages.
LEMMA QuietReadBegin ==
  ASSUME QuietDriver, Asgn2Inv, QuietInv, ReadBegin
  PROVE  QuietInv' /\ TailPlace' = TailPlace /\ HeadPlace' = HeadPlace
<1>1. /\ ReaderTurn /\ rd.pc = "wait" /\ wait_flag = 0
      /\ IF null_flag = 1 THEN Return(<<>>)
         ELSE rd' = [rd EXCEPT !.pc = "page", !.actual = ActualSize]
      /\ UNCHANGED <<topVars, queueVars, bh, sent>>
      /\ UNCHANGED <<admVars, page_queue, mem_list, num_pages, data_size, null_location,
                     wait_flag, ubuf>>
  BY DEF ReadBegin, QuietDriver, queueVars
<1>2. null_flag = 0 /\ ~rd.eof /\ rd.pos = 0 /\ rd.size >= MaxBytes /\ rd.freed = 0
      /\ HeadPlace < TailPlace
  BY <1>1 DEF QuietInv, SessionOK, LoopOK, Before, Asgn2Inv, ReadOK
<1>3. /\ ReaderFields /\ page_queue.head_offset \in Offsets
      /\ page_queue.tail_index \in Int /\ Len(mem_list) \in Nat
      /\ TailPlace \in Nat /\ HeadPlace \in Nat
      /\ HeadPlace = page_queue.head_offset /\ data_size = TailPlace
  BY <1>1, QuietAtRest DEF InRead, InLoop
<1>4. data_size <= MaxBytes /\ MaxBytes \in Nat /\ MaxBytes < SIZE_RANGE
  <2>1. /\ data_size + Stored + (IF sending = Idle THEN 0 ELSE 1) <= sent /\ sent \in 0..MaxBytes
        /\ Stored \in {0, 1} /\ MaxBytes \in Nat
    BY DEF QuietInv, PortOK, QuietDriver
  <2>2. data_size \in Nat
    BY <1>3
  <2> QED BY <2>1, <2>2 DEF QuietDriver
<1>5. ActualSize = TailPlace - HeadPlace
  <2> DEFINE left == TailPlace - HeadPlace
  <2>1. left \in 0..(SIZE_RANGE - 1) /\ left <= MaxBytes /\ left \in Nat
    BY <1>2, <1>3, <1>4, SizeRangeAssumption
  <2>2. (data_size - page_queue.head_offset) % SIZE_RANGE = left % SIZE_RANGE
    BY <1>3
  <2> HIDE DEF left
  <2>3. left % SIZE_RANGE = left
    BY <2>1, SizeRangeAssumption
  <2>4. rd.size \in Nat
    BY <1>3 DEF ReaderFields
  <2>5. ActualSize = left
    BY <1>2, <1>4, <2>1, <2>2, <2>3, <2>4 DEF ActualSize, Lesser
  <2> QED BY <2>5 DEF left
<1>6. /\ rd'.pc = "page" /\ rd'.freed = rd.freed /\ rd'.size = rd.size /\ rd'.pos = rd.pos
      /\ rd'.eof = rd.eof /\ rd'.actual = TailPlace - HeadPlace
  <2>1. rd' = [rd EXCEPT !.pc = "page", !.actual = TailPlace - HeadPlace]
    BY <1>1, <1>2, <1>5
  <2> QED BY <1>3, <2>1 DEF ReaderFields
<1>7. PortOK' /\ NullsOK' /\ TailIndex' = TailIndex /\ TailPlace' = TailPlace
      /\ (NullAhead => NullAhead')
  BY <1>1, <1>2, <1>6, QueueUntouched
<1>8. HeadPlace' = HeadPlace
  BY <1>1, <1>6 DEF HeadPlace
<1>9. SizeOK'
  <2>1. rd'.freed * PAGE_SIZE = 0
    BY <1>2, <1>6, SizesPositive
  <2>2. num_pages = Len(mem_list)
    BY <1>1, <1>3 DEF QuietInv, SizeOK
  <2> QED BY <1>1, <1>3, <1>6, <1>7, <1>8, <2>1, <2>2 DEF QuietInv, SizeOK
<1>10. SessionOK'
  BY <1>1, <1>2, <1>6, <1>7 DEF QuietInv, SessionOK, Before, InLoop, admVars
<1>11. LoopOK'
  BY <1>1, <1>2, <1>6, <1>7, <1>8 DEF QuietInv, LoopOK, Before
<1> QED BY <1>7, <1>8, <1>9, <1>10, <1>11 DEF QuietInv

\* The scan of a page stops at a terminator, if it stops before the limit.
LEMMA ClearBytesStop ==
  ASSUME NEW page, NEW off, NEW limit \in Nat, Max(ClearBytes(page, off, limit)) < limit
  PROVE  page[off + Max(ClearBytes(page, off, limit))] = 0
<1> DEFINE S == ClearBytes(page, off, limit)
           n == Max(S)
<1>1. S \in SUBSET (0..limit) /\ 0 \in S
  BY DEF ClearBytes
<1>2. n \in S /\ \A x \in S : x <= n
  BY <1>1, MaxOfBounded
<1>3. n \in 0..limit /\ \A j \in 0..(n - 1) : page[off + j] # 0
  BY <1>2 DEF ClearBytes
<1> HIDE DEF n
<1>4. n < limit
  BY DEF n
<1>5. n + 1 \notin S
  BY <1>2, <1>3
<1>6. n + 1 \in 0..limit
  BY <1>3, <1>4
<1>7. PICK j \in 0..((n + 1) - 1) : ~(page[off + j] # 0)
  BY <1>5, <1>6 DEF ClearBytes
<1>8. j = n
  BY <1>3, <1>7
<1> QED BY <1>7, <1>8 DEF n

\* What a round of the loop does when it starts at place h of the first page.
ReadsFirstPage(h, n) ==
  /\ h \in Offsets /\ h = HeadPlace
  /\ n \in Nat /\ h + n <= TailPlace /\ h + n <= PAGE_SIZE
  /\ \A j \in 0..(n - 1) : mem_list[1][h + j] # 0
  /\ ubuf' = ubuf \o [k \in 1..n |-> mem_list[1][h + k - 1]]
  /\ page_queue' = [page_queue EXCEPT !.head_offset = IF h + n = PAGE_SIZE THEN 0 ELSE h + n]
  /\ rd' = [rd EXCEPT !.pc = "free", !.actual = rd.actual - n, !.more = (Len(mem_list) > 1)]
  /\ \/ /\ null_flag' = 1 /\ h + n \in NullSlots /\ h + n < TailPlace
        /\ mem_list[1][h + n] = 0
     \/ null_flag' = 0 /\ n > 0 /\ (h + n = TailPlace \/ h + n = PAGE_SIZE)

LEMMA QuietReadPageFacts ==
  ASSUME QuietDriver, Asgn2Inv, QuietInv, ReadPage
  PROVE  \E h, n : ReadsFirstPage(h, n)
<1> DEFINE page  == mem_list[1]
           h     == page_queue.head_offset
           limit == Lesser(rd.actual, PAGE_SIZE - h)
           n     == Max(ClearBytes(page, h, limit))
           next  == IF n > 0 THEN (h + n) % PAGE_SIZE ELSE h
<1>1. /\ rd.pc = "page" /\ rd.pos = 0 /\ null_flag = 0
      /\ rd.actual = TailPlace - HeadPlace /\ HeadPlace < TailPlace
  BY DEF ReadPage, QuietInv, LoopOK, Asgn2Inv, MarkOK
<1>2. /\ h \in Offsets /\ h = HeadPlace /\ TailPlace \in Nat
  BY <1>1, QuietAtRest
<1>3. rd.pos + 1 = 1
  BY <1>1
<1>4. /\ ubuf' = ubuf \o [k \in 1..n |-> page[h + k - 1]]
      /\ null_flag' = IF n < limit THEN 1 ELSE null_flag
      /\ page_queue' = [page_queue EXCEPT !.head_offset = next]
      /\ rd' = [rd EXCEPT !.pc = "free", !.actual = rd.actual - n, !.more = (1 < Len(mem_list))]
  BY <1>3 DEF ReadPage
<1>5. (1 < Len(mem_list)) = (Len(mem_list) > 1)
  BY QuietAtRest
<1>6. h \in Nat /\ h <= PAGE_SIZE - 1 /\ PAGE_SIZE \in Nat
  BY <1>2, SizesPositive DEF Offsets
<1>7. /\ limit \in Nat /\ limit > 0 /\ h + limit <= TailPlace /\ h + limit <= PAGE_SIZE
      /\ h + limit = TailPlace \/ h + limit = PAGE_SIZE
  <2> HIDE DEF h
  <2> QED BY <1>1, <1>2, <1>6 DEF Lesser
<1> HIDE DEF limit
<1>8. n \in 0..limit /\ \A j \in 0..(n - 1) : page[h + j] # 0
  BY <1>7, ClearBytesMax
<1>9. n < limit => page[h + n] = 0
  BY <1>7, ClearBytesStop
<1> HIDE DEF n, h
<1>10. n \in Nat /\ n <= limit /\ h + n <= TailPlace /\ h + n <= PAGE_SIZE
  BY <1>2, <1>6, <1>7, <1>8
<1>11. n < limit => h + n \in NullSlots /\ h + n < TailPlace
  <2> SUFFICES ASSUME n < limit PROVE h + n \in NullSlots /\ h + n < TailPlace
    OBVIOUS
  <2>1. h + n \in Offsets /\ h + n < TailPlace
    BY <1>2, <1>6, <1>7, <1>10 DEF Offsets
  <2> QED BY <1>9, <2>1, FirstPage
<1>12. next = IF h + n = PAGE_SIZE THEN 0 ELSE h + n
  <2>1. CASE n = 0
    BY <1>6, <2>1
  <2>2. CASE n > 0 /\ h + n = PAGE_SIZE
    BY <1>6, <2>2, SizesPositive
  <2>3. CASE n > 0 /\ h + n # PAGE_SIZE
    <3>1. h + n \in 0..(PAGE_SIZE - 1)
      BY <1>6, <1>10, <2>3
    <3>2. (h + n) % PAGE_SIZE = h + n
      BY <3>1, SizesPositive
    <3> QED BY <2>3, <3>2
  <2> QED BY <1>10, <2>1, <2>2, <2>3
<1> HIDE DEF next
<1>13. \/ /\ null_flag' = 1 /\ h + n \in NullSlots /\ h + n < TailPlace /\ page[h + n] = 0
       \/ null_flag' = 0 /\ n > 0 /\ (h + n = TailPlace \/ h + n = PAGE_SIZE)
  <2>1. CASE n < limit
    BY <1>4, <1>9, <1>11, <2>1
  <2>2. CASE ~(n < limit)
    <3>1. n = limit
      BY <1>7, <1>10, <2>2
    <3> QED BY <1>1, <1>4, <1>7, <2>2, <3>1
  <2> QED BY <2>1, <2>2
<1>14. ReadsFirstPage(h, n)
  BY <1>2, <1>4, <1>5, <1>8, <1>10, <1>12, <1>13 DEF ReadsFirstPage
<1> QED BY <1>14

\* The head passes the bytes that a round of the loop hands over.
LEMMA QuietReadPage ==
  ASSUME QuietDriver, Asgn2Inv, QuietInv, ReadPage, NEW h, NEW n, ReadsFirstPage(h, n)
  PROVE  QuietInv' /\ TailPlace' = TailPlace /\ HeadPlace' = HeadPlace + n
<1>1. /\ ReaderTurn /\ rd.pc = "page"
      /\ UNCHANGED <<topVars, bh, sent, nprocs, max_nprocs, fd, leaked, mem_list, num_pages,
                     data_size, null_location, wait_flag>>
  BY DEF ReadPage
<1>2. /\ null_location = -1 /\ rd.pos = 0 /\ ~rd.eof
      /\ rd.actual = TailPlace - HeadPlace /\ HeadPlace < TailPlace /\ wait_flag # 1
  <2>1. /\ null_location = -1 /\ rd.pos = 0 /\ ~rd.eof
        /\ rd.actual = TailPlace - HeadPlace /\ HeadPlace < TailPlace
    BY <1>1 DEF QuietInv, LoopOK, SessionOK, Asgn2Inv, MarkOK, InLoop
  <2>2. HeadPlace \in Nat /\ TailPlace \in Nat
    BY QuietAtRest
  <2> QED BY <2>1, <2>2 DEF QuietInv, SizeOK
<1>3. /\ ReaderFields /\ page_queue.head_offset \in Offsets
      /\ page_queue.tail_index \in Int /\ page_queue.tail_offset \in Offsets
      /\ TailIndex \in Nat /\ Len(mem_list) \in Nat
      /\ TailPlace \in Nat /\ HeadPlace \in Nat /\ data_size \in Nat
  BY QuietAtRest
<1> DEFINE next == IF h + n = PAGE_SIZE THEN 0 ELSE h + n
<1>4. /\ h \in Offsets /\ h \in Nat /\ h = HeadPlace
      /\ n \in Nat /\ h + n <= TailPlace /\ h + n <= PAGE_SIZE
      /\ ubuf' = ubuf \o [k \in 1..n |-> mem_list[1][h + k - 1]]
      /\ page_queue' = [page_queue EXCEPT !.head_offset = next]
      /\ rd' = [rd EXCEPT !.pc = "free", !.actual = rd.actual - n, !.more = (Len(mem_list) > 1)]
      /\ \/ /\ null_flag' = 1 /\ h + n \in NullSlots /\ h + n < TailPlace
            /\ mem_list[1][h + n] = 0
         \/ null_flag' = 0 /\ n > 0 /\ (h + n = TailPlace \/ h + n = PAGE_SIZE)
  BY SizesPositive DEF ReadsFirstPage, Offsets
<1>5. /\ next \in Offsets
      /\ next = 0 => h + n = PAGE_SIZE /\ null_flag' = 0
      /\ next # 0 => next = h + n /\ h + n # PAGE_SIZE
      /\ null_flag' = 1 => next = h + n
  <2>1. \A x \in NullSlots : x \in Nat /\ x # 0 /\ x # PAGE_SIZE
    BY SizesPositive DEF QuietDriver
  <2> QED BY <1>4, <2>1, SizesPositive DEF Offsets
<1> HIDE DEF next
<1>6. /\ page_queue'.head_offset = next
      /\ page_queue'.tail_offset = page_queue.tail_offset
      /\ page_queue'.tail_index = page_queue.tail_index
      /\ rd'.pc = "free" /\ rd'.eof = rd.eof /\ rd'.freed = rd.freed /\ rd'.pos = rd.pos
      /\ rd'.actual = rd.actual - n
      /\ rd'.more = (Len(mem_list) > 1)
  BY <1>3, <1>4 DEF Asgn2Inv, QueueOK, ReaderFields
<1>7. TailIndex' = TailIndex /\ TailPlace' = TailPlace
  BY <1>1, <1>6 DEF TailIndex, TailPlace, TailStale, Looping
<1>8. HeadPlace' = h + n
  BY <1>5, <1>6 DEF HeadPlace
<1>9. PortOK'
  BY <1>1, <1>3, <1>6, QuietReaderPort
<1>10. SizeOK'
  <2>1. InRead /\ InRead'
    BY <1>1, <1>6 DEF InRead, InLoop
  <2> QED BY <1>1, <1>2, <1>4, <1>5, <1>6, <1>7, <1>8, <2>1 DEF QuietInv, SizeOK
<1>11. NullsOK'
  BY <1>1, <1>7 DEF QuietInv, NullsOK
<1>12. null_flag' = 1 => NullAhead'
  BY <1>1, <1>4, <1>5, <1>6, <1>7 DEF NullAhead
<1>13. null_flag' # 1 => ubuf' # <<>>
  <2> SUFFICES ASSUME null_flag' # 1 PROVE ubuf' # <<>>
    OBVIOUS
  <2> DEFINE copy == [k \in 1..n |-> mem_list[1][h + k - 1]]
  <2>1. n > 0 /\ n \in Nat
    BY <1>4
  <2>2. copy \in [1..n -> {mem_list[1][h + k - 1] : k \in 1..n}]
    OBVIOUS
  <2> DEFINE S == {mem_list[1][h + k - 1] : k \in 1..n} \cup (0..255)
  <2>3. copy \in [1..n -> S]
    BY <2>2
  <2>4. ubuf \in Seq(0..255)
    BY DEF Asgn2Inv, UserOK
  <2>5. Len(ubuf) \in Nat /\ ubuf \in [1..Len(ubuf) -> S]
    <3>1. Len(ubuf) \in Nat /\ ubuf \in [1..Len(ubuf) -> 0..255]
      BY <2>4, ElementType
    <3> QED BY <3>1
  <2> HIDE DEF copy, S
  <2>6. copy \in Seq(S) /\ Len(copy) = n
    BY <2>1, <2>3, SequenceOfFunction
  <2>7. ubuf \in Seq(S)
    BY <2>5, SequenceOfFunction
  <2>8. Len(ubuf \o copy) = Len(ubuf) + n /\ ubuf \o copy \in Seq(S)
    BY <2>6, <2>7, ConcatType
  <2>9. Len(ubuf') > 0
    BY <1>4, <2>1, <2>5, <2>8 DEF copy
  <2> QED BY <2>9
<1>14. SessionOK'
  BY <1>1, <1>2, <1>6, <1>12, <1>13 DEF SessionOK, Before
<1>15. LoopOK'
  <2>1. rd'.actual = TailPlace' - HeadPlace'
    BY <1>2, <1>3, <1>4, <1>6, <1>7, <1>8
  <2>2. next = 0 => null_flag' = 0
    BY <1>5
  <2>3. next # 0 => null_flag' = 1 \/ HeadPlace' = TailPlace'
    BY <1>4, <1>5, <1>7, <1>8
  <2>4. rd'.more = (Len(mem_list') > 1)
    BY <1>1, <1>6
  <2> QED BY <1>2, <1>6, <2>1, <2>2, <2>3, <2>4 DEF LoopOK, Before
<1> QED BY <1>4, <1>7, <1>8, <1>9, <1>10, <1>11, <1>14, <1>15 DEF QuietInv

\* The loop never finds the list empty: asgn_2.c:316 is reached over data only.
LEMMA QuietNoReadNoPage ==
  ASSUME Asgn2Inv, QuietInv PROVE ~ReadNoPage
<1> SUFFICES ASSUME ReadNoPage PROVE FALSE
  OBVIOUS
<1>1. rd.pc = "page" /\ rd.pos >= Len(mem_list) /\ rd.pos = 0 /\ HeadPlace < TailPlace
  BY DEF ReadNoPage, QuietInv, LoopOK
<1>2. page_queue.head_offset \in Offsets /\ HeadPlace = page_queue.head_offset
      /\ Len(mem_list) \in Nat
  BY <1>1, QuietAtRest
<1>3. 1 \in 1..Len(mem_list)
  BY <1>1, <1>2, FirstPage
<1> QED BY <1>1, <1>2, <1>3

\* A page is freed when it has been read to its end: the places are counted
\* from the page behind it from then on.
LEMMA QuietFreePageMoves ==
  ASSUME QuietDriver, Asgn2Inv, QuietInv, ReadNextPage, FreePage
  PROVE  /\ TailIndex \in Nat \ {0} /\ TailIndex' = TailIndex - 1
         /\ TailPlace' = TailPlace - PAGE_SIZE /\ TailPlace' \in Nat
         /\ HeadPlace = PAGE_SIZE /\ HeadPlace' = 0
         /\ Len(mem_list') = Len(mem_list) - 1
         /\ \A i \in 1..(Len(mem_list) - 1) : mem_list'[i] = mem_list[i + 1]
<1>1. /\ rd.pc = "free" /\ page_queue.head_offset = 0 /\ rd.pos = 0
      /\ page_queue' = [page_queue EXCEPT !.head_index = page_queue.head_index + 1]
      /\ mem_list' = RemoveAt(mem_list, rd.pos + 1)
      /\ rd' = [rd EXCEPT !.pc = "num", !.freed = rd.freed + 1]
  BY DEF ReadNextPage, FreePage, QuietInv, LoopOK
<1>2. /\ ReaderFields /\ page_queue.tail_index \in Int /\ page_queue.tail_offset \in Offsets
      /\ TailIndex \in Nat /\ Len(mem_list) \in Nat
      /\ TailPlace = TailIndex * PAGE_SIZE + page_queue.tail_offset
      /\ TailPlace \in Nat /\ HeadPlace <= TailPlace
  BY QuietAtRest
<1>3. HeadPlace = PAGE_SIZE
  BY <1>1 DEF HeadPlace
<1>4. TailIndex # 0
  <2> SUFFICES ASSUME TailIndex = 0 PROVE FALSE
    OBVIOUS
  <2>1. TailPlace = page_queue.tail_offset
    BY <1>2, SizesPositive DEF Offsets
  <2> QED BY <1>2, <1>3, <2>1, SizesPositive DEF Offsets
<1>5. /\ rd'.pc = "num" /\ rd'.freed = rd.freed + 1 /\ rd.freed \in Nat
      /\ page_queue'.head_offset = 0
      /\ page_queue'.tail_index = page_queue.tail_index
      /\ page_queue'.tail_offset = page_queue.tail_offset
  BY <1>1, <1>2 DEF ReaderFields, Asgn2Inv, QueueOK
<1>6. TailIndex = page_queue.tail_index - rd.freed
  BY <1>1 DEF TailIndex, TailStale, Looping
<1>7. TailIndex' = page_queue'.tail_index - rd'.freed
      /\ TailPlace' = TailIndex' * PAGE_SIZE + page_queue'.tail_offset
  BY <1>5 DEF TailIndex, TailPlace, TailStale, Looping
<1>8. TailIndex' = TailIndex - 1
  BY <1>2, <1>5, <1>6, <1>7
<1>9. TailPlace' = TailPlace - PAGE_SIZE /\ TailPlace' \in Nat
  <2> DEFINE q == TailIndex - 1
             x == q * PAGE_SIZE
  <2>1. q \in Nat /\ q + 1 = TailIndex
    BY <1>2, <1>4
  <2>6. TailIndex' = q
    BY <1>8
  <2> HIDE DEF q
  <2>2. x \in Nat /\ (q + 1) * PAGE_SIZE = x + PAGE_SIZE
    BY <2>1, PlaceOf, SizesPositive
  <2>3. page_queue.tail_offset \in Nat
    BY <1>2, SizesPositive DEF Offsets
  <2>4. TailPlace' = x + page_queue.tail_offset
    BY <1>5, <1>7, <2>6
  <2>5. TailPlace = x + PAGE_SIZE + page_queue.tail_offset
    BY <1>2, <2>1, <2>2
  <2> HIDE DEF x
  <2> QED BY <2>2, <2>3, <2>4, <2>5, SizesPositive
<1>10. HeadPlace' = 0
  BY <1>5 DEF HeadPlace
<1>11. /\ Len(mem_list') = Len(mem_list) - 1
       /\ \A i \in 1..(Len(mem_list) - 1) : mem_list'[i] = mem_list[i + 1]
  <2>1. mem_list \in Seq(Page) /\ rd.pos < Len(mem_list)
    BY <1>1 DEF Asgn2Inv, QueueOK, ReadOK
  <2>2. 1 \in 1..Len(mem_list) /\ mem_list' = RemoveAt(mem_list, 1)
    BY <1>1, <1>2, <2>1
  <2>3. \A k \in 1..(Len(mem_list) - 1) :
          RemoveAt(mem_list, 1)[k] = mem_list[IF k < 1 THEN k ELSE k + 1]
    BY <2>1, <2>2, RemoveAtElements
  <2>4. Len(RemoveAt(mem_list, 1)) = Len(mem_list) - 1
    BY <2>1, <2>2, RemoveAtElements
  <2> QED BY <2>2, <2>3, <2>4
<1> QED BY <1>2, <1>3, <1>4, <1>8, <1>9, <1>10, <1>11

LEMMA QuietFreePage ==
  ASSUME QuietDriver, Asgn2Inv, QuietInv, ReadNextPage, FreePage
  PROVE  QuietInv'
<1>1. /\ ReaderTurn /\ rd.pc = "free" /\ page_queue.head_offset = 0
      /\ page_queue' = [page_queue EXCEPT !.head_index = page_queue.head_index + 1]
      /\ rd' = [rd EXCEPT !.pc = "num", !.freed = rd.freed + 1]
      /\ UNCHANGED <<topVars, admVars, num_pages, data_size, null_location, wait_flag, bh,
                     ubuf, sent>>
  BY DEF ReadNextPage, FreePage
<1>2. /\ null_flag = 0 /\ rd.pos = 0 /\ ~rd.eof /\ null_location = -1
      /\ rd.actual = TailPlace - HeadPlace /\ rd.more = (Len(mem_list) > 1)
      /\ ubuf # <<>> \/ null_flag = 1
  BY <1>1 DEF QuietInv, LoopOK, SessionOK, Asgn2Inv, MarkOK, InLoop
<1>3. /\ ReaderFields /\ page_queue.tail_index \in Int /\ page_queue.tail_offset \in Offsets
      /\ TailIndex \in Nat /\ Len(mem_list) \in Nat /\ data_size \in Nat
      /\ TailPlace \in Nat /\ HeadPlace <= TailPlace
  BY QuietAtRest
<1>4. /\ TailIndex \in Nat \ {0} /\ TailIndex' = TailIndex - 1
      /\ TailPlace' = TailPlace - PAGE_SIZE /\ TailPlace' \in Nat
      /\ HeadPlace = PAGE_SIZE /\ HeadPlace' = 0
      /\ Len(mem_list') = Len(mem_list) - 1
      /\ \A i \in 1..(Len(mem_list) - 1) : mem_list'[i] = mem_list[i + 1]
  BY QuietFreePageMoves
<1>5. /\ rd'.pc = "num" /\ rd'.freed = rd.freed + 1 /\ rd.freed \in Nat
      /\ rd'.actual = rd.actual /\ rd'.more = rd.more /\ rd'.pos = rd.pos /\ rd'.eof = rd.eof
      /\ page_queue'.head_offset = 0
      /\ page_queue'.tail_offset = page_queue.tail_offset
  BY <1>1, <1>3 DEF ReaderFields, Asgn2Inv, QueueOK
<1>6. PortOK'
  BY <1>1, <1>3, <1>5, QuietReaderPort
<1>7. SizeOK'
  <2>1. InRead /\ InRead'
    BY <1>1, <1>5 DEF InRead, InLoop
  <2>2. data_size' = TailPlace' + rd'.freed * PAGE_SIZE
    <3>1. data_size = TailPlace + rd.freed * PAGE_SIZE
      BY <2>1 DEF QuietInv, SizeOK
    <3>2. /\ rd.freed * PAGE_SIZE \in Nat
          /\ rd'.freed * PAGE_SIZE = rd.freed * PAGE_SIZE + PAGE_SIZE
      BY <1>5, PlaceOf, SizesPositive
    <3> DEFINE x == rd.freed * PAGE_SIZE
    <3>3. x \in Nat /\ rd'.freed * PAGE_SIZE = x + PAGE_SIZE /\ data_size = TailPlace + x
      BY <3>1, <3>2
    <3> HIDE DEF x
    <3>4. TailPlace' + (x + PAGE_SIZE) = TailPlace + x
      BY <1>3, <1>4, <3>3, SizesPositive
    <3>5. data_size' = data_size
      BY <1>1
    <3> QED BY <3>3, <3>4, <3>5
  <2>3. num_pages' = Len(mem_list') + 1
    <3>1. num_pages = Len(mem_list)
      BY <1>1, <1>3 DEF QuietInv, SizeOK
    <3> QED BY <1>1, <1>3, <1>4, <3>1
  <2>4. Len(mem_list') = TailIndex' + (IF page_queue'.tail_offset = 0 THEN 0 ELSE 1)
    BY <1>3, <1>4, <1>5 DEF QuietInv, SizeOK
  <2>5. wait_flag' = 1 => HeadPlace' = TailPlace'
    BY <1>1, <1>3, <1>4, SizesPositive DEF QuietInv, SizeOK
  <2>6. TailIndex' \in Nat /\ HeadPlace' <= TailPlace' /\ page_queue'.head_offset \in Offsets
    BY <1>4, <1>5, SizesPositive
  <2> QED BY <1>5, <2>1, <2>2, <2>3, <2>4, <2>5, <2>6 DEF SizeOK
<1>8. NullsOK'
  <2> SUFFICES ASSUME NEW i \in 1..(Len(mem_list) - 1), NEW o \in Offsets,
                      (i - 1) * PAGE_SIZE + o < TailPlace - PAGE_SIZE, mem_list'[i][o] = 0
               PROVE  o \in NullSlots
    <3>1. DOMAIN mem_list' = 1..(Len(mem_list) - 1)
      <4>1. mem_list' \in Seq(Page)
        BY Asgn2InvStep DEF Asgn2Inv, QueueOK, Next, Read
      <4> QED BY <1>4, <4>1
    <3> QED BY <1>4, <3>1 DEF NullsOK
  <2>1. mem_list[i + 1][o] = 0 /\ i + 1 \in DOMAIN mem_list
    <3>1. i + 1 \in 1..Len(mem_list)
      BY <1>3
    <3>2. DOMAIN mem_list = 1..Len(mem_list)
      BY ElementType DEF Asgn2Inv, QueueOK
    <3> QED BY <1>4, <3>1, <3>2
  <2>2. ((i + 1) - 1) * PAGE_SIZE + o < TailPlace
    <3> DEFINE q == i - 1
               x == q * PAGE_SIZE
    <3>1. q \in Nat /\ (i + 1) - 1 = q + 1
      BY <1>3
    <3>2. x \in Nat /\ (q + 1) * PAGE_SIZE = x + PAGE_SIZE
      BY <3>1, PlaceOf
    <3>3. o \in Nat /\ x + o < TailPlace - PAGE_SIZE
      BY SizesPositive DEF Offsets
    <3>4. ((i + 1) - 1) * PAGE_SIZE = x + PAGE_SIZE
      BY <3>1, <3>2
    <3> HIDE DEF x, q
    <3>5. x + PAGE_SIZE + o < TailPlace
      BY <1>3, <3>2, <3>3, SizesPositive
    <3> QED BY <3>4, <3>5
  <2> QED BY <2>1, <2>2 DEF QuietInv, NullsOK
<1>9. SessionOK'
  BY <1>1, <1>2, <1>5 DEF SessionOK, Before, InLoop, admVars
<1>10. LoopOK'
  <2>1. rd'.actual = TailPlace' - HeadPlace'
    BY <1>2, <1>3, <1>4, <1>5, SizesPositive
  <2>2. rd'.more = (Len(mem_list') > 0)
    <3>1. (Len(mem_list) > 1) <=> (Len(mem_list') > 0)
      BY <1>3, <1>4
    <3> QED BY <1>2, <1>5, <3>1
  <2> QED BY <1>1, <1>2, <1>5, <2>1, <2>2 DEF LoopOK, Before, admVars
<1> QED BY <1>6, <1>7, <1>8, <1>9, <1>10 DEF QuietInv

LEMMA QuietKeepPage ==
  ASSUME QuietDriver, Asgn2Inv, QuietInv, ReadNextPage, KeepPage
  PROVE  QuietInv' /\ TailPlace' = TailPlace /\ HeadPlace' = HeadPlace
<1>1. /\ ReaderTurn /\ rd.pc = "free" /\ page_queue.head_offset # 0
      /\ rd' = AfterPage([rd EXCEPT !.pos = rd.pos + 1])
      /\ UNCHANGED <<topVars, queueVars, bh, sent>>
      /\ UNCHANGED <<admVars, page_queue, mem_list, num_pages, data_size, null_location,
                     wait_flag, ubuf>>
  BY DEF ReadNextPage, KeepPage, queueVars
<1>2. /\ ReaderFields /\ page_queue.tail_offset \in Offsets
      /\ TailIndex \in Nat /\ Len(mem_list) \in Nat
      /\ TailPlace = TailIndex * PAGE_SIZE + page_queue.tail_offset
      /\ page_queue.head_offset \in Offsets /\ HeadPlace = page_queue.head_offset
  BY <1>1, QuietAtRest
<1>3. /\ rd.more = (Len(mem_list) > 1) /\ ~rd.eof
      /\ null_flag = 1 \/ HeadPlace = TailPlace
      /\ ubuf # <<>> \/ null_flag = 1
  BY <1>1 DEF QuietInv, LoopOK, SessionOK
<1>4. null_flag = 1 \/ ~rd.more
  <2> SUFFICES ASSUME HeadPlace = TailPlace PROVE Len(mem_list) <= 1
    <3>1. Len(mem_list) <= 1 => ~(Len(mem_list) > 1)
      BY <1>2
    <3>2. null_flag # 1 => HeadPlace = TailPlace
      BY <1>3
    <3>3. rd.more => Len(mem_list) > 1
      BY <1>3
    <3> QED BY <3>1, <3>2, <3>3
  <2>1. TailIndex = 0
    <3>1. 0 * PAGE_SIZE + page_queue.head_offset = TailIndex * PAGE_SIZE + page_queue.tail_offset
      <4>1. 0 * PAGE_SIZE = 0 /\ page_queue.head_offset \in Nat
        BY <1>2, SizesPositive DEF Offsets
      <4> QED BY <1>2, <4>1
    <3> QED BY <1>2, <3>1, PlaceUnique
  <2> QED BY <1>2, <2>1 DEF QuietInv, SizeOK
<1>5. rd' = [rd EXCEPT !.pc = "indices", !.pos = rd.pos + 1]
  <2> DEFINE r == [rd EXCEPT !.pos = rd.pos + 1]
  <2>1. r.more = rd.more /\ [r EXCEPT !.pc = "indices"] = [rd EXCEPT !.pc = "indices", !.pos = rd.pos + 1]
    BY <1>2 DEF ReaderFields
  <2> HIDE DEF r
  <2>2. rd' = [r EXCEPT !.pc = IF null_flag = 1 \/ ~r.more THEN "indices" ELSE "page"]
    BY <1>1 DEF AfterPage, r
  <2> QED BY <1>4, <2>1, <2>2
<1>6. rd'.pc = "indices" /\ rd'.freed = rd.freed /\ rd'.eof = rd.eof
  BY <1>2, <1>5 DEF ReaderFields
<1>7. TailStale /\ TailStale' /\ InRead /\ InRead'
  BY <1>1, <1>6 DEF TailStale, Looping, InRead, InLoop
<1>8. /\ PortOK' /\ NullsOK' /\ TailIndex' = TailIndex /\ TailPlace' = TailPlace
      /\ NullAhead => NullAhead'
  BY <1>1, <1>6, <1>7, QueueUntouched
<1>9. HeadPlace' = HeadPlace
  BY <1>1, <1>2, <1>6 DEF HeadPlace
<1>10. SizeOK'
  BY <1>1, <1>6, <1>7, <1>8, <1>9 DEF QuietInv, SizeOK
<1>11. SessionOK'
  BY <1>1, <1>3, <1>6, <1>8 DEF QuietInv, SessionOK, Before, InLoop, admVars
<1>12. LoopOK'
  BY <1>6 DEF LoopOK, Before
<1> QED BY <1>8, <1>9, <1>10, <1>11, <1>12 DEF QuietInv

LEMMA QuietLoadNum ==
  ASSUME QuietDriver, Asgn2Inv, QuietInv, LoadNum
  PROVE  QuietInv' /\ TailPlace' = TailPlace /\ HeadPlace' = HeadPlace
<1>1. /\ ReaderTurn /\ rd.pc = "num"
      /\ rd' = [rd EXCEPT !.pc = "store_num", !.reg = num_pages]
      /\ UNCHANGED <<topVars, queueVars, bh, sent>>
      /\ UNCHANGED <<admVars, page_queue, mem_list, num_pages, data_size, null_location,
                     wait_flag, ubuf>>
  BY DEF LoadNum, Load, queueVars
<1>2. /\ rd'.pc = "store_num" /\ rd'.reg = num_pages /\ rd'.freed = rd.freed /\ rd'.eof = rd.eof
      /\ rd'.pos = rd.pos /\ rd'.actual = rd.actual /\ rd'.more = rd.more
  BY <1>1, QuietAtRest DEF ReaderFields
<1>3. TailStale /\ TailStale' /\ InRead /\ InRead'
  BY <1>1, <1>2 DEF TailStale, Looping, InRead, InLoop
<1>4. /\ PortOK' /\ NullsOK' /\ TailIndex' = TailIndex /\ TailPlace' = TailPlace
      /\ NullAhead => NullAhead'
  BY <1>1, <1>2, <1>3, QueueUntouched
<1>5. HeadPlace' = HeadPlace
  BY <1>1, <1>2 DEF HeadPlace
<1>6. SizeOK'
  BY <1>1, <1>2, <1>3, <1>4, <1>5 DEF QuietInv, SizeOK
<1>7. SessionOK'
  BY <1>1, <1>2, <1>4 DEF QuietInv, SessionOK, Before, InLoop, admVars
<1>8. LoopOK'
  BY <1>1, <1>2, <1>4, <1>5 DEF QuietInv, LoopOK, Before, admVars
<1> QED BY <1>4, <1>5, <1>6, <1>7, <1>8 DEF QuietInv

LEMMA QuietStoreNum ==
  ASSUME QuietDriver, Asgn2Inv, QuietInv, StoreNum
  PROVE  QuietInv' /\ TailPlace' = TailPlace /\ HeadPlace' = HeadPlace
<1>1. /\ ReaderTurn /\ rd.pc = "store_num" /\ num_pages' = rd.reg - 1
      /\ rd' = AfterPage(rd)
      /\ UNCHANGED <<topVars, bh, sent>>
      /\ UNCHANGED <<admVars, page_queue, mem_list, data_size, null_location, wait_flag, ubuf>>
  BY DEF StoreNum
<1>2. /\ ReaderFields /\ page_queue.tail_offset \in Offsets
      /\ TailIndex \in Nat /\ Len(mem_list) \in Nat /\ data_size \in Nat
      /\ TailPlace = TailIndex * PAGE_SIZE + page_queue.tail_offset
      /\ TailPlace \in Nat /\ HeadPlace = page_queue.head_offset
  BY <1>1, QuietAtRest
<1>3. /\ null_flag = 0 /\ page_queue.head_offset = 0 /\ rd.more = (Len(mem_list) > 0)
      /\ rd.actual = TailPlace - HeadPlace /\ rd.pos = 0 /\ ~rd.eof
      /\ ubuf # <<>> \/ null_flag = 1
  BY <1>1 DEF QuietInv, LoopOK, SessionOK
<1>4. rd.reg = num_pages /\ num_pages = Len(mem_list) + 1
  BY <1>1, <1>2 DEF QuietInv, SizeOK
<1> DEFINE to == IF Len(mem_list) > 0 THEN "page" ELSE "indices"
<1>5. rd' = [rd EXCEPT !.pc = to]
  <2>1. CASE Len(mem_list) > 0
    <3>1. ~(null_flag = 1 \/ ~rd.more)
      <4>1. rd.more = TRUE
        BY <1>3, <2>1
      <4> QED BY <1>3, <4>1
    <3>2. rd' = [rd EXCEPT !.pc = "page"]
      BY <1>1, <3>1 DEF AfterPage
    <3> QED BY <2>1, <3>2
  <2>2. CASE ~(Len(mem_list) > 0)
    <3>1. null_flag = 1 \/ ~rd.more
      BY <1>3, <2>2
    <3>2. rd' = [rd EXCEPT !.pc = "indices"]
      BY <1>1, <3>1 DEF AfterPage
    <3> QED BY <2>2, <3>2
  <2> QED BY <2>1, <2>2
<1>6. to \in {"page", "indices"} /\ (to = "page" => Len(mem_list) > 0)
  OBVIOUS
<1> HIDE DEF to
<1>7. /\ rd'.pc = to /\ rd'.freed = rd.freed /\ rd'.eof = rd.eof
      /\ rd'.pos = rd.pos /\ rd'.actual = rd.actual
  BY <1>2, <1>5 DEF ReaderFields
<1>8. TailStale /\ TailStale' /\ InRead /\ InRead'
  BY <1>1, <1>6, <1>7 DEF TailStale, Looping, InRead, InLoop
<1>9. TailIndex' = TailIndex /\ TailPlace' = TailPlace /\ HeadPlace' = HeadPlace
  BY <1>1, <1>6, <1>7, <1>8 DEF TailIndex, TailPlace, HeadPlace
<1>10. PortOK'
  BY <1>1, <1>2, QuietReaderPort
<1>11. SizeOK'
  <2>1. num_pages' = Len(mem_list)
    BY <1>1, <1>2, <1>4
  <2> QED BY <1>1, <1>2, <1>6, <1>7, <1>8, <1>9, <2>1 DEF QuietInv, SizeOK
<1>12. NullsOK'
  BY <1>1, <1>9 DEF QuietInv, NullsOK
<1>13. SessionOK'
  BY <1>1, <1>3, <1>6, <1>7 DEF QuietInv, SessionOK, Before, InLoop, admVars, Asgn2Inv, MarkOK
<1>14. LoopOK'
  <2>1. to = "page" => HeadPlace' < TailPlace'
    <3> SUFFICES ASSUME Len(mem_list) > 0 PROVE 0 < TailPlace
      BY <1>2, <1>3, <1>6, <1>9
    <3>1. CASE TailIndex = 0
      <4>1. page_queue.tail_offset # 0
        BY <1>2, <3>1 DEF QuietInv, SizeOK
      <4> QED BY <1>2, <3>1, <4>1, SizesPositive DEF Offsets
    <3>2. CASE TailIndex # 0
      <4>1. 0 * PAGE_SIZE + 0 < TailIndex * PAGE_SIZE
        BY <1>2, <3>2, PlaceUnique, SizesPositive
      <4> DEFINE x == TailIndex * PAGE_SIZE
      <4>2. 0 < x /\ x \in Nat
        BY <1>2, <4>1, SizesPositive
      <4>3. page_queue.tail_offset \in Nat /\ TailPlace = x + page_queue.tail_offset
        BY <1>2, SizesPositive DEF Offsets
      <4> HIDE DEF x
      <4> QED BY <4>2, <4>3
    <3> QED BY <3>1, <3>2
  <2> QED BY <1>1, <1>3, <1>6, <1>7, <1>9, <2>1 DEF LoopOK, Before
<1> QED BY <1>9, <1>10, <1>11, <1>12, <1>13, <1>14 DEF QuietInv

LEMMA QuietReadHead ==
  ASSUME QuietDriver, Asgn2Inv, QuietInv, ReadHead
  PROVE  QuietInv' /\ TailPlace' = TailPlace /\ HeadPlace' = HeadPlace
<1>1. /\ ReaderTurn /\ rd.pc = "indices"
      /\ page_queue' = [page_queue EXCEPT !.head_index = HeadRenumbered(rd.freed)]
      /\ rd' = [rd EXCEPT !.pc = "store_tail", !.reg = page_queue.tail_index]
      /\ UNCHANGED <<topVars, bh, sent>>
      /\ UNCHANGED <<admVars, mem_list, num_pages, data_size, null_location, wait_flag, ubuf>>
  BY DEF ReadHead
<1>2. ReaderFields /\ data_size \in Nat
  BY QuietAtRest
<1>3. /\ rd'.pc = "store_tail" /\ rd'.reg = page_queue.tail_index
      /\ rd'.freed = rd.freed /\ rd'.eof = rd.eof
      /\ page_queue'.head_offset = page_queue.head_offset
      /\ page_queue'.tail_index = page_queue.tail_index
      /\ page_queue'.tail_offset = page_queue.tail_offset
  BY <1>1, <1>2 DEF ReaderFields, Asgn2Inv, QueueOK
<1>4. TailStale /\ TailStale' /\ InRead /\ InRead'
  BY <1>1, <1>3 DEF TailStale, Looping, InRead, InLoop
<1>5. TailIndex' = TailIndex /\ TailPlace' = TailPlace /\ HeadPlace' = HeadPlace
  BY <1>1, <1>3, <1>4 DEF TailIndex, TailPlace, HeadPlace
<1>6. PortOK'
  BY <1>1, <1>2, <1>3, QuietReaderPort
<1>7. SizeOK'
  BY <1>1, <1>3, <1>4, <1>5 DEF QuietInv, SizeOK
<1>8. NullsOK'
  BY <1>1, <1>5 DEF QuietInv, NullsOK
<1>9. NullAhead => NullAhead'
  BY <1>1, <1>3, <1>5 DEF NullAhead
<1>10. SessionOK'
  BY <1>1, <1>3, <1>9 DEF QuietInv, SessionOK, Before, InLoop, admVars
<1>11. LoopOK'
  BY <1>3 DEF LoopOK, Before
<1> QED BY <1>5, <1>6, <1>7, <1>8, <1>10, <1>11 DEF QuietInv

LEMMA QuietStoreTail ==
  ASSUME QuietDriver, Asgn2Inv, QuietInv, StoreTail
  PROVE  QuietInv' /\ TailPlace' = TailPlace /\ HeadPlace' = HeadPlace
<1>1. /\ ReaderTurn /\ rd.pc = "store_tail"
      /\ page_queue' = [page_queue EXCEPT !.tail_index = TailRenumbered(rd.reg, rd.freed)]
      /\ null_location' = IF null_flag = 1 THEN page_queue.head_offset ELSE null_location
      /\ rd' = [rd EXCEPT !.pc = "size"]
      /\ UNCHANGED <<topVars, bh, sent>>
      /\ UNCHANGED <<admVars, mem_list, num_pages, data_size, wait_flag, ubuf>>
  BY DEF StoreTail
<1>2. /\ ReaderFields /\ data_size \in Nat /\ page_queue.tail_index \in Int
      /\ page_queue.head_offset \in Offsets
  BY QuietAtRest
<1>3. rd.reg = page_queue.tail_index
  BY <1>1 DEF QuietInv, SizeOK
<1>4. /\ rd'.pc = "size" /\ rd'.freed = rd.freed /\ rd'.eof = rd.eof
      /\ page_queue'.head_offset = page_queue.head_offset
      /\ page_queue'.tail_index = page_queue.tail_index - rd.freed
      /\ page_queue'.tail_offset = page_queue.tail_offset
  BY <1>1, <1>2, <1>3 DEF ReaderFields, Asgn2Inv, QueueOK, TailRenumbered
<1>5. TailStale /\ ~TailStale' /\ InRead /\ InRead'
  BY <1>1, <1>4 DEF TailStale, Looping, InRead, InLoop
<1>6. TailIndex' = TailIndex /\ TailPlace' = TailPlace /\ HeadPlace' = HeadPlace
  <2>1. page_queue'.tail_index - 0 = page_queue'.tail_index
    BY <1>2, <1>4 DEF ReaderFields
  <2> QED BY <1>1, <1>4, <1>5, <2>1 DEF TailIndex, TailPlace, HeadPlace
<1>7. PortOK'
  BY <1>1, <1>2, <1>4, QuietReaderPort
<1>8. SizeOK'
  BY <1>1, <1>4, <1>5, <1>6 DEF QuietInv, SizeOK
<1>9. NullsOK'
  BY <1>1, <1>6 DEF QuietInv, NullsOK
<1>10. NullAhead => NullAhead'
  BY <1>1, <1>4, <1>6 DEF NullAhead
<1>11. SessionOK'
  <2>1. null_flag = 1 => null_location' # -1 /\ NullAhead
    BY <1>1, <1>2, SizesPositive DEF Offsets, QuietInv, SessionOK
  <2>2. null_flag # 1 => null_location' = null_location
    BY <1>1
  <2> QED BY <1>1, <1>4, <1>10, <2>1, <2>2 DEF QuietInv, SessionOK, Before, InLoop, admVars
<1>12. LoopOK'
  BY <1>4 DEF LoopOK, Before
<1> QED BY <1>6, <1>7, <1>8, <1>9, <1>11, <1>12 DEF QuietInv

LEMMA QuietLoadSize ==
  ASSUME QuietDriver, Asgn2Inv, QuietInv, LoadSize
  PROVE  QuietInv' /\ TailPlace' = TailPlace /\ HeadPlace' = HeadPlace
<1>1. /\ ReaderTurn /\ rd.pc = "size"
      /\ rd' = [rd EXCEPT !.pc = "store_size", !.reg = data_size]
      /\ UNCHANGED <<topVars, queueVars, bh, sent>>
      /\ UNCHANGED <<admVars, page_queue, mem_list, num_pages, data_size, null_location,
                     wait_flag, ubuf>>
  BY DEF LoadSize, Load, queueVars
<1>2. /\ rd'.pc = "store_size" /\ rd'.reg = data_size /\ rd'.freed = rd.freed
      /\ rd'.eof = rd.eof
  BY <1>1, QuietAtRest DEF ReaderFields
<1>3. ~TailStale /\ ~TailStale' /\ InRead /\ InRead'
  BY <1>1, <1>2 DEF TailStale, Looping, InRead, InLoop
<1>4. /\ PortOK' /\ NullsOK' /\ TailIndex' = TailIndex /\ TailPlace' = TailPlace
      /\ NullAhead => NullAhead'
  BY <1>1, <1>2, <1>3, QueueUntouched
<1>5. HeadPlace' = HeadPlace
  BY <1>1, <1>2 DEF HeadPlace
<1>6. SizeOK'
  BY <1>1, <1>2, <1>3, <1>4, <1>5 DEF QuietInv, SizeOK
<1>7. SessionOK'
  BY <1>1, <1>2, <1>4 DEF QuietInv, SessionOK, Before, InLoop, admVars
<1>8. LoopOK'
  BY <1>2 DEF LoopOK, Before
<1> QED BY <1>4, <1>5, <1>6, <1>7, <1>8 DEF QuietInv

\* The subtraction of asgn_2.c:387 does not wrap either.  A read that returns 0
\* here has met a terminator.
LEMMA QuietStoreSize ==
  ASSUME QuietDriver, Asgn2Inv, QuietInv, StoreSize
  PROVE  /\ QuietInv' /\ TailPlace' = TailPlace /\ HeadPlace' = HeadPlace
         /\ rd'.eof => NullAhead
<1>1. /\ ReaderTurn /\ rd.pc = "store_size"
      /\ data_size' = (rd.reg - rd.freed * PAGE_SIZE) % SIZE_RANGE
      /\ rd' = [rd EXCEPT !.pc = "idle", !.eof = (ubuf = <<>>)]
      /\ UNCHANGED <<topVars, bh, sent>>
      /\ UNCHANGED <<admVars, page_queue, mem_list, num_pages, null_location, wait_flag, ubuf>>
  BY DEF StoreSize, Return
<1>2. /\ ReaderFields /\ data_size \in Nat /\ TailPlace \in Nat
      /\ page_queue.tail_index \in Int
  BY QuietAtRest
<1>3. rd'.pc = "idle" /\ rd'.freed = rd.freed /\ rd'.eof = (ubuf = <<>>) /\ ~rd.eof
      /\ (ubuf # <<>> \/ null_flag = 1)
      /\ (null_flag = 1 => null_location # -1)
      /\ (null_location # -1 => NullAhead)
  BY <1>1, <1>2 DEF ReaderFields, QuietInv, SessionOK
<1>4. ~TailStale /\ ~TailStale' /\ InRead /\ ~InRead'
  BY <1>1, <1>3 DEF TailStale, Looping, InRead, InLoop
<1>5. TailIndex' = TailIndex /\ TailPlace' = TailPlace /\ HeadPlace' = HeadPlace
  BY <1>1, <1>3, <1>4 DEF TailIndex, TailPlace, HeadPlace
<1>6. data_size' = TailPlace /\ data_size' <= data_size
  <2> DEFINE x == rd.freed * PAGE_SIZE
  <2>1. x \in Nat
    BY <1>2, SizesPositive DEF ReaderFields
  <2>2. rd.reg = data_size /\ data_size = TailPlace + x
    BY <1>1, <1>4 DEF QuietInv, SizeOK
  <2>3. data_size \in 0..(SIZE_RANGE - 1)
    BY DEF Asgn2Inv, QueueOK
  <2> HIDE DEF x
  <2>4. rd.reg - x = TailPlace /\ TailPlace \in 0..(SIZE_RANGE - 1) /\ TailPlace <= data_size
    BY <1>2, <2>1, <2>2, <2>3, SizeRangeAssumption
  <2>5. data_size' = TailPlace % SIZE_RANGE
    BY <1>1, <2>4 DEF x
  <2> QED BY <2>4, <2>5, SizeRangeAssumption
<1>7. PortOK'
  BY <1>1, <1>2, <1>6, QuietReaderPort
<1>8. SizeOK'
  <2>1. TailPlace' + 0 = TailPlace
    BY <1>2, <1>5
  <2>2. num_pages = Len(mem_list) + 0
    BY <1>1 DEF QuietInv, SizeOK
  <2> QED BY <1>1, <1>3, <1>4, <1>5, <1>6, <2>1, <2>2 DEF QuietInv, SizeOK
<1>9. NullsOK'
  BY <1>1, <1>5 DEF QuietInv, NullsOK
<1>10. NullAhead => NullAhead'
  BY <1>1, <1>5 DEF NullAhead
<1>11. SessionOK'
  BY <1>1, <1>3, <1>10 DEF SessionOK, Before, InLoop, admVars
<1>12. LoopOK'
  BY <1>3 DEF LoopOK, Before
<1>13. rd'.eof => NullAhead
  BY <1>3
<1> QED BY <1>5, <1>7, <1>8, <1>9, <1>11, <1>12, <1>13 DEF QuietInv

\* Opening and closing the device leave the queue as it is, and an open finds
\* null_flag down.
LEMMA QuietOpenClose ==
  ASSUME QuietDriver, Asgn2Inv, QuietInv, Open \/ Close
  PROVE  QuietInv' /\ TailPlace' = TailPlace /\ HeadPlace' = HeadPlace /\ (rd'.eof => rd.eof)
<1>1. /\ ReaderTurn /\ UNCHANGED <<topVars, bh, sent>>
      /\ UNCHANGED <<page_queue, mem_list, num_pages, data_size, null_location, wait_flag, ubuf>>
  BY DEF Open, Close, queueVars
<1>2. ReaderFields /\ data_size \in Nat
  BY QuietAtRest
<1>3. /\ rd.pc = "idle"
      /\ \/ rd' = rd
         \/ rd' = [rd EXCEPT !.eof = FALSE] /\ null_flag' = 0
      /\ null_flag' = null_flag \/ null_flag' = 0
  <2>1. CASE Close
    BY <2>1 DEF Close, ReleaseDec, ReleaseWake
  <2>2. CASE Open
    <3>1. fd[reader] # "open" /\ rd.pc = "idle"
      BY <2>2 DEF Open, OpenCall, OpenPass, OpenAdmit, Move, Asgn2Inv, ReadOK
    <3>2. null_flag = 0
      <4>1. At("open") = {}
        BY <3>1, ReaderInProcs DEF At
      <4> QED BY <4>1 DEF Asgn2Inv, AdmInv, FreshSession
    <3> QED BY <2>2, <3>1, <3>2 DEF Open, OpenCall, OpenPass, OpenAdmit
  <2> QED BY <2>1, <2>2
<1>4. /\ rd'.pc = "idle" /\ rd'.freed = rd.freed /\ rd'.reg = rd.reg
      /\ rd'.eof = rd.eof \/ (~rd'.eof /\ null_flag' = 0)
  BY <1>2, <1>3 DEF ReaderFields
<1>5. TailIndex' = TailIndex /\ TailPlace' = TailPlace /\ HeadPlace' = HeadPlace
      /\ ~InRead /\ ~InRead'
  BY <1>1, <1>3, <1>4 DEF TailIndex, TailPlace, HeadPlace, TailStale, Looping, InRead, InLoop
<1>6. PortOK'
  BY <1>1, <1>2, QuietReaderPort
<1>7. SizeOK'
  BY <1>1, <1>3, <1>4, <1>5 DEF QuietInv, SizeOK
<1>8. NullsOK'
  BY <1>1, <1>5 DEF QuietInv, NullsOK
<1>9. NullAhead => NullAhead'
  BY <1>1, <1>5 DEF NullAhead
<1>10. SessionOK'
  BY <1>1, <1>3, <1>4, <1>9 DEF QuietInv, SessionOK, Before, InLoop
<1>11. LoopOK'
  BY <1>4 DEF LoopOK, Before
<1>12. rd'.eof => rd.eof
  BY <1>4
<1> QED BY <1>5, <1>6, <1>7, <1>8, <1>10, <1>11, <1>12 DEF QuietInv

LEMMA QuietStutter == ASSUME QuietInv, UNCHANGED vars PROVE QuietInv'
<1>1. /\ UNCHANGED <<buf, head, tail, scheduled, sending, bh, sent>>
      /\ UNCHANGED <<admVars, queueVars, null_location, wait_flag, rd, ubuf>>
  BY DEF vars, topVars, ringVars
<1>2. PortOK'
  BY <1>1 DEF QuietInv, PortOK, Stored, queueVars
<1> QED BY <1>1, <1>2, QueueInvFrame DEF QuietInv, QueueInv

LEMMA QuietStep == QuietDriver /\ Asgn2Inv /\ QuietInv /\ [Next]_vars => QuietInv'
<1> SUFFICES ASSUME QuietDriver, Asgn2Inv, QuietInv, [Next]_vars PROVE QuietInv'
  OBVIOUS
<1>1. ASSUME NEW b \in Bytes, PortHigh(b) PROVE QuietInv'
  BY <1>1, QuietPortHighStep
<1>2. CASE BottomHalf
  BY <1>2, QuietBhEnterStep, QuietBhCountStep, QuietBhCopyStep, QuietNoAllocFail DEF BottomHalf
<1>3. ASSUME NEW n \in ReadSizes, ReadCall(n) PROVE QuietInv'
  BY <1>3, QuietReadPastNull, QuietReadTestEmpty DEF ReadCall
<1>4. CASE ReadPage
  BY <1>4, QuietReadPageFacts, QuietReadPage
<1>5. CASE ReadNextPage
  BY <1>5, QuietFreePage, QuietKeepPage DEF ReadNextPage
<1>6. CASE Read
  BY <1>3, <1>4, <1>5, <1>6, QuietReadSetWait, QuietReadSleep, QuietReadBegin,
     QuietNoReadNoPage, QuietLoadNum, QuietStoreNum, QuietReadHead, QuietStoreTail,
     QuietLoadSize, QuietStoreSize DEF Read
<1> QED BY <1>1, <1>2, <1>6, QuietPortLowStep, QuietOpenClose, QuietStutter DEF Next

\* The inductive invariant of the quiet driver.
LEMMA QuietInvariant == QuietDriver /\ Spec => [](QuietDriver /\ Asgn2Inv /\ QuietInv)
<1> DEFINE IInv == QuietDriver /\ Asgn2Inv /\ QuietInv
<1>1. QuietDriver /\ Init => IInv
  BY Asgn2InvInit, QuietInvInit
<1>2. IInv /\ [Next]_vars => IInv'
  <2>1. QuietDriver => QuietDriver'
    BY DEF QuietDriver
  <2> QED BY <2>1, Asgn2InvStep, QuietStep
<1> QED BY <1>1, <1>2, PTL DEF Spec

(***************************************************************************)
(* What is in the pages, as a sequence.                                    *)
(***************************************************************************)

\* The byte at place p of the pages m, as in ByteAt, and the bytes from place h
\* up to, but without, place t.
ByteIn(m, p) ==
  LET i == p \div PAGE_SIZE
  IN  IF i \in 0..(Len(m) - 1) THEN m[i + 1][p % PAGE_SIZE] ELSE -1

BytesIn(m, h, t) == [k \in 1..(t - h) |-> ByteIn(m, h + k - 1)]

\* UnreadPages is such a sequence, in this state and in the next.
LEMMA UnreadPagesAre ==
  /\ UnreadPages = BytesIn(mem_list, HeadPlace, TailPlace)
  /\ UnreadPages' = BytesIn(mem_list', HeadPlace', TailPlace')
<1>1. \A p : ByteAt(p) = ByteIn(mem_list, p)
  BY DEF ByteAt, ByteIn
<1>2. \A p : ByteAt(p)' = ByteIn(mem_list', p)
  BY DEF ByteAt, ByteIn
<1>3. UnreadPages = BytesIn(mem_list, HeadPlace, TailPlace)
  BY <1>1 DEF UnreadPages, BytesIn
<1>4. UnreadPages' = BytesIn(mem_list', HeadPlace', TailPlace')
  BY <1>2 DEF UnreadPages, BytesIn
<1> QED BY <1>3, <1>4

\* A place is made of a page and an offset.
LEMMA PlaceParts ==
  ASSUME NEW p \in Nat
  PROVE  /\ p \div PAGE_SIZE \in Nat /\ p % PAGE_SIZE \in Offsets
         /\ p = (p \div PAGE_SIZE) * PAGE_SIZE + (p % PAGE_SIZE)
<1>1. PAGE_SIZE \in Nat \ {0}
  BY SizesPositive
<1>2. p % PAGE_SIZE \in 0..(PAGE_SIZE - 1)
  BY <1>1
<1>3. p \div PAGE_SIZE \in Nat
  BY <1>1
<1>4. p = PAGE_SIZE * (p \div PAGE_SIZE) + (p % PAGE_SIZE)
  BY <1>1
<1>5. PAGE_SIZE * (p \div PAGE_SIZE) = (p \div PAGE_SIZE) * PAGE_SIZE
  BY <1>1, <1>3
<1> QED BY <1>2, <1>3, <1>4, <1>5 DEF Offsets

LEMMA ByteInPage ==
  ASSUME NEW m, NEW q \in Nat, NEW o \in Offsets, Len(m) \in Nat, q < Len(m)
  PROVE  ByteIn(m, q * PAGE_SIZE + o) = m[q + 1][o]
<1>1. /\ (q * PAGE_SIZE + o) \div PAGE_SIZE = q
      /\ (q * PAGE_SIZE + o) % PAGE_SIZE = o
  BY PlaceOf
<1>2. q \in 0..(Len(m) - 1)
  OBVIOUS
<1> QED BY <1>1, <1>2 DEF ByteIn

LEMMA ByteInType == ASSUME NEW m \in Seq(Page), NEW p \in Nat PROVE ByteIn(m, p) \in Int
<1>1. p \div PAGE_SIZE \in Nat /\ p % PAGE_SIZE \in Offsets
  BY PlaceParts
<1> DEFINE i == p \div PAGE_SIZE
           o == p % PAGE_SIZE
<1>2. i \in Nat /\ o \in Offsets
  BY <1>1
<1>3. ByteIn(m, p) = IF i \in 0..(Len(m) - 1) THEN m[i + 1][o] ELSE -1
  BY DEF ByteIn
<1> HIDE DEF i, o
<1>4. ASSUME i \in 0..(Len(m) - 1) PROVE m[i + 1][o] \in Int
  <2>1. i + 1 \in DOMAIN m
    BY <1>4
  <2>2. m[i + 1] \in Page
    BY <2>1, ElementType
  <2>3. m[i + 1][o] \in 0..255
    BY <1>2, <2>2 DEF Page
  <2>4. 0..255 \subseteq Int
    OBVIOUS
  <2> QED BY <2>3, <2>4, Zenon
<1> QED BY <1>3, <1>4

LEMMA BytesInType ==
  ASSUME NEW m \in Seq(Page), NEW h \in Nat, NEW t \in Nat, h <= t
  PROVE  /\ BytesIn(m, h, t) \in Seq(Int) /\ Len(BytesIn(m, h, t)) = t - h
         /\ \A k \in 1..(t - h) : BytesIn(m, h, t)[k] = ByteIn(m, h + k - 1)
<1>1. \A k \in 1..(t - h) : ByteIn(m, h + k - 1) \in Int
  <2> SUFFICES ASSUME NEW k \in 1..(t - h) PROVE ByteIn(m, h + k - 1) \in Int
    OBVIOUS
  <2>1. h + k - 1 \in Nat
    OBVIOUS
  <2> QED BY <2>1, ByteInType
<1>2. BytesIn(m, h, t) \in [1..(t - h) -> Int]
  BY <1>1 DEF BytesIn
<1>3. \A k \in 1..(t - h) : BytesIn(m, h, t)[k] = ByteIn(m, h + k - 1)
  BY DEF BytesIn
<1> HIDE DEF BytesIn
<1>4. t - h \in Nat
  OBVIOUS
<1> QED BY <1>2, <1>3, <1>4, SequenceOfFunction

LEMMA SameSequence ==
  ASSUME NEW S, NEW s \in Seq(S), NEW u \in Seq(S), Len(s) = Len(u),
         \A k \in 1..Len(s) : s[k] = u[k]
  PROVE  s = u
OBVIOUS

\* The head passes n bytes.
LEMMA BytesInPass ==
  ASSUME NEW m \in Seq(Page), NEW h \in Nat, NEW t \in Nat, h <= t, NEW n \in 0..(t - h)
  PROVE  BytesIn(m, h + n, t) = SubSeq(BytesIn(m, h, t), n + 1, t - h)
<1> DEFINE s == BytesIn(m, h + n, t)
           b == BytesIn(m, h, t)
           u == SubSeq(b, n + 1, t - h)
<1>1. /\ s \in Seq(Int) /\ Len(s) = t - (h + n)
      /\ \A k \in 1..(t - (h + n)) : s[k] = ByteIn(m, h + n + k - 1)
  <2>1. h + n \in Nat /\ h + n <= t
    OBVIOUS
  <2> QED BY <2>1, BytesInType
<1>2. /\ b \in Seq(Int) /\ Len(b) = t - h
      /\ \A k \in 1..(t - h) : b[k] = ByteIn(m, h + k - 1)
  BY BytesInType
<1> HIDE DEF b
<1>3. u \in Seq(Int) /\ Len(u) = t - h - n /\ \A k \in 1..(t - h - n) : u[k] = b[n + k]
  BY <1>2
<1> HIDE DEF s, u
<1>4. \A k \in 1..(t - h - n) : s[k] = u[k]
  <2> SUFFICES ASSUME NEW k \in 1..(t - h - n) PROVE s[k] = u[k]
    OBVIOUS
  <2>1. n + k \in 1..(t - h) /\ h + (n + k) - 1 = h + n + k - 1 /\ k \in 1..(t - (h + n))
    OBVIOUS
  <2>2. u[k] = ByteIn(m, h + (n + k) - 1)
    BY <1>2, <1>3, <2>1
  <2>3. s[k] = ByteIn(m, h + n + k - 1)
    BY <1>1, <2>1
  <2> QED BY <2>1, <2>2, <2>3
<1>5. s = u
  <2>1. Len(s) = t - h - n /\ Len(s) = Len(u)
    BY <1>1, <1>3
  <2> QED BY <1>1, <1>3, <1>4, <2>1, SameSequence
<1> QED BY <1>5 DEF s, u, b

\* A byte is added at the tail.
LEMMA BytesInAdd ==
  ASSUME NEW m \in Seq(Page), NEW m2 \in Seq(Page), NEW h \in Nat, NEW t \in Nat, h <= t,
         \A p \in h..(t - 1) : ByteIn(m2, p) = ByteIn(m, p)
  PROVE  BytesIn(m2, h, t + 1) = Append(BytesIn(m, h, t), ByteIn(m2, t))
<1> DEFINE s == BytesIn(m2, h, t + 1)
           b == BytesIn(m, h, t)
           u == Append(b, ByteIn(m2, t))
<1>1. /\ s \in Seq(Int) /\ Len(s) = t + 1 - h
      /\ \A k \in 1..(t + 1 - h) : s[k] = ByteIn(m2, h + k - 1)
  <2> DEFINE t1 == t + 1
  <2>1. t1 \in Nat /\ h <= t1
    OBVIOUS
  <2> HIDE DEF t1
  <2>2. /\ BytesIn(m2, h, t1) \in Seq(Int) /\ Len(BytesIn(m2, h, t1)) = t1 - h
        /\ \A k \in 1..(t1 - h) : BytesIn(m2, h, t1)[k] = ByteIn(m2, h + k - 1)
    BY <2>1, BytesInType
  <2> QED BY <2>2 DEF t1
<1>2. /\ b \in Seq(Int) /\ Len(b) = t - h
      /\ \A k \in 1..(t - h) : b[k] = ByteIn(m, h + k - 1)
  BY BytesInType
<1>3. ByteIn(m2, t) \in Int
  BY ByteInType
<1> HIDE DEF b, s
<1>4. /\ u \in Seq(Int) /\ Len(u) = t + 1 - h
      /\ \A k \in 1..(t - h) : u[k] = b[k]
      /\ u[t + 1 - h] = ByteIn(m2, t)
  BY <1>2, <1>3
<1> HIDE DEF u
<1>5. ASSUME NEW k \in 1..(t + 1 - h) PROVE s[k] = u[k]
  <2>1. CASE k = t + 1 - h
    <3>1. h + k - 1 = t
      BY <2>1
    <3> QED BY <1>1, <1>4, <2>1, <3>1
  <2>2. CASE k # t + 1 - h
    <3>1. k \in 1..(t - h) /\ h + k - 1 \in h..(t - 1)
      BY <2>2
    <3> QED BY <1>1, <1>2, <1>4, <3>1
  <2> QED BY <2>1, <2>2
<1>6. s = u
  BY <1>1, <1>4, <1>5, SameSequence
<1> QED BY <1>6 DEF s, u, b

\* The first page, read to its end, is taken away.
LEMMA BytesInShift ==
  ASSUME NEW m \in Seq(Page), NEW m2 \in Seq(Page), NEW t \in Nat,
         Len(m) \in Nat, Len(m) > 0, Len(m2) = Len(m) - 1,
         \A i \in 1..(Len(m) - 1) : m2[i] = m[i + 1]
  PROVE  BytesIn(m2, 0, t) = BytesIn(m, PAGE_SIZE, t + PAGE_SIZE)
<1>1. ASSUME NEW p \in Nat PROVE ByteIn(m2, p) = ByteIn(m, PAGE_SIZE + p)
  <2> DEFINE i == p \div PAGE_SIZE
             o == p % PAGE_SIZE
             x == i * PAGE_SIZE
  <2>1. i \in Nat /\ o \in Offsets /\ p = x + o
    BY PlaceParts
  <2> HIDE DEF i, o
  <2>2. x \in Nat /\ (i + 1) * PAGE_SIZE = x + PAGE_SIZE
    BY <2>1, PlaceOf
  <2>3. o \in Nat
    BY <2>1, SizesPositive DEF Offsets
  <2>4. PAGE_SIZE + p = (i + 1) * PAGE_SIZE + o
    <3> HIDE DEF x
    <3> QED BY <2>1, <2>2, <2>3, SizesPositive
  <2>5. i + 1 \in Nat
    BY <2>1
  <2>6. (PAGE_SIZE + p) \div PAGE_SIZE = i + 1 /\ (PAGE_SIZE + p) % PAGE_SIZE = o
    BY <2>1, <2>4, <2>5, PlaceOf
  <2>7. ByteIn(m, PAGE_SIZE + p) = IF i + 1 \in 0..(Len(m) - 1) THEN m[(i + 1) + 1][o] ELSE -1
    BY <2>6 DEF ByteIn
  <2>8. ByteIn(m2, p) = IF i \in 0..(Len(m2) - 1) THEN m2[i + 1][o] ELSE -1
    BY DEF ByteIn, i, o
  <2>9. i + 1 \in 0..(Len(m) - 1) <=> i \in 0..(Len(m2) - 1)
    BY <2>1
  <2>10. i \in 0..(Len(m2) - 1) => m2[i + 1] = m[(i + 1) + 1]
    <3>1. i \in 0..(Len(m2) - 1) => i + 1 \in 1..(Len(m) - 1)
      BY <2>1
    <3> QED BY <3>1
  <2> QED BY <2>7, <2>8, <2>9, <2>10
<1> DEFINE s == BytesIn(m2, 0, t)
           u == BytesIn(m, PAGE_SIZE, t + PAGE_SIZE)
<1>2. /\ s \in Seq(Int) /\ Len(s) = t - 0
      /\ \A k \in 1..(t - 0) : s[k] = ByteIn(m2, 0 + k - 1)
  <2>1. 0 \in Nat /\ 0 <= t
    OBVIOUS
  <2> QED BY <2>1, BytesInType
<1>3. /\ u \in Seq(Int) /\ Len(u) = (t + PAGE_SIZE) - PAGE_SIZE
      /\ \A k \in 1..((t + PAGE_SIZE) - PAGE_SIZE) : u[k] = ByteIn(m, PAGE_SIZE + k - 1)
  <2>1. PAGE_SIZE \in Nat /\ t + PAGE_SIZE \in Nat /\ PAGE_SIZE <= t + PAGE_SIZE
    BY SizesPositive
  <2> QED BY <2>1, BytesInType
<1> HIDE DEF s, u
<1>4. t - 0 = t /\ (t + PAGE_SIZE) - PAGE_SIZE = t
  BY SizesPositive
<1>5. ASSUME NEW k \in 1..t PROVE s[k] = u[k]
  <2>1. k - 1 \in Nat /\ 0 + k - 1 = k - 1 /\ PAGE_SIZE + k - 1 = PAGE_SIZE + (k - 1)
    BY SizesPositive
  <2>2. ByteIn(m2, k - 1) = ByteIn(m, PAGE_SIZE + (k - 1))
    BY <1>1, <2>1
  <2> QED BY <1>2, <1>3, <1>4, <2>1, <2>2
<1>6. s = u
  BY <1>2, <1>3, <1>4, <1>5, SameSequence
<1> QED BY <1>6 DEF s, u

(***************************************************************************)
(* What follows for the quiet driver.                                      *)
(***************************************************************************)

\* The numbers of the tasklet and of the reader agree (lines 66, 214, 250-258,
\* 370, 378 and 387).
THEOREM QuietNumbers == QuietDriver /\ Spec => []TailMatchesSize
<1>1. Asgn2Inv /\ QuietInv => TailMatchesSize
  <2> SUFFICES ASSUME Asgn2Inv, QuietInv,
                      \/ rd.pc \in {"idle", "set_wait", "wait", "asleep"}
                      \/ rd.pc = "page" /\ rd.freed = 0
               PROVE  data_size = TailPlace /\ num_pages = Len(mem_list)
    BY DEF TailMatchesSize
  <2>1. TailPlace \in Nat /\ Len(mem_list) \in Nat /\ data_size \in Nat
    BY QuietAtRest
  <2>2. ~InRead \/ rd.freed * PAGE_SIZE = 0
    BY SizesPositive DEF InRead, InLoop
  <2>3. data_size = TailPlace + (IF InRead THEN rd.freed * PAGE_SIZE ELSE 0)
    BY DEF QuietInv, SizeOK
  <2>4. num_pages = Len(mem_list) + 0
    BY DEF QuietInv, SizeOK
  <2> QED BY <2>1, <2>2, <2>3, <2>4
<1> QED BY <1>1, QuietInvariant, PTL

\* No reader goes to sleep over data (lines 263 and 298-305).
THEOREM QuietSleep == QuietDriver /\ Spec => []NoSleepOverData
<1>1. Asgn2Inv /\ QuietInv => NoSleepOverData
  <2> SUFFICES ASSUME Asgn2Inv, QuietInv, wait_flag = 1 PROVE UnreadPages = <<>>
    BY DEF NoSleepOverData
  <2>1. TailPlace - HeadPlace = 0
    <3>1. HeadPlace = TailPlace
      BY DEF QuietInv, SizeOK
    <3> QED BY <3>1, QuietAtRest
  <2> QED BY <2>1 DEF UnreadPages
<1> QED BY <1>1, QuietInvariant, PTL

\* The pages and the ring, as sequences.
LEMMA UnreadType ==
  ASSUME Asgn2Inv, QuietInv
  PROVE  /\ UnreadPages \in Seq(Int) /\ RingContent \in Seq(Int) /\ Unread \in Seq(Int)
         /\ Len(UnreadPages) = TailPlace - HeadPlace
         /\ \A k \in 1..(TailPlace - HeadPlace) :
              UnreadPages[k] = ByteIn(mem_list, HeadPlace + k - 1)
         /\ Len(RingContent) = Stored
<1>1. /\ TailPlace \in Nat /\ HeadPlace \in Nat /\ HeadPlace <= TailPlace
      /\ mem_list \in Seq(Page)
  BY QuietAtRest DEF Asgn2Inv, QueueOK
<1>2. /\ UnreadPages \in Seq(Int) /\ Len(UnreadPages) = TailPlace - HeadPlace
      /\ \A k \in 1..(TailPlace - HeadPlace) :
           UnreadPages[k] = ByteIn(mem_list, HeadPlace + k - 1)
  BY <1>1, BytesInType, UnreadPagesAre
<1>3. RingContent \in Seq(0..255) /\ Len(RingContent) = Stored
  BY RingContentType DEF RingContentOK, Asgn2Inv, TopInv, Stored
<1>4. RingContent \in Seq(Int)
  <2>1. \A k \in DOMAIN RingContent : RingContent[k] \in 0..255
    BY <1>3, ElementType
  <2>2. 0..255 \subseteq Int
    OBVIOUS
  <2>3. \A k \in DOMAIN RingContent : RingContent[k] \in Int
    BY <2>1, <2>2, Zenon
  <2>4. Stored \in Nat /\ DOMAIN RingContent = 1..Stored
    BY <1>3
  <2>5. RingContent \in [1..Stored -> Int]
    BY <2>3, <2>4 DEF RingContent
  <2> QED BY <2>4, <2>5, SequenceOfFunction
<1>5. Unread \in Seq(Int)
  BY <1>2, <1>4 DEF Unread
<1> QED BY <1>2, <1>3, <1>4, <1>5

\* The head is in the first page: a page that is there.
LEMMA UnreadFirstPage ==
  ASSUME Asgn2Inv, QuietInv, NEW o \in Offsets, o < TailPlace
  PROVE  ByteIn(mem_list, o) = mem_list[1][o]
<1>1. Len(mem_list) \in Nat /\ 1 \in 1..Len(mem_list)
  BY FirstPage, QuietAtRest
<1>2. o \in Nat
  BY SizesPositive DEF Offsets
<1>3. ByteIn(mem_list, 0 * PAGE_SIZE + o) = mem_list[0 + 1][o]
  BY <1>1, ByteInPage
<1>4. 0 * PAGE_SIZE + o = o
  BY <1>2, SizesPositive
<1> QED BY <1>3, <1>4

\* A terminator ahead is the first byte that is unread.
LEMMA NullIsHead ==
  ASSUME Asgn2Inv, QuietInv, NullAhead, HeadPlace = page_queue.head_offset
  PROVE  Unread # <<>> /\ Head(Unread) = 0 /\ Len(UnreadPages) > 0 /\ UnreadPages[1] = 0
<1>1. /\ HeadPlace \in Offsets /\ HeadPlace < TailPlace /\ mem_list[1][HeadPlace] = 0
      /\ HeadPlace \in Nat /\ TailPlace \in Nat
  BY QuietAtRest DEF NullAhead
<1>2. 1 \in 1..(TailPlace - HeadPlace) /\ HeadPlace + 1 - 1 = HeadPlace
  BY <1>1
<1>3. Len(UnreadPages) > 0 /\ UnreadPages[1] = 0
  <2>1. UnreadPages[1] = ByteIn(mem_list, HeadPlace)
    BY <1>2, UnreadType
  <2>2. Len(UnreadPages) = TailPlace - HeadPlace
    BY UnreadType
  <2> QED BY <1>1, <1>2, <2>1, <2>2, UnreadFirstPage
<1>4. Len(Unread) > 0 /\ Unread[1] = 0
  BY <1>3, UnreadType DEF Unread
<1> QED BY <1>3, <1>4, UnreadType

\* A read says that the session ends only where the next byte is a terminator
\* (lines 290-295, 311 and 389).
THEOREM QuietEof == QuietDriver /\ Spec => EofAtTerminator
<1>1. ASSUME QuietDriver, Asgn2Inv, QuietInv, Next, rd'.eof, ~rd.eof
      PROVE  Unread # <<>> /\ Head(Unread) = 0
  <2>1. ReaderFields
    BY <1>1, QuietAtRest
  <2>2. ASSUME NullAhead, rd.pc # "free" PROVE Unread # <<>> /\ Head(Unread) = 0
    <3>1. HeadPlace = page_queue.head_offset
      BY <1>1, <2>2, QuietAtRest
    <3> QED BY <1>1, <2>2, <3>1, NullIsHead
  <2>3. rd' # rd
    BY <1>1
  <2>4. CASE BottomHalf
    <3>1. rd' = rd \/ (\E g \in Garbage : BhCopy(g))
      BY <2>4 DEF BottomHalf, BhEnter, BhCount, BhAllocFail
    <3>2. rd' = [rd EXCEPT !.pc = "wait"]
      BY <2>3, <3>1 DEF BhCopy, WakeReader
    <3> QED BY <1>1, <2>1, <3>2 DEF ReaderFields
  <2>5. ASSUME NEW n \in ReadSizes, ReadCall(n)
        PROVE  Unread # <<>> /\ Head(Unread) = 0
    <3>1. rd.pc = "idle"
      BY <2>5 DEF ReadCall, CallsRead
    <3>2. CASE ReadPastNull
      BY <1>1, <2>2, <2>5, <3>1, <3>2, QuietReadPastNull
    <3>3. CASE ReadTestEmpty(n)
      BY <1>1, <2>1, <3>3 DEF ReadTestEmpty, Reading, ReaderFields
    <3> QED BY <2>5, <3>2, <3>3 DEF ReadCall
  <2>6. CASE StoreSize
    BY <1>1, <2>2, <2>6, QuietStoreSize DEF StoreSize
  <2>7. CASE ReadBegin
    <3>1. rd.pc = "wait"
      BY <1>1, <2>7 DEF ReadBegin, QuietDriver
    <3>2. null_flag = 0
      BY <1>1, <3>1 DEF QuietInv, SessionOK, Before
    <3>3. rd' = [rd EXCEPT !.pc = "page", !.actual = ActualSize]
      BY <2>7, <3>2 DEF ReadBegin
    <3> QED BY <1>1, <2>1, <3>3 DEF ReaderFields
  <2>8. CASE ReadSetWait \/ ReadSleep \/ ReadPage \/ ReadNoPage \/ LoadNum \/ ReadHead
             \/ StoreTail \/ LoadSize
    <3>1. rd'.eof = rd.eof
      BY <2>1, <2>8 DEF ReaderFields, ReadSetWait, ReadSleep, ReadPage, ReadNoPage, LoadNum,
         Load, ReadHead, StoreTail, LoadSize
    <3> QED BY <1>1, <3>1
  <2>9. CASE ReadNextPage \/ StoreNum
    <3>1. rd'.eof = rd.eof
      BY <2>1, <2>9 DEF ReaderFields, ReadNextPage, FreePage, KeepPage, StoreNum, AfterPage
    <3> QED BY <1>1, <3>1
  <2>10. CASE Open \/ Close
    BY <1>1, <2>10, QuietOpenClose
  <2>11. CASE PortLow \/ \E b \in Bytes : PortHigh(b)
    BY <2>3, <2>11 DEF PortLow, PortHigh
  <2> QED BY <1>1, <2>4, <2>5, <2>6, <2>7, <2>8, <2>9, <2>10, <2>11 DEF Next, Read
<1>2. QuietDriver /\ Asgn2Inv /\ QuietInv /\ [Next]_vars
        => [rd'.eof /\ ~rd.eof => Unread # <<>> /\ Head(Unread) = 0]_vars
  BY <1>1
<1> QED BY <1>2, QuietInvariant, PTL DEF Spec, EofAtTerminator

(***************************************************************************)
(* The quiet driver is a pipe.                                             *)
(***************************************************************************)

\* When the ring holds nothing, what is unread is in the pages.
LEMMA NothingStored ==
  ASSUME Asgn2Inv, QuietInv, Stored = 0
  PROVE  RingContent = <<>> /\ Unread = UnreadPages
<1>1. RingContent \in Seq(Int) /\ Len(RingContent) = 0 /\ UnreadPages \in Seq(Int)
  BY UnreadType
<1>2. RingContent = <<>>
  BY <1>1
<1> QED BY <1>1, <1>2 DEF Unread

\* Nothing is in the ring when the process is at one of its steps.
LEMMA NothingStoredInTurn ==
  ASSUME QuietDriver, QuietInv, ReaderTurn PROVE Stored = 0
BY DEF QuietDriver, QuietInv, PortOK, ReaderTurn

LEMMA RingSame == ASSUME UNCHANGED ringVars PROVE RingContent' = RingContent
BY DEF RingContent, ringVars

LEMMA PagesSame ==
  ASSUME TailPlace' = TailPlace, HeadPlace' = HeadPlace, mem_list' = mem_list
  PROVE  UnreadPages' = UnreadPages
BY UnreadPagesAre

\* Steps of the process that move no byte.
LEMMA PipeStutter ==
  ASSUME TailPlace' = TailPlace, HeadPlace' = HeadPlace,
         UNCHANGED <<topVars, mem_list>>
  PROVE  Unread' = Unread
<1>1. UNCHANGED ringVars /\ mem_list' = mem_list
  BY DEF topVars, ringVars
<1> QED BY <1>1, RingSame, PagesSame DEF Unread

\* The byte appended to the second of two sequences is the last of both.
LEMMA AppendLast ==
  ASSUME NEW S, NEW s \in Seq(S), NEW u \in Seq(S), NEW b \in S
  PROVE  s \o Append(u, b) = Append(s \o u, b)
<1> DEFINE x == s \o Append(u, b)
           y == Append(s \o u, b)
<1>1. /\ x \in Seq(S) /\ Len(x) = Len(s) + Len(u) + 1
      /\ \A k \in 1..(Len(s) + Len(u) + 1) :
           x[k] = IF k <= Len(s) THEN s[k] ELSE Append(u, b)[k - Len(s)]
  OBVIOUS
<1>2. /\ y \in Seq(S) /\ Len(y) = Len(s) + Len(u) + 1
      /\ \A k \in 1..(Len(s) + Len(u) + 1) :
           y[k] = IF k <= Len(s) + Len(u) THEN (s \o u)[k] ELSE b
  OBVIOUS
<1> HIDE DEF x, y
<1>3. ASSUME NEW k \in 1..Len(x) PROVE x[k] = y[k]
  <2>1. CASE k <= Len(s)
    BY <1>1, <1>2, <2>1
  <2>2. CASE k > Len(s) /\ k <= Len(s) + Len(u)
    BY <1>1, <1>2, <2>2
  <2>3. CASE k = Len(s) + Len(u) + 1
    BY <1>1, <1>2, <2>3
  <2>4. k \in 1..(Len(s) + Len(u) + 1) /\ Len(s) \in Nat /\ Len(u) \in Nat
    BY <1>1
  <2>5. k <= Len(s) \/ (k > Len(s) /\ k <= Len(s) + Len(u)) \/ k = Len(s) + Len(u) + 1
    BY <2>4
  <2> QED BY <2>1, <2>2, <2>3, <2>5
<1>4. x = y
  BY <1>1, <1>2, <1>3, SameSequence
<1> QED BY <1>4 DEF x, y

\* The port puts a byte into the pipe.
LEMMA PipePortLow ==
  ASSUME QuietDriver, Asgn2Inv, QuietInv, Asgn2Inv', PortLow
  PROVE  \E b \in Bytes : Pipe!Accept(b)
<1>1. /\ rd.pc \in {"idle", "asleep"} /\ bh.pc = "idle" /\ ~scheduled
      /\ UNCHANGED <<page_queue, mem_list, rd, ubuf>>
  BY DEF PortLow, PortFree, QuietDriver, queueVars
<1>2. /\ sending \in Bytes /\ sending' = Idle /\ UNCHANGED head
      /\ Store(sending) \/ StoreSpare(sending) \/ Drop(sending)
  BY LowStep DEF PortLow, Asgn2Inv
<1>3. sending \in 0..255
  BY <1>2, BytesAssumption
<1>4. TopTypeOK /\ TopTypeOK'
  BY DEF Asgn2Inv, TopInv
<1>5. Stored = 0
  BY <1>1, <1>2, <1>3 DEF QuietInv, PortOK
<1>6. Store(sending)
  <2>1. Stored # BUF_SIZE - 1
    BY <1>5, BufSizeAssumption
  <2> QED BY <1>2, <1>4, <2>1, FullWhenOneLeft DEF Stored, StoreSpare, Drop, TopTypeOK
<1>7. RingContent' = Append(RingContent, sending)
  BY <1>2, <1>3, <1>4, <1>6, StoreIsPut
<1>8. UnreadPages' = UnreadPages
  <2>1. TailPlace' = TailPlace /\ HeadPlace' = HeadPlace
    BY <1>1 DEF TailPlace, HeadPlace, TailStale, Looping
  <2> QED BY <1>1, <2>1, PagesSame
<1>9. Unread' = Append(Unread, sending)
  <2>1. sending \in Int
    BY <1>3
  <2>2. UnreadPages \o Append(RingContent, sending) = Append(UnreadPages \o RingContent, sending)
    BY <2>1, UnreadType, AppendLast
  <2> QED BY <1>7, <1>8, <2>2 DEF Unread
<1>10. Pipe!Accept(sending)
  BY <1>1, <1>9 DEF Pipe!Accept
<1> QED BY <1>2, <1>10

\* The tasklet moves the byte from the ring to the pages, and the pipe holds the
\* same as before.
LEMMA PipeBhCopy ==
  ASSUME QuietDriver, Asgn2Inv, QuietInv, Asgn2Inv', QuietInv', NEW g \in Garbage, BhCopy(g)
  PROVE  Unread' = Unread /\ ubuf' = ubuf
<1>1. bh.pc = "copy" /\ ubuf' = ubuf
  BY DEF BhCopy
<1>2. CopiesByte(g) /\ TailPlace' = TailPlace + 1 /\ HeadPlace' = HeadPlace
  BY QuietBhCopyFacts, QuietBhCopyMoves
<1>3. /\ Stored = 1 /\ TailIndex \in Nat /\ page_queue.tail_offset \in Offsets
      /\ TailPlace = TailIndex * PAGE_SIZE + page_queue.tail_offset
  BY <1>1, QuietAtCopy
<1>4. /\ TailPlace \in Nat /\ HeadPlace \in Nat /\ HeadPlace <= TailPlace
      /\ mem_list \in Seq(Page) /\ mem_list' \in Seq(Page)
      /\ Len(mem_list) \in Nat
  BY QuietAtRest DEF Asgn2Inv, QueueOK
<1>5. Len(mem_list') = TailIndex + 1
  BY <1>2 DEF CopiesByte
<1>6. ByteIn(mem_list', TailPlace) = buf[head]
  <2>1. ByteIn(mem_list', TailIndex * PAGE_SIZE + page_queue.tail_offset)
          = mem_list'[TailIndex + 1][page_queue.tail_offset]
    <3>1. Len(mem_list') \in Nat /\ TailIndex < Len(mem_list')
      BY <1>3, <1>5
    <3> QED BY <1>3, <3>1, ByteInPage
  <2>2. TailIndex + 1 \in 1..(TailIndex + 1) /\ (TailIndex + 1) - 1 = TailIndex
    BY <1>3
  <2>3. mem_list'[TailIndex + 1][page_queue.tail_offset] = buf[head]
    BY <1>2, <1>3, <2>2 DEF CopiesByte
  <2> QED BY <1>3, <2>1, <2>3
<1>7. ASSUME NEW p \in HeadPlace..(TailPlace - 1)
      PROVE  ByteIn(mem_list', p) = ByteIn(mem_list, p)
  <2> DEFINE q == p \div PAGE_SIZE
             o == p % PAGE_SIZE
             x == q * PAGE_SIZE
             y == TailIndex * PAGE_SIZE
  <2>1. p \in Nat /\ p < TailPlace
    BY <1>4
  <2>2. q \in Nat /\ o \in Offsets /\ p = x + o
    BY <2>1, PlaceParts
  <2>3. q + 1 \in 1..(TailIndex + 1)
    <3>1. ASSUME q > TailIndex PROVE FALSE
      <4>1. (TailIndex + 1) * PAGE_SIZE = y + PAGE_SIZE /\ y \in Nat
        BY <1>3, SizesPositive
      <4>2. (TailIndex + 1) * PAGE_SIZE <= x
        <5> HIDE DEF q
        <5>1. PICK d \in Nat : q = TailIndex + 1 + d
          <6>1. q - (TailIndex + 1) \in Nat /\ q = TailIndex + 1 + (q - (TailIndex + 1))
            BY <1>3, <2>2, <3>1
          <6> QED BY <6>1
        <5>2. x = (TailIndex + 1) * PAGE_SIZE + d * PAGE_SIZE /\ d * PAGE_SIZE \in Nat
          BY <1>3, <5>1, SizesPositive
        <5>3. (TailIndex + 1) * PAGE_SIZE \in Nat
          BY <1>3, SizesPositive
        <5> QED BY <5>2, <5>3
      <4> HIDE DEF x, y
      <4>3. TailPlace < y + PAGE_SIZE
        BY <1>3, <4>1, SizesPositive DEF Offsets, y
      <4>4. o \in Nat
        BY <2>2, SizesPositive DEF Offsets
      <4>5. y + PAGE_SIZE <= x
        BY <4>1, <4>2
      <4>6. x \in Nat
        BY <2>2, SizesPositive DEF x
      <4> QED BY <1>4, <2>1, <2>2, <4>1, <4>3, <4>4, <4>5, <4>6, SizesPositive
    <3> QED BY <1>3, <2>2, <3>1
  <2> HIDE DEF q, o
  <2>4. q + 1 - 1 = q /\ (q + 1 - 1) * PAGE_SIZE + o = p
    BY <2>2
  <2>5. q + 1 \in 1..Len(mem_list) /\ mem_list'[q + 1][o] = mem_list[q + 1][o]
    BY <1>1, <1>2, <2>1, <2>2, <2>3, <2>4, QuietOldBytes
  <2>6. ByteIn(mem_list, x + o) = mem_list[q + 1][o]
    <3>1. q < Len(mem_list)
      BY <1>4, <2>2, <2>5
    <3> QED BY <1>4, <2>2, <3>1, ByteInPage
  <2>7. ByteIn(mem_list', x + o) = mem_list'[q + 1][o]
    <3>1. q < Len(mem_list') /\ Len(mem_list') \in Nat
      BY <1>3, <1>5, <2>2, <2>3
    <3> QED BY <2>2, <3>1, ByteInPage
  <2> QED BY <2>2, <2>5, <2>6, <2>7
<1>8. UnreadPages' = Append(UnreadPages, buf[head])
  <2>1. BytesIn(mem_list', HeadPlace, TailPlace + 1)
          = Append(BytesIn(mem_list, HeadPlace, TailPlace), ByteIn(mem_list', TailPlace))
    BY <1>4, <1>7, BytesInAdd
  <2> QED BY <1>2, <1>6, <2>1, UnreadPagesAre
<1>9. RingContent = <<buf[head]>>
  <2>1. RingContent \in Seq(Int) /\ Len(RingContent) = 1
    BY <1>3, UnreadType
  <2>2. RingContent[1] = buf[head]
    <3>1. (head + 1 - 1) % BUF_SIZE = head
      <4>1. head \in 0..(BUF_SIZE - 1)
        BY DEF Asgn2Inv, TopInv, TopTypeOK, Slots
      <4>2. head + 1 - 1 = head /\ head % BUF_SIZE = head
        BY <4>1, BufSizeAssumption
      <4> QED BY <4>2
    <3>2. 1 \in 1..CIRC_CNT(tail, head, BUF_SIZE)
      BY <1>3 DEF Stored
    <3> QED BY <3>1, <3>2 DEF RingContent
  <2> QED BY <2>1, <2>2
<1>10. RingContent' = <<>>
  <2>1. CIRC_CNT(tail', head', BUF_SIZE) = 0
    BY <1>2 DEF CopiesByte, Stored
  <2> QED BY <2>1 DEF RingContent
<1>11. Append(UnreadPages, buf[head]) \o <<>> = UnreadPages \o <<buf[head]>>
  <2>1. buf[head] \in Int
    <3>1. buf[head] \in 0..255
      BY DEF Asgn2Inv, TopInv, TopTypeOK
    <3> QED BY <3>1
  <2>2. UnreadPages \in Seq(Int)
    BY UnreadType
  <2> QED BY <2>1, <2>2
<1> QED BY <1>1, <1>8, <1>9, <1>10, <1>11 DEF Unread

\* The head passes n bytes of the pages, none of them a terminator.
LEMMA PipeReadPage ==
  ASSUME QuietDriver, Asgn2Inv, QuietInv, ReadPage
  PROVE  [Pipe!PipeNext]_<<Unread, ubuf>>
<1>1. PICK h, n : ReadsFirstPage(h, n)
  BY QuietReadPageFacts
<1>2. /\ h \in Offsets /\ h = HeadPlace /\ n \in Nat /\ h + n <= TailPlace /\ h + n <= PAGE_SIZE
      /\ \A j \in 0..(n - 1) : mem_list[1][h + j] # 0
      /\ ubuf' = ubuf \o [k \in 1..n |-> mem_list[1][h + k - 1]]
  BY <1>1 DEF ReadsFirstPage
<1>3. TailPlace' = TailPlace /\ HeadPlace' = h + n
  BY <1>1, <1>2, QuietReadPage
<1>4. /\ ReaderTurn /\ UNCHANGED ringVars /\ mem_list' = mem_list
  BY DEF ReadPage, topVars, ringVars
<1>5. RingContent' = <<>> /\ RingContent = <<>> /\ Unread = UnreadPages
  BY <1>4, NothingStored, NothingStoredInTurn, RingSame
<1>6. /\ h \in Nat /\ TailPlace \in Nat /\ h <= TailPlace /\ mem_list \in Seq(Page)
  BY <1>2, SizesPositive, QuietAtRest DEF Asgn2Inv, QueueOK, Offsets
<1>7. n \in 0..(TailPlace - h)
  BY <1>2, <1>6
<1>8. /\ Unread \in Seq(Int) /\ Len(Unread) = TailPlace - h
      /\ \A k \in 1..(TailPlace - h) : Unread[k] = ByteIn(mem_list, h + k - 1)
  BY <1>2, <1>5, UnreadType
<1>9. Unread' = SubSeq(Unread, n + 1, Len(Unread))
  <2>1. UnreadPages' = BytesIn(mem_list, h + n, TailPlace)
    BY <1>3, <1>4, UnreadPagesAre
  <2>2. UnreadPages = BytesIn(mem_list, h, TailPlace)
    BY <1>2, UnreadPagesAre
  <2>3. UnreadPages' = SubSeq(UnreadPages, n + 1, TailPlace - h)
    BY <1>6, <1>7, <2>1, <2>2, BytesInPass
  <2>4. UnreadPages' \in Seq(Int)
    BY <1>5, <1>7, <1>8, <2>3
  <2>5. Unread' = UnreadPages'
    BY <1>5, <2>4 DEF Unread
  <2> QED BY <1>5, <1>8, <2>3, <2>5
<1>10. ASSUME NEW k \in 1..n
       PROVE  Unread[k] = mem_list[1][h + k - 1] /\ Unread[k] # 0
  <2>1. /\ k - 1 \in 0..(n - 1) /\ h + k - 1 = h + (k - 1) /\ k \in 1..(TailPlace - h)
        /\ h + k - 1 \in Nat /\ h + k - 1 < PAGE_SIZE /\ h + k - 1 < TailPlace
    BY <1>2, <1>6, <1>7, SizesPositive
  <2>2. h + k - 1 \in Offsets
    BY <2>1, SizesPositive DEF Offsets
  <2>3. ByteIn(mem_list, h + k - 1) = mem_list[1][h + k - 1]
    BY <2>1, <2>2, UnreadFirstPage
  <2> QED BY <1>2, <1>8, <2>1, <2>3
<1>11. [k \in 1..n |-> mem_list[1][h + k - 1]] = SubSeq(Unread, 1, n)
  <2>1. [k \in 1..n |-> mem_list[1][h + k - 1]] = [k \in 1..n |-> Unread[k]]
    BY <1>10
  <2>2. [k \in 1..n |-> Unread[k]] = SubSeq(Unread, 1, n)
    BY <1>2, <1>7, <1>8
  <2> QED BY <2>1, <2>2
<1>12. Pipe!Deliver(n)
  BY <1>2, <1>9, <1>10, <1>11 DEF Pipe!Deliver
<1>13. CASE n = 0
  <2>1. Unread' = Unread
    BY <1>8, <1>9, <1>13
  <2>2. ubuf' = ubuf
    <3>1. [k \in 1..n |-> mem_list[1][h + k - 1]] = <<>>
      BY <1>13
    <3>2. ubuf \in Seq(0..255)
      BY DEF Asgn2Inv, UserOK
    <3>3. ubuf \o <<>> = ubuf
      BY <3>2
    <3> QED BY <1>2, <3>1, <3>3, Zenon
  <2> QED BY <2>1, <2>2
<1>14. CASE n # 0
  <2>1. n \in 1..Len(Unread)
    BY <1>2, <1>7, <1>8, <1>14
  <2> QED BY <1>12, <2>1 DEF Pipe!PipeNext
<1> QED BY <1>13, <1>14

\* A read passes the terminator an earlier one stopped at, and returns 0.
LEMMA PipeReadPastNull ==
  ASSUME QuietDriver, Asgn2Inv, QuietInv, NEW n \in ReadSizes, ReadCall(n), ReadPastNull
  PROVE  Pipe!EndSession
<1>1. /\ ReaderTurn /\ rd.pc = "idle" /\ ubuf' = <<>> /\ UNCHANGED ringVars
      /\ mem_list' = mem_list
  BY DEF ReadCall, CallsRead, topVars, ringVars
<1>2. NullAhead /\ TailPlace' = TailPlace /\ HeadPlace' = HeadPlace + 1
  BY QuietReadPastNull
<1>3. RingContent' = <<>> /\ RingContent = <<>> /\ Unread = UnreadPages
  BY <1>1, NothingStored, NothingStoredInTurn, RingSame
<1>4. HeadPlace = page_queue.head_offset
  BY <1>1, QuietAtRest
<1>5. Unread # <<>> /\ Head(Unread) = 0
  BY <1>2, <1>4, NullIsHead
<1>6. /\ HeadPlace \in Nat /\ TailPlace \in Nat /\ HeadPlace < TailPlace
      /\ mem_list \in Seq(Page)
  BY <1>2, <1>4, QuietAtRest DEF Asgn2Inv, QueueOK, NullAhead
<1>7. UnreadPages \in Seq(Int) /\ Len(UnreadPages) = TailPlace - HeadPlace
  BY UnreadType
<1>8. UnreadPages' = SubSeq(UnreadPages, 1 + 1, TailPlace - HeadPlace)
  <2>1. 1 \in 0..(TailPlace - HeadPlace) /\ HeadPlace <= TailPlace
    BY <1>6
  <2>2. BytesIn(mem_list, HeadPlace + 1, TailPlace)
          = SubSeq(BytesIn(mem_list, HeadPlace, TailPlace), 1 + 1, TailPlace - HeadPlace)
    BY <1>6, <2>1, BytesInPass
  <2> QED BY <1>1, <1>2, <2>2, UnreadPagesAre
<1>9. Unread' = Tail(Unread)
  <2>1. SubSeq(UnreadPages, 1 + 1, TailPlace - HeadPlace) = Tail(UnreadPages)
    BY <1>6, <1>7
  <2>2. UnreadPages' \in Seq(Int)
    BY <1>6, <1>7, <1>8
  <2> QED BY <1>3, <1>8, <2>1, <2>2 DEF Unread
<1> QED BY <1>1, <1>5, <1>9 DEF Pipe!EndSession

\* A page read to its end is taken from the list.
LEMMA PipeFreePage ==
  ASSUME QuietDriver, Asgn2Inv, QuietInv, Asgn2Inv', ReadNextPage, FreePage
  PROVE  Unread' = Unread /\ ubuf' = ubuf
<1>1. UNCHANGED ringVars /\ ubuf' = ubuf
  BY DEF ReadNextPage, topVars, ringVars
<1>2. /\ TailPlace' = TailPlace - PAGE_SIZE /\ TailPlace' \in Nat
      /\ HeadPlace = PAGE_SIZE /\ HeadPlace' = 0
      /\ Len(mem_list') = Len(mem_list) - 1
      /\ \A i \in 1..(Len(mem_list) - 1) : mem_list'[i] = mem_list[i + 1]
  BY QuietFreePageMoves
<1>3. /\ mem_list \in Seq(Page) /\ mem_list' \in Seq(Page) /\ Len(mem_list) \in Nat
      /\ Len(mem_list') \in Nat /\ TailPlace \in Nat
  BY QuietAtRest DEF Asgn2Inv, QueueOK
<1>4. Len(mem_list) > 0 /\ TailPlace = TailPlace' + PAGE_SIZE
  BY <1>2, <1>3, SizesPositive
<1>5. BytesIn(mem_list', 0, TailPlace') = BytesIn(mem_list, PAGE_SIZE, TailPlace' + PAGE_SIZE)
  BY <1>2, <1>3, <1>4, BytesInShift
<1>6. UnreadPages' = UnreadPages
  BY <1>2, <1>4, <1>5, UnreadPagesAre
<1> QED BY <1>1, <1>6, RingSame DEF Unread

\* Every step of the quiet driver is a step of the pipe, or leaves it alone.
LEMMA PipeStep ==
  ASSUME QuietDriver, Asgn2Inv, QuietInv, Asgn2Inv', QuietInv', [Next]_vars
  PROVE  [Pipe!PipeNext]_<<Unread, ubuf>>
<1>1. ASSUME NEW b \in Bytes, PortHigh(b) PROVE UNCHANGED <<Unread, ubuf>>
  <2>1. UNCHANGED <<page_queue, mem_list, rd, ubuf>>
    BY <1>1 DEF PortHigh, queueVars
  <2>2. TailPlace' = TailPlace /\ HeadPlace' = HeadPlace
    BY <2>1 DEF TailPlace, HeadPlace, TailStale, Looping
  <2>3. UNCHANGED ringVars
    BY <1>1, HighStep DEF PortHigh, Asgn2Inv, ringVars
  <2> QED BY <2>1, <2>2, <2>3, RingSame, PagesSame DEF Unread
<1>2. CASE PortLow
  BY <1>2, PipePortLow DEF Pipe!PipeNext
<1>3. CASE BhEnter \/ BhCount
  <2>1. UNCHANGED <<page_queue, mem_list, rd, ubuf>> /\ UNCHANGED ringVars
    BY <1>3 DEF BhEnter, BhCount, Dispatch, queueVars, topVars, ringVars
  <2>2. TailPlace' = TailPlace /\ HeadPlace' = HeadPlace
    BY <2>1 DEF TailPlace, HeadPlace, TailStale, Looping
  <2> QED BY <2>1, <2>2, RingSame, PagesSame DEF Unread
<1>4. CASE BottomHalf
  BY <1>3, <1>4, PipeBhCopy, QuietNoAllocFail DEF BottomHalf
<1>5. ASSUME NEW n \in ReadSizes, ReadCall(n) PROVE [Pipe!PipeNext]_<<Unread, ubuf>>
  <2>1. CASE ReadPastNull
    BY <1>5, <2>1, PipeReadPastNull DEF Pipe!PipeNext
  <2>2. CASE ReadTestEmpty(n)
    <3>1. TailPlace' = TailPlace /\ HeadPlace' = HeadPlace
      BY <1>5, <2>2, QuietReadTestEmpty
    <3>2. UNCHANGED <<topVars, mem_list>> /\ ubuf' = <<>>
      BY <1>5 DEF ReadCall, CallsRead
    <3>3. Pipe!NewRead
      BY <3>1, <3>2, PipeStutter DEF Pipe!NewRead
    <3> QED BY <3>3 DEF Pipe!PipeNext
  <2> QED BY <1>5, <2>1, <2>2 DEF ReadCall
<1>6. CASE \/ ReadSetWait \/ ReadSleep \/ ReadBegin \/ LoadNum \/ StoreNum \/ ReadHead
           \/ StoreTail \/ LoadSize \/ StoreSize
  <2>1. TailPlace' = TailPlace /\ HeadPlace' = HeadPlace
    BY <1>6, QuietReadSetWait, QuietReadSleep, QuietReadBegin, QuietLoadNum, QuietStoreNum,
       QuietReadHead, QuietStoreTail, QuietLoadSize, QuietStoreSize
  <2>2. UNCHANGED <<topVars, mem_list>> /\ ubuf' = ubuf
    BY <1>6 DEF ReadSetWait, ReadSleep, ReadBegin, LoadNum, Load, StoreNum, ReadHead, StoreTail,
       LoadSize, StoreSize, queueVars
  <2> QED BY <2>1, <2>2, PipeStutter
<1>7. CASE ReadNextPage
  <2>1. CASE FreePage
    BY <1>7, <2>1, PipeFreePage
  <2>2. CASE KeepPage
    <3>1. TailPlace' = TailPlace /\ HeadPlace' = HeadPlace
      BY <1>7, <2>2, QuietKeepPage
    <3>2. UNCHANGED <<topVars, mem_list>> /\ ubuf' = ubuf
      BY <1>7, <2>2 DEF ReadNextPage, KeepPage
    <3> QED BY <3>1, <3>2, PipeStutter
  <2> QED BY <1>7, <2>1, <2>2 DEF ReadNextPage
<1>8. CASE Read
  BY <1>5, <1>6, <1>7, <1>8, PipeReadPage, QuietNoReadNoPage DEF Read
<1>9. CASE Open \/ Close
  <2>1. TailPlace' = TailPlace /\ HeadPlace' = HeadPlace
    BY <1>9, QuietOpenClose
  <2>2. UNCHANGED <<topVars, mem_list>> /\ ubuf' = ubuf
    BY <1>9 DEF Open, Close, queueVars
  <2> QED BY <2>1, <2>2, PipeStutter
<1>10. CASE UNCHANGED vars
  <2>1. UNCHANGED <<page_queue, mem_list, rd, ubuf>> /\ UNCHANGED ringVars
    BY <1>10 DEF vars, queueVars, topVars, ringVars
  <2>2. TailPlace' = TailPlace /\ HeadPlace' = HeadPlace
    BY <2>1 DEF TailPlace, HeadPlace, TailStale, Looping
  <2> QED BY <2>1, <2>2, RingSame, PagesSame DEF Unread
<1> QED BY <1>1, <1>2, <1>4, <1>8, <1>9, <1>10 DEF Next

\* The quiet driver is the pipe of BytePipe: every byte that the port stores is
\* handed over once and in order, over page ends and the freeing of pages, and
\* sessions end at their terminators (lines 195-267 and 273-390).
THEOREM QuietPipe == QuietDriver /\ Spec => ReadsPipe
<1>1. QuietDriver /\ Init => Pipe!PipeInit
  <2> SUFFICES ASSUME QuietDriver, Init PROVE Unread = <<>> /\ ubuf = <<>>
    BY DEF Pipe!PipeInit
  <2>1. Asgn2Inv /\ QuietInv
    BY Asgn2InvInit, QuietInvInit
  <2>2. ubuf = <<>> /\ head = tail /\ rd.pc = "idle" /\ page_queue.tail_index = 0
        /\ page_queue.tail_offset = 0 /\ page_queue.head_offset = 0
    BY DEF Init, TopInit
  <2>3. Stored = 0
    BY <2>2, BufSizeAssumption, CountBetween DEF Init, TopInit, Stored, Slots
  <2>4. UnreadPages = <<>>
    <3>1. TailPlace - HeadPlace = 0
      BY <2>2, SizesPositive DEF TailPlace, HeadPlace, TailStale, Looping
    <3> QED BY <3>1 DEF UnreadPages
  <2> QED BY <2>1, <2>2, <2>3, <2>4, NothingStored
<1>2. /\ QuietDriver /\ Asgn2Inv /\ QuietInv
      /\ (QuietDriver /\ Asgn2Inv /\ QuietInv)'
      /\ [Next]_vars
      => [Pipe!PipeNext]_<<Unread, ubuf>>
  BY PipeStep
<1>3. QuietDriver /\ Spec => QuietDriver /\ Init /\ [][Next]_vars
  BY DEF Spec
<1> QED BY <1>1, <1>2, <1>3, QuietInvariant, PTL DEF ReadsPipe, Pipe!PipeSpec
=============================================================================
