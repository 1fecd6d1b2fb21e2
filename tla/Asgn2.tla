-------------------------------- MODULE Asgn2 --------------------------------
(***************************************************************************)
(* The asgn2 driver as a whole: the interrupt handler (TopHalf), the       *)
(* tasklet bottom_half that moves bytes from the circular buffer to the    *)
(* page queue, and one process that opens the device (Admission), reads    *)
(* it and closes it.                                                       *)
(*                                                                         *)
(* One core: an interrupt may come between any two steps, the tasklet runs *)
(* to its end before the process goes on, and each step of the process is  *)
(* the code between two places where an interrupt makes a difference.      *)
(***************************************************************************)
EXTENDS TopHalf, Admission, SequencesExt

CONSTANTS
  PAGE_SIZE,    \* bytes of a page (4096 in the code)
  SIZE_RANGE,   \* size_t is a number modulo SIZE_RANGE
  ReadSizes,    \* the counts a read is called with
  AllocFails,   \* may kmalloc or alloc_page fail?
  Garbage,      \* what memory holds that was never written
  CatReader,    \* does the process read until it gets 0, and then close?
  Overlap,      \* what the port may interrupt, see PortFree
  NullSlots,    \* where in a page terminators may fall
  MaxBytes,     \* bound of the model: bytes sent by the port
  MaxPages      \* bound of the model: pages the machine has

ASSUME OneReader == Cardinality(Procs) = 1
\* A batch of the tasklet touches two pages at most.
ASSUME PageAssumption == PAGE_SIZE \in Nat /\ PAGE_SIZE >= BUF_SIZE
ASSUME OverlapAssumption == Overlap \subseteq {"burst", "tasklet", "reader"}
ASSUME SizeRangeAssumption == SIZE_RANGE \in Nat \ {0}
ASSUME ReadSizesAssumption == ReadSizes \subseteq 0..(SIZE_RANGE - 1)
ASSUME GarbageAssumption == Garbage \subseteq 0..255
ASSUME MaxPagesAssumption == MaxPages \in Nat

VARIABLES
  page_queue,   \* head_index, tail_index, head_offset, tail_offset
  mem_list,     \* the pages, first to last
  num_pages, data_size, null_location, wait_flag,
  bh,           \* bottom_half: where it is, and its local count
  rd,           \* asgn2_read: where it is, and its local variables
  ubuf,         \* what the current or last read has copied to the user
  sent          \* ghost: how many bytes the port has started to send

queueVars == <<page_queue, mem_list, num_pages, data_size>>
vars == <<topVars, admVars, queueVars, null_location, wait_flag, bh, rd, ubuf, sent>>

Offsets == 0..(PAGE_SIZE - 1)
reader == CHOOSE p \in Procs : TRUE
Lesser(x, y) == IF x <= y THEN x ELSE y
Greater(x, y) == IF x <= y THEN y ELSE x

-----------------------------------------------------------------------------
(* The port, as far as the run lets it interrupt the others: "burst" lets  *)
(* bytes come while the tasklet waits for its turn, "tasklet" while it      *)
(* runs, "reader" between the steps of a read.                             *)

\* The place in its page where the next byte sent will end up.
NextSlot ==
  (page_queue.tail_offset + CIRC_CNT(tail, head, BUF_SIZE)) % PAGE_SIZE

PortFree ==
  /\ \/ "tasklet" \in Overlap
     \/ bh.pc = "idle" /\ (~scheduled \/ "burst" \in Overlap)
  /\ "reader" \in Overlap \/ rd.pc \in {"idle", "asleep"}

PortHigh(b) ==
  /\ PortFree
  /\ sent < MaxBytes
  /\ b = 0 => NextSlot \in NullSlots
  /\ SendHigh(b)
  /\ sent' = sent + 1
  /\ UNCHANGED <<admVars, queueVars, null_location, wait_flag, bh, rd, ubuf>>

PortLow ==
  /\ PortFree
  /\ SendLow
  /\ UNCHANGED <<admVars, queueVars, null_location, wait_flag, bh, rd, ubuf, sent>>

-----------------------------------------------------------------------------
(* bottom_half                                                             *)

BhEnter ==
  /\ bh.pc = "idle"
  /\ Dispatch
  /\ bh' = [bh EXCEPT !.pc = "count"]
  /\ UNCHANGED <<ringVars, half_byte, sig_flag, sending, admVars, queueVars,
                 null_location, wait_flag, rd, ubuf, sent>>

BhCount ==
  /\ bh.pc = "count"
  /\ bh' = [pc |-> "copy", count |-> CIRC_CNT(tail, head, BUF_SIZE)]
  /\ UNCHANGED <<topVars, admVars, queueVars, null_location, wait_flag, rd, ubuf, sent>>

\* Faulty variant: the bytes about to be added are not counted.
NeededForOld ==
  Greater(0, ((data_size + PAGE_SIZE - 1) \div PAGE_SIZE) - num_pages)

\* How often the loop that allocates pages goes round.
PagesMissing ==
  LET size == (data_size + bh.count) % SIZE_RANGE
  IN  Greater(0, ((size + PAGE_SIZE - 1) \div PAGE_SIZE) - num_pages)

NewPages(n, g) == [i \in 1..n |-> [o \in Offsets |-> g]]

\* kmalloc or alloc_page fails after n pages: return at once.
BhAllocFail(n, g) ==
  /\ bh.pc = "copy"
  /\ n < PagesMissing
  /\ AllocFails \/ Len(mem_list) + PagesMissing > MaxPages
  /\ Len(mem_list) + n <= MaxPages
  /\ mem_list' = mem_list \o NewPages(n, g)
  /\ num_pages' = num_pages + n
  /\ bh' = [pc |-> "idle", count |-> 0]
  /\ UNCHANGED <<topVars, admVars, page_queue, data_size, null_location, wait_flag,
                 rd, ubuf, sent>>

\* Faulty variant: the wake-up is left out.
NoWake == rd

WakeReader == IF rd.pc = "asleep" THEN [rd EXCEPT !.pc = "wait"] ELSE rd

\* The k-th byte of a batch of n, cut in two at the end of a page: each part
\* is one memcpy, which does not wrap but reads on past the end of buf.
BatchByte(k, first, g) ==
  LET src == IF k < first THEN head + k
             ELSE ((head + first) % BUF_SIZE) + (k - first)
  IN  IF src < BUF_SIZE THEN buf[src] ELSE g

\* The loop over the pages starts at page tail_index, if there is one, and
\* stops when the batch or the list is at its end.
BhCopy(g) ==
  /\ bh.pc = "copy"
  /\ Len(mem_list) + PagesMissing <= MaxPages
  /\ LET pages == mem_list \o NewPages(PagesMissing, g)
         off   == page_queue.tail_offset
         start == Greater(0, page_queue.tail_index) * PAGE_SIZE + off
         n     == Lesser(bh.count, Greater(0, Len(pages) * PAGE_SIZE - start))
         first == Lesser(n, PAGE_SIZE - off)
         begin_offset == IF n = 0 THEN 0 ELSE (off + n) % PAGE_SIZE
     IN  /\ mem_list' =
              [i \in DOMAIN pages |-> [o \in Offsets |->
                 LET k == (i - 1) * PAGE_SIZE + o - start
                 IN  IF k \in 0..(n - 1) THEN BatchByte(k, first, g) ELSE pages[i][o]]]
         /\ num_pages' = num_pages + PagesMissing
         /\ data_size' = (data_size + n) % SIZE_RANGE
         /\ page_queue' = [page_queue EXCEPT
                             !.tail_index = IF begin_offset = 0 THEN @ + 1 ELSE @,
                             !.tail_offset = begin_offset]
         /\ Consume(n)
  /\ wait_flag' = 0
  /\ rd' = WakeReader
  /\ bh' = [pc |-> "idle", count |-> 0]
  /\ UNCHANGED <<buf, tail, half_byte, sig_flag, scheduled, sending, admVars,
                 null_location, ubuf, sent>>

BottomHalf == \/ BhEnter \/ BhCount
              \/ \E g \in Garbage : BhCopy(g) \/ \E n \in 0..MaxPages : BhAllocFail(n, g)

-----------------------------------------------------------------------------
(* asgn2_read.  The local variables live in rd: size is count, actual is   *)
(* actual_size, pos the number of pages passed and kept, more whether      *)
(* list_for_each_entry_safe found a next page before it ran the loop body, *)
(* freed as in the code.  curr_page_no and freed grow together from zero   *)
(* and begin_page_no, the head_index found, is zero: the test of           *)
(* curr_page_no >= begin_page_no always holds.                             *)
(*                                                                         *)
(* num_pages, tail_index and data_size are also changed by the tasklet,    *)
(* and with the locks commented out nothing keeps it from running between  *)
(* the load and the store of num_pages-- and the like: each is two steps,  *)
(* with the value loaded in rd.reg.                                        *)

Reading(n) == [rd EXCEPT !.size = n, !.actual = 0, !.pos = 0, !.more = FALSE,
                         !.freed = 0, !.eof = FALSE, !.reg = 0]

\* The process goes on only when no tasklet runs.
ReaderTurn ==
  /\ bh.pc = "idle"
  /\ "reader" \in Overlap \/ ~scheduled

\* Faulty variant: the pages are not compared.
SameOffsets == page_queue.head_offset = page_queue.tail_offset

QueueEmpty == /\ page_queue.head_index = page_queue.tail_index
              /\ page_queue.head_offset = page_queue.tail_offset

Return(got) == rd' = [rd EXCEPT !.pc = "idle", !.eof = (got = <<>>)]

\* Faulty variant: a process that has not opened the device may read it.
CallsReadUnopened(n) ==
  /\ ReaderTurn
  /\ rd.pc = "idle"
  /\ CatReader => ~rd.eof
  /\ n \in ReadSizes
  /\ ubuf' = <<>>

CallsRead(n) ==
  /\ ReaderTurn
  /\ fd[reader] = "open"
  /\ rd.pc = "idle"
  /\ CatReader => ~rd.eof
  /\ n \in ReadSizes
  /\ ubuf' = <<>>

\* Faulty variant: the mark is left behind when its terminator is passed.
ReadPastKeepMark ==
  /\ page_queue.head_offset = null_location
  /\ null_location' = null_location
  /\ page_queue' = [page_queue EXCEPT !.head_offset = @ + 1]
  /\ Return(<<>>)

\* The terminator an earlier read stopped at: pass it and return 0.
ReadPastNull ==
  /\ page_queue.head_offset = null_location
  /\ null_location' = -1
  /\ page_queue' = [page_queue EXCEPT !.head_offset = @ + 1]
  /\ Return(<<>>)

\* Else test for an empty queue; the flag is set in a step of its own.
ReadTestEmpty(n) ==
  /\ page_queue.head_offset # null_location
  /\ rd' = [Reading(n) EXCEPT !.pc = IF QueueEmpty THEN "set_wait" ELSE "wait"]
  /\ UNCHANGED <<page_queue, null_location>>

ReadCall(n) ==
  /\ CallsRead(n)
  /\ ReadPastNull \/ ReadTestEmpty(n)
  /\ UNCHANGED <<topVars, admVars, mem_list, num_pages, data_size, wait_flag, bh, sent>>

ReadSetWait ==
  /\ ReaderTurn
  /\ rd.pc = "set_wait"
  /\ wait_flag' = 1
  /\ rd' = [rd EXCEPT !.pc = "wait"]
  /\ UNCHANGED <<topVars, admVars, queueVars, null_location, bh, ubuf, sent>>

ReadSleep ==
  /\ ReaderTurn
  /\ rd.pc = "wait"
  /\ wait_flag = 1
  /\ rd' = [rd EXCEPT !.pc = "asleep"]
  /\ UNCHANGED <<topVars, admVars, queueVars, null_location, wait_flag, bh, ubuf, sent>>

\* Faulty variant: the data left is not compared with the count asked for.
AllUnread == (data_size - page_queue.head_offset) % SIZE_RANGE

\* size_t arithmetic: the difference wraps when head_offset is the larger.
ActualSize == Lesser(rd.size, (data_size - page_queue.head_offset) % SIZE_RANGE)

\* Awake: by the flag, or by a signal, whose report is ignored.
ReadBegin ==
  /\ ReaderTurn
  /\ \/ rd.pc = "wait" /\ wait_flag = 0
     \/ rd.pc = "asleep" /\ Signals
  /\ IF null_flag = 1 THEN Return(<<>>)
     ELSE rd' = [rd EXCEPT !.pc = "page", !.actual = ActualSize]
  /\ UNCHANGED <<topVars, admVars, queueVars, null_location, wait_flag, bh, ubuf, sent>>

\* Faulty variant: the scan stops one byte short of the limit.
ClearBytesShort(page, off, limit) ==
  {k \in 0..limit : \A j \in 0..Lesser(k - 1, limit - 2) : page[off + j] # 0}

\* How many bytes from off on can be copied: none is a terminator.
ClearBytes(page, off, limit) ==
  {k \in 0..limit : \A j \in 0..(k - 1) : page[off + j] # 0}

\* One round of the loop: scan the page for a terminator, copy up to it.
ReadPage ==
  /\ ReaderTurn
  /\ rd.pc = "page"
  /\ rd.pos < Len(mem_list)
  /\ LET page  == mem_list[rd.pos + 1]
         off   == page_queue.head_offset
         limit == Lesser(rd.actual, PAGE_SIZE - off)
         n     == Max(ClearBytes(page, off, limit))
     IN  /\ ubuf' = ubuf \o [k \in 1..n |-> page[off + k - 1]]
         /\ null_flag' = IF n < limit THEN 1 ELSE null_flag
         /\ page_queue' = [page_queue EXCEPT
                             !.head_offset = IF n > 0 THEN (@ + n) % PAGE_SIZE ELSE @]
         /\ rd' = [rd EXCEPT !.pc = "free", !.actual = @ - n,
                             !.more = rd.pos + 1 < Len(mem_list)]
  /\ UNCHANGED <<topVars, nprocs, max_nprocs, fd, leaked, mem_list, num_pages,
                 data_size, null_location, wait_flag, bh, sent>>

AfterPage(r) == [r EXCEPT !.pc = IF null_flag = 1 \/ ~rd.more THEN "indices" ELSE "page"]

\* At the start of a page: the page just gone through is freed.
FreePage ==
  /\ page_queue.head_offset = 0
  /\ page_queue' = [page_queue EXCEPT !.head_index = @ + 1]
  /\ mem_list' = RemoveAt(mem_list, rd.pos + 1)
  /\ rd' = [rd EXCEPT !.pc = "num", !.freed = @ + 1]

KeepPage ==
  /\ page_queue.head_offset # 0
  /\ rd' = AfterPage([rd EXCEPT !.pos = @ + 1])
  /\ UNCHANGED <<page_queue, mem_list>>

ReadNextPage ==
  /\ ReaderTurn
  /\ rd.pc = "free"
  /\ FreePage \/ KeepPage
  /\ UNCHANGED <<topVars, admVars, num_pages, data_size, null_location, wait_flag, bh,
                 ubuf, sent>>

\* The first step of a change of x: from the place pc to the place next.
Load(pc, x, next) ==
  /\ ReaderTurn
  /\ rd.pc = pc
  /\ rd' = [rd EXCEPT !.pc = next, !.reg = x]
  /\ UNCHANGED <<topVars, admVars, queueVars, null_location, wait_flag, bh, ubuf, sent>>

LoadNum == Load("num", num_pages, "store_num")

StoreNum ==
  /\ ReaderTurn
  /\ rd.pc = "store_num"
  /\ num_pages' = rd.reg - 1
  /\ rd' = AfterPage(rd)
  /\ UNCHANGED <<topVars, admVars, page_queue, mem_list, data_size, null_location,
                 wait_flag, bh, ubuf, sent>>

\* The loop over an empty list is left at once.
ReadNoPage ==
  /\ ReaderTurn
  /\ rd.pc = "page"
  /\ rd.pos >= Len(mem_list)
  /\ rd' = [rd EXCEPT !.pc = "indices"]
  /\ UNCHANGED <<topVars, admVars, queueVars, null_location, wait_flag, bh, ubuf, sent>>

\* Faulty variant: the head is not moved back by the pages freed.
KeepHead(freed) == page_queue.head_index

HeadRenumbered(freed) == page_queue.head_index - freed

\* head_index is the reader's own: it is put right in the step that loads
\* tail_index.
ReadHead ==
  /\ ReaderTurn
  /\ rd.pc = "indices"
  /\ page_queue' = [page_queue EXCEPT !.head_index = HeadRenumbered(rd.freed)]
  /\ rd' = [rd EXCEPT !.pc = "store_tail", !.reg = page_queue.tail_index]
  /\ UNCHANGED <<topVars, admVars, mem_list, num_pages, data_size, null_location,
                 wait_flag, bh, ubuf, sent>>

\* Faulty variant: the tail is not moved back by the pages freed.
KeepTail(index, freed) == index

TailRenumbered(index, freed) == index - freed

StoreTail ==
  /\ ReaderTurn
  /\ rd.pc = "store_tail"
  /\ page_queue' = [page_queue EXCEPT !.tail_index = TailRenumbered(rd.reg, rd.freed)]
  /\ null_location' = IF null_flag = 1 THEN page_queue.head_offset ELSE null_location
  /\ rd' = [rd EXCEPT !.pc = "size"]
  /\ UNCHANGED <<topVars, admVars, mem_list, num_pages, data_size, wait_flag, bh,
                 ubuf, sent>>

LoadSize == Load("size", data_size, "store_size")

StoreSize ==
  /\ ReaderTurn
  /\ rd.pc = "store_size"
  /\ data_size' = (rd.reg - rd.freed * PAGE_SIZE) % SIZE_RANGE
  /\ Return(ubuf)
  /\ UNCHANGED <<topVars, admVars, page_queue, mem_list, num_pages, null_location,
                 wait_flag, bh, ubuf, sent>>

Read == \/ \E n \in ReadSizes : ReadCall(n)
        \/ ReadSetWait \/ ReadSleep \/ ReadBegin
        \/ ReadPage \/ ReadNextPage \/ ReadNoPage
        \/ LoadNum \/ StoreNum \/ ReadHead
        \/ StoreTail \/ LoadSize \/ StoreSize

-----------------------------------------------------------------------------
(* Opening and closing the device.                                         *)

Open ==
  /\ ReaderTurn
  /\ \/ OpenCall(reader) /\ rd' = rd
     \/ OpenPass(reader) /\ rd' = rd
     \/ OpenAdmit(reader) /\ rd' = [rd EXCEPT !.eof = FALSE]
  /\ UNCHANGED <<topVars, queueVars, null_location, wait_flag, bh, ubuf, sent>>

Close ==
  /\ ReaderTurn
  /\ rd.pc = "idle"
  /\ \/ ReleaseDec(reader) /\ (CatReader => rd.eof)
     \/ ReleaseWake(reader)
  /\ UNCHANGED <<topVars, queueVars, null_location, wait_flag, bh, rd, ubuf, sent>>

Init ==
  /\ TopInit /\ AdmInit
  /\ page_queue = [head_index |-> 0, tail_index |-> 0, head_offset |-> 0, tail_offset |-> 0]
  /\ mem_list = <<>>
  /\ num_pages = 0
  /\ data_size = 0
  /\ null_location = -1
  /\ wait_flag = 1
  /\ bh = [pc |-> "idle", count |-> 0]
  /\ rd = [pc |-> "idle", size |-> 0, actual |-> 0, pos |-> 0, more |-> FALSE,
           freed |-> 0, eof |-> FALSE, reg |-> 0]
  /\ ubuf = <<>>
  /\ sent = 0

Next == \/ \E b \in Bytes : PortHigh(b)
        \/ PortLow \/ BottomHalf \/ Open \/ Read \/ Close

Spec == Init /\ [][Next]_vars

\* A softirq that is pending runs, and a process that can run does.  That the
\* process comes back to open the device again is its habit (cat in a loop).
Fairness == WF_vars(BottomHalf) /\ WF_vars(Open) /\ WF_vars(Read) /\ WF_vars(Close)

FairSpec == Spec /\ Fairness

-----------------------------------------------------------------------------
(* What is in the pipe, seen from outside.                                 *)

Looping == rd.pc \in {"page", "free", "num", "store_num", "indices"}
\* The tail still counts the pages the current read has freed.
TailStale == Looping \/ rd.pc = "store_tail"

\* Places in the page queue, counted from the start of the first page.  A page
\* read to its end is still there until it is freed.
HeadPlace == IF rd.pc = "free" /\ page_queue.head_offset = 0 THEN PAGE_SIZE
             ELSE page_queue.head_offset
TailPlace ==
  LET index == page_queue.tail_index - (IF TailStale THEN rd.freed ELSE 0)
  IN  index * PAGE_SIZE + page_queue.tail_offset

\* A place that is in no page holds nothing that was sent.
ByteAt(place) ==
  LET i == place \div PAGE_SIZE
  IN  IF i \in 0..(Len(mem_list) - 1) THEN mem_list[i + 1][place % PAGE_SIZE] ELSE -1

UnreadPages == [k \in 1..(TailPlace - HeadPlace) |-> ByteAt(HeadPlace + k - 1)]

\* The bytes stored by the handler and not handed over yet.
Unread == UnreadPages \o RingContent

-----------------------------------------------------------------------------
(* Properties that hold whatever interrupts whatever.                      *)

Asgn2TypeOK ==
  /\ page_queue \in [head_index : Int, tail_index : Int,
                     head_offset : 0..PAGE_SIZE, tail_offset : Offsets]
  /\ \A i \in DOMAIN mem_list : mem_list[i] \in [Offsets -> 0..255]
  /\ data_size \in 0..(SIZE_RANGE - 1)
  /\ wait_flag \in {0, 1}
  /\ bh.pc \in {"idle", "count", "copy"} /\ bh.count \in Slots
  /\ rd.pc \in {"idle", "set_wait", "wait", "asleep", "page", "free", "num", "store_num",
               "indices", "store_tail", "size", "store_size"}
  /\ rd.pc # "idle" => fd[reader] = "open"

\* A terminator separates sessions and is never part of one: no read copies it
\* to the user (lines 335-345).
NoNullDelivered == \A i \in DOMAIN ubuf : ubuf[i] # 0

\* A read never copies more than the user asked for, even when data_size has
\* wrapped below zero (lines 313 and 326).
UserBufferKept == rd.pc # "idle" => Len(ubuf) + rd.actual <= rd.size

\* The mark for a terminator never drifts from the head: the next read
\* recognises the terminator the last one stopped at (lines 290-292, 382).
MarkAtHead == null_location \in {-1, page_queue.head_offset}

\* Outside the loop the head is in the first page (lines 363 and 377), which is
\* why a read may start at the front of the list.
HeadInFirstPage ==
  page_queue.head_index = IF Looping THEN rd.freed ELSE 0

-----------------------------------------------------------------------------
(* Properties of the quiet driver: see README.                             *)

\* The driver used as its author did: a byte comes when the one before has gone
\* through the tasklet and no read runs, memory lasts, no signal comes, a read
\* asks for all there is and goes on until it gets 0 ("cat"), and terminators
\* stay clear of the ends of a page.
QuietDriver ==
  /\ Overlap = {} /\ ~AllocFails /\ ~Signals /\ CatReader
  /\ NullSlots \subseteq 1..(PAGE_SIZE - 2)
  /\ MaxBytes \in Nat /\ MaxBytes < SIZE_RANGE /\ MaxBytes <= MaxPages * PAGE_SIZE
  /\ \A n \in ReadSizes : n >= MaxBytes

\* The driver is the pipe of BytePipe: every byte that enters the ring is
\* handed over once, in order, across page ends and page freeing, and sessions
\* end at their terminators (lines 195-267 and 273-390).
Pipe == INSTANCE BytePipe WITH Byte <- Bytes, chan <- Unread, got <- ubuf
ReadsPipe == Pipe!PipeSpec

\* The indices that tell the tasklet where to write agree with the size and
\* the count that tell it how much to allocate, and the count with the list,
\* outside the steps in which a read moves them (lines 66, 214, 250-258 and 370,
\* 378, 387).
TailMatchesSize ==
  (\/ rd.pc \in {"idle", "set_wait", "wait", "asleep"}
   \/ rd.pc = "page" /\ rd.freed = 0)
    => data_size = TailPlace /\ num_pages = Len(mem_list)

\* The wait flag is up only when nothing is left to read: no reader goes to
\* sleep over data (lines 263, 298-305).
NoSleepOverData == wait_flag = 1 => UnreadPages = <<>>

\* A read returns 0 only where a session ends (lines 290-295, 311, 389).
EofAtTerminator ==
  [][rd'.eof /\ ~rd.eof => Unread # <<>> /\ Head(Unread) = 0]_vars

\* When the port has fallen silent, every byte is handed over in the end, and
\* every session is closed (lines 175, 263-264 and 305).
AllHandedOver == <>[](Unread = <<>>)

-----------------------------------------------------------------------------
(* What the comments of the code say and the code does not do.             *)

\* Line 193: the tasklet "Copies the contents of the circular buffer into the
\* page queue": a run of it changes nothing of what is in the pipe.
TaskletCopies == [][bh.pc = "copy" => Unread' = Unread]_vars

\* Line 361: "If at the start of a page then free the previous page": a page is
\* freed when it has been read to its end, and what a round of the loop does
\* not copy to the user is still there to be read.
FreesOnlyReadPages ==
  [][rd.pc = "page" /\ rd'.pc = "free" =>
       ubuf' \o UnreadPages' = ubuf \o UnreadPages]_vars

\* Line 302: "Puts read to sleep until wait_flag == 0 and the wake up signal is
\* sent", which by line 297 is for an empty queue: a reader does not stay
\* asleep over data.
SleeperGetsData ==
  (rd.pc = "asleep" /\ UnreadPages # <<>>) ~> rd.pc # "asleep"
=============================================================================
