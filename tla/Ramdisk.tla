------------------------------- MODULE Ramdisk -------------------------------
(***************************************************************************)
(* The asgn1 driver: a ramdisk made of a list of pages that processes      *)
(* open, read, write, seek in and map.                                     *)
(*                                                                         *)
(* One core and a preemptible kernel: any other process may run between    *)
(* two steps of a call.  A step is the code between two places where that  *)
(* makes a difference: the test of nprocs and its increment, the load and  *)
(* the store of num_pages++ and of data_size, one copy from or to the user *)
(* (which may fault and sleep).                                            *)
(***************************************************************************)
EXTENDS Integers, Sequences, FiniteSets

CONSTANTS
  Procs,      \* the processes that use the device
  Writers,    \* those that may write
  PAGE_SIZE,  \* bytes of a page (4096 in the code)
  Bytes,      \* the bytes that may be stored through a mapping
  Data,       \* the buffers that may be written
  ReadSizes,  \* the counts a read is called with
  Moves,      \* the offsets lseek is called with
  Garbage,    \* what a page holds that was never written
  IoctlArgs,  \* the values passed to the ioctl
  MaxPages    \* bound of the model: pages the machine has

ASSUME RamProcsAssumption == IsFiniteSet(Procs) /\ Writers \subseteq Procs
ASSUME RamPageAssumption == PAGE_SIZE \in Nat \ {0} /\ MaxPages \in Nat
ASSUME RamDataAssumption ==
  Data \subseteq Seq(0..255) /\ Bytes \subseteq 0..255 /\ Garbage \subseteq 0..255
ASSUME RamArgsAssumption ==
  ReadSizes \subseteq Nat /\ Moves \subseteq Int /\ IoctlArgs \subseteq Int

VARIABLES
  mem_list,                         \* the pages, first to last
  num_pages, data_size,
  nprocs, max_nprocs,
  file,       \* what each process has of the device, see Closed
  map,        \* how many pages each process has mapped
  got         \* what the current read of each process has copied so far

ramVars == <<mem_list, num_pages, data_size, nprocs, max_nprocs, file, map, got>>

PageOffsets == 0..(PAGE_SIZE - 1)
Fewer(x, y) == IF x <= y THEN x ELSE y
More(x, y) == IF x <= y THEN y ELSE x

\* pc tells where the process is; mode and f_pos belong to the open file; the
\* rest are variables of the current call: orig is orig_f_pos, left what is
\* left of actual_size or count, data the buffer written, reg a value loaded.
Closed == [pc |-> "closed", mode |-> "O_RDONLY", f_pos |-> 0, orig |-> 0, left |-> 0,
           data |-> <<>>, reg |-> 0]

\* The end of a call: its variables are gone.
Return(p) == file' = [file EXCEPT ![p] = [Closed EXCEPT !.pc = "idle", !.mode = file[p].mode,
                                                        !.f_pos = file[p].f_pos]]

Inside == {"alloc", "num", "copy_in", "grow", "copy_out"}

\* The byte at a place of the disk, and the disk with it replaced.
ByteAt(place) == mem_list[place \div PAGE_SIZE + 1][place % PAGE_SIZE]

-----------------------------------------------------------------------------
(* Opening and closing.                                                    *)

OpenTest(p, mode) ==
  /\ file[p].pc = "closed"
  /\ nprocs < max_nprocs
  /\ mode # "O_RDONLY" => p \in Writers
  /\ file' = [file EXCEPT ![p].pc = "opening", ![p].mode = mode]
  /\ UNCHANGED <<mem_list, num_pages, data_size, nprocs, max_nprocs, map, got>>

\* Faulty variant: the pages go, the size stays.
FreeListOnly ==
  /\ mem_list' = <<>>
  /\ num_pages' = 0
  /\ data_size' = data_size

free_memory_pages ==
  /\ mem_list' = <<>>
  /\ data_size' = 0
  /\ num_pages' = 0

\* Model: the pages are only freed when no other process is inside a call and
\* none has them mapped, which nothing in the code makes sure of.
Undisturbed(p) ==
  /\ \A q \in Procs \ {p} : file[q].pc \notin Inside
  /\ \A q \in Procs : map[q] = 0

OpenCount(p) ==
  /\ file[p].pc = "opening"
  /\ nprocs' = nprocs + 1
  /\ file' = [file EXCEPT ![p].pc = "idle"]
  /\ IF file[p].mode = "O_WRONLY" THEN Undisturbed(p) /\ free_memory_pages
     ELSE UNCHANGED <<mem_list, num_pages, data_size>>
  /\ UNCHANGED <<max_nprocs, map, got>>

\* Faulty variant: the count is left as it is.
ReleaseUncounted(p) ==
  /\ file[p].pc = "idle"
  /\ map[p] = 0
  /\ file' = [file EXCEPT ![p] = Closed]
  /\ UNCHANGED <<mem_list, num_pages, data_size, nprocs, max_nprocs, map, got>>

\* The kernel calls it once the file is closed and no longer mapped.
asgn1_release(p) ==
  /\ file[p].pc = "idle"
  /\ map[p] = 0
  /\ nprocs' = nprocs - 1
  /\ file' = [file EXCEPT ![p] = Closed]
  /\ UNCHANGED <<mem_list, num_pages, data_size, max_nprocs, map, got>>

asgn1_ioctl(p, n) ==
  /\ file[p].pc = "idle"
  /\ n > 0
  /\ max_nprocs' = n
  /\ UNCHANGED <<mem_list, num_pages, data_size, nprocs, file, map, got>>

\* Faulty variant: a position before the start of the disk is let through.
NotAboveEnd(testpos, buffer_size) == Fewer(testpos, buffer_size)

Clamped(testpos, buffer_size) == Fewer(More(testpos, 0), buffer_size)

asgn1_lseek(p, whence, offset) ==
  LET buffer_size == num_pages * PAGE_SIZE
      testpos == offset + CASE whence = "SEEK_SET" -> 0
                            [] whence = "SEEK_CUR" -> file[p].f_pos
                            [] whence = "SEEK_END" -> buffer_size
  IN  /\ file[p].pc = "idle"
      /\ file' = [file EXCEPT ![p].f_pos = Clamped(testpos, buffer_size)]
      /\ UNCHANGED <<mem_list, num_pages, data_size, nprocs, max_nprocs, map, got>>

-----------------------------------------------------------------------------
(* Reading.                                                                *)

\* Beyond data_size a read returns 0 and changes nothing.
ReadCall(p, count) ==
  /\ file[p].pc = "idle"
  /\ file[p].mode # "O_WRONLY"
  /\ file[p].f_pos <= data_size
  /\ file' = [file EXCEPT ![p].pc = "copy_out",
                          ![p].left = Fewer(count, data_size - file[p].f_pos)]
  /\ UNCHANGED <<mem_list, num_pages, data_size, nprocs, max_nprocs, map, got>>

\* What one copy may move: it stays within the page the position is in.
Chunk(p) ==
  IF file[p].f_pos \div PAGE_SIZE >= Len(mem_list) THEN 0
  ELSE Fewer(file[p].left, PAGE_SIZE - (file[p].f_pos % PAGE_SIZE))

\* copy_to_user moves n bytes; the loops go round until the chunk is copied,
\* and then go on with the next page.
CopyOut(p, n) ==
  /\ file[p].pc = "copy_out"
  /\ n \in 1..Chunk(p)
  /\ got' = [got EXCEPT ![p] = @ \o [i \in 1..n |-> ByteAt(file[p].f_pos + i - 1)]]
  /\ file' = [file EXCEPT ![p].f_pos = @ + n, ![p].left = @ - n]
  /\ UNCHANGED <<mem_list, num_pages, data_size, nprocs, max_nprocs, map>>

\* Nothing left to read, or the list is at its end.
ReadEnd(p) ==
  /\ file[p].pc = "copy_out"
  /\ Chunk(p) = 0
  /\ Return(p)
  /\ got' = [got EXCEPT ![p] = <<>>]
  /\ UNCHANGED <<mem_list, num_pages, data_size, nprocs, max_nprocs, map>>

-----------------------------------------------------------------------------
(* Writing.                                                                *)

WriteCall(p, d) ==
  /\ file[p].pc = "idle"
  /\ file[p].mode # "O_RDONLY"
  /\ file' = [file EXCEPT ![p].pc = "alloc", ![p].orig = file[p].f_pos,
                          ![p].left = Len(d), ![p].data = d]
  /\ UNCHANGED <<mem_list, num_pages, data_size, nprocs, max_nprocs, map, got>>

\* Faulty variant: the position is left out.
EnoughForCount(p) == num_pages * PAGE_SIZE >= file[p].left

EnoughPages(p) == num_pages * PAGE_SIZE >= file[p].orig + file[p].left

\* A page is added to the list, and num_pages loaded ...
AddPage(p, g) ==
  /\ file[p].pc = "alloc"
  /\ ~EnoughPages(p)
  /\ Len(mem_list) < MaxPages
  /\ mem_list' = Append(mem_list, [o \in PageOffsets |-> g])
  /\ file' = [file EXCEPT ![p].pc = "num", ![p].reg = num_pages]
  /\ UNCHANGED <<num_pages, data_size, nprocs, max_nprocs, map, got>>

\* ... and stored, incremented.
CountPage(p) ==
  /\ file[p].pc = "num"
  /\ num_pages' = file[p].reg + 1
  /\ file' = [file EXCEPT ![p].pc = "alloc"]
  /\ UNCHANGED <<mem_list, data_size, nprocs, max_nprocs, map, got>>

\* -ENOMEM: the pages added stay.
WriteNoMemory(p) ==
  /\ file[p].pc = "alloc"
  /\ ~EnoughPages(p)
  /\ Return(p)
  /\ UNCHANGED <<mem_list, num_pages, data_size, nprocs, max_nprocs, map, got>>

WriteBegin(p) ==
  /\ file[p].pc = "alloc"
  /\ EnoughPages(p)
  /\ file' = [file EXCEPT ![p].pc = "copy_in"]
  /\ UNCHANGED <<mem_list, num_pages, data_size, nprocs, max_nprocs, map, got>>

\* Faulty variant: every round copies from the start of the buffer.
SourceRestarts(p, i) == file[p].data[i]

\* The i-th byte of this round: buf + size_written.
Source(p, i) == file[p].data[file[p].f_pos - file[p].orig + i]

CopyIn(p, n) ==
  /\ file[p].pc = "copy_in"
  /\ n \in 1..Chunk(p)
  /\ LET f == file[p].f_pos
     IN  mem_list' = [mem_list EXCEPT ![f \div PAGE_SIZE + 1] =
           [o \in PageOffsets |-> IF o - (f % PAGE_SIZE) \in 0..(n - 1)
                                  THEN Source(p, o - (f % PAGE_SIZE) + 1) ELSE @[o]]]
  /\ file' = [file EXCEPT ![p].f_pos = @ + n, ![p].left = @ - n]
  /\ UNCHANGED <<num_pages, data_size, nprocs, max_nprocs, map, got>>

\* The loop is over; data_size is loaded for the comparison ...
WriteEnd(p) ==
  /\ file[p].pc = "copy_in"
  /\ Chunk(p) = 0
  /\ file' = [file EXCEPT ![p].pc = "grow", ![p].reg = data_size]
  /\ UNCHANGED <<mem_list, num_pages, data_size, nprocs, max_nprocs, map, got>>

\* ... and the larger of it and the end of the write (orig_f_pos + size_written
\* is the position by now) is stored.
Grow(p) ==
  /\ file[p].pc = "grow"
  /\ data_size' = More(file[p].reg, file[p].f_pos)
  /\ Return(p)
  /\ UNCHANGED <<mem_list, num_pages, nprocs, max_nprocs, map, got>>

-----------------------------------------------------------------------------
(* Mapping.  Only the offset zero: the byte offset of a mapping is compared *)
(* with the number of pages, so that any other is refused on a disk of     *)
(* fewer than 4096 pages.                                                  *)

asgn1_mmap(p, n) ==
  /\ file[p].pc = "idle"
  /\ file[p].mode = "O_RDWR"
  /\ map[p] = 0
  /\ n \in 1..num_pages
  /\ map' = [map EXCEPT ![p] = n]
  /\ UNCHANGED <<mem_list, num_pages, data_size, nprocs, max_nprocs, file, got>>

\* A store to mapped memory: the process's own, no call of the driver.
MapStore(p, place, b) ==
  /\ file[p].pc = "idle"
  /\ place \in 0..(map[p] * PAGE_SIZE - 1)
  /\ mem_list' = [mem_list EXCEPT ![place \div PAGE_SIZE + 1][place % PAGE_SIZE] = b]
  /\ UNCHANGED <<num_pages, data_size, nprocs, max_nprocs, file, map, got>>

Unmap(p) ==
  /\ file[p].pc = "idle"
  /\ map[p] # 0
  /\ map' = [map EXCEPT ![p] = 0]
  /\ UNCHANGED <<mem_list, num_pages, data_size, nprocs, max_nprocs, file, got>>

-----------------------------------------------------------------------------
RamInit ==
  /\ mem_list = <<>>
  /\ num_pages = 0 /\ data_size = 0
  /\ nprocs = 0 /\ max_nprocs = 1
  /\ file = [p \in Procs |-> Closed]
  /\ map = [p \in Procs |-> 0]
  /\ got = [p \in Procs |-> <<>>]

Descriptor(p) ==
  \/ \E mode \in {"O_RDONLY", "O_WRONLY", "O_RDWR"} : OpenTest(p, mode)
  \/ OpenCount(p)
  \/ asgn1_release(p)
  \/ \E n \in IoctlArgs : asgn1_ioctl(p, n)
  \/ \E whence \in {"SEEK_SET", "SEEK_CUR", "SEEK_END"}, offset \in Moves :
       asgn1_lseek(p, whence, offset)

asgn1_read(p) ==
  \/ \E count \in ReadSizes : ReadCall(p, count)
  \/ \E n \in 1..PAGE_SIZE : CopyOut(p, n)
  \/ ReadEnd(p)

asgn1_write(p) ==
  \/ \E d \in Data : WriteCall(p, d)
  \/ \E g \in Garbage : AddPage(p, g)
  \/ CountPage(p) \/ WriteNoMemory(p) \/ WriteBegin(p)
  \/ \E n \in 1..PAGE_SIZE : CopyIn(p, n)
  \/ WriteEnd(p) \/ Grow(p)

Mapping(p) ==
  \/ \E n \in 1..MaxPages : asgn1_mmap(p, n)
  \/ \E place \in 0..(MaxPages * PAGE_SIZE - 1), b \in Bytes : MapStore(p, place, b)
  \/ Unmap(p)

RamNext == \E p \in Procs :
  Descriptor(p) \/ asgn1_read(p) \/ asgn1_write(p) \/ Mapping(p)

RamSpec == RamInit /\ [][RamNext]_ramVars

-----------------------------------------------------------------------------
(* The file a ramdisk is.                                                  *)

Writing(p) == file[p].pc \in {"alloc", "num", "copy_in", "grow"}

\* A write that has copied something has made the file longer before it says so
\* in data_size.
Ends == {data_size} \cup
        {file[p].f_pos : p \in {q \in Procs : Writing(q) /\ file[q].f_pos > file[q].orig}}
Size == CHOOSE e \in Ends : \A x \in Ends : x <= e

Content == [i \in 1..Size |-> ByteAt(i - 1)]
Positions == [p \in Procs |-> file[p].f_pos]
LeftToWrite == [p \in Procs |->
  IF Writing(p) THEN SubSeq(file[p].data, file[p].f_pos - file[p].orig + 1, Len(file[p].data))
  ELSE <<>>]

-----------------------------------------------------------------------------
(* Properties.                                                             *)

RamTypeOK ==
  /\ mem_list \in Seq([PageOffsets -> 0..255])
  /\ {num_pages, data_size, nprocs} \subseteq Nat
  /\ max_nprocs \in Nat \ {0}
  /\ \A p \in Procs :
       /\ {file[p].f_pos, file[p].orig, file[p].left, file[p].reg} \subseteq Nat
       /\ file[p].pc \in Inside \cup {"closed", "opening", "idle"}
       /\ map[p] \in 0..MaxPages

\* The size of the disk never exceeds the pages it has, and a mapping never
\* covers a page that is not there, whatever writers overlap, fail for want of
\* memory or tear the page count (lines 228-245, 269, 343).
SizeInPages ==
  /\ num_pages <= Len(mem_list)
  /\ data_size <= Len(mem_list) * PAGE_SIZE
  /\ \A p \in Procs : map[p] <= Len(mem_list)

\* nprocs counts the processes that have the device open, however opens and
\* closes overlap (lines 99-102 and 121).
OpensCounted ==
  nprocs = Cardinality({p \in Procs : file[p].pc \notin {"closed", "opening"}})

\* No transfer stops short: a read returns all of what data_size promised when
\* it began, and a write that found the memory it needs writes all of its
\* buffer; the loops never meet the end of the list first (lines 149, 228, 252).
NoShortTransfer ==
  [][\A p \in Procs :
       \/ file[p].pc = "copy_out" /\ file'[p].pc = "idle"
       \/ file[p].pc = "copy_in" /\ file'[p].pc = "grow"
       => file[p].left = 0]_ramVars

\* Of two writers the later may store the smaller size: see README.
OneWriter == \A p, q \in Writers : p = q

\* With one writer the ramdisk is the file of ByteFile: reads that overlap the
\* writes of another process, stores through mappings, seeks and truncation
\* find and leave every byte where it belongs (lines 129-271 and 334-365).
Disk == INSTANCE ByteFile WITH Byte <- Bytes, Proc <- Procs, file <- Content,
                               pos <- Positions, left <- LeftToWrite
RamdiskIsFile == Disk!FileSpec
=============================================================================
