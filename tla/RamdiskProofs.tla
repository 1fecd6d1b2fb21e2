---------------------------- MODULE RamdiskProofs ----------------------------
(***************************************************************************)
(* Proofs about the ramdisk of asgn1, for any number of readers and        *)
(* writers, any page size, any buffers, counts, seeks and amount of memory.*)
(***************************************************************************)
EXTENDS Ramdisk, FiniteSetTheorems, TLAPS

Modes == {"O_RDONLY", "O_WRONLY", "O_RDWR"}
Pages == [PageOffsets -> 0..255]
OpenFiles == [pc : Inside \cup {"closed", "opening", "idle"}, mode : Modes, f_pos : Nat,
              orig : Nat, left : Nat, data : Seq(0..255), reg : Nat]

\* The bytes the pages of the list hold.
Room == Len(mem_list) * PAGE_SIZE

Users == {p \in Procs : file[p].pc \notin {"closed", "opening"}}

(***************************************************************************)
(* The inductive invariant.  The size stays within the pages because every *)
(* call that will store num_pages or data_size, or that goes on copying,   *)
(* carries a bound of its own that the list already meets: the list grows  *)
(* under it, and shrinks only where no call is under way.                  *)
(***************************************************************************)
RamTypes ==
  /\ mem_list \in Seq(Pages)
  /\ num_pages \in Nat /\ data_size \in Nat /\ nprocs \in Nat
  /\ max_nprocs \in Nat \ {0}
  /\ file \in [Procs -> OpenFiles]
  /\ map \in [Procs -> 0..MaxPages]

\* What a call under way relies on.
CallInPages(p) ==
  /\ file[p].pc = "num" => file[p].reg + 1 <= Len(mem_list)
  /\ file[p].pc \in {"alloc", "num"} => file[p].f_pos = file[p].orig /\ file[p].left = Len(file[p].data)
  /\ file[p].pc = "copy_in" => /\ file[p].f_pos + file[p].left = file[p].orig + Len(file[p].data)
                               /\ file[p].orig <= file[p].f_pos
  /\ file[p].pc \in {"copy_in", "copy_out"} => file[p].f_pos + file[p].left <= Room
  /\ file[p].pc = "grow" => file[p].f_pos <= Room /\ file[p].reg <= Room

RamInv ==
  /\ RamTypes
  /\ SizeInPages
  /\ OpensCounted
  /\ \A p \in Procs : CallInPages(p)

-----------------------------------------------------------------------------
(* Arithmetic of pages.                                                    *)

\* More pages hold more.
LEMMA MorePagesHoldMore ==
  ASSUME NEW m \in Nat, NEW n \in Nat, m <= n
  PROVE  m * PAGE_SIZE \in Nat /\ n * PAGE_SIZE \in Nat /\ m * PAGE_SIZE <= n * PAGE_SIZE
<1>1. PICK k \in Nat : n = m + k
  <2> WITNESS n - m \in Nat
  <2> QED OBVIOUS
<1>2. PAGE_SIZE \in Nat
  BY RamPageAssumption
<1>3. n * PAGE_SIZE = m * PAGE_SIZE + k * PAGE_SIZE
  BY <1>1, <1>2
<1>4. m * PAGE_SIZE \in Nat /\ k * PAGE_SIZE \in Nat
  BY <1>2
<1> QED BY <1>3, <1>4

\* A place on the disk is in one of its pages.
LEMMA PlaceInPage ==
  ASSUME NEW place \in Nat, NEW n \in Nat, place < n * PAGE_SIZE
  PROVE  place \div PAGE_SIZE \in 0..(n - 1) /\ place % PAGE_SIZE \in PageOffsets
<1>1. PAGE_SIZE \in Nat /\ PAGE_SIZE > 0
  BY RamPageAssumption
<1>2. /\ place \div PAGE_SIZE \in Nat
      /\ place % PAGE_SIZE \in 0..(PAGE_SIZE - 1)
      /\ place = PAGE_SIZE * (place \div PAGE_SIZE) + (place % PAGE_SIZE)
  BY <1>1
<1>3. ASSUME n <= place \div PAGE_SIZE PROVE FALSE
  <2>1. n * PAGE_SIZE <= (place \div PAGE_SIZE) * PAGE_SIZE
    BY <1>2, <1>3, MorePagesHoldMore
  <2> QED BY <1>1, <1>2, <2>1
<1> QED BY <1>2, <1>3 DEF PageOffsets

\* What a round of a loop may copy, and why it is only nothing when nothing is
\* left: what is left is inside the pages.
LEMMA ChunkOfLeft ==
  ASSUME RamInv, NEW p \in Procs, file[p].pc \in {"copy_in", "copy_out"}
  PROVE  /\ Chunk(p) \in 0..file[p].left
         /\ Chunk(p) = 0 => file[p].left = 0
         /\ file[p].left > 0 => (file[p].f_pos \div PAGE_SIZE) \in 0..(Len(mem_list) - 1)
<1>1. /\ file[p].f_pos \in Nat /\ file[p].left \in Nat /\ Len(mem_list) \in Nat
      /\ file[p].f_pos + file[p].left <= Len(mem_list) * PAGE_SIZE
      /\ PAGE_SIZE \in Nat /\ PAGE_SIZE > 0
  BY RamPageAssumption DEF RamInv, RamTypes, OpenFiles, CallInPages, Room
<1>2. Len(mem_list) * PAGE_SIZE \in Nat
  BY <1>1, MorePagesHoldMore
<1>3. /\ file[p].f_pos % PAGE_SIZE \in 0..(PAGE_SIZE - 1)
      /\ file[p].f_pos \div PAGE_SIZE \in Nat
  BY <1>1
<1>4. CASE file[p].left = 0
  BY <1>1, <1>3, <1>4 DEF Chunk, Fewer
<1>5. CASE file[p].left > 0
  <2>1. file[p].f_pos < Len(mem_list) * PAGE_SIZE
    BY <1>1, <1>2, <1>5
  <2>2. (file[p].f_pos \div PAGE_SIZE) \in 0..(Len(mem_list) - 1)
    BY <1>1, <2>1, PlaceInPage
  <2> QED BY <1>1, <1>3, <1>5, <2>2 DEF Chunk, Fewer
<1> QED BY <1>1, <1>4, <1>5

-----------------------------------------------------------------------------
(* The invariant.                                                          *)

\* The processes that have the device open are finitely many.
LEMMA UsersFinite ==
  /\ IsFiniteSet(Users) /\ Cardinality(Users) \in Nat
<1>1. Users \subseteq Procs
  BY DEF Users
<1> QED BY <1>1, RamProcsAssumption, FS_Subset, FS_CardinalityType

\* The disk is loaded empty.
LEMMA RamInvInit == RamInit => RamInv
<1> SUFFICES ASSUME RamInit PROVE RamInv
  OBVIOUS
<1>1. Closed \in OpenFiles
  BY DEF Closed, OpenFiles, Modes
<1>2. RamTypes
  BY <1>1, RamPageAssumption DEF RamInit, RamTypes
<1>3. SizeInPages
  BY RamPageAssumption DEF RamInit, SizeInPages
<1>4. Users = {}
  BY DEF RamInit, Users, Closed
<1>5. OpensCounted
  BY <1>4, FS_EmptySet DEF RamInit, OpensCounted, Users
<1>6. ASSUME NEW p \in Procs PROVE CallInPages(p)
  BY DEF RamInit, CallInPages, Closed
<1> QED BY <1>2, <1>3, <1>5, <1>6 DEF RamInv

\* A step of one process that leaves the disk, the count of opens and the
\* mappings alone keeps the invariant if it keeps what its own call relies on.
LEMMA OwnStep ==
  ASSUME RamInv, NEW p \in Procs, NEW f \in OpenFiles, file' = [file EXCEPT ![p] = f],
         (f.pc \in {"closed", "opening"}) <=> (file[p].pc \in {"closed", "opening"}),
         UNCHANGED <<mem_list, num_pages, data_size, nprocs, max_nprocs, map>>,
         CallInPages(p)'
  PROVE  RamInv'
<1>1. RamTypes'
  BY DEF RamInv, RamTypes
<1>2. SizeInPages'
  BY DEF RamInv, SizeInPages
<1>3. \A q \in Procs \ {p} : file'[q] = file[q]
  BY DEF RamInv, RamTypes
<1>4. file'[p] = f
  BY DEF RamInv, RamTypes
<1>5. Users' = Users
  BY <1>3, <1>4 DEF Users
<1>6. OpensCounted'
  BY <1>5 DEF RamInv, OpensCounted, Users
<1>7. \A q \in Procs : CallInPages(q)'
  BY <1>3 DEF RamInv, CallInPages, Room
<1> QED BY <1>1, <1>2, <1>6, <1>7 DEF RamInv

\* A step of one process under which the list does not shrink takes nothing
\* away that the calls of the others rely on, nor does it change their files.
LEMMA DiskStep ==
  ASSUME RamInv, NEW p \in Procs, NEW f \in OpenFiles, file' = [file EXCEPT ![p] = f],
         (f.pc \in {"closed", "opening"}) <=> (file[p].pc \in {"closed", "opening"}),
         mem_list' \in Seq(Pages), Len(mem_list) <= Len(mem_list'),
         num_pages' \in Nat, num_pages' <= Len(mem_list'),
         data_size' \in Nat, data_size' <= Room',
         UNCHANGED <<nprocs, max_nprocs, map>>,
         CallInPages(p)'
  PROVE  RamInv'
<1>1. Len(mem_list) \in Nat /\ Len(mem_list') \in Nat
  BY DEF RamInv, RamTypes
<1>2. Room <= Room' /\ Room \in Nat /\ Room' \in Nat
  BY <1>1, MorePagesHoldMore DEF Room
<1>3. file' \in [Procs -> OpenFiles] /\ file'[p] = f /\ \A q \in Procs \ {p} : file'[q] = file[q]
  BY DEF RamInv, RamTypes
<1>4. Users' = Users
  BY <1>3 DEF Users
<1>5. OpensCounted'
  BY <1>4 DEF RamInv, OpensCounted, Users
<1>6. ASSUME NEW q \in Procs \ {p} PROVE CallInPages(q)'
  <2>1. CallInPages(q) /\ file'[q] = file[q] /\ file[q] \in OpenFiles
    BY <1>3 DEF RamInv, RamTypes
  <2>2. /\ file[q].f_pos \in Nat /\ file[q].left \in Nat /\ file[q].reg \in Nat
    BY <2>1 DEF OpenFiles
  <2> QED BY <1>1, <1>2, <2>1, <2>2 DEF CallInPages
<1>7. ASSUME NEW q \in Procs PROVE map'[q] <= Len(mem_list')
  <2>1. map[q] \in Nat /\ map[q] <= Len(mem_list)
    BY RamPageAssumption DEF RamInv, RamTypes, SizeInPages
  <2> QED BY <1>1, <2>1
<1>8. SizeInPages'
  BY <1>7 DEF SizeInPages, Room
<1>9. RamTypes'
  BY <1>3 DEF RamInv, RamTypes
<1> QED BY <1>5, <1>6, <1>8, <1>9 DEF RamInv

\* The end of a call.
LEMMA ReturnType ==
  ASSUME RamInv, NEW p \in Procs, Return(p)
  PROVE  \E f \in OpenFiles : /\ file' = [file EXCEPT ![p] = f]
                              /\ f.pc = "idle" /\ f.mode = file[p].mode
<1> DEFINE f == [Closed EXCEPT !.pc = "idle", !.mode = file[p].mode, !.f_pos = file[p].f_pos]
<1>1. file[p] \in OpenFiles
  BY DEF RamInv, RamTypes
<1>2. Closed \in OpenFiles
  BY DEF Closed, OpenFiles, Modes
<1>3. f \in OpenFiles
  BY <1>1, <1>2 DEF OpenFiles
<1>4. f.pc = "idle" /\ f.mode = file[p].mode
  BY <1>2 DEF OpenFiles
<1>5. file' = [file EXCEPT ![p] = f]
  BY DEF Return
<1> HIDE DEF f
<1> QED BY <1>3, <1>4, <1>5

\* Opening, closing, the ioctl and lseek.  The pages are freed by an open for
\* writing, when no call is under way that would rely on them.
LEMMA DescriptorStep ==
  ASSUME RamInv, NEW p \in Procs, Descriptor(p)
  PROVE  RamInv'
<1>0. /\ file[p] \in OpenFiles /\ file[p].f_pos \in Nat
      /\ nprocs \in Nat /\ num_pages \in Nat /\ PAGE_SIZE \in Nat
  BY RamPageAssumption DEF RamInv, RamTypes, OpenFiles
<1>1. ASSUME NEW mode \in Modes, OpenTest(p, mode) PROVE RamInv'
  <2> DEFINE f == [file[p] EXCEPT !.pc = "opening", !.mode = mode]
  <2>1. /\ f \in OpenFiles /\ f.pc = "opening"
        /\ file[p].pc = "closed"
    BY <1>0, <1>1 DEF OpenTest, OpenFiles
  <2>1a. file' = [file EXCEPT ![p] = f]
    BY <1>1 DEF OpenTest, RamInv, RamTypes
  <2>1b. file'[p] = f
    BY <2>1a DEF RamInv, RamTypes
  <2>2. CallInPages(p)'
    BY <2>1, <2>1b DEF CallInPages
  <2> HIDE DEF f
  <2> QED BY <1>1, <2>1, <2>1a, <2>2, OwnStep DEF OpenTest
<1>2. ASSUME OpenCount(p) PROVE RamInv'
  <2> DEFINE f == [file[p] EXCEPT !.pc = "idle"]
  <2>1. /\ f \in OpenFiles /\ f.pc = "idle" /\ file' = [file EXCEPT ![p] = f]
        /\ file' \in [Procs -> OpenFiles] /\ file'[p] = f
        /\ \A q \in Procs \ {p} : file'[q] = file[q]
    BY <1>0, <1>2 DEF OpenCount, OpenFiles, RamInv, RamTypes
  <2>2. p \notin Users /\ Users' = Users \cup {p}
    BY <1>2, <2>1 DEF OpenCount, Users
  <2>3. OpensCounted'
    BY <1>2, <2>2, UsersFinite, FS_AddElement DEF OpenCount, OpensCounted, Users, RamInv
  <2>4. CallInPages(p)'
    BY <2>1 DEF CallInPages
  <2>5. CASE file[p].mode = "O_WRONLY"
    <3>1. /\ mem_list' = <<>> /\ data_size' = 0 /\ num_pages' = 0
          /\ \A q \in Procs : map'[q] = 0 /\ map'[q] \in 0..MaxPages
          /\ max_nprocs' = max_nprocs /\ nprocs' = nprocs + 1 /\ map' = map
      BY <1>2, <2>5 DEF OpenCount, Undisturbed, free_memory_pages, RamInv, RamTypes
    <3>2. RamTypes'
      BY <1>0, <2>1, <3>1 DEF RamInv, RamTypes
    <3>3. SizeInPages'
      BY <1>0, <3>1 DEF SizeInPages
    <3>4. ASSUME NEW q \in Procs \ {p} PROVE CallInPages(q)'
      <4>1. file'[q].pc \notin Inside
        BY <1>2, <2>1, <2>5 DEF OpenCount, Undisturbed
      <4> QED BY <4>1 DEF CallInPages, Inside
    <3> QED BY <2>3, <2>4, <3>2, <3>3, <3>4 DEF RamInv
  <2>6. CASE file[p].mode # "O_WRONLY"
    <3>1. /\ UNCHANGED <<mem_list, num_pages, data_size, max_nprocs, map>>
          /\ nprocs' = nprocs + 1
      BY <1>2, <2>6 DEF OpenCount
    <3>2. RamTypes'
      BY <1>0, <2>1, <3>1 DEF RamInv, RamTypes
    <3>3. SizeInPages'
      BY <3>1 DEF RamInv, SizeInPages
    <3>4. \A q \in Procs \ {p} : CallInPages(q)'
      BY <2>1, <3>1 DEF RamInv, CallInPages, Room
    <3> QED BY <2>3, <2>4, <3>2, <3>3, <3>4 DEF RamInv
  <2> QED BY <2>5, <2>6
<1>3. ASSUME asgn1_release(p) PROVE RamInv'
  <2>1. /\ Closed \in OpenFiles /\ Closed.pc = "closed"
        /\ file' \in [Procs -> OpenFiles] /\ file'[p] = Closed
        /\ \A q \in Procs \ {p} : file'[q] = file[q]
    BY <1>3 DEF asgn1_release, Closed, OpenFiles, Modes, RamInv, RamTypes
  <2>2. p \in Users /\ Users' = Users \ {p}
    BY <1>3, <2>1 DEF asgn1_release, Users
  <2>3. /\ nprocs = Cardinality(Users) /\ nprocs' = nprocs - 1
        /\ UNCHANGED <<mem_list, num_pages, data_size, max_nprocs, map>>
    BY <1>3 DEF asgn1_release, RamInv, OpensCounted, Users
  <2>4. Cardinality(Users') = nprocs - 1
    BY <2>2, <2>3, UsersFinite, FS_RemoveElement
  <2>5. Cardinality(Users') \in Nat
    BY <2>2, UsersFinite, FS_RemoveElement, FS_CardinalityType
  <2>6. OpensCounted'
    BY <2>3, <2>4 DEF OpensCounted, Users
  <2>7. RamTypes'
    BY <2>1, <2>3, <2>4, <2>5 DEF RamInv, RamTypes
  <2>8. SizeInPages'
    BY <2>3 DEF RamInv, SizeInPages
  <2>9. \A q \in Procs : CallInPages(q)'
    BY <2>1, <2>3 DEF RamInv, CallInPages, Room
  <2> QED BY <2>6, <2>7, <2>8, <2>9 DEF RamInv
<1>4. ASSUME NEW n \in IoctlArgs, asgn1_ioctl(p, n) PROVE RamInv'
  <2>1. n \in Nat \ {0}
    BY <1>4, RamArgsAssumption DEF asgn1_ioctl
  <2> QED BY <1>4, <2>1
          DEF asgn1_ioctl, RamInv, RamTypes, SizeInPages, OpensCounted, CallInPages, Room
<1>5. ASSUME NEW whence \in {"SEEK_SET", "SEEK_CUR", "SEEK_END"}, NEW offset \in Moves,
             asgn1_lseek(p, whence, offset)
      PROVE  RamInv'
  <2>1. num_pages * PAGE_SIZE \in Nat
    BY <1>0, MorePagesHoldMore
  <2>2. offset \in Int
    BY RamArgsAssumption
  <2>3. \A testpos \in Int : Clamped(testpos, num_pages * PAGE_SIZE) \in Nat
    BY <2>1 DEF Clamped, Fewer, More
  <2>4. PICK place \in Nat : file' = [file EXCEPT ![p] = [file[p] EXCEPT !.f_pos = place]]
    <3> DEFINE start == CASE whence = "SEEK_SET" -> 0
                          [] whence = "SEEK_CUR" -> file[p].f_pos
                          [] whence = "SEEK_END" -> num_pages * PAGE_SIZE
    <3>1. start \in Int
      BY <1>0, <2>1
    <3> HIDE DEF start
    <3>2. offset + start \in Int
      BY <2>2, <3>1
    <3>3. file' = [file EXCEPT ![p].f_pos = Clamped(offset + start, num_pages * PAGE_SIZE)]
      BY <1>5 DEF asgn1_lseek, start
    <3> QED BY <2>3, <3>2, <3>3
  <2>5. /\ [file[p] EXCEPT !.f_pos = place] \in OpenFiles
        /\ [file[p] EXCEPT !.f_pos = place].pc = "idle" /\ file[p].pc = "idle"
        /\ file'[p].pc = "idle"
    BY <1>0, <1>5, <2>4 DEF asgn1_lseek, OpenFiles, RamInv, RamTypes
  <2>6. CallInPages(p)'
    BY <2>5 DEF CallInPages
  <2> QED BY <1>5, <2>4, <2>5, <2>6, OwnStep DEF asgn1_lseek
<1> QED BY <1>1, <1>2, <1>3, <1>4, <1>5 DEF Descriptor, Modes

\* A call that ends without having touched the disk.
LEMMA QuietReturn ==
  ASSUME RamInv, NEW p \in Procs, file[p].pc \in Inside, Return(p),
         UNCHANGED <<mem_list, num_pages, data_size, nprocs, max_nprocs, map>>
  PROVE  RamInv'
<1>1. PICK f \in OpenFiles : file' = [file EXCEPT ![p] = f] /\ f.pc = "idle"
  BY ReturnType
<1>2. file'[p] = f
  BY <1>1 DEF RamInv, RamTypes
<1>3. CallInPages(p)'
  BY <1>1, <1>2 DEF CallInPages
<1> QED BY <1>1, <1>3, OwnStep DEF Inside

\* A read asks for no more than data_size, and never goes beyond it.
LEMMA ReadStep ==
  ASSUME RamInv, NEW p \in Procs, asgn1_read(p)
  PROVE  RamInv'
<1>0. /\ file[p] \in OpenFiles /\ file[p].f_pos \in Nat /\ file[p].left \in Nat
      /\ data_size \in Nat
  BY DEF RamInv, RamTypes, OpenFiles
<1>1. ASSUME NEW count \in ReadSizes, ReadCall(p, count) PROVE RamInv'
  <2> DEFINE n == Fewer(count, data_size - file[p].f_pos)
             f == [file[p] EXCEPT !.pc = "copy_out", !.left = n]
  <2>1. n \in Nat /\ file[p].f_pos + n <= data_size
    BY <1>0, <1>1, RamArgsAssumption DEF ReadCall, Fewer
  <2>2. /\ f \in OpenFiles /\ f.pc = "copy_out" /\ file[p].pc = "idle"
        /\ f.f_pos = file[p].f_pos /\ f.left = n
    <3> HIDE DEF n
    <3> QED BY <1>0, <1>1, <2>1 DEF ReadCall, OpenFiles, Inside
  <2>3. file' = [file EXCEPT ![p] = f]
    BY <1>1 DEF ReadCall, RamInv, RamTypes
  <2>4. file'[p] = f /\ Room' = Room
    BY <1>1, <2>3 DEF RamInv, RamTypes, ReadCall, Room
  <2>5. data_size <= Room /\ Room \in Nat
    BY MorePagesHoldMore DEF RamInv, RamTypes, SizeInPages, Room
  <2> HIDE DEF n, f
  <2>6. CallInPages(p)'
    BY <1>0, <2>1, <2>2, <2>4, <2>5 DEF CallInPages
  <2> QED BY <1>1, <2>2, <2>3, <2>6, OwnStep DEF ReadCall
<1>2. ASSUME NEW n \in 1..PAGE_SIZE, CopyOut(p, n) PROVE RamInv'
  <2> DEFINE f == [file[p] EXCEPT !.f_pos = @ + n, !.left = @ - n]
  <2>1. n \in 1..file[p].left /\ file[p].pc = "copy_out"
    BY <1>0, <1>2, ChunkOfLeft DEF CopyOut
  <2>2. /\ f \in OpenFiles /\ f.pc = "copy_out"
        /\ f.f_pos + f.left = file[p].f_pos + file[p].left
    <3>1. file[p].f_pos + n \in Nat /\ file[p].left - n \in Nat
      BY <1>0, <1>2, <2>1
    <3>2. f \in OpenFiles /\ f.pc = "copy_out"
      BY <1>0, <2>1, <3>1 DEF OpenFiles
    <3>3. f.f_pos = file[p].f_pos + n /\ f.left = file[p].left - n
      BY <1>0 DEF OpenFiles
    <3> QED BY <1>0, <1>2, <3>2, <3>3
  <2>3. file' = [file EXCEPT ![p] = f]
    BY <1>2 DEF CopyOut, RamInv, RamTypes
  <2>4. file'[p] = f /\ Room' = Room
    BY <1>2, <2>3 DEF RamInv, RamTypes, CopyOut, Room
  <2> HIDE DEF f
  <2>5. CallInPages(p)'
    BY <2>1, <2>2, <2>4 DEF RamInv, CallInPages
  <2> QED BY <1>2, <2>1, <2>2, <2>3, <2>5, OwnStep DEF CopyOut
<1>3. ASSUME ReadEnd(p) PROVE RamInv'
  BY <1>3, QuietReturn DEF ReadEnd, Inside
<1> QED BY <1>1, <1>2, <1>3 DEF asgn1_read

\* A write: its pages are added before it copies, and only its own call knows
\* how many of them it has counted.
LEMMA WriteStep ==
  ASSUME RamInv, NEW p \in Procs, asgn1_write(p)
  PROVE  RamInv'
<1>0. /\ file[p] \in OpenFiles /\ file[p].f_pos \in Nat /\ file[p].left \in Nat
      /\ file[p].orig \in Nat /\ file[p].reg \in Nat /\ file[p].data \in Seq(0..255)
      /\ data_size \in Nat /\ num_pages \in Nat /\ mem_list \in Seq(Pages)
      /\ Len(mem_list) \in Nat /\ PAGE_SIZE \in Nat
  BY RamPageAssumption DEF RamInv, RamTypes, OpenFiles
<1>a. /\ num_pages <= Len(mem_list) /\ data_size <= Room /\ Room \in Nat
      /\ num_pages * PAGE_SIZE \in Nat /\ num_pages * PAGE_SIZE <= Room
  BY <1>0, MorePagesHoldMore DEF RamInv, SizeInPages, Room
<1>1. ASSUME NEW d \in Data, WriteCall(p, d) PROVE RamInv'
  <2> DEFINE f == [file[p] EXCEPT !.pc = "alloc", !.orig = file[p].f_pos,
                                  !.left = Len(d), !.data = d]
  <2>1. d \in Seq(0..255) /\ Len(d) \in Nat
    BY RamDataAssumption
  <2>2. /\ f \in OpenFiles /\ f.pc = "alloc" /\ file[p].pc = "idle"
        /\ f.f_pos = file[p].f_pos /\ f.orig = file[p].f_pos
        /\ f.left = Len(d) /\ f.data = d
    BY <1>0, <1>1, <2>1 DEF WriteCall, OpenFiles, Inside
  <2>3. file' = [file EXCEPT ![p] = f]
    BY <1>1 DEF WriteCall, RamInv, RamTypes
  <2>4. file'[p] = f
    BY <2>3 DEF RamInv, RamTypes
  <2> HIDE DEF f
  <2>5. CallInPages(p)'
    BY <2>2, <2>4 DEF CallInPages
  <2> QED BY <1>1, <2>2, <2>3, <2>5, OwnStep DEF WriteCall
<1>2. ASSUME NEW g \in Garbage, AddPage(p, g) PROVE RamInv'
  <2> DEFINE f == [file[p] EXCEPT !.pc = "num", !.reg = num_pages]
  <2>1. /\ f \in OpenFiles /\ f.pc = "num" /\ file[p].pc = "alloc" /\ f.reg = num_pages
        /\ f.f_pos = file[p].f_pos /\ f.orig = file[p].orig
        /\ f.left = file[p].left /\ f.data = file[p].data
    BY <1>0, <1>2 DEF AddPage, OpenFiles, Inside
  <2>2. file' = [file EXCEPT ![p] = f]
    BY <1>2 DEF AddPage, RamInv, RamTypes
  <2>3. [o \in PageOffsets |-> g] \in Pages
    BY RamDataAssumption DEF Pages
  <2>4. mem_list' \in Seq(Pages) /\ Len(mem_list') = Len(mem_list) + 1
    BY <1>0, <1>2, <2>3 DEF AddPage
  <2>5. UNCHANGED <<num_pages, data_size, nprocs, max_nprocs, map>>
    BY <1>2 DEF AddPage
  <2> HIDE DEF f
  <2>6. file'[p] = f
    BY <2>2 DEF RamInv, RamTypes
  <2>7. CallInPages(p)'
    BY <1>0, <1>a, <2>1, <2>4, <2>6 DEF RamInv, CallInPages
  <2>8. Len(mem_list) <= Len(mem_list') /\ num_pages' <= Len(mem_list')
    BY <1>0, <1>a, <2>4, <2>5
  <2>9. data_size' <= Room'
    <3>1. Room <= Room' /\ Room' \in Nat
      BY <1>0, <2>4, MorePagesHoldMore DEF Room
    <3> QED BY <1>0, <1>a, <2>5, <3>1
  <2> QED BY <1>0, <2>1, <2>2, <2>4, <2>5, <2>7, <2>8, <2>9, DiskStep
<1>3. ASSUME CountPage(p) PROVE RamInv'
  <2> DEFINE f == [file[p] EXCEPT !.pc = "alloc"]
  <2>1. /\ f \in OpenFiles /\ f.pc = "alloc" /\ file[p].pc = "num"
        /\ f.f_pos = file[p].f_pos /\ f.orig = file[p].orig
        /\ f.left = file[p].left /\ f.data = file[p].data
    BY <1>0, <1>3 DEF CountPage, OpenFiles, Inside
  <2>2. file' = [file EXCEPT ![p] = f]
    BY <1>3 DEF CountPage, RamInv, RamTypes
  <2>3. /\ UNCHANGED <<mem_list, data_size, nprocs, max_nprocs, map>>
        /\ num_pages' \in Nat /\ num_pages' <= Len(mem_list)
    BY <1>0, <1>3 DEF CountPage, RamInv, CallInPages
  <2> HIDE DEF f
  <2>4. file'[p] = f
    BY <2>2 DEF RamInv, RamTypes
  <2>5. CallInPages(p)'
    BY <2>1, <2>4 DEF RamInv, CallInPages
  <2>6. data_size' \in Nat /\ data_size' <= Room'
    BY <1>0, <1>a, <2>3 DEF Room
  <2>7. /\ mem_list' \in Seq(Pages) /\ Len(mem_list) <= Len(mem_list')
        /\ num_pages' <= Len(mem_list')
    BY <1>0, <2>3
  <2>8. UNCHANGED <<nprocs, max_nprocs, map>>
    BY <2>3
  <2> QED BY <2>1, <2>2, <2>3, <2>5, <2>6, <2>7, <2>8, DiskStep
<1>4. ASSUME WriteNoMemory(p) PROVE RamInv'
  BY <1>4, QuietReturn DEF WriteNoMemory, Inside
<1>5. ASSUME WriteBegin(p) PROVE RamInv'
  <2> DEFINE f == [file[p] EXCEPT !.pc = "copy_in"]
  <2>1. /\ f \in OpenFiles /\ f.pc = "copy_in" /\ file[p].pc = "alloc"
        /\ f.f_pos = file[p].f_pos /\ f.orig = file[p].orig
        /\ f.left = file[p].left /\ f.data = file[p].data
    BY <1>0, <1>5 DEF WriteBegin, OpenFiles, Inside
  <2>2. file' = [file EXCEPT ![p] = f]
    BY <1>5 DEF WriteBegin, RamInv, RamTypes
  <2>3. file'[p] = f /\ Room' = Room
    BY <1>5, <2>2 DEF WriteBegin, RamInv, RamTypes, Room
  <2>4. file[p].orig + file[p].left <= Room
    BY <1>0, <1>5, <1>a DEF WriteBegin, EnoughPages
  <2>5. file[p].f_pos = file[p].orig /\ file[p].left = Len(file[p].data)
    BY <2>1 DEF RamInv, CallInPages
  <2> HIDE DEF f
  <2>6. CallInPages(p)'
    BY <1>0, <2>1, <2>3, <2>4, <2>5 DEF CallInPages
  <2> QED BY <1>5, <2>1, <2>2, <2>6, OwnStep DEF WriteBegin
<1>6. ASSUME NEW n \in 1..PAGE_SIZE, CopyIn(p, n) PROVE RamInv'
  <2> DEFINE f == [file[p] EXCEPT !.f_pos = @ + n, !.left = @ - n]
             k == file[p].f_pos \div PAGE_SIZE + 1
             off == file[p].f_pos % PAGE_SIZE
             page == [o \in PageOffsets |-> IF o - off \in 0..(n - 1)
                                            THEN Source(p, o - off + 1) ELSE mem_list[k][o]]
  <2>1. n \in 1..file[p].left /\ file[p].pc = "copy_in"
    BY <1>0, <1>6, ChunkOfLeft DEF CopyIn
  <2>2. file[p].f_pos + n \in Nat /\ file[p].left - n \in Nat
    BY <1>0, <1>6, <2>1
  <2>3. /\ f \in OpenFiles /\ f.pc = "copy_in"
        /\ f.orig = file[p].orig /\ f.data = file[p].data
        /\ f.f_pos = file[p].f_pos + n /\ f.left = file[p].left - n
    BY <1>0, <2>1, <2>2 DEF OpenFiles
  <2>4. file' = [file EXCEPT ![p] = f]
    BY <1>6 DEF CopyIn, RamInv, RamTypes
  <2>5. k \in 1..Len(mem_list)
    BY <1>0, <2>1, ChunkOfLeft
  <2>6. mem_list' = [mem_list EXCEPT ![k] = page]
    BY <1>6 DEF CopyIn
  <2>7. /\ file[p].f_pos + file[p].left = file[p].orig + Len(file[p].data)
        /\ file[p].orig <= file[p].f_pos
    BY <2>1 DEF RamInv, CallInPages
  <2>8. ASSUME NEW i \in 1..n PROVE Source(p, i) \in 0..255
    <3>1. (file[p].f_pos - file[p].orig) + i \in 1..Len(file[p].data)
      <4>1. Len(file[p].data) \in Nat /\ i \in Nat /\ 1 <= i /\ i <= file[p].left
        BY <1>0, <1>6, <2>1
      <4>2. file[p].f_pos \in Nat /\ file[p].left \in Nat /\ file[p].orig \in Nat
        BY <1>0
      <4>3. \A a, o, l, m \in Nat : a + l = o + m /\ o <= a /\ i <= l => (a - o) + i \in 1..m
        BY <4>1
      <4> QED BY <2>7, <4>1, <4>2, <4>3
    <3>2. ASSUME NEW S, NEW s \in Seq(S), NEW j \in 1..Len(s) PROVE s[j] \in S
      OBVIOUS
    <3>3. file[p].data \in Seq(0..255)
      BY <1>0
    <3>4. file[p].data[(file[p].f_pos - file[p].orig) + i] \in 0..255
      BY <3>1, <3>2, <3>3
    <3> QED BY <3>4 DEF Source
  <2>9. page \in Pages
    <3>1. mem_list[k] \in Pages
      BY <1>0, <2>5
    <3>2. off \in Int
      BY <1>0, RamPageAssumption
    <3>3. ASSUME NEW o \in PageOffsets, o - off \in 0..(n - 1) PROVE Source(p, o - off + 1) \in 0..255
      <4> HIDE DEF off
      <4>1. o - off + 1 \in 1..n
        BY <3>2, <3>3 DEF PageOffsets
      <4> QED BY <4>1, <2>8
    <3> HIDE DEF off, k
    <3> QED BY <3>1, <3>3 DEF Pages
  <2>10. mem_list' \in Seq(Pages) /\ Len(mem_list') = Len(mem_list)
    <3> HIDE DEF k, page
    <3> QED BY <1>0, <2>5, <2>6, <2>9
  <2>11. UNCHANGED <<num_pages, data_size, nprocs, max_nprocs, map>>
    BY <1>6 DEF CopyIn
  <2> HIDE DEF f
  <2>12. file'[p] = f /\ Room' = Room
    BY <2>4, <2>10 DEF RamInv, RamTypes, Room
  <2>13. file[p].f_pos + file[p].left <= Room
    BY <2>1 DEF RamInv, CallInPages
  <2>14. CallInPages(p)'
    <3>1. /\ f.f_pos + f.left = file[p].f_pos + file[p].left
          /\ f.orig <= f.f_pos
      BY <1>0, <1>6, <2>3, <2>7
    <3> QED BY <2>3, <2>7, <2>12, <2>13, <3>1 DEF CallInPages
  <2>15. /\ Len(mem_list) <= Len(mem_list')
         /\ num_pages' \in Nat /\ num_pages' <= Len(mem_list')
    BY <1>0, <1>a, <2>10, <2>11
  <2>16. data_size' \in Nat /\ data_size' <= Room'
    BY <1>0, <1>a, <2>11, <2>12
  <2>17. UNCHANGED <<nprocs, max_nprocs, map>>
    BY <2>11
  <2> QED BY <2>1, <2>3, <2>4, <2>10, <2>14, <2>15, <2>16, <2>17, DiskStep
<1>7. ASSUME WriteEnd(p) PROVE RamInv'
  <2> DEFINE f == [file[p] EXCEPT !.pc = "grow", !.reg = data_size]
  <2>1. /\ f \in OpenFiles /\ f.pc = "grow" /\ file[p].pc = "copy_in"
        /\ f.f_pos = file[p].f_pos /\ f.reg = data_size
    BY <1>0, <1>7 DEF WriteEnd, OpenFiles, Inside
  <2>2. file' = [file EXCEPT ![p] = f]
    BY <1>7 DEF WriteEnd, RamInv, RamTypes
  <2>3. file'[p] = f /\ Room' = Room
    BY <1>7, <2>2 DEF WriteEnd, RamInv, RamTypes, Room
  <2>4. file[p].f_pos <= Room
    BY <1>0, <1>a, <2>1 DEF RamInv, CallInPages
  <2> HIDE DEF f
  <2>5. CallInPages(p)'
    BY <1>a, <2>1, <2>3, <2>4 DEF CallInPages
  <2> QED BY <1>7, <2>1, <2>2, <2>5, OwnStep DEF WriteEnd
<1>8. ASSUME Grow(p) PROVE RamInv'
  <2>1. PICK f \in OpenFiles : file' = [file EXCEPT ![p] = f] /\ f.pc = "idle"
    BY <1>8, ReturnType DEF Grow
  <2>2. /\ UNCHANGED <<mem_list, num_pages, nprocs, max_nprocs, map>>
        /\ file[p].pc = "grow"
    BY <1>8 DEF Grow
  <2>3. data_size' \in Nat /\ data_size' <= Room
    BY <1>0, <1>8, <2>2 DEF Grow, More, RamInv, CallInPages
  <2>4. file'[p] = f
    BY <2>1 DEF RamInv, RamTypes
  <2>5. CallInPages(p)'
    BY <2>1, <2>4 DEF CallInPages
  <2>6. data_size' <= Room'
    BY <2>2, <2>3 DEF Room
  <2>7. /\ mem_list' \in Seq(Pages) /\ Len(mem_list) <= Len(mem_list')
        /\ num_pages' \in Nat /\ num_pages' <= Len(mem_list')
    BY <1>0, <1>a, <2>2
  <2>8. UNCHANGED <<nprocs, max_nprocs, map>>
    BY <2>2
  <2> QED BY <2>1, <2>2, <2>3, <2>5, <2>6, <2>7, <2>8, DiskStep
<1> QED BY <1>1, <1>2, <1>3, <1>4, <1>5, <1>6, <1>7, <1>8 DEF asgn1_write

\* A mapping covers pages that are there.
LEMMA MappingStep ==
  ASSUME RamInv, NEW p \in Procs, Mapping(p)
  PROVE  RamInv'
<1>0. /\ mem_list \in Seq(Pages) /\ Len(mem_list) \in Nat
      /\ num_pages \in Nat /\ data_size \in Nat /\ num_pages <= Len(mem_list)
      /\ file \in [Procs -> OpenFiles]
      /\ data_size <= Room
      /\ map \in [Procs -> 0..MaxPages] /\ MaxPages \in Nat /\ PAGE_SIZE \in Nat
  BY RamPageAssumption DEF RamInv, RamTypes, SizeInPages, Room
<1>1. ASSUME NEW n \in 1..MaxPages, asgn1_mmap(p, n) PROVE RamInv'
  <2>1. /\ map' = [map EXCEPT ![p] = n] /\ n \in 1..num_pages
        /\ UNCHANGED <<mem_list, num_pages, data_size, nprocs, max_nprocs, file>>
    BY <1>1 DEF asgn1_mmap
  <2>2. map' \in [Procs -> 0..MaxPages] /\ n <= Len(mem_list)
    BY <1>0, <2>1
  <2>3. \A q \in Procs : map'[q] <= Len(mem_list)
    BY <1>0, <2>1, <2>2 DEF RamInv, SizeInPages
  <2>4. RamTypes' /\ SizeInPages'
    BY <2>1, <2>2, <2>3 DEF RamInv, RamTypes, SizeInPages
  <2>5. OpensCounted' /\ \A q \in Procs : CallInPages(q)'
    BY <2>1 DEF RamInv, OpensCounted, CallInPages, Room
  <2> QED BY <2>4, <2>5 DEF RamInv
<1>2. ASSUME NEW place \in 0..(MaxPages * PAGE_SIZE - 1), NEW b \in Bytes, MapStore(p, place, b)
      PROVE  RamInv'
  <2>1. UNCHANGED <<num_pages, data_size, nprocs, max_nprocs, file, map>>
    BY <1>2 DEF MapStore
  <2>2. place \in Nat /\ place < map[p] * PAGE_SIZE /\ map[p] \in Nat /\ map[p] <= Len(mem_list)
    <3>1. map[p] \in Nat /\ map[p] <= Len(mem_list)
      BY <1>0 DEF RamInv, SizeInPages
    <3>2. map[p] * PAGE_SIZE \in Nat
      BY <3>1, MorePagesHoldMore
    <3>3. place \in 0..(map[p] * PAGE_SIZE - 1)
      BY <1>2 DEF MapStore
    <3> QED BY <3>1, <3>2, <3>3
  <2> DEFINE k == place \div PAGE_SIZE + 1
             o == place % PAGE_SIZE
  <2>3. k \in 1..Len(mem_list) /\ o \in PageOffsets
    <3>1. place \div PAGE_SIZE \in 0..(map[p] - 1) /\ o \in PageOffsets
      BY <2>2, PlaceInPage
    <3> QED BY <1>0, <2>2, <3>1
  <2>4. mem_list' = [mem_list EXCEPT ![k] = [mem_list[k] EXCEPT ![o] = b]]
    BY <1>2 DEF MapStore
  <2>5. mem_list[k] \in Pages /\ b \in 0..255
    BY <1>0, <2>3, RamDataAssumption
  <2> HIDE DEF k, o
  <2>6. [mem_list[k] EXCEPT ![o] = b] \in Pages
    BY <2>3, <2>5 DEF Pages
  <2>7. mem_list' \in Seq(Pages) /\ Len(mem_list') = Len(mem_list)
    BY <1>0, <2>3, <2>4, <2>6
  <2>8. RamTypes' /\ SizeInPages'
    BY <2>1, <2>7 DEF RamInv, RamTypes, SizeInPages
  <2>9. OpensCounted' /\ \A q \in Procs : CallInPages(q)'
    BY <2>1, <2>7 DEF RamInv, OpensCounted, CallInPages, Room
  <2> QED BY <2>8, <2>9 DEF RamInv
<1>3. ASSUME Unmap(p) PROVE RamInv'
  <2>1. /\ map' = [map EXCEPT ![p] = 0]
        /\ UNCHANGED <<mem_list, num_pages, data_size, nprocs, max_nprocs, file>>
    BY <1>3 DEF Unmap
  <2>2. map' \in [Procs -> 0..MaxPages] /\ \A q \in Procs : map'[q] <= Len(mem_list)
    BY <1>0, <2>1 DEF RamInv, SizeInPages
  <2>3. RamTypes' /\ SizeInPages'
    BY <2>1, <2>2 DEF RamInv, RamTypes, SizeInPages
  <2>4. OpensCounted' /\ \A q \in Procs : CallInPages(q)'
    BY <2>1 DEF RamInv, OpensCounted, CallInPages, Room
  <2> QED BY <2>3, <2>4 DEF RamInv
<1> QED BY <1>1, <1>2, <1>3 DEF Mapping

\* Every step.
LEMMA RamInvStep == RamInv /\ [RamNext]_ramVars => RamInv'
<1> SUFFICES ASSUME RamInv, [RamNext]_ramVars PROVE RamInv'
  OBVIOUS
<1>1. ASSUME UNCHANGED ramVars PROVE RamInv'
  BY <1>1 DEF ramVars, RamInv, RamTypes, SizeInPages, OpensCounted, CallInPages, Room
<1>2. ASSUME NEW p \in Procs, Descriptor(p) \/ asgn1_read(p) \/ asgn1_write(p) \/ Mapping(p)
      PROVE  RamInv'
  BY <1>2, DescriptorStep, ReadStep, WriteStep, MappingStep
<1> QED BY <1>1, <1>2 DEF RamNext

\* So the invariant always holds.
LEMMA RamInvariant == RamSpec => []RamInv
BY RamInvInit, RamInvStep, PTL DEF RamSpec

-----------------------------------------------------------------------------
(* The theorems.                                                           *)

\* The variables of the ramdisk and of the calls on it keep their types: no
\* count, size or position of asgn1.c goes below zero and every byte stays one.
THEOREM RamTypeCorrect == RamSpec => []RamTypeOK
<1>1. RamInv => RamTypeOK
  BY DEF RamInv, RamTypes, RamTypeOK, OpenFiles, Pages
<1> QED BY <1>1, RamInvariant, PTL

\* Whatever readers and writers overlap, data_size, num_pages and every mapping
\* stay within the pages of mem_list (asgn1.c 228-245, 269, 343).
THEOREM DiskWithinPages == RamSpec => []SizeInPages
<1>1. RamInv => SizeInPages
  BY DEF RamInv
<1> QED BY <1>1, RamInvariant, PTL

\* nprocs is the number of processes that have the ramdisk open, whatever the
\* order of opens and closes (asgn1.c 99-102, 121).
THEOREM OpensAreCounted == RamSpec => []OpensCounted
<1>1. RamInv => OpensCounted
  BY DEF RamInv
<1> QED BY <1>1, RamInvariant, PTL

\* A step that only moves a position on leaves every process where it is.
LEMMA MovedOnly ==
  ASSUME RamInv, NEW p \in Procs, NEW q \in Procs, NEW n,
         file' = [file EXCEPT ![q].f_pos = @ + n, ![q].left = @ - n]
  PROVE  file'[p].pc = file[p].pc
<1>1. file \in [Procs -> OpenFiles] /\ file[q] \in OpenFiles
  BY DEF RamInv, RamTypes
<1>2. \A a, b : [file[q] EXCEPT !.f_pos = a, !.left = b].pc = file[q].pc
  BY <1>1 DEF OpenFiles
<1>3. file' = [file EXCEPT ![q] = [file[q] EXCEPT !.f_pos = @ + n, !.left = @ - n]]
  BY <1>1
<1> QED BY <1>1, <1>2, <1>3

\* A read gives all that data_size promised when it began, and a write that
\* found its memory writes its whole buffer (asgn1.c 149, 228, 252).
THEOREM TransfersComplete == RamSpec => NoShortTransfer
<1> DEFINE Complete == \A p \in Procs :
             \/ file[p].pc = "copy_out" /\ file'[p].pc = "idle"
             \/ file[p].pc = "copy_in" /\ file'[p].pc = "grow"
             => file[p].left = 0
<1>1. ASSUME RamInv, RamNext, NEW p \in Procs,
             \/ file[p].pc = "copy_out" /\ file'[p].pc = "idle"
             \/ file[p].pc = "copy_in" /\ file'[p].pc = "grow"
      PROVE  Chunk(p) = 0
  <2>0. file \in [Procs -> OpenFiles]
    BY <1>1 DEF RamInv, RamTypes
  <2>1. PICK q \in Procs : Descriptor(q) \/ asgn1_read(q) \/ asgn1_write(q) \/ Mapping(q)
    BY <1>1 DEF RamNext
  <2>2. CASE Descriptor(q)
    <3>1. ~\E mode \in Modes : OpenTest(q, mode)
      BY <1>1, <2>0 DEF OpenTest
    <3>2. ~OpenCount(q) /\ ~asgn1_release(q) /\ ~\E n \in IoctlArgs : asgn1_ioctl(q, n)
      BY <1>1, <2>0 DEF OpenCount, asgn1_release, asgn1_ioctl, Closed
    <3>3. ~\E whence \in {"SEEK_SET", "SEEK_CUR", "SEEK_END"}, offset \in Moves :
              asgn1_lseek(q, whence, offset)
      <4> SUFFICES ASSUME NEW whence, NEW offset, asgn1_lseek(q, whence, offset) PROVE FALSE
        OBVIOUS
      <4>1. PICK place : file' = [file EXCEPT ![q].f_pos = place]
        BY DEF asgn1_lseek
      <4>2. file[q].pc = "idle" /\ file[p] \in OpenFiles
        BY <2>0 DEF asgn1_lseek
      <4> QED BY <1>1, <2>0, <4>1, <4>2 DEF OpenFiles
    <3> QED BY <2>2, <3>1, <3>2, <3>3 DEF Descriptor, Modes
  <2>3. CASE asgn1_read(q)
    <3>1. ~\E count \in ReadSizes : ReadCall(q, count)
      BY <1>1, <2>0 DEF ReadCall
    <3>2. ~\E n \in 1..PAGE_SIZE : CopyOut(q, n)
      <4> SUFFICES ASSUME NEW n, CopyOut(q, n) PROVE file'[p].pc = file[p].pc
        BY <1>1
      <4> QED BY <1>1, MovedOnly DEF CopyOut
    <3>3. CASE ReadEnd(q)
      BY <1>1, <2>0, <3>3 DEF ReadEnd, Return
    <3> QED BY <2>3, <3>1, <3>2, <3>3 DEF asgn1_read
  <2>4. CASE asgn1_write(q)
    <3>1. /\ ~\E d \in Data : WriteCall(q, d)
          /\ ~\E g \in Garbage : AddPage(q, g)
      BY <1>1, <2>0 DEF WriteCall, AddPage
    <3>2. ~CountPage(q) /\ ~WriteNoMemory(q) /\ ~WriteBegin(q) /\ ~Grow(q)
      BY <1>1, <2>0 DEF CountPage, WriteNoMemory, WriteBegin, Grow, Return
    <3>3. ~\E n \in 1..PAGE_SIZE : CopyIn(q, n)
      <4> SUFFICES ASSUME NEW n, CopyIn(q, n) PROVE file'[p].pc = file[p].pc
        BY <1>1
      <4> QED BY <1>1, MovedOnly DEF CopyIn
    <3>4. CASE WriteEnd(q)
      BY <1>1, <2>0, <3>4 DEF WriteEnd
    <3> QED BY <2>4, <3>1, <3>2, <3>3, <3>4 DEF asgn1_write
  <2>5. CASE Mapping(q)
    BY <1>1, <2>5 DEF Mapping, asgn1_mmap, MapStore, Unmap
  <2> QED BY <2>1, <2>2, <2>3, <2>4, <2>5
<1>2. RamInv /\ [RamNext]_ramVars => [Complete]_ramVars
  BY <1>1, ChunkOfLeft
<1> QED BY <1>2, RamInvariant, PTL DEF RamSpec, NoShortTransfer

-----------------------------------------------------------------------------
(***************************************************************************)
(* With one writer the ramdisk is a file.  What its calls rely on then, in *)
(* addition: nothing else moves data_size under a write, nothing makes it  *)
(* smaller under a read, and a position is zero until the file is open.    *)
(***************************************************************************)

CallInFile(p) ==
  /\ file[p].mode # "O_RDONLY" => p \in Writers
  /\ Writing(p) => /\ p \in Writers
                   /\ file[p].orig <= file[p].f_pos
                   /\ file[p].f_pos <= file[p].orig + Len(file[p].data)
  /\ file[p].pc \in {"closed", "opening"} => file[p].f_pos = 0
  /\ file[p].pc = "copy_out" =>
       file[p].left = 0 \/ file[p].f_pos + file[p].left <= data_size
  /\ file[p].pc = "grow" =>
       file[p].reg = data_size /\ file[p].f_pos = file[p].orig + Len(file[p].data)

FileInv == OneWriter /\ \A p \in Procs : CallInFile(p)

\* What a call has made longer already: the write whose position has moved on.
Grown(p) == Writing(p) /\ file[p].f_pos > file[p].orig

LEMMA FileInvInit == OneWriter /\ RamInit => FileInv
BY DEF RamInit, FileInv, CallInFile, Writing, Closed

\* A step of one process takes nothing away that the others rely on: only the
\* one writer moves data_size, and never back.
LEMMA FileFrame ==
  ASSUME RamInv, FileInv, NEW p \in Procs, \A q \in Procs \ {p} : file'[q] = file[q],
         \/ data_size' = data_size
         \/ Writing(p) /\ data_size' \in Nat /\ data_size <= data_size',
         CallInFile(p)'
  PROVE  FileInv'
<1>1. ASSUME NEW q \in Procs \ {p} PROVE CallInFile(q)'
  <2>1. file'[q] = file[q] /\ CallInFile(q) /\ CallInFile(p)
    BY DEF FileInv
  <2>2. Writing(q)' <=> Writing(q)
    BY <2>1 DEF Writing
  <2>3. CASE data_size' = data_size
    BY <2>1, <2>2, <2>3 DEF CallInFile
  <2>4. CASE Writing(p) /\ data_size' \in Nat /\ data_size <= data_size'
    <3>1. ~Writing(q)
      BY <2>1, <2>4 DEF CallInFile, FileInv, OneWriter
    <3>2. file[q].f_pos \in Nat /\ file[q].left \in Nat /\ data_size \in Nat
      BY DEF RamInv, RamTypes, OpenFiles
    <3>3. file[q].pc # "grow"
      BY <3>1 DEF Writing
    <3> QED BY <2>1, <2>2, <2>4, <3>1, <3>2, <3>3 DEF CallInFile
  <2> QED BY <2>3, <2>4
<1>2. OneWriter'
  BY DEF FileInv, OneWriter
<1> QED BY <1>1, <1>2 DEF FileInv

\* The end of a call keeps the mode and the position.
LEMMA FileReturn ==
  ASSUME RamInv, FileInv, NEW p \in Procs, Return(p), file[p].pc \in Inside
  PROVE  /\ CallInFile(p)' /\ ~Writing(p)' /\ file'[p].f_pos = file[p].f_pos
         /\ \A q \in Procs \ {p} : file'[q] = file[q]
<1>1. /\ file'[p] = [Closed EXCEPT !.pc = "idle", !.mode = file[p].mode, !.f_pos = file[p].f_pos]
      /\ \A q \in Procs \ {p} : file'[q] = file[q]
  BY DEF Return, RamInv, RamTypes
<1>2. file'[p].pc = "idle" /\ file'[p].mode = file[p].mode /\ file'[p].f_pos = file[p].f_pos
  BY <1>1 DEF Closed
<1>3. CallInFile(p)
  BY DEF FileInv
<1> QED BY <1>1, <1>2, <1>3 DEF CallInFile, Writing, Inside

-----------------------------------------------------------------------------
(* The size and the content of the file.                                   *)

LEMMA LargestIs ==
  ASSUME NEW E, E \subseteq Nat, NEW e \in E, \A x \in E : x <= e
  PROVE  (CHOOSE y \in E : \A x \in E : x <= y) = e
<1>1. \A y \in E : (\A x \in E : x <= y) => y = e
  <2> SUFFICES ASSUME NEW y \in E, \A x \in E : x <= y PROVE y = e
    OBVIOUS
  <2>1. y <= e /\ e <= y /\ y \in Nat /\ e \in Nat
    OBVIOUS
  <2> QED BY <2>1
<1> QED BY <1>1

SizeKnown ==
  /\ Size \in Nat /\ Size <= Room /\ data_size <= Size
  /\ \A p \in Procs : Grown(p) => Size = More(data_size, file[p].f_pos)
  /\ (\A p \in Procs : ~Grown(p)) => Size = data_size

LEMMA SizeIs == RamInv /\ FileInv => SizeKnown
<1> SUFFICES ASSUME RamInv, FileInv PROVE SizeKnown
  OBVIOUS
<1>1. data_size \in Nat /\ data_size <= Room /\ Room \in Nat
  <2>1. Len(mem_list) \in Nat
    BY DEF RamInv, RamTypes
  <2> QED BY <2>1, MorePagesHoldMore DEF RamInv, RamTypes, SizeInPages, Room
<1>2. Ends = {data_size} \cup {file[p].f_pos : p \in {q \in Procs : Grown(q)}}
  BY DEF Ends, Grown
<1>3. ASSUME \A p \in Procs : ~Grown(p) PROVE Size = data_size
  <2>1. Ends = {data_size}
    BY <1>2, <1>3
  <2> QED BY <1>1, <2>1, LargestIs DEF Size
<1>4. ASSUME NEW p \in Procs, Grown(p)
      PROVE  Size = More(data_size, file[p].f_pos) /\ file[p].f_pos \in Nat /\ file[p].f_pos <= Room
  <2>1. \A q \in Procs : Grown(q) => q = p
    BY <1>4 DEF Grown, FileInv, CallInFile, OneWriter
  <2>2. Ends = {data_size, file[p].f_pos}
    BY <1>2, <1>4, <2>1
  <2>3. /\ file[p].f_pos \in Nat /\ file[p].left \in Nat /\ file[p].orig \in Nat
        /\ CallInPages(p) /\ file[p].f_pos > file[p].orig
    BY <1>4 DEF RamInv, RamTypes, OpenFiles, Grown
  <2>4. file[p].pc \in {"copy_in", "grow"}
    BY <1>4, <2>3 DEF Grown, Writing, CallInPages
  <2>5. file[p].f_pos <= Room
    BY <1>1, <2>3, <2>4 DEF CallInPages
  <2> DEFINE e == More(data_size, file[p].f_pos)
  <2>6. e \in Ends /\ Ends \subseteq Nat /\ \A x \in Ends : x <= e
    BY <1>1, <2>2, <2>3 DEF More
  <2> HIDE DEF e
  <2>7. Size = e
    BY <2>6, LargestIs DEF Size
  <2> QED BY <2>3, <2>5, <2>7 DEF e
<1>5. CASE \E p \in Procs : Grown(p)
  <2>1. PICK p \in Procs : Grown(p)
    BY <1>5
  <2>2. Size = More(data_size, file[p].f_pos) /\ file[p].f_pos \in Nat /\ file[p].f_pos <= Room
    BY <1>4, <2>1
  <2> QED BY <1>1, <1>3, <1>4, <1>5, <2>2 DEF SizeKnown, More
<1>6. CASE \A p \in Procs : ~Grown(p)
  BY <1>1, <1>3, <1>6 DEF SizeKnown
<1> QED BY <1>5, <1>6

LEMMA SizeIsNext == (RamInv /\ FileInv)' => SizeKnown'
BY SizeIs, PTL

\* Where no write makes the file longer, its size stays.
LEMMA SameSize ==
  ASSUME NEW p \in Procs, \A q \in Procs \ {p} : file'[q] = file[q],
         \/ ~Grown(p) /\ ~Grown(p)'
         \/ Grown(p) /\ Grown(p)' /\ file'[p].f_pos = file[p].f_pos,
         data_size' = data_size
  PROVE  Size' = Size
<1>1. \A q \in Procs \ {p} : Grown(q)' <=> Grown(q)
  BY DEF Grown, Writing
<1>2. Ends = {data_size} \cup {file[q].f_pos : q \in {x \in Procs : Grown(x)}}
  BY DEF Ends, Grown
<1>3. Ends' = {data_size'} \cup {file'[q].f_pos : q \in {x \in Procs : Grown(x)'}}
  BY DEF Ends, Grown
<1>4. {file[q].f_pos : q \in {x \in Procs : Grown(x)}}
        = {file'[q].f_pos : q \in {x \in Procs : Grown(x)'}}
  <2>1. CASE ~Grown(p) /\ ~Grown(p)'
    BY <1>1, <2>1
  <2>2. CASE Grown(p) /\ Grown(p)' /\ file'[p].f_pos = file[p].f_pos
    BY <1>1, <2>2
  <2> QED BY <2>1, <2>2
<1>5. Ends' = Ends
  BY <1>2, <1>3, <1>4
<1> QED BY <1>5 DEF Size

LEMMA ByteAtType == ASSUME RamInv, NEW place \in Nat, place < Room PROVE ByteAt(place) \in 0..255
<1>1. mem_list \in Seq(Pages) /\ Len(mem_list) \in Nat
  BY DEF RamInv, RamTypes
<1> DEFINE k == place \div PAGE_SIZE
           o == place % PAGE_SIZE
<1>2. k \in 0..(Len(mem_list) - 1) /\ o \in PageOffsets
  BY <1>1, PlaceInPage DEF Room
<1> HIDE DEF k, o
<1>3. k + 1 \in 1..Len(mem_list)
  BY <1>1, <1>2
<1>4. mem_list[k + 1] \in Pages
  BY <1>1, <1>3
<1>5. mem_list[k + 1][o] \in 0..255
  BY <1>2, <1>4 DEF Pages
<1> QED BY <1>5 DEF ByteAt, k, o

ContentKnown ==
  /\ Content \in Seq(0..255) /\ Len(Content) = Size /\ DOMAIN Content = 1..Size
  /\ \A i \in 1..Size : Content[i] = ByteAt(i - 1)

LEMMA BytesOfFunction ==
  ASSUME NEW n \in Nat, NEW s \in [1..n -> 0..255]
  PROVE  s \in Seq(0..255) /\ Len(s) = n
OBVIOUS

LEMMA ContentIs == RamInv /\ FileInv => ContentKnown
<1> SUFFICES ASSUME RamInv, FileInv PROVE ContentKnown
  OBVIOUS
<1>1. Size \in Nat /\ Size <= Room /\ Room \in Nat
  <2>1. Len(mem_list) \in Nat
    BY DEF RamInv, RamTypes
  <2> QED BY <2>1, SizeIs, MorePagesHoldMore DEF SizeKnown, Room
<1>2. ASSUME NEW i \in 1..Size PROVE ByteAt(i - 1) \in 0..255
  <2>1. i - 1 \in Nat /\ i - 1 < Room
    BY <1>1
  <2> QED BY <2>1, ByteAtType
<1>3. Content \in [1..Size -> 0..255] /\ \A i \in 1..Size : Content[i] = ByteAt(i - 1)
  BY <1>2 DEF Content
<1> QED BY <1>1, <1>3, BytesOfFunction DEF ContentKnown

LEMMA ContentIsNext == (RamInv /\ FileInv)' => ContentKnown'
BY ContentIs, PTL

-----------------------------------------------------------------------------
(* Steps that leave the bytes alone.                                       *)

LEMMA PlaceStep ==
  ASSUME RamInv', NEW p \in Procs, \A q \in Procs \ {p} : file'[q] = file[q],
         Content' = Content, got' \in {got, [got EXCEPT ![p] = <<>>]}
  PROVE  Disk!Place(p)
<1>1. file'[p].f_pos \in Nat
  BY DEF RamInv, RamTypes, OpenFiles
<1>2. Positions' = [Positions EXCEPT ![p] = Positions'[p]] /\ Positions'[p] \in Nat
  BY <1>1 DEF Positions
<1>3. LeftToWrite' = [LeftToWrite EXCEPT ![p] = LeftToWrite'[p]]
  BY DEF LeftToWrite, Writing
<1> QED BY <1>2, <1>3 DEF Disk!Place

\* A step of a call that moves no byte and does not change what is written.
LEMMA OwnPlace ==
  ASSUME RamInv, FileInv, RamInv', NEW p \in Procs,
         \A q \in Procs \ {p} : file'[q] = file[q],
         UNCHANGED <<mem_list, data_size>>,
         \/ ~Grown(p) /\ ~Grown(p)'
         \/ Grown(p) /\ Grown(p)' /\ file'[p].f_pos = file[p].f_pos,
         got' \in {got, [got EXCEPT ![p] = <<>>]},
         CallInFile(p)'
  PROVE  FileInv' /\ Disk!Place(p)
<1>1. FileInv'
  BY FileFrame
<1>2. Size' = Size
  BY SameSize
<1>3. Content' = Content
  BY <1>2 DEF Content, ByteAt
<1> QED BY <1>1, <1>3, PlaceStep

LEMMA FileDescriptor ==
  ASSUME RamInv, FileInv, RamInv', NEW p \in Procs, Descriptor(p)
  PROVE  FileInv' /\ [Disk!FileNext]_<<Content, Positions, got, LeftToWrite>>
<1>0. /\ file \in [Procs -> OpenFiles] /\ file[p] \in OpenFiles /\ CallInFile(p)
  BY DEF RamInv, RamTypes, FileInv
<1>1. ASSUME NEW mode \in Modes, OpenTest(p, mode) PROVE FileInv' /\ Disk!Place(p)
  <2>1. /\ file' = [file EXCEPT ![p] = [file[p] EXCEPT !.pc = "opening", !.mode = mode]]
        /\ file[p].pc = "closed" /\ (mode # "O_RDONLY" => p \in Writers)
        /\ UNCHANGED <<mem_list, data_size>> /\ got' = got
    BY <1>0, <1>1 DEF OpenTest
  <2>2. /\ file'[p].pc = "opening" /\ file'[p].mode = mode /\ file'[p].f_pos = file[p].f_pos
        /\ \A q \in Procs \ {p} : file'[q] = file[q]
    BY <1>0, <2>1 DEF OpenFiles
  <2>3. CallInFile(p)' /\ ~Grown(p) /\ ~Grown(p)'
    BY <1>0, <2>1, <2>2 DEF CallInFile, Writing, Grown
  <2> QED BY <2>1, <2>2, <2>3, OwnPlace
<1>2. ASSUME OpenCount(p) PROVE FileInv' /\ (Disk!Place(p) \/ Disk!Truncate(p))
  <2>1. /\ file' = [file EXCEPT ![p] = [file[p] EXCEPT !.pc = "idle"]]
        /\ file[p].pc = "opening" /\ got' = got
    BY <1>0, <1>2 DEF OpenCount
  <2>2. /\ file'[p].pc = "idle" /\ file'[p].mode = file[p].mode /\ file'[p].f_pos = file[p].f_pos
        /\ \A q \in Procs \ {p} : file'[q] = file[q]
    BY <1>0, <2>1 DEF OpenFiles
  <2>3. CallInFile(p)' /\ ~Grown(p) /\ ~Grown(p)' /\ file[p].f_pos = 0
    BY <1>0, <2>1, <2>2 DEF CallInFile, Writing, Grown
  <2>4. CASE file[p].mode = "O_WRONLY"
    <3>1. /\ mem_list' = <<>> /\ data_size' = 0
          /\ \A q \in Procs \ {p} : file[q].pc \notin Inside
      BY <1>2, <2>4 DEF OpenCount, Undisturbed, free_memory_pages
    <3>2. ASSUME NEW q \in Procs \ {p} PROVE CallInFile(q)'
      <4>1. CallInFile(q) /\ file[q].pc \notin Inside /\ file'[q] = file[q]
        BY <2>2, <3>1 DEF FileInv
      <4> QED BY <4>1 DEF CallInFile, Writing, Inside
    <3>3. FileInv'
      BY <2>3, <3>2 DEF FileInv, OneWriter
    <3>4. \A q \in Procs : ~Grown(q)'
      BY <2>2, <2>3, <3>1 DEF Grown, Writing, Inside
    <3>5. Size' = 0 /\ Content' = <<>>
      <4>1. Size' = 0
        BY <3>1, <3>3, <3>4, SizeIsNext DEF SizeKnown
      <4> QED BY <4>1 DEF Content
    <3>6. Positions' = [Positions EXCEPT ![p] = 0]
      BY <2>2, <2>3 DEF Positions
    <3>7. LeftToWrite' = LeftToWrite
      BY <2>1, <2>2 DEF LeftToWrite, Writing
    <3> QED BY <2>1, <3>3, <3>5, <3>6, <3>7 DEF Disk!Truncate
  <2>5. CASE file[p].mode # "O_WRONLY"
    <3>1. UNCHANGED <<mem_list, data_size>>
      BY <1>2, <2>5 DEF OpenCount
    <3> QED BY <2>1, <2>2, <2>3, <3>1, OwnPlace
  <2> QED BY <2>4, <2>5
<1>3. ASSUME asgn1_release(p) PROVE FileInv' /\ Disk!Place(p)
  <2>1. /\ file'[p] = Closed /\ file[p].pc = "idle" /\ got' = got
        /\ UNCHANGED <<mem_list, data_size>>
        /\ \A q \in Procs \ {p} : file'[q] = file[q]
    BY <1>0, <1>3 DEF asgn1_release
  <2>2. CallInFile(p)' /\ ~Grown(p) /\ ~Grown(p)'
    BY <2>1 DEF CallInFile, Writing, Grown, Closed
  <2> QED BY <2>1, <2>2, OwnPlace
<1>4. ASSUME NEW n \in IoctlArgs, asgn1_ioctl(p, n)
      PROVE  FileInv' /\ UNCHANGED <<Content, Positions, got, LeftToWrite>>
  <2>1. UNCHANGED <<file, mem_list, data_size, got>>
    BY <1>4 DEF asgn1_ioctl
  <2> QED BY <2>1 DEF FileInv, CallInFile, Writing, Content, ByteAt, Size, Ends, Positions,
                      LeftToWrite, OneWriter
<1>5. ASSUME NEW whence \in {"SEEK_SET", "SEEK_CUR", "SEEK_END"}, NEW offset \in Moves,
             asgn1_lseek(p, whence, offset)
      PROVE  FileInv' /\ Disk!Place(p)
  <2>1. /\ file[p].pc = "idle" /\ got' = got /\ UNCHANGED <<mem_list, data_size>>
        /\ \E place : file' = [file EXCEPT ![p].f_pos = place]
    BY <1>5 DEF asgn1_lseek
  <2>2. PICK place : file' = [file EXCEPT ![p] = [file[p] EXCEPT !.f_pos = place]]
    BY <2>1
  <2>3. /\ file'[p].pc = "idle" /\ file'[p].mode = file[p].mode
        /\ \A q \in Procs \ {p} : file'[q] = file[q]
    BY <1>0, <2>1, <2>2 DEF OpenFiles
  <2>4. CallInFile(p)' /\ ~Grown(p) /\ ~Grown(p)'
    BY <1>0, <2>1, <2>3 DEF CallInFile, Writing, Grown
  <2> QED BY <2>1, <2>3, <2>4, OwnPlace
<1> QED BY <1>1, <1>2, <1>3, <1>4, <1>5 DEF Descriptor, Modes, Disk!FileNext

-----------------------------------------------------------------------------
(* Reading.                                                                *)

LEMMA FileCopyOut ==
  ASSUME RamInv, FileInv, RamInv', NEW p \in Procs, NEW n \in 1..PAGE_SIZE, CopyOut(p, n)
  PROVE  FileInv' /\ Disk!Read(p)
<1>0. /\ file \in [Procs -> OpenFiles] /\ file[p] \in OpenFiles /\ CallInFile(p)
      /\ file[p].f_pos \in Nat /\ file[p].left \in Nat /\ data_size \in Nat
  BY DEF RamInv, RamTypes, FileInv, OpenFiles
<1>n. n \in Nat
  BY RamPageAssumption
<1>1. /\ file[p].pc = "copy_out" /\ n \in 1..Chunk(p)
      /\ got' = [got EXCEPT ![p] = @ \o [i \in 1..n |-> ByteAt(file[p].f_pos + i - 1)]]
      /\ file' = [file EXCEPT ![p] = [file[p] EXCEPT !.f_pos = @ + n, !.left = @ - n]]
      /\ UNCHANGED <<mem_list, data_size>>
  BY <1>0 DEF CopyOut
<1>2. n \in 1..file[p].left
  BY <1>0, <1>n, <1>1, ChunkOfLeft
<1>3. /\ file'[p].pc = "copy_out" /\ file'[p].mode = file[p].mode
      /\ file'[p].f_pos = file[p].f_pos + n /\ file'[p].left = file[p].left - n
      /\ \A q \in Procs \ {p} : file'[q] = file[q]
  BY <1>0, <1>n, <1>1 DEF OpenFiles
<1>4. file[p].f_pos + file[p].left <= data_size
  BY <1>0, <1>n, <1>1, <1>2 DEF CallInFile
<1>5. CallInFile(p)' /\ ~Grown(p) /\ ~Grown(p)' /\ ~Writing(p) /\ ~Writing(p)'
  <2>1. file'[p].f_pos + file'[p].left <= data_size'
    BY <1>0, <1>n, <1>1, <1>2, <1>3, <1>4
  <2> QED BY <1>0, <1>n, <1>1, <1>3, <2>1 DEF CallInFile, Writing, Grown
<1>6. FileInv'
  BY <1>1, <1>3, <1>5, FileFrame
<1>7. Content' = Content
  <2>1. Size' = Size
    BY <1>1, <1>3, <1>5, SameSize
  <2> QED BY <1>1, <2>1 DEF Content, ByteAt
<1>8. Len(Content) = Size /\ data_size <= Size /\ Size \in Nat /\ Content \in Seq(0..255)
  BY ContentIs, SizeIs DEF ContentKnown, SizeKnown
<1>9. file[p].f_pos + n <= Size
  BY <1>0, <1>n, <1>2, <1>4, <1>8
<1>10. [i \in 1..n |-> ByteAt(file[p].f_pos + i - 1)]
         = SubSeq(Content, file[p].f_pos + 1, file[p].f_pos + n)
  <2>1. ASSUME NEW i \in 1..n
        PROVE  Content[file[p].f_pos + i] = ByteAt(file[p].f_pos + i - 1)
    <3> DEFINE a == file[p].f_pos
    <3>1. a \in Nat /\ a + n <= Size
      BY <1>0, <1>n, <1>9
    <3> HIDE DEF a
    <3>2. a + i \in 1..Size
      BY <1>n, <1>8, <3>1
    <3>3. Content[a + i] = ByteAt((a + i) - 1)
      BY <3>2, ContentIs DEF ContentKnown
    <3>4. (a + i) - 1 = a + i - 1
      BY <1>n, <3>1
    <3>5. Content[a + i] = ByteAt(a + i - 1)
      BY <3>3, <3>4
    <3> QED BY <3>5 DEF a
  <2>2. [i \in 1..n |-> ByteAt(file[p].f_pos + i - 1)]
          = [i \in 1..n |-> Content[file[p].f_pos + i]]
    BY <2>1
  <2>3. SubSeq(Content, file[p].f_pos + 1, file[p].f_pos + n)
          = [i \in 1..n |-> Content[file[p].f_pos + i]]
    <3> DEFINE a == file[p].f_pos
    <3>1. a \in Nat
      BY <1>0
    <3> HIDE DEF a
    <3>2. SubSeq(Content, a + 1, a + n) = [i \in 1..n |-> Content[a + i]]
      BY <1>0, <1>n, <1>8, <3>1
    <3> QED BY <3>2 DEF a
  <2> QED BY <2>2, <2>3
<1>11. Positions' = [Positions EXCEPT ![p] = @ + n]
  BY <1>3 DEF Positions
<1>12. LeftToWrite' = LeftToWrite
  BY <1>3, <1>5 DEF LeftToWrite, Writing
<1>13. n \in 1..(Len(Content) - Positions[p]) /\ Positions[p] = file[p].f_pos
  BY <1>0, <1>n, <1>2, <1>8, <1>9 DEF Positions
<1>14. got' = [got EXCEPT ![p] = @ \o SubSeq(Content, Positions[p] + 1, Positions[p] + n)]
  BY <1>1, <1>10, <1>13
<1> QED BY <1>6, <1>7, <1>11, <1>12, <1>13, <1>14 DEF Disk!Read

LEMMA FileRead ==
  ASSUME RamInv, FileInv, RamInv', NEW p \in Procs, asgn1_read(p)
  PROVE  FileInv' /\ [Disk!FileNext]_<<Content, Positions, got, LeftToWrite>>
<1>0. /\ file \in [Procs -> OpenFiles] /\ file[p] \in OpenFiles /\ CallInFile(p)
      /\ file[p].f_pos \in Nat /\ data_size \in Nat
  BY DEF RamInv, RamTypes, FileInv, OpenFiles
<1>1. ASSUME NEW count \in ReadSizes, ReadCall(p, count) PROVE FileInv' /\ Disk!Place(p)
  <2> DEFINE l == Fewer(count, data_size - file[p].f_pos)
  <2>1. /\ file' = [file EXCEPT ![p] = [file[p] EXCEPT !.pc = "copy_out", !.left = l]]
        /\ file[p].pc = "idle" /\ file[p].f_pos <= data_size
        /\ UNCHANGED <<mem_list, data_size>> /\ got' = got
    BY <1>0, <1>1 DEF ReadCall
  <2>2. l \in Nat /\ file[p].f_pos + l <= data_size
    BY <1>0, <2>1, RamArgsAssumption DEF Fewer
  <2> HIDE DEF l
  <2>3. /\ file'[p].pc = "copy_out" /\ file'[p].mode = file[p].mode
        /\ file'[p].f_pos = file[p].f_pos /\ file'[p].left = l
        /\ \A q \in Procs \ {p} : file'[q] = file[q]
    BY <1>0, <2>1 DEF OpenFiles
  <2>4. CallInFile(p)' /\ ~Grown(p) /\ ~Grown(p)'
    BY <1>0, <2>1, <2>2, <2>3 DEF CallInFile, Writing, Grown
  <2> QED BY <2>1, <2>3, <2>4, OwnPlace
<1>2. ASSUME ReadEnd(p) PROVE FileInv' /\ Disk!Place(p)
  <2>1. /\ file[p].pc = "copy_out" /\ Return(p) /\ got' = [got EXCEPT ![p] = <<>>]
        /\ UNCHANGED <<mem_list, data_size>>
    BY <1>2 DEF ReadEnd
  <2>2. /\ CallInFile(p)' /\ ~Writing(p)' /\ \A q \in Procs \ {p} : file'[q] = file[q]
    BY <2>1, FileReturn DEF Inside
  <2>3. ~Grown(p) /\ ~Grown(p)'
    BY <2>1, <2>2 DEF Grown, Writing
  <2> QED BY <2>1, <2>2, <2>3, OwnPlace
<1> QED BY <1>1, <1>2, FileCopyOut DEF asgn1_read, Disk!FileNext

-----------------------------------------------------------------------------
(* Writing.                                                                *)

\* Two places of one page are as far apart as their offsets; the places of a
\* round that stays within its page are on no other.
LEMMA PlacesOfPage ==
  ASSUME NEW f \in Nat, NEW place \in Nat, NEW n \in Nat, n <= PAGE_SIZE - (f % PAGE_SIZE)
  PROVE  /\ place \div PAGE_SIZE = f \div PAGE_SIZE
              => place - f = (place % PAGE_SIZE) - (f % PAGE_SIZE)
         /\ place \div PAGE_SIZE # f \div PAGE_SIZE => place < f \/ place >= f + n
<1> DEFINE q == place \div PAGE_SIZE
           r == place % PAGE_SIZE
           u == f \div PAGE_SIZE
           v == f % PAGE_SIZE
<1>0. PAGE_SIZE \in Nat /\ PAGE_SIZE > 0
  BY RamPageAssumption
<1>1. /\ q \in Nat /\ u \in Nat /\ r \in 0..(PAGE_SIZE - 1) /\ v \in 0..(PAGE_SIZE - 1)
      /\ place = q * PAGE_SIZE + r /\ f = u * PAGE_SIZE + v /\ n <= PAGE_SIZE - v
  BY <1>0
<1> HIDE DEF q, r, u, v
<1>2. q * PAGE_SIZE \in Nat /\ u * PAGE_SIZE \in Nat
  BY <1>0, <1>1
<1>3. ASSUME q = u PROVE place - f = r - v
  BY <1>0, <1>1, <1>2, <1>3
<1>4. ASSUME u < q PROVE place >= f + n
  <2>1. (u + 1) * PAGE_SIZE <= q * PAGE_SIZE
    BY <1>1, <1>4, MorePagesHoldMore
  <2>2. (u + 1) * PAGE_SIZE = u * PAGE_SIZE + PAGE_SIZE
    BY <1>0, <1>1
  <2> QED BY <1>0, <1>1, <1>2, <2>1, <2>2
<1>5. ASSUME q < u PROVE place < f
  <2>1. (q + 1) * PAGE_SIZE <= u * PAGE_SIZE
    BY <1>1, <1>5, MorePagesHoldMore
  <2>2. (q + 1) * PAGE_SIZE = q * PAGE_SIZE + PAGE_SIZE
    BY <1>0, <1>1
  <2> QED BY <1>0, <1>1, <1>2, <2>1, <2>2
<1>6. q = u \/ u < q \/ q < u
  BY <1>1
<1> QED BY <1>3, <1>4, <1>5, <1>6 DEF q, r, u, v

\* What a round of the copy leaves at each place.
LEMMA CopiedByte ==
  ASSUME RamInv, NEW p \in Procs, NEW n \in 1..PAGE_SIZE, CopyIn(p, n),
         NEW place \in Nat, place < Room
  PROVE  ByteAt(place)' = IF place \in file[p].f_pos..(file[p].f_pos + n - 1)
                          THEN Source(p, place - file[p].f_pos + 1) ELSE ByteAt(place)
<1> DEFINE f == file[p].f_pos
           k == f \div PAGE_SIZE + 1
           off == f % PAGE_SIZE
           j == place \div PAGE_SIZE + 1
           o == place % PAGE_SIZE
           page == [x \in PageOffsets |-> IF x - off \in 0..(n - 1)
                                          THEN Source(p, x - off + 1) ELSE mem_list[k][x]]
<1>0. /\ f \in Nat /\ file[p].left \in Nat /\ mem_list \in Seq(Pages)
      /\ Len(mem_list) \in Nat
  BY DEF RamInv, RamTypes, OpenFiles
<1>n. n \in Nat /\ PAGE_SIZE \in Nat /\ PAGE_SIZE > 0
  BY RamPageAssumption
<1>1. file[p].pc = "copy_in" /\ n \in 1..Chunk(p) /\ mem_list' = [mem_list EXCEPT ![k] = page]
  BY DEF CopyIn
<1>2. n <= PAGE_SIZE - off
  <2>1. Chunk(p) <= PAGE_SIZE - off
    <3>1. off \in 0..(PAGE_SIZE - 1)
      BY <1>0, <1>n
    <3> HIDE DEF off
    <3>2. CASE file[p].f_pos \div PAGE_SIZE >= Len(mem_list)
      BY <1>n, <3>1, <3>2 DEF Chunk
    <3>3. CASE ~(file[p].f_pos \div PAGE_SIZE >= Len(mem_list))
      <4>1. Chunk(p) = Fewer(file[p].left, PAGE_SIZE - off)
        BY <3>3 DEF Chunk, off
      <4> QED BY <1>0, <1>n, <3>1, <4>1 DEF Fewer
    <3> QED BY <3>2, <3>3
  <2>2. Chunk(p) \in Nat
    BY <1>0, <1>1, ChunkOfLeft
  <2>3. off \in Nat
    BY <1>0, <1>n
  <2> QED BY <1>n, <1>1, <2>1, <2>2, <2>3
<1>3. j \in 1..Len(mem_list) /\ o \in PageOffsets
  <2>1. place \div PAGE_SIZE \in 0..(Len(mem_list) - 1) /\ o \in PageOffsets
    BY <1>0, PlaceInPage DEF Room
  <2> QED BY <1>0, <2>1
<1>4. /\ j = k => place - f = o - off
      /\ j # k => place < f \/ place >= f + n
  <2>1. /\ place \div PAGE_SIZE = f \div PAGE_SIZE => place - f = o - off
        /\ place \div PAGE_SIZE # f \div PAGE_SIZE => place < f \/ place >= f + n
    BY <1>0, <1>n, <1>2, PlacesOfPage
  <2>2. place \div PAGE_SIZE \in Int /\ f \div PAGE_SIZE \in Int
    BY <1>0, <1>n
  <2>3. j = k <=> place \div PAGE_SIZE = f \div PAGE_SIZE
    BY <2>2
  <2> QED BY <2>1, <2>3
<1>5. ByteAt(place)' = mem_list'[j][o] /\ ByteAt(place) = mem_list[j][o]
  BY DEF ByteAt
<1> HIDE DEF f, k, off, j, o, page
<1>6. mem_list'[j] = IF j = k THEN page ELSE mem_list[j]
  BY <1>0, <1>1, <1>3
<1>7. CASE j # k
  <2>1. ~(place \in f..(f + n - 1))
    BY <1>0, <1>n, <1>4, <1>7
  <2> QED BY <1>5, <1>6, <1>7, <2>1 DEF f
<1>8. CASE j = k
  <2>1. page[o] = IF o - off \in 0..(n - 1) THEN Source(p, o - off + 1) ELSE mem_list[k][o]
    BY <1>3 DEF page
  <2>2. place - f = o - off
    BY <1>4, <1>8
  <2>3. place \in f..(f + n - 1) <=> place - f \in 0..(n - 1)
    BY <1>0, <1>n
  <2>4. ByteAt(place)' = IF place \in f..(f + n - 1) THEN Source(p, place - f + 1)
                         ELSE ByteAt(place)
    BY <1>5, <1>6, <1>8, <2>1, <2>2, <2>3
  <2> QED BY <2>4 DEF f
<1> QED BY <1>7, <1>8

\* What is left of a buffer after another n bytes.
LEMMA RestOfBuffer ==
  ASSUME NEW S, NEW s \in Seq(S), NEW a \in Nat, NEW n \in Nat, a + n <= Len(s),
         NEW t, t = SubSeq(s, a + 1, Len(s))
  PROVE  /\ Len(t) = Len(s) - a
         /\ \A i \in 1..n : t[i] = s[a + i]
         /\ SubSeq(t, n + 1, Len(t)) = SubSeq(s, a + n + 1, Len(s))
<1>1. Len(s) \in Nat
  OBVIOUS
<1>2. t \in Seq(S) /\ Len(t) = Len(s) - a /\ \A i \in 1..(Len(s) - a) : t[i] = s[a + i]
  BY <1>1
<1>3. \A i \in 1..n : t[i] = s[a + i]
  BY <1>1, <1>2
<1> DEFINE x == SubSeq(t, n + 1, Len(t))
           y == SubSeq(s, a + n + 1, Len(s))
           m == Len(s) - a - n
<1>4. m \in Nat
  BY <1>1
<1>5. x \in Seq(S) /\ Len(x) = m /\ \A i \in 1..m : x[i] = t[n + i]
  BY <1>1, <1>2
<1>6. y \in Seq(S) /\ Len(y) = m /\ \A i \in 1..m : y[i] = s[a + n + i]
  BY <1>1
<1>7. \A i \in 1..m : t[n + i] = s[a + n + i]
  <2> SUFFICES ASSUME NEW i \in 1..m PROVE t[n + i] = s[a + n + i]
    OBVIOUS
  <2>1. n + i \in 1..(Len(s) - a)
    BY <1>1
  <2>2. a + (n + i) = a + n + i
    BY <1>1
  <2> QED BY <1>2, <2>1, <2>2
<1> HIDE DEF x, y, m
<1>8. x = y
  <2>1. \A i \in 1..m : x[i] = y[i]
    BY <1>5, <1>6, <1>7
  <2> QED BY <1>4, <1>5, <1>6, <2>1
<1> QED BY <1>2, <1>3, <1>8 DEF x, y

\* A round of the copy is a part of a write of the file: the bytes from the
\* position on are the next of the buffer, every other byte stays, and the file
\* is longer where the round ends beyond its end.
LEMMA FileCopyIn ==
  ASSUME RamInv, FileInv, RamInv', NEW p \in Procs, NEW n \in 1..PAGE_SIZE, CopyIn(p, n)
  PROVE  FileInv' /\ Disk!Write(p)
<1> DEFINE f == file[p].f_pos
           a == file[p].f_pos - file[p].orig
           d == file[p].data
<1>0. /\ file \in [Procs -> OpenFiles] /\ file[p] \in OpenFiles /\ CallInFile(p) /\ CallInPages(p)
      /\ f \in Nat /\ file[p].left \in Nat /\ file[p].orig \in Nat
      /\ data_size \in Nat /\ d \in Seq(0..255) /\ Len(d) \in Nat
  <2>1. /\ file \in [Procs -> OpenFiles] /\ file[p] \in OpenFiles /\ data_size \in Nat
        /\ CallInFile(p) /\ CallInPages(p)
    BY DEF RamInv, RamTypes, FileInv
  <2>2. /\ f \in Nat /\ file[p].left \in Nat /\ file[p].orig \in Nat /\ d \in Seq(0..255)
    BY <2>1 DEF OpenFiles
  <2>3. Len(d) \in Nat
    BY <2>2
  <2> QED BY <2>1, <2>2, <2>3
<1>n. n \in Nat /\ n > 0
  BY RamPageAssumption
<1>1. /\ file[p].pc = "copy_in" /\ n \in 1..Chunk(p)
      /\ file' = [file EXCEPT ![p] = [file[p] EXCEPT !.f_pos = @ + n, !.left = @ - n]]
      /\ UNCHANGED <<data_size, got>>
  BY <1>0 DEF CopyIn
<1>2. n \in 1..file[p].left
  BY <1>0, <1>n, <1>1, ChunkOfLeft
<1>3. /\ file'[p].pc = "copy_in" /\ file'[p].mode = file[p].mode
      /\ file'[p].f_pos = f + n /\ file'[p].orig = file[p].orig /\ file'[p].data = d
      /\ \A q \in Procs \ {p} : file'[q] = file[q]
  BY <1>0, <1>1 DEF OpenFiles
<1>4. a \in Nat /\ a + n <= Len(d) /\ f + n <= file[p].orig + Len(d) /\ f = file[p].orig + a
  <2>1. f + file[p].left = file[p].orig + Len(d) /\ file[p].orig <= f
    BY <1>0, <1>1 DEF CallInPages
  <2> QED BY <1>0, <1>n, <1>2, <2>1
<1>5. CallInFile(p)' /\ Writing(p) /\ Writing(p)' /\ Grown(p)'
  <2>1. Writing(p) /\ Writing(p)'
    BY <1>1, <1>3 DEF Writing
  <2>2. file'[p].orig <= file'[p].f_pos /\ file'[p].f_pos > file'[p].orig
    BY <1>0, <1>n, <1>3, <1>4
  <2>3. file'[p].f_pos <= file'[p].orig + Len(file'[p].data)
    BY <1>3, <1>4
  <2> QED BY <1>0, <1>3, <2>1, <2>2, <2>3 DEF CallInFile, Grown
<1>6. FileInv'
  BY <1>1, <1>3, <1>5, FileFrame
<1>7. Room' = Room /\ Room \in Nat
  <2>1. Len(mem_list') = Len(mem_list) /\ Len(mem_list) \in Nat
    BY DEF CopyIn, RamInv, RamTypes
  <2> QED BY <2>1, MorePagesHoldMore DEF Room
<1>8. ContentKnown /\ ContentKnown' /\ SizeKnown /\ SizeKnown'
  BY <1>6, ContentIs, ContentIsNext, SizeIs, SizeIsNext
<1>9. Size \in Nat /\ Size' \in Nat /\ Size' = IF f + n > Size THEN f + n ELSE Size
  <2>1. Size \in Nat /\ Size' \in Nat /\ Size' = More(data_size, f + n)
    BY <1>1, <1>3, <1>5, <1>8 DEF SizeKnown
  <2>2. CASE Grown(p)
    <3>1. Size = More(data_size, f)
      BY <1>8, <2>2 DEF SizeKnown
    <3> QED BY <1>0, <1>n, <2>1, <3>1 DEF More
  <2>3. CASE ~Grown(p)
    <3>1. \A q \in Procs : ~Grown(q)
      BY <1>5, <2>3 DEF Grown, FileInv, CallInFile, OneWriter
    <3>2. Size = data_size
      BY <1>8, <3>1 DEF SizeKnown
    <3> QED BY <1>0, <1>n, <2>1, <3>2 DEF More
  <2> QED BY <2>2, <2>3
<1>10. /\ Positions[p] = f /\ Positions' = [Positions EXCEPT ![p] = f + n]
       /\ LeftToWrite[p] = SubSeq(d, a + 1, Len(d))
       /\ LeftToWrite' = [LeftToWrite EXCEPT ![p] = SubSeq(d, a + n + 1, Len(d))]
  <2>1. Positions[p] = f /\ Positions' = [Positions EXCEPT ![p] = f + n]
    BY <1>3 DEF Positions
  <2>2. LeftToWrite[p] = SubSeq(d, a + 1, Len(d))
    BY <1>5 DEF LeftToWrite
  <2>3. LeftToWrite'[p] = SubSeq(d, a + n + 1, Len(d))
    <3>1. (f + n) - file[p].orig + 1 = a + n + 1
      BY <1>0, <1>n
    <3>2. LeftToWrite'[p] = SubSeq(d, (f + n) - file[p].orig + 1, Len(d))
      BY <1>3, <1>5 DEF LeftToWrite
    <3> QED BY <3>1, <3>2
  <2>4. \A q \in Procs \ {p} : LeftToWrite'[q] = LeftToWrite[q]
    BY <1>3 DEF LeftToWrite, Writing
  <2>5. /\ DOMAIN LeftToWrite = Procs /\ DOMAIN LeftToWrite' = Procs
        /\ LeftToWrite = [q \in Procs |-> LeftToWrite[q]]
        /\ LeftToWrite' = [q \in Procs |-> LeftToWrite'[q]]
    BY DEF LeftToWrite
  <2> HIDE DEF a, d, f
  <2>6. LeftToWrite' = [LeftToWrite EXCEPT ![p] = SubSeq(d, a + n + 1, Len(d))]
    BY <2>3, <2>4, <2>5
  <2> QED BY <2>1, <2>2, <2>6
<1> DEFINE t == LeftToWrite[p]
<1>11. /\ Len(t) = Len(d) - a
       /\ \A i \in 1..n : t[i] = d[a + i]
       /\ SubSeq(t, n + 1, Len(t)) = SubSeq(d, a + n + 1, Len(d))
  <2>1. t = SubSeq(d, a + 1, Len(d))
    BY <1>10
  <2> HIDE DEF a, d, t
  <2> QED BY <1>0, <1>n, <1>4, <2>1, RestOfBuffer
<1>12. ASSUME NEW i \in 1..Size'
       PROVE  Content'[i] = IF i \in (f + 1)..(f + n) THEN t[i - f]
                            ELSE IF i <= Size THEN Content[i] ELSE Content'[i]
  <2>1. i \in Nat /\ i - 1 \in Nat /\ i - 1 < Room
    BY <1>7, <1>8, <1>9 DEF SizeKnown
  <2>2. Content'[i] = ByteAt(i - 1)'
    BY <1>8 DEF ContentKnown
  <2>3. ByteAt(i - 1)' = IF i - 1 \in f..(f + n - 1) THEN Source(p, (i - 1) - f + 1)
                         ELSE ByteAt(i - 1)
    BY <2>1, CopiedByte
  <2>4. CASE i \in (f + 1)..(f + n)
    <3>1. i - 1 \in f..(f + n - 1) /\ i - f \in 1..n
      BY <1>0, <1>n, <2>1, <2>4
    <3>2. (i - 1) - f + 1 = i - f
      BY <1>0, <2>1
    <3>3. Source(p, i - f) = d[a + (i - f)]
      BY DEF Source
    <3>4. t[i - f] = d[a + (i - f)]
      BY <1>11, <3>1
    <3> QED BY <2>2, <2>3, <2>4, <3>1, <3>2, <3>3, <3>4
  <2>5. CASE ~(i \in (f + 1)..(f + n)) /\ i <= Size
    <3>1. ~(i - 1 \in f..(f + n - 1))
      BY <1>0, <1>n, <2>1, <2>5
    <3>2. Content[i] = ByteAt(i - 1)
      <4>1. i \in 1..Size
        BY <1>9, <2>5
      <4> QED BY <1>8, <4>1 DEF ContentKnown
    <3> QED BY <2>2, <2>3, <2>5, <3>1, <3>2
  <2> QED BY <2>4, <2>5
<1>13. Len(Content) = Size /\ Len(Content') = Size' /\ DOMAIN Content' = 1..Size'
  BY <1>8 DEF ContentKnown
<1>14. n \in 0..Len(t)
  BY <1>0, <1>n, <1>4, <1>11
<1> HIDE DEF a, d, t, f
<1>15. /\ Len(Content') = IF f + n > Len(Content) THEN f + n ELSE Len(Content)
       /\ \A i \in DOMAIN Content' :
            Content'[i] = IF i \in (f + 1)..(f + n) THEN t[i - f]
                          ELSE IF i <= Len(Content) THEN Content[i] ELSE Content'[i]
       /\ Positions' = [Positions EXCEPT ![p] = f + n]
       /\ LeftToWrite' = [LeftToWrite EXCEPT ![p] = SubSeq(t, n + 1, Len(t))]
  BY <1>9, <1>10, <1>11, <1>12, <1>13
<1>16. got' = got
  BY <1>1
<1>17. Positions[p] = f /\ LeftToWrite[p] = t
  BY <1>10 DEF t
<1>18. Disk!Write(p)
  BY <1>14, <1>15, <1>16, <1>17 DEF Disk!Write
<1> QED BY <1>6, <1>18

\* A page more moves no byte, and the disk as it is needs none of its bytes.
LEMMA PageAdded ==
  ASSUME RamInv, FileInv, FileInv', RamInv', NEW page, mem_list' = Append(mem_list, page),
         Size' = Size
  PROVE  Content' = Content
<1>1. mem_list \in Seq(Pages) /\ Len(mem_list) \in Nat
  BY DEF RamInv, RamTypes
<1>2. SizeKnown /\ Room \in Nat
  BY <1>1, SizeIs, MorePagesHoldMore DEF Room
<1>3. ASSUME NEW i \in 1..Size PROVE ByteAt(i - 1)' = ByteAt(i - 1)
  <2> DEFINE k == (i - 1) \div PAGE_SIZE
             o == (i - 1) % PAGE_SIZE
  <2>1. i - 1 \in Nat /\ i - 1 < Room
    BY <1>2 DEF SizeKnown
  <2>2. k \in 0..(Len(mem_list) - 1)
    BY <1>1, <2>1, PlaceInPage DEF Room
  <2>3. ByteAt(i - 1)' = mem_list'[k + 1][o] /\ ByteAt(i - 1) = mem_list[k + 1][o]
    BY DEF ByteAt
  <2> HIDE DEF k, o
  <2>4. k + 1 \in 1..Len(mem_list)
    BY <1>1, <2>2
  <2>5. mem_list'[k + 1] = mem_list[k + 1]
    BY <1>1, <2>4
  <2> QED BY <2>3, <2>5
<1>4. Content = [i \in 1..Size |-> ByteAt(i - 1)] /\ Content' = [i \in 1..Size' |-> ByteAt(i - 1)']
  BY DEF Content
<1> QED BY <1>3, <1>4

\* The steps of a write before its copy, and the end of its loop.
LEMMA FileWriteQuiet ==
  ASSUME RamInv, FileInv, RamInv', NEW p \in Procs,
         \/ \E d \in Data : WriteCall(p, d)
         \/ CountPage(p) \/ WriteNoMemory(p) \/ WriteBegin(p) \/ WriteEnd(p)
  PROVE  FileInv' /\ Disk!Place(p)
<1>0. /\ file \in [Procs -> OpenFiles] /\ file[p] \in OpenFiles /\ CallInFile(p) /\ CallInPages(p)
      /\ data_size \in Nat
  BY DEF RamInv, RamTypes, FileInv
<1>a. /\ file[p].f_pos \in Nat /\ file[p].orig \in Nat /\ file[p].left \in Nat
      /\ file[p].data \in Seq(0..255)
  BY <1>0 DEF OpenFiles
<1>b. Len(file[p].data) \in Nat
  BY <1>a
<1>1. ASSUME NEW d \in Data, WriteCall(p, d) PROVE FileInv' /\ Disk!Place(p)
  <2>1. /\ file' = [file EXCEPT ![p] = [file[p] EXCEPT !.pc = "alloc", !.orig = file[p].f_pos,
                                                      !.left = Len(d), !.data = d]]
        /\ file[p].pc = "idle" /\ file[p].mode # "O_RDONLY"
        /\ UNCHANGED <<mem_list, data_size>> /\ got' = got
    BY <1>0, <1>1 DEF WriteCall
  <2>2. /\ file'[p].pc = "alloc" /\ file'[p].mode = file[p].mode
        /\ file'[p].f_pos = file[p].f_pos /\ file'[p].orig = file[p].f_pos
        /\ file'[p].data = d
        /\ \A q \in Procs \ {p} : file'[q] = file[q]
    BY <1>0, <2>1 DEF OpenFiles
  <2>3. Len(d) \in Nat
    BY RamDataAssumption
  <2>4. file[p].f_pos <= file[p].f_pos + Len(d)
    BY <1>a, <2>3
  <2>5. CallInFile(p)' /\ ~Grown(p) /\ ~Grown(p)'
    BY <1>0, <1>a, <2>1, <2>2, <2>4 DEF CallInFile, Writing, Grown
  <2> QED BY <2>1, <2>2, <2>5, OwnPlace
<1>2. ASSUME file[p].pc \in {"num", "alloc"}, NEW pc \in {"alloc", "copy_in"},
             file' = [file EXCEPT ![p] = [file[p] EXCEPT !.pc = pc]],
             UNCHANGED <<mem_list, data_size, got>>
      PROVE  FileInv' /\ Disk!Place(p)
  <2>1. /\ file'[p].pc = pc /\ file'[p].mode = file[p].mode
        /\ file'[p].f_pos = file[p].f_pos /\ file'[p].orig = file[p].orig
        /\ file'[p].data = file[p].data
        /\ \A q \in Procs \ {p} : file'[q] = file[q]
    BY <1>0, <1>2 DEF OpenFiles
  <2>2. file[p].f_pos = file[p].orig
    BY <1>0, <1>2 DEF CallInPages
  <2>3. CallInFile(p)' /\ ~Grown(p) /\ ~Grown(p)'
    BY <1>0, <1>a, <1>2, <2>1, <2>2 DEF CallInFile, Writing, Grown
  <2> QED BY <1>2, <2>1, <2>3, OwnPlace
<1>3. ASSUME CountPage(p) PROVE FileInv' /\ Disk!Place(p)
  BY <1>0, <1>2, <1>3 DEF CountPage
<1>4. ASSUME WriteBegin(p) PROVE FileInv' /\ Disk!Place(p)
  BY <1>0, <1>2, <1>4 DEF WriteBegin
<1>5. ASSUME WriteNoMemory(p) PROVE FileInv' /\ Disk!Place(p)
  <2>1. /\ file[p].pc = "alloc" /\ Return(p) /\ got' = got /\ UNCHANGED <<mem_list, data_size>>
    BY <1>5 DEF WriteNoMemory
  <2>2. /\ CallInFile(p)' /\ ~Writing(p)' /\ \A q \in Procs \ {p} : file'[q] = file[q]
    BY <2>1, FileReturn DEF Inside
  <2>3. file[p].f_pos = file[p].orig
    BY <1>0, <2>1 DEF CallInPages
  <2>4. ~Grown(p) /\ ~Grown(p)'
    BY <1>a, <2>2, <2>3 DEF Grown
  <2> QED BY <2>1, <2>2, <2>4, OwnPlace
<1>6. ASSUME WriteEnd(p) PROVE FileInv' /\ Disk!Place(p)
  <2>1. /\ file' = [file EXCEPT ![p] = [file[p] EXCEPT !.pc = "grow", !.reg = data_size]]
        /\ file[p].pc = "copy_in" /\ Chunk(p) = 0
        /\ UNCHANGED <<mem_list, data_size>> /\ got' = got
    BY <1>0, <1>6 DEF WriteEnd
  <2>2. /\ file'[p].pc = "grow" /\ file'[p].mode = file[p].mode
        /\ file'[p].f_pos = file[p].f_pos /\ file'[p].orig = file[p].orig
        /\ file'[p].data = file[p].data /\ file'[p].reg = data_size
        /\ \A q \in Procs \ {p} : file'[q] = file[q]
    BY <1>0, <2>1 DEF OpenFiles
  <2>3. file[p].f_pos = file[p].orig + Len(file[p].data) /\ file[p].orig <= file[p].f_pos
    <3>1. file[p].left = 0
      BY <2>1, ChunkOfLeft
    <3> QED BY <1>0, <1>a, <1>b, <2>1, <3>1 DEF CallInPages
  <2>4. Writing(p) /\ Writing(p)' /\ (Grown(p)' <=> Grown(p))
    BY <2>1, <2>2 DEF Writing, Grown
  <2>5. CallInFile(p)'
    BY <1>0, <1>a, <1>b, <2>1, <2>2, <2>3, <2>4 DEF CallInFile
  <2> QED BY <2>1, <2>2, <2>4, <2>5, OwnPlace
<1> QED BY <1>1, <1>3, <1>4, <1>5, <1>6

LEMMA FileAddPage ==
  ASSUME RamInv, FileInv, RamInv', NEW p \in Procs, NEW g \in Garbage, AddPage(p, g)
  PROVE  FileInv' /\ Disk!Place(p)
<1>0. /\ file \in [Procs -> OpenFiles] /\ file[p] \in OpenFiles /\ CallInFile(p) /\ CallInPages(p)
  BY DEF RamInv, RamTypes, FileInv
<1>a. file[p].f_pos \in Nat /\ file[p].orig \in Nat
  BY <1>0 DEF OpenFiles
<1>1. /\ file' = [file EXCEPT ![p] = [file[p] EXCEPT !.pc = "num", !.reg = num_pages]]
      /\ file[p].pc = "alloc" /\ data_size' = data_size /\ got' = got
      /\ mem_list' = Append(mem_list, [o \in PageOffsets |-> g])
  BY <1>0 DEF AddPage
<1>2. /\ file'[p].pc = "num" /\ file'[p].mode = file[p].mode
      /\ file'[p].f_pos = file[p].f_pos /\ file'[p].orig = file[p].orig
      /\ file'[p].data = file[p].data
      /\ \A q \in Procs \ {p} : file'[q] = file[q]
  BY <1>0, <1>1 DEF OpenFiles
<1>3. file[p].f_pos = file[p].orig
  BY <1>0, <1>1 DEF CallInPages
<1>4. CallInFile(p)' /\ ~Grown(p) /\ ~Grown(p)'
  BY <1>0, <1>a, <1>1, <1>2, <1>3 DEF CallInFile, Writing, Grown
<1>5. FileInv' /\ Size' = Size
  BY <1>1, <1>2, <1>4, FileFrame, SameSize
<1>6. Content' = Content
  BY <1>1, <1>5, PageAdded
<1> QED BY <1>1, <1>2, <1>5, <1>6, PlaceStep

\* The end of a write, for the file the write of nothing more: its size is
\* stored, with the hole before a buffer of no bytes.
LEMMA FileGrow ==
  ASSUME RamInv, FileInv, RamInv', NEW p \in Procs, Grow(p)
  PROVE  FileInv' /\ Disk!Write(p)
<1>0. /\ file \in [Procs -> OpenFiles] /\ file[p] \in OpenFiles /\ CallInFile(p)
      /\ data_size \in Nat
  BY DEF RamInv, RamTypes, FileInv
<1>a. /\ file[p].f_pos \in Nat /\ file[p].orig \in Nat /\ file[p].data \in Seq(0..255)
  BY <1>0 DEF OpenFiles
<1>b. Len(file[p].data) \in Nat
  BY <1>a
<1>1. /\ file[p].pc = "grow" /\ Return(p) /\ mem_list' = mem_list /\ got' = got
      /\ data_size' = More(data_size, file[p].f_pos)
  BY <1>0 DEF Grow, CallInFile
<1>2. /\ CallInFile(p)' /\ ~Writing(p)' /\ file'[p].f_pos = file[p].f_pos
      /\ \A q \in Procs \ {p} : file'[q] = file[q]
  BY <1>1, FileReturn DEF Inside
<1>3. Writing(p) /\ data_size' \in Nat /\ data_size <= data_size'
  BY <1>0, <1>a, <1>1 DEF Writing, More
<1>4. FileInv'
  BY <1>2, <1>3, FileFrame
<1>5. ContentKnown /\ ContentKnown' /\ SizeKnown /\ SizeKnown'
  BY <1>4, ContentIs, ContentIsNext, SizeIs, SizeIsNext
<1>6. \A q \in Procs \ {p} : ~Writing(q)
  BY <1>3 DEF FileInv, CallInFile, OneWriter
<1>7. Size' = data_size'
  <2>1. \A q \in Procs : ~Grown(q)'
    BY <1>2, <1>6 DEF Grown, Writing
  <2> QED BY <1>5, <2>1 DEF SizeKnown
<1>8. /\ Size \in Nat /\ Size' \in Nat
      /\ Size' = IF file[p].f_pos > Size THEN file[p].f_pos ELSE Size
  <2>1. CASE Grown(p)
    <3>1. Size = More(data_size, file[p].f_pos)
      BY <1>5, <2>1 DEF SizeKnown
    <3> QED BY <1>0, <1>a, <1>1, <1>7, <3>1 DEF More
  <2>2. CASE ~Grown(p)
    <3>1. \A q \in Procs : ~Grown(q)
      BY <1>6, <2>2 DEF Grown
    <3>2. Size = data_size
      BY <1>5, <3>1 DEF SizeKnown
    <3> QED BY <1>0, <1>a, <1>1, <1>7, <3>2 DEF More
  <2> QED BY <2>1, <2>2
<1>9. LeftToWrite[p] = <<>> /\ LeftToWrite' = LeftToWrite
  <2>1. LeftToWrite[p] = <<>>
    <3> DEFINE m == Len(file[p].data)
    <3>1. file[p].f_pos - file[p].orig + 1 = m + 1
      BY <1>0, <1>a, <1>b, <1>1 DEF CallInFile
    <3>2. LeftToWrite[p] = SubSeq(file[p].data, m + 1, m)
      BY <1>3, <3>1 DEF LeftToWrite
    <3> HIDE DEF m
    <3>3. m \in Nat
      BY <1>b DEF m
    <3>4. SubSeq(file[p].data, m + 1, m) = <<>>
      BY <1>a, <3>3
    <3> QED BY <3>2, <3>4
  <2>2. LeftToWrite'[p] = <<>>
    BY <1>2 DEF LeftToWrite
  <2>3. \A q \in Procs \ {p} : LeftToWrite'[q] = LeftToWrite[q]
    BY <1>2 DEF LeftToWrite, Writing
  <2>4. /\ LeftToWrite = [q \in Procs |-> LeftToWrite[q]]
        /\ LeftToWrite' = [q \in Procs |-> LeftToWrite'[q]]
    BY DEF LeftToWrite
  <2> QED BY <2>1, <2>2, <2>3, <2>4
<1>10. Positions' = Positions /\ Positions[p] = file[p].f_pos
  BY <1>2 DEF Positions
<1>11. ASSUME NEW i \in 1..Size', i <= Size PROVE Content'[i] = Content[i]
  <2>1. i \in 1..Size
    BY <1>8, <1>11
  <2>2. ByteAt(i - 1)' = ByteAt(i - 1)
    BY <1>1 DEF ByteAt
  <2> QED BY <1>5, <2>1, <2>2 DEF ContentKnown
<1>12. Len(Content) = Size /\ Len(Content') = Size' /\ DOMAIN Content' = 1..Size'
  BY <1>5 DEF ContentKnown
<1>13. Disk!Write(p)
  <2> DEFINE f == Positions[p]
             t == LeftToWrite[p]
  <2>1. f \in Nat /\ f + 0 = f /\ Len(t) = 0 /\ SubSeq(t, 0 + 1, Len(t)) = t
    <3>1. f \in Nat
      BY <1>a, <1>10
    <3>2. t = <<>>
      BY <1>9
    <3> HIDE DEF f, t
    <3> QED BY <3>1, <3>2
  <2>2. Len(Content') = IF f + 0 > Len(Content) THEN f + 0 ELSE Len(Content)
    BY <1>8, <1>10, <1>12, <2>1
  <2>3. Positions' = [Positions EXCEPT ![p] = f + 0]
    <3>1. Positions = [q \in Procs |-> Positions[q]]
      BY DEF Positions
    <3> QED BY <1>10, <2>1, <3>1
  <2>4. LeftToWrite' = [LeftToWrite EXCEPT ![p] = SubSeq(t, 0 + 1, Len(t))]
    <3>1. LeftToWrite = [q \in Procs |-> LeftToWrite[q]]
      BY DEF LeftToWrite
    <3> QED BY <1>9, <2>1, <3>1
  <2>5. ASSUME NEW i \in DOMAIN Content'
        PROVE  Content'[i] = IF i \in (f + 1)..(f + 0) THEN t[i - f]
                             ELSE IF i <= Len(Content) THEN Content[i] ELSE Content'[i]
    <3>1. ~(i \in (f + 1)..(f + 0))
      BY <2>1
    <3> HIDE DEF f, t
    <3> QED BY <1>11, <1>12, <3>1
  <2>6. 0 \in 0..Len(t)
    BY <2>1
  <2> HIDE DEF f, t
  <2>7. /\ got' = got /\ f = Positions[p] /\ t = LeftToWrite[p]
    BY <1>1 DEF f, t
  <2> QED BY <2>2, <2>3, <2>4, <2>5, <2>6, <2>7 DEF Disk!Write
<1> QED BY <1>4, <1>13

-----------------------------------------------------------------------------
(* Mapping.                                                                *)

\* A store through a mapping replaces the one byte, which may lie beyond the
\* end of the file, in a page that holds more than the file needs.
LEMMA FileMapStore ==
  ASSUME RamInv, FileInv, RamInv', NEW p \in Procs, NEW place \in Nat, NEW b \in Bytes,
         MapStore(p, place, b)
  PROVE  /\ FileInv'
         /\ Disk!Store \/ UNCHANGED <<Content, Positions, got, LeftToWrite>>
<1> DEFINE k == place \div PAGE_SIZE + 1
           o == place % PAGE_SIZE
<1>0. mem_list \in Seq(Pages) /\ Len(mem_list) \in Nat /\ PAGE_SIZE \in Nat /\ PAGE_SIZE > 0
  BY RamPageAssumption DEF RamInv, RamTypes
<1>1. /\ UNCHANGED <<file, data_size, got>>
      /\ mem_list' = [mem_list EXCEPT ![k] = [mem_list[k] EXCEPT ![o] = b]]
  BY DEF MapStore
<1>2. FileInv' /\ Size' = Size /\ UNCHANGED <<Positions, got, LeftToWrite>>
  BY <1>1 DEF FileInv, CallInFile, Writing, Size, Ends, Positions, LeftToWrite, OneWriter
<1>3. ContentKnown /\ ContentKnown' /\ SizeKnown /\ Room \in Nat
  BY <1>0, <1>2, ContentIs, ContentIsNext, SizeIs, MorePagesHoldMore DEF Room
<1>4. ASSUME NEW x \in Nat, x < Room
      PROVE  ByteAt(x)' = IF x = place THEN b ELSE ByteAt(x)
  <2> DEFINE j == x \div PAGE_SIZE + 1
             u == x % PAGE_SIZE
  <2>1. j \in 1..Len(mem_list) /\ u \in PageOffsets
    <3>1. x \div PAGE_SIZE \in 0..(Len(mem_list) - 1) /\ u \in PageOffsets
      BY <1>0, <1>4, PlaceInPage DEF Room
    <3> QED BY <1>0, <3>1
  <2>2. x = place <=> j = k /\ u = o
    <3>1. /\ x = PAGE_SIZE * (x \div PAGE_SIZE) + (x % PAGE_SIZE)
          /\ place = PAGE_SIZE * (place \div PAGE_SIZE) + (place % PAGE_SIZE)
          /\ x \div PAGE_SIZE \in Int /\ place \div PAGE_SIZE \in Int
      BY <1>0
    <3>2. j = k => x \div PAGE_SIZE = place \div PAGE_SIZE
      <4> DEFINE v == x \div PAGE_SIZE
                 w == place \div PAGE_SIZE
      <4>1. v \in Int /\ w \in Int
        BY <3>1
      <4> HIDE DEF v, w
      <4>2. v + 1 = w + 1 => v = w
        BY <4>1
      <4> QED BY <4>2 DEF v, w
    <3> QED BY <3>1, <3>2
  <2>3. mem_list[j] \in Pages
    BY <1>0, <2>1
  <2>4. ByteAt(x)' = mem_list'[j][u] /\ ByteAt(x) = mem_list[j][u]
    BY DEF ByteAt
  <2> HIDE DEF k, o, j, u
  <2>5. mem_list'[j] = IF j = k THEN [mem_list[k] EXCEPT ![o] = b] ELSE mem_list[j]
    BY <1>0, <1>1, <2>1
  <2>6. j = k => [mem_list[k] EXCEPT ![o] = b][u] = IF u = o THEN b ELSE mem_list[k][u]
    BY <2>1, <2>3 DEF Pages
  <2> QED BY <2>2, <2>4, <2>5, <2>6
<1>5. ASSUME NEW i \in 1..Size
      PROVE  Content'[i] = IF i = place + 1 THEN b ELSE Content[i]
  <2>1. i - 1 \in Nat /\ i - 1 < Room /\ (i - 1 = place <=> i = place + 1)
    BY <1>3 DEF SizeKnown
  <2>2. Content'[i] = ByteAt(i - 1)' /\ Content[i] = ByteAt(i - 1)
    BY <1>2, <1>3 DEF ContentKnown
  <2> QED BY <1>4, <2>1, <2>2
<1>6. /\ Content \in Seq(0..255) /\ Content' \in Seq(0..255)
      /\ Len(Content) = Size /\ Len(Content') = Size /\ DOMAIN Content = 1..Size
      /\ Size \in Nat
  BY <1>2, <1>3 DEF ContentKnown, SizeKnown
<1>7. CASE place < Size
  <2>1. place + 1 \in DOMAIN Content
    BY <1>6, <1>7
  <2>2. Content' = [Content EXCEPT ![place + 1] = b]
    <3>1. b \in 0..255
      BY RamDataAssumption
    <3>2. [Content EXCEPT ![place + 1] = b] \in Seq(0..255)
      BY <1>6, <2>1, <3>1
    <3>3. Len([Content EXCEPT ![place + 1] = b]) = Size
      BY <1>6, <2>1, <3>1
    <3>4. \A i \in 1..Size :
            [Content EXCEPT ![place + 1] = b][i] = IF i = place + 1 THEN b ELSE Content[i]
      BY <1>6, <2>1
    <3> DEFINE c == [Content EXCEPT ![place + 1] = b]
    <3>5. \A i \in 1..Size : Content'[i] = c[i]
      BY <1>5, <3>4
    <3>6. c \in Seq(0..255) /\ Len(c) = Size
      BY <3>2, <3>3
    <3> HIDE DEF c
    <3>7. Content' = c
      BY <1>6, <3>5, <3>6
    <3> QED BY <3>7 DEF c
  <2> QED BY <1>2, <2>1, <2>2 DEF Disk!Store
<1>8. CASE ~(place < Size)
  <2>1. \A i \in 1..Size : Content'[i] = Content[i]
    BY <1>5, <1>6, <1>8
  <2>2. Content' = Content
    BY <1>6, <2>1
  <2> QED BY <1>2, <2>2
<1> QED BY <1>2, <1>7, <1>8

LEMMA FileMapping ==
  ASSUME RamInv, FileInv, RamInv', NEW p \in Procs, Mapping(p)
  PROVE  FileInv' /\ [Disk!FileNext]_<<Content, Positions, got, LeftToWrite>>
<1>1. ASSUME \/ \E n \in 1..MaxPages : asgn1_mmap(p, n)
             \/ Unmap(p)
      PROVE  FileInv' /\ UNCHANGED <<Content, Positions, got, LeftToWrite>>
  <2>1. UNCHANGED <<file, mem_list, data_size, got>>
    BY <1>1 DEF asgn1_mmap, Unmap
  <2> QED BY <2>1 DEF FileInv, CallInFile, Writing, Content, ByteAt, Size, Ends, Positions,
                      LeftToWrite, OneWriter
<1>2. ASSUME NEW place \in 0..(MaxPages * PAGE_SIZE - 1), NEW b \in Bytes, MapStore(p, place, b)
      PROVE  /\ FileInv'
             /\ Disk!Store \/ UNCHANGED <<Content, Positions, got, LeftToWrite>>
  <2>1. MaxPages * PAGE_SIZE \in Nat
    BY RamPageAssumption, MorePagesHoldMore
  <2>2. place \in Nat
    BY <2>1
  <2> QED BY <1>2, <2>2, FileMapStore
<1> QED BY <1>1, <1>2 DEF Mapping, Disk!FileNext

LEMMA FileStep ==
  RamInv /\ FileInv /\ RamInv' /\ [RamNext]_ramVars
    => FileInv' /\ [Disk!FileNext]_<<Content, Positions, got, LeftToWrite>>
<1> SUFFICES ASSUME RamInv, FileInv, RamInv', [RamNext]_ramVars
             PROVE  FileInv' /\ [Disk!FileNext]_<<Content, Positions, got, LeftToWrite>>
  OBVIOUS
<1>1. CASE UNCHANGED ramVars
  BY <1>1 DEF ramVars, FileInv, CallInFile, Writing, Content, ByteAt, Size, Ends, Positions,
              LeftToWrite, OneWriter
<1>2. ASSUME NEW p \in Procs, asgn1_write(p)
      PROVE  FileInv' /\ (Disk!Place(p) \/ Disk!Write(p))
  BY <1>2, FileWriteQuiet, FileAddPage, FileCopyIn, FileGrow DEF asgn1_write
<1>3. ASSUME NEW p \in Procs, Descriptor(p) \/ asgn1_read(p) \/ asgn1_write(p) \/ Mapping(p)
      PROVE  FileInv' /\ [Disk!FileNext]_<<Content, Positions, got, LeftToWrite>>
  BY <1>2, <1>3, FileDescriptor, FileRead, FileMapping DEF Disk!FileNext
<1> QED BY <1>1, <1>3 DEF RamNext

\* Empty, with every position at its start.
LEMMA FileStart == OneWriter /\ RamInit => Disk!FileInit
<1> SUFFICES ASSUME OneWriter, RamInit PROVE Disk!FileInit
  OBVIOUS
<1>1. RamInv /\ FileInv
  BY RamInvInit, FileInvInit
<1>2. \A p \in Procs : ~Writing(p) /\ file[p].f_pos = 0
  BY DEF RamInit, Writing, Closed
<1>3. Size = 0
  BY <1>1, <1>2, SizeIs DEF SizeKnown, Grown, RamInit
<1> QED BY <1>2, <1>3 DEF Disk!FileInit, Content, Positions, LeftToWrite, RamInit

\* With one writer, and any number of readers, the ramdisk is the file of
\* ByteFile, whatever the calls overlap with: a read gets the bytes the file has
\* at its position, also while the writer copies, grows the list or stores
\* through a mapping, and a write replaces its own bytes and no others (lines
\* 129-271 and 334-365).
THEOREM DiskIsFile == OneWriter /\ RamSpec => RamdiskIsFile
<1>1. OneWriter /\ RamInit => Disk!FileInit /\ RamInv /\ FileInv
  BY FileStart, RamInvInit, FileInvInit
<1>2. RamInv /\ FileInv /\ [RamNext]_ramVars
        => /\ (RamInv /\ FileInv)'
           /\ [Disk!FileNext]_<<Content, Positions, got, LeftToWrite>>
  BY RamInvStep, FileStep
<1> QED BY <1>1, <1>2, PTL DEF RamSpec, RamdiskIsFile, Disk!FileSpec
=============================================================================
