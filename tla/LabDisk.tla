------------------------------- MODULE LabDisk -------------------------------
(***************************************************************************)
(* The laboratory's memory device: one kmalloc'ed buffer, opened, read,    *)
(* written and closed by processes, loaded and unloaded.  Three drivers    *)
(* are made of it: "seek" (Lab3/3.1.3), "seek_open" (Lab4/4.1.2.2), which   *)
(* takes a new buffer at each open and frees it at the close, but has one  *)
(* pointer for all of them, and "wait_event" (Lab3/3.2.1, on               *)
(* lab_miscdev.h), whose calls are in module WaitEvent.                    *)
(*                                                                         *)
(* What the buffer holds is left out: the properties are about positions   *)
(* and about which memory is touched.                                      *)
(***************************************************************************)
EXTENDS Integers, FiniteSets

CONSTANTS Procs,     \* the processes that use the device
          Drivers,   \* which of the drivers are loaded
          SIZE,      \* ramdisk_size
          Lengths,   \* the counts of reads and writes
          SeekRange, \* offsets of lseek are in -SeekRange..SeekRange
          Bufs       \* bound of the model: the addresses kmalloc may return

NULL == 0

ASSUME SizeAssumption == SIZE \in Nat /\ SeekRange \in Nat /\ Lengths \subseteq Nat
ASSUME BufsAssumption == Bufs \subseteq Nat \ {NULL}
ASSUME DriverAssumption == Drivers \subseteq {"seek", "seek_open", "wait_event"}

VARIABLES driver,   \* the driver that is loaded, chosen once
          phase,    \* "absent", "loaded", "failed" or "unloaded"
          f_pos,    \* file position of each process, Closed if it has no file
          ramdisk,  \* the buffer the driver's pointer is at
          live,     \* buffers allocated and not freed
          shared,   \* ghost: two processes have had the device open at once
          fault     \* "", or the misuse of memory that ended the run

diskVars == <<driver, phase, f_pos, ramdisk, live, shared, fault>>

Closed == -1
Openers == {p \in Procs : f_pos[p] # Closed}
Running == phase = "loaded" /\ fault = ""

Kmalloc(b) == b \in Bufs \ live /\ ramdisk' = b /\ live' = live \cup {b}

Kfree(b, err) ==
  /\ live' = live \ {b}
  /\ fault' = IF b \in live THEN fault ELSE err

-----------------------------------------------------------------------------
(* Loading and unloading.                                                  *)

my_init(b) ==
  /\ phase = "absent"
  /\ Kmalloc(b)
  /\ phase' = "loaded"
  /\ UNCHANGED <<driver, f_pos, shared, fault>>

\* No device number or no cdev: nothing was allocated yet.
InitRefused ==
  /\ phase = "absent" /\ driver # "wait_event"
  /\ phase' = "failed"
  /\ UNCHANGED <<driver, f_pos, ramdisk, live, shared, fault>>

\* cdev_add fails.
InitFails(b) ==
  /\ phase = "absent" /\ driver # "wait_event"
  /\ b \in Bufs /\ ramdisk' = b                   \* allocated and freed
  /\ phase' = "failed"
  /\ UNCHANGED <<driver, f_pos, live, shared, fault>>

\* misc_register fails: the buffer is forgotten.
my_generic_init_fails(b) ==
  /\ phase = "absent" /\ driver = "wait_event"
  /\ Kmalloc(b)
  /\ phase' = "failed"
  /\ UNCHANGED <<driver, f_pos, shared, fault>>

\* Faulty variant: the buffer is not freed.
ExitKeepsBuffer ==
  /\ Running /\ Openers = {}
  /\ phase' = "unloaded"
  /\ UNCHANGED <<driver, f_pos, ramdisk, live, shared, fault>>

\* fops.owner holds the module while the device is open.
my_exit ==
  /\ Running /\ Openers = {}
  /\ phase' = "unloaded"
  /\ Kfree(ramdisk, "double free")
  /\ UNCHANGED <<driver, f_pos, ramdisk, shared>>

-----------------------------------------------------------------------------
(* open, release, read, write, lseek                                       *)

OpenFile(p) ==
  /\ Running
  /\ f_pos[p] = Closed
  /\ f_pos' = [f_pos EXCEPT ![p] = 0]
  /\ shared' = (shared \/ Openers # {})
  /\ UNCHANGED <<driver, phase, fault>>

mycdrv_open(p) ==
  driver # "seek_open" /\ OpenFile(p) /\ UNCHANGED <<ramdisk, live>>

OpenNewBuffer(p, b) == driver = "seek_open" /\ OpenFile(p) /\ Kmalloc(b)

CloseFile(p) ==
  /\ Running
  /\ f_pos[p] # Closed
  /\ f_pos' = [f_pos EXCEPT ![p] = Closed]
  /\ UNCHANGED <<driver, phase, ramdisk, shared>>

mycdrv_release(p) ==
  driver # "seek_open" /\ CloseFile(p) /\ UNCHANGED <<live, fault>>

ReleaseBuffer(p) ==
  driver = "seek_open" /\ CloseFile(p) /\ Kfree(ramdisk, "double free")

\* Faulty variant: the length is not cut at the end of the device.
AllAsked(p, lbuf) == 0..lbuf

\* What a read or write of lbuf may move: as far as the end of the device,
\* less what copy_to_user or copy_from_user could not do.
nbytes(p, lbuf) ==
  LET maxbytes == SIZE - f_pos[p]
  IN  0..(IF maxbytes > lbuf THEN lbuf ELSE maxbytes)

\* A read or write; the two differ in nothing the model keeps.
Transfer(p, n) ==
  /\ Running
  /\ f_pos[p] # Closed
  /\ f_pos' = [f_pos EXCEPT ![p] = @ + n]
  /\ fault' = IF n > 0 /\ ramdisk \notin live THEN "use after free" ELSE fault
  /\ UNCHANGED <<driver, phase, ramdisk, live, shared>>

SeekTransfer(p, lbuf) ==
  driver # "wait_event" /\ \E n \in nbytes(p, lbuf) : Transfer(p, n)

\* For another origin than the three testpos is not initialised.
testpos(p, offset, orig) ==
  CASE orig = "SEEK_SET" -> {offset}
    [] orig = "SEEK_CUR" -> {f_pos[p] + offset}
    [] orig = "SEEK_END" -> {SIZE + offset}
    [] OTHER             -> -SeekRange..(SIZE + SeekRange)

\* An lseek to any place outside changes nothing.
mycdrv_lseek(p, offset, orig) ==
  /\ Running
  /\ driver # "wait_event"
  /\ f_pos[p] # Closed
  /\ \E pos \in testpos(p, offset, orig) \cap 0..SIZE :
       f_pos' = [f_pos EXCEPT ![p] = pos]
  /\ UNCHANGED <<driver, phase, ramdisk, live, shared, fault>>

DiskInit ==
  /\ driver \in Drivers
  /\ phase = "absent"
  /\ f_pos = [p \in Procs |-> Closed]
  /\ ramdisk = NULL
  /\ live = {}
  /\ shared = FALSE
  /\ fault = ""

DiskNext ==
  \/ InitRefused
  \/ \E b \in Bufs : my_init(b) \/ InitFails(b) \/ my_generic_init_fails(b)
  \/ my_exit
  \/ \E p \in Procs :
       \/ mycdrv_open(p)
       \/ \E b \in Bufs : OpenNewBuffer(p, b)
       \/ mycdrv_release(p)
       \/ ReleaseBuffer(p)
       \/ \E lbuf \in Lengths : SeekTransfer(p, lbuf)
       \/ \E offset \in -SeekRange..SeekRange,
             orig \in {"SEEK_SET", "SEEK_CUR", "SEEK_END", "other"} :
               mycdrv_lseek(p, offset, orig)

-----------------------------------------------------------------------------
(* Properties.                                                             *)

\* Lab3/3.1.3/seek.c:18: "Keeping track of file position": however seeks, reads
\* and writes follow one another, a position is in the device or at its end.
DiskTypeOK ==
  /\ driver \in Drivers
  /\ phase \in {"absent", "loaded", "failed", "unloaded"}
  /\ f_pos \in [Procs -> {Closed} \cup 0..SIZE]
  /\ ramdisk \in Bufs \cup {NULL}
  /\ live \subseteq Bufs
  /\ shared \in BOOLEAN
  /\ fault \in {"", "double free", "use after free"}

\* Whose memory the drivers touch and free.  The two of Lab3 use a live buffer
\* and free it once, and only wait_event whose registration failed leaves it
\* behind (lab_miscdev.h:130-135).  With a buffer per open (Lab4/4.1.2.2/seek.c:
\* 58 and 70) that is true of one process at a time: with two, one loses its
\* buffer and both free the other; and the unload frees the last one again,
\* while the one of the load is lost.
MemorySafe ==
  /\ fault # "" => driver = "seek_open" /\ (shared \/ phase = "unloaded")
  /\ driver = "seek_open" /\ ~shared /\ Openers # {} => ramdisk \in live
  /\ phase = "failed" => (live = {} <=> driver # "wait_event")
  /\ phase = "unloaded" /\ driver # "seek_open" => live = {}
=============================================================================
