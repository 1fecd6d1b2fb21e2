--------------------------- MODULE WaitEventProofs ---------------------------
(***************************************************************************)
(* Proofs about the laboratory's memory device and its waiting readers,    *)
(* for every set of processes, every device size and every set of buffers. *)
(***************************************************************************)
EXTENDS WaitEvent, QueueLemmas

(***************************************************************************)
(* The device.  MemorySafe speaks of the end (a fault, a failed load, an   *)
(* unload); what makes it inductive is what is true in each phase before.  *)
(***************************************************************************)

AbsentOK ==
  phase = "absent" => live = {} /\ fault = "" /\ Openers = {} /\ ~shared

FailedOK ==
  phase = "failed" => /\ fault = "" /\ Openers = {}
                      /\ live = {} <=> driver # "wait_event"

\* One buffer for the whole life of the driver, or, as long as no two processes
\* meet, one for the process that has the device open.
LoadedOK ==
  phase = "loaded" =>
    /\ driver # "seek_open" => live = {ramdisk} /\ fault = ""
    /\ driver = "seek_open" /\ ~shared => /\ fault = ""
                                          /\ Openers # {} => ramdisk \in live
                                          /\ \A p, q \in Openers : p = q

UnloadedOK ==
  phase = "unloaded" => /\ Openers = {}
                        /\ driver # "seek_open" => live = {} /\ fault = ""

DiskInv == DiskTypeOK /\ AbsentOK /\ FailedOK /\ LoadedOK /\ UnloadedOK

LEMMA DiskInvInit == DiskInit => DiskInv
<1> SUFFICES ASSUME DiskInit PROVE DiskInv
  OBVIOUS
<1>1. Openers = {}
  BY DEF DiskInit, Openers
<1>2. DiskTypeOK
  BY DEF DiskInit, DiskTypeOK
<1> QED BY <1>1, <1>2 DEF DiskInit, DiskInv, AbsentOK, FailedOK, LoadedOK, UnloadedOK

\* A position that is in the device or at its end stays there.
LEMMA PositionStays ==
  ASSUME DiskTypeOK, NEW p \in Procs, f_pos[p] # Closed,
         NEW lbuf \in Lengths, NEW n \in nbytes(p, lbuf)
  PROVE  f_pos[p] + n \in 0..SIZE
<1>1. f_pos[p] \in 0..SIZE /\ SIZE \in Nat /\ lbuf \in Nat
  BY SizeAssumption DEF DiskTypeOK
<1>2. n \in 0..(SIZE - f_pos[p])
  <2>1. CASE SIZE - f_pos[p] > lbuf
    BY <1>1, <2>1 DEF nbytes
  <2>2. CASE ~(SIZE - f_pos[p] > lbuf)
    BY <1>1, <2>2 DEF nbytes
  <2> QED BY <2>1, <2>2
<1> QED BY <1>1, <1>2

LEMMA TransferStep ==
  ASSUME DiskInv, NEW p \in Procs, NEW lbuf \in Lengths, NEW n \in nbytes(p, lbuf),
         Transfer(p, n)
  PROVE  DiskInv'
<1>1. f_pos[p] # Closed /\ f_pos[p] + n \in 0..SIZE
  BY PositionStays DEF Transfer, DiskInv
<1>2. f_pos' \in [Procs -> {Closed} \cup 0..SIZE]
  BY <1>1 DEF Transfer, DiskInv, DiskTypeOK
<1>3. Openers' = Openers /\ Openers # {}
  <2>1. f_pos'[p] = f_pos[p] + n /\ \A q \in Procs \ {p} : f_pos'[q] = f_pos[q]
    BY DEF Transfer, DiskInv, DiskTypeOK
  <2>2. f_pos[p] + n # Closed
    BY <1>1, SizeAssumption DEF Closed
  <2> QED BY <2>1, <2>2, <1>1 DEF Openers
<1>4. DiskTypeOK'
  BY <1>2 DEF Transfer, DiskInv, DiskTypeOK
<1>5. LoadedOK'
  BY <1>3 DEF Transfer, DiskInv, LoadedOK
<1> QED BY <1>3, <1>4, <1>5
        DEF Transfer, Running, DiskInv, AbsentOK, FailedOK, UnloadedOK

LEMMA LoadStep ==
  ASSUME DiskInv, NEW b \in Bufs,
         my_init(b) \/ InitFails(b) \/ my_generic_init_fails(b) \/ InitRefused
  PROVE  DiskInv'
<1>1. live = {} /\ fault = "" /\ Openers = {} /\ ~shared /\ UNCHANGED <<f_pos, fault, shared, driver>>
  BY DEF DiskInv, AbsentOK, my_init, InitFails, my_generic_init_fails, InitRefused
<1>2. Openers' = {}
  BY <1>1 DEF Openers
<1>3. DiskTypeOK'
  BY <1>1 DEF DiskInv, DiskTypeOK, my_init, InitFails, my_generic_init_fails, InitRefused, Kmalloc
<1>4. AbsentOK' /\ UnloadedOK'
  BY <1>2 DEF my_init, InitFails, my_generic_init_fails, InitRefused, AbsentOK, UnloadedOK
<1>5. LoadedOK'
  BY <1>1, <1>2 DEF my_init, InitFails, my_generic_init_fails, InitRefused, Kmalloc, LoadedOK
<1>6. FailedOK'
  BY <1>1, <1>2 DEF my_init, InitFails, my_generic_init_fails, InitRefused, Kmalloc, FailedOK
<1> QED BY <1>3, <1>4, <1>5, <1>6 DEF DiskInv

LEMMA UnloadStep == ASSUME DiskInv, my_exit PROVE DiskInv'
<1>1. Openers' = {} /\ Openers = {}
  BY DEF my_exit, Openers
<1>2. DiskTypeOK'
  BY DEF my_exit, Kfree, DiskInv, DiskTypeOK
<1>3. driver # "seek_open" => live' = {} /\ fault' = ""
  BY DEF my_exit, Running, Kfree, DiskInv, LoadedOK
<1> QED BY <1>1, <1>2, <1>3
        DEF my_exit, DiskInv, AbsentOK, FailedOK, LoadedOK, UnloadedOK

LEMMA OpenFileSets ==
  ASSUME DiskInv, NEW p \in Procs, OpenFile(p)
  PROVE  /\ f_pos' \in [Procs -> {Closed} \cup 0..SIZE]
         /\ shared' \in BOOLEAN
         /\ Openers' = Openers \cup {p}
         /\ ~shared' => Openers = {} /\ ~shared
<1>1. f_pos' = [f_pos EXCEPT ![p] = 0] /\ f_pos \in [Procs -> {Closed} \cup 0..SIZE]
  BY DEF OpenFile, DiskInv, DiskTypeOK
<1>2. 0 \in 0..SIZE /\ 0 # Closed
  BY SizeAssumption DEF Closed
<1> QED BY <1>1, <1>2 DEF OpenFile, Openers, DiskInv, DiskTypeOK

LEMMA OpenStep ==
  ASSUME DiskInv, NEW p \in Procs, mycdrv_open(p) \/ \E b \in Bufs : OpenNewBuffer(p, b)
  PROVE  DiskInv'
<1>1. OpenFile(p)
  BY DEF mycdrv_open, OpenNewBuffer
<1>2. /\ f_pos' \in [Procs -> {Closed} \cup 0..SIZE]
      /\ shared' \in BOOLEAN
      /\ Openers' = Openers \cup {p}
      /\ ~shared' => Openers = {} /\ ~shared
  BY <1>1, OpenFileSets
<1>3. phase = "loaded" /\ phase' = "loaded" /\ fault' = "" /\ driver' = driver
  BY <1>1 DEF OpenFile, Running
<1>4. DiskTypeOK'
  BY <1>2, <1>3 DEF mycdrv_open, OpenNewBuffer, OpenFile, Kmalloc, DiskInv, DiskTypeOK
<1>5. LoadedOK'
  <2>1. CASE mycdrv_open(p)
    BY <2>1, <1>3 DEF mycdrv_open, DiskInv, LoadedOK
  <2>2. CASE \E b \in Bufs : OpenNewBuffer(p, b)
    BY <2>2, <1>2, <1>3 DEF OpenNewBuffer, Kmalloc, DiskInv, LoadedOK
  <2> QED BY <2>1, <2>2
<1> QED BY <1>3, <1>4, <1>5 DEF DiskInv, AbsentOK, FailedOK, UnloadedOK

LEMMA CloseStep ==
  ASSUME DiskInv, NEW p \in Procs, mycdrv_release(p) \/ ReleaseBuffer(p)
  PROVE  DiskInv'
<1>1. CloseFile(p)
  BY DEF mycdrv_release, ReleaseBuffer
<1>2. f_pos' \in [Procs -> {Closed} \cup 0..SIZE] /\ Openers' = Openers \ {p} /\ p \in Openers
  BY <1>1 DEF CloseFile, Openers, DiskInv, DiskTypeOK
<1>3. phase = "loaded" /\ fault = "" /\ UNCHANGED <<driver, phase, ramdisk, shared>>
  BY <1>1 DEF CloseFile, Running
<1>4. DiskTypeOK'
  BY <1>2, <1>3 DEF mycdrv_release, ReleaseBuffer, Kfree, DiskInv, DiskTypeOK
<1>5. LoadedOK'
  <2>1. CASE mycdrv_release(p)
    BY <2>1, <1>2, <1>3 DEF mycdrv_release, DiskInv, LoadedOK
  <2>2. CASE ReleaseBuffer(p)
    <3>1. ASSUME ~shared PROVE fault' = "" /\ Openers' = {}
      BY <3>1, <2>2, <1>2, <1>3 DEF ReleaseBuffer, Kfree, DiskInv, LoadedOK
    <3> QED BY <3>1, <2>2, <1>3 DEF ReleaseBuffer, LoadedOK
  <2> QED BY <2>1, <2>2
<1> QED BY <1>3, <1>4, <1>5 DEF DiskInv, AbsentOK, FailedOK, UnloadedOK

LEMMA SeekStep ==
  ASSUME DiskInv, NEW p \in Procs, NEW offset, NEW orig, mycdrv_lseek(p, offset, orig)
  PROVE  DiskInv'
<1>1. PICK pos \in 0..SIZE : f_pos' = [f_pos EXCEPT ![p] = pos]
  BY DEF mycdrv_lseek
<1>2. f_pos' \in [Procs -> {Closed} \cup 0..SIZE]
  BY <1>1 DEF DiskInv, DiskTypeOK
<1>3. Openers' = Openers
  <2>1. pos # Closed /\ f_pos[p] # Closed
    BY SizeAssumption DEF Closed, mycdrv_lseek
  <2> QED BY <2>1, <1>1 DEF Openers, DiskInv, DiskTypeOK
<1>4. UNCHANGED <<driver, phase, ramdisk, live, shared, fault>>
  BY DEF mycdrv_lseek
<1>5. DiskTypeOK'
  BY <1>2, <1>4 DEF DiskInv, DiskTypeOK
<1> QED BY <1>3, <1>4, <1>5 DEF DiskInv, AbsentOK, FailedOK, LoadedOK, UnloadedOK

LEMMA DiskInvStep == ASSUME DiskInv, DiskNext PROVE DiskInv'
<1>1. CASE InitRefused
  <2>1. live = {} /\ fault = "" /\ Openers = {} /\ ~shared
    BY <1>1 DEF DiskInv, AbsentOK, InitRefused
  <2>2. Openers' = {}
    BY <1>1, <2>1 DEF InitRefused, Openers
  <2>3. DiskTypeOK'
    BY <1>1 DEF DiskInv, DiskTypeOK, InitRefused
  <2> QED BY <1>1, <2>1, <2>2, <2>3
          DEF InitRefused, DiskInv, AbsentOK, FailedOK, LoadedOK, UnloadedOK
<1>2. CASE \E b \in Bufs : my_init(b) \/ InitFails(b) \/ my_generic_init_fails(b)
  BY <1>2, LoadStep
<1>3. CASE my_exit
  BY <1>3, UnloadStep
<1>4. ASSUME NEW p \in Procs,
             mycdrv_open(p) \/ (\E b \in Bufs : OpenNewBuffer(p, b))
               \/ mycdrv_release(p) \/ ReleaseBuffer(p)
      PROVE  DiskInv'
  BY <1>4, OpenStep, CloseStep
<1>5. ASSUME NEW p \in Procs, NEW lbuf \in Lengths, SeekTransfer(p, lbuf) PROVE DiskInv'
  BY <1>5, TransferStep DEF SeekTransfer
<1>6. ASSUME NEW p \in Procs,
             NEW offset \in -SeekRange..SeekRange,
             NEW orig \in {"SEEK_SET", "SEEK_CUR", "SEEK_END", "other"},
             mycdrv_lseek(p, offset, orig)
      PROVE  DiskInv'
  BY <1>6, SeekStep
<1> QED BY <1>1, <1>2, <1>3, <1>4, <1>5, <1>6 DEF DiskNext

LEMMA DiskFrame == ASSUME DiskInv, UNCHANGED diskVars PROVE DiskInv'
BY DEF diskVars, DiskInv, DiskTypeOK, AbsentOK, FailedOK, LoadedOK, UnloadedOK, Openers

(***************************************************************************)
(* The readers that wait.  The queue holds exactly the processes asleep,   *)
(* each once; so the process a wake-up takes from the queue is asleep, and *)
(* is not the one that gives the wake-up.                                  *)
(***************************************************************************)

WaitTypeOK ==
  /\ data_ready \in {0, 1}
  /\ pc \in [Procs -> Places]
  /\ pending \subseteq Procs
  /\ swallowed \in BOOLEAN

QueueOK ==
  /\ IsQueueOf(wq, Procs)
  /\ Range(wq) = {p \in Procs : pc[p] = "asleep"}

WaitInv == WaitTypeOK /\ QueueOK /\ NoLostData

LEMMA WaitInvInit == Init => WaitInv
<1> SUFFICES ASSUME Init PROVE WaitInv
  OBVIOUS
<1>1. WaitTypeOK
  BY DEF Init, WaitTypeOK, Places
<1>2. QueueOK
  BY QueueOfNone DEF Init, QueueOK
<1> QED BY <1>1, <1>2 DEF Init, WaitInv, NoLostData

\* A process moves, but neither to sleep nor from it, and not off the way to the
\* data while data is ready.
LEMMA AwakeMove ==
  ASSUME WaitInv, NEW p \in Procs,
         NEW from, NEW to \in Places \ {"asleep"}, "asleep" \notin from,
         Goto(p, from, to), UNCHANGED wq,
         data_ready' \in {0, 1}, pending' \subseteq Procs, swallowed' \in BOOLEAN,
         \/ data_ready' = 0
         \/ swallowed'
         \/ to \in {"testing", "woken", "passed", "raised"}
         \/ /\ from \cap {"testing", "woken", "passed", "raised"} = {}
            /\ UNCHANGED <<data_ready, swallowed>>
  PROVE  WaitInv'
<1>1. /\ pc[p] \in from /\ pc' = [pc EXCEPT ![p] = to]
      /\ pc \in [Procs -> Places]
  BY DEF Goto, WaitInv, WaitTypeOK
<1>2. pc' \in [Procs -> Places] /\ pc'[p] = to /\ \A q \in Procs \ {p} : pc'[q] = pc[q]
  BY <1>1
<1>3. WaitTypeOK'
  BY <1>2 DEF WaitTypeOK
<1>4. QueueOK'
  BY <1>1, <1>2 DEF QueueOK, WaitInv
<1>5. NoLostData'
  BY <1>1, <1>2 DEF NoLostData, WaitInv
<1> QED BY <1>3, <1>4, <1>5 DEF WaitInv

\* A process that is awake goes on and wakes the first sleeper.
LEMMA WakeMove ==
  ASSUME WaitInv, NEW p \in Procs, pc[p] # "asleep",
         NEW to \in Places \ {"asleep"}, GotoAndWake(p, to),
         UNCHANGED <<data_ready, pending>>, swallowed' \in BOOLEAN
  PROVE  WaitInv'
<1>1. pc \in [Procs -> Places] /\ "woken" \in Places /\ to \in Places /\ IsQueueOf(wq, Procs)
  BY DEF WaitInv, WaitTypeOK, QueueOK, Places
<1>2. pc' \in [Procs -> Places] /\ pc'[p] = to
  BY <1>1 DEF GotoAndWake
<1>3. WaitTypeOK'
  BY <1>2 DEF WaitInv, WaitTypeOK
<1>4. CASE wq = << >>
  <2>1. wq' = << >> /\ \A q \in Procs \ {p} : pc'[q] = pc[q]
    BY <1>4 DEF GotoAndWake
  <2>2. QueueOK'
    BY <2>1, <1>2, <1>4 DEF QueueOK, WaitInv
  <2> QED BY <2>1, <2>2, <1>3 DEF WaitInv, NoLostData
<1>5. CASE wq # << >>
  <2>1. Head(wq) \in Range(wq) /\ IsQueueOf(Tail(wq), Procs)
        /\ Range(Tail(wq)) = Range(wq) \ {Head(wq)}
    BY <1>1, <1>5, QueueNext
  <2>2. Head(wq) \in Procs /\ pc[Head(wq)] = "asleep" /\ Head(wq) # p
    BY <2>1 DEF WaitInv, QueueOK
  <2>3. /\ wq' = Tail(wq)
        /\ pc'[Head(wq)] = "woken"
        /\ \A q \in Procs \ {p, Head(wq)} : pc'[q] = pc[q]
    BY <2>2, <1>5 DEF GotoAndWake
  <2>4. Range(wq)' = {q \in Procs : pc'[q] = "asleep"}
    BY <2>1, <2>2, <2>3, <1>2 DEF WaitInv, QueueOK
  <2>5. QueueOK'
    BY <2>1, <2>3, <2>4 DEF QueueOK
  <2>6. NoLostData'
    BY <2>2, <2>3 DEF NoLostData
  <2> QED BY <2>5, <2>6, <1>3 DEF WaitInv
<1> QED BY <1>4, <1>5

LEMMA SleepStep == ASSUME WaitInv, NEW p \in Procs, WaitSleep(p) PROVE WaitInv'
<1>1. /\ pc[p] \in {"testing", "woken"} /\ pc' = [pc EXCEPT ![p] = "asleep"]
      /\ wq' = Append(wq, p) /\ data_ready' = 0
      /\ UNCHANGED <<pending, swallowed>>
  BY DEF WaitSleep, Goto
<1>2. pc' \in [Procs -> Places] /\ pc'[p] = "asleep" /\ \A q \in Procs \ {p} : pc'[q] = pc[q]
  BY <1>1 DEF WaitInv, WaitTypeOK, Places
<1>3. IsQueueOf(wq, Procs) /\ p \notin Range(wq)
  BY <1>1 DEF WaitInv, QueueOK
<1>4. IsQueueOf(wq', Procs) /\ Range(wq)' = Range(wq) \cup {p}
  BY <1>1, <1>3, QueueJoin
<1>5. QueueOK'
  BY <1>2, <1>4 DEF WaitInv, QueueOK
<1> QED BY <1>1, <1>2, <1>5 DEF WaitInv, WaitTypeOK, NoLostData

LEMMA SignalStep == ASSUME WaitInv, NEW p \in Procs, Signal(p) PROVE WaitInv'
<1>1. pending' \subseteq Procs /\ UNCHANGED <<data_ready, swallowed>>
  BY DEF Signal, WaitInv, WaitTypeOK
<1>2. CASE UNCHANGED <<pc, wq>>
  BY <1>1, <1>2 DEF WaitInv, WaitTypeOK, QueueOK, NoLostData
<1>3. CASE Goto(p, {"asleep"}, "testing")
             /\ \E i \in DOMAIN wq : wq[i] = p /\ wq' = RemoveAt(wq, i)
  <2>1. /\ pc[p] = "asleep" /\ pc' = [pc EXCEPT ![p] = "testing"]
        /\ pc \in [Procs -> Places] /\ IsQueueOf(wq, Procs)
    BY <1>3 DEF Goto, WaitInv, WaitTypeOK, QueueOK
  <2>2. pc' \in [Procs -> Places] /\ pc'[p] = "testing" /\ \A q \in Procs \ {p} : pc'[q] = pc[q]
    BY <2>1 DEF Places
  <2>3. IsQueueOf(wq', Procs) /\ Range(wq)' = Range(wq) \ {p}
    BY <2>1, <1>3, QueueLeave
  <2>4. QueueOK'
    BY <2>2, <2>3 DEF WaitInv, QueueOK
  <2>5. WaitTypeOK' /\ NoLostData'
    BY <2>2, <1>1 DEF WaitInv, WaitTypeOK, NoLostData
  <2> QED BY <2>4, <2>5 DEF WaitInv
<1> QED BY <1>2, <1>3 DEF Signal

LEMMA CallStep ==
  ASSUME WaitInv, NEW p \in Procs,
         ReadCall(p) \/ (\E lbuf \in Lengths : WriteCopy(p, lbuf)) \/ InCall(p)
  PROVE  WaitInv'
<1> USE DEF Places
<1>0. WaitTypeOK
  BY DEF WaitInv
<1>1. CASE ReadCall(p)
  BY <1>0, <1>1, AwakeMove DEF ReadCall, WaitTypeOK
<1>2. CASE \E lbuf \in Lengths : WriteCopy(p, lbuf)
  BY <1>0, <1>2, AwakeMove DEF WriteCopy, WaitTypeOK
<1>3. CASE WaitPass(p)
  BY <1>0, <1>3, AwakeMove DEF WaitPass, WaitTypeOK
<1>4. CASE WaitAbort(p)
  <2>1. CASE pc[p] = "woken" /\ GotoAndWake(p, "passed")
    BY <1>0, <1>4, <2>1, WakeMove DEF WaitAbort, WaitTypeOK
  <2>2. CASE Goto(p, {"testing"}, "passed") /\ UNCHANGED wq
    BY <1>0, <1>4, <2>2, AwakeMove DEF WaitAbort, WaitTypeOK
  <2> QED BY <1>4, <2>1, <2>2 DEF WaitAbort
<1>5. CASE ReadSignalled(p)
  <2>1. data_ready' = 0 \/ swallowed'
    BY <1>0, <1>5 DEF ReadSignalled, WaitTypeOK
  <2>2. swallowed' \in BOOLEAN /\ pending' \subseteq Procs /\ data_ready' \in {0, 1}
    BY <1>0, <1>5 DEF ReadSignalled, WaitTypeOK
  <2> QED BY <2>1, <2>2, <1>5, AwakeMove DEF ReadSignalled
<1>6. CASE ReadTake(p)
  BY <1>0, <1>6, AwakeMove DEF ReadTake, WaitTypeOK
<1>7. CASE \E lbuf \in Lengths : ReadCopy(p, lbuf)
  BY <1>0, <1>7, AwakeMove DEF ReadCopy, WaitTypeOK
<1>8. CASE WriteRaise(p)
  BY <1>0, <1>8, AwakeMove DEF WriteRaise, WaitTypeOK
<1>9. CASE WriteWake(p)
  BY <1>0, <1>9, WakeMove DEF WriteWake, WaitTypeOK
<1>10. CASE WaitSleep(p)
  BY <1>10, SleepStep
<1> QED BY <1>1, <1>2, <1>3, <1>4, <1>5, <1>6, <1>7, <1>8, <1>9, <1>10 DEF InCall

LEMMA WaitFrame == ASSUME WaitInv, UNCHANGED waitVars PROVE WaitInv'
BY DEF waitVars, WaitInv, WaitTypeOK, QueueOK, NoLostData

(***************************************************************************)
(* Both.                                                                   *)
(***************************************************************************)

LEMMA CallOnDisk ==
  ASSUME DiskInv, NEW p \in Procs,
         ReadCall(p) \/ (\E lbuf \in Lengths : WriteCopy(p, lbuf)) \/ InCall(p) \/ Signal(p)
  PROVE  DiskInv'
<1>1. CASE UNCHANGED diskVars
  BY <1>1, DiskFrame
<1>2. ASSUME NEW lbuf \in Lengths, WriteCopy(p, lbuf) \/ ReadCopy(p, lbuf) PROVE DiskInv'
  BY <1>2, TransferStep DEF WriteCopy, ReadCopy
<1> QED BY <1>1, <1>2 DEF InCall, ReadCall, Signal, WaitPass, WaitSleep, WaitAbort,
                          ReadSignalled, ReadTake, WriteRaise, WriteWake

LEMMA WaitEventStep == DiskInv /\ WaitInv /\ [Next]_vars => DiskInv' /\ WaitInv'
<1> SUFFICES ASSUME DiskInv, WaitInv, [Next]_vars PROVE DiskInv' /\ WaitInv'
  OBVIOUS
<1>1. CASE DiskStep
  BY <1>1, DiskInvStep, WaitFrame DEF DiskStep
<1>2. ASSUME NEW p \in Procs,
             ReadCall(p) \/ (\E lbuf \in Lengths : WriteCopy(p, lbuf)) \/ InCall(p) \/ Signal(p)
      PROVE  DiskInv' /\ WaitInv'
  BY <1>2, CallOnDisk, CallStep, SignalStep
<1>3. CASE UNCHANGED vars
  BY <1>3, DiskFrame, WaitFrame DEF vars
<1> QED BY <1>1, <1>2, <1>3 DEF Next

\* Device and readers keep the invariant through every step.
THEOREM WaitEventInvariant == Spec => [](DiskInv /\ WaitInv)
<1>1. Init => DiskInv /\ WaitInv
  BY DiskInvInit, WaitInvInit DEF Init
<1> QED BY <1>1, WaitEventStep, PTL DEF Spec

\* However seeks, reads and writes follow one another, a file position is in the
\* device or at its end (Lab3/3.1.3/seek.c:18), for every size of it.
THEOREM PositionInDevice == Spec => []DiskTypeOK
<1>1. DiskInv => DiskTypeOK
  BY DEF DiskInv
<1> QED BY <1>1, WaitEventInvariant, PTL

\* The drivers of Lab3 touch and free only memory that is theirs, and give it
\* back but for a failed registration of wait_event; so does the one with a
\* buffer per open as long as no two processes have it open at once and until
\* it is unloaded (Lab4/4.1.2.2/seek.c:58, 70).
THEOREM DeviceMemorySafe == Spec => []MemorySafe
<1>1. DiskInv => MemorySafe
  <2> SUFFICES ASSUME DiskInv PROVE MemorySafe
    OBVIOUS
  <2>1. phase \in {"absent", "loaded", "failed", "unloaded"}
    BY DEF DiskInv, DiskTypeOK
  <2> QED BY <2>1 DEF DiskInv, MemorySafe, AbsentOK, FailedOK, LoadedOK, UnloadedOK
<1> QED BY <1>1, WaitEventInvariant, PTL

\* No wake-up of a write is lost (wait_event.c:70, 76, 88-89), for any number of
\* readers, writers and signals.
THEOREM NoWakeUpLost == Spec => []NoLostData
<1>1. WaitInv => NoLostData
  BY DEF WaitInv
<1> QED BY <1>1, WaitEventInvariant, PTL
=============================================================================
