------------------------------ MODULE WaitEvent ------------------------------
(***************************************************************************)
(* Lab3/3.2.1/wait_event.c: a read of the memory device (LabDisk) waits    *)
(* until a write has set data_ready, as one of several exclusive waiters,  *)
(* of which a wake-up wakes the first.                                     *)
(*                                                                         *)
(* Of wait_event_interruptible_exclusive: the process is queued before it  *)
(* tests the condition, so that testing and falling asleep are one step; a *)
(* wake-up takes the waiter off the queue; a waiter that gives up because  *)
(* of a signal after it was woken wakes the next one in its place.         *)
(***************************************************************************)
EXTENDS LabDisk, SequencesExt

CONSTANT Signals  \* may signals arrive?
ASSUME SignalsAssumption == Signals \in BOOLEAN

VARIABLES data_ready,
          wq,        \* the processes asleep, first to last
          pc,        \* where each process is, see Places
          pending,   \* the processes with a signal pending
          swallowed  \* ghost: a reader left for a signal while data was ready

waitVars == <<data_ready, wq, pc, pending, swallowed>>
vars == <<diskVars, waitVars>>

\* testing: about to test data_ready; woken: the same, woken by a write; passed:
\* beyond the wait; copying: data_ready is cleared; wrote: the device is
\* written; raised: data_ready is set, nobody woken yet.
Places == {"idle", "testing", "asleep", "woken", "passed", "copying", "wrote", "raised"}

Goto(p, from, to) == pc[p] \in from /\ pc' = [pc EXCEPT ![p] = to]

\* p goes to a place, and the first sleeper, if any, is woken.
GotoAndWake(p, to) ==
  /\ pc' = [q \in Procs |-> IF q = p THEN to
                            ELSE IF wq # << >> /\ q = Head(wq) THEN "woken" ELSE pc[q]]
  /\ wq' = IF wq = << >> THEN wq ELSE Tail(wq)

-----------------------------------------------------------------------------
(* mycdrv_read                                                             *)

ReadCall(p) ==
  /\ Running /\ driver = "wait_event"
  /\ f_pos[p] # Closed
  /\ Goto(p, {"idle"}, "testing")
  /\ UNCHANGED <<diskVars, data_ready, wq, pending, swallowed>>

WaitPass(p) ==
  /\ data_ready = 1
  /\ Goto(p, {"testing", "woken"}, "passed")
  /\ UNCHANGED <<diskVars, data_ready, wq, pending, swallowed>>

WaitSleep(p) ==
  /\ data_ready = 0
  /\ p \notin pending
  /\ Goto(p, {"testing", "woken"}, "asleep")
  /\ wq' = Append(wq, p)
  /\ UNCHANGED <<diskVars, data_ready, pending, swallowed>>

\* The wait ends for the signal; the read does not look at its result.
WaitAbort(p) ==
  /\ data_ready = 0
  /\ p \in pending
  /\ \/ pc[p] = "woken" /\ GotoAndWake(p, "passed")
     \/ Goto(p, {"testing"}, "passed") /\ UNCHANGED wq
  /\ UNCHANGED <<diskVars, data_ready, pending, swallowed>>

\* -ERESTARTSYS.
ReadSignalled(p) ==
  /\ p \in pending
  /\ Goto(p, {"passed"}, "idle")
  /\ pending' = pending \ {p}
  /\ swallowed' = (swallowed \/ data_ready = 1)
  /\ UNCHANGED <<diskVars, data_ready, wq>>

\* Faulty variant: the flag is left set.
TakeNothing(p) ==
  /\ p \notin pending
  /\ Goto(p, {"passed"}, "copying")
  /\ UNCHANGED <<diskVars, data_ready, wq, pending, swallowed>>

ReadTake(p) ==
  /\ p \notin pending
  /\ Goto(p, {"passed"}, "copying")
  /\ data_ready' = 0
  /\ swallowed' = FALSE
  /\ UNCHANGED <<diskVars, wq, pending>>

\* mycdrv_generic_read
ReadCopy(p, lbuf) ==
  /\ Goto(p, {"copying"}, "idle")
  /\ \E n \in nbytes(p, lbuf) : Transfer(p, n)
  /\ UNCHANGED <<data_ready, wq, pending, swallowed>>

-----------------------------------------------------------------------------
(* mycdrv_write                                                            *)

\* mycdrv_generic_write
WriteCopy(p, lbuf) ==
  /\ driver = "wait_event"
  /\ Goto(p, {"idle"}, "wrote")
  /\ \E n \in nbytes(p, lbuf) : Transfer(p, n)
  /\ UNCHANGED <<data_ready, wq, pending, swallowed>>

WriteRaise(p) ==
  /\ Goto(p, {"wrote"}, "raised")
  /\ data_ready' = 1
  /\ UNCHANGED <<diskVars, wq, pending, swallowed>>

\* Faulty variant: the wake-up is left out.
WakeNobody(p) ==
  /\ Goto(p, {"raised"}, "idle")
  /\ UNCHANGED <<diskVars, data_ready, wq, pending, swallowed>>

WriteWake(p) ==
  /\ pc[p] = "raised"
  /\ GotoAndWake(p, "idle")
  /\ swallowed' = FALSE
  /\ UNCHANGED <<diskVars, data_ready, pending>>

-----------------------------------------------------------------------------
\* A signal to a process that is in the wait or on its way out of it; a sleeper
\* leaves the queue.
Signal(p) ==
  /\ Signals
  /\ pending' = pending \cup {p}
  /\ \/ pc[p] \in {"testing", "woken", "passed"} /\ UNCHANGED <<pc, wq>>
     \/ /\ Goto(p, {"asleep"}, "testing")
        /\ \E i \in DOMAIN wq : wq[i] = p /\ wq' = RemoveAt(wq, i)
  /\ UNCHANGED <<diskVars, data_ready, swallowed>>

\* A file is closed only when no call is under way on it.
DiskStep ==
  /\ DiskNext
  /\ \A p \in Procs : f_pos'[p] # f_pos[p] => pc[p] = "idle"
  /\ UNCHANGED waitVars

InCall(p) ==
  \/ WaitPass(p) \/ WaitSleep(p) \/ WaitAbort(p) \/ ReadSignalled(p) \/ ReadTake(p)
  \/ \E lbuf \in Lengths : ReadCopy(p, lbuf)
  \/ WriteRaise(p) \/ WriteWake(p)

Init ==
  /\ DiskInit
  /\ data_ready = 0
  /\ wq = << >>
  /\ pc = [p \in Procs |-> "idle"]
  /\ pending = {}
  /\ swallowed = FALSE

Next ==
  \/ DiskStep
  \/ \E p \in Procs :
       ReadCall(p) \/ (\E lbuf \in Lengths : WriteCopy(p, lbuf)) \/ InCall(p) \/ Signal(p)

Spec == Init /\ [][Next]_vars

\* A process inside a call that does not sleep runs on; nobody has to read,
\* to write or to send a signal.
FairSpec == Spec /\ \A p \in Procs : WF_vars(InCall(p))

-----------------------------------------------------------------------------
(* Properties.                                                             *)

\* No lost wake-up (wait_event.c:70, 76, 88-89): while data is ready and a reader
\* sleeps, a writer has its wake-up still to come or a reader is on its way
\* to the data, unless a signal took away the reader that had been woken (line
\* 74): it returns without the data and without waking another.
NoLostData ==
  data_ready = 1 /\ wq # << >>
    => \/ swallowed
       \/ \E p \in Procs : pc[p] \in {"testing", "woken", "passed", "raised"}

\* "Have the read() function go to sleep until woken by a write()"
\* (wait_event.c:24): data that is ready while readers sleep is taken by a
\* reader in the end, with the same exception.
DataTaken ==
  (data_ready = 1 /\ wq # << >>) ~> (data_ready = 0 \/ wq = << >> \/ swallowed)
=============================================================================
