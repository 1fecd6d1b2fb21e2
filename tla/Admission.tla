------------------------------ MODULE Admission ------------------------------
(***************************************************************************)
(* Who may have the asgn2 device open: asgn2_open, asgn2_release and the   *)
(* ioctl that sets the maximum number of processes.  Processes are         *)
(* preempted between any two of the steps below.                           *)
(*                                                                         *)
(* A step of wait_event_interruptible tests the condition after the        *)
(* process has queued itself on process_wq, so the test and the going to   *)
(* sleep are one step: a wake-up after the test finds the sleeper.         *)
(***************************************************************************)
EXTENDS Integers, FiniteSets

CONSTANTS Procs,      \* the processes that use the device
          Modes,      \* the access modes they open it with
          Signals,    \* may a signal interrupt a sleeper?
          IoctlArgs,  \* the values passed to the ioctl
          MaxLeaked   \* bound of the model: how many opens are refused

ASSUME ProcsAssumption == IsFiniteSet(Procs)
ASSUME ModesAssumption == Modes \subseteq {"O_RDONLY", "O_WRONLY", "O_RDWR"}
ASSUME SignalsAssumption == Signals \in BOOLEAN
ASSUME IoctlAssumption == IoctlArgs \subseteq Int

VARIABLES nprocs, max_nprocs,  \* the two counters of asgn2_dev
          null_flag,           \* set by a read that meets a terminator
          fd,                  \* where each process is, see States
          leaked               \* ghost: opens refused with -EACCES so far

admVars == <<nprocs, max_nprocs, null_flag, fd, leaked>>

\* waiting: about to test the condition of wait_event; asleep: on process_wq;
\* passed: beyond wait_event, not counted yet; closing: decremented nprocs,
\* process_wq not woken yet.
States == {"closed", "waiting", "asleep", "passed", "open", "closing"}

At(state) == {p \in Procs : fd[p] = state}

Move(p, from, to) == fd[p] = from /\ fd' = [fd EXCEPT ![p] = to]

\* open(2).  For want of braces the test of nprocs against max_nprocs only
\* guards a message: every opener goes on to wait_event.
OpenCall(p) ==
  /\ Move(p, "closed", "waiting")
  /\ UNCHANGED <<nprocs, max_nprocs, null_flag, leaked>>

OpenPass(p) ==
  /\ nprocs = 0
  /\ Move(p, "waiting", "passed")
  /\ UNCHANGED <<nprocs, max_nprocs, null_flag, leaked>>

OpenSleep(p) ==
  /\ nprocs # 0
  /\ Move(p, "waiting", "asleep")
  /\ UNCHANGED <<nprocs, max_nprocs, null_flag, leaked>>

\* The result of wait_event_interruptible is ignored: a signal lets the
\* sleeper pass.
OpenSignal(p) ==
  /\ Signals
  /\ Move(p, "asleep", "passed")
  /\ UNCHANGED <<nprocs, max_nprocs, null_flag, leaked>>

\* Faulty variant: a reader is not counted.
AdmitUncounted(p) ==
  /\ "O_RDONLY" \in Modes
  /\ Move(p, "passed", "open")
  /\ UNCHANGED <<nprocs, max_nprocs, null_flag, leaked>>

OpenAdmit(p) ==
  /\ "O_RDONLY" \in Modes
  /\ Move(p, "passed", "open")
  /\ nprocs' = nprocs + 1
  /\ UNCHANGED <<max_nprocs, null_flag, leaked>>

\* Any other mode is refused after the process was counted.
OpenRefuse(p) ==
  /\ Modes \ {"O_RDONLY"} # {}
  /\ leaked < MaxLeaked
  /\ Move(p, "passed", "closed")
  /\ nprocs' = nprocs + 1
  /\ leaked' = leaked + 1
  /\ UNCHANGED <<max_nprocs, null_flag>>

\* Faulty variant: a session leaves null_flag to the next one.
CloseKeepFlag(p) ==
  /\ Move(p, "open", "closing")
  /\ nprocs' = nprocs - 1
  /\ UNCHANGED <<max_nprocs, null_flag, leaked>>

\* close(2): first the flag and the counter, ...
ReleaseDec(p) ==
  /\ Move(p, "open", "closing")
  /\ null_flag' = 0
  /\ nprocs' = nprocs - 1
  /\ UNCHANGED <<max_nprocs, leaked>>

\* Faulty variant: the wake-up is left out.
CloseSilently(p) ==
  /\ Move(p, "closing", "closed")
  /\ UNCHANGED <<nprocs, max_nprocs, null_flag, leaked>>

\* ... then wake_up_interruptible, which wakes every sleeper.
ReleaseWake(p) ==
  /\ fd[p] = "closing"
  /\ fd' = [q \in Procs |-> IF q = p THEN "closed"
                            ELSE IF fd[q] = "asleep" THEN "waiting"
                            ELSE fd[q]]
  /\ UNCHANGED <<nprocs, max_nprocs, null_flag, leaked>>

\* Faulty variant: a limit of zero or less is accepted.
SetAnyLimit(p, n) ==
  /\ fd[p] = "open"
  /\ max_nprocs' = n
  /\ UNCHANGED <<nprocs, null_flag, fd, leaked>>

asgn2_ioctl(p, n) ==
  /\ fd[p] = "open"
  /\ n > 0
  /\ max_nprocs' = n
  /\ UNCHANGED <<nprocs, null_flag, fd, leaked>>

\* Stands for a read that meets a terminator: see Reader in module Asgn2.
ReadFindsNull(p) ==
  /\ fd[p] = "open"
  /\ null_flag' = 1
  /\ UNCHANGED <<nprocs, max_nprocs, fd, leaked>>

OpenStep(p) == OpenPass(p) \/ OpenSleep(p) \/ OpenAdmit(p) \/ OpenRefuse(p)

AdmInit ==
  /\ nprocs = 0
  /\ max_nprocs = 1
  /\ null_flag = 0
  /\ fd = [p \in Procs |-> "closed"]
  /\ leaked = 0

AdmNext ==
  \E p \in Procs :
    \/ OpenCall(p)
    \/ OpenPass(p)
    \/ OpenSleep(p)
    \/ OpenSignal(p)
    \/ OpenAdmit(p)
    \/ OpenRefuse(p)
    \/ ReleaseDec(p)
    \/ ReleaseWake(p)
    \/ \E n \in IoctlArgs : asgn2_ioctl(p, n)
    \/ ReadFindsNull(p)

AdmSpec == AdmInit /\ [][AdmNext]_admVars

\* A process inside open or close runs on; a holder closes in the end, as the
\* kernel does for it when it exits.  Nothing makes a process open the device.
AdmFairness ==
  \A p \in Procs : WF_admVars(OpenStep(p)) /\ WF_admVars(ReleaseDec(p))
                     /\ WF_admVars(ReleaseWake(p))

AdmFairSpec == AdmSpec /\ AdmFairness

-----------------------------------------------------------------------------
(* Properties.                                                             *)

AdmTypeOK ==
  /\ nprocs \in Nat
  /\ max_nprocs \in Nat \ {0}
  /\ null_flag \in {0, 1}
  /\ fd \in [Procs -> States]
  /\ leaked \in Nat

\* nprocs is the number of processes that hold the device, plus one for every
\* open that was refused after it was counted (lines 130-135 and 149): no
\* interleaving of opens and closes loses an update or counts one twice.
Accounting == nprocs = Cardinality(At("open")) + leaked

\* No lost wake-up: while a process sleeps on process_wq, the counter is not
\* zero, or a close that brought it to zero has its wake-up still to come
\* (lines 128 and 149-150).
SleeperHasWaker == At("asleep") # {} => (nprocs > 0 \/ At("closing") # {})

\* A session starts without the terminator of an earlier one: while nobody
\* has the device open, null_flag is clear (line 148).
FreshSession == At("open") = {} => null_flag = 0

\* Every process asleep in open is woken in the end, and a free device that
\* somebody waits for is taken, unless a refused open has left the count stuck
\* (lines 128, 149 and 150).
SleeperWoken ==
  \A p \in Procs : fd[p] = "asleep" ~> (fd[p] # "asleep" \/ leaked > 0)

FreeDeviceTaken ==
  (nprocs = 0 /\ At("asleep") \cup At("waiting") # {})
     ~> (At("open") # {} \/ leaked > 0)

\* Line 125: "Prevents number of processes from exceeding the max".
NprocsWithinMax == nprocs <= max_nprocs
=============================================================================
