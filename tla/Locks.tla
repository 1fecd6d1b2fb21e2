-------------------------------- MODULE Locks --------------------------------
(***************************************************************************)
(* Lab4/4.1.1 and 4.1.2: one module exports a lock, a mutex or a           *)
(* semaphore, and others take it when they are loaded, keep it as long as  *)
(* they are there and release it when they are unloaded, so that only one  *)
(* of them is loaded at a time.                                            *)
(*                                                                         *)
(* Of the kernel's locks: up hands the semaphore to its first waiter;      *)
(* mutex_unlock frees the mutex and wakes the first waiter, which may find *)
(* that somebody else was faster.  A waiter for the mutex tries to take it *)
(* before it looks at its signals.  A module cannot be unloaded while      *)
(* another uses its lock.                                                  *)
(***************************************************************************)
EXTENDS Integers, SequencesExt, FiniteSets

CONSTANTS Users,     \* the modules that take the lock
          Careless,  \* those that do not look whether they got it, like lab1_mutex2
          Kinds      \* which of the locks: "mutex", "semaphore"

ASSUME CarelessAssumption == Careless \subseteq Users
ASSUME KindsAssumption == Kinds \subseteq {"mutex", "semaphore"}

VARIABLES kind,      \* the lock of this experiment, chosen once
          provider,  \* is the module with the lock loaded?
          free,      \* is the lock free?
          waiters,   \* modules that wait for the lock, first to last
          woken,     \* waiters for the mutex that were woken and will try
          module,    \* "absent", "locking" (in my_init) or "live"
          unlocked   \* ghost: modules loaded without having got the lock

lockVars == <<kind, provider, free, waiters, woken, module, unlocked>>

Live == {m \in Users : module[m] = "live"}
InUse == {m \in Users : module[m] # "absent"}

\* my_init, up to the lock: taken at once, or waited for.
Load(m) ==
  /\ provider
  /\ module[m] = "absent"
  /\ \/ /\ free
        /\ free' = FALSE
        /\ module' = [module EXCEPT ![m] = "live"]
        /\ UNCHANGED waiters
     \/ /\ ~free
        /\ module' = [module EXCEPT ![m] = "locking"]
        /\ waiters' = Append(waiters, m)
        /\ UNCHANGED free
  /\ UNCHANGED <<kind, provider, woken, unlocked>>

LeaveQueue(m) ==
  \E i \in DOMAIN waiters : waiters[i] = m /\ waiters' = RemoveAt(waiters, i)

TakeMutex(m) ==
  /\ free
  /\ free' = FALSE
  /\ module' = [module EXCEPT ![m] = "live"]
  /\ LeaveQueue(m)

\* A woken waiter for the mutex gets it, or waits on in its place.
Retry(m) ==
  /\ m \in woken
  /\ woken' = woken \ {m}
  /\ TakeMutex(m) \/ (~free /\ UNCHANGED <<free, module, waiters>>)
  /\ UNCHANGED <<kind, provider, unlocked>>

\* So does one that a signal wakes while the mutex is free.
SignalledInTime(m) ==
  /\ m \in Range(waiters) \ woken
  /\ TakeMutex(m)
  /\ UNCHANGED <<kind, provider, woken, unlocked>>

\* Faulty variant: a waiter that gave up stays in the list.
GiveUpInList(m) ==
  /\ m \in Range(waiters) \ woken
  /\ ~free
  /\ UNCHANGED <<kind, provider, free, waiters, woken>>

GiveUp(m) ==
  /\ m \in Range(waiters) \ woken
  /\ ~free
  /\ LeaveQueue(m)
  /\ UNCHANGED <<kind, provider, free, woken>>

\* A signal ends the wait and the load of lab1_mutex3, semaphore2, semaphore3 ...
LoadFails(m) ==
  /\ kind = "semaphore" \/ m \notin Careless
  /\ GiveUp(m)
  /\ module' = [module EXCEPT ![m] = "absent"]
  /\ UNCHANGED unlocked

\* ... but lab1_mutex2 goes on without the lock.
LoadsAnyway(m) ==
  /\ kind = "mutex" /\ m \in Careless
  /\ GiveUp(m)
  /\ module' = [module EXCEPT ![m] = "live"]
  /\ unlocked' = unlocked \cup {m}

\* Faulty variant: the module is unloaded without releasing the lock.
UnloadKeepsLock(m) ==
  /\ module[m] = "live"
  /\ module' = [module EXCEPT ![m] = "absent"]
  /\ UNCHANGED <<kind, provider, free, waiters, woken, unlocked>>

\* my_exit of a module with the mutex: mutex_unlock, held or not.
MutexExit(m) ==
  /\ kind = "mutex"
  /\ module[m] = "live"
  /\ module' = [module EXCEPT ![m] = "absent"]
  /\ free' = TRUE
  /\ woken' = woken \cup (IF waiters = << >> THEN {} ELSE {Head(waiters)})
  /\ UNCHANGED <<kind, provider, waiters, unlocked>>

\* Faulty variant: the semaphore is freed although somebody waits for it.
UpFrees(m) ==
  /\ kind = "semaphore"
  /\ module[m] = "live"
  /\ module' = [module EXCEPT ![m] = "absent"]
  /\ free' = TRUE
  /\ UNCHANGED <<kind, provider, waiters, woken, unlocked>>

\* my_exit of a module with the semaphore: up.
SemaphoreExit(m) ==
  /\ kind = "semaphore"
  /\ module[m] = "live"
  /\ IF waiters = << >>
     THEN /\ free' = TRUE
          /\ module' = [module EXCEPT ![m] = "absent"]
          /\ UNCHANGED waiters
     ELSE /\ module' = [module EXCEPT ![m] = "absent", ![Head(waiters)] = "live"]
          /\ waiters' = Tail(waiters)
          /\ UNCHANGED free
  /\ UNCHANGED <<kind, provider, woken, unlocked>>

\* lab1_mutex1, semaphore1.
LoadProvider ==
  /\ ~provider
  /\ provider' = TRUE
  /\ free' = TRUE
  /\ UNCHANGED <<kind, waiters, woken, module, unlocked>>

UnloadProvider ==
  /\ provider
  /\ InUse = {}
  /\ provider' = FALSE
  /\ unlocked' = {}
  /\ UNCHANGED <<kind, free, waiters, woken, module>>

Init ==
  /\ kind \in Kinds
  /\ provider = FALSE
  /\ free = TRUE
  /\ waiters = << >>
  /\ woken = {}
  /\ module = [m \in Users |-> "absent"]
  /\ unlocked = {}

Next ==
  \/ LoadProvider
  \/ UnloadProvider
  \/ \E m \in Users : \/ Load(m) \/ Retry(m) \/ SignalledInTime(m)
                      \/ LoadFails(m) \/ LoadsAnyway(m)
                      \/ MutexExit(m) \/ SemaphoreExit(m)

Spec == Init /\ [][Next]_lockVars

\* insmod runs on once it was woken.  Nobody has to unload a module.
FairSpec == Spec /\ \A m \in Users : WF_lockVars(Retry(m))

-----------------------------------------------------------------------------
(* Properties.                                                             *)

LocksTypeOK ==
  /\ kind \in Kinds
  /\ provider \in BOOLEAN
  /\ free \in BOOLEAN
  /\ waiters \in Seq(Users) /\ IsInjective(waiters)
  /\ Range(waiters) = {m \in Users : module[m] = "locking"}
  /\ woken \subseteq Range(waiters)
  /\ module \in [Users -> {"absent", "locking", "live"}]
  /\ unlocked \subseteq Users

\* The point of the exercise ("Mutex Contention", "Semaphore Contention",
\* lab1_mutex2.c:20): one module at a time, and the lock is taken exactly
\* while there is one; always with the semaphores, and with the mutex as long as
\* lab1_mutex2 has not gone on after a signal (lab1_mutex2.c:43).  Even then
\* the lock is free in the end, when no module is loaded or about to be.
OneAtATime ==
  provider => /\ unlocked = {} => Cardinality(Live) = (IF free THEN 0 ELSE 1)
              /\ InUse = {} => free

\* A lock that becomes free while modules wait for it is taken: the wake-up of
\* an unlock is lost neither to a signal nor to a module that was faster.
FreeLockTaken == (free /\ waiters # << >>) ~> (~free \/ waiters = << >>)
=============================================================================
