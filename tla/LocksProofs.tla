----------------------------- MODULE LocksProofs -----------------------------
(***************************************************************************)
(* Proofs about the modules that exclude one another, for every set of     *)
(* modules and of careless ones among them, with either lock.              *)
(***************************************************************************)
EXTENDS Locks, QueueLemmas, FiniteSetTheorems

(***************************************************************************)
(* The inductive invariant.  "One at a time" alone does not survive an     *)
(* unload: that the lock is free when the last module goes needs a holder  *)
(* for every lock that is taken, also after lab1_mutex2 went on without    *)
(* it; that up can hand the lock to its first waiter needs the queue to be *)
(* exactly the modules in my_init, and none of them to be woken otherwise. *)
(***************************************************************************)

NothingLoadedFirst == ~provider => InUse = {}
SemaphoreHandsOver == kind = "semaphore" => woken = {}
TakenIsHeld == ~free => Live # {}
OnlyHolderLives == unlocked = {} => /\ free => Live = {}
                                    /\ \A m, n \in Live : m = n

\* A free lock that modules wait for has a waiter that was woken and will try.
FreeLockHasTaker == free /\ waiters # << >> => woken # {}

LockInv ==
  /\ LocksTypeOK
  /\ NothingLoadedFirst
  /\ SemaphoreHandsOver
  /\ TakenIsHeld
  /\ OnlyHolderLives
  /\ FreeLockHasTaker

Waiting == {m \in Users : module[m] = "locking"}

LEMMA LockInvInit == Init => LockInv
<1> SUFFICES ASSUME Init PROVE LockInv
  OBVIOUS
<1>1. Live = {} /\ InUse = {} /\ Waiting = {}
  BY DEF Init, Live, InUse, Waiting
<1>2. LocksTypeOK
  BY <1>1, QueueOfNone DEF Init, LocksTypeOK, IsQueueOf, Waiting
<1> QED BY <1>1, <1>2 DEF Init, LockInv, NothingLoadedFirst, SemaphoreHandsOver,
                          TakenIsHeld, OnlyHolderLives, FreeLockHasTaker

\* One module changes its place: the sets before and after.
LEMMA PlaceChange ==
  ASSUME LockInv, NEW m \in Users, NEW to \in {"absent", "locking", "live"},
         module' = [module EXCEPT ![m] = to]
  PROVE  /\ module' \in [Users -> {"absent", "locking", "live"}]
         /\ Live' = IF to = "live" THEN Live \cup {m} ELSE Live \ {m}
         /\ InUse' = IF to = "absent" THEN InUse \ {m} ELSE InUse \cup {m}
         /\ Waiting' = IF to = "locking" THEN Waiting \cup {m} ELSE Waiting \ {m}
<1>1. module \in [Users -> {"absent", "locking", "live"}]
  BY DEF LockInv, LocksTypeOK
<1>2. module'[m] = to /\ \A n \in Users \ {m} : module'[n] = module[n]
  BY <1>1
<1>3. module' \in [Users -> {"absent", "locking", "live"}]
  BY <1>1
<1>4. Live' = IF to = "live" THEN Live \cup {m} ELSE Live \ {m}
  BY <1>2 DEF Live
<1>5. InUse' = IF to = "absent" THEN InUse \ {m} ELSE InUse \cup {m}
  BY <1>2 DEF InUse
<1>6. Waiting' = IF to = "locking" THEN Waiting \cup {m} ELSE Waiting \ {m}
  BY <1>2 DEF Waiting
<1> QED BY <1>3, <1>4, <1>5, <1>6

\* What LeaveQueue does to the queue.
LEMMA LeavesQueue ==
  ASSUME LockInv, NEW m \in Users, LeaveQueue(m)
  PROVE  /\ IsQueueOf(waiters', Users)
         /\ Range(waiters') = Waiting \ {m}
         /\ module[m] = "locking"
<1>1. IsQueueOf(waiters, Users) /\ Range(waiters) = Waiting
  BY DEF LockInv, LocksTypeOK, IsQueueOf, Waiting
<1>2. PICK i \in DOMAIN waiters : waiters[i] = m /\ waiters' = RemoveAt(waiters, i)
  BY DEF LeaveQueue
<1>3. /\ m \in Range(waiters)
      /\ IsQueueOf(waiters', Users)
      /\ Range(waiters') = Range(waiters) \ {m}
  BY <1>1, <1>2, QueueLeave
<1> QED BY <1>1, <1>3 DEF Waiting

LEMMA LoadStep == ASSUME LockInv, NEW m \in Users, Load(m) PROVE LockInv'
<1>1. module[m] = "absent" /\ provider /\ UNCHANGED <<kind, provider, woken, unlocked>>
  BY DEF Load
<1>2. IsQueueOf(waiters, Users) /\ Range(waiters) = Waiting /\ m \notin Waiting
  BY <1>1 DEF LockInv, LocksTypeOK, IsQueueOf, Waiting
<1>3. CASE free /\ free' = FALSE /\ module' = [module EXCEPT ![m] = "live"] /\ UNCHANGED waiters
  <2>1. /\ module' \in [Users -> {"absent", "locking", "live"}]
        /\ Live' = Live \cup {m} /\ Waiting' = Waiting \ {m}
    BY <1>3, PlaceChange
  <2>2. Waiting' = Waiting
    BY <2>1, <1>2
  <2>3. LocksTypeOK'
    BY <2>1, <2>2, <1>1, <1>2, <1>3 DEF LockInv, LocksTypeOK, Waiting
  <2> QED BY <2>1, <2>3, <1>1, <1>3
          DEF LockInv, NothingLoadedFirst, SemaphoreHandsOver, TakenIsHeld,
              OnlyHolderLives, FreeLockHasTaker
<1>4. CASE ~free /\ module' = [module EXCEPT ![m] = "locking"]
             /\ waiters' = Append(waiters, m) /\ UNCHANGED free
  <2>1. /\ module' \in [Users -> {"absent", "locking", "live"}]
        /\ Live' = Live \ {m} /\ Waiting' = Waiting \cup {m}
    BY <1>4, PlaceChange
  <2>2. m \notin Live
    BY <1>1 DEF Live
  <2>3. IsQueueOf(waiters', Users) /\ Range(waiters') = Waiting \cup {m}
    BY <1>2, <1>4, QueueJoin
  <2>4. LocksTypeOK'
    BY <2>1, <2>3, <1>1, <1>2, <1>4 DEF LockInv, LocksTypeOK, Waiting, IsQueueOf
  <2> QED BY <2>1, <2>2, <2>4, <1>1, <1>4
          DEF LockInv, NothingLoadedFirst, SemaphoreHandsOver, TakenIsHeld,
              OnlyHolderLives, FreeLockHasTaker
<1> QED BY <1>3, <1>4 DEF Load

\* A waiter takes the free mutex, woken or just in time.
LEMMA TakeStep ==
  ASSUME LockInv, NEW m \in Users, TakeMutex(m), woken' = woken \ {m},
         UNCHANGED <<kind, provider, unlocked>>
  PROVE  LockInv'
<1>1. /\ free /\ ~free' /\ module' = [module EXCEPT ![m] = "live"]
      /\ LeaveQueue(m)
  BY DEF TakeMutex, LockInv, LocksTypeOK
<1>2. /\ IsQueueOf(waiters', Users)
      /\ Range(waiters') = Waiting \ {m}
      /\ module[m] = "locking"
  BY <1>1, LeavesQueue
<1>3. /\ module' \in [Users -> {"absent", "locking", "live"}]
      /\ Live' = Live \cup {m} /\ Waiting' = Waiting \ {m}
  BY <1>1, PlaceChange
<1>4. LocksTypeOK'
  BY <1>1, <1>2, <1>3 DEF TakeMutex, LockInv, LocksTypeOK, Waiting, IsQueueOf
<1>5. provider
  BY <1>2 DEF LockInv, NothingLoadedFirst, InUse
<1> QED BY <1>1, <1>3, <1>4, <1>5
        DEF LockInv, NothingLoadedFirst, SemaphoreHandsOver, TakenIsHeld,
            OnlyHolderLives, FreeLockHasTaker

\* A waiter that a signal takes from the queue.
LEMMA GiveUpStep ==
  ASSUME LockInv, NEW m \in Users, LoadFails(m) \/ LoadsAnyway(m)
  PROVE  LockInv'
<1>1. /\ ~free /\ ~free' /\ m \notin woken /\ LeaveQueue(m)
      /\ UNCHANGED <<kind, provider, woken>>
  BY DEF LoadFails, LoadsAnyway, GiveUp, LockInv, LocksTypeOK
<1>2. /\ IsQueueOf(waiters', Users)
      /\ Range(waiters') = Waiting \ {m}
      /\ module[m] = "locking"
  BY <1>1, LeavesQueue
<1>3. provider /\ m \notin Live
  BY <1>2 DEF LockInv, NothingLoadedFirst, InUse, Live
<1>4. PICK to \in {"absent", "live"} :
        /\ module' = [module EXCEPT ![m] = to]
        /\ unlocked' = IF to = "live" THEN unlocked \cup {m} ELSE unlocked
  BY DEF LoadFails, LoadsAnyway
<1>5. /\ module' \in [Users -> {"absent", "locking", "live"}]
      /\ Live' = (IF to = "live" THEN Live \cup {m} ELSE Live \ {m})
      /\ Waiting' = Waiting \ {m}
  BY <1>4, PlaceChange
<1>6. LocksTypeOK'
  <2>1. unlocked' \subseteq Users /\ free' \in BOOLEAN
    BY <1>1, <1>4 DEF GiveUp, LoadFails, LoadsAnyway, LockInv, LocksTypeOK
  <2>2. woken' \subseteq Range(waiters')
    BY <1>1, <1>2 DEF LockInv, LocksTypeOK, Waiting
  <2> QED BY <2>1, <2>2, <1>1, <1>2, <1>5 DEF LockInv, LocksTypeOK, Waiting, IsQueueOf
<1>7. TakenIsHeld'
  BY <1>1, <1>3, <1>5 DEF LockInv, TakenIsHeld
<1>8. OnlyHolderLives'
  BY <1>1, <1>3, <1>4, <1>5 DEF LockInv, OnlyHolderLives
<1> QED BY <1>1, <1>3, <1>6, <1>7, <1>8
        DEF LockInv, NothingLoadedFirst, SemaphoreHandsOver, FreeLockHasTaker

LEMMA MutexExitStep == ASSUME LockInv, NEW m \in Users, MutexExit(m) PROVE LockInv'
<1>1. /\ kind = "mutex" /\ module[m] = "live" /\ free' = TRUE
      /\ module' = [module EXCEPT ![m] = "absent"]
      /\ woken' = woken \cup (IF waiters = << >> THEN {} ELSE {Head(waiters)})
      /\ UNCHANGED <<kind, provider, waiters, unlocked>>
  BY DEF MutexExit
<1>2. /\ module' \in [Users -> {"absent", "locking", "live"}]
      /\ Live' = Live \ {m} /\ Waiting' = Waiting \ {m} /\ InUse' = InUse \ {m}
  BY <1>1, PlaceChange
<1>3. m \in Live /\ m \notin Waiting /\ IsQueueOf(waiters, Users) /\ Range(waiters) = Waiting
  BY <1>1 DEF Live, Waiting, LockInv, LocksTypeOK, IsQueueOf
<1>4. woken' \subseteq Range(waiters')
  BY <1>1, <1>3, QueueNext DEF LockInv, LocksTypeOK
<1>5. LocksTypeOK'
  BY <1>1, <1>2, <1>3, <1>4 DEF LockInv, LocksTypeOK, Waiting
<1>6. OnlyHolderLives'
  BY <1>1, <1>2, <1>3 DEF LockInv, OnlyHolderLives
<1> QED BY <1>1, <1>2, <1>5, <1>6
        DEF LockInv, NothingLoadedFirst, SemaphoreHandsOver, TakenIsHeld, FreeLockHasTaker

LEMMA SemaphoreExitStep == ASSUME LockInv, NEW m \in Users, SemaphoreExit(m) PROVE LockInv'
<1>1. kind = "semaphore" /\ module[m] = "live" /\ UNCHANGED <<kind, provider, woken, unlocked>>
  BY DEF SemaphoreExit
<1>2. m \in Live /\ m \notin Waiting /\ IsQueueOf(waiters, Users) /\ Range(waiters) = Waiting
      /\ woken = {} /\ provider
  BY <1>1 DEF Live, Waiting, LockInv, LocksTypeOK, IsQueueOf, SemaphoreHandsOver,
              NothingLoadedFirst, InUse
<1>3. CASE waiters = << >>
  <2>1. free' = TRUE /\ module' = [module EXCEPT ![m] = "absent"] /\ waiters' = waiters
    BY <1>3 DEF SemaphoreExit
  <2>2. /\ module' \in [Users -> {"absent", "locking", "live"}]
        /\ Live' = Live \ {m} /\ Waiting' = Waiting \ {m}
    BY <2>1, PlaceChange
  <2>3. LocksTypeOK'
    BY <2>1, <2>2, <1>1, <1>2 DEF LockInv, LocksTypeOK, Waiting
  <2>4. OnlyHolderLives'
    BY <2>1, <2>2, <1>1, <1>2 DEF LockInv, OnlyHolderLives
  <2> QED BY <2>1, <2>3, <2>4, <1>1, <1>2, <1>3
          DEF LockInv, NothingLoadedFirst, SemaphoreHandsOver, TakenIsHeld, FreeLockHasTaker
<1>4. CASE waiters # << >>
  <2> DEFINE next == Head(waiters)
  <2>1. /\ next \in Waiting /\ IsQueueOf(Tail(waiters), Users)
        /\ Range(Tail(waiters)) = Waiting \ {next}
    BY <1>2, <1>4, QueueNext
  <2>2. /\ module' = [module EXCEPT ![m] = "absent", ![next] = "live"]
        /\ waiters' = Tail(waiters) /\ free' = free
    BY <1>4 DEF SemaphoreExit
  <2> HIDE DEF next
  <2>3. next \in Users /\ next # m /\ module \in [Users -> {"absent", "locking", "live"}]
    BY <2>1, <1>2 DEF Waiting, LockInv, LocksTypeOK
  <2>4. /\ module' \in [Users -> {"absent", "locking", "live"}]
        /\ module'[m] = "absent" /\ module'[next] = "live"
        /\ \A n \in Users \ {m, next} : module'[n] = module[n]
    BY <2>2, <2>3
  <2>5. Live' = (Live \ {m}) \cup {next} /\ Waiting' = Waiting \ {next}
    BY <2>3, <2>4, <1>1 DEF Live, Waiting
  <2>6. LocksTypeOK'
    BY <2>1, <2>2, <2>4, <2>5, <1>1, <1>2 DEF LockInv, LocksTypeOK, Waiting, IsQueueOf
  <2>7. ~free
    BY <1>2, <1>4 DEF LockInv, FreeLockHasTaker
  <2>8. OnlyHolderLives'
    BY <2>2, <2>5, <2>7, <1>1, <1>2 DEF LockInv, OnlyHolderLives
  <2> QED BY <2>2, <2>5, <2>6, <2>7, <2>8, <1>1, <1>2
          DEF LockInv, NothingLoadedFirst, SemaphoreHandsOver, TakenIsHeld, FreeLockHasTaker
<1> QED BY <1>3, <1>4

LEMMA ProviderStep == ASSUME LockInv, LoadProvider \/ UnloadProvider PROVE LockInv'
<1>1. InUse = {} /\ UNCHANGED <<kind, waiters, woken, module>>
  BY DEF LockInv, NothingLoadedFirst, LoadProvider, UnloadProvider
<1>2. Live = {} /\ Waiting = {} /\ InUse' = {} /\ Live' = {}
  BY <1>1 DEF Live, Waiting, InUse
<1>3. free'
  BY <1>2 DEF LoadProvider, UnloadProvider, LockInv, TakenIsHeld, LocksTypeOK
<1>4. waiters' = << >>
  BY <1>1, <1>2, QueueElements DEF LockInv, LocksTypeOK, Waiting
<1>5. LocksTypeOK'
  BY <1>1 DEF LoadProvider, UnloadProvider, LockInv, LocksTypeOK
<1> QED BY <1>1, <1>2, <1>3, <1>4, <1>5
        DEF LockInv, NothingLoadedFirst, SemaphoreHandsOver, TakenIsHeld,
            OnlyHolderLives, FreeLockHasTaker

LEMMA LocksFrame == ASSUME LockInv, UNCHANGED lockVars PROVE LockInv'
BY DEF lockVars, LockInv, LocksTypeOK, NothingLoadedFirst, SemaphoreHandsOver,
       TakenIsHeld, OnlyHolderLives, FreeLockHasTaker, Live, InUse

LEMMA LockInvStep == LockInv /\ [Next]_lockVars => LockInv'
<1> SUFFICES ASSUME LockInv, [Next]_lockVars PROVE LockInv'
  OBVIOUS
<1>1. ASSUME NEW m \in Users, Retry(m) PROVE LockInv'
  <2>1. CASE TakeMutex(m)
    BY <1>1, <2>1, TakeStep DEF Retry
  <2>2. CASE ~free /\ UNCHANGED <<free, module, waiters>>
    BY <1>1, <2>2 DEF Retry, LockInv, LocksTypeOK, NothingLoadedFirst, SemaphoreHandsOver,
                      TakenIsHeld, OnlyHolderLives, FreeLockHasTaker, Live, InUse
  <2> QED BY <1>1, <2>1, <2>2 DEF Retry
<1>2. ASSUME NEW m \in Users, SignalledInTime(m) PROVE LockInv'
  <2>1. TakeMutex(m) /\ woken' = woken \ {m} /\ UNCHANGED <<kind, provider, unlocked>>
    BY <1>2 DEF SignalledInTime
  <2> QED BY <2>1, TakeStep
<1>3. ASSUME NEW m \in Users, Load(m) \/ LoadFails(m) \/ LoadsAnyway(m) PROVE LockInv'
  BY <1>3, LoadStep, GiveUpStep
<1>4. ASSUME NEW m \in Users, MutexExit(m) \/ SemaphoreExit(m) PROVE LockInv'
  BY <1>4, MutexExitStep, SemaphoreExitStep
<1> QED BY <1>1, <1>2, <1>3, <1>4, ProviderStep, LocksFrame DEF Next

\* The modules and their lock keep the invariant through every step.
THEOREM LocksInvariant == Spec => []LockInv
BY LockInvInit, LockInvStep, PTL DEF Spec

\* The queue of the lock is exactly the modules in my_init, each once.
THEOREM LocksTypeCorrect == Spec => []LocksTypeOK
<1>1. LockInv => LocksTypeOK
  BY DEF LockInv
<1> QED BY <1>1, LocksInvariant, PTL

\* "Mutex Contention", "Semaphore Contention" (lab1_mutex2.c:20): one module at a
\* time, for any number of modules; always with the semaphores, and with the mutex
\* as long as lab1_mutex2 has not gone on after a signal; and a lock that is
\* free when nobody is loaded.
THEOREM OneModuleAtATime == Spec => []OneAtATime
<1>1. LockInv => OneAtATime
  <2> SUFFICES ASSUME LockInv PROVE OneAtATime
    OBVIOUS
  <2>1. ASSUME unlocked = {} PROVE Cardinality(Live) = IF free THEN 0 ELSE 1
    <3>1. CASE free
      BY <2>1, <3>1, FS_EmptySet DEF LockInv, OnlyHolderLives
    <3>2. CASE ~free
      <4>1. PICK m : Live = {m}
        BY <2>1, <3>2 DEF LockInv, OnlyHolderLives, TakenIsHeld
      <4> QED BY <4>1, <3>2, FS_Singleton
    <3> QED BY <3>1, <3>2
  <2>2. InUse = {} => free
    BY DEF LockInv, TakenIsHeld, Live, InUse
  <2> QED BY <2>1, <2>2 DEF OneAtATime
<1> QED BY <1>1, LocksInvariant, PTL

\* The semaphores are never taken by two, careless or not: nobody goes on without.
THEOREM SemaphoreAlwaysExcludes ==
  Spec => [](kind = "semaphore" => \A m, n \in Live : m = n)
<1> DEFINE NobodyGoesOn == kind = "semaphore" => unlocked = {}
<1>1. Init => NobodyGoesOn
  BY DEF Init
<1>2. NobodyGoesOn /\ [Next]_lockVars => NobodyGoesOn'
  <2> SUFFICES ASSUME NobodyGoesOn, [Next]_lockVars, kind' = "semaphore" PROVE unlocked' = {}
    OBVIOUS
  <2>1. kind' = kind /\ (unlocked' = unlocked \/ unlocked' = {} \/ kind = "mutex")
    BY DEF Next, lockVars, LoadProvider, UnloadProvider, Load, Retry, SignalledInTime,
           LoadFails, LoadsAnyway, GiveUp, MutexExit, SemaphoreExit
  <2> QED BY <2>1
<1>3. Spec => []NobodyGoesOn
  BY <1>1, <1>2, PTL DEF Spec
<1>4. LockInv /\ NobodyGoesOn => (kind = "semaphore" => \A m, n \in Live : m = n)
  BY DEF LockInv, OnlyHolderLives
<1> QED BY <1>3, <1>4, LocksInvariant, PTL

\* The safety that FreeLockTaken rests on: whenever the lock is free and modules
\* wait for it, one of them was woken and will try (mutex_unlock), and with the
\* semaphore this never happens at all (up).
THEOREM FreeLockNotForgotten == Spec => []FreeLockHasTaker
<1>1. LockInv => FreeLockHasTaker
  BY DEF LockInv
<1> QED BY <1>1, LocksInvariant, PTL
=============================================================================
