--------------------------- MODULE AdmissionProofs ---------------------------
(***************************************************************************)
(* Proofs about the admission of processes, for every set of processes,    *)
(* every mix of modes, signals and ioctl arguments.                        *)
(***************************************************************************)
EXTENDS Admission, FiniteSetTheorems, TLAPS

(***************************************************************************)
(* The inductive invariant.  That nprocs never goes below zero follows     *)
(* from the accounting (a process that closes is one of those counted), so *)
(* the types and the accounting are proved together.                       *)
(***************************************************************************)
AdmInv == AdmTypeOK /\ Accounting /\ SleeperHasWaker /\ FreshSession

\* The processes at a place form a finite set.
LEMMA AtFinite ==
  ASSUME NEW state PROVE IsFiniteSet(At(state)) /\ Cardinality(At(state)) \in Nat
<1>1. At(state) \subseteq Procs
  BY DEF At
<1> QED BY <1>1, ProcsAssumption, FS_Subset, FS_CardinalityType

\* A move changes the sets of its two ends and no other.
LEMMA MoveSets ==
  ASSUME AdmTypeOK, NEW p \in Procs, NEW from \in States, NEW to \in States,
         from # to, Move(p, from, to)
  PROVE  /\ fd' \in [Procs -> States]
         /\ p \in At(from)
         /\ At(from)' = At(from) \ {p}
         /\ At(to)' = At(to) \cup {p}
         /\ p \notin At(to)
         /\ \A state \in States \ {from, to} : At(state)' = At(state)
BY DEF AdmTypeOK, Move, At

LEMMA AdmInvInit == AdmInit => AdmInv
<1> SUFFICES ASSUME AdmInit PROVE AdmInv
  OBVIOUS
<1>1. AdmTypeOK
  BY DEF AdmInit, AdmTypeOK, States
<1>2. \A state \in States \ {"closed"} : At(state) = {}
  BY DEF AdmInit, At
<1>3. At("open") = {} /\ At("asleep") = {}
  BY <1>2 DEF States
<1>4. Accounting
  BY <1>3, FS_EmptySet DEF AdmInit, Accounting
<1> QED BY <1>1, <1>3, <1>4 DEF AdmInit, AdmInv, SleeperHasWaker, FreshSession

\* A step that moves a process between places other than open and asleep, and
\* not away from closing, and leaves the counters alone.
LEMMA QuietMove ==
  ASSUME AdmInv, NEW p \in Procs,
         NEW from \in {"closed", "waiting", "asleep"}, NEW to \in {"waiting", "passed"},
         from # to, Move(p, from, to), UNCHANGED <<nprocs, max_nprocs, null_flag, leaked>>
  PROVE  AdmInv'
<1>0. from \in States /\ to \in States
  BY DEF States
<1>1. /\ fd' \in [Procs -> States]
      /\ At("open")' = At("open")
      /\ At("closing")' = At("closing")
      /\ At("asleep")' \subseteq At("asleep")
  BY <1>0, MoveSets DEF AdmInv, States
<1>2. AdmTypeOK'
  BY <1>1 DEF AdmInv, AdmTypeOK
<1> QED BY <1>1, <1>2 DEF AdmInv, Accounting, SleeperHasWaker, FreshSession

LEMMA AdmInvStep == AdmInv /\ [AdmNext]_admVars => AdmInv'
<1> SUFFICES ASSUME AdmInv, [AdmNext]_admVars PROVE AdmInv'
  OBVIOUS
<1>1. ASSUME UNCHANGED admVars PROVE AdmInv'
  BY <1>1 DEF admVars, AdmInv, AdmTypeOK, Accounting, SleeperHasWaker, FreshSession, At
<1>2. ASSUME NEW p \in Procs, OpenCall(p) PROVE AdmInv'
  BY <1>2, QuietMove DEF OpenCall
<1>3. ASSUME NEW p \in Procs, OpenPass(p) PROVE AdmInv'
  BY <1>3, QuietMove DEF OpenPass
<1>4. ASSUME NEW p \in Procs, OpenSignal(p) PROVE AdmInv'
  BY <1>4, QuietMove DEF OpenSignal
<1>5. ASSUME NEW p \in Procs, OpenSleep(p) PROVE AdmInv'
  <2>1. /\ fd' \in [Procs -> States]
        /\ At("open")' = At("open")
    BY <1>5, MoveSets DEF OpenSleep, AdmInv, States
  <2>2. nprocs' > 0
    BY <1>5 DEF OpenSleep, AdmInv, AdmTypeOK
  <2>3. AdmTypeOK'
    BY <1>5, <2>1 DEF OpenSleep, AdmInv, AdmTypeOK
  <2> QED BY <1>5, <2>1, <2>2, <2>3
          DEF OpenSleep, AdmInv, Accounting, SleeperHasWaker, FreshSession
<1>6. ASSUME NEW p \in Procs, OpenAdmit(p) PROVE AdmInv'
  <2>1. /\ fd' \in [Procs -> States]
        /\ At("open")' = At("open") \cup {p}
        /\ p \notin At("open")
    BY <1>6, MoveSets DEF OpenAdmit, AdmInv, States
  <2>2. Cardinality(At("open")') = Cardinality(At("open")) + 1
    BY <2>1, AtFinite, FS_AddElement
  <2>3. AdmTypeOK'
    BY <1>6, <2>1 DEF OpenAdmit, AdmInv, AdmTypeOK
  <2>4. nprocs' > 0
    BY <1>6 DEF OpenAdmit, AdmInv, AdmTypeOK
  <2>5. Accounting'
    BY <1>6, <2>2, AtFinite DEF OpenAdmit, AdmInv, AdmTypeOK, Accounting
  <2> QED BY <2>1, <2>3, <2>4, <2>5 DEF AdmInv, SleeperHasWaker, FreshSession
<1>7. ASSUME NEW p \in Procs, OpenRefuse(p) PROVE AdmInv'
  <2>1. /\ fd' \in [Procs -> States]
        /\ At("open")' = At("open")
    BY <1>7, MoveSets DEF OpenRefuse, AdmInv, States
  <2>2. AdmTypeOK'
    BY <1>7, <2>1 DEF OpenRefuse, AdmInv, AdmTypeOK
  <2>3. nprocs' > 0
    BY <1>7 DEF OpenRefuse, AdmInv, AdmTypeOK
  <2>4. Accounting'
    BY <1>7, <2>1, AtFinite DEF OpenRefuse, AdmInv, AdmTypeOK, Accounting
  <2> QED BY <1>7, <2>1, <2>2, <2>3, <2>4
          DEF OpenRefuse, AdmInv, SleeperHasWaker, FreshSession
<1>8. ASSUME NEW p \in Procs, ReleaseDec(p) PROVE AdmInv'
  <2>1. /\ fd' \in [Procs -> States]
        /\ At("open")' = At("open") \ {p}
        /\ p \in At("open")
        /\ At("closing")' # {}
    BY <1>8, MoveSets DEF ReleaseDec, AdmInv, States
  \* p is one of the processes counted
  <2>2. Cardinality(At("open")') = Cardinality(At("open")) - 1
    BY <2>1, AtFinite, FS_RemoveElement
  <2>3. Cardinality(At("open")') \in Nat
    <3>1. IsFiniteSet(At("open") \ {p})
      BY AtFinite, FS_RemoveElement
    <3>2. Cardinality(At("open") \ {p}) \in Nat
      BY <3>1, FS_CardinalityType
    <3> QED BY <2>1, <3>2
  <2>4. Accounting'
    BY <1>8, <2>2, AtFinite DEF ReleaseDec, AdmInv, AdmTypeOK, Accounting
  <2>5. AdmTypeOK'
    BY <1>8, <2>1, <2>3, <2>4 DEF ReleaseDec, AdmInv, AdmTypeOK, Accounting
  <2> QED BY <1>8, <2>1, <2>4, <2>5
          DEF ReleaseDec, AdmInv, SleeperHasWaker, FreshSession
<1>9. ASSUME NEW p \in Procs, ReleaseWake(p) PROVE AdmInv'
  <2>1. /\ fd' \in [Procs -> States]
        /\ At("open")' = At("open")
        /\ At("asleep")' = {}
    BY <1>9 DEF ReleaseWake, AdmInv, AdmTypeOK, States, At
  <2>2. AdmTypeOK'
    BY <1>9, <2>1 DEF ReleaseWake, AdmInv, AdmTypeOK
  <2> QED BY <1>9, <2>1, <2>2
          DEF ReleaseWake, AdmInv, Accounting, SleeperHasWaker, FreshSession
<1>10. ASSUME NEW p \in Procs, NEW n \in IoctlArgs, asgn2_ioctl(p, n) PROVE AdmInv'
  BY <1>10, IoctlAssumption
     DEF asgn2_ioctl, AdmInv, AdmTypeOK, Accounting, SleeperHasWaker, FreshSession, At
<1>11. ASSUME NEW p \in Procs, ReadFindsNull(p) PROVE AdmInv'
  <2>1. At("open")' # {}
    BY <1>11 DEF ReadFindsNull, At
  <2> QED BY <1>11, <2>1
          DEF ReadFindsNull, AdmInv, AdmTypeOK, Accounting, SleeperHasWaker,
              FreshSession, At
<1> QED BY <1>1, <1>2, <1>3, <1>4, <1>5, <1>6, <1>7, <1>8, <1>9, <1>10, <1>11
        DEF AdmNext

THEOREM AdmInvariant == AdmSpec => []AdmInv
BY AdmInvInit, AdmInvStep, PTL DEF AdmSpec

\* The counter is a natural number, whatever the processes do.
THEOREM AdmTypeCorrect == AdmSpec => []AdmTypeOK
<1>1. AdmInv => AdmTypeOK
  BY DEF AdmInv
<1> QED BY <1>1, AdmInvariant, PTL

\* nprocs counts the holders and the refused opens, and nothing else.
THEOREM AccountingHolds == AdmSpec => []Accounting
<1>1. AdmInv => Accounting
  BY DEF AdmInv
<1> QED BY <1>1, AdmInvariant, PTL

\* No process sleeps on process_wq without a wake-up it can still get.
THEOREM NoLostWakeUp == AdmSpec => []SleeperHasWaker
<1>1. AdmInv => SleeperHasWaker
  BY DEF AdmInv
<1> QED BY <1>1, AdmInvariant, PTL

\* null_flag never survives the last close.
THEOREM SessionsSeparate == AdmSpec => []FreshSession
<1>1. AdmInv => FreshSession
  BY DEF AdmInv
<1> QED BY <1>1, AdmInvariant, PTL
=============================================================================
