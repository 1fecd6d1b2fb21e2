--------------------------- MODULE LifecycleProofs ---------------------------
(***************************************************************************)
(* Proofs about loading and unloading, for every bound of the ring and of  *)
(* the machine's memory and for either driver: nothing is reachable before *)
(* it is ready, an unload gives back what the load took, and what a failed *)
(* load leaves behind.                                                     *)
(*                                                                         *)
(* A function that is under way is described by the plan it follows (the   *)
(* sequence of its steps, none of them twice) and by a place k in it: what *)
(* is still to do is From(plan, k), what is done is Before(plan, k).  The  *)
(* invariant then relates what is held, ready and given back to what is    *)
(* done, and each theorem follows from what is done at the end of a plan.  *)
(***************************************************************************)
EXTENDS Lifecycle, QueueLemmas

(***************************************************************************)
(* Plans.                                                                  *)
(***************************************************************************)

Steps == Resources \cup Structures \cup {"unpin", "pages"}
IsPlan(plan) == IsQueueOf(plan, Steps)
Before(plan, k) == {plan[j] : j \in 1..(k - 1)}
From(plan, k) == SubSeq(plan, k, Len(plan))

\* A step stands in one place of its plan: it is done when the place is passed.
LEMMA PlanPlaces ==
  ASSUME NEW plan, IsPlan(plan), NEW k \in 1..(Len(plan) + 1), NEW i \in 1..Len(plan)
  PROVE  /\ plan[i] \in Before(plan, k) <=> i < k
         /\ k \in 1..Len(plan) => (plan[k] = plan[i] <=> k = i)
<1>1. plan \in Seq(Steps) /\ Len(plan) \in Nat /\ DOMAIN plan = 1..Len(plan)
  BY DEF IsPlan, IsQueueOf
<1>2. \A a, b \in 1..Len(plan) : plan[a] = plan[b] => a = b
  BY <1>1 DEF IsPlan, IsQueueOf, IsInjective
<1>3. 1..(k - 1) \subseteq 1..Len(plan)
  BY <1>1
<1>4. plan[i] \in Before(plan, k) <=> i \in 1..(k - 1)
  BY <1>2, <1>3 DEF Before
<1>5. i \in 1..(k - 1) <=> i < k
  BY <1>1
<1> QED BY <1>2, <1>4, <1>5

\* The step that is next, and the plan after it.
LEMMA PlanStep ==
  ASSUME NEW plan, IsPlan(plan), NEW k \in 1..(Len(plan) + 1), NEW rest, rest = From(plan, k)
  PROVE  /\ rest \in Seq(Steps)
         /\ rest = << >> => k = Len(plan) + 1
         /\ rest # << >> => /\ k \in 1..Len(plan) /\ k + 1 \in 1..(Len(plan) + 1)
                            /\ Head(rest) = plan[k] /\ plan[k] \notin Before(plan, k)
                            /\ Tail(rest) = From(plan, k + 1)
                            /\ Before(plan, k + 1) = Before(plan, k) \cup {plan[k]}
<1>1. plan \in Seq(Steps) /\ Len(plan) \in Nat
  BY DEF IsPlan, IsQueueOf
<1>0. rest \in Seq(Steps)
  <2>1. \A i \in k..Len(plan) : plan[i] \in Steps
    BY <1>1
  <2>2. k \in Int /\ Len(plan) \in Int
    BY <1>1
  <2> QED BY <2>1, <2>2, SubSeqProperties DEF From
<1>2. CASE k = Len(plan) + 1
  BY <1>0, <1>1, <1>2, SubSeqEmpty DEF From
<1>3. CASE k \in 1..Len(plan)
  <2>1. Head(rest) = plan[k] /\ Tail(rest) = From(plan, k + 1)
    <3>1. Len(plan) \in k..Len(plan)
      BY <1>1, <1>3
    <3> QED BY <1>1, <1>3, <3>1, HeadTailOfSubSeq DEF From
  <2>2. rest # << >>
    <3>1. Len(rest) = Len(plan) - k + 1
      <4>1. \A i \in k..Len(plan) : plan[i] \in Steps
        BY <1>1, <1>3
      <4>2. k \in Int /\ Len(plan) \in Int /\ k <= Len(plan)
        BY <1>1, <1>3
      <4> QED BY <4>1, <4>2, SubSeqProperties DEF From
    <3>2. Len(rest) # 0
      BY <3>1, <1>1, <1>3
    <3> QED BY <3>2
  <2>3. 1..((k + 1) - 1) = 1..(k - 1) \cup {k}
    BY <1>3, <1>1
  <2>4. Before(plan, k + 1) = Before(plan, k) \cup {plan[k]}
    BY <2>3 DEF Before
  <2>5. k + 1 \in 1..(Len(plan) + 1)
    BY <1>1, <1>3
  <2>6. plan[k] \notin Before(plan, k)
    BY <1>3, <1>1, PlanPlaces
  <2> QED BY <1>0, <1>3, <2>1, <2>2, <2>4, <2>5, <2>6
<1> QED BY <1>1, <1>2, <1>3

\* The plans of the code, step by step.
LEMMA Asgn1InitPlan ==
  LET p == asgn1_init
  IN  /\ IsPlan(p) /\ Len(p) = 7
      /\ p[1] = "region" /\ p[2] = "cdev" /\ p[3] = "chrdev" /\ p[4] = "list"
      /\ p[5] = "proc" /\ p[6] = "class" /\ p[7] = "device"
<1>1. asgn1_init \in Seq(Steps) /\ Len(asgn1_init) = 7
  BY DEF asgn1_init, Steps, Resources, Structures
<1>2. IsInjective(asgn1_init)
  BY DEF asgn1_init, IsInjective
<1> QED BY <1>1, <1>2 DEF IsPlan, IsQueueOf, asgn1_init

\* A sequence that is another one followed by a third, by its elements.
LEMMA IsConcat ==
  ASSUME NEW S, NEW s \in Seq(S), NEW t \in Seq(S), NEW r \in Seq(S),
         Len(r) = Len(s) + Len(t),
         \A i \in 1..(Len(s) + Len(t)) : r[i] = IF i <= Len(s) THEN s[i] ELSE t[i - Len(s)]
  PROVE  s \o t = r
BY ConcatProperties, SeqEqual

LEMMA Asgn2InitPlan ==
  LET p == asgn2_init
  IN  /\ IsPlan(p) /\ Len(p) = 13
      /\ p[1] = "region" /\ p[2] = "cdev" /\ p[3] = "chrdev" /\ p[4] = "list"
      /\ p[5] = "proc" /\ p[6] = "pins" /\ p[7] = "irq" /\ p[8] = "unpin"
      /\ p[9] = "ring" /\ p[10] = "queue" /\ p[11] = "flags" /\ p[12] = "class"
      /\ p[13] = "device"
<1>1. asgn2_init = <<"region", "cdev", "chrdev", "list", "proc", "pins", "irq", "unpin",
                     "ring", "queue", "flags", "class", "device">>
  <2> DEFINE a == <<"region", "cdev", "chrdev", "list", "proc">>
             b == <<"pins", "irq", "unpin">>
             ab == <<"region", "cdev", "chrdev", "list", "proc", "pins", "irq", "unpin">>
             c == <<"ring", "queue", "flags", "class", "device">>
             abc == <<"region", "cdev", "chrdev", "list", "proc", "pins", "irq", "unpin",
                      "ring", "queue", "flags", "class", "device">>
  <2>1. /\ a \in Seq(Steps) /\ Len(a) = 5
        /\ b \in Seq(Steps) /\ Len(b) = 3
        /\ ab \in Seq(Steps) /\ Len(ab) = 8
        /\ c \in Seq(Steps) /\ Len(c) = 5
        /\ abc \in Seq(Steps) /\ Len(abc) = 13
    <3>1. a \in Seq(Steps) /\ Len(a) = 5
      BY DEF Steps, Resources, Structures
    <3>2. b \in Seq(Steps) /\ Len(b) = 3
      BY DEF Steps, Resources, Structures
    <3>3. ab \in Seq(Steps) /\ Len(ab) = 8
      BY DEF Steps, Resources, Structures
    <3>4. c \in Seq(Steps) /\ Len(c) = 5
      BY DEF Steps, Resources, Structures
    <3>5. abc \in Seq(Steps) /\ Len(abc) = 13
      BY DEF Steps, Resources, Structures
    <3> QED BY <3>1, <3>2, <3>3, <3>4, <3>5
  <2>2. \A i \in 1..8 : ab[i] = IF i <= 5 THEN a[i] ELSE b[i - 5]
    OBVIOUS
  <2>3. \A i \in 1..13 : abc[i] = IF i <= 8 THEN ab[i] ELSE c[i - 8]
    OBVIOUS
  <2>4. asgn2_init = (a \o b) \o c
    BY DEF asgn2_init, gpio_dummy_init
  <2> HIDE DEF a, b, ab, c, abc
  <2>5. a \o b = ab
    <3>1. /\ Len(ab) = Len(a) + Len(b)
          /\ \A i \in 1..(Len(a) + Len(b)) : ab[i] = IF i <= Len(a) THEN a[i] ELSE b[i - Len(a)]
      BY <2>1, <2>2
    <3> QED BY <3>1, <2>1, IsConcat
  <2>6. ab \o c = abc
    <3>1. /\ Len(abc) = Len(ab) + Len(c)
          /\ \A i \in 1..(Len(ab) + Len(c)) :
               abc[i] = IF i <= Len(ab) THEN ab[i] ELSE c[i - Len(ab)]
      BY <2>1, <2>3
    <3> QED BY <3>1, <2>1, IsConcat
  <2> QED BY <2>4, <2>5, <2>6 DEF abc
<1>2. asgn2_init \in Seq(Steps) /\ Len(asgn2_init) = 13
  BY <1>1 DEF Steps, Resources, Structures
<1>3. IsInjective(asgn2_init)
  BY <1>1 DEF IsInjective
<1> QED BY <1>1, <1>2, <1>3 DEF IsPlan, IsQueueOf
LEMMA ExitPlans ==
  /\ IsPlan(asgn1_exit) /\ Len(asgn1_exit) = 6
  /\ asgn1_exit = <<"device", "class", "pages", "proc", "cdev", "region">>
  /\ IsPlan(asgn2_exit) /\ Len(asgn2_exit) = 8
  /\ asgn2_exit = <<"device", "class", "pages", "proc", "irq", "pins", "cdev", "region">>
<1>1. asgn2_exit = <<"device", "class", "pages", "proc", "irq", "pins", "cdev", "region">>
  <2> DEFINE a == <<"device", "class", "pages", "proc">>
             b == <<"irq", "pins">>
             ab == <<"device", "class", "pages", "proc", "irq", "pins">>
             c == <<"cdev", "region">>
             abc == <<"device", "class", "pages", "proc", "irq", "pins", "cdev", "region">>
  <2>1. /\ a \in Seq(Steps) /\ Len(a) = 4
        /\ b \in Seq(Steps) /\ Len(b) = 2
        /\ ab \in Seq(Steps) /\ Len(ab) = 6
        /\ c \in Seq(Steps) /\ Len(c) = 2
        /\ abc \in Seq(Steps) /\ Len(abc) = 8
    <3>1. a \in Seq(Steps) /\ Len(a) = 4
      BY DEF Steps, Resources, Structures
    <3>2. b \in Seq(Steps) /\ Len(b) = 2
      BY DEF Steps, Resources, Structures
    <3>3. ab \in Seq(Steps) /\ Len(ab) = 6
      BY DEF Steps, Resources, Structures
    <3>4. c \in Seq(Steps) /\ Len(c) = 2
      BY DEF Steps, Resources, Structures
    <3>5. abc \in Seq(Steps) /\ Len(abc) = 8
      BY DEF Steps, Resources, Structures
    <3> QED BY <3>1, <3>2, <3>3, <3>4, <3>5
  <2>2. \A i \in 1..6 : ab[i] = IF i <= 4 THEN a[i] ELSE b[i - 4]
    OBVIOUS
  <2>3. \A i \in 1..8 : abc[i] = IF i <= 6 THEN ab[i] ELSE c[i - 6]
    OBVIOUS
  <2>4. asgn2_exit = (a \o b) \o c
    BY DEF asgn2_exit, gpio_dummy_exit
  <2> HIDE DEF a, b, ab, c, abc
  <2>5. a \o b = ab
    <3>1. /\ Len(ab) = Len(a) + Len(b)
          /\ \A i \in 1..(Len(a) + Len(b)) : ab[i] = IF i <= Len(a) THEN a[i] ELSE b[i - Len(a)]
      BY <2>1, <2>2
    <3> QED BY <3>1, <2>1, IsConcat
  <2>6. ab \o c = abc
    <3>1. /\ Len(abc) = Len(ab) + Len(c)
          /\ \A i \in 1..(Len(ab) + Len(c)) :
               abc[i] = IF i <= Len(ab) THEN ab[i] ELSE c[i - Len(ab)]
      BY <2>1, <2>3
    <3> QED BY <3>1, <2>1, IsConcat
  <2> QED BY <2>4, <2>5, <2>6 DEF abc
<1>2. asgn1_exit \in Seq(Steps) /\ Len(asgn1_exit) = 6
  BY DEF asgn1_exit, Steps, Resources, Structures
<1>3. IsInjective(asgn1_exit)
  BY DEF asgn1_exit, IsInjective
<1>4. asgn2_exit \in Seq(Steps) /\ Len(asgn2_exit) = 8
  BY <1>1 DEF Steps, Resources, Structures
<1>5. IsInjective(asgn2_exit)
  BY <1>1 DEF IsInjective
<1>6. asgn1_exit = <<"device", "class", "pages", "proc", "cdev", "region">>
  BY DEF asgn1_exit
<1> QED BY <1>1, <1>2, <1>3, <1>4, <1>5, <1>6 DEF IsPlan, IsQueueOf

LEMMA FailPlans ==
  /\ IsPlan(asgn1_fail) /\ Len(asgn1_fail) = 4
  /\ asgn1_fail = <<"class", "proc", "cdev", "region">>
  /\ \A step \in {"region", "chrdev", "proc", "device"} : IsPlan(asgn2_fail(step))
<1>1. asgn1_fail \in Seq(Steps) /\ Len(asgn1_fail) = 4
  BY DEF asgn1_fail, Steps, Resources, Structures
<1>2. IsInjective(asgn1_fail)
  BY DEF asgn1_fail, IsInjective
<1>3. IsPlan(<< >>)
  BY QueueOfNone DEF IsPlan
<1>4. IsPlan(<<"region">>)
  <2>1. <<"region">> \in Seq(Steps)
    BY DEF Steps, Resources
  <2> QED BY <2>1 DEF IsPlan, IsQueueOf, IsInjective
<1>5. IsPlan(<<"cdev", "region">>)
  <2>1. <<"cdev", "region">> \in Seq(Steps)
    BY DEF Steps, Resources
  <2> QED BY <2>1 DEF IsPlan, IsQueueOf, IsInjective
<1>6. IsPlan(<<"proc", "cdev", "region">>)
  <2>1. <<"proc", "cdev", "region">> \in Seq(Steps)
    BY DEF Steps, Resources
  <2> QED BY <2>1 DEF IsPlan, IsQueueOf, IsInjective
<1>7. \A step \in {"region", "chrdev", "proc", "device"} : IsPlan(asgn2_fail(step))
  BY <1>3, <1>4, <1>5, <1>6 DEF asgn2_fail
<1>8. asgn1_fail = <<"class", "proc", "cdev", "region">>
  BY DEF asgn1_fail
<1> QED BY <1>1, <1>2, <1>7, <1>8 DEF IsPlan, IsQueueOf

\* What is done at each place of each plan.
LEMMA Asgn2InitDone ==
  ASSUME NEW k \in 1..14
  PROVE  LET p == asgn2_init
             done == Before(p, k)
         IN  /\ "region" \in done <=> 1 < k
             /\ "cdev" \in done <=> 2 < k
             /\ "chrdev" \in done <=> 3 < k
             /\ "list" \in done <=> 4 < k
             /\ "proc" \in done <=> 5 < k
             /\ "pins" \in done <=> 6 < k
             /\ "irq" \in done <=> 7 < k
             /\ "unpin" \in done <=> 8 < k
             /\ "ring" \in done <=> 9 < k
             /\ "queue" \in done <=> 10 < k
             /\ "flags" \in done <=> 11 < k
             /\ "class" \in done <=> 12 < k
             /\ "device" \in done <=> 13 < k
             /\ k < 14 => /\ p[k] = "region" <=> k = 1
                          /\ p[k] = "chrdev" <=> k = 3
                          /\ p[k] = "proc" <=> k = 5
                          /\ p[k] = "pins" <=> k = 6
                          /\ p[k] = "irq" <=> k = 7
                          /\ p[k] = "device" <=> k = 13
<1> DEFINE p == asgn2_init
<1>1. IsPlan(p) /\ Len(p) = 13
  BY Asgn2InitPlan
<1>2. \A i \in 1..13 : /\ p[i] \in Before(p, k) <=> i < k
                       /\ k < 14 => (p[k] = p[i] <=> k = i)
  <2>1. k \in 1..(Len(p) + 1) /\ (k < 14 => k \in 1..Len(p))
    BY <1>1
  <2> QED BY <1>1, <2>1, PlanPlaces
<1> HIDE DEF p
<1>3. /\ p[1] = "region" /\ p[2] = "cdev" /\ p[3] = "chrdev" /\ p[4] = "list"
      /\ p[5] = "proc" /\ p[6] = "pins" /\ p[7] = "irq" /\ p[8] = "unpin"
      /\ p[9] = "ring" /\ p[10] = "queue" /\ p[11] = "flags" /\ p[12] = "class"
      /\ p[13] = "device"
  BY Asgn2InitPlan DEF p
<1> QED BY <1>2, <1>3 DEF p

LEMMA Asgn1InitDone ==
  ASSUME NEW k \in 1..8
  PROVE  LET p == asgn1_init
             done == Before(p, k)
         IN  /\ "region" \in done <=> 1 < k
             /\ "cdev" \in done <=> 2 < k
             /\ "chrdev" \in done <=> 3 < k
             /\ "list" \in done <=> 4 < k
             /\ "proc" \in done <=> 5 < k
             /\ "class" \in done <=> 6 < k
             /\ "device" \in done <=> 7 < k
             /\ {"pins", "irq", "unpin"} \cap done = {}
             /\ k < 8 => /\ p[k] = "region" <=> k = 1
                         /\ p[k] = "chrdev" <=> k = 3
                         /\ p[k] = "proc" <=> k = 5
                         /\ p[k] = "device" <=> k = 7
                         /\ p[k] \notin {"pins", "irq", "unpin"}
<1> DEFINE p == asgn1_init
<1>1. IsPlan(p) /\ Len(p) = 7
  BY Asgn1InitPlan
<1>2. \A i \in 1..7 : /\ p[i] \in Before(p, k) <=> i < k
                      /\ k < 8 => (p[k] = p[i] <=> k = i)
  <2>1. k \in 1..(Len(p) + 1) /\ (k < 8 => k \in 1..Len(p))
    BY <1>1
  <2> QED BY <1>1, <2>1, PlanPlaces
<1> HIDE DEF p
<1>3. /\ p[1] = "region" /\ p[2] = "cdev" /\ p[3] = "chrdev" /\ p[4] = "list"
      /\ p[5] = "proc" /\ p[6] = "class" /\ p[7] = "device"
  BY Asgn1InitPlan DEF p
<1>4. \A i \in 1..7 : p[i] \notin {"pins", "irq", "unpin"}
  BY <1>3
<1>5. {"pins", "irq", "unpin"} \cap Before(p, k) = {}
  BY <1>4 DEF Before
<1>6. k < 8 => k \in 1..7
  OBVIOUS
<1> QED BY <1>2, <1>3, <1>4, <1>5, <1>6 DEF p

LEMMA Asgn1ExitDone ==
  ASSUME NEW k \in 1..7
  PROVE  LET p == asgn1_exit
             done == Before(p, k)
         IN  /\ "device" \in done <=> 1 < k
             /\ "class" \in done <=> 2 < k
             /\ "pages" \in done <=> 3 < k
             /\ "proc" \in done <=> 4 < k
             /\ "cdev" \in done <=> 5 < k
             /\ "region" \in done <=> 6 < k
             /\ k < 7 => /\ p[k] = "device" <=> k = 1
                         /\ p[k] # "chrdev"
<1> DEFINE p == asgn1_exit
<1>1. IsPlan(p) /\ Len(p) = 6
  BY ExitPlans
<1>2. \A i \in 1..6 : /\ p[i] \in Before(p, k) <=> i < k
                      /\ k < 7 => (p[k] = p[i] <=> k = i)
  <2>1. k \in 1..(Len(p) + 1) /\ (k < 7 => k \in 1..Len(p))
    BY <1>1
  <2> QED BY <1>1, <2>1, PlanPlaces
<1>3. /\ p[1] = "device" /\ p[2] = "class" /\ p[3] = "pages"
      /\ p[4] = "proc" /\ p[5] = "cdev" /\ p[6] = "region"
  BY ExitPlans
<1> HIDE DEF p
<1>4. k < 7 => k \in 1..6
  OBVIOUS
<1>5. \A i \in 1..6 : p[i] # "chrdev"
  BY <1>3
<1> QED BY <1>2, <1>3, <1>4, <1>5 DEF p

LEMMA Asgn2ExitDone ==
  ASSUME NEW k \in 1..9
  PROVE  LET p == asgn2_exit
             done == Before(p, k)
         IN  /\ "device" \in done <=> 1 < k
             /\ "class" \in done <=> 2 < k
             /\ "pages" \in done <=> 3 < k
             /\ "proc" \in done <=> 4 < k
             /\ "irq" \in done <=> 5 < k
             /\ "pins" \in done <=> 6 < k
             /\ "cdev" \in done <=> 7 < k
             /\ "region" \in done <=> 8 < k
             /\ k < 9 => /\ p[k] = "device" <=> k = 1
                         /\ p[k] # "chrdev"
<1> DEFINE p == asgn2_exit
<1>1. IsPlan(p) /\ Len(p) = 8
  BY ExitPlans
<1>2. \A i \in 1..8 : /\ p[i] \in Before(p, k) <=> i < k
                      /\ k < 9 => (p[k] = p[i] <=> k = i)
  <2>1. k \in 1..(Len(p) + 1) /\ (k < 9 => k \in 1..Len(p))
    BY <1>1
  <2> QED BY <1>1, <2>1, PlanPlaces
<1>3. /\ p[1] = "device" /\ p[2] = "class" /\ p[3] = "pages" /\ p[4] = "proc"
      /\ p[5] = "irq" /\ p[6] = "pins" /\ p[7] = "cdev" /\ p[8] = "region"
  BY ExitPlans
<1> HIDE DEF p
<1>4. k < 9 => k \in 1..8
  OBVIOUS
<1>5. \A i \in 1..8 : p[i] # "chrdev"
  BY <1>3
<1> QED BY <1>2, <1>3, <1>4, <1>5 DEF p


(***************************************************************************)
(* The plan a driver follows in each phase.                                *)
(***************************************************************************)
InitPlan(d) == IF d = "asgn1" THEN asgn1_init ELSE asgn2_init
ExitPlan(d) == IF d = "asgn1" THEN asgn1_exit ELSE asgn2_exit
FailPlan(d, step) == IF d = "asgn1" THEN asgn1_fail ELSE asgn2_fail(step)

CanFail == {"region", "chrdev", "proc", "device"}

\* Steps of a load that leave something behind whenever they are passed.
Certain == {"region", "cdev", "chrdev", "proc", "device"}

NeededBy(d) == IF d = "asgn1" THEN {"list"} ELSE Structures

\* The order of a load: what is done when a step is next, or when all are.
LEMMA InitOrder ==
  ASSUME NEW d \in {"asgn1", "asgn2"}, NEW k \in 1..(Len(InitPlan(d)) + 1)
  PROVE  LET plan == InitPlan(d)
             done == Before(plan, k)
             next(step) == k \in 1..Len(plan) /\ plan[k] = step
             over == k = Len(plan) + 1
         IN  /\ next("irq") => d = "asgn2" /\ "list" \in done
             /\ next("pins") => /\ d = "asgn2" /\ k = 6
                                /\ {"irq", "unpin"} \cap done = {}
             /\ next("device") => NeededBy(d) \cup {"chrdev", "proc"} \subseteq done
             /\ ~over => "device" \notin done
             /\ over => Certain \cup NeededBy(d) \subseteq done
             /\ d = "asgn1" => {"irq", "pins"} \cap done = {}
             /\ d = "asgn1" /\ (next("chrdev") \/ next("proc") \/ next("device"))
                  => "cdev" \in done
             /\ d = "asgn2" /\ (next("device") \/ over) => "unpin" \in done
             /\ d = "asgn2" /\ next("region") => done \cap Resources = {}
             /\ d = "asgn2" /\ next("chrdev") => done \cap Resources = {"region", "cdev"}
             /\ d = "asgn2" /\ next("proc") => done \cap Resources = {"region", "cdev", "chrdev"}
             /\ next("region") \/ next("chrdev") \/ next("proc") => "irq" \notin done
<1> DEFINE plan == InitPlan(d)
           done == Before(plan, k)
<1>1. CASE d = "asgn1"
  <2>1. plan = asgn1_init /\ Len(plan) = 7
    BY <1>1, Asgn1InitPlan DEF InitPlan
  <2>2. k \in 1..8 /\ (k < 8 <=> k \in 1..Len(plan)) /\ (k = Len(plan) + 1 <=> k = 8)
    BY <2>1
  <2>3. /\ "cdev" \in done <=> 2 < k
        /\ "list" \in done <=> 4 < k
        /\ "device" \in done <=> 7 < k
        /\ {"pins", "irq"} \cap done = {}
        /\ k = 8 => Certain \subseteq done
        /\ k < 8 => /\ plan[k] = "chrdev" <=> k = 3
                    /\ plan[k] = "proc" <=> k = 5
                    /\ plan[k] = "device" <=> k = 7
                    /\ plan[k] \notin {"pins", "irq"}
        /\ k = 7 => {"list", "chrdev", "proc"} \subseteq done
    BY <2>1, <2>2, Asgn1InitDone DEF Certain
  <2> HIDE DEF plan, done
  <2> QED BY <1>1, <2>2, <2>3 DEF plan, done, NeededBy
<1>2. CASE d = "asgn2"
  <2>1. plan = asgn2_init /\ Len(plan) = 13
    BY <1>2, Asgn2InitPlan DEF InitPlan
  <2>2. k \in 1..14 /\ (k < 14 <=> k \in 1..Len(plan)) /\ (k = Len(plan) + 1 <=> k = 14)
    BY <2>1
  <2>3. /\ "list" \in done <=> 4 < k
        /\ "irq" \in done <=> 7 < k
        /\ "unpin" \in done <=> 8 < k
        /\ "device" \in done <=> 13 < k
        /\ k < 14 => /\ plan[k] = "region" <=> k = 1
                     /\ plan[k] = "chrdev" <=> k = 3
                     /\ plan[k] = "proc" <=> k = 5
                     /\ plan[k] = "pins" <=> k = 6
                     /\ plan[k] = "irq" <=> k = 7
                     /\ plan[k] = "device" <=> k = 13
    BY <2>1, <2>2, Asgn2InitDone
  <2>4. k = 14 => Certain \cup Structures \subseteq done
    BY <2>1, <2>2, Asgn2InitDone DEF Certain, Structures
  <2>5. k = 13 => Structures \cup {"chrdev", "proc"} \subseteq done
    BY <2>1, <2>2, Asgn2InitDone DEF Structures
  <2>6. /\ k = 1 => done \cap Resources = {}
        /\ k = 3 => done \cap Resources = {"region", "cdev"}
        /\ k = 5 => done \cap Resources = {"region", "cdev", "chrdev"}
    BY <2>1, <2>2, Asgn2InitDone DEF Resources
  <2> HIDE DEF plan, done
  <2> QED BY <1>2, <2>2, <2>3, <2>4, <2>5, <2>6 DEF plan, done, NeededBy
<1> QED BY <1>1, <1>2

\* The order of an unload.
LEMMA ExitOrder ==
  ASSUME NEW d \in {"asgn1", "asgn2"}, NEW k \in 1..(Len(ExitPlan(d)) + 1)
  PROVE  LET plan == ExitPlan(d)
             done == Before(plan, k)
         IN  /\ k = 1 => done = {}
             /\ k # 1 => "device" \in done
             /\ k \in 1..Len(plan) => plan[k] # "chrdev" /\ (k = 1 => plan[k] = "device")
             /\ k = Len(plan) + 1 =>
                  /\ "pages" \in done
                  /\ Resources \ (IF d = "asgn1" THEN {"chrdev", "irq", "pins"} ELSE {"chrdev"})
                       \subseteq done
<1> DEFINE plan == ExitPlan(d)
           done == Before(plan, k)
<1>1. k = 1 => done = {}
  BY DEF Before
<1>2. CASE d = "asgn1"
  <2>1. plan = asgn1_exit /\ Len(plan) = 6
    BY <1>2, ExitPlans DEF ExitPlan
  <2>2. k \in 1..7 /\ (k < 7 <=> k \in 1..Len(plan)) /\ (k = Len(plan) + 1 <=> k = 7)
    BY <2>1
  <2>3. /\ "device" \in done <=> 1 < k
        /\ k < 7 => plan[k] # "chrdev" /\ (plan[k] = "device" <=> k = 1)
        /\ k = 7 => {"device", "class", "pages", "proc", "cdev", "region"} \subseteq done
    BY <2>1, <2>2, Asgn1ExitDone
  <2> HIDE DEF plan, done
  <2> QED BY <1>1, <1>2, <2>2, <2>3 DEF plan, done, Resources
<1>3. CASE d = "asgn2"
  <2>1. plan = asgn2_exit /\ Len(plan) = 8
    BY <1>3, ExitPlans DEF ExitPlan
  <2>2. k \in 1..9 /\ (k < 9 <=> k \in 1..Len(plan)) /\ (k = Len(plan) + 1 <=> k = 9)
    BY <2>1
  <2>3. /\ "device" \in done <=> 1 < k
        /\ k < 9 => plan[k] # "chrdev" /\ (plan[k] = "device" <=> k = 1)
        /\ k = 9 => {"device", "class", "pages", "proc", "irq", "pins", "cdev", "region"} \subseteq done
    BY <2>1, <2>2, Asgn2ExitDone
  <2> HIDE DEF plan, done
  <2> QED BY <1>1, <1>3, <2>2, <2>3 DEF plan, done, Resources
<1> QED BY <1>2, <1>3

\* What a clean-up has given back when it is over.
LEMMA FailOrder ==
  ASSUME NEW d \in {"asgn1", "asgn2"}, NEW step \in CanFail
  PROVE  LET plan == FailPlan(d, step)
             done == Before(plan, Len(plan) + 1)
         IN  /\ IsPlan(plan)
             /\ d = "asgn1" => {"class", "proc", "cdev", "region"} \subseteq done
             /\ d = "asgn2" /\ step = "device" => {"proc", "cdev", "region"} \subseteq done
             /\ d = "asgn2" /\ step = "proc" => {"cdev", "region"} \subseteq done
             /\ d = "asgn2" /\ step = "chrdev" => {"region"} \subseteq done
<1> DEFINE plan == FailPlan(d, step)
<1>1. IsPlan(plan)
  BY FailPlans DEF FailPlan, CanFail
<1>2. Before(plan, Len(plan) + 1) = {plan[j] : j \in 1..Len(plan)}
  <2>1. Len(plan) \in Nat
    BY <1>1 DEF IsPlan, IsQueueOf
  <2> QED BY <2>1 DEF Before
<1>3. d = "asgn1" => plan = <<"class", "proc", "cdev", "region">>
  BY FailPlans DEF FailPlan
<1>4. d = "asgn2" /\ step = "device" => plan = <<"proc", "cdev", "region">>
  BY DEF FailPlan, asgn2_fail
<1>5. d = "asgn2" /\ step = "proc" => plan = <<"cdev", "region">>
  BY DEF FailPlan, asgn2_fail
<1>6. d = "asgn2" /\ step = "chrdev" => plan = <<"region">>
  BY DEF FailPlan, asgn2_fail
<1> HIDE DEF plan
<1>7. d = "asgn1" => {"class", "proc", "cdev", "region"} \subseteq {plan[j] : j \in 1..Len(plan)}
  <2> SUFFICES ASSUME d = "asgn1"
               PROVE  {"class", "proc", "cdev", "region"} \subseteq {plan[j] : j \in 1..Len(plan)}
    OBVIOUS
  <2>1. Len(plan) = 4 /\ plan[1] = "class" /\ plan[2] = "proc" /\ plan[3] = "cdev" /\ plan[4] = "region"
    BY <1>3
  <2> QED BY <2>1
<1>8. d = "asgn2" /\ step = "device" => {"proc", "cdev", "region"} \subseteq {plan[j] : j \in 1..Len(plan)}
  BY <1>4
<1>9. d = "asgn2" /\ step = "proc" => {"cdev", "region"} \subseteq {plan[j] : j \in 1..Len(plan)}
  BY <1>5
<1>10. d = "asgn2" /\ step = "chrdev" => {"region"} \subseteq {plan[j] : j \in 1..Len(plan)}
  BY <1>6
<1> QED BY <1>1, <1>2, <1>7, <1>8, <1>9, <1>10 DEF plan

LEMMA PlansArePlans ==
  ASSUME NEW d \in {"asgn1", "asgn2"} PROVE IsPlan(InitPlan(d)) /\ IsPlan(ExitPlan(d))
BY Asgn1InitPlan, Asgn2InitPlan, ExitPlans DEF InitPlan, ExitPlan

\* Nothing is done of a plan that begins.
LEMMA PlanBegins ==
  ASSUME NEW plan, IsPlan(plan)
  PROVE  /\ 1 \in 1..(Len(plan) + 1) /\ plan = From(plan, 1) /\ Before(plan, 1) = {}
         /\ plan \in Seq(Steps)
<1>1. plan \in Seq(Steps) /\ Len(plan) \in Nat
  BY DEF IsPlan, IsQueueOf
<1>2. plan = From(plan, 1)
  BY <1>1, SubSeqFull DEF From
<1> QED BY <1>1, <1>2 DEF Before

\* A step that is done does not come again.
LEMMA DoneIsGone ==
  ASSUME NEW plan, IsPlan(plan), NEW k \in 1..(Len(plan) + 1), NEW step \in Before(plan, k)
  PROVE  ~Contains(From(plan, k), step)
<1>1. plan \in Seq(Steps) /\ Len(plan) \in Nat
  BY DEF IsPlan, IsQueueOf
<1>2. /\ Len(From(plan, k)) = Len(plan) - k + 1
      /\ \A i \in 1..(Len(plan) - k + 1) : From(plan, k)[i] = plan[k + i - 1]
  <2>1. \A i \in k..Len(plan) : plan[i] \in Steps
    BY <1>1
  <2>2. k \in Int /\ Len(plan) \in Int
    BY <1>1
  <2> QED BY <2>1, <2>2, SubSeqProperties DEF From
<1>3. PICK j \in 1..(k - 1) : step = plan[j]
  BY DEF Before
<1>4. \A i \in 1..(Len(plan) - k + 1) :
        j \in 1..Len(plan) /\ k + i - 1 \in 1..Len(plan) /\ j # k + i - 1
  BY <1>1, <1>3
<1>5. \A i \in 1..(Len(plan) - k + 1) : From(plan, k)[i] # step
  BY <1>1, <1>2, <1>3, <1>4 DEF IsPlan, IsQueueOf, IsInjective
<1> QED BY <1>2, <1>5 DEF Contains

(***************************************************************************)
(* The inductive invariant: in every phase, what the steps that are done   *)
(* have obtained, initialised or given back.                               *)
(***************************************************************************)
LoadedSoFar(done) ==
  /\ held \subseteq done
  /\ done \cap Structures \subseteq ready
  /\ done \cap Certain \subseteq held
  /\ "unpin" \in done => "pins" \notin held
  /\ "irq" \notin done => ~scheduled /\ pages = 0
  /\ spurious = {}

LoadingOK ==
  phase = "loading" =>
    \E k \in 1..(Len(InitPlan(driver)) + 1) :
      /\ todo = From(InitPlan(driver), k)
      /\ LoadedSoFar(Before(InitPlan(driver), k))

LiveOK ==
  phase = "live" => /\ Certain \subseteq held
                    /\ spurious = {}

UnloadedSoFar(done) ==
  /\ held \cap done = {}
  /\ {"region", "cdev", "device"} \ done \subseteq held
  /\ "cdev" \in done => "chrdev" \notin held
  /\ "pages" \in done /\ pages > 0 => late
  /\ spurious \subseteq {"pins", "irq"}

UnloadingOK ==
  phase = "unloading" =>
    \E k \in 1..(Len(ExitPlan(driver)) + 1) :
      /\ todo = From(ExitPlan(driver), k)
      /\ UnloadedSoFar(Before(ExitPlan(driver), k))

\* What a load of asgn2 may hold when a step of it has failed.
ObtainedBefore(step) ==
  CASE step = "region" -> {}
    [] step = "chrdev" -> {"region", "cdev"}
    [] step = "proc"   -> {"region", "cdev", "chrdev"}
    [] step = "device" -> Resources \ {"device", "pins"}

UnwoundSoFar(done) ==
  /\ held \cap done = {}
  /\ "cdev" \in done => "chrdev" \notin held
  /\ "device" \notin held
  /\ driver = "asgn1" /\ failedAt # "region" /\ "cdev" \notin done => "cdev" \in held
  /\ driver = "asgn2" => held \subseteq ObtainedBefore(failedAt)
  /\ failedAt # "device" => ~scheduled /\ pages = 0

UnwindingOK ==
  phase = "unwinding" =>
    /\ failedAt \in CanFail
    /\ \E k \in 1..(Len(FailPlan(driver, failedAt)) + 1) :
         /\ todo = From(FailPlan(driver, failedAt), k)
         /\ UnwoundSoFar(Before(FailPlan(driver, failedAt), k))

\* The ramdisk has no port.
NoPort ==
  driver = "asgn1" => /\ {"irq", "pins"} \cap held = {}
                      /\ ~scheduled /\ pages = 0
                      /\ stale \cap {"irq", "tasklet"} = {}

LifeInv ==
  /\ LifeTypeOK
  /\ LoadingOK
  /\ LiveOK
  /\ UnloadingOK
  /\ UnwindingOK
  /\ NoPort
  /\ ReachableIsReady

LEMMA DriverKnown == ASSUME LifeTypeOK PROVE driver \in {"asgn1", "asgn2"} /\ Needed = NeededBy(driver)
BY DriversAssumption DEF LifeTypeOK, Needed, NeededBy

LEMMA LifeInvInit == Init => LifeInv
<1> SUFFICES ASSUME Init PROVE LifeInv
  OBVIOUS
<1>1. LifeTypeOK
  <2>1. << >> \in Seq(Resources \cup Structures \cup {"unpin", "pages"})
    OBVIOUS
  <2>2. 0 \in 0..BufSlots /\ 0 \in 0..MaxPages
    BY BoundsAssumption
  <2> QED BY <2>1, <2>2 DEF Init, LifeTypeOK, Phases
<1> QED BY <1>1 DEF Init, LifeInv, LoadingOK, LiveOK, UnloadingOK, UnwindingOK, NoPort,
                    ReachableIsReady

LEMMA InsmodStep == ASSUME LifeInv, Insmod PROVE LifeInv'
<1> DEFINE plan == InitPlan(driver)
<1>1. driver \in {"asgn1", "asgn2"} /\ driver' = driver /\ IsPlan(plan)
  BY DriverKnown, PlansArePlans DEF LifeInv, Insmod
<1>2. /\ 1 \in 1..(Len(plan) + 1) /\ todo' = From(plan, 1) /\ Before(plan, 1) = {}
      /\ todo' \in Seq(Steps)
  <2>1. todo' = plan
    BY DEF Insmod, InitPlan
  <2> QED BY <1>1, <2>1, PlanBegins
<1>3. LifeTypeOK'
  <2>1. 0 \in 0..BufSlots /\ 0 \in 0..MaxPages
    BY BoundsAssumption
  <2>2. todo' \in Seq(Resources \cup Structures \cup {"unpin", "pages"})
    BY <1>2 DEF Steps
  <2>3. phase' \in Phases /\ failedAt' \in Resources \cup {"none"}
    BY DEF Insmod, Phases
  <2> HIDE DEF plan
  <2> QED BY <2>1, <2>2, <2>3 DEF Insmod, LifeInv, LifeTypeOK
<1>4. LoadedSoFar({})'
  BY DEF Insmod, LoadedSoFar
<1>5. LoadingOK'
  <2>1. LoadedSoFar(Before(plan, 1))'
    BY <1>1, <1>2, <1>4 DEF LoadedSoFar
  <2> QED BY <1>1, <1>2, <2>1 DEF LoadingOK
<1> QED BY <1>3, <1>5 DEF Insmod, LifeInv, LiveOK, UnloadingOK, UnwindingOK, NoPort,
                          ReachableIsReady

\* A load that has a step to do, and what is true of it.
LEMMA InLoad ==
  ASSUME LifeInv, NEW step, Loading(step)
  PROVE  LET plan == InitPlan(driver)
         IN  \E k \in 1..Len(plan) :
               /\ k + 1 \in 1..(Len(plan) + 1)
               /\ plan[k] = step
               /\ todo = From(plan, k)
               /\ Tail(todo) = From(plan, k + 1)
               /\ Tail(todo) \in Seq(Steps)
               /\ LoadedSoFar(Before(plan, k))
               /\ step \notin Before(plan, k)
               /\ Before(plan, k + 1) = Before(plan, k) \cup {step}
<1> DEFINE plan == InitPlan(driver)
<1>1. IsPlan(plan)
  BY DriverKnown, PlansArePlans DEF LifeInv
<1>2. PICK k \in 1..(Len(plan) + 1) : todo = From(plan, k) /\ LoadedSoFar(Before(plan, k))
  BY DEF Loading, LifeInv, LoadingOK
<1> HIDE DEF plan
<1>3. /\ k \in 1..Len(plan) /\ k + 1 \in 1..(Len(plan) + 1)
      /\ plan[k] = step
      /\ Tail(todo) = From(plan, k + 1)
      /\ step \notin Before(plan, k)
      /\ Before(plan, k + 1) = Before(plan, k) \cup {step}
  BY <1>1, <1>2, PlanStep DEF Loading
<1>4. Tail(todo) \in Seq(Steps)
  BY <1>1, <1>3, PlanStep
<1> QED BY <1>2, <1>3, <1>4 DEF plan

\* A step of the load is passed: the invariant holds if what is done now has
\* left what it should.
LEMMA LoadAdvances ==
  ASSUME LifeInv, NEW k \in 1..(Len(InitPlan(driver)) + 1),
         driver' = driver, phase = "loading", phase' = "loading",
         todo' = From(InitPlan(driver), k), todo' \in Seq(Steps),
         LoadedSoFar(Before(InitPlan(driver), k))',
         LifeTypeOK', NoPort', ReachableIsReady'
  PROVE  LifeInv'
<1>1. LoadingOK'
  BY DEF LoadingOK
<1> QED BY <1>1 DEF LifeInv, LiveOK, UnloadingOK, UnwindingOK

LEMMA RegisterStep == ASSUME LifeInv, NEW r \in Resources, Register(r) PROVE LifeInv'
<1> DEFINE plan == InitPlan(driver)
           done(j) == Before(plan, j)
<1>1. Loading(r) /\ phase = "loading" /\ driver \in {"asgn1", "asgn2"}
  BY DriverKnown DEF Register, Loading, LifeInv
<1>2. PICK k \in 1..Len(plan) :
        /\ k + 1 \in 1..(Len(plan) + 1)
        /\ plan[k] = r
        /\ Tail(todo) = From(plan, k + 1)
        /\ Tail(todo) \in Seq(Steps)
        /\ LoadedSoFar(done(k))
        /\ done(k + 1) = done(k) \cup {r}
  BY <1>1, InLoad
<1>3. /\ r = "irq" => driver = "asgn2" /\ "list" \in done(k)
      /\ r = "pins" => driver = "asgn2" /\ "unpin" \notin done(k)
      /\ r = "device" => NeededBy(driver) \cup {"chrdev", "proc"} \subseteq done(k)
  <2>1. k \in 1..(Len(plan) + 1)
    BY <1>2 DEF LifeInv
  <2> QED BY <1>1, <1>2, <2>1, InitOrder
<1>4. /\ held' = held \cup {r} /\ todo' = Tail(todo)
      /\ UNCHANGED <<driver, phase, failedAt, ready, ring, scheduled, pages, stale, spurious, late>>
  BY DEF Register, port
<1>5. r \in Resources /\ r \notin Structures /\ r # "unpin" /\ "list" \in Structures
  BY DEF Resources, Structures
<1>6. LifeTypeOK'
  BY <1>2, <1>4 DEF LifeInv, LifeTypeOK, Steps
<1> HIDE DEF plan, done
<1>7. LoadedSoFar(done(k + 1))'
  <2>1. done(k + 1)' = done(k + 1)
    BY <1>4 DEF done, plan, InitPlan
  <2>2. /\ held' \subseteq done(k + 1)
        /\ done(k + 1) \cap Structures \subseteq ready'
        /\ done(k + 1) \cap Certain \subseteq held'
    BY <1>2, <1>4, <1>5 DEF LoadedSoFar
  <2>3. "unpin" \in done(k + 1) => "pins" \notin held'
    BY <1>2, <1>3, <1>4, <1>5 DEF LoadedSoFar
  <2>4. "irq" \notin done(k + 1) => ~scheduled' /\ pages' = 0
    BY <1>2, <1>4 DEF LoadedSoFar
  <2> QED BY <2>1, <2>2, <2>3, <2>4, <1>2, <1>4 DEF LoadedSoFar
<1>8. NoPort'
  BY <1>3, <1>4 DEF LifeInv, NoPort
<1>9. ReachableIsReady'
  <2>1. r = "device" => Needed \subseteq ready /\ {"chrdev", "proc"} \subseteq held
    <3>1. NeededBy(driver) \subseteq Structures /\ Needed = NeededBy(driver)
      BY DriverKnown DEF NeededBy, Structures, LifeInv
    <3> QED BY <1>2, <1>3, <3>1 DEF LoadedSoFar, Certain
  <2>2. r = "irq" => "list" \in ready
    BY <1>2, <1>3, <1>5 DEF LoadedSoFar
  <2> QED BY <2>1, <2>2, <1>4 DEF LifeInv, ReachableIsReady, Needed
<1> QED BY <1>1, <1>2, <1>4, <1>6, <1>7, <1>8, <1>9, LoadAdvances DEF done, plan
LEMMA InitialiseStep == ASSUME LifeInv, NEW s \in Structures, Initialise(s) PROVE LifeInv'
<1> DEFINE plan == InitPlan(driver)
           done(j) == Before(plan, j)
<1>1. Loading(s) /\ phase = "loading"
  BY DEF Initialise, Loading
<1>2. PICK k \in 1..Len(plan) :
        /\ k + 1 \in 1..(Len(plan) + 1)
        /\ Tail(todo) = From(plan, k + 1)
        /\ Tail(todo) \in Seq(Steps)
        /\ LoadedSoFar(done(k))
        /\ done(k + 1) = done(k) \cup {s}
  BY <1>1, InLoad
<1>3. /\ ready' = ready \cup {s} /\ todo' = Tail(todo)
      /\ ring' \in {0, ring}
      /\ UNCHANGED <<driver, phase, failedAt, held, scheduled, pages, stale, spurious, late>>
  BY DEF Initialise
<1>4. s \notin Resources /\ s # "unpin" /\ Certain \subseteq Resources
  BY DEF Resources, Structures, Certain
<1>5. LifeTypeOK'
  <2>1. ring' \in 0..BufSlots
    BY <1>3, BoundsAssumption DEF LifeInv, LifeTypeOK
  <2> QED BY <2>1, <1>2, <1>3 DEF LifeInv, LifeTypeOK, Steps
<1> HIDE DEF plan, done
<1>6. LoadedSoFar(done(k + 1))'
  <2>1. done(k + 1)' = done(k + 1)
    BY <1>3 DEF done, plan, InitPlan
  <2> QED BY <2>1, <1>2, <1>3, <1>4 DEF LoadedSoFar
<1>7. NoPort' /\ ReachableIsReady'
  BY <1>3 DEF LifeInv, NoPort, ReachableIsReady, Needed
<1> QED BY <1>1, <1>2, <1>3, <1>5, <1>6, <1>7, LoadAdvances DEF done, plan

LEMMA FreePinsStep == ASSUME LifeInv, FreePins PROVE LifeInv'
<1> DEFINE plan == InitPlan(driver)
           done(j) == Before(plan, j)
<1>1. Loading("unpin") /\ phase = "loading"
  BY DEF FreePins, Loading
<1>2. PICK k \in 1..Len(plan) :
        /\ k + 1 \in 1..(Len(plan) + 1)
        /\ Tail(todo) = From(plan, k + 1)
        /\ Tail(todo) \in Seq(Steps)
        /\ LoadedSoFar(done(k))
        /\ done(k + 1) = done(k) \cup {"unpin"}
  BY <1>1, InLoad
<1>3. /\ held' = held \ {"pins"} /\ todo' = Tail(todo)
      /\ UNCHANGED <<driver, phase, failedAt, ready, ring, scheduled, pages, stale, spurious, late>>
  BY DEF FreePins, port
<1>4. "unpin" \notin Structures /\ "unpin" \notin Certain /\ "pins" \notin Certain
  BY DEF Structures, Certain
<1>5. LifeTypeOK'
  BY <1>2, <1>3 DEF LifeInv, LifeTypeOK, Steps
<1> HIDE DEF plan, done
<1>6. LoadedSoFar(done(k + 1))'
  <2>1. done(k + 1)' = done(k + 1)
    BY <1>3 DEF done, plan, InitPlan
  <2> QED BY <2>1, <1>2, <1>3, <1>4 DEF LoadedSoFar
<1>7. NoPort' /\ ReachableIsReady'
  BY <1>3 DEF LifeInv, NoPort, ReachableIsReady, Needed
<1> QED BY <1>1, <1>2, <1>3, <1>5, <1>6, <1>7, LoadAdvances DEF done, plan

LEMMA FailsUnseenStep == ASSUME LifeInv, NEW r \in Resources, FailsUnseen(r) PROVE LifeInv'
<1> DEFINE plan == InitPlan(driver)
           done(j) == Before(plan, j)
<1>1. /\ Loading(r) /\ phase = "loading" /\ r \in {"class", "pins", "irq"}
      /\ driver \in {"asgn1", "asgn2"} /\ IsPlan(plan)
  BY DriverKnown, PlansArePlans DEF FailsUnseen, Loading, LifeInv
<1>2. PICK k \in 1..Len(plan) :
        /\ k + 1 \in 1..(Len(plan) + 1)
        /\ plan[k] = r
        /\ todo = From(plan, k)
        /\ Tail(todo) = From(plan, k + 1)
        /\ Tail(todo) \in Seq(Steps)
        /\ LoadedSoFar(done(k))
        /\ done(k + 1) = done(k) \cup {r}
        /\ r \notin done(k)
  BY <1>1, InLoad
<1>3. UNCHANGED <<driver, phase, failedAt, held, ready, ring, scheduled, pages, stale, spurious, late>>
  BY DEF FailsUnseen, port
<1>4. NoPort' /\ ReachableIsReady'
  BY <1>3 DEF LifeInv, NoPort, ReachableIsReady, Needed
<1>5. CASE r # "pins"
  <2>1. todo' = Tail(todo)
    BY <1>5 DEF FailsUnseen
  <2>2. LifeTypeOK'
    BY <1>2, <1>3, <2>1 DEF LifeInv, LifeTypeOK, Steps
  <2>3. r \notin Structures /\ r \notin Certain /\ r # "unpin"
    BY <1>1, <1>5 DEF Structures, Certain
  <2> HIDE DEF plan, done
  <2>4. LoadedSoFar(done(k + 1))'
    <3>1. done(k + 1)' = done(k + 1)
      BY <1>3 DEF done, plan, InitPlan
    <3> QED BY <3>1, <2>3, <1>2, <1>3 DEF LoadedSoFar
  <2> QED BY <1>1, <1>2, <1>3, <1>4, <2>1, <2>2, <2>4, LoadAdvances DEF done, plan
<1>6. CASE r = "pins"
  <2>1. driver = "asgn2" /\ k = 6
    <3>1. k \in 1..(Len(plan) + 1)
      BY <1>2
    <3> QED BY <1>1, <1>2, <1>6, <3>1, InitOrder
  <2>2. plan = asgn2_init /\ Len(plan) = 13 /\ plan[7] = "irq" /\ plan[8] = "unpin"
    BY <2>1, Asgn2InitPlan DEF InitPlan
  <2> HIDE DEF plan
  <2>3. plan \in Seq(Steps)
    BY <1>1 DEF IsPlan, IsQueueOf
  <2>4. /\ todo' = From(plan, 9)
        /\ todo' \in Seq(Steps)
    <3>1. todo = SubSeq(plan, 6, 13) /\ Len(todo) = 8
      <4>1. \A i \in 6..13 : plan[i] \in Steps
        <5>1. \A i \in 6..13 : i \in 1..Len(plan)
          BY <2>2
        <5> QED BY <5>1, <2>3, QueueElements
      <4>2. todo = SubSeq(plan, 6, 13)
        BY <1>2, <2>1, <2>2 DEF From
      <4> QED BY <4>1, <4>2, SubSeqProperties
    <3>2. todo' = SubSeq(todo, 4, 8)
      BY <3>1, <1>6 DEF FailsUnseen
    <3>3. SubSeq(SubSeq(plan, 6, 13), 4, 8) = SubSeq(plan, 9, 13)
      <4>1. 6 \in 1..Len(plan) /\ 13 \in 1..Len(plan) /\ 4 \in 1..(13 - 6 + 1) /\ 8 \in 1..(13 - 6 + 1)
        BY <2>2
      <4>2. SubSeq(SubSeq(plan, 6, 13), 4, 8) = SubSeq(plan, 6 + 4 - 1, 6 + 8 - 1)
        BY <4>1, <2>3, SubSeqOfSubSeq
      <4> QED BY <4>2
    <3>4. todo' = From(plan, 9)
      BY <3>1, <3>2, <3>3, <2>2 DEF From
    <3>5. 9 \in 1..(Len(plan) + 1)
      BY <2>2
    <3> QED BY <1>1, <3>4, <3>5, PlanStep
  <2>5. done(9) = done(k) \cup {"pins", "irq", "unpin"}
    <3>1. 1..(9 - 1) = 1..(6 - 1) \cup {6, 7, 8}
      OBVIOUS
    <3> QED BY <3>1, <2>1, <2>2, <1>2, <1>6 DEF Before
  <2>6. LifeTypeOK'
    BY <1>3, <2>4 DEF LifeInv, LifeTypeOK, Steps
  <2>7. 9 \in 1..(Len(plan) + 1)
    BY <2>2
  <2> HIDE DEF done
  <2>8. LoadedSoFar(done(9))'
    <3>1. done(9)' = done(9)
      BY <1>3 DEF done, plan, InitPlan
    <3>2. {"pins", "irq", "unpin"} \cap (Structures \cup Certain) = {}
      BY DEF Structures, Certain
    <3>3. "pins" \notin held
      BY <1>2, <1>6 DEF LoadedSoFar
    <3> QED BY <3>1, <3>2, <3>3, <2>5, <1>2, <1>3 DEF LoadedSoFar
  <2> QED BY <1>1, <1>3, <1>4, <2>4, <2>6, <2>7, <2>8, LoadAdvances DEF done, plan
<1> QED BY <1>5, <1>6

LEMMA FailsStep == ASSUME LifeInv, NEW r \in Resources, Fails(r) PROVE LifeInv'
<1> DEFINE plan == InitPlan(driver)
           fail == FailPlan(driver, r)
<1>1. Loading(r) /\ phase = "loading" /\ r \in CanFail /\ driver \in {"asgn1", "asgn2"}
  BY DriverKnown DEF Fails, Loading, LifeInv, CanFail
<1>2. PICK k \in 1..Len(plan) : plan[k] = r /\ LoadedSoFar(Before(plan, k))
  BY <1>1, InLoad
<1>3. /\ todo' = fail /\ failedAt' = r /\ phase' = "unwinding"
      /\ UNCHANGED <<driver, held, ready, ring, scheduled, pages, stale, spurious, late>>
  BY DEF Fails, FailPlan, port
<1>4. /\ 1 \in 1..(Len(fail) + 1) /\ todo' = From(fail, 1) /\ Before(fail, 1) = {}
      /\ todo' \in Seq(Steps)
  <2>1. IsPlan(fail)
    BY <1>1, FailOrder
  <2> QED BY <2>1, <1>3, PlanBegins
<1>5. LifeTypeOK'
  BY <1>1, <1>3, <1>4 DEF LifeInv, LifeTypeOK, Steps, Phases
<1>6. NoPort' /\ ReachableIsReady'
  BY <1>3 DEF LifeInv, NoPort, ReachableIsReady, Needed
<1>7. held \subseteq Resources
  BY DEF LifeInv, LifeTypeOK
<1>8. /\ "device" \notin Before(plan, k)
      /\ driver = "asgn1" /\ r # "region" => "cdev" \in Before(plan, k)
      /\ driver = "asgn2" /\ r = "device" => "unpin" \in Before(plan, k)
      /\ driver = "asgn2" /\ r # "device"
           => Before(plan, k) \cap Resources = ObtainedBefore(r)
      /\ r # "device" => "irq" \notin Before(plan, k)
  <2>1. k \in 1..(Len(plan) + 1) /\ k # Len(plan) + 1
    BY DEF LifeInv
  <2> QED BY <1>1, <1>2, <2>1, InitOrder DEF ObtainedBefore, CanFail
<1>9. UnwoundSoFar({})'
  <2>1. "device" \notin held
    BY <1>2, <1>8 DEF LoadedSoFar
  <2>2. driver = "asgn1" /\ r # "region" => "cdev" \in held
    BY <1>2, <1>8 DEF LoadedSoFar, Certain
  <2>3. driver = "asgn2" => held \subseteq ObtainedBefore(r)
    <3>1. CASE r = "device"
      BY <3>1, <2>1, <1>2, <1>7, <1>8 DEF LoadedSoFar, ObtainedBefore
    <3>2. CASE r # "device"
      BY <3>2, <1>2, <1>7, <1>8 DEF LoadedSoFar
    <3> QED BY <3>1, <3>2
  <2>4. r # "device" => ~scheduled /\ pages = 0
    BY <1>2, <1>8 DEF LoadedSoFar
  <2> QED BY <2>1, <2>2, <2>3, <2>4, <1>3 DEF UnwoundSoFar
<1>10. UnwindingOK'
  <2>1. UnwoundSoFar(Before(fail, 1))'
    BY <1>3, <1>4, <1>9 DEF UnwoundSoFar
  <2>2. FailPlan(driver, failedAt)' = fail
    BY <1>3 DEF FailPlan
  <2> QED BY <2>1, <2>2, <1>1, <1>3, <1>4 DEF UnwindingOK
<1> QED BY <1>3, <1>5, <1>6, <1>10 DEF LifeInv, LoadingOK, LiveOK, UnloadingOK

LEMMA LoadedStep == ASSUME LifeInv, Loaded PROVE LifeInv'
<1> DEFINE plan == InitPlan(driver)
<1>1. /\ phase = "loading" /\ todo = << >> /\ phase' = "live"
      /\ UNCHANGED <<driver, todo, failedAt, held, ready, ring, scheduled, pages, stale, spurious, late>>
      /\ driver \in {"asgn1", "asgn2"} /\ IsPlan(plan)
  BY DriverKnown, PlansArePlans DEF Loaded, port, LifeInv
<1>2. PICK k \in 1..(Len(plan) + 1) : todo = From(plan, k) /\ LoadedSoFar(Before(plan, k))
  BY <1>1 DEF LifeInv, LoadingOK
<1>3. k = Len(plan) + 1
  BY <1>1, <1>2, PlanStep
<1>4. Certain \subseteq Before(plan, k)
  BY <1>1, <1>3, InitOrder
<1>5. LiveOK'
  BY <1>1, <1>2, <1>4 DEF LiveOK, LoadedSoFar
<1>6. LifeTypeOK'
  BY <1>1 DEF LifeInv, LifeTypeOK, Phases
<1> QED BY <1>1, <1>5, <1>6
        DEF LifeInv, LoadingOK, UnloadingOK, UnwindingOK, NoPort, ReachableIsReady, Needed

LEMMA RmmodStep == ASSUME LifeInv, Rmmod PROVE LifeInv'
<1> DEFINE plan == ExitPlan(driver)
<1>1. /\ phase = "live" /\ phase' = "unloading" /\ todo' = plan
      /\ UNCHANGED <<driver, failedAt, held, ready, ring, scheduled, pages, stale, spurious, late>>
      /\ driver \in {"asgn1", "asgn2"} /\ IsPlan(plan)
  BY DriverKnown, PlansArePlans DEF Rmmod, ExitPlan, port, LifeInv
<1>2. /\ 1 \in 1..(Len(plan) + 1) /\ todo' = From(plan, 1) /\ Before(plan, 1) = {}
      /\ todo' \in Seq(Steps)
  BY <1>1, PlanBegins
<1>3. LifeTypeOK'
  BY <1>1, <1>2 DEF LifeInv, LifeTypeOK, Phases, Steps
<1>4. UnloadedSoFar({})'
  BY <1>1 DEF LifeInv, LiveOK, Certain, UnloadedSoFar
<1>5. UnloadingOK'
  <2>1. UnloadedSoFar(Before(plan, 1))'
    BY <1>1, <1>2, <1>4 DEF UnloadedSoFar
  <2> QED BY <1>1, <1>2, <2>1 DEF UnloadingOK
<1> QED BY <1>1, <1>3, <1>5
        DEF LifeInv, LoadingOK, LiveOK, UnwindingOK, NoPort, ReachableIsReady, Needed
(***************************************************************************)
(* Giving back: an unload that has a step to do, and a clean-up that has.  *)
(***************************************************************************)
LEMMA InUnload ==
  ASSUME LifeInv, NEW step, GivingBack(step), phase = "unloading"
  PROVE  LET plan == ExitPlan(driver)
         IN  \E k \in 1..Len(plan) :
               /\ k + 1 \in 1..(Len(plan) + 1)
               /\ plan[k] = step
               /\ Tail(todo) = From(plan, k + 1)
               /\ Tail(todo) \in Seq(Steps)
               /\ UnloadedSoFar(Before(plan, k))
               /\ step \notin Before(plan, k)
               /\ Before(plan, k + 1) = Before(plan, k) \cup {step}
<1> DEFINE plan == ExitPlan(driver)
<1>1. IsPlan(plan)
  BY DriverKnown, PlansArePlans DEF LifeInv
<1>2. PICK k \in 1..(Len(plan) + 1) : todo = From(plan, k) /\ UnloadedSoFar(Before(plan, k))
  BY DEF LifeInv, UnloadingOK
<1> HIDE DEF plan
<1>3. /\ k \in 1..Len(plan) /\ k + 1 \in 1..(Len(plan) + 1)
      /\ plan[k] = step
      /\ Tail(todo) = From(plan, k + 1)
      /\ step \notin Before(plan, k)
      /\ Before(plan, k + 1) = Before(plan, k) \cup {step}
  BY <1>1, <1>2, PlanStep DEF GivingBack
<1>4. Tail(todo) \in Seq(Steps)
  BY <1>1, <1>3, PlanStep
<1> QED BY <1>2, <1>3, <1>4 DEF plan

LEMMA InUnwind ==
  ASSUME LifeInv, NEW step, GivingBack(step), phase = "unwinding"
  PROVE  LET plan == FailPlan(driver, failedAt)
         IN  \E k \in 1..Len(plan) :
               /\ k + 1 \in 1..(Len(plan) + 1)
               /\ Tail(todo) = From(plan, k + 1)
               /\ Tail(todo) \in Seq(Steps)
               /\ UnwoundSoFar(Before(plan, k))
               /\ Before(plan, k + 1) = Before(plan, k) \cup {step}
<1> DEFINE plan == FailPlan(driver, failedAt)
<1>1. IsPlan(plan)
  BY DriverKnown, FailOrder DEF LifeInv, UnwindingOK
<1>2. PICK k \in 1..(Len(plan) + 1) : todo = From(plan, k) /\ UnwoundSoFar(Before(plan, k))
  BY DEF LifeInv, UnwindingOK
<1> HIDE DEF plan
<1>3. /\ k \in 1..Len(plan) /\ k + 1 \in 1..(Len(plan) + 1)
      /\ Tail(todo) = From(plan, k + 1)
      /\ Before(plan, k + 1) = Before(plan, k) \cup {step}
  BY <1>1, <1>2, PlanStep DEF GivingBack
<1>4. Tail(todo) \in Seq(Steps)
  BY <1>1, <1>3, PlanStep
<1> QED BY <1>2, <1>3, <1>4 DEF plan

\* A step of the unload, or of the clean-up, is done.
LEMMA UnloadAdvances ==
  ASSUME LifeInv, NEW k \in 1..(Len(ExitPlan(driver)) + 1),
         driver' = driver, phase' = "unloading",
         todo' = From(ExitPlan(driver), k),
         UnloadedSoFar(Before(ExitPlan(driver), k))',
         LifeTypeOK', NoPort', ReachableIsReady'
  PROVE  LifeInv'
<1>1. UnloadingOK'
  BY DEF UnloadingOK
<1> QED BY <1>1 DEF LifeInv, LiveOK, LoadingOK, UnwindingOK

LEMMA UnwindAdvances ==
  ASSUME LifeInv, NEW k \in 1..(Len(FailPlan(driver, failedAt)) + 1),
         phase = "unwinding", phase' = "unwinding", UNCHANGED <<driver, failedAt>>,
         todo' = From(FailPlan(driver, failedAt), k),
         UnwoundSoFar(Before(FailPlan(driver, failedAt), k))',
         LifeTypeOK', NoPort', ReachableIsReady'
  PROVE  LifeInv'
<1>1. UnwindingOK'
  BY DEF LifeInv, UnwindingOK
<1> QED BY <1>1 DEF LifeInv, LiveOK, LoadingOK, UnloadingOK

\* What was given back is not held any more, and neither is what goes with it.
LEMMA ReleaseStep == ASSUME LifeInv, NEW r \in Resources, Release(r) PROVE LifeInv'
<1>1. /\ GivingBack(r) /\ r \in held /\ todo' = Tail(todo)
      /\ held' = held \ (IF r = "cdev" THEN {r, "chrdev"} ELSE {r})
      /\ UNCHANGED <<driver, phase, failedAt, ready, ring, scheduled, pages, stale, spurious, late>>
      /\ driver \in {"asgn1", "asgn2"}
  BY DriverKnown DEF Release, port, LifeInv
<1>2. NoPort'
  BY <1>1 DEF LifeInv, NoPort
<1>3. CASE phase = "unloading"
  <2> DEFINE plan == ExitPlan(driver)
             done(j) == Before(plan, j)
  <2>1. PICK k \in 1..Len(plan) :
          /\ k + 1 \in 1..(Len(plan) + 1)
          /\ plan[k] = r
          /\ Tail(todo) = From(plan, k + 1)
          /\ Tail(todo) \in Seq(Steps)
          /\ UnloadedSoFar(done(k))
          /\ done(k + 1) = done(k) \cup {r}
    BY <1>1, <1>3, InUnload
  <2>2. LifeTypeOK'
    BY <1>1, <2>1 DEF LifeInv, LifeTypeOK, Steps
  <2>3. r # "device" => "device" \in done(k)
    <3>1. k \in 1..(Len(plan) + 1)
      BY <2>1 DEF LifeInv
    <3> QED BY <1>1, <2>1, <3>1, ExitOrder
  <2> HIDE DEF plan, done
  <2>4. "device" \notin held'
    BY <1>1, <2>1, <2>3 DEF UnloadedSoFar
  <2>5. ReachableIsReady'
    BY <1>1, <2>4 DEF LifeInv, ReachableIsReady
  <2>6. UnloadedSoFar(done(k + 1))'
    <3>1. done(k + 1)' = done(k + 1)
      BY <1>1 DEF done, plan, ExitPlan
    <3>2. /\ held' \cap done(k + 1) = {}
          /\ {"region", "cdev", "device"} \ done(k + 1) \subseteq held'
          /\ "cdev" \in done(k + 1) => "chrdev" \notin held'
      BY <1>1, <2>1 DEF UnloadedSoFar
    <3>3. "pages" \in done(k + 1) => "pages" \in done(k)
      BY <2>1 DEF Resources
    <3> QED BY <3>1, <3>2, <3>3, <1>1, <2>1 DEF UnloadedSoFar
  <2> QED BY <1>1, <1>2, <1>3, <2>1, <2>2, <2>5, <2>6, UnloadAdvances DEF done, plan
<1>4. CASE phase = "unwinding"
  <2> DEFINE plan == FailPlan(driver, failedAt)
             done(j) == Before(plan, j)
  <2>1. PICK k \in 1..Len(plan) :
          /\ k + 1 \in 1..(Len(plan) + 1)
          /\ Tail(todo) = From(plan, k + 1)
          /\ Tail(todo) \in Seq(Steps)
          /\ UnwoundSoFar(done(k))
          /\ done(k + 1) = done(k) \cup {r}
    BY <1>1, <1>4, InUnwind
  <2>2. LifeTypeOK'
    BY <1>1, <2>1 DEF LifeInv, LifeTypeOK, Steps
  <2> HIDE DEF plan, done
  <2>3. "device" \notin held'
    BY <1>1, <2>1 DEF UnwoundSoFar
  <2>4. ReachableIsReady'
    BY <1>1, <2>3 DEF LifeInv, ReachableIsReady
  <2>5. UnwoundSoFar(done(k + 1))'
    <3>1. done(k + 1)' = done(k + 1)
      BY <1>1 DEF done, plan, FailPlan
    <3> QED BY <3>1, <1>1, <2>1 DEF UnwoundSoFar
  <2> QED BY <1>1, <1>2, <1>4, <2>1, <2>2, <2>4, <2>5, UnwindAdvances DEF done, plan
<1> QED BY <1>1, <1>3, <1>4 DEF GivingBack

LEMMA ReleaseAbsentStep ==
  ASSUME LifeInv, NEW r \in Resources, ReleaseAbsent(r) PROVE LifeInv'
<1>1. /\ GivingBack(r) /\ r \notin held /\ todo' = Tail(todo)
      /\ phase' = (IF r = "cdev" THEN "oops" ELSE phase)
      /\ spurious' = spurious \cup ({r} \ Tolerated)
      /\ UNCHANGED <<driver, failedAt, held, ready, ring, scheduled, pages, stale, late>>
      /\ driver \in {"asgn1", "asgn2"}
  BY DriverKnown DEF ReleaseAbsent, port, LifeInv
<1>2. NoPort' /\ ReachableIsReady'
  BY <1>1 DEF LifeInv, NoPort, ReachableIsReady, Needed
<1>3. phase' \in Phases /\ spurious' \subseteq Resources
  BY <1>1 DEF LifeInv, LifeTypeOK, Phases
<1>4. CASE phase = "unloading"
  <2> DEFINE plan == ExitPlan(driver)
             done(j) == Before(plan, j)
  <2>1. PICK k \in 1..Len(plan) :
          /\ k + 1 \in 1..(Len(plan) + 1)
          /\ plan[k] = r
          /\ Tail(todo) = From(plan, k + 1)
          /\ Tail(todo) \in Seq(Steps)
          /\ UnloadedSoFar(done(k))
          /\ r \notin done(k)
          /\ done(k + 1) = done(k) \cup {r}
    BY <1>1, <1>4, InUnload
  <2>2. LifeTypeOK'
    BY <1>1, <1>3, <2>1 DEF LifeInv, LifeTypeOK, Steps
  <2>3. r # "chrdev"
    <3>1. k \in 1..(Len(plan) + 1)
      BY <2>1 DEF LifeInv
    <3> QED BY <1>1, <2>1, <3>1, ExitOrder
  <2> HIDE DEF plan, done
  <2>4. r \in {"proc", "pins", "irq", "class"}
    BY <1>1, <2>1, <2>3 DEF UnloadedSoFar, Resources
  <2>5. UnloadedSoFar(done(k + 1))'
    <3>1. done(k + 1)' = done(k + 1)
      BY <1>1 DEF done, plan, ExitPlan
    <3> QED BY <3>1, <1>1, <2>1, <2>4 DEF UnloadedSoFar, Tolerated
  <2>6. phase' = "unloading"
    BY <1>1, <1>4, <2>4
  <2> QED BY <1>1, <1>2, <2>1, <2>2, <2>5, <2>6, UnloadAdvances DEF done, plan
<1>5. CASE phase = "unwinding"
  <2> DEFINE plan == FailPlan(driver, failedAt)
             done(j) == Before(plan, j)
  <2>1. PICK k \in 1..Len(plan) :
          /\ k + 1 \in 1..(Len(plan) + 1)
          /\ Tail(todo) = From(plan, k + 1)
          /\ Tail(todo) \in Seq(Steps)
          /\ UnwoundSoFar(done(k))
          /\ done(k + 1) = done(k) \cup {r}
    BY <1>1, <1>5, InUnwind
  <2>2. LifeTypeOK'
    BY <1>1, <1>3, <2>1 DEF LifeInv, LifeTypeOK, Steps
  <2>3. CASE r = "cdev"
    BY <1>1, <1>2, <2>2, <2>3 DEF LifeInv, LoadingOK, LiveOK, UnloadingOK, UnwindingOK
  <2>4. CASE r # "cdev"
    <3> HIDE DEF plan, done
    <3>1. UnwoundSoFar(done(k + 1))'
      <4>1. done(k + 1)' = done(k + 1)
        BY <1>1 DEF done, plan, FailPlan
      <4> QED BY <4>1, <1>1, <2>1, <2>4 DEF UnwoundSoFar
    <3> QED BY <1>1, <1>2, <1>5, <2>1, <2>2, <2>4, <3>1, UnwindAdvances DEF done, plan
  <2> QED BY <2>3, <2>4
<1> QED BY <1>1, <1>4, <1>5 DEF GivingBack

LEMMA FreePagesStep == ASSUME LifeInv, free_memory_pages PROVE LifeInv'
<1>1. /\ GivingBack("pages") /\ todo' = Tail(todo) /\ pages' = 0
      /\ UNCHANGED <<driver, phase, failedAt, held, ready, ring, scheduled, stale, spurious, late>>
  BY DEF free_memory_pages
<1>2. NoPort' /\ ReachableIsReady'
  BY <1>1 DEF LifeInv, NoPort, ReachableIsReady, Needed
<1>3. "pages" \notin Resources /\ held \subseteq Resources /\ pages' \in 0..MaxPages
  BY <1>1, BoundsAssumption DEF Resources, LifeInv, LifeTypeOK
<1>4. CASE phase = "unloading"
  <2> DEFINE plan == ExitPlan(driver)
             done(j) == Before(plan, j)
  <2>1. PICK k \in 1..Len(plan) :
          /\ k + 1 \in 1..(Len(plan) + 1)
          /\ Tail(todo) = From(plan, k + 1)
          /\ Tail(todo) \in Seq(Steps)
          /\ UnloadedSoFar(done(k))
          /\ done(k + 1) = done(k) \cup {"pages"}
    BY <1>1, <1>4, InUnload
  <2>2. LifeTypeOK'
    BY <1>1, <1>3, <2>1 DEF LifeInv, LifeTypeOK, Steps
  <2> HIDE DEF plan, done
  <2>3. UnloadedSoFar(done(k + 1))'
    <3>1. done(k + 1)' = done(k + 1)
      BY <1>1 DEF done, plan, ExitPlan
    <3>2. held' \cap done(k + 1) = {}
      BY <1>1, <1>3, <2>1 DEF UnloadedSoFar
    <3>3. /\ {"region", "cdev", "device"} \ done(k + 1) \subseteq held'
          /\ "cdev" \in done(k + 1) => "chrdev" \notin held'
      BY <1>1, <2>1 DEF UnloadedSoFar
    <3> QED BY <3>1, <3>2, <3>3, <1>1, <2>1 DEF UnloadedSoFar
  <2> QED BY <1>1, <1>2, <1>4, <2>1, <2>2, <2>3, UnloadAdvances DEF done, plan
<1>5. CASE phase = "unwinding"
  <2> DEFINE plan == FailPlan(driver, failedAt)
             done(j) == Before(plan, j)
  <2>1. PICK k \in 1..Len(plan) :
          /\ k + 1 \in 1..(Len(plan) + 1)
          /\ Tail(todo) = From(plan, k + 1)
          /\ Tail(todo) \in Seq(Steps)
          /\ UnwoundSoFar(done(k))
          /\ done(k + 1) = done(k) \cup {"pages"}
    BY <1>1, <1>5, InUnwind
  <2>2. LifeTypeOK'
    BY <1>1, <1>3, <2>1 DEF LifeInv, LifeTypeOK, Steps
  <2> HIDE DEF plan, done
  <2>3. UnwoundSoFar(done(k + 1))'
    <3>1. done(k + 1)' = done(k + 1)
      BY <1>1 DEF done, plan, FailPlan
    <3>2. held' \cap done(k + 1) = {}
      BY <1>1, <1>3, <2>1 DEF UnwoundSoFar
    <3> QED BY <3>1, <3>2, <1>1, <2>1 DEF UnwoundSoFar
  <2> QED BY <1>1, <1>2, <1>5, <2>1, <2>2, <2>3, UnwindAdvances DEF done, plan
<1> QED BY <1>1, <1>4, <1>5 DEF GivingBack
LEMMA EndedStep == ASSUME LifeInv, Ended PROVE LifeInv'
<1>1. /\ phase' = "absent" /\ held' = {} /\ scheduled' = FALSE /\ pages' = 0
      /\ stale' = stale \cup held \cup (IF pages > 0 THEN {"pages"} ELSE {})
                        \cup (IF scheduled THEN {"tasklet"} ELSE {})
      /\ UNCHANGED <<driver, todo, failedAt, ready, ring, spurious, late>>
  BY DEF Ended
<1>2. stale' \subseteq Resources \cup {"pages", "tasklet"}
  BY <1>1 DEF LifeInv, LifeTypeOK
<1>3. LifeTypeOK'
  <2>1. 0 \in 0..MaxPages /\ phase' \in Phases
    BY <1>1, BoundsAssumption DEF Phases
  <2> QED BY <2>1, <1>1, <1>2 DEF LifeInv, LifeTypeOK
<1>4. NoPort'
  <2> SUFFICES ASSUME driver = "asgn1" PROVE stale' \cap {"irq", "tasklet"} = {}
    BY <1>1 DEF NoPort
  <2>1. stale' = stale \cup held /\ held \subseteq Resources
    BY <1>1 DEF LifeInv, NoPort, LifeTypeOK
  <2> QED BY <2>1 DEF LifeInv, NoPort, Resources
<1>5. ReachableIsReady'
  BY <1>1 DEF ReachableIsReady
<1> QED BY <1>1, <1>3, <1>4, <1>5 DEF LifeInv, LoadingOK, LiveOK, UnloadingOK, UnwindingOK

(***************************************************************************)
(* The port.                                                               *)
(***************************************************************************)

\* An interrupt comes, or the tasklet runs, only after the load has come to the
\* request of the interrupt; and what the tasklet stores after the pages were
\* freed is noticed.
LEMMA PortStep == ASSUME LifeInv, dummyport_interrupt \/ bottom_half PROVE LifeInv'
<1>1. /\ UNCHANGED <<driver, phase, todo, failedAt, held, ready, stale, spurious>>
      /\ "irq" \in held \/ scheduled
      /\ driver = "asgn2"
  <2>1. UNCHANGED <<driver, loader, stale, spurious>> /\ ("irq" \in held \/ scheduled)
    BY DEF dummyport_interrupt, bottom_half
  <2>2. driver = "asgn2"
    BY <2>1, DriverKnown DEF LifeInv, NoPort
  <2> QED BY <2>1, <2>2 DEF loader
<1>2. LifeTypeOK'
  <2>1. ring' \in 0..BufSlots
    BY BoundsAssumption DEF dummyport_interrupt, bottom_half, LifeInv, LifeTypeOK
  <2>2. pages' \in 0..MaxPages
    BY BoundsAssumption DEF dummyport_interrupt, bottom_half, LifeInv, LifeTypeOK
  <2>3. scheduled' \in BOOLEAN
    BY DEF dummyport_interrupt, bottom_half
  <2>4. late' \in BOOLEAN
    BY DEF dummyport_interrupt, bottom_half, LifeInv, LifeTypeOK
  <2> QED BY <1>1, <2>1, <2>2, <2>3, <2>4 DEF LifeInv, LifeTypeOK
<1>3. NoPort'
  BY <1>1 DEF NoPort
<1>4. ReachableIsReady'
  BY <1>1 DEF LifeInv, ReachableIsReady, Needed
<1>5. LiveOK'
  BY <1>1 DEF LifeInv, LiveOK
<1>6. ASSUME phase = "loading" PROVE LoadingOK'
  <2> DEFINE plan == InitPlan(driver)
             done(j) == Before(plan, j)
  <2>1. PICK k \in 1..(Len(plan) + 1) : todo = From(plan, k) /\ LoadedSoFar(done(k))
    BY <1>6 DEF LifeInv, LoadingOK
  <2>2. "irq" \in done(k)
    BY <1>1, <2>1 DEF LoadedSoFar
  <2> HIDE DEF plan, done
  <2>3. LoadedSoFar(done(k))'
    <3>1. done(k)' = done(k)
      BY <1>1 DEF done, plan, InitPlan
    <3> QED BY <3>1, <2>1, <2>2, <1>1 DEF LoadedSoFar
  <2> QED BY <1>1, <2>1, <2>3 DEF LoadingOK, plan, done
<1>7. ASSUME phase = "unloading" PROVE UnloadingOK'
  <2> DEFINE plan == ExitPlan(driver)
             done(j) == Before(plan, j)
  <2>1. PICK k \in 1..(Len(plan) + 1) : todo = From(plan, k) /\ UnloadedSoFar(done(k))
    BY <1>7 DEF LifeInv, UnloadingOK
  <2>2. "pages" \in done(k) => Freed
    <3>1. IsPlan(plan)
      BY <1>1, PlansArePlans
    <3> QED BY <3>1, <2>1, <1>7, DoneIsGone DEF Freed
  <2> HIDE DEF plan, done
  <2>3. "pages" \in done(k) /\ pages' > 0 => late'
    BY <2>1, <2>2 DEF dummyport_interrupt, bottom_half, UnloadedSoFar
  <2>4. UnloadedSoFar(done(k))'
    <3>1. done(k)' = done(k)
      BY <1>1 DEF done, plan, ExitPlan
    <3> QED BY <3>1, <2>1, <2>3, <1>1 DEF UnloadedSoFar
  <2> QED BY <1>1, <2>1, <2>4 DEF UnloadingOK, plan, done
<1>8. ASSUME phase = "unwinding" PROVE UnwindingOK'
  <2> DEFINE plan == FailPlan(driver, failedAt)
             done(j) == Before(plan, j)
  <2>1. PICK k \in 1..(Len(plan) + 1) : todo = From(plan, k) /\ UnwoundSoFar(done(k))
    BY <1>8 DEF LifeInv, UnwindingOK
  <2> HIDE DEF plan, done
  <2>2. failedAt \in CanFail
    BY <1>8 DEF LifeInv, UnwindingOK
  <2>3. failedAt = "device"
    BY <1>1, <2>1, <2>2 DEF UnwoundSoFar, ObtainedBefore, CanFail
  <2>4. UnwoundSoFar(done(k))'
    <3>1. done(k)' = done(k)
      BY <1>1 DEF done, plan, FailPlan
    <3> QED BY <3>1, <2>1, <2>3, <1>1 DEF UnwoundSoFar
  <2> QED BY <1>1, <2>1, <2>2, <2>4 DEF UnwindingOK, plan, done
<1>9. LoadingOK' /\ UnloadingOK' /\ UnwindingOK'
  BY <1>1, <1>6, <1>7, <1>8 DEF LoadingOK, UnloadingOK, UnwindingOK
<1> QED BY <1>2, <1>3, <1>4, <1>5, <1>9 DEF LifeInv

LEMMA RunsGoneStep == ASSUME LifeInv, RunsGone PROVE LifeInv'
<1>1. /\ phase' = "oops"
      /\ UNCHANGED <<driver, todo, failedAt, held, ready, ring, scheduled, pages, stale, spurious, late>>
  BY DEF RunsGone, port
<1>2. LifeTypeOK'
  BY <1>1 DEF LifeInv, LifeTypeOK, Phases
<1> QED BY <1>1, <1>2 DEF LifeInv, LoadingOK, LiveOK, UnloadingOK, UnwindingOK, NoPort,
                          ReachableIsReady, Needed

LEMMA LifeFrame == ASSUME LifeInv, UNCHANGED vars PROVE LifeInv'
<1>1. UNCHANGED <<driver, phase, todo, failedAt, held, ready, ring, scheduled, pages,
                  stale, spurious, late>>
  BY DEF vars, loader, port
<1>2. LifeTypeOK' /\ NoPort' /\ ReachableIsReady' /\ LiveOK'
  BY <1>1 DEF LifeInv, LifeTypeOK, NoPort, ReachableIsReady, Needed, LiveOK
<1>3. LoadingOK'
  BY <1>1 DEF LifeInv, LoadingOK, LoadedSoFar
<1>4. UnloadingOK'
  BY <1>1 DEF LifeInv, UnloadingOK, UnloadedSoFar
<1>5. UnwindingOK'
  BY <1>1 DEF LifeInv, UnwindingOK, UnwoundSoFar
<1> QED BY <1>2, <1>3, <1>4, <1>5 DEF LifeInv

LEMMA LifeInvStep == LifeInv /\ [Next]_vars => LifeInv'
<1> SUFFICES ASSUME LifeInv, [Next]_vars PROVE LifeInv'
  OBVIOUS
<1>1. ASSUME NEW r \in Resources,
             Register(r) \/ Fails(r) \/ FailsUnseen(r) \/ Release(r) \/ ReleaseAbsent(r)
      PROVE  LifeInv'
  BY <1>1, RegisterStep, FailsStep, FailsUnseenStep, ReleaseStep, ReleaseAbsentStep
<1>2. ASSUME NEW s \in Structures, Initialise(s) PROVE LifeInv'
  BY <1>2, InitialiseStep
<1> QED BY <1>1, <1>2, InsmodStep, FreePinsStep, LoadedStep, RmmodStep, FreePagesStep,
           EndedStep, PortStep, RunsGoneStep, LifeFrame DEF Next

\* Loading and unloading keep the invariant through every step.
THEOREM LifecycleInvariant == Spec => []LifeInv
BY LifeInvInit, LifeInvStep, PTL DEF Spec

\* Every variable of the life cycle keeps its type, for any number of loads.
THEOREM LifeTypeCorrect == Spec => []LifeTypeOK
<1>1. LifeInv => LifeTypeOK
  BY DEF LifeInv
<1> QED BY <1>1, LifecycleInvariant, PTL

\* A process that opens the device through its node finds everything initialised
\* (asgn_2.c:526, asgn1.c:429), and an interrupt or a tasklet finds the list
\* (asgn_2.c:505), whichever steps of the load failed unseen.
THEOREM NothingReachableTooEarly == Spec => []ReachableIsReady
<1>1. LifeInv => ReachableIsReady
  BY DEF LifeInv
<1> QED BY <1>1, LifecycleInvariant, PTL

\* When an unload is over, all that is given back by a step of it is gone.
LEMMA EndOfUnload ==
  ASSUME LifeInv, phase = "unloading", todo = << >>
  PROVE  held = {} /\ (pages > 0 => late) /\ spurious \subseteq {"pins", "irq"}
<1> DEFINE plan == ExitPlan(driver)
           done(j) == Before(plan, j)
<1>1. driver \in {"asgn1", "asgn2"} /\ IsPlan(plan)
  BY DriverKnown, PlansArePlans DEF LifeInv
<1>2. PICK k \in 1..(Len(plan) + 1) : todo = From(plan, k) /\ UnloadedSoFar(done(k))
  BY DEF LifeInv, UnloadingOK
<1>3. k = Len(plan) + 1
  BY <1>1, <1>2, PlanStep
<1>4. /\ "pages" \in done(k)
      /\ Resources \ (IF driver = "asgn1" THEN {"chrdev", "irq", "pins"} ELSE {"chrdev"})
           \subseteq done(k)
  BY <1>1, <1>3, ExitOrder
<1> HIDE DEF plan, done
<1>5. "chrdev" \notin held
  BY <1>2, <1>4 DEF UnloadedSoFar, Resources
<1>6. held = {}
  BY <1>1, <1>2, <1>4, <1>5 DEF UnloadedSoFar, LifeInv, LifeTypeOK, NoPort
<1> QED BY <1>2, <1>4, <1>6 DEF UnloadedSoFar

\* "Deallocates everything in the correct order" (asgn_2.c:564, asgn1.c:457): an
\* unload leaves nothing behind but what the port does after the pages were
\* freed, and gives back nothing it does not hold but the port's pins and its
\* interrupt.
THEOREM UnloadLeavesNothing == Spec => UnloadReleases
<1>1. ASSUME LifeInv, [Next]_vars, phase = "unloading", phase' = "absent"
      PROVE  /\ stale' \ stale \subseteq {"pages", "tasklet"}
             /\ "pages" \in stale' \ stale => late
             /\ spurious \subseteq {"pins", "irq"}
  <2>1. Ended
    BY <1>1 DEF Next, vars, loader, Insmod, Register, Fails, FailsUnseen, Release,
                ReleaseAbsent, Initialise, FreePins, Loaded, Rmmod, free_memory_pages,
                dummyport_interrupt, bottom_half, RunsGone, Loading
  <2>2. held = {} /\ (pages > 0 => late) /\ spurious \subseteq {"pins", "irq"}
    BY <1>1, <2>1, EndOfUnload DEF Ended
  <2>3. stale' = stale \cup (IF pages > 0 THEN {"pages"} ELSE {})
                       \cup (IF scheduled THEN {"tasklet"} ELSE {})
    BY <2>1, <2>2 DEF Ended
  <2> QED BY <2>2, <2>3
<1>2. LifeInv /\ [Next]_vars =>
        [phase = "unloading" /\ phase' = "absent"
           => /\ stale' \ stale \subseteq {"pages", "tasklet"}
              /\ "pages" \in stale' \ stale => late
              /\ spurious \subseteq {"pins", "irq"}]_vars
  BY <1>1
<1> QED BY <1>2, LifecycleInvariant, PTL DEF Spec, UnloadReleases

\* When a clean-up is over, what is still held depends on where the load failed.
LEMMA EndOfUnwind ==
  ASSUME LifeInv, phase = "unwinding", todo = << >>
  PROVE  /\ driver \in {"asgn1", "asgn2"} /\ failedAt \in CanFail
         /\ driver = "asgn1" => held = {} /\ pages = 0 /\ ~scheduled
         /\ driver = "asgn2" => held \subseteq CASE failedAt = "chrdev" -> {"cdev"}
                                                [] failedAt = "device" -> {"class", "irq"}
                                                [] OTHER -> {}
         /\ failedAt # "device" => pages = 0 /\ ~scheduled
<1> DEFINE plan == FailPlan(driver, failedAt)
           done == Before(plan, Len(plan) + 1)
<1>1. driver \in {"asgn1", "asgn2"} /\ failedAt \in CanFail
  BY DriverKnown DEF LifeInv, UnwindingOK
<1>2. IsPlan(plan)
  BY <1>1, FailOrder
<1>3. PICK k \in 1..(Len(plan) + 1) : todo = From(plan, k) /\ UnwoundSoFar(Before(plan, k))
  BY DEF LifeInv, UnwindingOK
<1>4. k = Len(plan) + 1
  BY <1>2, <1>3, PlanStep
<1>5. /\ driver = "asgn1" => {"class", "proc", "cdev", "region"} \subseteq done
      /\ driver = "asgn2" /\ failedAt = "device" => {"proc", "cdev", "region"} \subseteq done
      /\ driver = "asgn2" /\ failedAt = "proc" => {"cdev", "region"} \subseteq done
      /\ driver = "asgn2" /\ failedAt = "chrdev" => {"region"} \subseteq done
  BY <1>1, FailOrder
<1> HIDE DEF plan
<1>6. UnwoundSoFar(done)
  BY <1>3, <1>4
<1> HIDE DEF done
<1>7. driver = "asgn1" => held = {} /\ pages = 0 /\ ~scheduled
  BY <1>5, <1>6 DEF UnwoundSoFar, LifeInv, LifeTypeOK, NoPort, Resources
<1>8. driver = "asgn2" => held \subseteq CASE failedAt = "chrdev" -> {"cdev"}
                                           [] failedAt = "device" -> {"class", "irq"}
                                           [] OTHER -> {}
  <2> SUFFICES ASSUME driver = "asgn2"
               PROVE  held \subseteq CASE failedAt = "chrdev" -> {"cdev"}
                                       [] failedAt = "device" -> {"class", "irq"}
                                       [] OTHER -> {}
    OBVIOUS
  <2>1. CASE failedAt = "region"
    BY <2>1, <1>6 DEF UnwoundSoFar, ObtainedBefore
  <2>2. CASE failedAt = "chrdev"
    BY <2>2, <1>5, <1>6 DEF UnwoundSoFar, ObtainedBefore
  <2>3. CASE failedAt = "proc"
    BY <2>3, <1>5, <1>6 DEF UnwoundSoFar, ObtainedBefore
  <2>4. CASE failedAt = "device"
    BY <2>4, <1>5, <1>6 DEF UnwoundSoFar, ObtainedBefore, Resources
  <2> QED BY <2>1, <2>2, <2>3, <2>4, <1>1 DEF CanFail
<1>9. failedAt # "device" => pages = 0 /\ ~scheduled
  BY <1>6 DEF UnwoundSoFar
<1> QED BY <1>1, <1>7, <1>8, <1>9

\* What a failed load leaves behind, for both drivers and every step that may fail
\* (asgn1.c:443-452, asgn_2.c:540-560).
THEOREM FailedLoadLeavesLittle == Spec => FailedLoadLeaves
<1> DEFINE Little ==
      \/ /\ driver = "asgn1"
         /\ phase' = "absent" => stale' = stale
         /\ phase' = "oops" => failedAt = "region"
      \/ /\ driver = "asgn2"
         /\ stale' \ stale \subseteq
              CASE failedAt = "chrdev" -> {"cdev"}
                [] failedAt = "device" -> {"class", "irq", "pages", "tasklet"}
                [] OTHER -> {}
<1>1. ASSUME LifeInv, [Next]_vars, phase = "unwinding", phase' \in {"absent", "oops"}
      PROVE  Little
  <2>1. Ended \/ RunsGone \/ \E r \in Resources : ReleaseAbsent(r) /\ r = "cdev"
    BY <1>1 DEF Next, vars, loader, Insmod, Register, Fails, FailsUnseen, Release,
                ReleaseAbsent, Initialise, FreePins, Loaded, Rmmod, free_memory_pages,
                dummyport_interrupt, bottom_half, Loading
  <2>2. driver \in {"asgn1", "asgn2"} /\ failedAt \in CanFail
    BY <1>1, DriverKnown DEF LifeInv, UnwindingOK
  <2>3. CASE Ended
    <3>1. phase' = "absent" /\ todo = << >>
      BY <2>3 DEF Ended
    <3>2. stale' = stale \cup held \cup (IF pages > 0 THEN {"pages"} ELSE {})
                         \cup (IF scheduled THEN {"tasklet"} ELSE {})
      BY <2>3 DEF Ended
    <3>3. CASE driver = "asgn1"
      BY <3>1, <3>2, <3>3, <1>1, EndOfUnwind
    <3>4. CASE driver = "asgn2" /\ failedAt = "device"
      BY <3>1, <3>2, <3>4, <1>1, EndOfUnwind
    <3>5. CASE driver = "asgn2" /\ failedAt # "device"
      BY <3>1, <3>2, <3>5, <1>1, EndOfUnwind
    <3> QED BY <2>2, <3>3, <3>4, <3>5
  <2>4. CASE RunsGone
    <3>1. stale' = stale /\ phase' = "oops" /\ driver # "asgn1"
      BY <1>1, <2>4 DEF RunsGone, LifeInv, NoPort
    <3> QED BY <3>1, <2>2
  <2>5. ASSUME NEW r \in Resources, ReleaseAbsent(r), r = "cdev" PROVE Little
    <3>1. stale' = stale /\ phase' = "oops" /\ GivingBack("cdev") /\ "cdev" \notin held
      BY <2>5 DEF ReleaseAbsent
    <3>2. driver = "asgn1" => failedAt = "region"
      <4> DEFINE plan == FailPlan(driver, failedAt)
      <4>1. IsPlan(plan)
        BY <2>2, FailOrder
      <4>2. PICK k \in 1..(Len(plan) + 1) : todo = From(plan, k) /\ UnwoundSoFar(Before(plan, k))
        BY <1>1 DEF LifeInv, UnwindingOK
      <4>3. "cdev" \notin Before(plan, k)
        BY <3>1, <4>1, <4>2, PlanStep DEF GivingBack
      <4> QED BY <3>1, <4>2, <4>3 DEF UnwoundSoFar
    <3> QED BY <3>1, <3>2, <2>2
  <2> QED BY <2>1, <2>3, <2>4, <2>5
<1>2. LifeInv /\ [Next]_vars => [phase = "unwinding" /\ phase' \in {"absent", "oops"} => Little]_vars
  BY <1>1
<1> QED BY <1>2, LifecycleInvariant, PTL DEF Spec, FailedLoadLeaves
=============================================================================
