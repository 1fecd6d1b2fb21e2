------------------------------ MODULE Lifecycle ------------------------------
(***************************************************************************)
(* Loading and unloading of the two drivers: what each step of the init    *)
(* and exit functions registers, initialises or gives back, any step       *)
(* failing, and for asgn2 with the port's interrupt and the tasklet in     *)
(* between, from the moment the interrupt is requested.                    *)
(*                                                                         *)
(* An init or exit function is a sequence of steps still to do.  What it   *)
(* has from the kernel when it ends is out of reach of the next load       *)
(* ("stale"), whose variables are new.                                     *)
(***************************************************************************)
EXTENDS Integers, SequencesExt

CONSTANTS Drivers,   \* which of "asgn1" and "asgn2" are loaded
          BufSlots,  \* bound of the model: bytes in the circular buffer
          MaxPages   \* bound of the model: pages the machine has

ASSUME DriversAssumption == Drivers \subseteq {"asgn1", "asgn2"}
ASSUME BoundsAssumption == BufSlots \in Nat /\ MaxPages \in Nat

VARIABLES driver,     \* the driver that is loaded and unloaded, chosen once
          phase,      \* see Phases
          todo,       \* steps of init or exit still to come
          failedAt,   \* the step whose failure ended the load, or "none"
          held,       \* what this load has from the kernel
          ready,      \* what this load has initialised
          ring,       \* bytes in the circular buffer
          scheduled,  \* is the tasklet pending?
          pages,      \* pages on mem_list
          stale,      \* what earlier loads have left behind
          spurious,   \* ghost: given back by this load without being held
          late        \* ghost: the tasklet stored pages after they were freed

loader == <<phase, todo, failedAt, held, ready>>
port == <<ring, scheduled, pages>>
vars == <<driver, loader, port, stale, spurious, late>>

Phases == {"absent", "loading", "unwinding", "live", "unloading", "oops"}
Resources == {"region", "cdev", "chrdev", "proc", "pins", "irq", "class", "device"}
Structures == {"list", "ring", "queue", "flags"}
\* Taken under a fixed name or number: two loads cannot both have them.
Exclusive == {"pins", "irq", "class"}
\* Their absence is tested by the driver (proc) or by the kernel (class).
Tolerated == {"proc", "class"}

-----------------------------------------------------------------------------
(* The order of things.                                                    *)

\* "unpin": when request_irq succeeded the code runs on into fail1.
gpio_dummy_init == <<"pins", "irq", "unpin">>
gpio_dummy_exit == <<"irq", "pins">>

asgn1_init == <<"region", "cdev", "chrdev", "list", "proc", "class", "device">>

\* Faulty variant: the interrupt is requested first.
PortFirst == gpio_dummy_init \o asgn1_init \o <<"ring", "queue", "flags">>

asgn2_init == <<"region", "cdev", "chrdev", "list", "proc">> \o gpio_dummy_init
                \o <<"ring", "queue", "flags", "class", "device">>

\* Faulty variant of the clean-up of asgn1: the class is forgotten.
KeepClass == <<"proc", "cdev", "region">>

\* What follows the label fail_device: asgn1 does all of it whatever failed,
\* asgn2 switches on the step.
asgn1_fail == <<"class", "proc", "cdev", "region">>

asgn2_fail(step) ==
  CASE step = "device" -> <<"proc", "cdev", "region">>
    [] step = "proc"   -> <<"cdev", "region">>
    [] step = "chrdev" -> <<"region">>
    [] step = "region" -> << >>

asgn1_exit == <<"device", "class", "pages", "proc", "cdev", "region">>

\* Faulty variant: the interrupt is not freed.
KeepIrq == asgn1_exit

asgn2_exit == <<"device", "class", "pages", "proc">> \o gpio_dummy_exit
                \o <<"cdev", "region">>

-----------------------------------------------------------------------------
(* Loading.                                                                *)

Insmod ==
  /\ phase = "absent"
  /\ phase' = "loading"
  /\ todo' = IF driver = "asgn1" THEN asgn1_init ELSE asgn2_init
  /\ failedAt' = "none"
  /\ held' = {} /\ ready' = {}
  /\ ring' = 0 /\ scheduled' = FALSE /\ pages' = 0
  /\ spurious' = {} /\ late' = FALSE
  /\ UNCHANGED <<driver, stale>>

Loading(step) == phase = "loading" /\ todo # << >> /\ Head(todo) = step

Register(r) ==
  /\ Loading(r)
  /\ r \notin stale \cap Exclusive
  /\ r = "device" => "class" \in held
  /\ held' = held \cup {r}
  /\ todo' = Tail(todo)
  /\ UNCHANGED <<driver, phase, failedAt, ready, port, stale, spurious, late>>

Initialise(s) ==
  /\ Loading(s)
  /\ ready' = ready \cup {s}
  /\ ring' = IF s = "ring" THEN 0 ELSE ring
  /\ todo' = Tail(todo)
  /\ UNCHANGED <<driver, phase, failedAt, held, scheduled, pages, stale, spurious, late>>

FreePins ==
  /\ Loading("unpin")
  /\ held' = held \ {"pins"}
  /\ todo' = Tail(todo)
  /\ UNCHANGED <<driver, phase, failedAt, ready, port, stale, spurious, late>>

\* A failure that ends the load.
Fails(step) ==
  /\ step \in {"region", "chrdev", "proc", "device"}
  /\ Loading(step)
  /\ phase' = "unwinding"
  /\ failedAt' = step
  /\ todo' = IF driver = "asgn1" THEN asgn1_fail ELSE asgn2_fail(step)
  /\ UNCHANGED <<driver, held, ready, port, stale, spurious, late>>

\* A failure nobody looks at: of the class (its test has an empty body), and of
\* gpio_dummy_init, which without the pins does not ask for the interrupt.
FailsUnseen(step) ==
  /\ step \in {"class", "pins", "irq"}
  /\ Loading(step)
  /\ todo' = IF step = "pins" THEN SubSeq(todo, 4, Len(todo)) ELSE Tail(todo)
  /\ UNCHANGED <<driver, phase, failedAt, held, ready, port, stale, spurious, late>>

Loaded ==
  /\ phase = "loading" /\ todo = << >>
  /\ phase' = "live"
  /\ UNCHANGED <<driver, todo, failedAt, held, ready, port, stale, spurious, late>>

-----------------------------------------------------------------------------
(* Unloading and cleaning up.                                              *)

\* Nobody has the device open: fops.owner holds the module otherwise.
Rmmod ==
  /\ phase = "live"
  /\ phase' = "unloading"
  /\ todo' = IF driver = "asgn1" THEN asgn1_exit ELSE asgn2_exit
  /\ UNCHANGED <<driver, failedAt, held, ready, port, stale, spurious, late>>

GivingBack(step) ==
  phase \in {"unwinding", "unloading"} /\ todo # << >> /\ Head(todo) = step

\* cdev_del also undoes cdev_add.
Release(r) ==
  /\ GivingBack(r)
  /\ r \in held
  /\ held' = held \ (IF r = "cdev" THEN {r, "chrdev"} ELSE {r})
  /\ todo' = Tail(todo)
  /\ UNCHANGED <<driver, phase, failedAt, ready, port, stale, spurious, late>>

\* cdev_del of NULL brings the kernel down; free_irq and gpio_free_array
\* complain.
ReleaseAbsent(r) ==
  /\ GivingBack(r)
  /\ r \notin held
  /\ phase' = IF r = "cdev" THEN "oops" ELSE phase
  /\ spurious' = spurious \cup ({r} \ Tolerated)
  /\ todo' = Tail(todo)
  /\ UNCHANGED <<driver, failedAt, held, ready, port, stale, late>>

free_memory_pages ==
  /\ GivingBack("pages")
  /\ pages' = 0
  /\ todo' = Tail(todo)
  /\ UNCHANGED <<driver, phase, failedAt, held, ready, ring, scheduled, stale, spurious, late>>

\* The code and the variables of the module are gone, what it holds is not.
Ended ==
  /\ phase \in {"unwinding", "unloading"} /\ todo = << >>
  /\ phase' = "absent"
  /\ stale' = stale \cup held \cup (IF pages > 0 THEN {"pages"} ELSE {})
                    \cup (IF scheduled THEN {"tasklet"} ELSE {})
  /\ held' = {} /\ scheduled' = FALSE /\ pages' = 0
  /\ UNCHANGED <<driver, todo, failedAt, ready, ring, spurious, late>>

-----------------------------------------------------------------------------
(* The port, see modules TopHalf and Asgn2.  An interrupt here is one that *)
(* completes a byte.                                                       *)

\* Faulty variant: a full circular buffer is not noticed.
StoreAlways ==
  /\ "irq" \in held
  /\ phase # "oops"
  /\ ring' = ring + 1
  /\ scheduled' = TRUE
  /\ UNCHANGED <<driver, loader, pages, stale, spurious, late>>

dummyport_interrupt ==
  /\ "irq" \in held
  /\ phase # "oops"
  /\ ring' = IF ring < BufSlots THEN ring + 1 ELSE ring
  /\ scheduled' = TRUE
  /\ UNCHANGED <<driver, loader, pages, stale, spurious, late>>

Freed == phase = "unloading" /\ ~Contains(todo, "pages")

bottom_half ==
  /\ scheduled
  /\ phase # "oops"
  /\ scheduled' = FALSE
  /\ \/ /\ \/ ring = 0 /\ pages' = pages
           \/ ring > 0 /\ pages' \in {pages, pages + 1} \cap 1..MaxPages
        /\ ring' = 0
     \/ ring > 0 /\ UNCHANGED <<ring, pages>>       \* no memory
  /\ late' = (late \/ (Freed /\ pages' > 0))
  /\ UNCHANGED <<driver, loader, stale, spurious>>

\* The handler or the tasklet of a load that is over.
RunsGone ==
  /\ phase # "oops"
  /\ stale \cap {"irq", "tasklet"} # {}
  /\ phase' = "oops"
  /\ UNCHANGED <<driver, todo, failedAt, held, ready, port, stale, spurious, late>>

-----------------------------------------------------------------------------
Init ==
  /\ driver \in Drivers
  /\ phase = "absent"
  /\ todo = << >> /\ failedAt = "none"
  /\ held = {} /\ ready = {}
  /\ ring = 0 /\ scheduled = FALSE /\ pages = 0
  /\ stale = {} /\ spurious = {} /\ late = FALSE

Next ==
  \/ Insmod
  \/ \E r \in Resources : Register(r) \/ Fails(r) \/ FailsUnseen(r)
                            \/ Release(r) \/ ReleaseAbsent(r)
  \/ \E s \in Structures : Initialise(s)
  \/ FreePins
  \/ Loaded
  \/ Rmmod
  \/ free_memory_pages
  \/ Ended
  \/ dummyport_interrupt
  \/ bottom_half
  \/ RunsGone

Spec == Init /\ [][Next]_vars

-----------------------------------------------------------------------------
(* Properties.                                                             *)

LifeTypeOK ==
  /\ driver \in Drivers
  /\ phase \in Phases
  /\ todo \in Seq(Resources \cup Structures \cup {"unpin", "pages"})
  /\ failedAt \in Resources \cup {"none"}
  /\ held \subseteq Resources
  /\ ready \subseteq Structures
  /\ ring \in 0..BufSlots
  /\ scheduled \in BOOLEAN
  /\ pages \in 0..MaxPages
  /\ stale \subseteq Resources \cup {"pages", "tasklet"}
  /\ spurious \subseteq Resources
  /\ late \in BOOLEAN

Needed == IF driver = "asgn1" THEN {"list"} ELSE Structures

\* Nothing can be called before what it uses is there: a process that opens the
\* device through its node (asgn_2.c:526, asgn1.c:429) finds the list, the ring,
\* the queue and the flags initialised, and a tasklet finds the list, although
\* the interrupt is requested in the middle of the load (asgn_2.c:505).
ReachableIsReady ==
  /\ "device" \in held => Needed \subseteq ready /\ {"chrdev", "proc"} \subseteq held
  /\ ("irq" \in held \/ scheduled) => "list" \in ready

\* "Deallocates everything in the correct order" (asgn_2.c:564, asgn1.c:457):
\* an unload gives back all that the load obtained, whichever failures of it
\* went unseen, and only what it holds; but the port's pins and, when it could
\* not be had, its interrupt are given back without being held, and what comes
\* from the port after the pages were freed is left behind.
UnloadReleases ==
  [][phase = "unloading" /\ phase' = "absent"
       => /\ stale' \ stale \subseteq {"pages", "tasklet"}
          /\ "pages" \in stale' \ stale => late
          /\ spurious \subseteq {"pins", "irq"}]_vars

\* What a failed load leaves behind.  asgn1 leaves nothing when the kernel
\* survives the clean-up (asgn1.c:443-452), which it does unless the very first
\* step failed; asgn2 (asgn_2.c:540-560) leaves the cdev that was not
\* added, or the class and the interrupt when the device could not be made.
FailedLoadLeaves ==
  [][phase = "unwinding" /\ phase' \in {"absent", "oops"}
       => \/ /\ driver = "asgn1"
             /\ phase' = "absent" => stale' = stale
             /\ phase' = "oops" => failedAt = "region"
          \/ /\ driver = "asgn2"
             /\ stale' \ stale \subseteq
                  CASE failedAt = "chrdev" -> {"cdev"}
                    [] failedAt = "device" -> {"class", "irq", "pages", "tasklet"}
                    [] OTHER -> {}]_vars
=============================================================================
