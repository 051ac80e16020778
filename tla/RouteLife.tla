----------------------------- MODULE RouteLife -----------------------------
(***************************************************************************)
(* route/main.c: loading and unloading the module (xsky_init, create_dev,  *)
(* xsky_exit, delete_dev) while programs use its device and hooks run.     *)
(* Nothing holds the device back until init is done: it can be opened, and *)
(* the hooks see packets, before `poll' is allocated.                      *)
(*                                                                         *)
(* Each call that init and exit make is a step.  The file operations and   *)
(* the hook are reduced to the pointers they follow (module RouteDevice    *)
(* has the rest).  The kernel keeps a module loaded while one of its files *)
(* is open, and does not open files of a module that is going.             *)
(***************************************************************************)
EXTENDS Naturals

CONSTANTS
  Cpus,       \* the CPUs that run the hook
  Users       \* the threads that use the device

VARIABLES
  life,       \* the step of xsky_init or xsky_exit that comes next
  poll,       \* what the global `poll' points to
  cdevs,      \* the character devices registered: of this load, of a failed one
  hooked,     \* the families whose hook is registered
  flock_flag,
  user,       \* per thread: where it stands in a file operation
  private,    \* the files whose private_data is not NULL
  cpu,        \* per CPU: where the hook stands, and for which family
  fault,      \* history: the bad pointers followed since the load
  early,      \* history: a file was opened before init was done
  overtaken   \* history: exit unregistered a hook while it ran

vars == <<life, poll, cdevs, hooked, flock_flag, user, private, cpu, fault,
          early, overtaken>>

Families == {"ipv4", "ipv6"}
Loading == {"create_dev", "class", "hook4", "hook6", "kmalloc", "waitqueue",
            "queue"}
Exiting == {"delete_dev", "unhook4", "unhook6", "release", "kfree"}

NoHook == [at |-> "idle", family |-> "ipv4"]

Init ==
  /\ life = "out"
  /\ poll = "null"
  /\ cdevs = {}
  /\ hooked = {}
  /\ flock_flag = 0
  /\ user = [u \in Users |-> "closed"]
  /\ private = {}
  /\ cpu = [c \in Cpus |-> NoHook]
  /\ fault = {}
  /\ early = FALSE
  /\ overtaken = FALSE

-----------------------------------------------------------------------------
(* What can be reached through `poll'. *)

QueueUsable == poll = "ready" /\ life # "out"
InqUsable == poll \in {"waitqueue", "ready", "released"} /\ life # "out"

\* Too soon, or after it was freed or the module's code was.
Blame ==
  IF life # "out" /\ poll \in {"null", "raw", "waitqueue"} THEN "early"
                                                           ELSE "gone"
Follow(usable) == fault' = IF usable THEN fault ELSE fault \cup {Blame}

-----------------------------------------------------------------------------
(* xsky_init *)

history == <<fault, early, overtaken>>
others == <<flock_flag, user, private, cpu>>

\* A fresh copy of the module.  The model does not retry a failed load before
\* everyone has let go of it.
Insmod ==
  /\ life = "out"
  /\ \A u \in Users : user[u] = "closed"
  /\ \A c \in Cpus : cpu[c].at = "idle"
  /\ life' = "create_dev"
  /\ poll' = "null"
  /\ flock_flag' = 0
  /\ fault' = {}
  /\ early' = FALSE
  /\ overtaken' = FALSE
  /\ UNCHANGED <<cdevs, hooked, user, private, cpu>>

\* alloc_chrdev_region fails, or cdev_add makes the device openable.
CreateDev ==
  /\ life = "create_dev"
  /\ \/ life' = "out" /\ UNCHANGED cdevs
     \/ life' = "class" /\ cdevs' = cdevs \cup {"live"}
  /\ UNCHANGED <<poll, hooked, others, history>>

CreateClass ==
  /\ life = "class"
  /\ life' = "hook4"
  /\ UNCHANGED <<poll, cdevs, hooked, others, history>>

\* class_create fails: init returns an error, the device stays registered.
ClassFails ==
  /\ life = "class"
  /\ life' = "out"
  /\ cdevs' = (cdevs \ {"live"}) \cup {"stale"}
  /\ UNCHANGED <<poll, hooked, others, history>>

\* nf_register_hook; that it failed and rolled back is not looked at.
Register(at, family, next) ==
  /\ life = at
  /\ life' = next
  /\ \/ hooked' = hooked \cup {family}
     \/ UNCHANGED hooked
  /\ UNCHANGED <<poll, cdevs, others, history>>

\* Memory from kmalloc, then its wait queue, then its packet queue.
Prepare(at, made, next) ==
  /\ life = at
  /\ life' = next
  /\ poll' = made
  /\ UNCHANGED <<cdevs, hooked, others, history>>

\* Faulty form: the packet queue is forgotten.
InitNoQueue ==
  \/ CreateDev \/ CreateClass \/ ClassFails
  \/ Register("hook4", "ipv4", "hook6")
  \/ Register("hook6", "ipv6", "kmalloc")
  \/ Prepare("kmalloc", "raw", "waitqueue")
  \/ Prepare("waitqueue", "waitqueue", "live")

InitStep ==
  \/ CreateDev \/ CreateClass \/ ClassFails
  \/ Register("hook4", "ipv4", "hook6")
  \/ Register("hook6", "ipv6", "kmalloc")
  \/ Prepare("kmalloc", "raw", "waitqueue")
  \/ Prepare("waitqueue", "waitqueue", "queue")
  \/ Prepare("queue", "ready", "live")

-----------------------------------------------------------------------------
(* xsky_exit *)

Rmmod ==
  /\ life = "live"
  /\ \A u \in Users : user[u] = "closed"
  /\ life' = "delete_dev"
  /\ UNCHANGED <<poll, cdevs, hooked, others, history>>

DeleteDev ==
  /\ life = "delete_dev"
  /\ life' = "unhook4"
  /\ cdevs' = cdevs \ {"live"}
  /\ UNCHANGED <<poll, hooked, others, history>>

\* Some kernels wait for the hooks that run, others do not.
Unregister(at, family, next) ==
  /\ life = at
  /\ life' = next
  /\ hooked' = hooked \ {family}
  /\ overtaken' = (overtaken \/ \E c \in Cpus :
                     cpu[c].at # "idle" /\ cpu[c].family = family)
  /\ UNCHANGED <<poll, cdevs, others, fault, early>>

\* Faulty form: the queue is released while the hooks are registered.
ExitReleasingFirst ==
  \/ DeleteDev
  \/ Prepare("unhook4", "released", "unhook6")
  \/ Unregister("unhook6", "ipv4", "release")
  \/ Unregister("release", "ipv6", "kfree")
  \/ Prepare("kfree", "freed", "out")

ExitStep ==
  \/ DeleteDev
  \/ Unregister("unhook4", "ipv4", "unhook6")
  \/ Unregister("unhook6", "ipv6", "release")
  \/ Prepare("release", "released", "kfree")
  \/ Prepare("kfree", "freed", "out")

-----------------------------------------------------------------------------
(* The hook, on CPU c; with the flag clear it does nothing *)

HookIn(c, family) ==
  /\ cpu[c].at = "idle"
  /\ family \in hooked
  /\ flock_flag = 1
  /\ cpu' = [cpu EXCEPT ![c] = [at |-> "push", family |-> family]]
  /\ UNCHANGED <<life, poll, cdevs, hooked, flock_flag, user, private, history>>

\* The packet is queued, or refused and accepted.
HookPush(c) ==
  /\ cpu[c].at = "push"
  /\ Follow(QueueUsable)
  /\ \/ cpu' = [cpu EXCEPT ![c].at = "wake"]
     \/ cpu' = [cpu EXCEPT ![c] = NoHook]
  /\ UNCHANGED <<life, poll, cdevs, hooked, flock_flag, user, private, early, overtaken>>

HookWake(c) ==
  /\ cpu[c].at = "wake"
  /\ Follow(InqUsable)
  /\ cpu' = [cpu EXCEPT ![c] = NoHook]
  /\ UNCHANGED <<life, poll, cdevs, hooked, flock_flag, user, private, early, overtaken>>

-----------------------------------------------------------------------------
(* The file operations, in thread u *)

At(u, from, to) ==
  /\ user[u] = from
  /\ user' = [user EXCEPT ![u] = to]

OpenCheck(u) ==
  /\ "live" \in cdevs
  /\ life \notin Exiting
  /\ flock_flag = 0
  /\ At(u, "closed", "open_set")
  /\ UNCHANGED <<life, poll, cdevs, hooked, flock_flag, private, cpu, history>>

\* private_data is the `poll' of this moment, NULL or not.
OpenSet(u) ==
  /\ At(u, "open_set", "open")
  /\ flock_flag' = 1
  /\ private' = IF poll = "null" THEN private \ {u} ELSE private \cup {u}
  /\ early' = (early \/ life # "live")
  /\ Follow(life # "out")
  /\ UNCHANGED <<life, poll, cdevs, hooked, cpu, overtaken>>

\* A device whose module is no longer there.
OpenStale(u) ==
  /\ "stale" \in cdevs
  /\ user[u] = "closed"
  /\ fault' = fault \cup {"gone"}
  /\ UNCHANGED <<life, poll, cdevs, hooked, others, early, overtaken>>

\* chr_read goes through the global pointer.
Read(u) ==
  /\ user[u] = "open"
  /\ Follow(QueueUsable)
  /\ UNCHANGED <<life, poll, cdevs, hooked, others, early, overtaken>>

\* chr_poll goes through private_data.
Poll(u) ==
  /\ user[u] = "open"
  /\ fault' = IF u \notin private THEN fault \cup {"early"}
              ELSE IF InqUsable /\ QueueUsable THEN fault
              ELSE fault \cup {Blame}
  /\ UNCHANGED <<life, poll, cdevs, hooked, others, early, overtaken>>

\* Faulty form: the flag stays set.
ReleaseKeepsFlag(u) ==
  /\ At(u, "open", "reset")
  /\ UNCHANGED <<life, poll, cdevs, hooked, flock_flag, private, cpu, history>>

ReleaseFlag(u) ==
  /\ At(u, "open", "reset")
  /\ flock_flag' = 0
  /\ UNCHANGED <<life, poll, cdevs, hooked, private, cpu, history>>

\* xsky_queue_reset.  A thread that dies here never lets go of the module.
ReleaseReset(u) ==
  /\ At(u, "reset", IF QueueUsable \/ life = "out" THEN "closed" ELSE "dead")
  /\ Follow(QueueUsable)
  /\ private' = private \ {u}
  /\ UNCHANGED <<life, poll, cdevs, hooked, flock_flag, cpu, early, overtaken>>

-----------------------------------------------------------------------------
Next ==
  \/ Insmod \/ InitStep \/ Rmmod \/ ExitStep
  \/ \E c \in Cpus :
       (\E f \in Families : HookIn(c, f)) \/ HookPush(c) \/ HookWake(c)
  \/ \E u \in Users :
       \/ OpenCheck(u) \/ OpenSet(u) \/ OpenStale(u)
       \/ Read(u) \/ Poll(u)
       \/ ReleaseFlag(u) \/ ReleaseReset(u)

Spec == Init /\ [][Next]_vars

-----------------------------------------------------------------------------
\* The types; only open files have private data, and no hook outlives the
\* module whose code it is.
TypeOK ==
  /\ life \in {"out", "live"} \cup Loading \cup Exiting
  /\ poll \in {"null", "raw", "waitqueue", "ready", "released", "freed"}
  /\ cdevs \subseteq {"live", "stale"}
  /\ hooked \subseteq Families
  /\ flock_flag \in {0, 1}
  /\ user \in [Users -> {"closed", "open_set", "open", "reset", "dead"}]
  /\ private \subseteq Users
  /\ cpu \in [Cpus -> [at : {"idle", "push", "wake"}, family : Families]]
  /\ fault \subseteq {"early", "gone"}
  /\ early \in BOOLEAN
  /\ overtaken \in BOOLEAN
  /\ \A u \in private : user[u] \in {"open", "reset"}
  /\ life = "out" => hooked = {}

(***************************************************************************)
(* Nothing that hooks and files do follows a pointer that is not there     *)
(* yet, unless some file was opened while init was still at work: it is    *)
(* the open file that lets the hooks past flock_flag.                      *)
(***************************************************************************)
EarlyOnlyByEarlyOpen == "early" \in fault => early

(***************************************************************************)
(* Nothing is used after it was freed, but for a hook that exit did not    *)
(* wait for, or what a failed load has left: its device, or a file that    *)
(* was opened before the failure.                                          *)
(***************************************************************************)
GoneOnlyByOvertaking ==
  "gone" \in fault => overtaken \/ "stale" \in cdevs

(***************************************************************************)
(* Exit starts with every file closed and then the flag is clear, so that  *)
(* no hook begins to use the queue exit is about to free, however opens    *)
(* and closes had overlapped before.                                       *)
(***************************************************************************)
ExitIsQuiet ==
  life \in Exiting =>
    flock_flag = 0 /\ \A u \in Users : user[u] = "closed"

=============================================================================
