-------------------------- MODULE RouteLifeProofs --------------------------
(***************************************************************************)
(* Proofs about loading and unloading the module of route/main.c, for any  *)
(* number of CPUs and of threads that use the device.                      *)
(***************************************************************************)
EXTENDS RouteLife, TLAPS

AllClosed == \A u \in Users : user[u] = "closed"

(***************************************************************************)
(* What the step of init or exit that comes next says of what `poll'       *)
(* points to, of the hooks and of the device.                              *)
(***************************************************************************)
Staged ==
  /\ life \in {"create_dev", "class", "hook4", "hook6", "kmalloc"} => poll = "null"
  /\ life = "waitqueue" => poll = "raw"
  /\ life = "queue" => poll = "waitqueue"
  /\ life \in {"live", "delete_dev", "unhook4", "unhook6", "release"} => poll = "ready"
  /\ life = "kfree" => poll = "released"
  /\ life = "unhook6" => "ipv4" \notin hooked
  /\ life \in {"create_dev", "class", "hook4", "release", "kfree", "out"} => hooked = {}
  /\ life \in {"create_dev", "unhook4", "unhook6", "release", "kfree", "out"}
       => "live" \notin cdevs

\* Whose flag it is: a file that is open keeps it set.
FlagOwned == flock_flag = 1 => \E u \in Users : user[u] = "open"

\* No file is in use before there is a device, nor once exit has begun, nor
\* after that but for a device that a failed load has left.
Unused ==
  /\ life \in {"create_dev"} \cup Exiting => AllClosed
  /\ life = "out" => AllClosed \/ "stale" \in cdevs

\* A hook that runs is registered, or exit overtook it.
Registered ==
  \A c \in Cpus : cpu[c].at # "idle" => cpu[c].family \in hooked \/ overtaken

\* Before init is done only a file opened early can be in use or let hooks in;
\* one without private data was opened early.
EarlyUse ==
  /\ life \in Loading => \/ early
                         \/ /\ \A u \in Users : user[u] \in {"closed", "open_set"}
                            /\ \A c \in Cpus : cpu[c].at = "idle"
  /\ \A u \in Users : user[u] = "open" /\ u \notin private => early

IInv == TypeOK /\ Staged /\ FlagOwned /\ Unused /\ Registered /\ EarlyUse
          /\ EarlyOnlyByEarlyOpen /\ GoneOnlyByOvertaking /\ ExitIsQuiet

LEMMA InitIInv == Init => IInv
<1> SUFFICES ASSUME Init PROVE IInv
  OBVIOUS
<1>1. TypeOK
  BY DEF Init, TypeOK, Families, NoHook
<1>2. Staged /\ Unused /\ Registered /\ EarlyUse
  BY DEF Init, Staged, Unused, AllClosed, Registered, EarlyUse, NoHook,
         Loading, Exiting
<1>3. FlagOwned /\ EarlyOnlyByEarlyOpen /\ GoneOnlyByOvertaking /\ ExitIsQuiet
  BY DEF Init, FlagOwned, EarlyOnlyByEarlyOpen, GoneOnlyByOvertaking, ExitIsQuiet,
         Exiting
<1> QED
  BY <1>1, <1>2, <1>3 DEF IInv

-----------------------------------------------------------------------------
USE DEF Families, NoHook, Loading, Exiting, history, others, AllClosed

LEMMA InsmodKeeps == IInv /\ Insmod => IInv'
BY DEF Insmod, IInv, TypeOK, Staged, FlagOwned, Unused, Registered,
       EarlyUse, EarlyOnlyByEarlyOpen, GoneOnlyByOvertaking, ExitIsQuiet

LEMMA InitStepKeeps == IInv /\ InitStep => IInv'
<1> SUFFICES ASSUME IInv, InitStep PROVE IInv'
  OBVIOUS
<1> USE DEF IInv, TypeOK, Staged, FlagOwned, Unused, Registered,
       EarlyUse, EarlyOnlyByEarlyOpen, GoneOnlyByOvertaking, ExitIsQuiet
<1>1. CASE CreateDev
  BY <1>1 DEF CreateDev
<1>2. CASE CreateClass
  BY <1>2 DEF CreateClass
<1>3. CASE ClassFails
  BY <1>3 DEF ClassFails
<1>4. CASE Register("hook4", "ipv4", "hook6")
  BY <1>4 DEF Register
<1>5. CASE Register("hook6", "ipv6", "kmalloc")
  BY <1>5 DEF Register
<1>6. CASE Prepare("kmalloc", "raw", "waitqueue")
  BY <1>6 DEF Prepare
<1>7. CASE Prepare("waitqueue", "waitqueue", "queue")
  BY <1>7 DEF Prepare
<1>8. CASE Prepare("queue", "ready", "live")
  BY <1>8 DEF Prepare
<1> QED
  BY <1>1, <1>2, <1>3, <1>4, <1>5, <1>6, <1>7, <1>8 DEF InitStep

\* rmmod finds every file closed, and with that the flag clear.
LEMMA RmmodKeeps == IInv /\ Rmmod => IInv'
BY DEF Rmmod, IInv, TypeOK, Staged, FlagOwned, Unused, Registered,
       EarlyUse, EarlyOnlyByEarlyOpen, GoneOnlyByOvertaking, ExitIsQuiet

LEMMA ExitStepKeeps == IInv /\ ExitStep => IInv'
<1> SUFFICES ASSUME IInv, ExitStep PROVE IInv'
  OBVIOUS
<1> USE DEF IInv, TypeOK, Staged, FlagOwned, Unused, Registered,
       EarlyUse, EarlyOnlyByEarlyOpen, GoneOnlyByOvertaking, ExitIsQuiet
<1>1. CASE DeleteDev
  BY <1>1 DEF DeleteDev
<1>2. CASE Unregister("unhook4", "ipv4", "unhook6")
  BY <1>2 DEF Unregister
<1>3. CASE Unregister("unhook6", "ipv6", "release")
  <2>1. hooked' = {}
    BY <1>3 DEF Unregister
  <2> QED
    BY <1>3, <2>1 DEF Unregister
<1>4. CASE Prepare("release", "released", "kfree")
  BY <1>4 DEF Prepare
<1>5. CASE Prepare("kfree", "freed", "out")
  BY <1>5 DEF Prepare
<1> QED
  BY <1>1, <1>2, <1>3, <1>4, <1>5 DEF ExitStep

-----------------------------------------------------------------------------
\* Which pointers are bad at which stage.
BadPointers ==
  /\ ~QueueUsable /\ Blame = "early" => life \in Loading
  /\ ~QueueUsable /\ Blame = "gone" => life \in {"kfree", "out"}
  /\ ~InqUsable => ~QueueUsable

LEMMA Pointers == IInv => BadPointers
BY DEF IInv, TypeOK, Staged, BadPointers, QueueUsable, InqUsable, Blame

LEMMA HookKeeps ==
  ASSUME IInv, NEW c \in Cpus,
         (\E f \in Families : HookIn(c, f)) \/ HookPush(c) \/ HookWake(c)
  PROVE  IInv'
<1>1. BadPointers
  BY Pointers
<1> USE DEF IInv, TypeOK, BadPointers
<1>2. CASE \E f \in Families : HookIn(c, f)
  <2>1. PICK f \in Families : HookIn(c, f)
    BY <1>2
  <2>2. EarlyUse'
    BY <2>1 DEF HookIn, FlagOwned, EarlyUse
  <2> QED
    BY <2>1, <2>2 DEF HookIn, Staged, FlagOwned, Unused, Registered,
          EarlyOnlyByEarlyOpen, GoneOnlyByOvertaking, ExitIsQuiet
<1>3. CASE HookPush(c) \/ HookWake(c)
  <2>1. /\ UNCHANGED <<life, poll, cdevs, hooked, flock_flag, user, private,
                      early, overtaken>>
        /\ cpu' \in [Cpus -> [at : {"idle", "push", "wake"}, family : Families]]
        /\ cpu[c].at # "idle"
        /\ \A d \in Cpus : cpu'[d].at # "idle" =>
              cpu[d].at # "idle" /\ cpu'[d].family = cpu[d].family
    BY <1>3 DEF HookPush, HookWake
  <2>2. fault' = fault \/ (~QueueUsable /\ fault' = fault \cup {Blame})
    BY <1>1, <1>3 DEF HookPush, HookWake, Follow
  <2>3. "early" \in fault' => early
    BY <1>1, <2>1, <2>2 DEF EarlyUse, EarlyOnlyByEarlyOpen
  <2>4. "gone" \in fault' => overtaken \/ "stale" \in cdevs
    BY <1>1, <2>1, <2>2 DEF Registered, Staged, GoneOnlyByOvertaking
  <2>5. fault' \subseteq {"early", "gone"}
    BY <2>2 DEF Blame
  <2> QED
    BY <2>1, <2>3, <2>4, <2>5 DEF Staged, FlagOwned, Unused, Registered, EarlyUse,
          EarlyOnlyByEarlyOpen, GoneOnlyByOvertaking, ExitIsQuiet
<1> QED
  BY <1>2, <1>3

-----------------------------------------------------------------------------
LEMMA OpenKeeps ==
  ASSUME IInv, NEW u \in Users, OpenCheck(u) \/ OpenSet(u) \/ OpenStale(u)
  PROVE  IInv'
<1> USE DEF IInv, TypeOK, Staged, Unused, Registered, EarlyUse,
            EarlyOnlyByEarlyOpen, GoneOnlyByOvertaking, ExitIsQuiet
<1>1. CASE OpenCheck(u)
  BY <1>1 DEF OpenCheck, At, FlagOwned
<1>2. CASE OpenSet(u)
  <2>1. user'[u] = "open"
    BY <1>2 DEF OpenSet, At
  <2>2. user[u] = "open_set" /\ life \notin {"create_dev"} \cup Exiting
    BY <1>2 DEF OpenSet, At
  <2>3. fault' = IF life # "out" THEN fault ELSE fault \cup {"gone"}
    BY <1>2 DEF OpenSet, Follow, Blame
  <2> QED
    BY <1>2, <2>1, <2>2, <2>3 DEF OpenSet, At, FlagOwned
<1>3. CASE OpenStale(u)
  BY <1>3 DEF OpenStale, FlagOwned
<1> QED
  BY <1>1, <1>2, <1>3

\* Reading, polling and closing follow what an open file may follow.
LEMMA UseKeeps ==
  ASSUME IInv, NEW u \in Users,
         Read(u) \/ Poll(u) \/ ReleaseFlag(u) \/ ReleaseReset(u)
  PROVE  IInv'
<1>1. BadPointers
  BY Pointers
<1> USE DEF IInv, TypeOK, BadPointers
<1>2. user[u] \in {"open", "reset"}
  BY DEF Read, Poll, ReleaseFlag, ReleaseReset, At
<1>3. /\ ~QueueUsable /\ Blame = "early" => early
      /\ ~QueueUsable /\ Blame = "gone" => "stale" \in cdevs
  BY <1>1, <1>2 DEF EarlyUse, Unused
<1>4. CASE Read(u) \/ Poll(u)
  <2>1. \/ fault' = fault
        \/ fault' = fault \cup {"early"} /\ early
        \/ ~QueueUsable /\ fault' = fault \cup {Blame}
    BY <1>1, <1>4 DEF Read, Poll, Follow, EarlyUse
  <2>2. UNCHANGED <<life, poll, cdevs, hooked, flock_flag, user, private, cpu,
                    early, overtaken>>
    BY <1>4 DEF Read, Poll
  <2>3. Staged' /\ FlagOwned' /\ Unused' /\ Registered' /\ EarlyUse' /\ ExitIsQuiet'
    BY <2>2 DEF Staged, FlagOwned, Unused, Registered, EarlyUse, ExitIsQuiet
  <2>4. EarlyOnlyByEarlyOpen' /\ GoneOnlyByOvertaking' /\ fault' \subseteq {"early", "gone"}
    BY <1>3, <2>1, <2>2 DEF EarlyOnlyByEarlyOpen, GoneOnlyByOvertaking, Blame
  <2> QED
    BY <2>2, <2>3, <2>4
<1>5. CASE ReleaseFlag(u)
  BY <1>5 DEF ReleaseFlag, At, Staged, FlagOwned, Unused, Registered, EarlyUse,
          EarlyOnlyByEarlyOpen, GoneOnlyByOvertaking, ExitIsQuiet
<1>6. CASE ReleaseReset(u)
  <2>1. fault' = fault \/ (~QueueUsable /\ fault' = fault \cup {Blame})
    BY <1>6 DEF ReleaseReset, Follow
  <2>2. /\ user[u] = "reset" /\ user'[u] \in {"closed", "dead"}
        /\ user' \in [Users -> {"closed", "open_set", "open", "reset", "dead"}]
        /\ \A v \in Users \ {u} : user'[v] = user[v]
        /\ life = "out" => user'[u] = "closed"
    BY <1>6 DEF ReleaseReset, At
  <2>3. UNCHANGED <<life, poll, cdevs, hooked, flock_flag, cpu, early, overtaken>>
        /\ private' = private \ {u}
    BY <1>6 DEF ReleaseReset
  <2>4. FlagOwned' /\ Unused' /\ EarlyUse' /\ ExitIsQuiet'
    BY <2>2, <2>3 DEF FlagOwned, Unused, EarlyUse, ExitIsQuiet
  <2>5. EarlyOnlyByEarlyOpen' /\ GoneOnlyByOvertaking' /\ fault' \subseteq {"early", "gone"}
    BY <1>3, <2>1, <2>3 DEF EarlyOnlyByEarlyOpen, GoneOnlyByOvertaking, Blame
  <2> QED
    BY <2>2, <2>3, <2>4, <2>5 DEF Staged, Registered
<1> QED
  BY <1>4, <1>5, <1>6

-----------------------------------------------------------------------------
LEMMA Inductive == Spec => []IInv
<1>1. IInv /\ UNCHANGED vars => IInv'
  BY DEF vars, IInv, TypeOK, Staged, FlagOwned, Unused, Registered, EarlyUse,
         EarlyOnlyByEarlyOpen, GoneOnlyByOvertaking, ExitIsQuiet
<1>2. IInv /\ [Next]_vars => IInv'
  BY <1>1, InsmodKeeps, InitStepKeeps, RmmodKeeps, ExitStepKeeps, HookKeeps,
     OpenKeeps, UseKeeps DEF Next
<1> QED
  BY InitIInv, <1>2, PTL DEF Spec

(***************************************************************************)
(* Whatever hooks and programs do while the module is loaded, no pointer   *)
(* is followed before it is there unless a file was opened during init.    *)
(***************************************************************************)
THEOREM NeverTooEarly == Spec => []EarlyOnlyByEarlyOpen
<1>1. IInv => EarlyOnlyByEarlyOpen
  BY DEF IInv
<1> QED
  BY <1>1, Inductive, PTL

(***************************************************************************)
(* Nothing is used after it was freed unless exit overtook a hook or a     *)
(* load had failed with its device registered.                             *)
(***************************************************************************)
THEOREM NeverTooLate == Spec => []GoneOnlyByOvertaking
<1>1. IInv => GoneOnlyByOvertaking
  BY DEF IInv
<1> QED
  BY <1>1, Inductive, PTL

(***************************************************************************)
(* Exit begins with every file closed and the flag clear.                  *)
(***************************************************************************)
THEOREM ExitFindsQuiet == Spec => []ExitIsQuiet
<1>1. IInv => ExitIsQuiet
  BY DEF IInv
<1> QED
  BY <1>1, Inductive, PTL

=============================================================================
