---------------------------- MODULE RouteDevice ----------------------------
(***************************************************************************)
(* route/main.c around the packet queue: the netfilter hook that captures  *)
(* UDP packets (nf_handle_in and the two xsky_push_*_to_user) and the file *)
(* operations of the character device through which one user program reads *)
(* them (chr_open, chr_poll, chr_read, chr_release).                       *)
(*                                                                         *)
(* A member of Pushers is a CPU running the hook in softirq context.  A    *)
(* member of Readers is a user thread with a file of its own.  Whether a   *)
(* packet passes the tunnel and subnet tests is left open here: module     *)
(* UdpFilter has those.  A packet the hook accepts at once changes nothing *)
(* and is a stuttering step.                                               *)
(***************************************************************************)
EXTENDS XskyQueue

CONSTANTS
  RunsOn,     \* the CPU each reader thread runs on
  NoSize      \* a field of a read that has not been produced yet

VARIABLES
  flock_flag, \* the device is open (and the hook captures)
  fd,         \* the readers that hold an open file of the device
  inq,        \* the wait queue poll->inq: each reader's entry
  got,        \* what the current or last chr_read of a reader produced
  late,       \* history: the last reset met a hook in flight or an open file
  shared      \* history: two files have been open at once, and not since
              \* been closed by a reset with none beside it

deviceVars == <<flock_flag, fd, inq, got, late, shared>>
allVars == <<vars, deviceVars>>

HookStates == PushStates \cup {"filter"}
FileStates == PopStates \cup {"open_set", "reset", "poll_check", "asleep",
                              "copying", "copied"}

NothingRead == [len |-> NoSize, data |-> NoPacket, ret |-> NoSize]

DeviceInit ==
  /\ Init
  /\ flock_flag = 0
  /\ fd = {}
  /\ inq = [r \in Readers |-> "none"]
  /\ got = [r \in Readers |-> NothingRead]
  /\ late = FALSE
  /\ shared = FALSE

-----------------------------------------------------------------------------
(* The hook, on CPU c *)

\* nf_handle_in finds the device open; the packet is UDP.
HookIn(c, p) ==
  /\ flock_flag = 1
  /\ Goto(c, "idle", "filter")
  /\ arg' = [arg EXCEPT ![c] = p]
  /\ UNCHANGED <<ringVars, tmp, reg, handed, deviceVars>>

\* The packet goes to the tunnel or comes from another subnet: NF_ACCEPT.
HookAccept(c) ==
  /\ Goto(c, "filter", "idle")
  /\ arg' = [arg EXCEPT ![c] = NoPacket]
  /\ UNCHANGED <<ringVars, tmp, reg, handed, deviceVars>>

HookPush(c) ==
  /\ Goto(c, "filter", "push_check")
  /\ UNCHANGED <<ringVars, arg, tmp, reg, handed, deviceVars>>

\* xsky_queue_push failed: the packet is accepted and no reader is woken.
HookRefused(c) ==
  /\ Goto(c, "push_err", "idle")
  /\ UNCHANGED <<ringVars, arg, tmp, reg, handed, deviceVars>>

WakeUp == [r \in Readers |-> IF inq[r] = "waiting" THEN "woken" ELSE inq[r]]

\* Faulty form: the packet is queued and nobody is told.
HookQueuedSilently(c) ==
  /\ Goto(c, "push_ok", "idle")
  /\ UNCHANGED <<ringVars, arg, tmp, reg, handed, deviceVars>>

\* wake_up_interruptible wakes everyone on the queue; the packet is dropped.
HookQueued(c) ==
  /\ Goto(c, "push_ok", "idle")
  /\ inq' = WakeUp
  /\ UNCHANGED <<ringVars, arg, tmp, reg, handed, flock_flag, fd, got, late, shared>>

HookStep(c) ==
  \/ HookAccept(c)
  \/ HookPush(c)
  \/ PushStep(c) /\ UNCHANGED deviceVars
  \/ HookRefused(c)
  \/ HookQueued(c)

-----------------------------------------------------------------------------
(* chr_open and chr_release, in thread r *)

\* The test of flock_flag (-EBUSY otherwise) and its assignment are two steps.
OpenCheck(r) ==
  /\ r \notin fd
  /\ flock_flag = 0
  /\ Goto(r, "idle", "open_set")
  /\ UNCHANGED <<ringVars, arg, tmp, reg, handed, deviceVars>>

OpenSet(r) ==
  /\ Goto(r, "open_set", "idle")
  /\ flock_flag' = 1
  /\ fd' = fd \cup {r}
  /\ shared' = (shared \/ fd # {})
  /\ UNCHANGED <<ringVars, arg, tmp, reg, handed, inq, got, late>>

\* Faulty form: the flag stays set.
ReleaseFlagKept(r) ==
  /\ r \in fd
  /\ Goto(r, "idle", "reset")
  /\ UNCHANGED <<ringVars, arg, tmp, reg, handed, deviceVars>>

\* The flag is cleared first, then the queue; a hook may run in between.
ReleaseFlag(r) ==
  /\ r \in fd
  /\ Goto(r, "idle", "reset")
  /\ flock_flag' = 0
  /\ UNCHANGED <<ringVars, arg, tmp, reg, handed, fd, inq, got, late, shared>>

\* Faulty form: the queue is left as it is.
ReleaseResetSkipped(r) ==
  /\ Goto(r, "reset", "idle")
  /\ fd' = fd \ {r}
  /\ late' = (fd # {r} \/ \E c \in Pushers : pc[c] # "idle")
  /\ shared' = (fd # {r})
  /\ UNCHANGED <<ringVars, arg, tmp, reg, handed, flock_flag, inq, got>>

ReleaseReset(r) ==
  /\ Goto(r, "reset", "idle")
  /\ have' = 0
  /\ fd' = fd \ {r}
  /\ late' = (fd # {r} \/ \E c \in Pushers : pc[c] # "idle")
  /\ shared' = (fd # {r})
  /\ UNCHANGED <<slot, begin, end, lock, arg, tmp, reg, handed,
                 flock_flag, inq, got>>

-----------------------------------------------------------------------------
(* chr_poll under poll(2), in thread r *)

\* poll_wait puts the thread on the queue before `have' is looked at.
PollWait(r) ==
  /\ r \in fd
  /\ Goto(r, "idle", "poll_check")
  /\ inq' = [inq EXCEPT ![r] = "waiting"]
  /\ UNCHANGED <<ringVars, arg, tmp, reg, handed, flock_flag, fd, got, late, shared>>

\* POLLIN: poll(2) returns and leaves the queue.
PollReady(r) ==
  /\ have # 0
  /\ Goto(r, "poll_check", "idle")
  /\ inq' = [inq EXCEPT ![r] = "none"]
  /\ UNCHANGED <<ringVars, arg, tmp, reg, handed, flock_flag, fd, got, late, shared>>

PollSleep(r) ==
  /\ have = 0
  /\ Goto(r, "poll_check", "asleep")
  /\ UNCHANGED <<ringVars, arg, tmp, reg, handed, deviceVars>>

\* Awake, poll(2) calls chr_poll again; its entry stays on the queue.
PollWoken(r) ==
  /\ inq[r] = "woken"
  /\ Goto(r, "asleep", "poll_check")
  /\ inq' = [inq EXCEPT ![r] = "waiting"]
  /\ UNCHANGED <<ringVars, arg, tmp, reg, handed, flock_flag, fd, got, late, shared>>

\* poll(2) times out or a signal ends it.
PollTimeout(r) ==
  /\ Goto(r, "asleep", "idle")
  /\ inq' = [inq EXCEPT ![r] = "none"]
  /\ UNCHANGED <<ringVars, arg, tmp, reg, handed, flock_flag, fd, got, late, shared>>

-----------------------------------------------------------------------------
(* chr_read, in thread r: it never blocks *)

ReadCall(r) ==
  /\ r \in fd
  /\ got' = [got EXCEPT ![r] = NothingRead]
  /\ PopCall(r)
  /\ UNCHANGED <<flock_flag, fd, inq, late, shared>>

\* -EAGAIN
ReadEmpty(r) ==
  /\ Goto(r, "pop_null", "idle")
  /\ UNCHANGED <<ringVars, arg, tmp, reg, handed, deviceVars>>

\* The popped slot belongs to the ring again while its size is read, its
\* bytes are copied and its size is read once more for the return value.
CopyLen(r) ==
  /\ Goto(r, "popped", "copying")
  /\ got' = [got EXCEPT ![r].len = slot[tmp[r]].size]
  /\ UNCHANGED <<ringVars, arg, tmp, reg, handed, flock_flag, fd, inq, late, shared>>

CopyData(r) ==
  /\ Goto(r, "copying", "copied")
  /\ got' = [got EXCEPT ![r].data = slot[tmp[r]].data]
  /\ UNCHANGED <<ringVars, arg, tmp, reg, handed, flock_flag, fd, inq, late, shared>>

ReadReturn(r) ==
  /\ Goto(r, "copied", "idle")
  /\ got' = [got EXCEPT ![r].ret = slot[tmp[r]].size]
  /\ tmp' = [tmp EXCEPT ![r] = NoSlot]
  /\ UNCHANGED <<ringVars, arg, reg, handed, flock_flag, fd, inq, late, shared>>

\* copy_to_user faults: -EFAULT, and the packet is gone.
ReadFault(r) ==
  /\ Goto(r, "copying", "idle")
  /\ tmp' = [tmp EXCEPT ![r] = NoSlot]
  /\ UNCHANGED <<ringVars, arg, reg, handed, deviceVars>>

-----------------------------------------------------------------------------
\* What the user program, its timers and signals decide.
FileCall(r) ==
  \/ OpenCheck(r)
  \/ ReleaseFlag(r)
  \/ PollWait(r)
  \/ PollTimeout(r)
  \/ ReadCall(r)

\* What goes on by itself once called.
FileStep(r) ==
  \/ OpenSet(r)
  \/ ReleaseReset(r)
  \/ PollReady(r)
  \/ PollSleep(r)
  \/ PollWoken(r)
  \/ PopStep(r) /\ UNCHANGED deviceVars
  \/ ReadEmpty(r)
  \/ CopyLen(r)
  \/ CopyData(r)
  \/ ReadReturn(r)
  \/ ReadFault(r)

\* Softirqs come before threads: a hook that runs, or spins, on a CPU keeps
\* the thread of that CPU from running, spinlock held or not.
CanRun(r) == RunsOn[r] \in Pushers => pc[RunsOn[r]] = "idle"

DeviceNext ==
  \/ \E c \in Pushers, p \in Packets : HookIn(c, p)
  \/ \E c \in Pushers : HookStep(c)
  \/ \E r \in Readers : CanRun(r) /\ (FileCall(r) \/ FileStep(r))

DeviceSpec == DeviceInit /\ [][DeviceNext]_allVars

(***************************************************************************)
(* Kernel spinlocks are queued, so a CPU or thread that waits for a lock   *)
(* set free again and again gets it; ksoftirqd gives a thread its turn on  *)
(* a CPU flooded with packets.  Both ask for strong fairness.  Nobody is   *)
(* obliged to open, read, poll or close, and no packet has to arrive.      *)
(***************************************************************************)
DeviceFairness ==
  /\ \A c \in Pushers : SF_allVars(HookStep(c))
  /\ \A r \in Readers : SF_allVars(CanRun(r) /\ FileStep(r))

FairDeviceSpec == DeviceSpec /\ DeviceFairness

-----------------------------------------------------------------------------
DeviceTypeOK ==
  /\ RingTypeOK
  /\ \A c \in Pushers : pc[c] \in HookStates
  /\ \A r \in Readers : pc[r] \in FileStates
  /\ flock_flag \in {0, 1}
  /\ fd \subseteq Readers
  /\ inq \in [Readers -> {"none", "waiting", "woken"}]
  /\ got \in [Readers -> [len : Packets \cup {NoPacket, NoSize},
                          data : Packets \cup {NoPacket},
                          ret : Packets \cup {NoPacket, NoSize}]]

(***************************************************************************)
(* A reader that sleeps in poll(2) while packets wait has been told, or    *)
(* the hook that queued the packet is on its way to telling it: chr_poll   *)
(* joins the wait queue before it looks at `have', and every hook wakes    *)
(* the queue after its push, though neither takes a lock.  With two files  *)
(* open a read of the other may put `have' back after a reset and tell     *)
(* nobody.                                                                 *)
(***************************************************************************)
NoLostWakeup ==
  \A r \in Readers :
    pc[r] = "asleep" /\ have # 0 /\ inq[r] = "waiting"
      => \E c \in Pushers : pc[c] = "push_ok"

(***************************************************************************)
(* The device is never busy with nobody holding it: -EBUSY implies an open *)
(* file, whatever opens and closes overlap.                                *)
(***************************************************************************)
NoStuckBusy == flock_flag = 1 => fd # {}

(***************************************************************************)
(* A program never gets a packet captured for an earlier one, unless a     *)
(* hook was in flight when the device was reset: once everything is closed *)
(* and quiet, a reset that met no hook has left the queue empty.           *)
(***************************************************************************)
ClosedDeviceDrained ==
  fd = {} /\ ~late /\ (\A t \in Threads : pc[t] = "idle") => have = 0

(***************************************************************************)
(* With one CPU, `have' and the ring pointers go out of step only when a   *)
(* reset overlaps a hook (its store is then lost, or the hook counts on    *)
(* from zero behind an `end' that is somewhere in the ring), or when two   *)
(* programs, both past the test of chr_open, read at once.  The next reset *)
(* that is alone puts the ring right again.                                *)
(***************************************************************************)
AlignedUnlessLate == ~late /\ ~shared => RingShape

(***************************************************************************)
(* With any number of CPUs and readers `have' overruns the ring and wraps  *)
(* below zero, but modulo the ring it still agrees with begin and end,     *)
(* unless a reset overlapped a hook or a read.                             *)
(***************************************************************************)
CongruentUnlessLate == ~late => RingCongruent

\* The slots between begin and end, and those being filled.
InUse ==
  {(begin + i) % QSIZE : i \in 0 .. have - 1} \cup {tmp[c] : c \in Pushers}

(***************************************************************************)
(* The slot chr_read copies from stays intact until the ring takes it back *)
(* into use.  That may be at the next push: an empty ring restarts at the  *)
(* head of the list, which may be the slot being copied.                   *)
(***************************************************************************)
CopyStable ==
  \A r \in Readers :
    /\ pc[r] \in {"popped", "copying", "copied"}
    /\ tmp[r] \notin InUse
    /\ ~late
    /\ ~shared
    => slot[tmp[r]] = [size |-> handed[r], data |-> handed[r]]

(***************************************************************************)
(* A hook that spins for the lock on the CPU of the thread that holds it:  *)
(* spin_lock in chr_read's context does not keep softirqs away, and the    *)
(* holder never runs again.                                                *)
(***************************************************************************)
SelfDeadlocked ==
  \E r \in Readers :
    lock = r /\ RunsOn[r] \in Pushers /\ pc[RunsOn[r]] = "push_lock"

(***************************************************************************)
(* Every hook ends with a verdict, unless a CPU deadlocks on its own       *)
(* reader.                                                                 *)
(***************************************************************************)
HookReturns ==
  \A c \in Pushers : pc[c] # "idle" ~> pc[c] = "idle" \/ SelfDeadlocked

\* A reader that sleeps while packets wait wakes up without its timeout.
SleeperWoken ==
  \A r \in Readers :
    pc[r] = "asleep" /\ have # 0 ~> pc[r] # "asleep" \/ SelfDeadlocked

=============================================================================
