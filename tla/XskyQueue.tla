----------------------------- MODULE XskyQueue -----------------------------
(***************************************************************************)
(* route/queue.h: the ring of QSIZE preallocated packet slots between the  *)
(* netfilter hook (xsky_queue_push, softirq context, any CPU) and the      *)
(* readers of the character device (xsky_queue_pop, process context).      *)
(*                                                                         *)
(* The spinlock covers the ring pointers, but the full test, the empty     *)
(* test and xsky_queue_reset run outside it, `have' is read and written    *)
(* back in two steps, and pop returns a pointer to a slot the next push    *)
(* may reuse.  Each of these is a step of its own here.  A packet is       *)
(* abstracted to its identity; a slot holds the size and the bytes of a    *)
(* packet, written one after the other.                                    *)
(***************************************************************************)
EXTENDS Integers, FiniteSets

CONSTANTS
  Pushers,    \* the CPUs that run the hook
  Readers,    \* the threads that read the device
  Packets,    \* the packets offered to xsky_queue_push
  Oversized,  \* those longer than XSKY_MTU
  QSIZE,      \* queue->size
  SIZE_MOD,   \* 2^w, w the width of size_t
  NoPacket,   \* the contents of a slot never written
  Free        \* the spinlock when nobody holds it

ASSUME QueueAssumption ==
  /\ QSIZE \in Nat \ {0}
  /\ SIZE_MOD \in Nat
  /\ SIZE_MOD > QSIZE
  /\ Pushers \cap Readers = {}
  /\ Oversized \subseteq Packets
  /\ NoPacket \notin Packets
  /\ Free \notin Pushers \cup Readers

VARIABLES
  slot,       \* the ring: what each xsky_queue_data holds
  begin,      \* queue->begin, the oldest packet
  end,        \* queue->end, the newest packet
  have,       \* queue->have, a size_t
  lock,       \* queue->lock, its holder or Free
  pc,         \* where each thread stands
  arg,        \* the packet a push was called with
  tmp,        \* the local `tmp' of push and pop
  reg,        \* the value of `have' loaded by `have += 1' or `have -= 1'
  handed      \* history: the bytes in the slot at the moment pop returned it

ringVars == <<slot, begin, end, have, lock>>
localVars == <<pc, arg, tmp, reg>>
vars == <<ringVars, localVars, handed>>

Slots == 0 .. QSIZE - 1
NoSlot == -1
Threads == Pushers \cup Readers

PushStates == {"idle", "push_check", "push_lock", "push_fill", "push_copy",
               "push_store", "push_ok", "push_err"}
PopStates == {"idle", "pop_check", "pop_lock", "pop_take", "pop_store",
              "popped", "pop_null"}

(***************************************************************************)
(* xsky_queue_init links the slots into a ring: `next' of a slot, and the  *)
(* head of the preallocated list.                                          *)
(***************************************************************************)
NextSlot(i) == IF i = QSIZE - 1 THEN 0 ELSE i + 1
ListHead == 0

Init ==
  /\ slot = [i \in Slots |-> [size |-> NoPacket, data |-> NoPacket]]
  /\ begin = NoSlot
  /\ end = NoSlot
  /\ have = 0
  /\ lock = Free
  /\ pc = [t \in Threads |-> "idle"]
  /\ arg = [t \in Threads |-> NoPacket]
  /\ tmp = [t \in Threads |-> NoSlot]
  /\ reg = [t \in Threads |-> 0]
  /\ handed = [r \in Readers |-> NoPacket]

Goto(t, from, to) ==
  /\ pc[t] = from
  /\ pc' = [pc EXCEPT ![t] = to]

-----------------------------------------------------------------------------
(* xsky_queue_push *)

PushCall(c, p) ==
  /\ Goto(c, "idle", "push_check")
  /\ arg' = [arg EXCEPT ![c] = p]
  /\ UNCHANGED <<ringVars, tmp, reg, handed>>

\* Faulty form: the full test is forgotten.
PushRefusesOversizedOnly(c) == arg[c] \in Oversized

\* Faulty form: the ring is taken for full one packet late.
PushRefusesLate(c) == arg[c] \in Oversized \/ have = QSIZE + 1

\* The two early returns, -1 and -2, both decided without the lock.
PushRefuses(c) == arg[c] \in Oversized \/ have = QSIZE

PushRefused(c) ==
  /\ PushRefuses(c)
  /\ Goto(c, "push_check", "push_err")
  /\ arg' = [arg EXCEPT ![c] = NoPacket]
  /\ UNCHANGED <<ringVars, tmp, reg, handed>>

PushAdmitted(c) ==
  /\ ~PushRefuses(c)
  /\ Goto(c, "push_check", "push_lock")
  /\ UNCHANGED <<ringVars, arg, tmp, reg, handed>>

\* Faulty form: the lock is not waited for.
PushLockUnguarded(c) ==
  /\ lock' = c
  /\ Goto(c, "push_lock", "push_fill")
  /\ UNCHANGED <<slot, begin, end, have, arg, tmp, reg, handed>>

PushLock(c) ==
  /\ lock = Free
  /\ lock' = c
  /\ Goto(c, "push_lock", "push_fill")
  /\ UNCHANGED <<slot, begin, end, have, arg, tmp, reg, handed>>

\* Faulty form: an empty queue restarts without moving `begin'.
PushFillKeepsBegin(c) ==
  LET s == IF have = 0 THEN ListHead ELSE NextSlot(end) IN
  /\ Goto(c, "push_fill", "push_copy")
  /\ tmp' = [tmp EXCEPT ![c] = s]
  /\ slot' = [slot EXCEPT ![s].size = arg[c]]
  /\ begin' = IF begin = NoSlot THEN s ELSE begin
  /\ UNCHANGED <<end, have, lock, arg, reg, handed>>

\* An empty queue restarts at the head of the list, else the slot after `end'.
\* `begin' is read and written under the lock only.
PushFill(c) ==
  LET s == IF have = 0 THEN ListHead ELSE NextSlot(end) IN
  /\ Goto(c, "push_fill", "push_copy")
  /\ tmp' = [tmp EXCEPT ![c] = s]
  /\ slot' = [slot EXCEPT ![s].size = arg[c]]
  /\ begin' = IF have = 0 THEN s ELSE begin
  /\ UNCHANGED <<end, have, lock, arg, reg, handed>>

\* The memcpy, `end = tmp' and the load of `have += 1'.
PushCopy(c) ==
  /\ Goto(c, "push_copy", "push_store")
  /\ slot' = [slot EXCEPT ![tmp[c]].data = arg[c]]
  /\ end' = tmp[c]
  /\ reg' = [reg EXCEPT ![c] = have]
  /\ UNCHANGED <<begin, have, lock, arg, tmp, handed>>

\* The store of `have += 1' and the unlock.
PushStore(c) ==
  /\ Goto(c, "push_store", "push_ok")
  /\ have' = (reg[c] + 1) % SIZE_MOD
  /\ lock' = Free
  /\ arg' = [arg EXCEPT ![c] = NoPacket]
  /\ tmp' = [tmp EXCEPT ![c] = NoSlot]
  /\ reg' = [reg EXCEPT ![c] = 0]
  /\ UNCHANGED <<slot, begin, end, handed>>

PushStep(c) ==
  \/ PushRefused(c)
  \/ PushAdmitted(c)
  \/ PushLock(c)
  \/ PushFill(c)
  \/ PushCopy(c)
  \/ PushStore(c)

-----------------------------------------------------------------------------
(* xsky_queue_pop *)

PopCall(r) ==
  /\ Goto(r, "idle", "pop_check")
  /\ UNCHANGED <<ringVars, arg, tmp, reg, handed>>

\* The empty test, without the lock.
PopEmpty(r) ==
  /\ have = 0
  /\ Goto(r, "pop_check", "pop_null")
  /\ UNCHANGED <<ringVars, arg, tmp, reg, handed>>

PopAdmitted(r) ==
  /\ have # 0
  /\ Goto(r, "pop_check", "pop_lock")
  /\ UNCHANGED <<ringVars, arg, tmp, reg, handed>>

PopLock(r) ==
  /\ lock = Free
  /\ lock' = r
  /\ Goto(r, "pop_lock", "pop_take")
  /\ UNCHANGED <<slot, begin, end, have, arg, tmp, reg, handed>>

\* Faulty form: `begin' is left where it was.
PopTakeInPlace(r) ==
  /\ Goto(r, "pop_take", "pop_store")
  /\ tmp' = [tmp EXCEPT ![r] = begin]
  /\ reg' = [reg EXCEPT ![r] = have]
  /\ UNCHANGED <<slot, begin, end, have, lock, arg, handed>>

\* `tmp = begin', `begin = tmp->next' and the load of `have -= 1'.
PopTake(r) ==
  /\ Goto(r, "pop_take", "pop_store")
  /\ tmp' = [tmp EXCEPT ![r] = begin]
  /\ begin' = NextSlot(begin)
  /\ reg' = [reg EXCEPT ![r] = have]
  /\ UNCHANGED <<slot, end, have, lock, arg, handed>>

\* Faulty form: the lock is kept.
PopStoreKeepsLock(r) ==
  /\ Goto(r, "pop_store", "popped")
  /\ have' = (reg[r] - 1) % SIZE_MOD
  /\ handed' = [handed EXCEPT ![r] = slot[tmp[r]].data]
  /\ reg' = [reg EXCEPT ![r] = 0]
  /\ UNCHANGED <<slot, begin, end, lock, arg, tmp>>

\* The store of `have -= 1', which wraps below zero, and the unlock.
PopStore(r) ==
  /\ Goto(r, "pop_store", "popped")
  /\ have' = (reg[r] - 1) % SIZE_MOD
  /\ lock' = Free
  /\ handed' = [handed EXCEPT ![r] = slot[tmp[r]].data]
  /\ reg' = [reg EXCEPT ![r] = 0]
  /\ UNCHANGED <<slot, begin, end, arg, tmp>>

PopStep(r) ==
  \/ PopEmpty(r)
  \/ PopAdmitted(r)
  \/ PopLock(r)
  \/ PopTake(r)
  \/ PopStore(r)

-----------------------------------------------------------------------------
(* xsky_queue_reset: one store, no lock, the ring pointers left alone. *)

Reset ==
  /\ have' = 0
  /\ UNCHANGED <<slot, begin, end, lock, localVars, handed>>

-----------------------------------------------------------------------------
(***************************************************************************)
(* The queue on its own, with any callers.  Reset is taken here only when  *)
(* no operation is in flight; chr_release does not wait for that, and      *)
(* module RouteDevice has the reset that races.                            *)
(***************************************************************************)
PushReturn(c) ==
  /\ pc[c] \in {"push_ok", "push_err"}
  /\ pc' = [pc EXCEPT ![c] = "idle"]
  /\ UNCHANGED <<ringVars, arg, tmp, reg, handed>>

PopReturn(r) ==
  /\ pc[r] \in {"popped", "pop_null"}
  /\ pc' = [pc EXCEPT ![r] = "idle"]
  /\ tmp' = [tmp EXCEPT ![r] = NoSlot]
  /\ UNCHANGED <<ringVars, arg, reg, handed>>

QuietReset ==
  /\ \A t \in Threads : pc[t] = "idle"
  /\ Reset

Next ==
  \/ \E c \in Pushers, p \in Packets : PushCall(c, p)
  \/ \E c \in Pushers : PushStep(c) \/ PushReturn(c)
  \/ \E r \in Readers : PopCall(r) \/ PopStep(r) \/ PopReturn(r)
  \/ QuietReset

Spec == Init /\ [][Next]_vars

-----------------------------------------------------------------------------
RingTypeOK ==
  /\ slot \in [Slots -> [size : Packets \cup {NoPacket},
                         data : Packets \cup {NoPacket}]]
  /\ begin \in Slots \cup {NoSlot}
  /\ end \in Slots \cup {NoSlot}
  /\ have \in 0 .. SIZE_MOD - 1
  /\ lock \in Threads \cup {Free}
  /\ arg \in [Threads -> Packets \cup {NoPacket}]
  /\ tmp \in [Threads -> Slots \cup {NoSlot}]
  /\ reg \in [Threads -> 0 .. SIZE_MOD - 1]
  /\ handed \in [Readers -> Packets \cup {NoPacket}]

TypeOK ==
  /\ RingTypeOK
  /\ pc \in [Threads -> PushStates \cup PopStates]

\* The states in which a thread is between spin_lock and spin_unlock.
InSection(t) == pc[t] \in {"push_fill", "push_copy", "push_store",
                           "pop_take", "pop_store"}

(***************************************************************************)
(* Whatever the number of CPUs and readers, however far the counter has    *)
(* drifted: once no push is between writing a slot's size and its bytes,   *)
(* every slot holds the size and the bytes of one and the same packet.     *)
(* The lock is what keeps two hooks from filling one slot together.        *)
(***************************************************************************)
SlotsWhole ==
  lock \notin Pushers => \A i \in Slots : slot[i].size = slot[i].data

(***************************************************************************)
(* With one pushing CPU the counter never exceeds the size of the ring,    *)
(* although the test that guards it is made before the lock is taken.      *)
(* With one reader it never wraps below zero either.                       *)
(***************************************************************************)
HaveBounded == have <= QSIZE

\* Slots from b to e along the ring, both included.
Span(b, e) == IF b <= e THEN e - b + 1 ELSE e - b + 1 + QSIZE

(***************************************************************************)
(* The ring pointers agree with the counter: outside the lock, a non-empty *)
(* queue has as many slots between begin and end as the counter says.      *)
(***************************************************************************)
RingShape == lock = Free /\ have # 0 => have = Span(begin, end)

(***************************************************************************)
(* With several CPUs and readers the counter overruns the ring and wraps   *)
(* below zero, but it still names the slot after `end' modulo the ring, as *)
(* long as the ring divides 2^w (256 does).                                *)
(***************************************************************************)
RingCongruent ==
  lock = Free /\ have # 0 => (begin + have - 1 - end) % QSIZE = 0

(***************************************************************************)
(* The abstract queue: the packets from the oldest on.  A pop counts when  *)
(* it stores the counter, so until then its slot is still the oldest.      *)
(***************************************************************************)
Oldest ==
  IF \E r \in Readers : pc[r] = "pop_store"
  THEN tmp[CHOOSE r \in Readers : pc[r] = "pop_store"]
  ELSE begin

Waiting == [i \in 1 .. have |-> slot[(Oldest + i - 1) % QSIZE].data]

Fifo == INSTANCE BoundedFifo WITH
  Takers <- Readers, Capacity <- QSIZE, queue <- Waiting

(***************************************************************************)
(* With one pushing CPU and one reader, the ring implements the bounded    *)
(* FIFO: pop hands out the packets in push order, none twice, none lost.   *)
(***************************************************************************)
ImplementsFifo == Fifo!Spec

=============================================================================
