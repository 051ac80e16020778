------------------------- MODULE RouteDeviceProofs -------------------------
(***************************************************************************)
(* Proofs about route/queue.h and the capture device of route/main.c for   *)
(* every ring size and word size and any number of CPUs, readers, programs *)
(* and packets.                                                            *)
(*                                                                         *)
(* The first part is about module XskyQueue alone.  What a step of push or *)
(* pop keeps is stated apart from who calls it: module RouteDevice, the    *)
(* second part, has other callers, and a reset that races.                 *)
(***************************************************************************)
EXTENDS RouteDevice, Sequences, TLAPS


\* From the tests that are made without the lock to the unlock.
PushInner == {"push_lock", "push_fill", "push_copy", "push_store"}
PopInner == {"pop_lock", "pop_take", "pop_store"}

\* Where a thread can stand, in the ring or around it (module RouteDevice).
States == PushStates \cup PopStates \cup
          {"filter", "open_set", "reset", "poll_check", "asleep", "copying", "copied"}

Typed == RingTypeOK /\ pc \in [Threads -> States]

\* A CPU only runs push, a reader only pop.
Roles ==
  /\ \A c \in Pushers : pc[c] \notin PopInner \cup {"popped"}
  /\ \A r \in Readers : pc[r] \notin PushInner

\* The holder of the lock is the one thread inside the section.
Exclusive == \A t \in Threads : InSection(t) <=> lock = t

\* The ring pointers have been set by the time anything depends on them.
Begun ==
  /\ have # 0 => begin \in Slots
  /\ \A t \in Threads :
       pc[t] \in {"push_copy", "push_store", "pop_lock", "pop_take", "pop_store"}
         => begin \in Slots
  /\ \A t \in Threads :
       pc[t] \in {"push_copy", "push_store", "pop_store", "popped"}
         => tmp[t] \in Slots

\* A slot with the size of one packet and the bytes of another is being filled,
\* by a push that has stored its size already.
Filling ==
  /\ \A i \in Slots :
       \/ slot[i].size = slot[i].data
       \/ \E c \in Pushers : pc[c] = "push_copy" /\ tmp[c] = i
  /\ \A c \in Pushers : pc[c] = "push_copy" => slot[tmp[c]].size = arg[c]

IInv == Typed /\ Roles /\ Exclusive /\ Begun /\ Filling

(***************************************************************************)
(* The steps that are not the ring's: a thread calls, returns, or does     *)
(* something else.                                                         *)
(***************************************************************************)
Outside(t) ==
  /\ UNCHANGED <<ringVars, reg, handed>>
  /\ pc[t] \notin PushInner \cup PopInner
  /\ pc'[t] \notin PushInner \cup PopInner \cup {"popped"}
  /\ \A u \in Threads \ {t} : pc'[u] = pc[u] /\ tmp'[u] = tmp[u] /\ arg'[u] = arg[u]
  /\ pc' \in [Threads -> States]
  /\ tmp' \in [Threads -> Slots \cup {NoSlot}]
  /\ t \in Pushers => tmp' = tmp
  /\ arg' \in [Threads -> Packets \cup {NoPacket}]

\* A reset, whatever the others are doing, from outside push and pop.
Cleared ==
  /\ have' = 0
  /\ UNCHANGED <<slot, begin, end, lock, arg, tmp, reg, handed>>
  /\ pc' \in [Threads -> States]
  /\ \A t \in Threads :
       \/ pc'[t] = pc[t]
       \/ pc[t] \notin PushInner \cup PopInner /\ pc'[t] = "idle"

QueueStep ==
  \/ \E c \in Pushers : PushStep(c)
  \/ \E r \in Readers : PopStep(r)
  \/ \E t \in Threads : Outside(t)
  \/ UNCHANGED vars

USE DEF Slots, NoSlot, Threads, PushInner, PopInner, ringVars, localVars, vars

-----------------------------------------------------------------------------
\* What the successor in the ring and the size_t arithmetic return.
LEMMA NextSlotType == \A i \in Slots \cup {NoSlot} : NextSlot(i) \in Slots
BY QueueAssumption DEF NextSlot

LEMMA ModType == \A n \in Int : n % SIZE_MOD \in 0 .. SIZE_MOD - 1
BY QueueAssumption

LEMMA InitIInv == Init => IInv
BY QueueAssumption
DEF Init, IInv, Typed, RingTypeOK, States, PushStates, Roles, Exclusive, Begun, Filling, InSection

\* One step per operation of push, one below it per conjunct.
LEMMA PushKeepsIInv == ASSUME IInv, NEW c \in Pushers, PushStep(c) PROVE IInv'
<1> USE QueueAssumption DEF IInv, Goto
<1>1. CASE PushRefused(c)
  <2>1. Typed'
    BY <1>1 DEF PushRefused, Typed, RingTypeOK, States, PushStates, PopStates
  <2>2. Roles'
    BY <1>1 DEF PushRefused, Typed, RingTypeOK, Roles
  <2>3. Exclusive'
    BY <1>1 DEF PushRefused, Typed, RingTypeOK, Exclusive, InSection
  <2>4. Begun'
    BY <1>1 DEF PushRefused, Typed, RingTypeOK, Begun
  <2>5. Filling'
    BY <1>1 DEF PushRefused, Typed, RingTypeOK, Begun, Exclusive, InSection, Filling
  <2> QED BY <2>1, <2>2, <2>3, <2>4, <2>5
<1>2. CASE PushAdmitted(c)
  <2>1. Typed'
    BY <1>2 DEF PushAdmitted, Typed, RingTypeOK, States, PushStates, PopStates
  <2>2. Roles'
    BY <1>2 DEF PushAdmitted, Typed, RingTypeOK, Roles
  <2>3. Exclusive'
    BY <1>2 DEF PushAdmitted, Typed, RingTypeOK, Exclusive, InSection
  <2>4. Begun'
    BY <1>2 DEF PushAdmitted, Typed, RingTypeOK, Begun
  <2>5. Filling'
    BY <1>2 DEF PushAdmitted, Typed, RingTypeOK, Begun, Exclusive, InSection, Filling
  <2> QED BY <2>1, <2>2, <2>3, <2>4, <2>5
<1>3. CASE PushLock(c)
  <2>1. Typed'
    BY <1>3 DEF PushLock, Typed, RingTypeOK, States, PushStates, PopStates
  <2>2. Roles'
    BY <1>3 DEF PushLock, Typed, RingTypeOK, Roles
  <2>3. Exclusive'
    BY <1>3 DEF PushLock, Typed, RingTypeOK, Exclusive, InSection
  <2>4. Begun'
    BY <1>3 DEF PushLock, Typed, RingTypeOK, Begun
  <2>5. Filling'
    BY <1>3 DEF PushLock, Typed, RingTypeOK, Begun, Exclusive, InSection, Filling
  <2> QED BY <2>1, <2>2, <2>3, <2>4, <2>5
<1>4. CASE PushFill(c)
  <2> DEFINE s == IF have = 0 THEN ListHead ELSE NextSlot(end)
  <2>0. s \in Slots /\ slot' = [slot EXCEPT ![s] = [size |-> arg[c], data |-> slot[s].data]]
    <3>1. s \in Slots
      BY NextSlotType DEF Typed, RingTypeOK, ListHead
    <3>2. slot' = [slot EXCEPT ![s].size = arg[c]]
      BY <1>4 DEF PushFill
    <3>3. slot[s] \in [size : Packets \cup {NoPacket}, data : Packets \cup {NoPacket}]
      BY <3>1 DEF Typed, RingTypeOK
    <3>4. [slot[s] EXCEPT !.size = arg[c]] = [size |-> arg[c], data |-> slot[s].data]
      BY <3>3
    <3> HIDE DEF s
    <3> QED BY <3>1, <3>2, <3>4
  <2>1. Typed'
    <3>1. arg[c] \in Packets \cup {NoPacket} /\ slot[s].data \in Packets \cup {NoPacket}
      BY <2>0 DEF Typed, RingTypeOK
    <3>2. slot' \in [Slots -> [size : Packets \cup {NoPacket}, data : Packets \cup {NoPacket}]]
      BY <2>0, <3>1 DEF Typed, RingTypeOK
    <3> QED BY <1>4, <2>0, <3>2 DEF PushFill, Typed, RingTypeOK, States, PushStates
  <2>2. Roles'
    BY <1>4 DEF PushFill, Typed, RingTypeOK, Roles
  <2>3. Exclusive'
    BY <1>4 DEF PushFill, Typed, RingTypeOK, Exclusive, InSection
  <2>4. Begun'
    BY <1>4, NextSlotType DEF PushFill, Typed, RingTypeOK, Begun, ListHead
  <2>5. Filling'
    <3>1. \A d \in Pushers : pc[d] # "push_copy"
      BY <1>4 DEF PushFill, Exclusive, InSection
    <3>2. \A i \in Slots : slot[i].size = slot[i].data
      BY <3>1 DEF Filling
    <3>3. pc'[c] = "push_copy" /\ tmp'[c] = s /\ slot'[s].size = arg'[c]
      BY <1>4, <2>0 DEF PushFill, Typed, RingTypeOK
    <3>4. \A i \in Slots \ {s} : slot'[i] = slot[i]
      BY <2>0 DEF Typed, RingTypeOK
    <3>5. \A d \in Pushers : pc'[d] = "push_copy" => d = c
      BY <1>4, <3>1 DEF PushFill, Typed, RingTypeOK
    <3> QED BY <2>0, <3>2, <3>3, <3>4, <3>5 DEF Filling
  <2> QED BY <2>1, <2>2, <2>3, <2>4, <2>5
<1>5. CASE PushCopy(c)
  <2>0. tmp[c] \in Slots
    BY <1>5 DEF PushCopy, Begun
  <2>1. Typed'
    <3>1. slot' \in [Slots -> [size : Packets \cup {NoPacket}, data : Packets \cup {NoPacket}]]
      BY <1>5, <2>0 DEF PushCopy, Typed, RingTypeOK
    <3> QED BY <1>5, <2>0, <3>1 DEF PushCopy, Typed, RingTypeOK, States, PushStates
  <2>2. Roles'
    BY <1>5 DEF PushCopy, Typed, RingTypeOK, Roles
  <2>3. Exclusive'
    BY <1>5 DEF PushCopy, Typed, RingTypeOK, Exclusive, InSection
  <2>4. Begun'
    BY <1>5 DEF PushCopy, Typed, RingTypeOK, Begun
  <2>5. Filling'
    <3>1. \A d \in Pushers : pc[d] = "push_copy" => d = c
      BY <1>5 DEF PushCopy, Exclusive, InSection
    <3>2. \A d \in Pushers : pc'[d] # "push_copy"
      BY <1>5, <3>1 DEF PushCopy, Typed, RingTypeOK
    <3> SUFFICES ASSUME NEW i \in Slots PROVE slot'[i].size = slot'[i].data
      BY <3>2 DEF Filling
    <3>3. CASE i = tmp[c]
      BY <1>5, <3>3 DEF PushCopy, Typed, RingTypeOK, Begun, Filling
    <3>4. CASE i # tmp[c]
      BY <1>5, <2>0, <3>1, <3>4 DEF PushCopy, Typed, RingTypeOK, Filling
    <3> QED BY <3>3, <3>4
  <2> QED BY <2>1, <2>2, <2>3, <2>4, <2>5
<1>6. CASE PushStore(c)
  <2>1. Typed'
    <3>1. reg[c] + 1 \in Int
      BY DEF Typed, RingTypeOK
    <3>2. have' \in 0 .. SIZE_MOD - 1
      BY <1>6, <3>1, ModType DEF PushStore
    <3> QED BY <1>6, <3>2 DEF PushStore, Typed, RingTypeOK, States, PushStates
  <2>2. Roles'
    BY <1>6 DEF PushStore, Typed, RingTypeOK, Roles
  <2>3. Exclusive'
    BY <1>6 DEF PushStore, Typed, RingTypeOK, Exclusive, InSection
  <2>4. Begun'
    BY <1>6 DEF PushStore, Typed, RingTypeOK, Begun
  <2>5. Filling'
    BY <1>6 DEF PushStore, Typed, RingTypeOK, Begun, Exclusive, InSection, Filling
  <2> QED BY <2>1, <2>2, <2>3, <2>4, <2>5
<1> QED BY <1>1, <1>2, <1>3, <1>4, <1>5, <1>6 DEF PushStep

\* The same for pop.
LEMMA PopKeepsIInv == ASSUME IInv, NEW r \in Readers, PopStep(r) PROVE IInv'
<1> USE QueueAssumption DEF IInv, Goto
<1>1. CASE PopEmpty(r)
  <2>1. Typed'
    BY <1>1 DEF PopEmpty, Typed, RingTypeOK, States, PushStates, PopStates
  <2>2. Roles'
    BY <1>1 DEF PopEmpty, Typed, RingTypeOK, Roles
  <2>3. Exclusive'
    BY <1>1 DEF PopEmpty, Typed, RingTypeOK, Exclusive, InSection
  <2>4. Begun'
    BY <1>1 DEF PopEmpty, Typed, RingTypeOK, Begun
  <2>5. Filling'
    BY <1>1 DEF PopEmpty, Typed, RingTypeOK, Begun, Exclusive, InSection, Filling
  <2> QED BY <2>1, <2>2, <2>3, <2>4, <2>5
<1>2. CASE PopAdmitted(r)
  <2>1. Typed'
    BY <1>2 DEF PopAdmitted, Typed, RingTypeOK, States, PushStates, PopStates
  <2>2. Roles'
    BY <1>2 DEF PopAdmitted, Typed, RingTypeOK, Roles
  <2>3. Exclusive'
    BY <1>2 DEF PopAdmitted, Typed, RingTypeOK, Exclusive, InSection
  <2>4. Begun'
    BY <1>2 DEF PopAdmitted, Typed, RingTypeOK, Begun
  <2>5. Filling'
    BY <1>2 DEF PopAdmitted, Typed, RingTypeOK, Begun, Exclusive, InSection, Filling
  <2> QED BY <2>1, <2>2, <2>3, <2>4, <2>5
<1>3. CASE PopLock(r)
  <2>1. Typed'
    BY <1>3 DEF PopLock, Typed, RingTypeOK, States, PushStates, PopStates
  <2>2. Roles'
    BY <1>3 DEF PopLock, Typed, RingTypeOK, Roles
  <2>3. Exclusive'
    BY <1>3 DEF PopLock, Typed, RingTypeOK, Exclusive, InSection
  <2>4. Begun'
    BY <1>3 DEF PopLock, Typed, RingTypeOK, Begun
  <2>5. Filling'
    BY <1>3 DEF PopLock, Typed, RingTypeOK, Begun, Exclusive, InSection, Filling
  <2> QED BY <2>1, <2>2, <2>3, <2>4, <2>5
<1>4. CASE PopTake(r)
  <2>1. Typed'
    BY <1>4, NextSlotType DEF PopTake, Typed, RingTypeOK, States, PopStates, Begun
  <2>2. Roles'
    BY <1>4 DEF PopTake, Typed, RingTypeOK, Roles
  <2>3. Exclusive'
    BY <1>4 DEF PopTake, Typed, RingTypeOK, Exclusive, InSection
  <2>4. Begun'
    BY <1>4, NextSlotType DEF PopTake, Typed, RingTypeOK, Begun
  <2>5. Filling'
    BY <1>4 DEF PopTake, Typed, RingTypeOK, Begun, Exclusive, InSection, Filling
  <2> QED BY <2>1, <2>2, <2>3, <2>4, <2>5
<1>5. CASE PopStore(r)
  <2>1. Typed'
    <3>1. reg[r] - 1 \in Int
      BY DEF Typed, RingTypeOK
    <3>2. have' \in 0 .. SIZE_MOD - 1
      BY <1>5, <3>1, ModType DEF PopStore
    <3>3. tmp[r] \in Slots
      BY <1>5 DEF PopStore, Begun
    <3>4. handed' \in [Readers -> Packets \cup {NoPacket}]
      BY <1>5, <3>3 DEF PopStore, Typed, RingTypeOK
    <3> QED BY <1>5, <3>2, <3>4 DEF PopStore, Typed, RingTypeOK, States, PopStates
  <2>2. Roles'
    BY <1>5 DEF PopStore, Typed, RingTypeOK, Roles
  <2>3. Exclusive'
    BY <1>5 DEF PopStore, Typed, RingTypeOK, Exclusive, InSection
  <2>4. Begun'
    BY <1>5 DEF PopStore, Typed, RingTypeOK, Begun
  <2>5. Filling'
    BY <1>5 DEF PopStore, Typed, RingTypeOK, Begun, Exclusive, InSection, Filling
  <2> QED BY <2>1, <2>2, <2>3, <2>4, <2>5
<1> QED BY <1>1, <1>2, <1>3, <1>4, <1>5 DEF PopStep

\* A thread elsewhere has no business with the lock or the slot being filled.
LEMMA OutsideKeepsIInv ==
  ASSUME IInv, NEW t \in Threads, Outside(t), Roles' PROVE IInv'
<1> USE QueueAssumption DEF IInv, Outside
<1>0. \A u \in Threads :
        \/ pc'[u] = pc[u] /\ tmp'[u] = tmp[u] /\ arg'[u] = arg[u]
        \/ /\ pc[u] \notin PushInner \cup PopInner
           /\ pc'[u] \notin PushInner \cup PopInner \cup {"popped"}
  OBVIOUS
<1>1. Typed'
  BY DEF Typed, RingTypeOK
<1>2. Exclusive'
  BY <1>0 DEF Exclusive, InSection
<1>3. Begun'
  BY <1>0 DEF Begun
<1>4. Filling'
  BY <1>0 DEF Filling
<1> QED BY <1>1, <1>2, <1>3, <1>4

LEMMA ClearedKeepsIInv == ASSUME IInv, Cleared PROVE IInv'
<1> USE QueueAssumption DEF IInv, Cleared
<1>1. Typed'
  BY DEF Typed, RingTypeOK
<1>2. Roles'
  BY DEF Roles
<1>3. Exclusive'
  BY DEF Exclusive, InSection
<1>4. Begun'
  BY DEF Begun
<1>5. Filling'
  BY DEF Filling
<1> QED BY <1>1, <1>2, <1>3, <1>4, <1>5

LEMMA StepKeepsIInv == ASSUME IInv, QueueStep \/ Cleared, Roles' PROVE IInv'
<1>1. CASE UNCHANGED vars
  BY <1>1 DEF IInv, Typed, RingTypeOK, Roles, Exclusive, Begun, Filling, InSection
<1> QED BY <1>1, PushKeepsIInv, PopKeepsIInv, OutsideKeepsIInv, ClearedKeepsIInv
        DEF QueueStep

-----------------------------------------------------------------------------
\* The queue on its own: its calls and returns are steps outside the ring.
Places == pc \in [Threads -> PushStates \cup PopStates]

LEMMA StepQuiet ==
  ASSUME IInv, [Next]_vars
  PROVE  /\ QueueStep \/ (QuietReset /\ Cleared)
         /\ Roles'
         /\ Places => Places'
<1> USE QueueAssumption DEF IInv, Goto
<1>1. ASSUME NEW c \in Pushers, PushStep(c) PROVE Roles' /\ (Places => Places')
  <2>1. pc' \in [Threads -> States] /\ \E s \in PushStates : pc' = [pc EXCEPT ![c] = s]
    BY <1>1 DEF PushStep, PushRefused, PushAdmitted, PushLock, PushFill, PushCopy,
       PushStore, Typed, States, PushStates
  <2> QED BY <2>1 DEF Typed, Roles, Places, PushStates
<1>2. ASSUME NEW r \in Readers, PopStep(r) PROVE Roles' /\ (Places => Places')
  <2>1. pc' \in [Threads -> States] /\ \E s \in PopStates : pc' = [pc EXCEPT ![r] = s]
    BY <1>2 DEF PopStep, PopEmpty, PopAdmitted, PopLock, PopTake, PopStore,
       Typed, States, PopStates
  <2> QED BY <2>1 DEF Typed, Roles, Places, PopStates
<1>3. ASSUME NEW c \in Pushers, PushReturn(c) \/ \E p \in Packets : PushCall(c, p)
      PROVE  Outside(c) /\ Roles' /\ (Places => Places')
  <2>1. ASSUME PushReturn(c) PROVE Outside(c)
    BY <2>1 DEF PushReturn, Outside, Typed, RingTypeOK, States, PushStates
  <2>2. ASSUME NEW p \in Packets, PushCall(c, p) PROVE Outside(c)
    BY <2>2 DEF PushCall, Outside, Typed, RingTypeOK, States, PushStates
  <2>3. Roles' /\ (Places => Places')
    BY <1>3 DEF PushReturn, PushCall, Typed, Roles, Places, PushStates
  <2> QED BY <1>3, <2>1, <2>2, <2>3
<1>4. ASSUME NEW r \in Readers, PopCall(r) \/ PopReturn(r)
      PROVE  Outside(r) /\ Roles' /\ (Places => Places')
  <2>1. Outside(r)
    BY <1>4 DEF PopReturn, PopCall, Outside, Typed, RingTypeOK, States, PopStates
  <2>2. Roles' /\ (Places => Places')
    BY <1>4 DEF PopReturn, PopCall, Typed, Roles, Places, PopStates
  <2> QED BY <2>1, <2>2
<1>5. CASE QuietReset
  BY <1>5 DEF QuietReset, Reset, Cleared, Roles, Places, Typed
<1>6. CASE UNCHANGED vars
  BY <1>6 DEF Roles, Places, QueueStep
<1> QED
  <2>1. Roles' /\ (Places => Places')
    BY <1>1, <1>2, <1>3, <1>4, <1>5, <1>6 DEF Next
  <2>2. QueueStep \/ (QuietReset /\ Cleared)
    BY <1>3, <1>4, <1>5, <1>6 DEF Next, QueueStep
  <2> QED BY <2>1, <2>2

LEMMA StepIInv == IInv /\ [Next]_vars => IInv'
BY StepQuiet, StepKeepsIInv

(***************************************************************************)
(* route/queue.h, any number of CPUs and readers: every variable keeps its *)
(* type.  That pop never follows an unset `begin' is part of it.           *)
(***************************************************************************)
THEOREM TypeCorrect == Spec => []TypeOK
<1>1. Init => Places
  BY DEF Init, Places, PushStates
<1>2. IInv /\ Places => TypeOK
  BY DEF IInv, Typed, Places, TypeOK
<1>3. IInv /\ Places /\ [Next]_vars => Places'
  BY StepQuiet
<1> QED BY InitIInv, StepIInv, <1>1, <1>2, <1>3, PTL DEF Spec

\* Only a push that holds the lock leaves a slot half filled.
LEMMA SlotsAreWhole == IInv => SlotsWhole
BY DEF IInv, Filling, Exclusive, InSection, SlotsWhole

(***************************************************************************)
(* xsky_queue_push and xsky_queue_pop, any number of CPUs and readers: a   *)
(* slot no push is filling holds the size and the bytes of one packet.     *)
(***************************************************************************)
THEOREM SlotsStayWhole == Spec => []SlotsWhole
BY InitIInv, StepIInv, SlotsAreWhole, PTL DEF Spec

-----------------------------------------------------------------------------
(***************************************************************************)
(* The counter and the pointers, as long as there is one CPU past the full *)
(* test and one reader past the empty test at a time: the unlocked full    *)
(* test stays true until the push is done, since only the reader moves the *)
(* counter meanwhile, and downwards; the unlocked empty test likewise.     *)
(* The lock makes the loaded counter the current one until it is stored.   *)
(***************************************************************************)
OneEach ==
  /\ \A c, d \in Pushers : pc[c] \in PushInner /\ pc[d] \in PushInner => c = d
  /\ \A r, q \in Readers : pc[r] \in PopInner /\ pc[q] \in PopInner => r = q

Counted ==
  /\ have <= QSIZE
  /\ \A c \in Pushers :
       /\ pc[c] \in PushInner => have < QSIZE
       /\ pc[c] = "push_store" => reg[c] = have
  /\ \A r \in Readers :
       /\ pc[r] \in PopInner => have # 0
       /\ pc[r] = "pop_store" => reg[r] = have

LEMMA ModSmall == \A n \in 0 .. SIZE_MOD - 1 : n % SIZE_MOD = n
BY QueueAssumption

LEMMA PushCounted ==
  ASSUME IInv, OneEach, Counted, NEW c \in Pushers, PushStep(c) PROVE Counted'
<1> USE QueueAssumption DEF IInv, Typed, RingTypeOK, Goto
<1>1. CASE PushRefused(c)
  BY <1>1 DEF PushRefused, Counted
<1>2. CASE PushAdmitted(c)
  BY <1>2 DEF PushAdmitted, PushRefuses, Counted
<1>3. CASE PushLock(c)
  BY <1>3 DEF PushLock, Counted
<1>4. CASE PushFill(c)
  BY <1>4 DEF PushFill, Counted
<1>5. CASE PushCopy(c)
  BY <1>5 DEF PushCopy, Counted
<1>6. CASE PushStore(c)
  <2>1. have' = have + 1 /\ have < QSIZE
    BY <1>6, ModSmall DEF PushStore, Counted
  <2>2. \A r \in Readers : pc[r] # "pop_store"
    BY <1>6 DEF PushStore, Exclusive, InSection
  <2>3. \A d \in Pushers : pc'[d] \notin PushInner
    BY <1>6 DEF PushStore, OneEach
  <2> QED BY <1>6, <2>1, <2>2, <2>3 DEF PushStore, Counted
<1> QED BY <1>1, <1>2, <1>3, <1>4, <1>5, <1>6 DEF PushStep

LEMMA PopCounted ==
  ASSUME IInv, OneEach, Counted, NEW r \in Readers, PopStep(r) PROVE Counted'
<1> USE QueueAssumption DEF IInv, Typed, RingTypeOK, Goto
<1>1. CASE PopEmpty(r)
  BY <1>1 DEF PopEmpty, Counted
<1>2. CASE PopAdmitted(r)
  BY <1>2 DEF PopAdmitted, Counted
<1>3. CASE PopLock(r)
  BY <1>3 DEF PopLock, Counted
<1>4. CASE PopTake(r)
  BY <1>4 DEF PopTake, Counted
<1>5. CASE PopStore(r)
  <2>1. have' = have - 1 /\ have # 0
    BY <1>5, ModSmall DEF PopStore, Counted
  <2>2. \A c \in Pushers : pc[c] # "push_store"
    BY <1>5 DEF PopStore, Exclusive, InSection
  <2>3. \A q \in Readers : pc'[q] \notin PopInner
    BY <1>5 DEF PopStore, OneEach
  <2>4. \A c \in Pushers : pc'[c] = pc[c]
    BY <1>5, QueueAssumption DEF PopStore
  <2> QED BY <2>1, <2>2, <2>3, <2>4 DEF Counted
<1> QED BY <1>1, <1>2, <1>3, <1>4, <1>5 DEF PopStep

LEMMA StepCounted == ASSUME IInv, OneEach, Counted, QueueStep PROVE Counted'
<1>1. ASSUME NEW t \in Threads, Outside(t) PROVE Counted'
  BY <1>1 DEF Outside, Counted
<1>2. CASE UNCHANGED vars
  BY <1>2 DEF Counted
<1> QED BY <1>1, <1>2, PushCounted, PopCounted DEF QueueStep

\* Between calls a reset leaves everything in order.
Quiet == \A t \in Threads : pc[t] \notin PushInner \cup PopInner

LEMMA QuietStays == ASSUME Cleared, Quiet PROVE Quiet'
BY DEF Cleared, Quiet

LEMMA QuietCounted == ASSUME Cleared, Quiet PROVE Counted'
BY QuietStays, QueueAssumption DEF Cleared, Quiet, Counted

\* With one CPU and one reader there is never a second.
Alone ==
  /\ \A c, d \in Pushers : c = d
  /\ \A r, q \in Readers : r = q

LEMMA NextCounted ==
  Alone /\ IInv /\ Counted /\ [Next]_vars => Counted'
<1>1. Alone => OneEach
  BY DEF Alone, OneEach
<1>2. QuietReset => Quiet
  BY DEF QuietReset, Quiet
<1> QED BY <1>1, <1>2, StepQuiet, StepCounted, QuietCounted

(***************************************************************************)
(* The full test of xsky_queue_push, made without the lock, is enough with *)
(* one CPU and one reader: the counter stays within the ring.              *)
(***************************************************************************)
THEOREM HaveStaysBounded == ASSUME Alone PROVE Spec => []HaveBounded
<1>1. Init => Counted
  BY QueueAssumption DEF Init, Counted
<1>2. IInv /\ Counted /\ [Next]_vars => Counted'
  BY NextCounted
<1>3. Counted => HaveBounded
  BY DEF Counted, HaveBounded
<1> QED BY InitIInv, StepIInv, <1>1, <1>2, <1>3, PTL DEF Spec

-----------------------------------------------------------------------------
(***************************************************************************)
(* Between the steps of the lock's holder the span from `begin' to `end'   *)
(* is the counter, and inside the section it is off by the packet that     *)
(* comes or goes.                                                          *)
(***************************************************************************)
Moving == {"push_copy", "push_store", "pop_store"}

Aligned ==
  /\ have # 0 => begin \in Slots /\ end \in Slots
  /\ have # 0 /\ (\A t \in Threads : pc[t] \notin Moving)
       => Span(begin, end) = have
  /\ \A c \in Pushers :
       /\ pc[c] = "push_copy" => Span(begin, tmp[c]) = have + 1
       /\ pc[c] = "push_store" => end \in Slots /\ Span(begin, end) = have + 1
  /\ \A r \in Readers :
       pc[r] = "pop_store" /\ have > 1 => Span(begin, end) = have - 1

\* Stepping an end of a span along the ring changes its length by one.
LEMMA SpanSteps ==
  ASSUME NEW b \in Slots, NEW e \in Slots
  PROVE  /\ Span(b, b) = 1
         /\ Span(b, e) < QSIZE => Span(b, NextSlot(e)) = Span(b, e) + 1
         /\ Span(b, e) > 1 => Span(NextSlot(b), e) = Span(b, e) - 1
BY QueueAssumption DEF Span, NextSlot

\* A step outside the section moves nothing.
LEMMA ElsewhereAligned ==
  ASSUME Aligned, NEW t \in Threads, UNCHANGED <<begin, end, have>>,
         \A c \in Pushers \ {t} : tmp'[c] = tmp[c],
         pc'[t] \notin Moving, pc[t] \notin Moving,
         \A u \in Threads : u # t => pc'[u] = pc[u]
  PROVE  Aligned'
<1>1. \A u \in Threads : pc'[u] \in Moving <=> pc[u] \in Moving
  OBVIOUS
<1>2. \A u \in Threads : pc[u] \in Moving => pc'[u] = pc[u] /\ u # t
  OBVIOUS
<1> QED BY <1>1, <1>2 DEF Aligned, Moving

LEMMA PushAligned ==
  ASSUME IInv, Counted, Aligned, NEW c \in Pushers, PushStep(c) PROVE Aligned'
<1> USE QueueAssumption DEF IInv, Typed, RingTypeOK, Goto, Moving
<1>1. ASSUME PushRefused(c) \/ PushAdmitted(c) \/ PushLock(c) PROVE Aligned'
  <2>1. UNCHANGED <<begin, end, have, tmp>>
    BY <1>1 DEF PushRefused, PushAdmitted, PushLock
  <2>2. pc[c] \notin Moving /\ pc'[c] \notin Moving
    BY <1>1 DEF PushRefused, PushAdmitted, PushLock
  <2>3. \A u \in Threads : u # c => pc'[u] = pc[u]
    BY <1>1 DEF PushRefused, PushAdmitted, PushLock
  <2> QED BY ElsewhereAligned, <2>1, <2>2, <2>3
<1>2. CASE PushFill(c)
  <2> DEFINE s == IF have = 0 THEN ListHead ELSE NextSlot(end)
  <2>1. \A t \in Threads : pc[t] \notin Moving
    BY <1>2 DEF PushFill, Exclusive, InSection
  <2>2. have < QSIZE /\ have' = have /\ end' = end
    BY <1>2 DEF PushFill, Counted
  <2>3. CASE have = 0
    <3>1. begin' = s /\ s \in Slots
      BY <1>2, <2>3 DEF PushFill, ListHead
    <3>2. Span(begin', s) = have + 1
      BY <2>3, <3>1, SpanSteps
    <3> QED BY <1>2, <2>1, <2>2, <2>3, <3>2 DEF PushFill, Aligned
  <2>4. CASE have # 0
    <3>1. begin' = begin /\ begin \in Slots /\ end \in Slots /\ Span(begin, end) = have
      BY <1>2, <2>1, <2>4 DEF PushFill, Aligned
    <3>2. Span(begin', s) = have + 1
      BY <2>2, <2>4, <3>1, SpanSteps
    <3> QED BY <1>2, <2>1, <2>2, <2>4, <3>1, <3>2 DEF PushFill, Aligned
  <2> QED BY <2>3, <2>4
<1>3. CASE PushCopy(c)
  <2>1. end' = tmp[c] /\ tmp[c] \in Slots /\ begin \in Slots /\ begin' = begin
    BY <1>3 DEF PushCopy, Begun
  <2>2. Span(begin', end') = have' + 1
    BY <1>3, <2>1 DEF PushCopy, Aligned
  <2>3. \A t \in Threads : t # c => pc'[t] = pc[t] /\ pc[t] \notin Moving
    BY <1>3 DEF PushCopy, Exclusive, InSection
  <2> QED BY <1>3, <2>1, <2>2, <2>3 DEF PushCopy, Aligned
<1>4. CASE PushStore(c)
  <2>1. have' = have + 1
    BY <1>4, ModSmall DEF PushStore, Counted
  <2>2. end' \in Slots /\ begin' \in Slots /\ Span(begin', end') = have'
    BY <1>4, <2>1 DEF PushStore, Begun, Aligned
  <2>3. \A t \in Threads : pc'[t] \notin Moving
    BY <1>4 DEF PushStore, Exclusive, InSection
  <2> QED BY <2>2, <2>3 DEF Aligned
<1> QED BY <1>1, <1>2, <1>3, <1>4 DEF PushStep

LEMMA PopAligned ==
  ASSUME IInv, Counted, Aligned, NEW r \in Readers, PopStep(r) PROVE Aligned'
<1> USE QueueAssumption DEF IInv, Typed, RingTypeOK, Goto, Moving
<1>1. ASSUME PopEmpty(r) \/ PopAdmitted(r) \/ PopLock(r) PROVE Aligned'
  <2>1. UNCHANGED <<begin, end, have, tmp>>
    BY <1>1 DEF PopEmpty, PopAdmitted, PopLock
  <2>2. pc[r] \notin Moving /\ pc'[r] \notin Moving
    BY <1>1 DEF PopEmpty, PopAdmitted, PopLock
  <2>3. \A u \in Threads : u # r => pc'[u] = pc[u]
    BY <1>1 DEF PopEmpty, PopAdmitted, PopLock
  <2> QED BY ElsewhereAligned, <2>1, <2>2, <2>3
<1>2. CASE PopTake(r)
  <2>1. \A t \in Threads : pc[t] \notin Moving
    BY <1>2 DEF PopTake, Exclusive, InSection
  <2>2. have # 0 /\ begin \in Slots /\ end \in Slots /\ Span(begin, end) = have
    BY <1>2, <2>1 DEF PopTake, Counted, Aligned
  <2>3. have > 1 => Span(begin', end') = have - 1
    BY <1>2, <2>2, SpanSteps DEF PopTake
  <2>4. begin' \in Slots /\ end' \in Slots /\ have' = have
    BY <1>2, <2>2, NextSlotType DEF PopTake
  <2>5. pc'[r] = "pop_store" /\ \A t \in Threads : t # r => pc'[t] = pc[t]
    BY <1>2 DEF PopTake
  <2> QED BY <2>1, <2>3, <2>4, <2>5 DEF Aligned
<1>3. CASE PopStore(r)
  <2>1. have' = have - 1 /\ have # 0
    BY <1>3, ModSmall DEF PopStore, Counted
  <2>2. have' # 0 => begin' \in Slots /\ end' \in Slots /\ Span(begin', end') = have'
    BY <1>3, <2>1 DEF PopStore, Aligned
  <2>3. \A t \in Threads : pc'[t] \notin Moving
    BY <1>3 DEF PopStore, Exclusive, InSection
  <2> QED BY <2>2, <2>3 DEF Aligned
<1> QED BY <1>1, <1>2, <1>3 DEF PopStep

LEMMA StepAligned == ASSUME IInv, Counted, Aligned, QueueStep PROVE Aligned'
<1>1. ASSUME NEW t \in Threads, Outside(t) PROVE Aligned'
  <2>1. pc[t] \notin Moving /\ pc'[t] \notin Moving
    BY <1>1 DEF Outside, Moving
  <2> QED BY <1>1, <2>1, ElsewhereAligned DEF Outside
<1>2. CASE UNCHANGED vars
  BY <1>2 DEF Aligned
<1> QED BY <1>1, <1>2, PushAligned, PopAligned DEF QueueStep

LEMMA QuietAligned == ASSUME Cleared, Quiet PROVE Aligned'
BY QuietStays DEF Cleared, Quiet, Aligned

LEMMA NextAligned ==
  Alone /\ IInv /\ Counted /\ Aligned /\ [Next]_vars => Aligned'
<1>1. QuietReset => Quiet
  BY DEF QuietReset, Quiet
<1> QED BY <1>1, StepQuiet, StepAligned, QuietAligned

LEMMA AlignedShape == IInv /\ Aligned => RingShape
<1> SUFFICES ASSUME IInv, Aligned, lock = Free, have # 0
             PROVE  have = Span(begin, end)
  BY DEF RingShape
<1>1. \A t \in Threads : pc[t] \notin Moving
  BY QueueAssumption DEF IInv, Exclusive, InSection, Moving
<1> QED BY <1>1 DEF Aligned

(***************************************************************************)
(* With one CPU and one reader the ring pointers and the counter of        *)
(* route/queue.h agree whenever the lock is free.                          *)
(***************************************************************************)
THEOREM RingKeepsShape == ASSUME Alone PROVE Spec => []RingShape
<1>1. Init => Counted /\ Aligned
  BY QueueAssumption DEF Init, Counted, Aligned, Moving
<1>2. IInv /\ Counted /\ Aligned /\ [Next]_vars => Counted' /\ Aligned'
  BY NextCounted, NextAligned
<1> QED BY InitIInv, StepIInv, <1>1, <1>2, AlignedShape, PTL DEF Spec

-----------------------------------------------------------------------------
(***************************************************************************)
(* Any number of CPUs and readers, on a machine whose word the ring        *)
(* divides: `have' overruns the ring and wraps, but modulo the ring it     *)
(* stays what lies between `begin' and `end'.                              *)
(***************************************************************************)
Divides == SIZE_MOD % QSIZE = 0

\* a and b name the same slot.
Same(a, b) == (a - b) % QSIZE = 0

Congruent ==
  /\ /\ \A t \in Threads : pc[t] \notin Moving
     /\ have # 0 \/ (\E r \in Readers : pc[r] \in PopInner)
     => Same(begin + have, end + 1)
  /\ \A c \in Pushers :
       /\ pc[c] = "push_copy" => Same(begin + have, tmp[c])
       /\ pc[c] = "push_store" => reg[c] = have /\ Same(begin + have, end)
  /\ \A r \in Readers :
       pc[r] = "pop_store" => reg[r] = have /\ Same(begin + have, end + 2)

\* Multiples of the ring add up; modulo the ring the next slot is one further,
\* and a size_t that wraps has not moved.
LEMMA Multiple == ASSUME NEW a \in Int, NEW k \in Int, a = k * QSIZE PROVE a % QSIZE = 0
BY QueueAssumption

LEMMA SameAdds ==
  ASSUME NEW a \in Int, NEW b \in Int, a % QSIZE = 0, b % QSIZE = 0
  PROVE  (a + b) % QSIZE = 0 /\ (a - b) % QSIZE = 0
<1>1. PICK k \in Int : a = k * QSIZE
  BY QueueAssumption
<1>2. PICK m \in Int : b = m * QSIZE
  BY QueueAssumption
<1>3. (a + b) % QSIZE = 0
  <2>1. a + b = (k + m) * QSIZE
    BY <1>1, <1>2, QueueAssumption
  <2> QED BY <2>1, Multiple
<1>4. (a - b) % QSIZE = 0
  <2>1. a - b = (k - m) * QSIZE
    BY <1>1, <1>2, QueueAssumption
  <2> QED BY <2>1, Multiple
<1> QED BY <1>3, <1>4

LEMMA SameNext ==
  ASSUME NEW i \in Slots \cup {NoSlot} PROVE Same(i + 1, NextSlot(i))
<1>1. (i + 1) - NextSlot(i) = 0 * QSIZE \/ (i + 1) - NextSlot(i) = 1 * QSIZE
  BY QueueAssumption DEF NextSlot
<1>2. (i + 1) - NextSlot(i) \in Int
  BY NextSlotType, QueueAssumption
<1>3. ((i + 1) - NextSlot(i)) % QSIZE = 0
  BY <1>1, <1>2, Multiple
<1> QED BY <1>3 DEF Same

LEMMA SameWraps ==
  ASSUME Divides, NEW n \in 0 .. SIZE_MOD - 1
  PROVE  /\ (n + 1) % SIZE_MOD \in Int /\ Same((n + 1) % SIZE_MOD, n + 1)
         /\ (n - 1) % SIZE_MOD \in Int /\ Same((n - 1) % SIZE_MOD, n - 1)
<1>1. 0 % QSIZE = 0 /\ (0 - SIZE_MOD) % QSIZE = 0
  <2>1. 0 = 0 * QSIZE /\ 0 \in Int /\ SIZE_MOD \in Int
    BY QueueAssumption
  <2>2. 0 % QSIZE = 0
    BY <2>1, Multiple
  <2> QED BY <2>1, <2>2, SameAdds DEF Divides
<1>2. (n + 1) % SIZE_MOD = n + 1 \/ (n + 1) % SIZE_MOD = n + 1 - SIZE_MOD
  BY QueueAssumption
<1>3. (n - 1) % SIZE_MOD = n - 1 \/ (n - 1) % SIZE_MOD = n - 1 + SIZE_MOD
  BY QueueAssumption
<1> QED BY <1>1, <1>2, <1>3, QueueAssumption DEF Same, Divides

\* A step outside the section moves nothing; the reader it admits has seen that
\* the queue is not empty.
LEMMA ElsewhereCongruent ==
  ASSUME Congruent, NEW t \in Threads, UNCHANGED <<begin, end, have, reg>>,
         \A c \in Pushers \ {t} : tmp'[c] = tmp[c],
         pc'[t] \notin Moving, pc[t] \notin Moving,
         t \in Readers /\ pc'[t] \in PopInner => have # 0 \/ pc[t] \in PopInner,
         \A u \in Threads : u # t => pc'[u] = pc[u]
  PROVE  Congruent'
<1>1. \A u \in Threads : pc'[u] \in Moving <=> pc[u] \in Moving
  OBVIOUS
<1>2. \A u \in Threads : pc[u] \in Moving => pc'[u] = pc[u] /\ u # t
  OBVIOUS
<1>3. (\E r \in Readers : pc'[r] \in PopInner)
        => have # 0 \/ (\E r \in Readers : pc[r] \in PopInner)
  OBVIOUS
<1> QED BY <1>1, <1>2, <1>3 DEF Congruent, Moving

LEMMA PushCongruent ==
  ASSUME Divides, IInv, Congruent, NEW c \in Pushers, PushStep(c) PROVE Congruent'
<1> USE QueueAssumption DEF IInv, Goto, Moving
<1>0. have \in 0 .. SIZE_MOD - 1 /\ begin \in Int /\ end \in Int /\ tmp[c] \in Int
  BY DEF Typed, RingTypeOK
<1>1. ASSUME PushRefused(c) \/ PushAdmitted(c) \/ PushLock(c) PROVE Congruent'
  <2>1. UNCHANGED <<begin, end, have, tmp, reg>>
    BY <1>1 DEF PushRefused, PushAdmitted, PushLock
  <2>2. pc[c] \notin Moving /\ pc'[c] \notin Moving
    BY <1>1 DEF PushRefused, PushAdmitted, PushLock, Typed
  <2>3. \A u \in Threads : u # c => pc'[u] = pc[u]
    BY <1>1 DEF PushRefused, PushAdmitted, PushLock, Typed
  <2> QED BY ElsewhereCongruent, <2>1, <2>2, <2>3
<1>2. CASE PushFill(c)
  <2>1. \A t \in Threads : pc[t] \notin Moving
    BY <1>2 DEF PushFill, Exclusive, InSection
  <2>2. \A t \in Threads : pc'[t] \in Moving => t = c /\ pc'[t] = "push_copy"
    BY <1>2, <2>1 DEF PushFill, Typed
  <2>3. Same(begin' + have', tmp'[c])
    <3>1. CASE have = 0
      <4>1. begin' = 0 /\ have' = 0 /\ tmp'[c] = 0
        BY <1>2, <3>1 DEF PushFill, ListHead, Typed, RingTypeOK
      <4> QED BY <4>1 DEF Same
    <3>2. CASE have # 0
      <4>1. begin' = begin /\ have' = have /\ tmp'[c] = NextSlot(end)
        BY <1>2, <3>2 DEF PushFill, Typed, RingTypeOK
      <4>2. Same(begin + have, end + 1) /\ Same(end + 1, NextSlot(end))
        BY <2>1, <3>2, SameNext DEF Congruent, Typed, RingTypeOK
      <4>3. NextSlot(end) \in Int
        BY NextSlotType DEF Typed, RingTypeOK
      <4>4. (begin + have) - NextSlot(end)
              = ((begin + have) - (end + 1)) + ((end + 1) - NextSlot(end))
        BY <1>0, <4>3
      <4> QED BY <1>0, <4>1, <4>2, <4>3, <4>4, SameAdds DEF Same
    <3> QED BY <3>1, <3>2
  <2>4. \E t \in Threads : pc'[t] \in Moving
    BY <1>2 DEF PushFill, Typed
  <2> QED BY <2>2, <2>3, <2>4 DEF Congruent
<1>3. CASE PushCopy(c)
  <2>1. \A t \in Threads : pc[t] \in Moving => t = c
    BY <1>3 DEF PushCopy, Exclusive, InSection
  <2>2. \A t \in Threads : pc'[t] \in Moving => t = c /\ pc'[t] = "push_store"
    BY <1>3, <2>1 DEF PushCopy, Typed
  <2>3. reg'[c] = have' /\ Same(begin' + have', end')
    BY <1>3 DEF PushCopy, Typed, RingTypeOK, Congruent
  <2>4. \E t \in Threads : pc'[t] \in Moving
    BY <1>3 DEF PushCopy, Typed
  <2> QED BY <2>2, <2>3, <2>4 DEF Congruent
<1>4. CASE PushStore(c)
  <2>1. \A t \in Threads : pc'[t] \notin Moving
    BY <1>4 DEF PushStore, Exclusive, InSection, Typed
  <2>2. Same(begin + have, end) /\ have' = (have + 1) % SIZE_MOD
    BY <1>4 DEF PushStore, Congruent
  <2>3. Same(have', have + 1) /\ have' \in Int
    BY <1>0, <2>2, SameWraps
  <2>4. (begin + have') - (end + 1) = ((begin + have) - end) + (have' - (have + 1))
    BY <1>0, <2>3
  <2>5. Same(begin + have', end + 1)
    BY <1>0, <2>2, <2>3, <2>4, SameAdds DEF Same
  <2> QED BY <1>4, <2>1, <2>5 DEF Congruent, PushStore
<1> QED BY <1>1, <1>2, <1>3, <1>4 DEF PushStep

LEMMA PopCongruent ==
  ASSUME Divides, IInv, Congruent, NEW r \in Readers, PopStep(r) PROVE Congruent'
<1> USE QueueAssumption DEF IInv, Goto, Moving
<1>0. have \in 0 .. SIZE_MOD - 1 /\ begin \in Int /\ end \in Int
  BY DEF Typed, RingTypeOK
<1>1. ASSUME PopEmpty(r) \/ PopAdmitted(r) \/ PopLock(r) PROVE Congruent'
  <2>1. UNCHANGED <<begin, end, have, tmp, reg>>
    BY <1>1 DEF PopEmpty, PopAdmitted, PopLock
  <2>2. pc[r] \notin Moving /\ pc'[r] \notin Moving
    BY <1>1 DEF PopEmpty, PopAdmitted, PopLock, Typed
  <2>3. pc'[r] \in PopInner => have # 0 \/ pc[r] \in PopInner
    BY <1>1 DEF PopEmpty, PopAdmitted, PopLock, Typed
  <2>4. \A u \in Threads : u # r => pc'[u] = pc[u]
    BY <1>1 DEF PopEmpty, PopAdmitted, PopLock, Typed
  <2> QED BY ElsewhereCongruent, <2>1, <2>2, <2>3, <2>4
<1>2. CASE PopTake(r)
  <2>1. \A t \in Threads : pc[t] \notin Moving
    BY <1>2 DEF PopTake, Exclusive, InSection
  <2>2. \A t \in Threads : pc'[t] \in Moving => t = r /\ pc'[t] = "pop_store"
    BY <1>2, <2>1 DEF PopTake, Typed
  <2>3. reg'[r] = have' /\ begin' = NextSlot(begin) /\ have' = have /\ end' = end
    BY <1>2 DEF PopTake, Typed, RingTypeOK
  <2>4. Same(begin + have, end + 1) /\ Same(begin + 1, NextSlot(begin))
    BY <1>2, <2>1, SameNext DEF PopTake, Congruent, Typed, RingTypeOK
  <2>5. NextSlot(begin) \in Int
    BY NextSlotType DEF Typed, RingTypeOK
  <2>6. (NextSlot(begin) + have) - (end + 2)
          = ((begin + have) - (end + 1)) - ((begin + 1) - NextSlot(begin))
    BY <1>0, <2>5
  <2>7. Same(begin' + have', end' + 2)
    BY <1>0, <2>3, <2>4, <2>5, <2>6, SameAdds DEF Same
  <2>8. \E t \in Threads : pc'[t] \in Moving
    BY <1>2 DEF PopTake, Typed
  <2> QED BY <2>2, <2>3, <2>7, <2>8 DEF Congruent
<1>3. CASE PopStore(r)
  <2>1. \A t \in Threads : pc'[t] \notin Moving
    BY <1>3 DEF PopStore, Exclusive, InSection, Typed
  <2>2. Same(begin + have, end + 2) /\ have' = (have - 1) % SIZE_MOD
    BY <1>3 DEF PopStore, Congruent
  <2>3. Same(have', have - 1) /\ have' \in Int
    BY <1>0, <2>2, SameWraps
  <2>4. (begin + have') - (end + 1) = ((begin + have) - (end + 2)) + (have' - (have - 1))
    BY <1>0, <2>3
  <2>5. Same(begin + have', end + 1)
    BY <1>0, <2>2, <2>3, <2>4, SameAdds DEF Same
  <2> QED BY <1>3, <2>1, <2>5 DEF Congruent, PopStore
<1> QED BY <1>1, <1>2, <1>3 DEF PopStep

LEMMA StepCongruent ==
  ASSUME Divides, IInv, Congruent, QueueStep PROVE Congruent'
<1>1. ASSUME NEW t \in Threads, Outside(t) PROVE Congruent'
  <2>1. pc[t] \notin Moving /\ pc'[t] \notin Moving \cup PopInner
    BY <1>1 DEF Outside, Moving
  <2> QED BY <1>1, <2>1, ElsewhereCongruent DEF Outside
<1>2. CASE UNCHANGED vars
  BY <1>2 DEF Congruent
<1> QED BY <1>1, <1>2, PushCongruent, PopCongruent DEF QueueStep

LEMMA QuietCongruent == ASSUME Cleared, Quiet PROVE Congruent'
BY QuietStays DEF Cleared, Quiet, Congruent

LEMMA CongruentRing == IInv /\ Congruent => RingCongruent
<1> SUFFICES ASSUME IInv, Congruent, lock = Free, have # 0
             PROVE  (begin + have - 1 - end) % QSIZE = 0
  BY DEF RingCongruent
<1>1. \A t \in Threads : pc[t] \notin Moving
  BY QueueAssumption DEF IInv, Exclusive, InSection, Moving
<1>2. Same(begin + have, end + 1)
  BY <1>1 DEF Congruent
<1>3. begin + have - 1 - end = (begin + have) - (end + 1)
  BY QueueAssumption DEF IInv, Typed, RingTypeOK
<1> QED BY <1>2, <1>3 DEF Same

-----------------------------------------------------------------------------
(***************************************************************************)
(* With one CPU that pushes and one reader, the ring implements            *)
(* BoundedFifo: every step of XskyQueue is a step of the FIFO or leaves it *)
(* as it is.                                                               *)
(***************************************************************************)
Pushing == {"push_check", "push_lock", "push_fill", "push_copy", "push_store"}

\* What the store of the counter, by either side, is about to make true.
Stored ==
  /\ \A c \in Pushers : pc[c] \in Pushing => arg[c] \in Packets
  /\ \A c \in Pushers :
       pc[c] = "push_store" => end = tmp[c] /\ slot[end].data = arg[c]
  /\ \A r \in Readers : pc[r] = "pop_store" => begin = NextSlot(tmp[r])

\* It holds at first, and every step keeps it.
LEMMA InitStored == Init => Stored
BY DEF Init, Stored, Pushing

LEMMA StepStored == IInv /\ Stored /\ [Next]_vars => Stored'
<1> SUFFICES ASSUME IInv, Stored, [Next]_vars PROVE Stored'
  OBVIOUS
<1> USE QueueAssumption DEF IInv, Typed, RingTypeOK, Goto, Pushing
<1>1. ASSUME NEW c \in Pushers, NEW p \in Packets, PushCall(c, p) PROVE Stored'
  BY <1>1 DEF PushCall, Stored
<1>2. ASSUME NEW c \in Pushers,
             PushRefused(c) \/ PushAdmitted(c) \/ PushLock(c) \/ PushReturn(c)
      PROVE  Stored'
  <2>1. UNCHANGED <<slot, begin, end, tmp>> /\ \A d \in Pushers : d # c => arg'[d] = arg[d]
    BY <1>2 DEF PushRefused, PushAdmitted, PushLock, PushReturn
  <2>2. \A t \in Threads : t # c => pc'[t] = pc[t]
    BY <1>2 DEF PushRefused, PushAdmitted, PushLock, PushReturn
  <2>3. pc'[c] # "push_store" /\ (pc'[c] \in Pushing => pc[c] \in Pushing /\ arg' = arg)
    BY <1>2 DEF PushRefused, PushAdmitted, PushLock, PushReturn
  <2> QED BY <2>1, <2>2, <2>3 DEF Stored
<1>3. ASSUME NEW c \in Pushers, PushFill(c) PROVE Stored'
  <2>1. \A t \in Threads : pc'[t] \notin {"push_store", "pop_store"}
    BY <1>3 DEF PushFill, Exclusive, InSection
  <2>2. \A d \in Pushers : pc'[d] \in Pushing => arg'[d] \in Packets
    BY <1>3 DEF PushFill, Stored
  <2> QED BY <2>1, <2>2 DEF Stored
<1>4. ASSUME NEW c \in Pushers, PushCopy(c) PROVE Stored'
  <2>1. \A t \in Threads : pc'[t] \in {"push_store", "pop_store"} => t = c
    BY <1>4 DEF PushCopy, Exclusive, InSection
  <2>2. tmp[c] \in Slots /\ slot'[tmp[c]].data = arg[c]
    BY <1>4 DEF PushCopy, Begun
  <2>3. \A d \in Pushers : pc'[d] \in Pushing => arg'[d] \in Packets
    BY <1>4 DEF PushCopy, Stored
  <2>4. end' = tmp[c] /\ tmp' = tmp /\ arg' = arg
    BY <1>4 DEF PushCopy
  <2> QED BY <2>1, <2>2, <2>3, <2>4 DEF Stored
<1>5. ASSUME NEW c \in Pushers, PushStore(c) PROVE Stored'
  <2>1. \A t \in Threads : pc'[t] \notin {"push_store", "pop_store"}
    BY <1>5 DEF PushStore, Exclusive, InSection
  <2>2. \A d \in Pushers : pc'[d] \in Pushing => arg'[d] \in Packets
    BY <1>5 DEF PushStore, Stored
  <2> QED BY <2>1, <2>2 DEF Stored
<1>6. ASSUME NEW r \in Readers,
             PopCall(r) \/ PopEmpty(r) \/ PopAdmitted(r) \/ PopLock(r) \/ PopReturn(r)
      PROVE  Stored'
  BY <1>6 DEF PopCall, PopEmpty, PopAdmitted, PopLock, PopReturn, Stored
<1>7. ASSUME NEW r \in Readers, PopTake(r) PROVE Stored'
  <2>1. \A t \in Threads : pc'[t] \in {"push_store", "pop_store"} => t = r
    BY <1>7 DEF PopTake, Exclusive, InSection
  <2>2. begin' = NextSlot(tmp'[r]) /\ arg' = arg /\ \A c \in Pushers : pc'[c] = pc[c]
    BY <1>7 DEF PopTake
  <2> QED BY <2>1, <2>2 DEF Stored
<1>8. ASSUME NEW r \in Readers, PopStore(r) PROVE Stored'
  <2>1. \A t \in Threads : pc'[t] \notin {"push_store", "pop_store"}
    BY <1>8 DEF PopStore, Exclusive, InSection
  <2>2. arg' = arg /\ \A c \in Pushers : pc'[c] = pc[c]
    BY <1>8 DEF PopStore
  <2> QED BY <2>1, <2>2 DEF Stored
<1>9. CASE QuietReset
  BY <1>9 DEF QuietReset, Reset, Stored
<1>10. CASE UNCHANGED vars
  BY <1>10 DEF Stored
<1> QED
  BY <1>1, <1>2, <1>3, <1>4, <1>5, <1>6, <1>7, <1>8, <1>9, <1>10
     DEF Next, PushStep, PopStep

-----------------------------------------------------------------------------
\* The slot k places behind slot b.
Nth(b, k) == IF b + k < QSIZE THEN b + k ELSE b + k - QSIZE

\* It is what the remainder in Waiting computes.
LEMMA NthMod ==
  ASSUME NEW b \in Slots, NEW k \in 0 .. QSIZE - 1
  PROVE  (b + k) % QSIZE = Nth(b, k)
BY QueueAssumption DEF Nth

\* Different places are different slots, the place after the first is the first
\* of the next slot, and the last of a span is as far as the span is long.
LEMMA NthFacts ==
  ASSUME NEW b \in Slots, NEW k \in 0 .. QSIZE - 1
  PROVE  /\ Nth(b, k) \in Slots
         /\ \A j \in 0 .. QSIZE - 1 : Nth(b, j) = Nth(b, k) => j = k
         /\ k > 0 => Nth(b, k) = Nth(NextSlot(b), k - 1)
         /\ Nth(b, 0) = b
         /\ \A e \in Slots : Span(b, e) = k + 1 => e = Nth(b, k)
BY QueueAssumption DEF Nth, NextSlot, Span

-----------------------------------------------------------------------------
\* Everything the refinement rests on.
Inv == IInv /\ Counted /\ Aligned /\ Stored

LEMMA InitInv == Init => Inv
BY InitIInv, InitStored, QueueAssumption DEF Inv, Init, Counted, Aligned, Moving

LEMMA StepInv == Alone /\ Inv /\ [Next]_vars => Inv'
BY StepIInv, NextCounted, NextAligned, StepStored DEF Inv

\* A reader that has taken a slot and not yet stored the counter holds the
\* oldest packet; otherwise that is the one at `begin'.
OldestHeld ==
  /\ (\A r \in Readers : pc[r] # "pop_store") => Oldest = begin
  /\ \A r \in Readers : pc[r] = "pop_store" => Oldest = tmp[r]

LEMMA OldestIs == Alone => OldestHeld
<1> SUFFICES ASSUME Alone PROVE OldestHeld
  OBVIOUS
<1>1. (\A r \in Readers : pc[r] # "pop_store") => Oldest = begin
  BY DEF Oldest
<1>2. ASSUME NEW r \in Readers, pc[r] = "pop_store" PROVE Oldest = tmp[r]
  <2>1. (CHOOSE q \in Readers : pc[q] = "pop_store") \in Readers
    BY <1>2
  <2>2. (CHOOSE q \in Readers : pc[q] = "pop_store") = r
    BY <2>1 DEF Alone
  <2> QED BY <1>2, <2>2 DEF Oldest
<1> QED BY <1>1, <1>2 DEF OldestHeld

\* The waiting packets without the remainders: slot by slot from the oldest.
InOrder ==
  /\ have \in 0 .. QSIZE
  /\ have # 0 => Oldest \in Slots
  /\ Waiting = [i \in 1 .. have |-> slot[Nth(Oldest, i - 1)].data]

LEMMA WaitingInOrder == Alone /\ Inv => InOrder
<1> SUFFICES ASSUME Alone, Inv PROVE InOrder
  OBVIOUS
<1>1. have \in 0 .. QSIZE
  BY QueueAssumption DEF Inv, IInv, Typed, RingTypeOK, Counted
<1>2. have # 0 => Oldest \in Slots
  BY OldestIs DEF OldestHeld, Inv, IInv, Begun
<1>3. ASSUME NEW i \in 1 .. have PROVE (Oldest + i - 1) % QSIZE = Nth(Oldest, i - 1)
  <2>1. Oldest \in Slots /\ i - 1 \in 0 .. QSIZE - 1
    BY <1>1, <1>2, <1>3, QueueAssumption
  <2>2. Oldest + i - 1 = Oldest + (i - 1)
    BY <2>1
  <2>3. (Oldest + (i - 1)) % QSIZE = Nth(Oldest, i - 1)
    BY <2>1, NthMod
  <2> QED BY <2>2, <2>3
<1> QED BY <1>1, <1>2, <1>3 DEF Waiting, InOrder


\* The same of the next state.
LEMMA NextInOrder == Alone /\ Inv' => InOrder' /\ OldestHeld'
<1>1. (Alone /\ Inv => InOrder)' /\ (Alone => OldestHeld)'
  BY WaitingInOrder, OldestIs, PTL
<1>2. Alone => Alone'
  BY DEF Alone
<1> QED BY <1>1, <1>2

\* A step that leaves the counter, the oldest slot and the bytes of the queued
\* slots alone is no step of the FIFO.
LEMMA Stutters ==
  ASSUME InOrder, InOrder', UNCHANGED <<have, handed>>,
         have # 0 => Oldest' = Oldest,
         \A i \in 1 .. have :
           slot'[Nth(Oldest, i - 1)].data = slot[Nth(Oldest, i - 1)].data
  PROVE  UNCHANGED Fifo!vars
BY DEF InOrder, Fifo!vars

\* The store of the counter is the step of the FIFO, on either side.
LEMMA StepFifo ==
  Alone /\ Inv /\ Inv' /\ [Next]_vars => [Fifo!Next]_(Fifo!vars)
<1> SUFFICES ASSUME Alone, Inv, Inv', [Next]_vars PROVE [Fifo!Next]_(Fifo!vars)
  OBVIOUS
<1> USE QueueAssumption DEF Goto
<1>a. InOrder /\ InOrder' /\ OldestHeld /\ OldestHeld'
  BY WaitingInOrder, OldestIs, NextInOrder
<1>b. IInv /\ Typed /\ Exclusive /\ Begun /\ Counted /\ Aligned /\ Stored
  BY DEF Inv, IInv
<1>1. ASSUME NEW c \in Pushers,
             \/ \E p \in Packets : PushCall(c, p)
             \/ PushRefused(c) \/ PushAdmitted(c) \/ PushLock(c) \/ PushReturn(c)
      PROVE  UNCHANGED Fifo!vars
  <2>1. UNCHANGED <<slot, begin, have, handed>>
    BY <1>1 DEF PushCall, PushRefused, PushAdmitted, PushLock, PushReturn
  <2>2. \A r \in Readers : pc'[r] = pc[r] /\ tmp'[r] = tmp[r]
    BY <1>1, <1>b DEF PushCall, PushRefused, PushAdmitted, PushLock, PushReturn, Typed, RingTypeOK
  <2>3. Oldest' = Oldest
    BY <1>a, <2>1, <2>2 DEF OldestHeld
  <2> QED BY <1>a, <2>1, <2>3, Stutters
<1>2. ASSUME NEW r \in Readers, PopCall(r) \/ PopEmpty(r) \/ PopAdmitted(r)
                                \/ PopLock(r) \/ PopReturn(r)
      PROVE  UNCHANGED Fifo!vars
  <2>1. UNCHANGED <<slot, begin, have, handed>>
    BY <1>2 DEF PopCall, PopEmpty, PopAdmitted, PopLock, PopReturn
  <2>2. \A q \in Readers : pc[q] # "pop_store" /\ pc'[q] # "pop_store"
    BY <1>2, <1>b DEF PopCall, PopEmpty, PopAdmitted, PopLock, PopReturn, Typed, RingTypeOK, Alone
  <2>3. Oldest' = Oldest
    BY <1>a, <2>1, <2>2 DEF OldestHeld
  <2> QED BY <1>a, <2>1, <2>3, Stutters
<1>3. ASSUME NEW c \in Pushers, PushFill(c) PROVE UNCHANGED Fifo!vars
  <2>1. \A r \in Readers : pc[r] # "pop_store" /\ pc'[r] # "pop_store"
    BY <1>3, <1>b DEF PushFill, Exclusive, InSection, Typed, RingTypeOK
  <2>2. UNCHANGED <<have, handed>> /\ (have # 0 => begin' = begin)
    BY <1>3 DEF PushFill
  <2>3. \A i \in Slots : slot'[i].data = slot[i].data
    BY <1>3, <1>b DEF PushFill, Typed, RingTypeOK
  <2>4. have # 0 => Oldest' = Oldest
    BY <1>a, <2>1, <2>2 DEF OldestHeld
  <2>5. ASSUME NEW i \in 1 .. have PROVE Nth(Oldest, i - 1) \in Slots
    <3>1. Oldest \in Slots /\ i - 1 \in 0 .. QSIZE - 1
      BY <1>a, <2>5 DEF InOrder
    <3> QED BY <3>1, NthFacts
  <2> QED BY <1>a, <2>2, <2>3, <2>4, <2>5, Stutters
<1>4. ASSUME NEW c \in Pushers, PushCopy(c) PROVE UNCHANGED Fifo!vars
  <2>1. \A r \in Readers : pc[r] # "pop_store" /\ pc'[r] # "pop_store"
    BY <1>4, <1>b DEF PushCopy, Exclusive, InSection, Typed, RingTypeOK
  <2>2. UNCHANGED <<have, handed, begin>> /\ Oldest = begin /\ Oldest' = begin
    BY <1>4, <1>a, <2>1 DEF PushCopy, OldestHeld
  <2>3. have \in 0 .. QSIZE - 1 /\ begin \in Slots /\ tmp[c] \in Slots
    BY <1>4, <1>a, <1>b DEF PushCopy, Counted, Begun, InOrder
  <2>4. tmp[c] = Nth(begin, have)
    BY <1>4, <1>b, <2>3, NthFacts DEF PushCopy, Aligned
  <2>5. ASSUME NEW i \in 1 .. have
        PROVE  Nth(begin, i - 1) \in Slots /\ Nth(begin, i - 1) # tmp[c]
    <3>1. i - 1 \in 0 .. QSIZE - 1 /\ i - 1 # have
      BY <2>3
    <3>2. Nth(begin, i - 1) \in Slots
      BY <2>3, <3>1, NthFacts
    <3>3. Nth(begin, i - 1) # Nth(begin, have)
      BY <2>3, <3>1, NthFacts
    <3> QED BY <2>4, <3>2, <3>3
  <2>6. \A i \in Slots : i # tmp[c] => slot'[i] = slot[i]
    BY <1>4, <1>b DEF PushCopy, Typed, RingTypeOK
  <2> QED BY <1>a, <2>2, <2>5, <2>6, Stutters
<1>5. ASSUME NEW r \in Readers, PopTake(r) PROVE UNCHANGED Fifo!vars
  <2>1. \A q \in Readers : pc[q] # "pop_store"
    BY <1>5, <1>b DEF PopTake, Exclusive, InSection
  <2>2. pc'[r] = "pop_store" /\ tmp'[r] = begin
    BY <1>5, <1>b DEF PopTake, Typed, RingTypeOK
  <2>3. Oldest' = Oldest
    BY <1>a, <2>1, <2>2 DEF OldestHeld
  <2> QED BY <1>5, <1>a, <2>3, Stutters DEF PopTake
<1>6. CASE UNCHANGED vars
  <2>1. Oldest' = Oldest
    BY <1>6 DEF Oldest
  <2> QED BY <1>6, <1>a, <2>1, Stutters
<1>7. ASSUME NEW c \in Pushers, PushStore(c) PROVE Fifo!Put(arg[c]) /\ arg[c] \in Packets
  <2>1. \A r \in Readers : pc[r] # "pop_store" /\ pc'[r] # "pop_store"
    BY <1>7, <1>b DEF PushStore, Exclusive, InSection, Typed, RingTypeOK
  <2>2. UNCHANGED <<slot, handed, begin>> /\ Oldest = begin /\ Oldest' = begin
    BY <1>7, <1>a, <2>1 DEF PushStore, OldestHeld
  <2>3. have' = have + 1 /\ have \in 0 .. QSIZE - 1 /\ begin \in Slots
    BY <1>7, <1>a, <1>b, ModSmall DEF PushStore, Counted, Begun, InOrder, Typed, RingTypeOK
  <2>4. arg[c] \in Packets /\ end \in Slots /\ slot[end].data = arg[c]
    BY <1>7, <1>b DEF PushStore, Stored, Pushing, Aligned
  <2>5. end = Nth(begin, have)
    <3>1. Span(begin, end) = have + 1
      BY <1>7, <1>b DEF PushStore, Aligned
    <3> QED BY <2>3, <2>4, <3>1, NthFacts
  <2>6. Waiting = [i \in 1 .. have |-> slot[Nth(begin, i - 1)].data]
    BY <1>a, <2>2 DEF InOrder
  <2>7. Waiting' = [i \in 1 .. have + 1 |-> slot[Nth(begin, i - 1)].data]
    BY <1>a, <2>2, <2>3 DEF InOrder
  <2>8. Len(Waiting) = have
    BY <2>3, <2>6
  <2>9. Waiting' = Append(Waiting, arg[c])
    BY <2>3, <2>4, <2>5, <2>6, <2>7, <2>8
  <2> QED BY <2>2, <2>3, <2>4, <2>8, <2>9 DEF Fifo!Put
<1>8. ASSUME NEW r \in Readers, PopStore(r) PROVE Fifo!Take(r)
  <2>1. \A q \in Readers : pc'[q] # "pop_store"
    BY <1>8, <1>b DEF PopStore, Typed, RingTypeOK, Alone
  <2>2. slot' = slot /\ Oldest = tmp[r] /\ Oldest' = begin /\ tmp[r] \in Slots
    BY <1>8, <1>a, <1>b, <2>1 DEF PopStore, OldestHeld, Begun
  <2>3. have' = have - 1 /\ have \in 1 .. QSIZE /\ begin = NextSlot(tmp[r])
    BY <1>8, <1>a, <1>b, ModSmall DEF PopStore, Counted, Stored, InOrder, Typed, RingTypeOK
  <2>4. Waiting = [i \in 1 .. have |-> slot[Nth(tmp[r], i - 1)].data]
    BY <1>a, <2>2 DEF InOrder
  <2>5. Waiting' = [i \in 1 .. have - 1 |-> slot[Nth(begin, i - 1)].data]
    BY <1>a, <2>2, <2>3 DEF InOrder
  <2>6. ASSUME NEW i \in 1 .. have - 1 PROVE Nth(begin, i - 1) = Nth(tmp[r], i)
    <3>1. i \in 0 .. QSIZE - 1 /\ i > 0
      BY <2>3
    <3> QED BY <2>2, <2>3, <3>1, NthFacts
  <2>7. Waiting # <<>> /\ Waiting' = Tail(Waiting)
    BY <2>3, <2>4, <2>5, <2>6
  <2>8. Head(Waiting) = slot[tmp[r]].data
    <3>1. Waiting[1] = slot[Nth(tmp[r], 0)].data
      BY <2>3, <2>4
    <3>2. Nth(tmp[r], 0) = tmp[r]
      BY <2>2 DEF Nth
    <3>3. Head(Waiting) = Waiting[1]
      BY <2>4
    <3> QED BY <3>1, <3>2, <3>3
  <2> QED BY <1>8, <2>7, <2>8 DEF PopStore, Fifo!Take
<1>9. CASE QuietReset
  <2>1. have' = 0 /\ handed' = handed
    BY <1>9 DEF QuietReset, Reset
  <2>2. Waiting' = <<>>
    BY <1>a, <2>1 DEF InOrder
  <2> QED BY <2>1, <2>2 DEF Fifo!Clear, Fifo!Next
<1> QED
  BY <1>1, <1>2, <1>3, <1>4, <1>5, <1>6, <1>7, <1>8, <1>9
     DEF Next, PushStep, PopStep, Fifo!Next


(***************************************************************************)
(* xsky_queue_push and xsky_queue_pop, one CPU and one reader: what was    *)
(* pushed is popped in order, none lost and none twice, though the tests   *)
(* are made without the lock and the counter is moved in two steps.        *)
(***************************************************************************)
THEOREM QueueIsFifo == ASSUME Alone PROVE Spec => ImplementsFifo
<1>1. Init => Fifo!Init
  BY QueueAssumption DEF Init, Fifo!Init, Waiting
<1>2. Inv /\ Inv' /\ [Next]_vars => [Fifo!Next]_(Fifo!vars)
  BY StepFifo
<1>3. Inv /\ [Next]_vars => Inv'
  BY StepInv
<1> QED BY InitInv, <1>1, <1>2, <1>3, PTL DEF Spec, ImplementsFifo, Fifo!Spec

HIDE DEF Slots, NoSlot, Threads, PushInner, PopInner, ringVars, localVars, vars

-----------------------------------------------------------------------------
(* The device *)


\* What the arguments need of the types: the functions are functions.
Shaped ==
  /\ pc \in [Threads -> HookStates \cup FileStates]
  /\ inq \in [Readers -> {"none", "waiting", "woken"}]
  /\ fd \subseteq Readers

\* A program that holds the device busy is not on its way out.
Owned == flock_flag = 1 => \E x \in fd : pc[x] # "reset"

USE DEF Threads, Goto, ringVars, localVars, deviceVars

-----------------------------------------------------------------------------
\* The hook, whatever it does, leaves the programs alone but for waking them.
LEMMA HookSteps ==
  ASSUME Shaped, QueueAssumption, NEW c \in Pushers,
         HookStep(c) \/ \E p \in Packets : HookIn(c, p)
  PROVE  /\ Shaped'
         /\ UNCHANGED <<flock_flag, fd>>
         /\ \A t \in Threads : t # c => pc'[t] = pc[t]
<1>1. CASE HookAccept(c) \/ HookPush(c) \/ HookRefused(c) \/ HookQueued(c)
  BY <1>1 DEF HookAccept, HookPush, HookRefused, HookQueued, WakeUp,
              Shaped, HookStates, PushStates
<1>2. CASE PushStep(c) /\ UNCHANGED deviceVars
  BY <1>2 DEF PushStep, PushRefused, PushAdmitted, PushLock, PushFill, PushCopy,
              PushStore, Shaped, HookStates, PushStates
<1>3. CASE \E p \in Packets : HookIn(c, p)
  BY <1>3 DEF HookIn, Shaped, HookStates
<1> QED BY <1>1, <1>2, <1>3 DEF HookStep

\* A step of one program leaves the others where they are.
LEMMA FileSteps ==
  ASSUME Shaped, NEW r \in Readers, FileCall(r) \/ FileStep(r)
  PROVE  /\ Shaped'
         /\ \A t \in Threads : t # r => pc'[t] = pc[t]
<1>1. CASE FileCall(r)
  BY <1>1 DEF FileCall, OpenCheck, ReleaseFlag, PollWait, PollTimeout, ReadCall,
              PopCall, Shaped, FileStates, PopStates
<1>2. CASE OpenSet(r) \/ ReleaseReset(r) \/ PollReady(r) \/ PollSleep(r) \/ PollWoken(r)
  BY <1>2 DEF OpenSet, ReleaseReset, PollReady, PollSleep, PollWoken,
              Shaped, FileStates, PopStates
<1>3. CASE PopStep(r) /\ UNCHANGED deviceVars
  BY <1>3 DEF PopStep, PopEmpty, PopAdmitted, PopLock, PopTake, PopStore,
              Shaped, FileStates, PopStates
<1>4. CASE ReadEmpty(r) \/ CopyLen(r) \/ CopyData(r) \/ ReadReturn(r) \/ ReadFault(r)
  BY <1>4 DEF ReadEmpty, CopyLen, CopyData, ReadReturn, ReadFault,
              Shaped, FileStates, PopStates
<1> QED BY <1>1, <1>2, <1>3, <1>4 DEF FileStep

LEMMA InitShaped == DeviceInit => Shaped
BY DEF DeviceInit, Init, Shaped, HookStates, PushStates

LEMMA StepShaped == Shaped /\ [DeviceNext]_allVars => Shaped'
<1>1. CASE UNCHANGED allVars
  BY <1>1 DEF allVars, vars, Shaped
<1> QED BY <1>1, HookSteps, FileSteps, QueueAssumption DEF DeviceNext

-----------------------------------------------------------------------------
\* chr_release clears the flag before the file is gone, chr_open sets it on
\* behalf of a file that is there: between the two somebody else may do either.
LEMMA StepOwned == Shaped /\ Owned /\ [DeviceNext]_allVars => Owned'
<1> SUFFICES ASSUME Shaped, Owned, [DeviceNext]_allVars PROVE Owned'
  OBVIOUS
<1>1. ASSUME NEW c \in Pushers, HookStep(c) \/ \E p \in Packets : HookIn(c, p)
      PROVE  Owned'
  BY <1>1, HookSteps, QueueAssumption DEF Owned, Shaped
<1>2. ASSUME NEW r \in Readers, OpenSet(r) PROVE Owned'
  BY <1>2 DEF OpenSet, Owned, Shaped
<1>3. ASSUME NEW r \in Readers, ReleaseFlag(r) PROVE Owned'
  BY <1>3 DEF ReleaseFlag, Owned
<1>4. ASSUME NEW r \in Readers, ReleaseReset(r) PROVE Owned'
  BY <1>4 DEF ReleaseReset, Owned, Shaped
<1>5. ASSUME NEW r \in Readers, FileCall(r) \/ FileStep(r),
             ~OpenSet(r), ~ReleaseFlag(r), ~ReleaseReset(r)
      PROVE  Owned'
  <2>1. UNCHANGED <<flock_flag, fd>> /\ pc'[r] # "reset"
    <3>1. CASE FileCall(r)
      BY <1>5, <3>1 DEF FileCall, OpenCheck, PollWait, PollTimeout, ReadCall,
                        PopCall, Shaped
    <3>2. CASE PollReady(r) \/ PollSleep(r) \/ PollWoken(r) \/ ReadEmpty(r)
               \/ CopyLen(r) \/ CopyData(r) \/ ReadReturn(r) \/ ReadFault(r)
      BY <3>2 DEF PollReady, PollSleep, PollWoken, ReadEmpty, CopyLen, CopyData,
                  ReadReturn, ReadFault, Shaped
    <3>3. CASE PopStep(r) /\ UNCHANGED deviceVars
      BY <3>3 DEF PopStep, PopEmpty, PopAdmitted, PopLock, PopTake, PopStore, Shaped
    <3> QED BY <1>5, <3>1, <3>2, <3>3 DEF FileStep
  <2>2. \A t \in Threads : t # r => pc'[t] = pc[t]
    BY <1>5, FileSteps
  <2> QED BY <2>1, <2>2 DEF Owned, Shaped
<1>6. CASE UNCHANGED allVars
  BY <1>6 DEF allVars, vars, Owned
<1> QED BY <1>1, <1>2, <1>3, <1>4, <1>5, <1>6 DEF DeviceNext

(***************************************************************************)
(* With any number of programs opening and closing the device in any       *)
(* order, chr_open answers -EBUSY only while somebody has it open.         *)
(***************************************************************************)
THEOREM NeverStuckBusy == DeviceSpec => []NoStuckBusy
<1>1. DeviceInit => Owned
  BY DEF DeviceInit, Owned
<1>2. Owned => NoStuckBusy
  BY DEF Owned, NoStuckBusy
<1> QED BY InitShaped, StepShaped, StepOwned, <1>1, <1>2, PTL DEF DeviceSpec

-----------------------------------------------------------------------------
\* A lone reader that sleeps is not popping, so only a push can give it
\* packets, and between its store and its wake-up a push is at `push_ok'.
LEMMA StepTold ==
  ASSUME \A r, q \in Readers : r = q
  PROVE  Shaped /\ NoLostWakeup /\ [DeviceNext]_allVars => NoLostWakeup'
<1> SUFFICES ASSUME Shaped, NoLostWakeup, [DeviceNext]_allVars PROVE NoLostWakeup'
  OBVIOUS
<1>1. ASSUME NEW c \in Pushers, HookQueued(c) PROVE NoLostWakeup'
  BY <1>1 DEF HookQueued, WakeUp, NoLostWakeup, Shaped
<1>2. ASSUME NEW c \in Pushers, PushStore(c) PROVE NoLostWakeup'
  BY <1>2 DEF PushStore, NoLostWakeup, Shaped
<1>3. ASSUME NEW c \in Pushers, HookStep(c) \/ \E p \in Packets : HookIn(c, p),
             ~HookQueued(c), ~PushStore(c)
      PROVE  NoLostWakeup'
  <2>1. UNCHANGED <<have, inq>> /\ pc[c] # "push_ok"
    BY <1>3 DEF HookStep, HookIn, HookAccept, HookPush, HookRefused, PushStep,
                PushRefused, PushAdmitted, PushLock, PushFill, PushCopy
  <2>2. \A t \in Threads : t # c => pc'[t] = pc[t]
    BY <1>3, HookSteps, QueueAssumption
  <2> QED BY <2>1, <2>2, QueueAssumption DEF NoLostWakeup, Shaped
<1>4. ASSUME NEW r \in Readers, PollSleep(r) PROVE NoLostWakeup'
  BY <1>4 DEF PollSleep, NoLostWakeup, Shaped
<1>5. ASSUME NEW r \in Readers, FileCall(r) \/ FileStep(r), ~PollSleep(r)
      PROVE  NoLostWakeup'
  <2>1. pc'[r] # "asleep"
    <3>1. CASE FileCall(r)
      BY <3>1 DEF FileCall, OpenCheck, ReleaseFlag, PollWait, PollTimeout, ReadCall,
                  PopCall, Shaped
    <3>2. CASE OpenSet(r) \/ ReleaseReset(r) \/ PollReady(r) \/ PollWoken(r)
               \/ ReadEmpty(r) \/ CopyLen(r) \/ CopyData(r) \/ ReadReturn(r)
               \/ ReadFault(r)
      BY <3>2 DEF OpenSet, ReleaseReset, PollReady, PollWoken, ReadEmpty, CopyLen,
                  CopyData, ReadReturn, ReadFault, Shaped
    <3>3. CASE PopStep(r)
      BY <3>3 DEF PopStep, PopEmpty, PopAdmitted, PopLock, PopTake, PopStore, Shaped
    <3> QED BY <1>5, <3>1, <3>2, <3>3 DEF FileStep
  <2> QED BY <2>1 DEF NoLostWakeup
<1>6. CASE UNCHANGED allVars
  BY <1>6 DEF allVars, vars, NoLostWakeup
<1> QED BY <1>1, <1>2, <1>3, <1>4, <1>5, <1>6 DEF DeviceNext

(***************************************************************************)
(* The one program that has the device open is never left asleep in poll   *)
(* with packets waiting and nobody about to wake it, however many CPUs     *)
(* queue packets.                                                          *)
(***************************************************************************)
THEOREM WakeupsAreKept ==
  ASSUME \A r, q \in Readers : r = q
  PROVE  DeviceSpec => []NoLostWakeup
<1>1. DeviceInit => NoLostWakeup
  BY DEF DeviceInit, Init, NoLostWakeup
<1> QED BY InitShaped, StepShaped, StepTold, <1>1, PTL DEF DeviceSpec

-----------------------------------------------------------------------------
(***************************************************************************)
(* The device's steps seen from the ring: push, pop, something that does   *)
(* not touch the ring, and the reset of chr_release.                       *)
(***************************************************************************)
USE DEF Slots, NoSlot, PushInner, PopInner, vars

\* Hooks push and programs read; a program that is anywhere but before or in
\* its chr_open has a file.
Placed ==
  /\ \A c \in Pushers : pc[c] \in HookStates
  /\ \A r \in Readers :
       pc[r] \in FileStates /\ (pc[r] \notin {"idle", "open_set"} => r \in fd)

LEMMA HookOnRing ==
  ASSUME Shaped, IInv, Placed, NEW c \in Pushers,
         HookStep(c) \/ \E p \in Packets : HookIn(c, p)
  PROVE  /\ Placed'
         /\ QueueStep
         /\ UNCHANGED <<fd, late, shared>>
<1> USE QueueAssumption DEF IInv
<1>0. Shaped' /\ \A t \in Threads : t # c => pc'[t] = pc[t]
  BY HookSteps
<1>1. ASSUME \/ HookAccept(c) \/ HookPush(c) \/ HookRefused(c) \/ HookQueued(c)
             \/ \E p \in Packets : HookIn(c, p)
      PROVE  Placed' /\ Outside(c) /\ UNCHANGED <<fd, late, shared>>
  <2>1. /\ pc[c] \in {"idle", "filter", "push_err", "push_ok"}
        /\ pc'[c] \in {"filter", "idle", "push_check"}
        /\ UNCHANGED <<ringVars, tmp, reg, handed, fd, late, shared>>
    BY <1>1 DEF HookAccept, HookPush, HookRefused, HookQueued, HookIn, Shaped
  <2>2. arg' \in [Threads -> Packets \cup {NoPacket}]
        /\ \A t \in Threads : t # c => arg'[t] = arg[t]
    <3>1. arg \in [Threads -> Packets \cup {NoPacket}]
      BY DEF Typed, RingTypeOK
    <3>2. arg' = arg \/ \E p \in Packets \cup {NoPacket} : arg' = [arg EXCEPT ![c] = p]
      BY <1>1 DEF HookAccept, HookPush, HookRefused, HookQueued, HookIn
    <3> QED BY <3>1, <3>2
  <2>3. Placed'
    BY <1>0, <2>1 DEF Placed, HookStates, PushStates
  <2>4. pc' \in [Threads -> States]
    BY <1>0 DEF Shaped, States, HookStates, FileStates
  <2>5. Outside(c)
    BY <1>0, <2>1, <2>2, <2>4 DEF Typed, RingTypeOK, Outside
  <2> QED BY <2>1, <2>3, <2>5
<1>2. ASSUME PushStep(c), UNCHANGED deviceVars
      PROVE  Placed' /\ UNCHANGED <<fd, late, shared>>
  <2>1. pc'[c] \in PushStates
    BY <1>2 DEF PushStep, PushRefused, PushAdmitted, PushLock, PushFill, PushCopy,
                PushStore, PushStates, Shaped
  <2> QED BY <1>0, <1>2, <2>1 DEF Placed, HookStates
<1> QED BY <1>1, <1>2 DEF HookStep, QueueStep

\* A step of pop is nothing else: the states it starts from are its own.
LEMMA PopAlone ==
  ASSUME NEW r \in Readers, FileCall(r) \/ FileStep(r), PopStep(r)
  PROVE  UNCHANGED deviceVars
<1>1. PopStep(r) => pc[r] \in {"pop_check", "pop_lock", "pop_take", "pop_store"}
  BY DEF PopStep, PopEmpty, PopAdmitted, PopLock, PopTake, PopStore
<1>2. FileCall(r) => pc[r] \in {"idle", "asleep"}
  BY DEF FileCall, OpenCheck, ReleaseFlag, PollWait, PollTimeout, ReadCall, PopCall
<1>3. OpenSet(r) \/ ReleaseReset(r) \/ PollReady(r) \/ PollSleep(r) \/ PollWoken(r)
      => pc[r] \in {"open_set", "reset", "poll_check", "asleep"}
  BY DEF OpenSet, ReleaseReset, PollReady, PollSleep, PollWoken
<1>4. ReadEmpty(r) \/ CopyLen(r) \/ CopyData(r) \/ ReadReturn(r) \/ ReadFault(r)
      => pc[r] \in {"pop_null", "popped", "copying", "copied"}
  BY DEF ReadEmpty, CopyLen, CopyData, ReadReturn, ReadFault
<1> QED BY <1>1, <1>2, <1>3, <1>4 DEF FileStep

\* What a program does that is neither a pop nor the reset.
LEMMA FileElsewhere ==
  ASSUME Shaped, IInv, Placed, NEW r \in Readers, FileCall(r) \/ FileStep(r),
         ~PopStep(r), ~ReleaseReset(r)
  PROVE  /\ UNCHANGED <<ringVars, arg, reg, handed, late>>
         /\ pc[r] \notin PopInner
         /\ pc'[r] \in FileStates \ (PopInner \cup {"popped"})
         /\ pc'[r] \notin {"idle", "open_set"} => r \in fd
         /\ tmp' \in [Threads -> Slots \cup {NoSlot}]
         /\ \A t \in Threads : t # r => tmp'[t] = tmp[t]
         /\ fd' = fd \/ OpenSet(r)
         /\ shared' = shared \/ OpenSet(r)
<1> USE QueueAssumption
<1>1. pc[r] \notin {"idle", "open_set"} => r \in fd
  BY DEF Placed
<1>2. tmp \in [Threads -> Slots \cup {NoSlot}]
  BY DEF IInv, Typed, RingTypeOK
<1>3. CASE OpenCheck(r) \/ ReleaseFlag(r) \/ OpenSet(r)
  BY <1>2, <1>3 DEF OpenCheck, ReleaseFlag, OpenSet, FileStates, PopStates, Shaped
<1>4. CASE PollWait(r) \/ PollTimeout(r)
  BY <1>2, <1>4 DEF PollWait, PollTimeout, FileStates, PopStates, Shaped
<1>5. CASE PollReady(r) \/ PollSleep(r) \/ PollWoken(r)
  BY <1>1, <1>2, <1>5 DEF PollReady, PollSleep, PollWoken, FileStates, PopStates, Shaped
<1>6. CASE ReadCall(r) \/ ReadEmpty(r)
  BY <1>2, <1>6 DEF ReadCall, PopCall, ReadEmpty, FileStates, PopStates, Shaped
<1>7. CASE CopyLen(r) \/ CopyData(r)
  BY <1>1, <1>2, <1>7 DEF CopyLen, CopyData, FileStates, PopStates, Shaped
<1>8. CASE ReadReturn(r) \/ ReadFault(r)
  BY <1>2, <1>8 DEF ReadReturn, ReadFault, FileStates, PopStates, Shaped
<1> QED BY <1>3, <1>4, <1>5, <1>6, <1>7, <1>8 DEF FileCall, FileStep

LEMMA FileOnRing ==
  ASSUME Shaped, IInv, Placed, NEW r \in Readers, FileCall(r) \/ FileStep(r)
  PROVE  /\ Placed'
         /\ \/ QueueStep /\ UNCHANGED late /\ (shared => shared')
            \/ ReleaseReset(r) /\ Cleared
<1> USE QueueAssumption
<1>0. Shaped' /\ \A t \in Threads : t # r => pc'[t] = pc[t]
  BY FileSteps
<1>1. pc' \in [Threads -> States]
  BY <1>0 DEF Shaped, States, HookStates, FileStates
<1>2. ASSUME ~PopStep(r), ~ReleaseReset(r)
      PROVE  Placed' /\ Outside(r) /\ UNCHANGED late /\ (shared => shared')
  <2>1. fd \subseteq fd' /\ (shared => shared')
    BY <1>2, FileElsewhere DEF OpenSet
  <2>2. Placed'
    BY <1>0, <1>2, <2>1, FileElsewhere DEF Placed
  <2>3. pc[r] \notin PushInner /\ pc'[r] \notin PushInner
    BY <1>2, FileElsewhere DEF Placed, FileStates, PopStates
  <2>4. Outside(r)
    BY <1>0, <1>1, <1>2, <2>3, FileElsewhere DEF IInv, Typed, RingTypeOK, Outside
  <2> QED BY <1>2, <2>1, <2>2, <2>4, FileElsewhere
<1>3. ASSUME PopStep(r), UNCHANGED deviceVars
      PROVE  Placed' /\ UNCHANGED <<late, shared>>
  <2>1. pc[r] \notin {"idle", "open_set"} /\ pc'[r] \in PopStates
    BY <1>3 DEF PopStep, PopEmpty, PopAdmitted, PopLock, PopTake, PopStore, PopStates, Shaped
  <2> QED BY <1>0, <1>3, <2>1 DEF Placed, FileStates
<1>4. ASSUME ReleaseReset(r) PROVE Placed' /\ Cleared
  <2>1. pc[r] = "reset" /\ pc'[r] = "idle" /\ fd' = fd \ {r}
    BY <1>4 DEF ReleaseReset, Shaped
  <2>2. Placed'
    BY <1>0, <2>1 DEF Placed, FileStates, PopStates
  <2>3. Cleared
    BY <1>0, <1>1, <1>4, <2>1 DEF ReleaseReset, Cleared
  <2> QED BY <2>2, <2>3
<1>5. PopStep(r) => UNCHANGED deviceVars
  BY PopAlone
<1> QED BY <1>2, <1>3, <1>4, <1>5 DEF QueueStep

LEMMA DeviceSteps ==
  ASSUME Shaped, IInv, Placed, [DeviceNext]_allVars
  PROVE  /\ Placed'
         /\ \/ QueueStep /\ UNCHANGED late /\ (shared => shared')
            \/ \E r \in Readers : ReleaseReset(r) /\ Cleared
<1>1. CASE UNCHANGED allVars
  <2>1. Placed' /\ UNCHANGED vars /\ UNCHANGED <<late, shared>>
    BY <1>1 DEF allVars, Placed
  <2> QED BY <2>1 DEF QueueStep
<1> QED BY <1>1, HookOnRing, FileOnRing DEF DeviceNext

-----------------------------------------------------------------------------
\* Everything that holds whatever opens, closes and packets overlap.
Base == Shaped /\ IInv /\ Placed

LEMMA InitBase == DeviceInit => Base
<1>1. DeviceInit => IInv
  BY InitIInv DEF DeviceInit
<1>2. DeviceInit => Placed
  BY QueueAssumption DEF DeviceInit, Init, Placed, HookStates, PushStates, FileStates, PopStates
<1> QED BY <1>1, <1>2, InitShaped DEF Base

LEMMA PlacedRoles == Placed => Roles
BY DEF Placed, Roles, HookStates, PushStates, FileStates, PopStates

LEMMA StepBase == Base /\ [DeviceNext]_allVars => Base'
<1> SUFFICES ASSUME Base, [DeviceNext]_allVars PROVE Base'
  OBVIOUS
<1>1. Placed' /\ (QueueStep \/ Cleared)
  BY DeviceSteps DEF Base
<1>2. Roles'
  <2>1. (Placed => Roles)'
    BY PlacedRoles, PTL
  <2> QED BY <1>1, <2>1
<1>3. IInv'
  BY <1>1, <1>2, StepKeepsIInv DEF Base
<1> QED BY <1>1, <1>3, StepShaped DEF Base

(***************************************************************************)
(* Whatever the programs of the device do, resets that race with hooks     *)
(* included: a slot no push is filling holds the size and the bytes of one *)
(* packet.                                                                 *)
(***************************************************************************)
THEOREM SlotsWholeInDevice == DeviceSpec => []SlotsWhole
<1>1. Base => SlotsWhole
  BY SlotsAreWhole DEF Base
<1> QED BY InitBase, StepBase, <1>1, PTL DEF DeviceSpec

-----------------------------------------------------------------------------
\* A reset that is not late met nobody in the ring, and the one file it closed
\* was the only one.
LEMMA TimelyReset ==
  ASSUME Base, NEW r \in Readers, ReleaseReset(r), ~late'
  PROVE  /\ Quiet
         /\ fd = {r} /\ fd' = {}
         /\ \A c \in Pushers : pc'[c] = "idle"
         /\ \A q \in Readers : pc'[q] \in {"idle", "open_set"}
<1>1. fd = {r} /\ (\A c \in Pushers : pc[c] = "idle") /\ fd' = {}
  BY DEF ReleaseReset
<1>2. \A q \in Readers : q # r => pc[q] \in {"idle", "open_set"}
  BY <1>1 DEF Base, Placed
<1>3. pc[r] = "reset" /\ pc' = [pc EXCEPT ![r] = "idle"]
  BY DEF ReleaseReset
<1> QED BY <1>1, <1>2, <1>3, QueueAssumption DEF Base, Shaped, Quiet

(***************************************************************************)
(* Any number of CPUs and programs, on a machine whose word the ring       *)
(* divides: as long as no reset overlapped a hook or a read, `have' agrees *)
(* with `begin' and `end' modulo the ring.                                 *)
(***************************************************************************)
THEOREM CongruentWithoutLate ==
  ASSUME Divides PROVE DeviceSpec => []CongruentUnlessLate
<1>1. DeviceInit => (~late => Congruent)
  BY DEF DeviceInit, Init, Congruent, Moving
<1>2. Base /\ (~late => Congruent) /\ [DeviceNext]_allVars => (~late => Congruent)'
  <2> SUFFICES ASSUME Base, ~late => Congruent, [DeviceNext]_allVars, ~late'
               PROVE  Congruent'
    OBVIOUS
  <2>1. ASSUME QueueStep, UNCHANGED late PROVE Congruent'
    BY <2>1, StepCongruent DEF Base
  <2>2. ASSUME NEW r \in Readers, ReleaseReset(r), Cleared PROVE Congruent'
    BY <2>2, TimelyReset, QuietCongruent
  <2> QED BY <2>1, <2>2, DeviceSteps DEF Base
<1>3. Base /\ (~late => Congruent) => CongruentUnlessLate
  BY CongruentRing DEF Base, CongruentUnlessLate
<1> QED BY InitBase, StepBase, <1>1, <1>2, <1>3, PTL DEF DeviceSpec

-----------------------------------------------------------------------------
OneCpu == \A c, d \in Pushers : c = d

\* No second file is open unless the history says so.
Solo == ~shared => \A x, y \in fd : x = y

LEMMA StepSolo == Base /\ Solo /\ [DeviceNext]_allVars => Solo'
<1> SUFFICES ASSUME Base, Solo, [DeviceNext]_allVars PROVE Solo'
  OBVIOUS
<1>1. ASSUME NEW c \in Pushers, HookStep(c) \/ \E p \in Packets : HookIn(c, p)
      PROVE  Solo'
  BY <1>1, HookOnRing DEF Base, Solo
<1>2. ASSUME NEW r \in Readers, OpenSet(r) \/ ReleaseReset(r) PROVE Solo'
  BY <1>2 DEF OpenSet, ReleaseReset, Solo
<1>3. ASSUME NEW r \in Readers, FileCall(r) \/ FileStep(r), ~OpenSet(r), ~ReleaseReset(r)
      PROVE  Solo'
  <2>1. UNCHANGED <<fd, shared>>
    <3>1. CASE PopStep(r)
      BY <1>3, <3>1, PopAlone
    <3>2. CASE ~PopStep(r)
      BY <1>3, <3>2, FileElsewhere DEF Base
    <3> QED BY <3>1, <3>2
  <2> QED BY <2>1 DEF Solo
<1>4. CASE UNCHANGED allVars
  BY <1>4 DEF allVars, Solo
<1> QED BY <1>1, <1>2, <1>3, <1>4 DEF DeviceNext

LEMMA SoloOne ==
  ASSUME OneCpu, Base, Solo, ~shared PROVE OneEach
BY DEF OneCpu, Base, Placed, Solo, OneEach

\* One CPU: the ring counts as it does for one reader until the history says
\* otherwise.
InStep == ~late /\ ~shared => Counted /\ Aligned

LEMMA StepInStep ==
  ASSUME OneCpu, Base, Solo, InStep, [DeviceNext]_allVars PROVE InStep'
<1> SUFFICES ASSUME ~late', ~shared' PROVE Counted' /\ Aligned'
  BY DEF InStep
<1>1. ASSUME QueueStep, UNCHANGED late, shared => shared' PROVE Counted' /\ Aligned'
  <2>1. OneEach /\ Counted /\ Aligned
    BY <1>1, SoloOne DEF InStep
  <2> QED BY <1>1, <2>1, StepCounted, StepAligned DEF Base
<1>2. ASSUME NEW r \in Readers, ReleaseReset(r), Cleared PROVE Counted' /\ Aligned'
  BY <1>2, TimelyReset, QuietCounted, QuietAligned
<1> QED BY <1>1, <1>2, DeviceSteps DEF Base

(***************************************************************************)
(* One CPU, any number of programs: unless a reset overlapped a hook, or   *)
(* two programs had the device open at once, what lies between `begin' and *)
(* `end' is what `have' says whenever the lock is free.                    *)
(***************************************************************************)
THEOREM AlignedWithoutLate ==
  ASSUME OneCpu PROVE DeviceSpec => []AlignedUnlessLate
<1>1. DeviceInit => Solo /\ InStep
  BY QueueAssumption DEF DeviceInit, Init, Solo, InStep, Counted, Aligned, Moving
<1>2. Base /\ Solo /\ InStep /\ [DeviceNext]_allVars => InStep'
  BY StepInStep
<1>3. Base /\ InStep => AlignedUnlessLate
  BY AlignedShape DEF Base, InStep, AlignedUnlessLate
<1> QED BY InitBase, StepBase, StepSolo, <1>1, <1>2, <1>3, PTL DEF DeviceSpec

-----------------------------------------------------------------------------
\* Once every file is closed, a reset that was not late has emptied the queue
\* and nobody is about to fill it.
Drained == fd = {} /\ ~late => have = 0 /\ \A c \in Pushers : pc[c] = "idle"

LEMMA StepDrained ==
  ASSUME Base, Owned, Drained, [DeviceNext]_allVars PROVE Drained'
<1> SUFFICES ASSUME fd' = {}, ~late'
             PROVE  have' = 0 /\ \A c \in Pushers : pc'[c] = "idle"
  BY DEF Drained
<1> USE QueueAssumption
<1>1. ASSUME NEW c \in Pushers, HookStep(c) \/ \E p \in Packets : HookIn(c, p)
      PROVE  FALSE
  <2>1. fd = {} /\ ~late
    BY <1>1, HookOnRing DEF Base
  <2>2. pc[c] = "idle" /\ flock_flag # 1
    BY <2>1 DEF Drained, Owned
  <2> QED BY <1>1, <2>2 DEF HookIn, HookStep, HookAccept, HookPush, PushStep, PushRefused,
                PushAdmitted, PushLock, PushFill, PushCopy, PushStore, HookRefused, HookQueued
<1>2. ASSUME NEW r \in Readers, ReleaseReset(r)
      PROVE  have' = 0 /\ \A c \in Pushers : pc'[c] = "idle"
  BY <1>2, TimelyReset DEF ReleaseReset
<1>3. ASSUME NEW r \in Readers, FileCall(r) \/ FileStep(r), ~ReleaseReset(r)
      PROVE  have' = 0 /\ \A c \in Pushers : pc'[c] = "idle"
  <2>1. ~OpenSet(r)
    BY DEF OpenSet
  <2>2. ~PopStep(r)
    <3> SUFFICES ASSUME PopStep(r) PROVE FALSE
      OBVIOUS
    <3>1. fd = {}
      BY <1>3, PopAlone
    <3>2. pc[r] \in {"idle", "open_set"}
      BY <3>1 DEF Base, Placed
    <3> QED BY <3>2 DEF PopStep, PopEmpty, PopAdmitted, PopLock, PopTake, PopStore
  <2>3. fd = {} /\ UNCHANGED <<have, late>>
    BY <1>3, <2>1, <2>2, FileElsewhere DEF Base
  <2>4. have = 0 /\ \A c \in Pushers : pc[c] = "idle"
    BY <2>3 DEF Drained
  <2>5. \A c \in Pushers : pc'[c] = pc[c]
    BY <1>3, FileSteps DEF Base
  <2> QED BY <2>3, <2>4, <2>5
<1>4. CASE UNCHANGED allVars
  BY <1>4 DEF allVars, Drained
<1> QED BY <1>1, <1>2, <1>3, <1>4 DEF DeviceNext

(***************************************************************************)
(* Any number of CPUs and programs: once everything is closed and quiet,   *)
(* no packet is left for the next program, unless the last reset met a     *)
(* hook or an open file.                                                   *)
(***************************************************************************)
THEOREM ClosedIsDrained == DeviceSpec => []ClosedDeviceDrained
<1>1. DeviceInit => Owned /\ Drained
  BY QueueAssumption DEF DeviceInit, Init, Owned, Drained
<1>2. Base /\ Owned /\ [DeviceNext]_allVars => Owned'
  BY StepOwned DEF Base
<1>3. Base /\ Owned /\ Drained /\ [DeviceNext]_allVars => Drained'
  BY StepDrained
<1>4. Drained => ClosedDeviceDrained
  BY DEF Drained, ClosedDeviceDrained
<1> QED BY InitBase, StepBase, <1>1, <1>2, <1>3, <1>4, PTL DEF DeviceSpec

-----------------------------------------------------------------------------
\* What a read has produced is a packet's size or bytes, never a slot's number.
Produced ==
  /\ flock_flag \in {0, 1}
  /\ got \in [Readers -> [len : Packets \cup {NoPacket, NoSize},
                          data : Packets \cup {NoPacket},
                          ret : Packets \cup {NoPacket, NoSize}]]

\* A popped slot is one of the ring's until the read is over.
Holding == \A r \in Readers : pc[r] \in {"popped", "copying", "copied"} => tmp[r] \in Slots

LEMMA StepHolding == ASSUME Base, Holding, [DeviceNext]_allVars PROVE Holding'
<1> USE QueueAssumption DEF Base, Shaped
<1>0. tmp \in [Threads -> Slots \cup {NoSlot}]
  BY DEF IInv, Typed, RingTypeOK
<1>1. ASSUME NEW c \in Pushers, HookStep(c) \/ \E p \in Packets : HookIn(c, p)
      PROVE  Holding'
  <2>1. \A r \in Readers : tmp'[r] = tmp[r]
    BY <1>0, <1>1 DEF HookStep, HookIn, HookAccept, HookPush, HookRefused, HookQueued, PushStep,
           PushRefused, PushAdmitted, PushLock, PushFill, PushCopy, PushStore
  <2> QED BY <1>1, <2>1, HookSteps DEF Holding
<1>2. ASSUME NEW r \in Readers, FileCall(r) \/ FileStep(r) PROVE Holding'
  <2>1. CASE PopStore(r)
    BY <2>1 DEF PopStore, Holding, IInv, Begun
  <2>2. CASE CopyLen(r) \/ CopyData(r)
    BY <2>2 DEF CopyLen, CopyData, Holding
  <2>3. CASE ~PopStore(r) /\ ~CopyLen(r) /\ ~CopyData(r)
    <3>1. pc'[r] \notin {"popped", "copying", "copied"}
      BY <1>2, <2>3 DEF FileCall, OpenCheck, ReleaseFlag, PollWait, PollTimeout, ReadCall,
             PopCall, FileStep, OpenSet, ReleaseReset, PollReady, PollSleep, PollWoken,
             ReadEmpty, ReadReturn, ReadFault, PopStep, PopEmpty, PopAdmitted, PopLock, PopTake
    <3>2. \A q \in Readers : q # r => tmp'[q] = tmp[q]
      BY <1>0, <1>2 DEF FileCall, OpenCheck, ReleaseFlag, PollWait, PollTimeout, ReadCall,
             PopCall, FileStep, OpenSet, ReleaseReset, PollReady, PollSleep, PollWoken,
             ReadEmpty, CopyLen, CopyData, ReadReturn, ReadFault, PopStep, PopEmpty,
             PopAdmitted, PopLock, PopTake, PopStore
    <3> QED BY <1>2, <3>1, <3>2, FileSteps DEF Holding
  <2> QED BY <2>1, <2>2, <2>3
<1>3. CASE UNCHANGED allVars
  BY <1>3 DEF allVars, Holding
<1> QED BY <1>1, <1>2, <1>3 DEF DeviceNext

LEMMA StepProduced == ASSUME Base, Holding, Produced, [DeviceNext]_allVars PROVE Produced'
<1> USE QueueAssumption DEF Produced
<1>0. slot \in [Slots -> [size : Packets \cup {NoPacket}, data : Packets \cup {NoPacket}]]
  BY DEF Base, IInv, Typed, RingTypeOK
<1>1. ASSUME NEW c \in Pushers, HookStep(c) \/ \E p \in Packets : HookIn(c, p)
      PROVE  UNCHANGED <<flock_flag, got>>
  BY <1>1 DEF HookStep, HookIn, HookAccept, HookPush, HookRefused, HookQueued
<1>2. ASSUME NEW r \in Readers, FileCall(r) \/ FileStep(r) PROVE Produced'
  <2>1. CASE ReadCall(r)
    BY <2>1 DEF ReadCall, NothingRead
  <2>2. CASE CopyLen(r)
    <3>1. slot[tmp[r]].size \in Packets \cup {NoPacket}
      BY <1>0, <2>2 DEF CopyLen, Holding
    <3> QED BY <2>2, <3>1 DEF CopyLen
  <2>3. CASE CopyData(r)
    <3>1. slot[tmp[r]].data \in Packets \cup {NoPacket}
      BY <1>0, <2>3 DEF CopyData, Holding
    <3> QED BY <2>3, <3>1 DEF CopyData
  <2>4. CASE ReadReturn(r)
    <3>1. slot[tmp[r]].size \in Packets \cup {NoPacket}
      BY <1>0, <2>4 DEF ReadReturn, Holding
    <3> QED BY <2>4, <3>1 DEF ReadReturn
  <2>5. CASE ~ReadCall(r) /\ ~CopyLen(r) /\ ~CopyData(r) /\ ~ReadReturn(r)
    BY <1>2, <2>5, PopAlone
       DEF FileCall, OpenCheck, ReleaseFlag, PollWait, PollTimeout,
           FileStep, OpenSet, ReleaseReset, PollReady, PollSleep, PollWoken,
           ReadEmpty, ReadFault
  <2> QED BY <2>1, <2>2, <2>3, <2>4, <2>5
<1>3. CASE UNCHANGED allVars
  BY <1>3 DEF allVars
<1> QED BY <1>1, <1>2, <1>3 DEF DeviceNext

(***************************************************************************)
(* Any number of CPUs and programs: every variable of the device keeps its *)
(* type, so chr_read never follows a slot pointer that pop did not set.    *)
(***************************************************************************)
THEOREM DeviceTypeCorrect == DeviceSpec => []DeviceTypeOK
<1>1. DeviceInit => Holding /\ Produced
  BY QueueAssumption DEF DeviceInit, Init, Holding, Produced, NothingRead
<1>2. Base /\ Holding /\ [DeviceNext]_allVars => Holding'
  BY StepHolding
<1>3. Base /\ Holding /\ Produced /\ [DeviceNext]_allVars => Produced'
  BY StepProduced
<1>4. Base /\ Produced => DeviceTypeOK
  BY DEF Base, Shaped, IInv, Typed, Placed, Produced, DeviceTypeOK
<1> QED BY InitBase, StepBase, <1>1, <1>2, <1>3, <1>4, PTL DEF DeviceSpec

-----------------------------------------------------------------------------
\* The slot a push is filling is the one it has put `end' at, and a hook that
\* fills none names none.
Ending ==
  \A c \in Pushers :
    /\ pc[c] = "push_store" => end = tmp[c]
    /\ pc[c] \notin {"push_copy", "push_store"} => tmp[c] = NoSlot

LEMMA StepEnding ==
  ASSUME IInv, Ending, QueueStep \/ Cleared PROVE Ending'
<1> USE QueueAssumption DEF IInv, Typed, RingTypeOK
<1>1. ASSUME NEW c \in Pushers, PushRefused(c) \/ PushAdmitted(c) \/ PushLock(c)
      PROVE  Ending'
  BY <1>1 DEF PushRefused, PushAdmitted, PushLock, Ending
<1>2. ASSUME NEW c \in Pushers, PushFill(c) PROVE Ending'
  <2>1. \A d \in Pushers \ {c} : pc[d] # "push_store" /\ pc'[d] = pc[d] /\ tmp'[d] = tmp[d]
    BY <1>2 DEF PushFill, Exclusive, InSection
  <2> QED BY <1>2, <2>1 DEF PushFill, Ending
<1>3. ASSUME NEW c \in Pushers, PushCopy(c) PROVE Ending'
  <2>1. \A d \in Pushers \ {c} : pc[d] # "push_store" /\ pc'[d] = pc[d]
    BY <1>3 DEF PushCopy, Exclusive, InSection
  <2> QED BY <1>3, <2>1 DEF PushCopy, Ending
<1>4. ASSUME NEW c \in Pushers, PushStore(c) PROVE Ending'
  BY <1>4 DEF PushStore, Ending
<1>5. ASSUME NEW r \in Readers, PopStep(r) PROVE Ending'
  BY <1>5 DEF PopStep, PopEmpty, PopAdmitted, PopLock, PopTake, PopStore, Ending
<1>6. ASSUME NEW t \in Threads, Outside(t) PROVE Ending'
  BY <1>6 DEF Outside, Ending
<1>7. CASE Cleared
  BY <1>7 DEF Cleared, Ending
<1>8. CASE UNCHANGED vars
  BY <1>8 DEF Ending
<1> QED BY <1>1, <1>2, <1>3, <1>4, <1>5, <1>6, <1>7, <1>8 DEF QueueStep, PushStep

\* A packet and its length are still in the slot.
Kept(i, p) == slot[i] = [size |-> p, data |-> p]

Copying == {"popped", "copying", "copied"}

\* What a read copies from is intact until the ring has taken it back.
Intact ==
  ~late /\ ~shared =>
    \A r \in Readers :
      pc[r] \in Copying => tmp[r] \in Slots /\ (tmp[r] \in InUse \/ Kept(tmp[r], handed[r]))

\* While one reader copies nobody pops, and a push takes slots into use only.
LEMMA PushIntact ==
  ASSUME OneCpu, Base, Ending, Counted, Aligned, NEW c \in Pushers, PushStep(c),
         NEW i \in Slots, NEW p, i \in InUse \/ Kept(i, p)
  PROVE  (i \in InUse \/ Kept(i, p))'
<1> USE QueueAssumption DEF Base, IInv, Kept
<1>0. /\ pc \in [Threads -> States] /\ tmp \in [Threads -> Slots \cup {NoSlot}]
      /\ slot \in [Slots -> [size : Packets \cup {NoPacket}, data : Packets \cup {NoPacket}]]
      /\ have \in 0 .. QSIZE
  BY DEF Typed, RingTypeOK, Counted
<1>1. CASE PushRefused(c) \/ PushAdmitted(c) \/ PushLock(c)
  BY <1>1 DEF PushRefused, PushAdmitted, PushLock, InUse
<1>2. CASE PushFill(c)
  <2> DEFINE s == IF have = 0 THEN ListHead ELSE NextSlot(end)
  <2>1. tmp' = [tmp EXCEPT ![c] = s] /\ slot' = [slot EXCEPT ![s].size = arg[c]]
        /\ have' = have /\ (have # 0 => begin' = begin) /\ tmp[c] = NoSlot
    BY <1>2 DEF PushFill, Ending
  <2>2. tmp'[c] = s
    BY <1>0, <2>1
  <2>3. CASE i = s
    BY <2>2, <2>3 DEF InUse
  <2>4. CASE i # s
    <3>1. slot'[i] = slot[i]
      BY <1>0, <2>1, <2>4
    <3>2. i \in InUse => i \in InUse'
      <4>1. ASSUME NEW d \in Pushers, i = tmp[d] PROVE i = tmp'[d]
        BY <1>0, <2>1, <4>1
      <4>2. ASSUME NEW k \in 0 .. have - 1 PROVE (begin' + k) % QSIZE = (begin + k) % QSIZE
        BY <1>0, <2>1, <4>2
      <4> QED BY <2>1, <4>1, <4>2 DEF InUse
    <3> QED BY <3>1, <3>2
  <2> QED BY <2>3, <2>4
<1>3. CASE PushCopy(c)
  <2>1. tmp' = tmp /\ have' = have /\ begin' = begin
        /\ slot' = [slot EXCEPT ![tmp[c]].data = arg[c]]
    BY <1>3 DEF PushCopy
  <2>2. InUse' = InUse /\ tmp[c] \in InUse
    BY <2>1 DEF InUse
  <2>3. i # tmp[c] => slot'[i] = slot[i]
    BY <1>0, <2>1
  <2> QED BY <2>2, <2>3
<1>4. CASE PushStore(c)
  <2>1. /\ slot' = slot /\ begin' = begin /\ have' = have + 1 /\ have \in 0 .. QSIZE - 1
        /\ tmp' = [tmp EXCEPT ![c] = NoSlot]
    BY <1>0, <1>4, ModSmall DEF PushStore, Counted, Typed, RingTypeOK
  <2>2. tmp[c] = (begin + have) % QSIZE
    <3>1. end = tmp[c] /\ end \in Slots /\ begin \in Slots /\ Span(begin, end) = have + 1
      BY <1>4 DEF PushStore, Ending, Aligned, Begun
    <3> QED BY <2>1, <3>1, NthMod, NthFacts
  <2>3. ASSUME i \in InUse PROVE i \in InUse'
    <3>1. CASE i = tmp[c]
      BY <2>1, <2>2, <3>1 DEF InUse
    <3>2. ASSUME NEW d \in Pushers, i = tmp[d], i # tmp[c] PROVE i = tmp'[d]
      BY <1>0, <2>1, <3>2
    <3>3. ASSUME NEW k \in 0 .. have - 1, i = (begin + k) % QSIZE PROVE i \in InUse'
      BY <2>1, <3>3 DEF InUse
    <3> QED BY <2>3, <3>1, <3>2, <3>3 DEF InUse
  <2> QED BY <2>1, <2>3
<1> QED BY <1>1, <1>2, <1>3, <1>4 DEF PushStep

LEMMA StepIntact ==
  ASSUME OneCpu, Base, Solo, InStep, Ending, Intact, [DeviceNext]_allVars
  PROVE  Intact'
<1> SUFFICES ASSUME ~late', ~shared', NEW r \in Readers, pc'[r] \in Copying
             PROVE  (tmp[r] \in Slots /\ (tmp[r] \in InUse \/ Kept(tmp[r], handed[r])))'
  BY DEF Intact
<1> USE QueueAssumption DEF Copying
<1>0. /\ tmp \in [Threads -> Slots \cup {NoSlot}] /\ handed \in [Readers -> Packets \cup {NoPacket}]
      /\ pc \in [Threads -> States]
  BY DEF Base, IInv, Typed, RingTypeOK
<1>1. ASSUME NEW q \in Readers, ReleaseReset(q) PROVE FALSE
  BY <1>1, TimelyReset
<1>2. QueueStep /\ ~late /\ ~shared
  BY <1>1, DeviceSteps DEF Base
<1>3. Counted /\ Aligned /\ OneEach
  BY <1>2, SoloOne DEF InStep
<1>4. ASSUME pc[r] \in Copying PROVE tmp[r] \in Slots /\ (tmp[r] \in InUse \/ Kept(tmp[r], handed[r]))
  BY <1>2, <1>4 DEF Intact
<1>5. ASSUME pc[r] \in Copying, UNCHANGED <<slot, begin, have>>, tmp'[r] = tmp[r],
             handed'[r] = handed[r], \A c \in Pushers : tmp'[c] = tmp[c]
      PROVE  (tmp[r] \in Slots /\ (tmp[r] \in InUse \/ Kept(tmp[r], handed[r])))'
  <2>1. InUse' = InUse
    BY <1>5 DEF InUse
  <2> QED BY <1>4, <1>5, <2>1 DEF Kept
<1>6. ASSUME NEW c \in Pushers, HookStep(c) \/ \E p \in Packets : HookIn(c, p)
      PROVE  (tmp[r] \in Slots /\ (tmp[r] \in InUse \/ Kept(tmp[r], handed[r])))'
  <2>1. pc[r] \in Copying
    BY <1>6, HookSteps DEF Base
  <2>2. CASE PushStep(c)
    <3>1. tmp'[r] = tmp[r] /\ handed' = handed
      BY <1>0, <2>2 DEF PushStep, PushRefused, PushAdmitted, PushLock, PushFill,
                        PushCopy, PushStore
    <3>2. PICK i \in Slots, p \in {handed[r]} : i = tmp[r]
      BY <1>4, <2>1
    <3>3. (i \in InUse \/ Kept(i, p))'
      BY <1>3, <1>4, <2>1, <2>2, <3>2, PushIntact
    <3> QED BY <3>1, <3>2, <3>3 DEF Kept
  <2>3. CASE ~PushStep(c)
    <3>1. UNCHANGED <<slot, begin, have, tmp, handed>>
      BY <1>6, <2>3 DEF HookStep, HookIn, HookAccept, HookPush, HookRefused, HookQueued
    <3> QED BY <1>5, <2>1, <3>1
  <2> QED BY <2>2, <2>3
<1>7. ASSUME NEW q \in Readers, FileCall(q) \/ FileStep(q), q # r
      PROVE  (tmp[r] \in Slots /\ (tmp[r] \in InUse \/ Kept(tmp[r], handed[r])))'
  <2>1. pc[r] \in Copying
    BY <1>7, FileSteps DEF Base
  <2>2. \A x, y \in fd : x = y
    BY <1>2 DEF Solo
  <2>3. ~PopStep(q)
    <3> SUFFICES ASSUME PopStep(q) PROVE FALSE
      OBVIOUS
    <3>1. pc[q] \notin {"idle", "open_set"}
      BY DEF PopStep, PopEmpty, PopAdmitted, PopLock, PopTake, PopStore
    <3> QED BY <1>7, <2>1, <2>2, <3>1 DEF Base, Placed
  <2>4. UNCHANGED <<ringVars, handed>> /\ \A t \in Threads : t # q => tmp'[t] = tmp[t]
    BY <1>1, <1>7, <2>3, FileElsewhere DEF Base
  <2> QED BY <1>5, <1>7, <2>1, <2>4
<1>8. ASSUME FileCall(r) \/ FileStep(r)
      PROVE  (tmp[r] \in Slots /\ (tmp[r] \in InUse \/ Kept(tmp[r], handed[r])))'
  <2>1. CASE PopStep(r)
    <3>1. PopStore(r)
      BY <1>0, <2>1 DEF PopStep, PopEmpty, PopAdmitted, PopLock, PopTake
    <3>2. tmp[r] \in Slots /\ slot[tmp[r]].size = slot[tmp[r]].data
      BY <3>1 DEF PopStore, Base, IInv, Begun, Filling, Exclusive, InSection
    <3>3. slot' = slot /\ tmp' = tmp /\ handed'[r] = slot[tmp[r]].data
      BY <1>0, <3>1 DEF PopStore
    <3>4. slot[tmp[r]] \in [size : Packets \cup {NoPacket}, data : Packets \cup {NoPacket}]
      BY <3>2 DEF Base, IInv, Typed, RingTypeOK
    <3> QED BY <3>2, <3>3, <3>4 DEF Kept
  <2>2. CASE ~PopStep(r)
    <3>1. CopyLen(r) \/ CopyData(r)
      BY <1>0, <1>1, <1>8, <2>2
         DEF FileCall, OpenCheck, ReleaseFlag, PollWait, PollTimeout, ReadCall, PopCall,
             FileStep, OpenSet, PollReady, PollSleep, PollWoken, ReadEmpty, ReadReturn, ReadFault
    <3>2. pc[r] \in Copying /\ UNCHANGED <<slot, begin, have, tmp, handed>>
      BY <3>1 DEF CopyLen, CopyData
    <3> QED BY <1>5, <3>2
  <2> QED BY <2>1, <2>2
<1>9. CASE UNCHANGED allVars
  BY <1>5, <1>9 DEF allVars
<1> QED BY <1>6, <1>7, <1>8, <1>9 DEF DeviceNext

(***************************************************************************)
(* One CPU, any number of programs and slots: chr_read copies what pop     *)
(* handed it, until the ring takes the slot back, unless a reset           *)
(* overlapped a hook or two programs had the device open.                  *)
(***************************************************************************)
THEOREM CopyStaysStable == ASSUME OneCpu PROVE DeviceSpec => []CopyStable
<1>1. DeviceInit => Solo /\ InStep /\ Ending /\ Intact
  BY QueueAssumption DEF DeviceInit, Init, Solo, InStep, Counted, Aligned, Moving,
                         Ending, Intact, Copying
<1>2. Base /\ Solo /\ InStep /\ [DeviceNext]_allVars => InStep'
  BY StepInStep
<1>3. Base /\ Ending /\ [DeviceNext]_allVars => Ending'
  BY StepEnding, DeviceSteps DEF Base
<1>4. Base /\ Solo /\ InStep /\ Ending /\ Intact /\ [DeviceNext]_allVars => Intact'
  BY StepIntact
<1>5. Intact => CopyStable
  BY DEF Intact, CopyStable, Copying, Kept
<1> QED BY InitBase, StepBase, StepSolo, <1>1, <1>2, <1>3, <1>4, <1>5, PTL DEF DeviceSpec

=============================================================================
