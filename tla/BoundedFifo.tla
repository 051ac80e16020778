---------------------------- MODULE BoundedFifo ----------------------------
(***************************************************************************)
(* What the packet queue of route/queue.h promises to its callers: packets *)
(* come out in the order they went in, at most Capacity of them wait, a    *)
(* clear forgets them all.  Nothing is said of slots, counters or locks.   *)
(***************************************************************************)
EXTENDS Naturals, Sequences

CONSTANTS
  Packets,    \* the packets that may be queued
  Takers,     \* the threads that take packets out
  Capacity,   \* how many packets may wait
  NoPacket    \* what a thread holds before its first packet

VARIABLES
  queue,      \* the packets waiting, oldest first
  handed      \* handed[r]: the packet last given to thread r

vars == <<queue, handed>>

Init ==
  /\ queue = <<>>
  /\ handed = [r \in Takers |-> NoPacket]

Put(p) ==
  /\ Len(queue) < Capacity
  /\ queue' = Append(queue, p)
  /\ UNCHANGED handed

Take(r) ==
  /\ queue # <<>>
  /\ handed' = [handed EXCEPT ![r] = Head(queue)]
  /\ queue' = Tail(queue)

Clear ==
  /\ queue' = <<>>
  /\ UNCHANGED handed

Next ==
  \/ \E p \in Packets : Put(p)
  \/ \E r \in Takers : Take(r)
  \/ Clear

Spec == Init /\ [][Next]_vars

=============================================================================
