-------------------------- MODULE ControllerProofs --------------------------
(***************************************************************************)
(* Proofs about the controller: first about its task pool (TaskPool), for  *)
(* any number of workers and tasks; then about the address list and the    *)
(* main thread that starts and ends it (AddressList, Controller), for any  *)
(* list and any size of what a read returns.                               *)
(***************************************************************************)
EXTENDS Controller, SequenceTheorems, WellFoundedInduction, TLAPS

-----------------------------------------------------------------------------
(* The task pool *)

USE DEF NoTask, WorkerStates

(***************************************************************************)
(* The types, with what the mutex means: its holder, and nobody else, is   *)
(* about to wait or about to unlock.                                       *)
(***************************************************************************)
Typed == queue \in Seq(Tasks) /\ TypeOK

LEMMA TypedInit == PoolInit => Typed
<1> SUFFICES ASSUME PoolInit PROVE Typed
  OBVIOUS
<1>1. queue \in Seq(Tasks) /\ \A i \in DOMAIN queue : queue[i] \in Tasks
  BY DEF PoolInit
<1>2. /\ at \in [Workers -> WorkerStates]
      /\ task \in [Workers -> {NoTask} \cup {<<t>> : t \in Tasks}]
  BY DEF PoolInit
<1>3. \A w \in Workers : mutex = w <=> at[w] \in {"wait", "unlock"}
  BY PoolAssumption DEF PoolInit
<1> QED
  BY <1>1, <1>2, <1>3 DEF PoolInit, Typed, TypeOK

LEMMA TypedNext == Typed /\ [PoolNext]_poolVars => Typed'
<1> SUFFICES ASSUME Typed, [PoolNext]_poolVars PROVE Typed'
  OBVIOUS
<1> USE DEF Typed, TypeOK
<1>1. ASSUME NEW t \in Tasks, Enqueue(t) PROVE Typed'
  BY <1>1, AppendProperties DEF Enqueue
<1>2. CASE NotifyOne
  BY <1>2 DEF NotifyOne, Waiting
<1>3. ASSUME NEW w \in Workers, WorkerStep(w) PROVE Typed'
  <2>1. CASE TestExit(w)
    BY <2>1 DEF TestExit, Step
  <2>2. CASE TryDequeue(w)
    <3>1. queue # <<>> /\ Head(queue) \in Tasks /\ Tail(queue) \in Seq(Tasks)
      BY <2>2, HeadTailProperties DEF TryDequeue
    <3> QED
      BY <2>2, <3>1 DEF TryDequeue, Step
  <2>3. CASE DequeueFails(w)
    BY <2>3 DEF DequeueFails, Step
  <2>4. CASE Lock(w)
    BY <2>4, PoolAssumption DEF Lock, Step
  <2>5. CASE Wait(w)
    BY <2>5, PoolAssumption DEF Wait, Step
  <2>6. CASE Relock(w)
    BY <2>6, PoolAssumption DEF Relock, Step
  <2>7. CASE Unlock(w)
    BY <2>7, PoolAssumption DEF Unlock, Step
  <2>8. CASE Execute(w)
    BY <2>8 DEF Execute, Step
  <2>9. CASE Close(w)
    BY <2>9 DEF Close, Step
  <2> QED
    BY <1>3, <2>1, <2>2, <2>3, <2>4, <2>5, <2>6, <2>7, <2>8, <2>9 DEF WorkerStep
<1>4. ASSUME NEW w \in Workers, SpuriousWake(w) PROVE Typed'
  BY <1>4 DEF SpuriousWake, Step
<1>5. CASE SetExit
  BY <1>5 DEF SetExit
<1>6. CASE NotifyAll
  BY <1>6 DEF NotifyAll, Waiting
<1>7. CASE Joined
  BY <1>7 DEF Joined
<1>8. CASE UNCHANGED poolVars
  BY <1>8 DEF poolVars
<1> QED
  BY <1>1, <1>2, <1>3, <1>4, <1>5, <1>6, <1>7, <1>8 DEF PoolNext, OwnerStep

(***************************************************************************)
(* Every run of the pool keeps its types, and the mutex has at most the    *)
(* one holder that is about to wait or to unlock.                          *)
(***************************************************************************)
THEOREM PoolTypeCorrect == PoolSpec => []TypeOK
<1>1. Typed => TypeOK
  BY DEF Typed
<1> QED
  BY TypedInit, TypedNext, <1>1, PTL DEF PoolSpec

-----------------------------------------------------------------------------
Asleep == {"lock", "wait", "waiting"}

(***************************************************************************)
(* What StrandedOnlyIfMissed needs to be inductive: while tasks are queued *)
(* and no notification is due, some worker is neither waiting nor about to *)
(* wait, and will look at the queue (or at `exit') before it does.         *)
(***************************************************************************)
SomebodyLooks ==
  queue # <<>> /\ pushing = "idle" =>
    missed \/ \E w \in Workers : at[w] \notin Asleep

LEMMA LooksNext == Typed /\ SomebodyLooks /\ [PoolNext]_poolVars => SomebodyLooks'
<1> SUFFICES ASSUME Typed, SomebodyLooks, [PoolNext]_poolVars,
                    queue' # <<>>, pushing' = "idle", ~missed'
             PROVE  \E w \in Workers : at'[w] \notin Asleep
  BY DEF SomebodyLooks
<1>1. at \in [Workers -> WorkerStates]
  BY DEF Typed, TypeOK
<1> USE DEF Asleep
<1>2. ASSUME NEW t \in Tasks, Enqueue(t) PROVE FALSE
  BY <1>2 DEF Enqueue
<1>3. CASE NotifyOne
  <2>1. CASE Waiting = {}
    <3>1. PICK w \in Workers : at[w] \notin {"lock", "wait"}
      BY <1>3 DEF NotifyOne, AboutToWait
    <3> QED
      BY <1>3, <2>1, <3>1 DEF NotifyOne, Waiting
  <2>2. CASE Waiting # {}
    BY <1>1, <1>3, <2>2 DEF NotifyOne, Waiting
  <2> QED
    BY <2>1, <2>2
<1>4. ASSUME NEW w \in Workers, TryDequeue(w) \/ Relock(w) \/ SpuriousWake(w)
                                  \/ TestExit(w) \/ Unlock(w) \/ Execute(w) \/ Close(w)
      PROVE  at'[w] \notin Asleep
  BY <1>1, <1>4 DEF TryDequeue, Relock, SpuriousWake, TestExit, Unlock, Execute,
                    Close, Step
<1>5. ASSUME NEW w \in Workers, DequeueFails(w) PROVE FALSE
  BY <1>5 DEF DequeueFails
<1>6. ASSUME NEW w \in Workers, Lock(w) \/ Wait(w)
      PROVE  \E v \in Workers : at'[v] \notin Asleep
  <2>1. /\ queue' = queue /\ pushing' = pushing /\ missed' = missed
        /\ at[w] \in Asleep
        /\ \A v \in Workers \ {w} : at'[v] = at[v]
    BY <1>1, <1>6 DEF Lock, Wait, Step
  <2> QED
    BY <2>1 DEF SomebodyLooks
<1>7. CASE NotifyAll
  BY <1>1, <1>7 DEF NotifyAll, Waiting, SomebodyLooks
<1>8. CASE SetExit \/ Joined \/ UNCHANGED poolVars
  BY <1>8 DEF SetExit, Joined, poolVars, SomebodyLooks
<1> QED
  BY <1>2, <1>3, <1>4, <1>5, <1>6, <1>7, <1>8 DEF PoolNext, WorkerStep, OwnerStep

(***************************************************************************)
(* However many workers there are: tasks lie in the queue with everybody   *)
(* waiting and nobody about to notify only if a notify_one fell between    *)
(* the failed dequeue and the wait of every worker.                        *)
(***************************************************************************)
THEOREM OnlyMissedStrands == PoolSpec => []StrandedOnlyIfMissed
<1>1. PoolInit => SomebodyLooks
  BY DEF PoolInit, SomebodyLooks
<1>2. SomebodyLooks => StrandedOnlyIfMissed
  BY DEF SomebodyLooks, StrandedOnlyIfMissed, Asleep
<1> QED
  BY TypedInit, TypedNext, LooksNext, <1>1, <1>2, PTL DEF PoolSpec

HIDE DEF NoTask, WorkerStates

-----------------------------------------------------------------------------
(* Induction, for what is said of numbers one after the other *)

LEMMA HasLeast ==
  ASSUME NEW S \in SUBSET Nat, S # {}
  PROVE  Min(S) \in S /\ \A j \in S : Min(S) <= j
<1> DEFINE R == {x \in Nat \X Nat : x[1] < x[2]}
<1>1. IsWellFoundedOn(R, Nat)
  BY NatLessThanWellFounded, Zenon DEF OpToRel
<1>2. PICK x \in S : \A y \in S : ~(<<y, x>> \in R)
  <2> HIDE DEF R
  <2> QED
    BY <1>1, WFMin
<1>3. ASSUME NEW y \in S PROVE x <= y
  <2>1. x \in Nat /\ y \in Nat /\ <<y, x>> \in Nat \X Nat
        /\ <<y, x>>[1] = y /\ <<y, x>>[2] = x
    OBVIOUS
  <2>2. y < x => <<y, x>> \in R
    BY <2>1
  <2>3. ~(y < x)
    BY <1>2, <2>2
  <2> QED
    BY <2>1, <2>3
<1>4. \E k \in S : \A j \in S : k <= j
  BY <1>3
<1> QED
  BY <1>4, Zenon DEF Min

LEMMA Upward ==
  ASSUME NEW n \in Nat, NEW S, 0 \in S, \A m \in 1 .. n : m - 1 \in S => m \in S
  PROVE  \A m \in 0 .. n : m \in S
<1> DEFINE bad == {m \in 0 .. n : m \notin S}
<1> SUFFICES ASSUME bad # {} PROVE FALSE
  OBVIOUS
<1>1. bad \in SUBSET Nat
  OBVIOUS
<1>2. Min(bad) \in bad /\ \A j \in bad : Min(bad) <= j
  BY <1>1, HasLeast
<1> DEFINE k == Min(bad)
<1> HIDE DEF k
<1>3. k \in 0 .. n /\ k \notin S /\ \A j \in bad : k <= j
  BY <1>2 DEF k
<1>4. k \in 1 .. n /\ k - 1 \in 0 .. n /\ ~(k <= k - 1)
  BY <1>3
<1>5. k - 1 \in S
  BY <1>3, <1>4
<1> QED
  BY <1>3, <1>4, <1>5

-----------------------------------------------------------------------------
(* The list, piece by piece *)

PieceParts == {"text", "end", "apnic|", "CN|ipv", "4|address", "|size"}
PieceSet == [line : DOMAIN List, part : PieceParts]

\* What follows a line's piece is the rest of the line.
WholeLines(s) ==
  \A k \in 1 .. Len(s) :
    /\ s[k].part \in ToSet(Parts(List[s[k].line]))
    /\ s[k].part # "end" => k < Len(s) /\ s[k + 1].line = s[k].line

\* The first piece of line i is in s.
Begins(s, i) == \E k \in 1 .. Len(s) : s[k].line = i /\ s[k].part = "apnic|"

LEMMA ConcatIs ==
  ASSUME NEW s \in Seq(PieceSet), NEW t \in Seq(PieceSet)
  PROVE  /\ s \o t \in Seq(PieceSet) /\ Len(s \o t) = Len(s) + Len(t)
         /\ Len(s) \in Nat /\ Len(t) \in Nat
         /\ \A k \in 1 .. Len(s) : (s \o t)[k] = s[k]
         /\ \A k \in 1 .. Len(t) : (s \o t)[Len(s) + k] = t[k]
BY ConcatProperties, LenProperties

LEMMA SplitIs ==
  ASSUME NEW s \in Seq(PieceSet), NEW c \in 0 .. Len(s)
  PROVE  /\ SubSeq(s, 1, c) \in Seq(PieceSet)
         /\ SubSeq(s, c + 1, Len(s)) \in Seq(PieceSet)
         /\ SubSeq(s, 1, c) \o SubSeq(s, c + 1, Len(s)) = s
<1> DEFINE t == SubSeq(s, 1, c)
           u == SubSeq(s, c + 1, Len(s))
<1>1. /\ Len(s) \in Nat /\ t \in Seq(PieceSet) /\ Len(t) = c
      /\ u \in Seq(PieceSet) /\ Len(u) = Len(s) - c
      /\ \A k \in 1 .. c : t[k] = s[k]
      /\ \A k \in 1 .. Len(s) - c : u[k] = s[c + k]
  BY SubSeqProperties, LenProperties
<1> HIDE DEF t, u
<1>2. /\ t \o u \in Seq(PieceSet) /\ Len(t \o u) = Len(s)
      /\ \A k \in 1 .. c : (t \o u)[k] = t[k]
      /\ \A k \in 1 .. Len(s) - c : (t \o u)[c + k] = u[k]
  BY <1>1, ConcatIs
<1>3. ASSUME NEW k \in 1 .. Len(s) PROVE (t \o u)[k] = s[k]
  <2>1. CASE k \in 1 .. c
    BY <1>1, <1>2, <2>1
  <2>2. CASE k \notin 1 .. c
    <3>1. k - c \in 1 .. Len(s) - c /\ c + (k - c) = k
      BY <1>1, <2>2
    <3>2. (t \o u)[c + (k - c)] = u[k - c] /\ u[k - c] = s[c + (k - c)]
      BY <1>1, <1>2, <3>1
    <3> QED
      BY <3>1, <3>2
  <2> QED
    BY <2>1, <2>2
<1>4. t \o u = s
  BY <1>2, <1>3, SeqEqual
<1> QED
  BY <1>1, <1>4 DEF t, u

LEMMA WholeConcat ==
  ASSUME NEW s \in Seq(PieceSet), NEW t \in Seq(PieceSet), WholeLines(s), WholeLines(t)
  PROVE  /\ WholeLines(s \o t) /\ s \o t \in Seq(PieceSet)
         /\ \A i : Begins(s, i) \/ Begins(t, i) => Begins(s \o t, i)
<1>1. /\ s \o t \in Seq(PieceSet) /\ Len(s \o t) = Len(s) + Len(t)
      /\ Len(s) \in Nat /\ Len(t) \in Nat
      /\ \A k \in 1 .. Len(s) : (s \o t)[k] = s[k]
      /\ \A k \in 1 .. Len(t) : (s \o t)[Len(s) + k] = t[k]
  BY ConcatIs
<1>2. ASSUME NEW k \in 1 .. Len(s \o t)
      PROVE  /\ (s \o t)[k].part \in ToSet(Parts(List[(s \o t)[k].line]))
             /\ (s \o t)[k].part # "end" => /\ k < Len(s \o t)
                                            /\ (s \o t)[k + 1].line = (s \o t)[k].line
  <2>1. CASE k \in 1 .. Len(s)
    <3>1. s[k].part # "end" => k + 1 \in 1 .. Len(s) /\ s[k + 1].line = s[k].line
      BY <2>1, <1>1 DEF WholeLines
    <3> QED
      BY <2>1, <1>1, <3>1 DEF WholeLines
  <2>2. CASE k \notin 1 .. Len(s)
    <3>1. /\ k - Len(s) \in 1 .. Len(t) /\ k = Len(s) + (k - Len(s))
          /\ k + 1 = Len(s) + (k - Len(s) + 1)
      BY <2>2, <1>1
    <3>2. (s \o t)[k] = t[k - Len(s)]
      BY <3>1, <1>1
    <3>3. t[k - Len(s)].part # "end" =>
            /\ k - Len(s) < Len(t) /\ k - Len(s) + 1 \in 1 .. Len(t)
            /\ t[k - Len(s) + 1].line = t[k - Len(s)].line
      BY <3>1, <1>1 DEF WholeLines
    <3>4. t[k - Len(s)].part # "end" => (s \o t)[k + 1] = t[k - Len(s) + 1]
      BY <3>1, <3>3, <1>1
    <3> QED
      BY <3>1, <3>2, <3>3, <3>4, <1>1 DEF WholeLines
  <2> QED
    BY <2>1, <2>2
<1>3. ASSUME NEW i, Begins(s, i) \/ Begins(t, i) PROVE Begins(s \o t, i)
  <2>1. CASE Begins(s, i)
    BY <2>1, <1>1 DEF Begins
  <2>2. CASE Begins(t, i)
    <3>1. PICK k \in 1 .. Len(t) : t[k].line = i /\ t[k].part = "apnic|"
      BY <2>2 DEF Begins
    <3>2. Len(s) + k \in 1 .. Len(s \o t) /\ (s \o t)[Len(s) + k] = t[k]
      BY <1>1
    <3> QED
      BY <3>1, <3>2 DEF Begins
  <2> QED
    BY <1>3, <2>1, <2>2
<1> QED
  BY <1>1, <1>2, <1>3 DEF WholeLines

\* What is left of whole lines behind their first pieces.
LEMMA WholeRest ==
  ASSUME NEW s \in Seq(PieceSet), WholeLines(s), NEW c \in 0 .. Len(s)
  PROVE  /\ WholeLines(SubSeq(s, c + 1, Len(s)))
         /\ \A i : Begins(s, i) =>
              \/ Begins(SubSeq(s, c + 1, Len(s)), i)
              \/ \E k \in 1 .. c : s[k].line = i /\ s[k].part = "apnic|"
<1> DEFINE t == SubSeq(s, c + 1, Len(s))
<1>1. /\ Len(s) \in Nat /\ Len(t) = Len(s) - c
      /\ \A k \in 1 .. Len(t) : t[k] = s[c + k]
  BY SubSeqProperties, LenProperties
<1> HIDE DEF t
<1>2. ASSUME NEW k \in 1 .. Len(t)
      PROVE  /\ t[k].part \in ToSet(Parts(List[t[k].line]))
             /\ t[k].part # "end" => k < Len(t) /\ t[k + 1].line = t[k].line
  <2>1. c + k \in 1 .. Len(s) /\ t[k] = s[c + k]
    BY <1>1
  <2>2. s[c + k].part # "end" => c + k < Len(s) /\ s[(c + k) + 1].line = s[c + k].line
    BY <2>1 DEF WholeLines
  <2>3. c + k < Len(s) => k + 1 \in 1 .. Len(t) /\ t[k + 1] = s[(c + k) + 1]
    <3> SUFFICES ASSUME c + k < Len(s) PROVE k + 1 \in 1 .. Len(t) /\ t[k + 1] = s[(c + k) + 1]
      OBVIOUS
    <3>1. k + 1 \in 1 .. Len(t) /\ c + (k + 1) = (c + k) + 1
      BY <1>1
    <3> QED
      BY <1>1, <3>1
  <2> QED
    BY <1>1, <2>1, <2>2, <2>3 DEF WholeLines
<1>3. ASSUME NEW i, Begins(s, i), \A k \in 1 .. c : ~(s[k].line = i /\ s[k].part = "apnic|")
      PROVE  Begins(t, i)
  <2>1. PICK k \in 1 .. Len(s) : s[k].line = i /\ s[k].part = "apnic|"
    BY <1>3 DEF Begins
  <2>2. k - c \in 1 .. Len(t) /\ c + (k - c) = k
    BY <1>1, <1>3, <2>1
  <2>3. t[k - c] = s[k]
    BY <1>1, <2>2
  <2> QED
    BY <2>1, <2>2, <2>3 DEF Begins
<1> QED
  BY <1>2, <1>3 DEF WholeLines, t

\* The pieces of one line.
LEMMA OneLineIsWhole ==
  ASSUME NEW i \in DOMAIN List
  PROVE  /\ Pieces(i) \in Seq(PieceSet) /\ WholeLines(Pieces(i))
         /\ i \in Networks => Begins(Pieces(i), i)
<1>1. CASE List[i] = Other
  <2>1. Parts(List[i]) = <<"text", "end">>
    BY <1>1 DEF Parts
  <2>2. Pieces(i) = [j \in 1 .. 2 |-> [line |-> i, part |-> <<"text", "end">>[j]]]
    BY <2>1 DEF Pieces
  <2>3. /\ Pieces(i) \in Seq(PieceSet) /\ Len(Pieces(i)) = 2
        /\ Pieces(i)[1] = [line |-> i, part |-> "text"]
        /\ Pieces(i)[2] = [line |-> i, part |-> "end"]
    BY <2>2 DEF PieceSet, PieceParts
  <2>4. ToSet(Parts(List[i])) = {"text", "end"}
    BY <2>1 DEF ToSet
  <2> QED
    BY <1>1, <2>3, <2>4 DEF WholeLines, Networks
<1>2. CASE List[i] # Other
  <2>1. Parts(List[i]) = <<"apnic|", "CN|ipv", "4|address", "|size", "end">>
    BY <1>2 DEF Parts
  <2>2. Pieces(i) = [j \in 1 .. 5 |-> [line |-> i, part |->
                       <<"apnic|", "CN|ipv", "4|address", "|size", "end">>[j]]]
    BY <2>1 DEF Pieces
  <2>3. /\ Pieces(i) \in Seq(PieceSet) /\ Len(Pieces(i)) = 5
        /\ Pieces(i)[1] = [line |-> i, part |-> "apnic|"]
        /\ Pieces(i)[2] = [line |-> i, part |-> "CN|ipv"]
        /\ Pieces(i)[3] = [line |-> i, part |-> "4|address"]
        /\ Pieces(i)[4] = [line |-> i, part |-> "|size"]
        /\ Pieces(i)[5] = [line |-> i, part |-> "end"]
    BY <2>2 DEF PieceSet, PieceParts
  <2>4. ToSet(Parts(List[i])) = {"apnic|", "CN|ipv", "4|address", "|size", "end"}
    BY <2>1 DEF ToSet
  <2> QED
    BY <2>3, <2>4 DEF WholeLines, Begins
<1> QED
  BY <1>1, <1>2

\* g[m] is the first m of these sequences, one behind the other.
IsFlat(g, seqs) ==
  g = [i \in 1 .. Len(seqs) |-> IF i = 1 THEN seqs[i] ELSE g[i - 1] \o seqs[i]]

LEMMA FlattenIs ==
  ASSUME NEW seqs, Len(seqs) # 0, \E g : IsFlat(g, seqs)
  PROVE  \E h : IsFlat(h, seqs) /\ FlattenSeq(seqs) = h[Len(seqs)]
BY Zenon DEF FlattenSeq, IsFlat

LEMMA FlatExists ==
  ASSUME NEW E, NEW seqs \in Seq(Seq(E))
  PROVE  \E g : IsFlat(g, seqs)
<1> DEFINE n == Len(seqs)
           Flat(k, g) == /\ g \in [1 .. k -> Seq(E)]
                         /\ \A m \in 1 .. k :
                              g[m] = IF m = 1 THEN seqs[m] ELSE g[m - 1] \o seqs[m]
           S == {k \in 0 .. n : \E g : Flat(k, g)}
<1>1. n \in Nat /\ \A m \in 1 .. n : seqs[m] \in Seq(E)
  OBVIOUS
<1>2. 0 \in S
  <2>1. Flat(0, [m \in 1 .. 0 |-> <<>>])
    OBVIOUS
  <2>2. 0 \in 0 .. n
    BY <1>1
  <2> HIDE DEF Flat
  <2> QED
    BY <2>1, <2>2
<1>3. ASSUME NEW m \in 1 .. n, m - 1 \in S PROVE m \in S
  <2>1. PICK g : Flat(m - 1, g)
    BY <1>3
  <2> DEFINE last == IF m = 1 THEN seqs[m] ELSE g[m - 1] \o seqs[m]
             h == [j \in 1 .. m |-> IF j = m THEN last ELSE g[j]]
  <2>2. last \in Seq(E)
    BY <2>1, <1>1, ConcatProperties
  <2>3. h \in [1 .. m -> Seq(E)]
    <3> HIDE DEF last
    <3> QED
      BY <2>1, <2>2
  <2>4. ASSUME NEW j \in 1 .. m
        PROVE  h[j] = IF j = 1 THEN seqs[j] ELSE h[j - 1] \o seqs[j]
    <3>1. j # 1 => h[j - 1] = g[j - 1]
      OBVIOUS
    <3>2. CASE j = m
      <4>1. h[j] = last
        BY <3>2, Zenon
      <4>2. CASE j = 1
        BY <3>2, <4>1, <4>2
      <4>3. CASE j # 1
        BY <3>1, <3>2, <4>1, <4>3
      <4> QED
        BY <4>2, <4>3
    <3>3. CASE j # m
      <4>1. j \in 1 .. m - 1 /\ h[j] = g[j]
        BY <3>3
      <4>2. g[j] = IF j = 1 THEN seqs[j] ELSE g[j - 1] \o seqs[j]
        BY <4>1, <2>1
      <4> QED
        BY <3>1, <4>1, <4>2
    <3> QED
      BY <3>2, <3>3
  <2>5. Flat(m, h)
    BY <2>3, <2>4
  <2> HIDE DEF Flat, h
  <2> QED
    BY <2>5
<1> HIDE DEF Flat, S
<1>4. n \in S
  <2>1. \A m \in 0 .. n : m \in S
    BY <1>1, <1>2, <1>3, Upward
  <2> QED
    BY <1>1, <2>1
<1>5. PICK g : Flat(n, g)
  BY <1>4 DEF S
<1> QED
  BY <1>5, Zenon DEF Flat, IsFlat

\* What the server sends: whole lines, each network's among them.
LEMMA ListIsWhole ==
  ASSUME NEW s, s = FlattenSeq([i \in DOMAIN List |-> Pieces(i)])
  PROVE  /\ s \in Seq(PieceSet) /\ WholeLines(s)
         /\ \A i \in Networks : Begins(s, i)
<1> DEFINE seqs == [i \in DOMAIN List |-> Pieces(i)]
           n == Len(List)
<1>1. n \in Nat /\ DOMAIN List = 1 .. n
  BY ListAssumption
<1>2. /\ seqs \in Seq(Seq(PieceSet)) /\ Len(seqs) = n
      /\ \A i \in 1 .. n : seqs[i] = Pieces(i)
  BY <1>1, OneLineIsWhole
<1> HIDE DEF seqs
<1>3. CASE n = 0
  <2>1. s = seqs
    BY <1>2, <1>3, Zenon DEF FlattenSeq, seqs
  <2>2. s \in Seq(PieceSet) /\ Len(s) = 0 /\ Networks = {}
    <3>1. Networks = {}
      BY <1>1, <1>3 DEF Networks
    <3>2. seqs \in Seq(Seq(PieceSet)) /\ Len(seqs) = 0
      BY <1>2, <1>3
    <3>3. seqs = <<>>
      BY <3>2, EmptySeq
    <3> QED
      BY <2>1, <3>1, <3>3
  <2> QED
    BY <2>2 DEF WholeLines
<1>4. CASE n # 0
  <2>1. \E g : IsFlat(g, seqs)
    BY <1>2, FlatExists
  <2>2. PICK g : IsFlat(g, seqs) /\ FlattenSeq(seqs) = g[Len(seqs)]
    BY <1>2, <1>4, <2>1, FlattenIs
  <2>3. s = g[n]
    BY <1>2, <2>2 DEF seqs
  <2>4. \A m \in 1 .. n : g[m] = IF m = 1 THEN Pieces(m) ELSE g[m - 1] \o Pieces(m)
    <3>1. g = [i \in 1 .. n |-> IF i = 1 THEN seqs[i] ELSE g[i - 1] \o seqs[i]]
      BY <1>2, <2>2, Zenon DEF IsFlat
    <3>2. ASSUME NEW m \in 1 .. n
          PROVE  g[m] = IF m = 1 THEN seqs[m] ELSE g[m - 1] \o seqs[m]
      BY <3>1, Zenon
    <3> QED
      BY <3>2, <1>2
  <2> DEFINE Good(m) == /\ g[m] \in Seq(PieceSet) /\ WholeLines(g[m])
                        /\ \A i \in Networks : i <= m => Begins(g[m], i)
             S == {m \in 0 .. n : m = 0 \/ Good(m)}
  <2>5. ASSUME NEW m \in 1 .. n, m - 1 \in S PROVE m \in S
    <3>1. /\ m \in DOMAIN List /\ Pieces(m) \in Seq(PieceSet) /\ WholeLines(Pieces(m))
          /\ m \in Networks => Begins(Pieces(m), m)
      BY <1>1, OneLineIsWhole
    <3>2. CASE m = 1
      <4>1. g[m] = Pieces(m)
        BY <3>2, <2>4
      <4>2. \A i \in Networks : i <= m => i = m
        BY <3>2, <1>1 DEF Networks
      <4> QED
        BY <3>1, <4>1, <4>2
    <3>3. CASE m # 1
      <4>0. Good(m - 1)
        <5> HIDE DEF Good
        <5>1. m - 1 = 0 \/ Good(m - 1)
          BY <2>5
        <5>2. m - 1 # 0
          BY <3>3, <1>1
        <5> QED
          BY <5>1, <5>2
      <4>1. g[m] = g[m - 1] \o Pieces(m) /\ Good(m - 1)
        <5> HIDE DEF Good
        <5> QED
          BY <3>3, <2>4, <4>0
      <4>2. /\ WholeLines(g[m]) /\ g[m] \in Seq(PieceSet)
            /\ \A i : Begins(g[m - 1], i) \/ Begins(Pieces(m), i) => Begins(g[m], i)
        BY <3>1, <4>1, WholeConcat
      <4>3. \A i \in Networks : i <= m => i = m \/ i <= m - 1
        BY <1>1 DEF Networks
      <4>4. \A i \in Networks : i <= m => Begins(g[m], i)
        BY <3>1, <4>1, <4>2, <4>3
      <4>5. Good(m)
        BY <4>2, <4>4
      <4> HIDE DEF Good
      <4>6. m \in 0 .. n
        BY <1>1
      <4> QED
        BY <4>5, <4>6
    <3> QED
      BY <3>2, <3>3
  <2>6. 0 \in S
    BY <1>1
  <2> HIDE DEF S, Good
  <2>7. \A m \in 0 .. n : m \in S
    BY <1>1, <2>5, <2>6, Upward
  <2>8. Good(n)
    BY <1>1, <1>4, <2>7 DEF S
  <2>9. \A i \in Networks : i <= n
    BY <1>1 DEF Networks
  <2> QED
    BY <2>3, <2>8, <2>9 DEF Good
<1> QED
  BY <1>3, <1>4

-----------------------------------------------------------------------------
(* The invariant *)

\* What nobody has looked at yet.
Rest == buf \o stream

\* Each network is still to come from its beginning, or was cut or marked.
Kept ==
  ~crashed => /\ WholeLines(Rest)
              /\ \A i \in Networks : Begins(Rest, i) \/ i \in cut \/ Bit(i) \in marked

\* Each bitmap has been opened, with or without success.
Opened == {4, 6} \subseteq maps \cup failed

\* What the calls of the main thread have done to the address list.
Staged ==
  /\ main = "apn_init" => /\ thread = "none"
                          /\ apn \in {"down", "open_ipv6", "sync"}
                          /\ apn = "open_ipv6" => 4 \in maps \cup failed
                          /\ apn = "sync" => Opened
  /\ main \in {"pool_up", "dev_open", "start_io", "accept", "serve", "dev_close",
               "pool_down"} => apn = "up" /\ Opened
  /\ main = "apn_release" => /\ apn \in {"up", "close_ipv6", "set_exit", "join"}
                             /\ apn = "up" => Opened
  /\ main \in {"accept_close", "work_end", "join_io", "out"} => thread = "done"

\* Where the main thread can be.
Calls == {"apn_init", "pool_up", "dev_open", "start_io", "accept", "serve", "dev_close",
          "pool_down", "apn_release", "accept_close", "work_end", "join_io", "out"}

AddressTyped ==
  /\ buf \in Seq(PieceSet) /\ stream \in Seq(PieceSet)
  /\ main \in Calls

\* What lies in the buffer between two reads lies behind an empty line.
LeftBehind == thread # "lines" => buf = <<>> \/ stopped

Sound == AddressTyped /\ Kept /\ LeftBehind /\ Staged /\ CrashExplained

-----------------------------------------------------------------------------
(* What getline takes *)

\* How many pieces of the buffer a line uses up.
Taken == IF EndOfLine = 0 THEN Len(buf) ELSE EndOfLine

LEMMA EndOfLineIs ==
  ASSUME buf \in Seq(PieceSet)
  PROVE  /\ EndOfLine \in 0 .. Len(buf)
         /\ EndOfLine = 0 => \A k \in 1 .. Len(buf) : buf[k].part # "end"
         /\ EndOfLine # 0 => /\ buf[EndOfLine].part = "end"
                             /\ \A k \in 1 .. EndOfLine - 1 : buf[k].part # "end"
<1> DEFINE ends == {k \in 1 .. Len(buf) : buf[k].part = "end"}
<1>1. EndOfLine = IF ends # {} THEN Min(ends) ELSE 0
  BY Zenon DEF EndOfLine, SelectInSeq
<1>2. Len(buf) \in Nat
  OBVIOUS
<1>3. CASE ends = {}
  BY <1>1, <1>2, <1>3
<1>4. CASE ends # {}
  <2>1. ends \in SUBSET Nat
    BY <1>2
  <2>2. Min(ends) \in ends /\ \A j \in ends : Min(ends) <= j
    BY <1>4, <2>1, HasLeast
  <2>3. EndOfLine \in ends /\ \A j \in ends : EndOfLine <= j
    BY <1>1, <1>4, <2>2
  <2>4. ASSUME NEW k \in 1 .. EndOfLine - 1 PROVE buf[k].part # "end"
    <3>1. k \in 1 .. Len(buf) /\ ~(EndOfLine <= k)
      BY <2>3, <1>2
    <3> QED
      BY <2>3, <3>1
  <2> QED
    BY <1>2, <2>3, <2>4
<1> QED
  BY <1>3, <1>4

\* A line's pieces are of one line, whose end is behind them; what is behind
\* that stays.
LEMMA LineIs ==
  ASSUME buf \in Seq(PieceSet), stream \in Seq(PieceSet), WholeLines(Rest)
  PROVE  /\ Taken \in 0 .. Len(Rest) /\ Rest \in Seq(PieceSet) /\ Behind \in Seq(PieceSet)
         /\ Behind \o stream = SubSeq(Rest, Taken + 1, Len(Rest))
         /\ Line = <<>> => \A k \in 1 .. Taken : Rest[k].part = "end"
         /\ Line # <<>> => \A k \in 1 .. Taken : Rest[k].line = Head(Line).line
         /\ \A k \in DOMAIN Line : k \in 1 .. Taken /\ Line[k] = Rest[k]
         /\ Line # <<>> => Head(Line) = Line[1] /\ 1 \in DOMAIN Line
<1>1. /\ Len(buf) \in Nat /\ Len(stream) \in Nat /\ Len(Rest) = Len(buf) + Len(stream)
      /\ Rest \in Seq(PieceSet)
      /\ \A k \in 1 .. Len(buf) : Rest[k] = buf[k]
      /\ \A k \in 1 .. Len(stream) : Rest[Len(buf) + k] = stream[k]
  BY ConcatIs DEF Rest
<1>2. /\ EndOfLine \in 0 .. Len(buf)
      /\ EndOfLine = 0 => \A k \in 1 .. Len(buf) : buf[k].part # "end"
      /\ EndOfLine # 0 => /\ buf[EndOfLine].part = "end"
                          /\ \A k \in 1 .. EndOfLine - 1 : buf[k].part # "end"
  BY EndOfLineIs
<1>3. Taken \in 0 .. Len(buf)
  BY <1>1, <1>2 DEF Taken
<1>4. Behind = SubSeq(buf, Taken + 1, Len(buf))
  <2>1. CASE EndOfLine = 0
    <3>1. Len(SubSeq(buf, Len(buf) + 1, Len(buf))) = 0
          /\ SubSeq(buf, Len(buf) + 1, Len(buf)) \in Seq(PieceSet)
      BY <1>1, SubSeqProperties
    <3> QED
      BY <2>1, <3>1, EmptySeq DEF Behind, Taken
  <2>2. CASE EndOfLine # 0
    BY <2>2 DEF Behind, Taken
  <2> QED
    BY <2>1, <2>2
<1>5. /\ Behind \in Seq(PieceSet) /\ Len(Behind) = Len(buf) - Taken
      /\ \A k \in 1 .. Len(Behind) : Behind[k] = buf[Taken + k]
  BY <1>1, <1>3, <1>4, SubSeqProperties
<1>6. Behind \o stream = SubSeq(Rest, Taken + 1, Len(Rest))
  <2>1. /\ Behind \o stream \in Seq(PieceSet)
        /\ Len(Behind \o stream) = Len(Behind) + Len(stream)
        /\ \A k \in 1 .. Len(Behind) : (Behind \o stream)[k] = Behind[k]
        /\ \A k \in 1 .. Len(stream) : (Behind \o stream)[Len(Behind) + k] = stream[k]
    BY <1>5, ConcatIs
  <2>2. /\ SubSeq(Rest, Taken + 1, Len(Rest)) \in Seq(PieceSet)
        /\ Len(SubSeq(Rest, Taken + 1, Len(Rest))) = Len(Rest) - Taken
        /\ \A k \in 1 .. Len(Rest) - Taken :
             SubSeq(Rest, Taken + 1, Len(Rest))[k] = Rest[Taken + k]
    BY <1>1, <1>3, SubSeqProperties
  <2>3. ASSUME NEW k \in 1 .. Len(Rest) - Taken
        PROVE  (Behind \o stream)[k] = Rest[Taken + k]
    <3>1. CASE k \in 1 .. Len(Behind)
      BY <1>1, <1>3, <1>5, <2>1, <3>1
    <3>2. CASE k \notin 1 .. Len(Behind)
      <4>1. k - Len(Behind) \in 1 .. Len(stream) /\ k = Len(Behind) + (k - Len(Behind))
            /\ Taken + k = Len(buf) + (k - Len(Behind))
        BY <1>1, <1>3, <1>5, <3>2
      <4> QED
        BY <1>1, <2>1, <4>1
    <3> QED
      BY <3>1, <3>2
  <2>4. Len(Behind \o stream) = Len(Rest) - Taken
    BY <1>1, <1>3, <1>5, <2>1
  <2> QED
    BY <2>1, <2>2, <2>3, <2>4, SeqEqual
<1>7. /\ Line \in Seq(PieceSet) /\ Len(Line) = IF EndOfLine = 0 THEN Len(buf) ELSE EndOfLine - 1
      /\ \A k \in 1 .. Len(Line) : Line[k] = buf[k]
  <2>1. CASE EndOfLine = 0
    BY <2>1, <1>1 DEF Line
  <2>2. CASE EndOfLine # 0
    <3>1. Line = SubSeq(buf, 1, EndOfLine - 1)
      BY <2>2 DEF Line
    <3> QED
      BY <2>2, <3>1, <1>1, <1>2, SubSeqProperties
  <2> QED
    BY <2>1, <2>2
<1>8. DOMAIN Line = 1 .. Len(Line)
  BY <1>7
<1>9. \A k \in DOMAIN Line : k \in 1 .. Taken /\ Line[k] = Rest[k]
  BY <1>1, <1>2, <1>7, <1>8 DEF Taken
<1>10. Line = <<>> => \A k \in 1 .. Taken : Rest[k].part = "end"
  <2> SUFFICES ASSUME Line = <<>>, NEW k \in 1 .. Taken PROVE Rest[k].part = "end"
    OBVIOUS
  <2>1. Len(Line) = 0
    OBVIOUS
  <2>2. EndOfLine # 0 /\ k = EndOfLine
    BY <1>1, <1>2, <1>7, <2>1 DEF Taken
  <2> QED
    BY <1>1, <1>2, <2>2
<1>11. Line # <<>> => Head(Line) = Line[1] /\ 1 \in DOMAIN Line
  <2> SUFFICES ASSUME Line # <<>> PROVE Head(Line) = Line[1] /\ 1 \in DOMAIN Line
    OBVIOUS
  <2>1. Len(Line) # 0
    BY <1>7, EmptySeq
  <2> QED
    BY <1>7, <1>8, <2>1
<1>12. ASSUME Line # <<>>, NEW k \in 1 .. Taken PROVE Rest[k].line = Head(Line).line
  <2> DEFINE S == {j \in 0 .. Taken : j = 0 \/ Rest[j].line = Rest[1].line}
  <2>1. ASSUME NEW j \in 1 .. Taken, j - 1 \in S PROVE j \in S
    <3>1. CASE j = 1
      BY <3>1
    <3>2. CASE j # 1
      <4>1. j - 1 \in 1 .. Len(buf) /\ j - 1 \in 1 .. Len(Rest) /\ (j - 1) + 1 = j
        BY <1>1, <1>3, <3>2
      <4>2. Rest[j - 1].part # "end"
        <5>1. Rest[j - 1] = buf[j - 1]
          BY <1>1, <4>1
        <5>2. EndOfLine = 0 \/ j - 1 \in 1 .. EndOfLine - 1
          BY <1>2, <3>2 DEF Taken
        <5> QED
          BY <1>2, <4>1, <5>1, <5>2
      <4>3. Rest[j].line = Rest[j - 1].line
        BY <4>1, <4>2 DEF WholeLines
      <4> QED
        BY <2>1, <4>1, <4>3
    <3> QED
      BY <3>1, <3>2
  <2>2. 0 \in S /\ Taken \in Nat
    BY <1>3, <1>1
  <2>3. \A j \in 0 .. Taken : j \in S
    <3> HIDE DEF S
    <3> QED
      BY <2>1, <2>2, Upward
  <2>4. Rest[k].line = Rest[1].line
    BY <2>2, <2>3
  <2> QED
    BY <1>9, <1>11, <1>12, <2>4
<1> QED
  BY <1>1, <1>3, <1>5, <1>6, <1>9, <1>10, <1>11, <1>12

-----------------------------------------------------------------------------
(* The invariant holds *)

LEMMA SoundInit == Init => Sound
<1> SUFFICES ASSUME Init PROVE Sound
  OBVIOUS
<1>1. stream = FlattenSeq([i \in DOMAIN List |-> Pieces(i)]) /\ buf = <<>>
  BY DEF Init, AddressInit
<1>2. stream \in Seq(PieceSet) /\ WholeLines(stream) /\ \A i \in Networks : Begins(stream, i)
  BY <1>1, ListIsWhole
<1>3. buf \in Seq(PieceSet) /\ Rest = stream
  BY <1>1, <1>2, ConcatEmptySeq DEF Rest
<1>4. Kept
  BY <1>2, <1>3 DEF Kept
<1>5. main = "apn_init" /\ thread = "none" /\ apn = "down" /\ ~crashed
  BY DEF Init, AddressInit
<1>6. LeftBehind
  BY <1>1 DEF LeftBehind
<1> QED
  BY <1>2, <1>3, <1>4, <1>5, <1>6 DEF Sound, AddressTyped, Calls, Staged, CrashExplained

\* A step that leaves the pieces and the bits alone.
LEMMA KeptStays ==
  ASSUME Kept, AddressTyped, ~crashed, UNCHANGED <<buf, stream, cut, marked>>
  PROVE  Kept' /\ buf' \in Seq(PieceSet) /\ stream' \in Seq(PieceSet)
<1>1. Rest' = Rest
  BY DEF Rest
<1>2. \A i \in Networks : (Begins(Rest, i) \/ i \in cut \/ Bit(i) \in marked)'
                          <=> Begins(Rest, i) \/ i \in cut \/ Bit(i) \in marked
  BY <1>1 DEF Begins, Bit
<1> QED
  BY <1>1, <1>2 DEF Kept, AddressTyped, WholeLines

\* The steps of the main thread but for accept.
LEMMA MainKeeps ==
  ASSUME Sound, ~crashed,
         \/ ApnInit \/ PoolUp \/ DevOpen \/ StartIo \/ DevClose \/ PoolDown \/ ApnRelease
         \/ AcceptClose \/ WorkEnd \/ JoinIo \/ GetChar
  PROVE  Sound'
<1>1. /\ UNCHANGED <<stream, buf, marked, cut, crashed, stopped>>
      /\ UNCHANGED thread \/ main = "apn_init"
      /\ main' \in Calls
  BY DEF ApnInit, PoolUp, DevOpen, StartIo, DevClose, PoolDown, ApnRelease, AcceptClose,
         WorkEnd, JoinIo, GetChar, MainGoto, addressVars, downloadVars, InitStep, ReleaseStep,
         OpenMap, StartSync, CloseMap, SetSyncExit, Join, Calls
<1>2. Kept' /\ buf' \in Seq(PieceSet) /\ stream' \in Seq(PieceSet)
  BY <1>1, KeptStays DEF Sound
<1>3. ~crashed'
  BY <1>1
<1>4. Staged'
  <2> USE DEF Sound, Staged, Opened, MainGoto, ApnGoto
  <2>1. CASE ApnInit
    <3>1. CASE OpenMap("down", 4, "open_ipv6")
      BY <2>1, <3>1 DEF ApnInit, OpenMap, downloadVars
    <3>2. CASE OpenMap("open_ipv6", 6, "sync")
      BY <2>1, <3>2 DEF ApnInit, OpenMap, downloadVars
    <3>3. CASE StartSync("sync", "up")
      BY <2>1, <3>3 DEF ApnInit, StartSync
    <3> QED
      BY <2>1, <3>1, <3>2, <3>3 DEF ApnInit, InitStep
  <2>2. CASE ApnRelease
    <3>1. CASE CloseMap("up", 4, "close_ipv6")
      BY <2>2, <3>1 DEF ApnRelease, CloseMap, downloadVars
    <3>2. CASE CloseMap("close_ipv6", 6, "set_exit")
      BY <2>2, <3>2 DEF ApnRelease, CloseMap, downloadVars
    <3>3. CASE SetSyncExit
      BY <2>2, <3>3 DEF ApnRelease, SetSyncExit, downloadVars
    <3>4. CASE Join
      BY <2>2, <3>4 DEF ApnRelease, Join, downloadVars
    <3> QED
      BY <2>2, <3>1, <3>2, <3>3, <3>4 DEF ApnRelease, ReleaseStep
  <2>3. CASE \/ PoolUp \/ DevOpen \/ StartIo \/ DevClose \/ PoolDown \/ AcceptClose
             \/ WorkEnd \/ JoinIo \/ GetChar
    BY <2>3 DEF PoolUp, DevOpen, StartIo, DevClose, PoolDown, AcceptClose, WorkEnd, JoinIo,
                GetChar, addressVars, downloadVars
  <2> QED
    BY <2>1, <2>2, <2>3
<1>5. LeftBehind'
  BY <1>1 DEF Sound, Staged, LeftBehind
<1> QED
  BY <1>1, <1>2, <1>3, <1>4, <1>5 DEF Sound, AddressTyped, CrashExplained

\* A port in use ends the process here.
LEMMA AcceptKeeps ==
  ASSUME Sound, ~crashed, Accept
  PROVE  Sound'
<1>1. Kept' /\ buf' \in Seq(PieceSet) /\ stream' \in Seq(PieceSet)
  BY KeptStays DEF Sound, Accept
<1>2. Staged' /\ main' \in Calls
  BY DEF Sound, Staged, Opened, Accept, MainGoto, Calls
<1>3. CrashExplained' /\ LeftBehind'
  BY DEF Accept, CrashExplained, Sound, LeftBehind
<1> QED
  BY <1>1, <1>2, <1>3 DEF Sound, AddressTyped

\* Steps that have no part in this.
LEMMA OthersKeep ==
  ASSUME Sound, ~crashed,
         \/ EndOfInput \/ IoAccepted \/ IoAborted \/ IoReturns
         \/ HangUp /\ UNCHANGED mainVars
         \/ \E w \in Workers : Work(WorkerStep(w) \/ SpuriousWake(w))
  PROVE  Sound'
<1>1. UNCHANGED <<apn, maps, failed, thread, stream, buf, marked, cut, crashed, main, stopped>>
  BY DEF EndOfInput, IoAccepted, IoAborted, IoReturns, HangUp, Work, mainVars, addressVars,
         downloadVars
<1>2. Kept' /\ buf' \in Seq(PieceSet) /\ stream' \in Seq(PieceSet)
  BY <1>1, KeptStays DEF Sound
<1>3. Staged' /\ main' \in Calls
  BY <1>1 DEF Sound, AddressTyped, Staged, Opened
<1> QED
  BY <1>1, <1>2, <1>3 DEF Sound, AddressTyped, LeftBehind, CrashExplained

\* While the thread runs, the bitmaps are there that could be mapped, or
\* release has begun to close them.
LEMMA StagedRunning ==
  ASSUME Sound, thread \notin {"none", "done"}
  PROVE  Opened \/ (main = "apn_release" /\ apn # "up")
<1>1. main \in Calls \ {"apn_init", "accept_close", "work_end", "join_io", "out"}
  BY DEF Sound, AddressTyped, Staged
<1> QED
  BY <1>1 DEF Sound, Staged, Calls

\* The thread's steps leave the stages alone.
LEMMA StagedStays ==
  ASSUME Sound, UNCHANGED mainVars,
         NEW from, NEW to, from \notin {"none", "done"}, ThreadGoto(from, to)
  PROVE  Staged' /\ main' \in Calls
BY DEF Sound, AddressTyped, Staged, Opened, ThreadGoto, mainVars

\* What is received is not lost.
LEMMA ReadKeeps ==
  ASSUME Sound, ~crashed, Read, UNCHANGED mainVars
  PROVE  Sound'
<1>1. Staged' /\ main' \in Calls
  BY StagedStays DEF Read
<1>2. PICK n \in 1 .. MaxRead : /\ n <= Len(stream)
                                /\ buf' = buf \o SubSeq(stream, 1, n)
                                /\ stream' = SubSeq(stream, n + 1, Len(stream))
  BY DEF Read
<1>3. buf \in Seq(PieceSet) /\ stream \in Seq(PieceSet)
  BY DEF Sound, AddressTyped
<1> DEFINE first == SubSeq(stream, 1, n)
<1>0. n \in 1 .. Len(stream)
  BY <1>2, <1>3, LenProperties
<1>4. /\ first \in Seq(PieceSet) /\ stream' \in Seq(PieceSet)
      /\ first \o stream' = stream
  <2>1. n \in 0 .. Len(stream)
    BY <1>0
  <2> QED
    BY <1>2, <1>3, <2>1, SplitIs
<1>6. Rest' = Rest /\ buf' \in Seq(PieceSet)
  <2> HIDE DEF first
  <2>1. buf' = buf \o first
    BY <1>2 DEF first
  <2>2. buf' \o stream' = buf \o (first \o stream')
    <3>1. buf \in Seq(PieceSet) /\ first \in Seq(PieceSet) /\ stream' \in Seq(PieceSet)
      BY <1>3, <1>4
    <3>2. (buf \o first) \o stream' = buf \o (first \o stream')
      BY <3>1, ConcatAssociative
    <3> QED
      BY <2>1, <3>2
  <2> QED
    BY <1>3, <1>4, <2>1, <2>2, ConcatIs DEF Rest
<1>7. UNCHANGED <<marked, crashed, cut>> /\ thread' = "lines"
  BY DEF Read, ThreadGoto
<1>8. Kept'
  BY <1>6, <1>7 DEF Kept, Sound, WholeLines, Begins, Bit
<1> QED
  BY <1>1, <1>4, <1>6, <1>7, <1>8 DEF Sound, AddressTyped, LeftBehind, CrashExplained

\* An empty line is the end of one that was looked at before.
LEMMA NoLineMoreKeeps ==
  ASSUME Sound, ~crashed, NoLineMore, UNCHANGED mainVars
  PROVE  Sound'
<1>1. Staged' /\ main' \in Calls
  BY StagedStays DEF NoLineMore
<1>2. /\ buf' = Behind /\ Line = <<>>
      /\ UNCHANGED <<stream, marked, cut, crashed>>
  BY DEF NoLineMore
<1>3. /\ buf \in Seq(PieceSet) /\ stream \in Seq(PieceSet) /\ WholeLines(Rest)
      /\ \A i \in Networks : Begins(Rest, i) \/ i \in cut \/ Bit(i) \in marked
  BY DEF Sound, AddressTyped, Kept
<1>4. /\ Taken \in 0 .. Len(Rest) /\ Rest \in Seq(PieceSet) /\ Behind \in Seq(PieceSet)
      /\ Behind \o stream = SubSeq(Rest, Taken + 1, Len(Rest))
      /\ \A k \in 1 .. Taken : Rest[k].part = "end"
  BY <1>2, <1>3, LineIs
<1>5. /\ WholeLines(Rest')
      /\ \A i : Begins(Rest, i) => Begins(Rest', i)
  <2>1. Rest' = SubSeq(Rest, Taken + 1, Len(Rest))
    BY <1>2, <1>4 DEF Rest
  <2> HIDE DEF Rest
  <2>2. /\ WholeLines(SubSeq(Rest, Taken + 1, Len(Rest)))
        /\ \A i : Begins(Rest, i) =>
             \/ Begins(SubSeq(Rest, Taken + 1, Len(Rest)), i)
             \/ \E k \in 1 .. Taken : Rest[k].line = i /\ Rest[k].part = "apnic|"
    BY <1>3, <1>4, WholeRest
  <2> QED
    BY <1>4, <2>1, <2>2
<1>6. Kept'
  BY <1>2, <1>3, <1>5 DEF Kept, WholeLines, Begins, Bit
<1>7. buf' = <<>> \/ stopped'
  BY DEF NoLineMore, Behind
<1> QED
  BY <1>1, <1>2, <1>3, <1>4, <1>6, <1>7 DEF Sound, AddressTyped, LeftBehind, CrashExplained

\* A line that is taken is one network's, and that is marked or cut.
LEMMA TakeLineKeeps ==
  ASSUME Sound, ~crashed, TakeLine, UNCHANGED mainVars
  PROVE  Sound'
<1> DEFINE i == Head(Line).line
           has == {piece.part : piece \in ToSet(Line)}
           hit == {"apnic|", "CN|ipv"} \subseteq has
           whole == hit /\ {"4|address", "|size"} \subseteq has
           open == List[i].family \in maps
<1>1. /\ Line # <<>> /\ ThreadGoto("lines", "lines") /\ buf' = Behind
      /\ cut' = IF i \in Networks /\ ~whole THEN cut \cup {i} ELSE cut
      /\ marked' = IF whole /\ open THEN marked \cup {Bit(i)} ELSE marked
      /\ crashed' = (hit /\ ~(whole /\ open))
      /\ stream' = stream
  BY Zenon DEF TakeLine
<1>2. Staged' /\ main' \in Calls
  BY <1>1, StagedStays
<1>3. /\ buf \in Seq(PieceSet) /\ stream \in Seq(PieceSet) /\ WholeLines(Rest)
      /\ \A j \in Networks : Begins(Rest, j) \/ j \in cut \/ Bit(j) \in marked
  BY DEF Sound, AddressTyped, Kept
<1>4. /\ Taken \in 0 .. Len(Rest) /\ Rest \in Seq(PieceSet) /\ Behind \in Seq(PieceSet)
      /\ Behind \o stream = SubSeq(Rest, Taken + 1, Len(Rest))
      /\ \A k \in 1 .. Taken : Rest[k].line = i
      /\ \A k \in DOMAIN Line : k \in 1 .. Taken /\ Line[k] = Rest[k]
      /\ 1 \in DOMAIN Line
  BY <1>1, <1>3, LineIs
<1>5. Rest[1].line = i /\ Rest[1] \in PieceSet /\ i \in DOMAIN List
  <2>1. 1 \in 1 .. Len(Rest)
    BY <1>4
  <2>2. Rest[1] \in PieceSet
    BY <1>4, <2>1
  <2> QED
    BY <1>4, <2>2 DEF PieceSet
<1>6. hit => i \in Networks
  <2> SUFFICES ASSUME "apnic|" \in has PROVE List[i] # Other
    BY <1>5 DEF Networks
  <2>1. PICK piece \in ToSet(Line) : piece.part = "apnic|"
    BY Zenon
  <2>2. PICK k \in DOMAIN Line : Line[k] = piece
    BY DEF ToSet
  <2>3. /\ k \in 1 .. Len(Rest) /\ Rest[k].line = i /\ Rest[k].part = "apnic|"
    BY <1>4, <2>1, <2>2
  <2>4. "apnic|" \in ToSet(Parts(List[i]))
    BY <1>3, <2>3 DEF WholeLines
  <2>5. List[i] = Other => ToSet(Parts(List[i])) = {"text", "end"}
    BY DEF Parts, ToSet
  <2> QED
    BY <2>4, <2>5
<1> HIDE DEF has, hit, whole, open, i
<1>7. /\ WholeLines(Rest')
      /\ \A j : Begins(Rest, j) => Begins(Rest', j) \/ j = i
  <2>1. Rest' = SubSeq(Rest, Taken + 1, Len(Rest))
    BY <1>1, <1>4 DEF Rest
  <2> HIDE DEF Rest
  <2>2. /\ WholeLines(SubSeq(Rest, Taken + 1, Len(Rest)))
        /\ \A j : Begins(Rest, j) =>
             \/ Begins(SubSeq(Rest, Taken + 1, Len(Rest)), j)
             \/ \E k \in 1 .. Taken : Rest[k].line = j /\ Rest[k].part = "apnic|"
    BY <1>3, <1>4, WholeRest
  <2> QED
    BY <1>4, <2>1, <2>2
<1>8. whole => hit
  BY DEF whole
<1>9. ~crashed' /\ i \in Networks => i \in cut' \/ Bit(i) \in marked'
  BY <1>1, <1>8
<1>10. cut \subseteq cut' /\ marked \subseteq marked'
  BY <1>1
<1>11. Kept'
  <2> SUFFICES ASSUME ~crashed', NEW j \in Networks
               PROVE  Begins(Rest', j) \/ j \in cut' \/ Bit(j) \in marked'
    BY <1>7 DEF Kept, WholeLines, Begins, Bit
  <2> QED
    BY <1>3, <1>7, <1>9, <1>10
<1>13. LeftBehind'
  BY <1>1 DEF LeftBehind, ThreadGoto
<1>12. CrashExplained'
  <2> SUFFICES ASSUME crashed'
               PROVE  cut' # {} \/ failed # {} \/ (main = "apn_release" /\ apn # "up")
    BY <1>1 DEF CrashExplained, ThreadGoto, mainVars
  <2>1. hit /\ ~(whole /\ open) /\ i \in Networks
    BY <1>1, <1>6
  <2>2. CASE ~whole
    <3>1. cut' = cut \cup {i}
      BY <1>1, <2>1, <2>2, Zenon
    <3> QED
      BY <3>1
  <2>3. CASE whole
    <3>1. List[i].family \in {4, 6} /\ List[i].family \notin maps
      BY <2>1, <2>3, ListAssumption DEF open
    <3>2. thread = "lines"
      BY <1>1 DEF ThreadGoto
    <3>3. Opened \/ (main = "apn_release" /\ apn # "up")
      BY <3>2, StagedRunning
    <3> QED
      BY <3>1, <3>3 DEF Opened
  <2> QED
    BY <2>2, <2>3
<1> QED
  BY <1>1, <1>2, <1>3, <1>4, <1>11, <1>12, <1>13 DEF Sound, AddressTyped

\* The thread's other steps only move it, or end the process for want of an
\* address.
LEMMA ThreadKeeps ==
  ASSUME Sound, ~crashed, Resolve \/ Connect \/ TestSyncExit \/ ReadFails, UNCHANGED mainVars
  PROVE  Sound'
<1>1. Kept' /\ buf' \in Seq(PieceSet) /\ stream' \in Seq(PieceSet)
  BY KeptStays DEF Sound, Resolve, Connect, TestSyncExit, ReadFails
<1>2. Staged' /\ main' \in Calls
  <2>1. CASE Resolve
    BY <2>1, StagedStays DEF Resolve
  <2>2. CASE Connect
    BY <2>2, StagedStays DEF Connect
  <2>3. CASE TestSyncExit
    BY <2>3, StagedStays DEF TestSyncExit
  <2>4. CASE ReadFails
    BY <2>4, StagedStays DEF ReadFails
  <2> QED
    BY <2>1, <2>2, <2>3, <2>4
<1>3. crashed' => unresolved'
  BY DEF Resolve, Connect, TestSyncExit, ReadFails
<1>4. LeftBehind'
  BY DEF Sound, LeftBehind, Resolve, Connect, TestSyncExit, ReadFails, ThreadGoto
<1> QED
  BY <1>1, <1>2, <1>3, <1>4 DEF Sound, AddressTyped, CrashExplained

LEMMA SoundNext == Sound /\ [Next]_vars => Sound'
<1> SUFFICES ASSUME Sound, [Next]_vars PROVE Sound'
  OBVIOUS
<1>1. CASE UNCHANGED vars
  <2>1. UNCHANGED <<apn, maps, failed, thread, stream, buf, marked, cut, crashed, main,
                    stopped, unresolved, taken>> /\ Rest' = Rest
    BY <1>1 DEF vars, addressVars, downloadVars, mainVars, Rest
  <2>2. Kept'
    BY <2>1 DEF Sound, Kept, WholeLines, Begins, Bit
  <2> QED
    BY <2>1, <2>2 DEF Sound, AddressTyped, LeftBehind, Staged, Opened, CrashExplained
<1>2. CASE Next
  <2>1. ~crashed
    BY <1>2 DEF Next
  <2>2. CASE MainStep \/ GetChar
    BY <2>1, <2>2, MainKeeps, AcceptKeeps DEF MainStep
  <2>3. CASE Download
    BY <2>1, <2>3, ReadKeeps, NoLineMoreKeeps, TakeLineKeeps, ThreadKeeps
       DEF Download, ThreadStep, OwnStep
  <2>4. CASE \/ EndOfInput \/ IoAccepted \/ IoAborted \/ IoReturns
             \/ HangUp /\ UNCHANGED mainVars
             \/ \E w \in Workers : Work(WorkerStep(w) \/ SpuriousWake(w))
    BY <2>1, <2>4, OthersKeep
  <2> QED
    BY <1>2, <2>2, <2>3, <2>4 DEF Next
<1> QED
  BY <1>1, <1>2

(***************************************************************************)
(* AddressList: for every list, every size of read and wherever the reads  *)
(* end, a Chinese network that was received is marked, unless a read cut   *)
(* its line behind its beginning, or it lies whole behind the empty line   *)
(* that the last read began with, or the process is over.                  *)
(***************************************************************************)
THEOREM NothingElseLost == Spec => []LostExplained
<1>1. Sound => LostExplained
  <2> SUFFICES ASSUME Sound, ~crashed, thread # "lines", NEW i \in Networks, Received(i),
                      Begins(Rest, i)
               PROVE  stopped /\ LeftInBuf(i)
    BY DEF LostExplained, Sound, Kept
  <2>1. buf \in Seq(PieceSet) /\ stream \in Seq(PieceSet)
    BY DEF Sound, AddressTyped
  <2>2. PICK k \in 1 .. Len(buf \o stream) :
          (buf \o stream)[k].line = i /\ (buf \o stream)[k].part = "apnic|"
    BY DEF Begins, Rest
  <2>3. /\ Len(buf \o stream) = Len(buf) + Len(stream) /\ Len(buf) \in Nat
        /\ Len(stream) \in Nat
        /\ \A j \in 1 .. Len(buf) : (buf \o stream)[j] = buf[j]
        /\ \A j \in 1 .. Len(stream) : (buf \o stream)[Len(buf) + j] = stream[j]
    BY <2>1, ConcatIs
  <2>4. k \in 1 .. Len(buf)
    <3> SUFFICES ASSUME k \notin 1 .. Len(buf) PROVE FALSE
      OBVIOUS
    <3>1. k - Len(buf) \in 1 .. Len(stream) /\ k = Len(buf) + (k - Len(buf))
      BY <2>3
    <3>2. (buf \o stream)[k] = stream[k - Len(buf)]
      BY <2>3, <3>1
    <3>3. stream[k - Len(buf)] \in ToSet(stream)
      BY <2>1, <3>1 DEF ToSet
    <3> QED
      BY <2>2, <3>2, <3>3 DEF Received
  <2>5. /\ buf[k] \in PieceSet /\ buf[k].line = i /\ buf[k].part = "apnic|"
        /\ buf[k] \in ToSet(buf)
    BY <2>1, <2>2, <2>3, <2>4 DEF ToSet
  <2>6. buf[k] = [line |-> i, part |-> "apnic|"]
    BY <2>5 DEF PieceSet
  <2>7. buf # <<>>
    BY <2>4
  <2> QED
    BY <2>5, <2>6, <2>7 DEF Sound, LeftBehind, LeftInBuf
<1> QED
  BY SoundInit, SoundNext, <1>1, PTL DEF Spec

(***************************************************************************)
(* Controller: for every list, whatever ends the process before main does  *)
(* is one of the five causes; the download never meets a bitmap that init  *)
(* has not opened yet, or that release has closed, but for the time        *)
(* between that and the join.                                              *)
(***************************************************************************)
THEOREM CrashesExplained == Spec => []CrashExplained
<1>1. Sound => CrashExplained
  BY DEF Sound
<1> QED
  BY SoundInit, SoundNext, <1>1, PTL DEF Spec
=============================================================================
