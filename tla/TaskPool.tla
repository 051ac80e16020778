------------------------------ MODULE TaskPool ------------------------------
(***************************************************************************)
(* controller/controller.cpp: the task_pool.  A producer (the callback     *)
(* through which the device hands packets to controller::create) pushes    *)
(* tasks on a lock-free queue and notifies; each worker runs execute().    *)
(* The mutex is there for the condition variable only: a worker tests the  *)
(* queue and `exit' before it takes it, and neither push nor the           *)
(* destructor takes it at all.                                             *)
(***************************************************************************)
EXTENDS Naturals, Sequences

CONSTANTS
  Workers,    \* the threads of the pool
  Tasks,      \* the tasks that exist at a time; a closed one is a new one
  Free        \* the mutex when nobody holds it

ASSUME PoolAssumption == Free \notin Workers

VARIABLES
  queue,      \* the concurrent queue
  exit,       \* task_pool::exit
  mutex,      \* its holder, or Free
  at,         \* where each worker stands in execute()
  task,       \* the task each worker has, if any
  pushing,    \* the producer: "idle", or between enqueue and notify_one
  owner,      \* the destructor of the pool: where it stands
  missed,     \* history: since a worker last found the queue empty, a
              \* notify_one came while every worker was about to wait
  overtaken   \* history: the workers that began to wait after notify_all

poolVars == <<queue, exit, mutex, at, task, pushing, owner, missed, overtaken>>

NoTask == <<>>
WorkerStates == {"test", "dequeue", "lock", "wait", "waiting", "woken",
                 "unlock", "execute", "close", "ended"}

PoolInit ==
  /\ queue = <<>>
  /\ exit = FALSE
  /\ mutex = Free
  /\ at = [w \in Workers |-> "test"]
  /\ task = [w \in Workers |-> NoTask]
  /\ pushing = "idle"
  /\ owner = "running"
  /\ missed = FALSE
  /\ overtaken = {}

InHand(t) ==
  \/ \E i \in DOMAIN queue : queue[i] = t
  \/ \E w \in Workers : task[w] = <<t>>

-----------------------------------------------------------------------------
(* push, called by the producer *)

Enqueue(t) ==
  /\ owner = "running"
  /\ pushing = "idle"
  /\ ~InHand(t)
  /\ queue' = Append(queue, t)
  /\ pushing' = "notify"
  /\ UNCHANGED <<exit, mutex, at, task, owner, missed, overtaken>>

Waiting == {w \in Workers : at[w] = "waiting"}

\* A worker that found the queue empty and has not begun to wait for it.
AboutToWait(w) == at[w] \in {"lock", "wait"}

\* Faulty form: the wake-up is forgotten.
NotifyNobody ==
  /\ pushing = "notify"
  /\ pushing' = "idle"
  /\ UNCHANGED <<queue, exit, mutex, at, task, owner, missed, overtaken>>

\* notify_one wakes one waiting worker; if none waits it does nothing.
NotifyOne ==
  /\ pushing = "notify"
  /\ pushing' = "idle"
  /\ IF Waiting = {} THEN at' = at
     ELSE \E w \in Waiting : at' = [at EXCEPT ![w] = "woken"]
  /\ missed' = (missed \/ \A w \in Workers : AboutToWait(w))
  /\ UNCHANGED <<queue, exit, mutex, task, owner, overtaken>>

-----------------------------------------------------------------------------
(* execute, in worker w *)

Step(w, from, to) ==
  /\ at[w] = from
  /\ at' = [at EXCEPT ![w] = to]

TestExit(w) ==
  /\ Step(w, "test", IF exit THEN "ended" ELSE "dequeue")
  /\ UNCHANGED <<queue, exit, mutex, task, pushing, owner, missed, overtaken>>

TryDequeue(w) ==
  /\ queue # <<>>
  /\ Step(w, "dequeue", "execute")
  /\ task' = [task EXCEPT ![w] = <<Head(queue)>>]
  /\ queue' = Tail(queue)
  /\ UNCHANGED <<exit, mutex, pushing, owner, missed, overtaken>>

DequeueFails(w) ==
  /\ queue = <<>>
  /\ Step(w, "dequeue", "lock")
  /\ missed' = FALSE
  /\ UNCHANGED <<queue, exit, mutex, task, pushing, owner, overtaken>>

Lock(w) ==
  /\ mutex = Free
  /\ mutex' = w
  /\ Step(w, "lock", "wait")
  /\ UNCHANGED <<queue, exit, task, pushing, owner, missed, overtaken>>

\* cond.wait releases the mutex as it begins to wait, and looks at nothing.
Wait(w) ==
  /\ Step(w, "wait", "waiting")
  /\ mutex' = Free
  /\ overtaken' = IF owner = "join" THEN overtaken \cup {w} ELSE overtaken
  /\ UNCHANGED <<queue, exit, task, pushing, owner, missed>>

\* A wake-up may be spurious.
SpuriousWake(w) ==
  /\ Step(w, "waiting", "woken")
  /\ UNCHANGED <<queue, exit, mutex, task, pushing, owner, missed, overtaken>>

Relock(w) ==
  /\ mutex = Free
  /\ mutex' = w
  /\ Step(w, "woken", "unlock")
  /\ UNCHANGED <<queue, exit, task, pushing, owner, missed, overtaken>>

Unlock(w) ==
  /\ Step(w, "unlock", "test")
  /\ mutex' = Free
  /\ UNCHANGED <<queue, exit, task, pushing, owner, missed, overtaken>>

Execute(w) ==
  /\ Step(w, "execute", "close")
  /\ UNCHANGED <<queue, exit, mutex, task, pushing, owner, missed, overtaken>>

\* Faulty form: a worker waits after each task.
CloseAndWait(w) ==
  /\ Step(w, "close", "lock")
  /\ task' = [task EXCEPT ![w] = NoTask]
  /\ UNCHANGED <<queue, exit, mutex, pushing, owner, missed, overtaken>>

Close(w) ==
  /\ Step(w, "close", "test")
  /\ task' = [task EXCEPT ![w] = NoTask]
  /\ UNCHANGED <<queue, exit, mutex, pushing, owner, missed, overtaken>>

WorkerStep(w) ==
  \/ TestExit(w) \/ TryDequeue(w) \/ DequeueFails(w)
  \/ Lock(w) \/ Wait(w) \/ Relock(w) \/ Unlock(w)
  \/ Execute(w) \/ Close(w)

-----------------------------------------------------------------------------
(* ~task_pool; controller::release closes the device first *)

SetExit ==
  /\ owner = "running"
  /\ pushing = "idle"
  /\ exit' = TRUE
  /\ owner' = "notify"
  /\ UNCHANGED <<queue, mutex, at, task, pushing, missed, overtaken>>

\* Faulty form: one worker is woken.
NotifyFirst ==
  /\ owner = "notify"
  /\ owner' = "join"
  /\ IF Waiting = {} THEN at' = at
     ELSE \E w \in Waiting : at' = [at EXCEPT ![w] = "woken"]
  /\ UNCHANGED <<queue, exit, mutex, task, pushing, missed, overtaken>>

NotifyAll ==
  /\ owner = "notify"
  /\ owner' = "join"
  /\ at' = [w \in Workers |-> IF w \in Waiting THEN "woken" ELSE at[w]]
  /\ UNCHANGED <<queue, exit, mutex, task, pushing, missed, overtaken>>

Joined ==
  /\ owner = "join"
  /\ \A w \in Workers : at[w] = "ended"
  /\ owner' = "done"
  /\ UNCHANGED <<queue, exit, mutex, at, task, pushing, missed, overtaken>>

OwnerStep == NotifyAll \/ Joined

-----------------------------------------------------------------------------
PoolNext ==
  \/ \E t \in Tasks : Enqueue(t)
  \/ NotifyOne
  \/ \E w \in Workers : WorkerStep(w) \/ SpuriousWake(w)
  \/ SetExit
  \/ OwnerStep

PoolSpec == PoolInit /\ [][PoolNext]_poolVars

(***************************************************************************)
(* The operating system runs every thread that can run, and a mutex held   *)
(* for a few instructions goes to each waiter in turn.  Nobody has to push *)
(* a task, to destroy the pool or to wake up spuriously.                   *)
(***************************************************************************)
FairPoolSpec ==
  /\ PoolSpec
  /\ WF_poolVars(NotifyOne)
  /\ WF_poolVars(OwnerStep)
  /\ \A w \in Workers : SF_poolVars(WorkerStep(w))

-----------------------------------------------------------------------------
TypeOK ==
  /\ \A i \in DOMAIN queue : queue[i] \in Tasks
  /\ exit \in BOOLEAN
  /\ mutex \in Workers \cup {Free}
  /\ \A w \in Workers : mutex = w <=> at[w] \in {"wait", "unlock"}
  /\ at \in [Workers -> WorkerStates]
  /\ task \in [Workers -> {NoTask} \cup {<<t>> : t \in Tasks}]
  /\ pushing \in {"idle", "notify"}
  /\ owner \in {"running", "notify", "join", "done"}

(***************************************************************************)
(* The one way to strand a task: tasks are queued, every worker waits and  *)
(* no notification is due only if a notify_one fell where every worker had *)
(* found the queue empty and none had begun to wait.  One worker awake     *)
(* anywhere else is enough, since a worker waits only on an empty queue.   *)
(***************************************************************************)
StrandedOnlyIfMissed ==
  /\ queue # <<>>
  /\ pushing = "idle"
  /\ \A w \in Workers : at[w] = "waiting"
  => missed

Queued(t) == \E i \in DOMAIN queue : queue[i] = t
AllWait == Waiting = Workers

(***************************************************************************)
(* Every queued task is taken by some worker, unless the pool is being     *)
(* destroyed or a notify_one was missed and every worker waits.            *)
(***************************************************************************)
TakenOrStranded ==
  \A t \in Tasks : Queued(t) ~> ~Queued(t) \/ exit \/ (missed /\ AllWait)

(***************************************************************************)
(* A stranded task is not lost: the next push wakes one worker, and that   *)
(* one takes the tasks of the pushes that woke nobody as well.             *)
(***************************************************************************)
NextPushRescues ==
  \A t \in Tasks :
    Queued(t) /\ AllWait /\ pushing = "notify" ~> ~Queued(t) \/ exit

(***************************************************************************)
(* The destructor joins every worker, unless one that had tested `exit'    *)
(* before it was set began to wait only after the notify_all.              *)
(***************************************************************************)
JoinEnds ==
  exit ~> owner = "done" \/ \E w \in overtaken : at[w] = "waiting"

=============================================================================
