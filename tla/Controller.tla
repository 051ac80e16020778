----------------------------- MODULE Controller -----------------------------
(***************************************************************************)
(* controller/main.cpp and the init and release of controller.cpp: the     *)
(* main thread brings the address list, the device, the task pool and the  *)
(* listening socket up and takes them down again, while the thread of the  *)
(* address list downloads and the thread of io serves the one connection   *)
(* that is ever accepted.                                                  *)
(*                                                                         *)
(* The pool's workers and its destructor are those of TaskPool.  No task   *)
(* is pushed: device::open and close only store a callback, nothing reads  *)
(* the device, so create is never called.                                  *)
(***************************************************************************)
EXTENDS AddressList, TaskPool

VARIABLES
  main,       \* where the main thread is
  eof,        \* the standard input has ended
  callback,   \* the device knows create
  pool,       \* the task pool exists
  work,       \* io has a reason to go on though nothing is pending
  io,         \* the thread of io: "none", "run", "done"
  pending,    \* accept: "none", "listening", "accepted", "aborted"
  taken       \* history: the port was taken

poolState == <<pool, poolVars>>
mainVars == <<main, eof, callback, poolState, work, io, pending, taken>>
vars == <<addressVars, mainVars>>

\* The calls of release, in order.
Releasing == {"dev_close", "pool_down", "apn_release", "accept_close",
              "work_end", "join_io"}

Init ==
  /\ AddressInit
  /\ PoolInit
  /\ main = "apn_init"
  /\ eof = FALSE
  /\ callback = FALSE
  /\ pool = FALSE
  /\ work = FALSE
  /\ io = "none"
  /\ pending = "none"
  /\ taken = FALSE

MainGoto(from, to) ==
  /\ main = from
  /\ main' = to

-----------------------------------------------------------------------------
(* controller::init *)

ApnInit ==
  /\ InitStep
  /\ MainGoto("apn_init", IF apn' = "up" THEN "pool_up" ELSE "apn_init")
  /\ UNCHANGED <<eof, callback, poolState, work, io, pending, taken>>

PoolUp ==
  /\ MainGoto("pool_up", "dev_open")
  /\ pool' = TRUE
  /\ UNCHANGED <<addressVars, poolVars, eof, callback, work, io, pending, taken>>

DevOpen ==
  /\ MainGoto("dev_open", "start_io")
  /\ callback' = TRUE
  /\ UNCHANGED <<addressVars, eof, poolState, work, io, pending, taken>>

StartIo ==
  /\ MainGoto("start_io", "accept")
  /\ work' = TRUE
  /\ io' = "run"
  /\ UNCHANGED <<addressVars, eof, callback, poolState, pending, taken>>

\* The constructor of the acceptor throws when the port is taken, and nobody
\* catches; otherwise accept starts waiting.
Accept ==
  /\ MainGoto("accept", "serve")
  /\ \/ pending' = "listening" /\ UNCHANGED <<taken, crashed>>
     \/ taken' = TRUE /\ crashed' = TRUE /\ UNCHANGED pending
  /\ UNCHANGED <<apn, maps, sync_exit, failed, thread, stream, hungup, buf, marked,
                 stopped, cut, unresolved, eof, callback, poolState, work, io>>

-----------------------------------------------------------------------------
(* main: the loop ends with a `q' or a NUL, but not with the input. *)

GetChar ==
  /\ ~eof
  /\ MainGoto("serve", "dev_close")
  /\ UNCHANGED <<addressVars, eof, callback, poolState, work, io, pending, taken>>

\* EOF is stored in a char that is neither; every getchar gives it again.
EndOfInput ==
  /\ ~eof
  /\ main = "serve"
  /\ eof' = TRUE
  /\ UNCHANGED <<addressVars, main, callback, poolState, work, io, pending, taken>>

-----------------------------------------------------------------------------
(* controller::release *)

DevClose ==
  /\ MainGoto("dev_close", "pool_down")
  /\ callback' = FALSE
  /\ UNCHANGED <<addressVars, eof, poolState, work, io, pending, taken>>

\* The destructor of the pool: exit, notify_all, and the join, which may not
\* return.
PoolDown ==
  /\ SetExit \/ OwnerStep
  /\ MainGoto("pool_down", IF owner' = "done" THEN "apn_release" ELSE "pool_down")
  /\ pool' = (owner' # "done")
  /\ UNCHANGED <<addressVars, eof, callback, work, io, pending, taken>>

ApnRelease ==
  /\ ReleaseStep
  /\ MainGoto("apn_release", IF apn' = "down" THEN "accept_close" ELSE "apn_release")
  /\ UNCHANGED <<eof, callback, poolState, work, io, pending, taken>>

\* Faulty form: the acceptor is left open.
AcceptKept ==
  /\ MainGoto("accept_close", "work_end")
  /\ UNCHANGED <<addressVars, eof, callback, poolState, work, io, pending, taken>>

\* Closing the acceptor aborts what waits on it.
AcceptClose ==
  /\ MainGoto("accept_close", "work_end")
  /\ pending' = IF pending = "listening" THEN "aborted" ELSE pending
  /\ UNCHANGED <<addressVars, eof, callback, poolState, work, io, taken>>

WorkEnd ==
  /\ MainGoto("work_end", "join_io")
  /\ work' = FALSE
  /\ UNCHANGED <<addressVars, eof, callback, poolState, io, pending, taken>>

JoinIo ==
  /\ io = "done"
  /\ MainGoto("join_io", "out")
  /\ UNCHANGED <<addressVars, eof, callback, poolState, work, io, pending, taken>>

MainStep ==
  \/ ApnInit \/ PoolUp \/ DevOpen \/ StartIo \/ Accept
  \/ DevClose \/ PoolDown \/ ApnRelease \/ AcceptClose \/ WorkEnd \/ JoinIo

-----------------------------------------------------------------------------
(* The thread of io *)

\* A client connects; config is empty and nothing accepts again.
IoAccepted ==
  /\ io = "run"
  /\ pending = "listening"
  /\ pending' = "accepted"
  /\ UNCHANGED <<addressVars, main, eof, callback, poolState, work, io, taken>>

\* The handler of an aborted accept does nothing.
IoAborted ==
  /\ io = "run"
  /\ pending = "aborted"
  /\ pending' = "none"
  /\ UNCHANGED <<addressVars, main, eof, callback, poolState, work, io, taken>>

\* io.run returns when nothing is left to wait for.
IoReturns ==
  /\ io = "run"
  /\ ~work
  /\ pending \notin {"listening", "aborted"}
  /\ io' = "done"
  /\ UNCHANGED <<addressVars, main, eof, callback, poolState, work, pending, taken>>

Download == ThreadStep /\ UNCHANGED mainVars

\* A worker of the pool.
Work(A) ==
  /\ pool
  /\ A
  /\ UNCHANGED <<addressVars, main, eof, callback, pool, work, io, pending, taken>>

\* When main has returned, or an exception was not caught, the process ends.
Next ==
  /\ ~crashed
  /\ main # "out"
  /\ \/ MainStep
     \/ GetChar
     \/ EndOfInput
     \/ Download
     \/ \E w \in Workers : Work(WorkerStep(w) \/ SpuriousWake(w))
     \/ HangUp /\ UNCHANGED mainVars
     \/ IoAccepted
     \/ IoAborted
     \/ IoReturns

Spec == Init /\ [][Next]_vars

(***************************************************************************)
(* Every thread that can go on is scheduled at last, a mutex goes to each  *)
(* waiter in turn, and names are resolved and connections made or refused  *)
(* in finite time.  No client has to connect, nobody has to type, no       *)
(* wake-up has to be spurious, and the server need neither send nor hang   *)
(* up.                                                                     *)
(***************************************************************************)
Alive(A) == ~crashed /\ main # "out" /\ A

Fairness ==
  /\ WF_vars(Alive(MainStep))
  /\ WF_vars(Alive(OwnStep /\ UNCHANGED mainVars))
  /\ WF_vars(Alive(IoAborted \/ IoReturns))
  /\ \A w \in Workers : SF_vars(Alive(Work(WorkerStep(w))))

FairSpec == Spec /\ Fairness

-----------------------------------------------------------------------------
\* No piece of line i is still to come.
Received(i) == \A piece \in ToSet(stream) : piece.line # i

\* Line i lies in the buffer, from its prefix on.
LeftInBuf(i) == [line |-> i, part |-> "apnic|"] \in ToSet(buf)

(***************************************************************************)
(* Between two reads, and after the last, a Chinese network whose line has *)
(* been received is marked, but for two causes that lose it: a read cut    *)
(* its line between the prefix and the bar behind the address, and the     *)
(* code keeps no part of a line for the next read; or the last read began  *)
(* with the end of a line, which ends the loop as an empty one, and the    *)
(* line lies behind that, whole, until a next read that may never come.    *)
(* What an earlier empty line left is lost no other way.                   *)
(***************************************************************************)
LostExplained ==
  ~crashed /\ thread # "lines" =>
    \A i \in Networks : Received(i) =>
      Bit(i) \in marked \/ i \in cut \/ (stopped /\ LeftInBuf(i))

(***************************************************************************)
(* What can end the process: no address for the host, a port in use, a     *)
(* line that a read cut behind its prefix, a bitmap that could not be      *)
(* mapped, or a network that arrives while release has closed a bitmap and *)
(* not yet joined the thread.  While init runs and while it serves,        *)
(* the download always finds the bitmaps that could be mapped.             *)
(***************************************************************************)
CrashExplained ==
  crashed => \/ unresolved
             \/ taken
             \/ cut # {}
             \/ failed # {}
             \/ main = "apn_release" /\ apn # "up"

\* The thread waits in a read, in mid-list or behind it, and the server neither
\* sends nor hangs up.
ServerSilent == thread = "read" /\ ~hungup

\* The destructor joins a worker that began to wait after its notify_all.
PoolStuck == main = "pool_down" /\ \E w \in overtaken : at[w] = "waiting"

(***************************************************************************)
(* A controller that is told to quit ends, but for two waits that nothing  *)
(* ends: that of the destructor of the pool, which sets exit and notifies  *)
(* without the mutex, for a worker that came too late; and that of the     *)
(* address list's thread for the server, since nothing closes its socket   *)
(* and sync_exit is only looked at between reads.  The thread of io is no  *)
(* obstacle, whether a client has connected or not.                        *)
(***************************************************************************)
QuitEnds ==
  \/ main \in Releasing ~> main = "out" \/ crashed
  \/ <>[]ServerSilent
  \/ <>[]PoolStuck

=============================================================================
