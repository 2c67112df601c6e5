---------------------------- MODULE StdoutLogger ----------------------------
(***************************************************************************)
(* The log queue and its thread                                            *)
(* (src/src/services/logger/stdout_logger.cpp).                            *)
(*                                                                         *)
(* Any thread of the daemon pushes a message under _queueMutex and then    *)
(* notifies; the logger thread waits on the condition variable, pops under *)
(* the mutex and prints without it; the destructor sets _done, which is    *)
(* atomic and not under the mutex, notifies and joins.  The predicate of a *)
(* wait is evaluated under the mutex and the thread blocks in a later      *)
(* step, so what happens without the mutex can come in between.            *)
(*                                                                         *)
(* Messages are numbered in the order they are pushed.                     *)
(***************************************************************************)
EXTENDS Naturals, Sequences

CONSTANTS
  Writers,     \* the threads that log: main, watchdog, installer
  Main,        \* the one of them that also destroys the logger
  MaxMessages  \* bound on the messages logged

VARIABLES
  queue,    \* _logQueue
  printed,  \* what has reached stdout
  holding,  \* the message popped and not yet printed: a sequence of at most one
  logged,   \* messages pushed so far
  done,     \* _done
  lock,     \* does the logger thread own _queueMutex?
  thread,   \* where the logger thread is
  writer    \* where each writer is

vars == <<queue, printed, holding, logged, done, lock, thread, writer>>

\* Where the thread is, and where it owns the mutex.
ThreadStates == {"starting", "loop", "predicate", "going to sleep", "asleep",
                 "woken", "drain", "printing", "ended"}
Owning == {"loop", "predicate", "going to sleep", "drain"}
WriterStates == {"idle", "notifying", "finishing", "joining", "gone"}

Init ==
  /\ queue = <<>> /\ printed = <<>> /\ holding = <<>> /\ logged = 0
  /\ done = FALSE /\ lock = FALSE /\ thread = "starting"
  /\ writer = [w \in Writers |-> "idle"]
-----------------------------------------------------------------------------
\* notify_one: the thread wakes if it sleeps, and nothing happens otherwise.
Notify == thread' = IF thread = "asleep" THEN "woken" ELSE thread

(* The writers *)

\* Log: push under the mutex.
Push(w) ==
  /\ writer[w] = "idle" /\ ~lock /\ logged < MaxMessages
  /\ logged' = logged + 1
  /\ queue' = Append(queue, logged + 1)
  /\ writer' = [writer EXCEPT ![w] = "notifying"]
  /\ UNCHANGED <<printed, holding, done, lock, thread>>

\* Log: notify after the mutex is released.
NotifyPushed(w) ==
  /\ writer[w] = "notifying"
  /\ Notify
  /\ writer' = [writer EXCEPT ![w] = "idle"]
  /\ UNCHANGED <<queue, printed, holding, logged, done, lock>>

\* A thread of another service is joined by that service's destructor.
Joined(w) ==
  /\ w # Main /\ writer[w] = "idle"
  /\ writer' = [writer EXCEPT ![w] = "gone"]
  /\ UNCHANGED <<queue, printed, holding, logged, done, lock, thread>>

\* ~StdoutLogger: the logger was registered first, so it is destroyed last.
SetDone ==
  /\ writer[Main] = "idle" /\ \A w \in Writers \ {Main} : writer[w] = "gone"
  /\ done' = TRUE
  /\ writer' = [writer EXCEPT ![Main] = "finishing"]
  /\ UNCHANGED <<queue, printed, holding, logged, lock, thread>>

NotifyDone ==
  /\ writer[Main] = "finishing"
  /\ Notify
  /\ writer' = [writer EXCEPT ![Main] = "joining"]
  /\ UNCHANGED <<queue, printed, holding, logged, done, lock>>

Join ==
  /\ writer[Main] = "joining" /\ thread = "ended"
  /\ writer' = [writer EXCEPT ![Main] = "gone"]
  /\ UNCHANGED <<queue, printed, holding, logged, done, lock, thread>>
-----------------------------------------------------------------------------
(* The logger thread: Process *)

Goes(to) == thread' = to /\ UNCHANGED <<queue, printed, holding, logged, done, writer>>

Start ==
  /\ thread = "starting"
  /\ lock' = TRUE
  /\ Goes("loop")

\* while (!_done || !_logQueue.empty())
Loop ==
  /\ thread = "loop"
  /\ LET goOn == ~done \/ queue # <<>>
     IN /\ lock' = goOn
        /\ Goes(IF goOn THEN "predicate" ELSE "ended")

\* The wait's predicate, and the decision to sleep.
Predicate ==
  /\ thread = "predicate"
  /\ Goes(IF done \/ queue # <<>> THEN "drain" ELSE "going to sleep")
  /\ UNCHANGED lock

\* The mutex is released and the thread sleeps in one step.
Sleep ==
  /\ thread = "going to sleep"
  /\ lock' = FALSE
  /\ Goes("asleep")

\* A notification, or nothing at all, woke it: it needs the mutex to go on.
Awake ==
  /\ thread \in {"woken", "asleep"}
  /\ lock' = TRUE
  /\ Goes("predicate")

\* Mutant of Pop: the front is read but not removed.
PopKeepsFront ==
  /\ thread = "drain" /\ queue # <<>>
  /\ holding' = <<Head(queue)>>
  /\ lock' = FALSE
  /\ thread' = "printing"
  /\ UNCHANGED <<queue, printed, logged, done, writer>>

\* The inner loop: pop and release the mutex, or find the queue empty.
Pop ==
  /\ thread = "drain" /\ queue # <<>>
  /\ holding' = <<Head(queue)>>
  /\ queue' = Tail(queue)
  /\ lock' = FALSE
  /\ thread' = "printing"
  /\ UNCHANGED <<printed, logged, done, writer>>

Drained ==
  /\ thread = "drain" /\ queue = <<>>
  /\ Goes("loop")
  /\ UNCHANGED lock

\* std::cout, then the mutex again.  Writers hold it for one step only.
Write ==
  /\ thread = "printing"
  /\ printed' = printed \o holding
  /\ holding' = <<>>
  /\ lock' = TRUE
  /\ thread' = "drain"
  /\ UNCHANGED <<queue, logged, done, writer>>

LoggerThread ==
  \/ Start \/ Loop \/ Predicate \/ Sleep \/ Pop \/ Drained \/ Write
  \/ thread = "woken" /\ Awake

\* wait() may return although nobody notified.
SpuriousWakeup == thread = "asleep" /\ Awake

Writer(w) == Push(w) \/ NotifyPushed(w) \/ Joined(w)

Next ==
  \/ \E w \in Writers : Writer(w)
  \/ SetDone \/ NotifyDone \/ Join
  \/ LoggerThread \/ SpuriousWakeup

Spec == Init /\ [][Next]_vars

\* Threads that can run do.  Nobody has to log or to end the daemon, and
\* nothing may rely on a spurious wake-up.
FairSpec ==
  /\ Spec
  /\ WF_vars(LoggerThread) /\ WF_vars(NotifyDone) /\ WF_vars(Join)
  /\ \A w \in Writers : WF_vars(NotifyPushed(w))
-----------------------------------------------------------------------------
(* Properties *)

\* Every variable has its type; the mutex is the thread's exactly where it
\* evaluates a condition or touches the queue.
TypeOK ==
  /\ queue \in Seq(Nat) /\ printed \in Seq(Nat) /\ holding \in Seq(Nat)
  /\ logged \in 0 .. MaxMessages
  /\ done \in BOOLEAN /\ lock \in BOOLEAN
  /\ thread \in ThreadStates
  /\ lock <=> thread \in Owning
  /\ writer \in [Writers -> WriterStates]

\* The three threads and their condition variable implement the queue: messages
\* are printed once, in the order they were pushed and without waiting for a
\* later one, and none is missing when the destructor returns.
Q == INSTANCE LogQueue WITH accepted <- logged, closed <- (writer[Main] = "gone")
ImplementsQueue == Q!FairSpec

\* The destructor's join returns.
DestructorReturns == done ~> (writer[Main] = "gone")
=============================================================================
