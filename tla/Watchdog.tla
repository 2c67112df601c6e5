------------------------------ MODULE Watchdog ------------------------------
(***************************************************************************)
(* The watchdog thread (src/src/services/watchdog/watchdog_service.cpp)    *)
(* beside the main thread it watches (src/src/application.cpp).            *)
(*                                                                         *)
(* The main thread raises _watching before it handles a D-Bus message and  *)
(* lowers it after; the watcher waits on a condition variable for the flag *)
(* to rise, then for at most _timeout for it to fall, and otherwise ends   *)
(* the process.  Both share one mutex, so each evaluation of a predicate   *)
(* is one step.  Nothing marks a GLib callback or the shutdown as watched. *)
(*                                                                         *)
(* Time passes in ticks, an arbitrary unit.  The one assumption on the     *)
(* scheduler is that a watcher that can run does so before the next tick.  *)
(***************************************************************************)
EXTENDS Naturals

CONSTANT Timeout  \* _timeout in ticks

ASSUME TimeoutAssumption == Timeout \in Nat \ {0}

VARIABLES
  main,      \* what the main thread is doing
  age,       \* ticks since it began doing that, counted to Timeout + 1
  streak,    \* successive ticks that found it in a message handler, likewise
  watching,  \* _watching
  running,   \* _running
  watcher,   \* where the watcher thread is
  left,      \* ticks until its wait_for times out
  aborted    \* the process called exit()

shared == <<watching, running>>
thread == <<watcher, left, aborted>>
clock == <<age, streak>>
vars == <<main, age, streak, watching, running, watcher, left, aborted>>

Activities == {"polling", "handling", "callback", "closing", "joining", "gone"}

Init ==
  /\ main = "polling" /\ age = 0 /\ streak = 0
  /\ watching = FALSE /\ running = TRUE
  /\ watcher = "parked" /\ left = 0 /\ aborted = FALSE
-----------------------------------------------------------------------------
(* The main thread *)

Turn(from, to) ==
  /\ ~aborted
  /\ main = from
  /\ main' = to
  /\ age' = 0
  /\ UNCHANGED <<streak, thread>>

\* Mutant of BeginWatching: the flag is not raised.
BeginUnwatched == Turn("polling", "handling") /\ UNCHANGED shared

\* OnMessageHandlerPre, then HandleMessage starts.
BeginWatching ==
  /\ Turn("polling", "handling")
  /\ watching' = TRUE
  /\ UNCHANGED running

\* HandleMessage returned, OnMessageHandlerPost.
EndWatching ==
  /\ Turn("handling", "polling")
  /\ watching' = FALSE
  /\ UNCHANGED running

\* g_main_context_dispatch: the callbacks of the services.
DispatchGLib == Turn("polling", "callback") /\ UNCHANGED shared
ReturnFromGLib == Turn("callback", "polling") /\ UNCHANGED shared

\* The loop ends; the services registered later are destroyed first.
CleanUp == Turn("polling", "closing") /\ UNCHANGED shared

\* ~WatchdogService up to the join.
Destroy ==
  /\ Turn("closing", "joining")
  /\ running' = FALSE
  /\ UNCHANGED watching

Join ==
  /\ watcher = "done"
  /\ Turn("joining", "gone")
  /\ UNCHANGED shared

Main ==
  \/ BeginWatching \/ EndWatching
  \/ DispatchGLib \/ ReturnFromGLib
  \/ CleanUp \/ Destroy \/ Join
-----------------------------------------------------------------------------
(* The watcher thread *)

\* Mutant of Arm: the deadline is computed once and reused.
ArmStale ==
  /\ ~aborted
  /\ watcher = "parked" /\ watching /\ running
  /\ watcher' = "armed"
  /\ UNCHANGED <<main, clock, shared, left, aborted>>

\* The first wait sees the flag; wait_for computes its deadline.
Arm ==
  /\ ~aborted
  /\ watcher = "parked" /\ watching /\ running
  /\ watcher' = "armed"
  /\ left' = Timeout
  /\ UNCHANGED <<main, clock, shared, aborted>>

\* wait_for sees the flag down, and the loop goes back to the first wait.
Disarm ==
  /\ ~aborted
  /\ watcher = "armed" /\ ~watching /\ running
  /\ watcher' = "parked"
  /\ UNCHANGED <<main, clock, shared, left, aborted>>

\* Either wait sees the shutdown, and the loop ends.
Leave ==
  /\ ~aborted
  /\ watcher \in {"parked", "armed"} /\ ~running
  /\ watcher' = "done"
  /\ UNCHANGED <<main, clock, shared, left, aborted>>

\* The deadline passed and the flag is still up: the mutex is released.
Expire ==
  /\ ~aborted
  /\ watcher = "armed" /\ watching /\ running /\ left = 0
  /\ watcher' = "firing"
  /\ UNCHANGED <<main, clock, shared, left, aborted>>

\* FailFastFatalError does not return: it calls exit().
OnTimeout ==
  /\ ~aborted
  /\ watcher = "firing"
  /\ aborted' = TRUE
  /\ UNCHANGED <<main, clock, shared, watcher, left>>

Watcher == Arm \/ Disarm \/ Leave \/ Expire \/ OnTimeout
-----------------------------------------------------------------------------
(* Time *)

\* One of the watcher's steps can be taken.
Due ==
  \/ watcher = "parked" /\ (watching \/ ~running)
  \/ watcher = "armed" /\ (~watching \/ ~running \/ left = 0)
  \/ watcher = "firing"

Later(n) == IF n <= Timeout THEN n + 1 ELSE n

Tick ==
  /\ ~aborted /\ ~Due
  /\ age' = Later(age)
  /\ streak' = IF main = "handling" THEN Later(streak) ELSE 0
  /\ left' = IF watcher = "armed" THEN left - 1 ELSE left
  /\ UNCHANGED <<main, shared, watcher, aborted>>

Next == Main \/ Watcher \/ Tick

Spec == Init /\ [][Next]_vars

\* Time passes, a watcher that can run does, and a service's destructor ends.
\* A handler or a callback may run for ever.
FairSpec ==
  /\ Spec
  /\ WF_vars(Tick) /\ WF_vars(Watcher) /\ WF_vars(Join)
-----------------------------------------------------------------------------
(* Properties *)

\* Every variable has its type; the deadline is never further away than _timeout.
TypeOK ==
  /\ main \in Activities
  /\ age \in 0 .. Timeout + 1
  /\ streak \in 0 .. Timeout + 1
  /\ watching \in BOOLEAN
  /\ running \in BOOLEAN
  /\ watcher \in {"parked", "armed", "firing", "done"}
  /\ left \in 0 .. Timeout
  /\ aborted \in BOOLEAN

\* No message handler runs for longer than _timeout in a process that goes on:
\* whatever the order in which the threads take the mutex, the deadline of the
\* handler that runs is at most _timeout after it began.
FrozenHandlerBounded == main = "handling" => age <= Timeout

\* The watcher gives up on the process only after a whole _timeout of ticks
\* that all found the main thread inside some message handler.
AlarmNeedsBusyPeriod == [][Expire => streak >= Timeout]_vars

\* The destructor's join ends: the watcher misses neither notification.
ShutdownEnds == (main = "joining") ~> (main = "gone" \/ aborted)

\* "ensures it is responding and not frozen": the process is ended only while
\* one handler has been running for _timeout.
NoFalseAlarm == [][Expire => main = "handling" /\ age >= Timeout]_vars
=============================================================================
