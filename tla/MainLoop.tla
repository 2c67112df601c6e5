------------------------------ MODULE MainLoop ------------------------------
(***************************************************************************)
(* The daemon's main loop: Application::Run, Update and CleanUp            *)
(* (src/src/application.cpp) over one D-Bus connection, the GLib sources   *)
(* of the services and the self-pipe of the signal handler.                *)
(*                                                                         *)
(* libdbus keeps two buffers: bytes the kernel holds, which poll() sees,   *)
(* and messages already read into the connection's own queue, which it     *)
(* does not see.  A blocking call on the connection reads what arrives     *)
(* into that queue until its reply is there.  Messages keep their order,   *)
(* so two counters say where they are; they may come for ever, only those  *)
(* waiting at a time are bounded.                                          *)
(*                                                                         *)
(* GLib's main context has one owner at a time.  The loop takes it around  *)
(* poll() and the dispatch of GLib sources and gives it back for the rest; *)
(* a thread that reports to the main loop with g_main_context_invoke runs  *)
(* the callback itself if it finds the context free.                       *)
(***************************************************************************)
EXTENDS Naturals

CONSTANTS
  MaxMessages,   \* bound on the messages that wait for the daemon at a time
  Sources,       \* the GLib sources: idle callback, timers, session peers
  Idle,          \* those of idle priority: the callback that opens the first session
  BlockingCalls, \* where, besides message handlers, blocking calls are made
  Threads        \* threads that report to the main loop: the installer's

ASSUME LoopAssumption ==
  /\ MaxMessages \in Nat
  /\ Idle \subseteq Sources
  /\ BlockingCalls \subseteq {"init", "callback"}
  /\ {"free", "loop"} \cap Threads = {}

VARIABLES
  pc,       \* the statement the main thread is at
  unread,   \* messages in the kernel's socket buffer
  queued,   \* messages in the connection's queue, the one being handled included
  aside,    \* history: those queued by blocking calls since the queue was last emptied
  ready,    \* GLib sources ready to be dispatched
  context,  \* the owner of the main context
  revents,  \* what poll() returned
  pipe,     \* the self-pipe holds a byte
  caught,   \* s_signalCaught
  quit      \* ~_shouldRun

bus == <<unread, queued, aside>>
signals == <<pipe, caught>>
vars == <<pc, unread, queued, aside, ready, context, revents, pipe, caught, quit>>

Signals == {"SIGINT", "SIGTERM", "SIGQUIT"}

NoEvents == [bus |-> FALSE, pipe |-> FALSE, glib |-> {}]

Init ==
  /\ pc = "init"
  /\ unread = 0 /\ queued = 0 /\ aside = 0
  /\ ready = {} /\ context = "free" /\ revents = NoEvents
  /\ pipe = FALSE /\ caught = "none"
  /\ quit = FALSE
-----------------------------------------------------------------------------
\* A blocking call outside the message handlers, where one is made, reads part
\* of what has arrived.
Blocks(where) ==
  \/ UNCHANGED bus
  \/ /\ where \in BlockingCalls
     /\ \E n \in 1 .. unread :
          unread' = unread - n /\ queued' = queued + n /\ aside' = aside + n

\* Initialize: the name is acquired, the services are constructed.
Initialize ==
  /\ pc = "init"
  /\ Blocks("init")
  /\ pc' = "update"
  /\ UNCHANGED <<ready, context, revents, signals, quit>>

\* g_main_context_acquire: without the context the GLib sources are left out.
Acquire ==
  /\ pc = "update"
  /\ context' = IF context = "free" THEN "loop" ELSE context
  /\ pc' = "poll"
  /\ UNCHANGED <<bus, ready, revents, signals, quit>>

\* The GLib sources poll() waits for.
Polled == IF context = "loop" THEN ready ELSE {}

\* poll() returns because a descriptor or a GLib source is ready.
Wakes == unread > 0 \/ pipe \/ Polled # {}

\* g_main_context_check: the ready sources of the highest priority among them.
Foremost(S) == IF S \ Idle # {} THEN S \ Idle ELSE S

\* Mutant of Poll: the GLib descriptors are not in the set that is polled.
PollBusOnly ==
  /\ pc = "poll" /\ (unread > 0 \/ pipe)
  /\ revents' = [bus |-> unread > 0, pipe |-> pipe, glib |-> Foremost(Polled)]
  /\ pc' = "glib"
  /\ UNCHANGED <<bus, ready, context, signals, quit>>

Poll ==
  /\ pc = "poll" /\ Wakes
  /\ revents' = [bus |-> unread > 0, pipe |-> pipe, glib |-> Foremost(Polled)]
  /\ pc' = "glib"
  /\ UNCHANGED <<bus, ready, context, signals, quit>>

\* g_main_context_release, by the loop if it has the context.
Release == context' = IF context = "loop" THEN "free" ELSE context

\* g_main_context_dispatch: one callback of a source that was ready.
DispatchGLib(s) ==
  /\ pc = "glib" /\ s \in revents.glib
  /\ revents' = [revents EXCEPT !.glib = @ \ {s}]
  /\ ready' = ready \ {s}
  /\ Blocks("callback")
  /\ UNCHANGED <<pc, context, signals, quit>>

\* The signal pipe is readable: Quit(), and Update returns.
ReadPipe ==
  /\ pc = "glib" /\ revents.glib = {} /\ revents.pipe
  /\ Release
  /\ pipe' = FALSE
  /\ quit' = TRUE
  /\ pc' = "check"
  /\ UNCHANGED <<bus, ready, revents, caught>>

NoPipe ==
  /\ pc = "glib" /\ revents.glib = {} /\ ~revents.pipe
  /\ Release
  /\ pc' = IF revents.bus THEN "bus" ELSE "check"
  /\ aside' = IF revents.bus THEN 0 ELSE aside
  /\ UNCHANGED <<unread, queued, ready, revents, signals, quit>>

\* Some of what arrived, at least so much, goes from the socket to the queue.
Reads(least) ==
  \E n \in least .. unread : unread' = unread - n /\ queued' = queued + n

\* Mutant of Pop: an empty queue is not noticed.
PopUnchecked ==
  /\ pc = "bus"
  /\ Reads(IF unread > 0 THEN 1 ELSE 0)
  /\ pc' = "handle"
  /\ UNCHANGED <<aside, ready, context, revents, signals, quit>>

\* ReadWrite(0) and PopMessage: some of what arrived is read; the loop over
\* the messages ends when the queue is empty.
Pop ==
  /\ pc = "bus"
  /\ Reads(IF unread > 0 THEN 1 ELSE 0)
  /\ pc' = IF queued' > 0 THEN "handle" ELSE "check"
  /\ UNCHANGED <<aside, ready, context, revents, signals, quit>>

\* The message at the head of the queue is done; blocking calls read others.
Handled ==
  \E n \in 0 .. unread : unread' = unread - n /\ queued' = queued - 1 + n

\* Mutant of HandleMessage: one message is taken per wake-up.
HandleMessageOnce ==
  /\ pc = "handle"
  /\ Handled
  /\ pc' = "check"
  /\ UNCHANGED <<aside, ready, context, revents, signals, quit>>

\* HandleMessage, whose handlers make blocking calls on the same connection.
\* Exceptions of a handler become an error reply.
HandleMessage ==
  /\ pc = "handle"
  /\ Handled
  /\ pc' = "bus"
  /\ UNCHANGED <<aside, ready, context, revents, signals, quit>>

\* Run after Update: SIGQUIT throws, SIGINT and SIGTERM quit.
CheckSignal ==
  /\ pc = "check"
  /\ quit' = (quit \/ caught # "none")
  /\ pc' = CASE caught = "SIGQUIT" -> "failing"
             [] caught # "SIGQUIT" /\ quit' -> "cleanup"
             [] OTHER -> "update"
  /\ UNCHANGED <<bus, ready, context, revents, signals>>

\* CleanUp deletes the services and their manager; then Run returns, or the
\* handler of the exception goes on to FailFastFatalError.
CleanUp ==
  /\ pc \in {"cleanup", "failing"}
  /\ pc' = IF pc = "cleanup" THEN "ended" ELSE "failfast"
  /\ UNCHANGED <<bus, ready, context, revents, signals, quit>>

\* FailFastFatalError asks the manager for the logger, then calls exit().
FailFastFatalError ==
  /\ pc = "failfast"
  /\ pc' = "ended"
  /\ UNCHANGED <<bus, ready, context, revents, signals, quit>>
-----------------------------------------------------------------------------
(* The world around the loop *)

\* A client or the bus sends a message; it may go on for ever.
Send ==
  /\ pc # "ended" /\ unread + queued < MaxMessages
  /\ unread' = unread + 1
  /\ UNCHANGED <<pc, queued, aside, ready, context, revents, signals, quit>>

\* A timer expires, or a session's peer connection has signals.
BecomesReady(s) ==
  /\ pc # "ended" /\ s \notin ready
  /\ ready' = ready \cup {s}
  /\ UNCHANGED <<pc, bus, context, revents, signals, quit>>

\* A poll() that sleeps fails with EINTR and Update returns; one that is only
\* about to be called finds the pipe readable.
Interrupts ==
  \/ UNCHANGED <<pc, context>>
  \/ pc = "poll" /\ ~Wakes /\ pc' = "check" /\ Release

\* Mutant of SignalHandler: the pipe is not written.
SignalHandlerNoPipe(s) ==
  /\ pc # "ended"
  /\ caught' = s
  /\ Interrupts
  /\ UNCHANGED <<bus, ready, revents, pipe, quit>>

SignalHandler(s) ==
  /\ pc # "ended"
  /\ caught' = s
  /\ pipe' = TRUE
  /\ Interrupts
  /\ UNCHANGED <<bus, ready, revents, quit>>

\* g_main_context_invoke in another thread, with the context free: it takes the
\* context and runs the callback.  Otherwise it adds a source: BecomesReady.
Invoke(t) ==
  /\ pc # "ended" /\ context = "free"
  /\ context' = t
  /\ UNCHANGED <<pc, bus, ready, revents, signals, quit>>

InvokeReturns(t) ==
  /\ context = t
  /\ context' = "free"
  /\ UNCHANGED <<pc, bus, ready, revents, signals, quit>>

Loop ==
  \/ Initialize \/ Acquire \/ Poll
  \/ \E s \in Sources : DispatchGLib(s)
  \/ ReadPipe \/ NoPipe \/ Pop \/ HandleMessage \/ CheckSignal
  \/ CleanUp \/ FailFastFatalError

Next ==
  \/ Loop \/ Send
  \/ \E s \in Sources : BecomesReady(s)
  \/ \E s \in Signals : SignalHandler(s)
  \/ \E t \in Threads : Invoke(t) \/ InvokeReturns(t)

Spec == Init /\ [][Next]_vars

\* The main thread runs, and the handlers and callbacks return.
FairSpec ==
  /\ Spec /\ WF_vars(Loop)
  /\ \A t \in Threads : WF_vars(InvokeReturns(t))
-----------------------------------------------------------------------------
(* Properties *)

\* Every variable has its type, and a message is handled only if it was read.
TypeOK ==
  /\ pc \in {"init", "update", "poll", "glib", "bus", "handle", "check", "cleanup",
             "failing", "failfast", "ended"}
  /\ unread \in Nat /\ queued \in Nat /\ aside \in Nat
  /\ unread + queued <= MaxMessages
  /\ pc = "handle" => queued > 0
  /\ ready \in SUBSET Sources
  /\ context \in Threads \cup {"free", "loop"}
  /\ revents \in [bus : BOOLEAN, pipe : BOOLEAN, glib : SUBSET Sources]
  /\ pipe \in BOOLEAN
  /\ caught \in Signals \cup {"none"}
  /\ quit \in BOOLEAN

\* A loop that goes to sleep leaves nothing in the queue, where poll() does not
\* see it, but what blocking calls of the construction and of GLib callbacks
\* have read since it last looked: it never looks and leaves a message, and
\* what the handlers' own calls read is handled at once.
NothingStranded ==
  pc = "poll" => queued = aside

\* Once the loop has decided to quit it handles no message and runs no
\* callback any more: what follows is the destruction of the services.
QuitIsFinal ==
  [][quit => pc # "handle" /\ queued <= queued' /\ ready \subseteq ready']_vars

\* The loop comes to the next message, unless the daemon is ending; they are
\* handled in order, so that every message has its turn.
MessagesHandled == (unread + queued > 0) ~> (pc = "handle" \/ caught # "none")

\* Messages come without a pause: the loop over them looks at nothing else.
Flooded == <>[](pc \in {"bus", "handle"})

\* No GLib source is starved by messages, if they pause, nor by other sources.
CallbacksRun ==
  \/ Flooded
  \/ \A s \in Sources : (s \in ready) ~> (s \notin ready \/ caught # "none")

\* The loop sleeps without the GLib sources.
LeftOut == pc = "poll" /\ context # "loop"

\* A source of idle priority waits while another one is ready.
Overtaken(s) == s \in Idle /\ ready \ Idle # {}

\* What is left of CallbacksRun if other threads use the main context: a source
\* is called back unless messages come without a pause, unless sources of a
\* higher priority are ready again and again, and unless the loop failed to
\* take the context before it slept.
CallbacksRunWithContext ==
  \/ Flooded
  \/ \A s \in Sources :
       \/ (s \in ready) ~> (s \notin ready \/ caught # "none" \/ LeftOut)
       \/ []<>Overtaken(s)

\* A signal ends the process, wherever in the loop it is caught, unless messages
\* come without a pause.
SignalEndsProcess == Flooded \/ ((caught # "none") ~> (pc = "ended"))
=============================================================================
