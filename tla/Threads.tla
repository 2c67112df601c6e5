------------------------------ MODULE Threads ------------------------------
(***************************************************************************)
(* The main loop (src/src/application.cpp) and the threads and processes   *)
(* beside it: the watchdog's watcher                                       *)
(* (src/src/services/watchdog/watchdog_service.cpp), the logger's thread   *)
(* (services/logger/stdout_logger.cpp), the worker of the driver manager   *)
(* (services/driver_manager/driver_manager_service.cpp), a command that    *)
(* the installer or that worker runs (utils/command_runner.cpp), and the   *)
(* leaders of the sessions                                                 *)
(* (services/session_manager/session_manager_service.cpp).                 *)
(*                                                                         *)
(* Each has its own mutex, condition variable or pipes, and they share no  *)
(* state: a behaviour moves one part, and the others stay in their initial *)
(* state, as in the module Daemon.  What must eventually happen is checked *)
(* here for the loop too, and what it runs in Daemon.                      *)
(***************************************************************************)
EXTENDS Watchdog, Sequences

CONSTANTS
  MaxBusMessages, Sources, Idle, BlockingCalls, Reporters, \* MainLoop
  Writers, MainThread, MaxMessages,            \* StdoutLogger
  Machines, Needs, Tries, MaxConnections, MaxReboots, \* DriverManager
  Capacity, MaxOutput,                         \* CommandRunner
  Leaders, Commands, Ttys, MaxKills            \* SessionLeader

VARIABLES
  part,                                                              \* the part that moves
  loopAt, unread, queued, aside, sourcesReady, context, revents, selfPipe, caught, loopQuit, \* MainLoop
  queue, printed, holding, logged, done, lock, loggerThread, writer, \* StdoutLogger
  machine, found, stored, flags, worker, attempt, turn, installed, \* DriverManager
  refused, owner, connections, fitted, kept, reboots,
  writing, open, held, exited, written, captured, pipe, fds, ready, at, \* CommandRunner
  mainThread, child, vt, quit, sessions, pc, tty, status, told, holds, commandState, kills \* SessionLeader

loopVars ==
  <<loopAt, unread, queued, aside, sourcesReady, context, revents, selfPipe, caught, loopQuit>>
loggerVars == <<queue, printed, holding, logged, done, lock, loggerThread, writer>>
driverVars == <<machine, found, stored, flags, worker, attempt, turn, installed, refused, owner,
                connections, fitted, kept, reboots>>
commandVars == <<writing, open, held, exited, written, captured, pipe, fds, ready, at>>
leaderVars ==
  <<mainThread, child, vt, quit, sessions, pc, tty, status, told, holds, commandState, kills>>
others == <<loopVars, loggerVars, driverVars, commandVars, leaderVars>>
allVars == <<vars, others, part>>

Application == INSTANCE MainLoop
  WITH pc <- loopAt, ready <- sourcesReady, pipe <- selfPipe, quit <- loopQuit,
       MaxMessages <- MaxBusMessages, Threads <- Reporters
Logger == INSTANCE StdoutLogger WITH thread <- loggerThread, Main <- MainThread
Driver == INSTANCE DriverManager WITH main <- owner
Command == INSTANCE CommandRunner
Session == INSTANCE SessionLeader WITH daemon <- mainThread, running <- commandState

\* The processes are different, terminals are numbered from 1, and each driver has a
\* list of packages.  The file's fingerprint of no hardware is no machine's.
Distinct ==
  /\ "daemon" \notin Leaders \cup Commands /\ Leaders \cap Commands = {} /\ Leaders # {}
  /\ Ttys \subseteq Nat \ {0} /\ MaxKills \in Nat
Listed ==
  /\ Needs \in Seq(Seq(Driver!Packages)) /\ Tries \in Nat /\ MaxReboots \in Nat
  /\ Machines # {} /\ Machines \cap {Driver!Unknown, Driver!NoFile} = {}
ASSUME ThreadsAssumption == Distinct /\ Listed

InitAll ==
  /\ part \in {"loop", "watchdog", "logger", "drivers", "command", "leaders"}
  /\ Init /\ Application!Init /\ Logger!Init /\ Driver!Init /\ Command!Init /\ Session!Init
  /\ part # "drivers" => machine = (CHOOSE m \in Machines : TRUE) /\ installed = {}
-----------------------------------------------------------------------------
InWatchdog(A) == part = "watchdog" /\ A /\ UNCHANGED <<part, others>>
InLoop(A) ==
  part = "loop" /\ A /\ UNCHANGED <<part, vars, loggerVars, driverVars, commandVars, leaderVars>>
InLogger(A) ==
  part = "logger" /\ A /\ UNCHANGED <<part, vars, loopVars, driverVars, commandVars, leaderVars>>
InDriver(A) ==
  part = "drivers" /\ A /\ UNCHANGED <<part, vars, loopVars, loggerVars, commandVars, leaderVars>>
InCommand(A) ==
  part = "command" /\ A /\ UNCHANGED <<part, vars, loopVars, loggerVars, driverVars, leaderVars>>
InSession(A) ==
  part = "leaders" /\ A /\ UNCHANGED <<part, vars, loopVars, loggerVars, driverVars, commandVars>>

NextAll ==
  \/ InLoop(Application!Next) \/ InWatchdog(Next) \/ InLogger(Logger!Next) \/ InDriver(Driver!Next)
  \/ InCommand(Command!Next) \/ InSession(Session!Next)

SpecAll == InitAll /\ [][NextAll]_allVars

\* The fairness of each part is the one that its module states.
FairAll ==
  /\ SpecAll
  /\ WF_allVars(InLoop(Application!Loop)) /\ \A t \in Reporters : WF_allVars(InLoop(Application!InvokeReturns(t)))
  /\ WF_allVars(InWatchdog(Tick)) /\ WF_allVars(InWatchdog(Watcher)) /\ WF_allVars(InWatchdog(Join))
  /\ WF_allVars(InLogger(Logger!LoggerThread)) /\ WF_allVars(InLogger(Logger!NotifyDone))
  /\ WF_allVars(InLogger(Logger!Join))
  /\ \A w \in Writers : WF_allVars(InLogger(Logger!NotifyPushed(w)))
  /\ WF_allVars(InDriver(Driver!Worker)) /\ WF_allVars(InDriver(Driver!NotifyRequest))
  /\ WF_allVars(InDriver(Driver!NotifyStop)) /\ WF_allVars(InDriver(Driver!Join))
  /\ WF_allVars(InCommand(Command!Parent)) /\ WF_allVars(InCommand(Command!Write))
  /\ WF_allVars(InCommand(Command!Exits))
  /\ \A s \in Command!Streams : WF_allVars(InCommand(Command!Closes(s)))
  /\ WF_allVars(InSession(Session!Opening)) /\ WF_allVars(InSession(Session!Leaving))
  /\ \A l \in Leaders :
       WF_allVars(InSession(Session!Leader(l))) /\ WF_allVars(InSession(Session!InitReaps(l)))
  /\ \A c \in Commands : WF_allVars(InSession(Session!CommandEnds(c)))
-----------------------------------------------------------------------------
(* The properties of the parts, under names of their own *)

\* What is left of CallbacksRun if other threads use the main context: a source
\* is called back unless messages come without a pause, unless sources of a
\* higher priority are ready again and again, and unless the loop failed to
\* take the context before it slept.
CallbacksRunWithContext == Application!CallbacksRunWithContext

\* A signal ends the process, wherever in the loop it is caught, unless messages
\* come without a pause.
SignalEndsProcess == Application!SignalEndsProcess

\* The three threads and their condition variable implement the queue: messages
\* are printed once, in the order they were pushed and without waiting for a
\* later one, and none is missing when the destructor returns.
ImplementsQueue == Logger!ImplementsQueue

\* An installation counts as complete only if exactly the packages of the
\* drivers whose devices it found are installed, but for those pacman refused;
\* drivers may share packages.  A later start that finds the hardware it was
\* for, and does nothing, finds them too, although restarts may come in the
\* middle of an operation, with other hardware, and the file may not have been
\* written; but if that kept the fingerprint of the hardware before, the
\* packages are those of the other hardware when it comes back.
CompleteMeansInstalled == Driver!CompleteMeansInstalled

\* The destructors of the watchdog and of the driver manager return, and a
\* request that the driver manager accepted is taken up: the watcher and the
\* worker miss no notification, whatever they were doing.
WorkersAnswer == ShutdownEnds /\ (part = "drivers" => Driver!WorkerAnswers)

\* A command that ends is reported, however it spreads its output over the two
\* pipes and in which order it closes them: neither waits for the other.  The
\* exceptions are a session's leader that has copied a pipe and stays for ever,
\* and a failure of poll() that leaves the command on a full pipe.
CommandReturns == part = "command" => Command!CommandReturns

\* Between two sessions' openings and closings every process that the daemon has
\* forked and not waited for leads a session, and every session has such a
\* process and a control pipe, which nothing else has.  No two leaders have a
\* terminal in common.
LeadersOwned == Session!LeadersOwned

\* The daemon is never stuck in its read of a status pipe, a leader that crashes
\* included, and if the daemon dies at any point no leader is left behind,
\* although leaders hold each other's control pipes and commands hold any.
NoReaderStuck == Session!NoReaderStuck
=============================================================================
