# Formal models of JappeOS Core

JappeOS Core is a root daemon on the D-Bus system bus that owns the login
sessions, the network, the installer and other services of the JappeOS desktop.
This directory holds TLA+ models of it, the TLC configurations that check them on
small instances and TLAPS proofs of what holds for every instance. The sources
they model are in `../src`; paths below are relative to `../src/src`.

    cd tla
    tlc -config SessionManager_safety.cfg SessionManager
    tlapm SessionManagerProofs.tla

`PROJECT.json` lists, for machines, the components, the runs, the lines each
definition models (`map`), a mutant of the code for each checked property
(`mutants`: with it in place of the mapped definition the property must fail),
the disagreements met (`findings`), the hazards, and the theorems.

## 1. The system

One process, one main thread. `main.cpp` builds an `Application`, which connects
to the bus, constructs the services in a fixed order and runs a loop until a
signal (`application.cpp`). A service is an object registered with the
`ServiceManager` (`services/service.h`); its methods are handlers that the loop
calls for D-Bus messages, its callbacks are run by GLib from the same loop.
Threads exist in four places only: the logger, the watchdog, the installer and
the driver manager.

| component | state it keeps | operations | talks to |
|---|---|---|---|
| Main loop (`application.cpp`, `event.h`) | `_shouldRun`, self-pipe, `s_signalCaught` | Initialize, Update, CleanUp, FailFastFatalError, signal handler | libdbus, GLib, every service |
| Session manager (`services/session_manager`) | `_sessions`, `_greeterSessionID`, `_isGreeterActive`, PAM leaders, peer connections, timers | CreateSession, StopSession, ListSessions, unit and job signals, installer timer | PAM, logind, one systemd user manager per session |
| Watchdog (`services/watchdog`) | `_watching`, `_running`, a thread | BeginWatching, EndWatching, OnTimeout | main loop |
| Logger (`services/logger`) | `_logQueue`, `_done`, a thread | Log, Process | every thread |
| Network manager (`services/network_manager`) | devices, connections, access points, pending Wi-Fi requests | Wifi Scan/Connect/Disconnect/SetEnabled, Ethernet SetEnabled, NetworkManager's signals | NetworkManager over D-Bus |
| Installer (`services/installer`) | the install plan, `_state`, `_progress`, `_cancelRequested`, a thread | Create/Cancel plan, setters, BeginInstallation, the steps | libparted, external commands, session manager |
| Driver manager (`services/driver_manager`) | driver table, a thread, fingerprint file | install requests, network callback | pacman, network manager |
| Account manager (`services/account_manager`) | none of its own: the account files | CreateInitialUser, AddUserToGroup | `useradd`, `/etc/group`, `lckpwdf` |
| Power manager (`services/power_manager`) | table of batteries | discovery, DeviceAdded/Removed | UPower |
| Locale (`services/locale`) | cached locale and time zone | getters, setters, PropertiesChanged | localed, timedated |
| Audio (`services/audio_pulse`) | devices, streams, the active devices | set default, volume, PulseAudio events | PulseAudio (in the session daemon) |
| D-Bus wrapper (`dbus/`) | callbacks per signal key, match rules | HandleMessage, HandleSignal, SignalSubscription, SendWithReply | libdbus |
| Utilities (`utils/`) | none | D-Bus peer draining, command runner | libdbus, child processes |

`services/session_host` and `services/audio` are compiled but no program
registers them, `services/bsod` is in no target and `services.h.old` is dead
text: they have no reachable state and are not modelled.

### How the parts interact

* A D-Bus method reaches its handler through the main loop; the handler runs to
  its end before anything else of the main thread does. It may block in calls to
  logind, systemd, PAM or NetworkManager, and what arrives meanwhile is queued.
* The watchdog brackets every message handler, and only those.
* Services call one another directly: the installer asks the session manager's
  tables, the driver manager subscribes to the network manager's events.
* Every thread pushes to the log queue. Services are destroyed in reverse order
  of registration, so the logger is destroyed last, after the other threads were
  joined by their own services.

### What is hard, and what correctness means

| component | hard behaviour | properties |
|---|---|---|
| Session manager | a startup has two systemd jobs whose completions, property changes and disconnects come in any order, queued behind blocking calls; handlers call each other (StopSession → CreateLoginSession → CreateSession → StopLoginSession); programs crash at any point; failures in the middle of an opening | the greeter is alone, no start job is lost or counted twice, nothing outlives its session, a healthy session is not torn down, a dead one is reaped, somebody can always log in |
| Main loop | a poll that cannot see what libdbus already read; signals at every point; starvation | every message handled, every callback run, a signal ends the process, nothing is handled after the decision to quit |
| Watchdog | two threads, a flag that falls and rises between two looks, time | a frozen handler is noticed in time, an alarm has a cause, shutdown ends |
| Logger | a condition variable, an atomic outside its mutex, shutdown | printed once and in order, nothing lost, nothing waits for ever |
| Network manager | answers of asynchronous calls after their device is gone, a restart of NetworkManager, tables that mirror tables | one answer per request, tables match the signals sent |
| Installer | cancel against start and finish across threads, the plan edited while it is executed, disk arithmetic | a cancelled installation stops, one installation at a time, sizes add up |
| Installer's plans | a list that is shown, a simulation in MiB that validates, a worker that repeats it in sectors | what is executed was validated, nothing else is lost |
| Driver manager | a worker against the destructor and the network's callback, a fingerprint that survives restarts | an installation that calls itself complete is |
| Session leaders | forked processes that inherit each other's pipes, crashes on either side | none is left behind, the daemon is never stuck in a read |
| Command runner | two bounded pipes, a poll, a child that closes and exits in any order | the command returns |
| Audio, power, locale, access points | tables and caches that mirror another program's, by events that say only that something changed and answers that overtake signals | at rest, the copy is the original and clients were told |
| D-Bus wrapper | dispatch that changes its own list, callbacks that nest, throw and put values back | each subscriber hears each signal once, clients know each value |
| Account manager | several calls, each of which may fail, `/etc/group` shared with other programs | no half-made user, no lost membership |

## 2. The plan

Order by how much of the daemon depends on the component and how hard it is to
test. All of it is done: every module exists, and every safety property of the runs is proved.

1. `SessionManager` + `SessionManagerProofs`: the core of the program;
   `SessionLeader`: the processes it forks.
2. `MainLoop`: what every handler runs under.
3. `Watchdog`: the thread that watches it.
4. `StdoutLogger` + `StdoutLoggerProofs`, which implements the abstract `LogQueue`.
5. `NetworkManager` + `NetworkManagerProofs`: asynchronous answers against
   notifications and restarts; `AccessPoints`, `EthernetDevice`: the parts of it that
   need no restart.
6. `Installer` + `InstallerProofs`: the installer's thread; `DiskPlan` +
   `DiskPlanProofs`: the plan it carries out.
7. `SignalDispatch`, `ObjectDispatch`: the D-Bus wrapper under all of them.
8. `DriverManager`, `CommandRunner`: the other thread, and the commands.
9. `AudioService` + `AudioServiceProofs`, `AccountManager`, `PowerManager`,
   `LocaleService`: services of the main loop that follow another program.
10. Compositions: `Daemon` is the main loop with what it runs, `Threads` the threads and
   processes, the main loop among them. `DaemonProofs` and `ThreadsProofs` prove what
   they and their parts promise. `MCDaemon`, `MCThreads` and
   `MCInstaller` give the constants that a configuration cannot write: disks, lists of
   packages, steps.

`Daemon` and `Threads` compose components that share no state, so that an
interleaving of two is to each of them its own behaviour with pauses. A variable
`part` says which one moves; the others stay in an initial state. Their state spaces
add up instead of being multiplied, and every property of a part holds in the run
if and only if it holds in the part. What the main loop has to do eventually is checked
in `Threads`, beside the other threads, and its safety in `Daemon`.

A common abstract `Mirror` of the services in 9 was considered and dropped: each
differs in what overtakes what, which is what their properties are about.

## 3. The modules

### SessionManager

`world` is one record: the service's tables (`sessions`, `greeterId`,
`greeterActive`), the resources it owns (`leaders`: PAM child processes;
`timers`: GLib installer sources; `seat`: the session the VT shows), and the user
managers (`unit`, `jobs`, `inbox` per id: the state of `session@.service`, the
start jobs not yet finished, the signals queued on the peer connection).
`retired` is the last id closed: logind does not give it out at once.

A handler runs to its end, so a method is an operator from a world to a world,
and an action applies it: `OnCreateSession`, `OnStopSession` are the D-Bus
methods with the whole of `SharedPolicy` as guard, `Dispatch` hands one queued
signal to `HandleSignal`, `InstallerTimer` is the 5 s GLib timer, `Start` the idle
callback of the constructor, `Shutdown` the destructor. `SessionJobEnds`,
`DaemonJobEnds`, `UnitEnds`, `ManagerLost` are systemd's. The GLib source of a peer hands
over at most `MaxBatch` messages each time (64 in the code, `dbus_peer.cpp:84-97`):
`batch` is the dispatch under way, between whose messages nothing else of the main
thread runs, and one that found the connection closed removes the source at its end
with whatever is still queued (`EndOfDispatch`); `deaf` are the sessions that lost
messages in this way. What a blocking call
answers is a parameter: `"auth"` fails before the VT switch, `"startup"` after it
(guards unwind everything but the seat), `"activate"` is a failed
ActivateSessionOnSeat.

Left out: ListSessions (reads only), policies' lists of programs (one bit,
`privileged`), passwords and the PAM conversation (one answer), and the caller
who passes the empty session id, whose call always throws.

### Watchdog

Both threads at the grain of the mutex: each evaluation of a wait's predicate is
a step. Time is a tick; `age` is how long the main thread has been doing what it
does, `streak` how long it has only been found in message handlers, `left` the
rest of `wait_for`. `Tick` waits for the watcher to take a step that is due: the
one assumption on the scheduler, and without it no watchdog can promise anything.

### MainLoop

`pc` is the statement of `Run`/`Update`. Messages keep their order, so two counters say
where they are: `unread` in the socket, `queued` in libdbus's queue. They may come for
ever; only those that wait at a time are bounded. A blocking call moves messages from the
socket to the queue; `BlockingCalls` says where, besides handlers, one is made, and the
history `aside` how many it has moved since the loop last looked into the queue. A poll
chooses the ready sources of the highest priority (`Foremost`): the callback that opens the
first session is of idle priority, timers and peers are not.
`context` is the owner of GLib's main context: the loop takes it around poll() and
the dispatch, and a thread that finds it free runs its callback itself.
`revents` is the snapshot poll() took; `pipe` and `caught` are the signal
handler's.

### StdoutLogger

Writers, the destructor and the logger thread at the grain of the mutex. The
evaluation of the wait's predicate and the sleep are two steps, since the
destructor changes `_done` and notifies without the mutex. Spurious wake-ups are
steps without fairness: no property may rely on them. `LogQueue` is what the logger
promises: messages come out one by one in order, and none is left when it is gone.
`StdoutLogger!ImplementsQueue` maps the queue and the message in the thread's hand to
`waiting`; it is checked as a property of `Threads`.

### NetworkManager

`service` is one record: the client, the tables `devices` (path of the active
connection by device), `connections` and `pending` (request by activation), which
activations' signals are subscribed to, and what was signalled (`announced`,
`answers`). Methods are operators from record to record, as in `SessionManager`;
an action is a D-Bus method, the answer of an asynchronous call, a notification
of libnm or a `NameOwnerChanged` message. libnm's cache (`cache`, `current`,
`acts`) changes in the same step as its notification is delivered, which is how
libnm does it; it lags behind NetworkManager (`nm`), and the bus's messages wait
in `news`. `outdated` says that the cache shows a NetworkManager that has gone:
libnm may notice before or after the service does.

Two histories: `outlived` holds the profiles whose object outlived an activation
that was replaced directly by another one, and a request remembers whether its
device `stayed` in the table for as long as its call was in flight: the callback of a
call whose device has left returns without an answer (`Leaves`). Two properties name
these cases instead of hiding them. A request whose call has returned is pending, and
every way for its device or for NetworkManager to go has to answer it.

Left out: IP addresses and device states (copied values), and the Wi-Fi switch, which
only forwards to NetworkManager.

### AccessPoints, EthernetDevice

The same service, for one device that stays. `nm` and `strength` are libnm's cache,
which changes in batches; `news` holds the notifications of a batch, emitted in any
order; `shown` and `announced` are the objects and what the signals told.
`connections` has the objects of the profiles that the device has been connected to and the
strength that each shows, `activePath` the one that is its own; when a connection replaces
another directly, the object of the other is left over. `followed` are the access points
whose `notify::strength` is connected. A notification goes to the first connection, in the
order of a hash table, whose device has that access point as its active one
(`FindConnectionByAccessPoint`), and that may be one left over. `steady` is a history: the
active one has been the same since the connection's object was made. `EthernetDevice` is the
choice of a profile by a comparison, over all orders in which they are offered: the
recursive function `Found[n]` is what the loop has picked after `n` of them.

### Installer

Both threads. `main` is the main thread: `idle` in the loop without the main
context, where D-Bus handlers run as one step each, `glib` while it owns the
context, `asleep` when it failed to take it (see `MainLoop_thread`), then the
statements of `StartInstall` and of the destructor. `workers` holds each worker's
statement, its step and the report it is making; `g_main_context_invoke` is `Takes`
and `Releases` (the thread runs the callback itself) or `Queues`. A callback that a
worker runs while the daemon ends touches properties that are destroyed already:
either nothing happens or the process ends (`crashed`).

A step is what it does to the mounts, in the constant `Steps`: `"mount"`, `"cleanup"`
or `"work"`, the seven others, which touch none. `mounts` is a stack, since a second
run mounts over what a failed one left. `plan` holds `_installPlanId` and which
plan's data `_installData` has: both handlers that reset the id keep the data.

Left out: what is in a plan and its validation (valid or not: that is `DiskPlan`), the
property setters, the initial boot file, a random id that comes up twice.

### DiskPlan

`disk` is what is on the disk, in sectors, `listed` what the client is shown, in MiB,
`plan` its operations, or the mounts of a manual plan, and `parts` the copy of the list on
which they are simulated. A plan is put together one operation at a time; validation is one
handler. The worker's `table` is parted's copy in memory, which the partition
step changes operation by operation and commits at its end; formatting follows,
one target at a time. `keys` are the worker's maps by partition and `targets` the partitions
that validation found for the mount points, `made` those that formatting has dealt with, in
any order, which the code leaves to the paths. The constant `Disks` is any set of disks
that libparted can present (`DisksAre`: regions with sizes, partitions with numbers of
their own); that of the run has an empty disk, one with a gap below 1 MiB, one with a hole
in its numbers and a partition mounted by the running system, the one that system is
on, which is not offered, and two with an extended partition, one of them with three
logical partitions.

The numbers are libparted's. On an MBR the partitions inside the extended one (`inner`) are
numbered from 5 without a hole, so that `ped_disk_delete_partition` of one of them gives
those behind it a number one lower (`Renumbered`); all others keep theirs. `was` is the
history by which a partition is recognised. The worker names the regions by the numbers they
have now, while the rest of the plan and the validated list have those from before. A
logical partition cannot grow out of the extended one, nor another into it, and a new one is
never logical; one that is asked for inside the extended partition fails in the model,
though libparted could make it elsewhere. The sectors of the tables before each logical
partition are counted to its region. The passes over a list (`Listed`, `Coalesced`, `Total`)
are recursive functions of the number of entries they have been through.

### SessionLeader

What `SessionManager` has as one answer. `pc`, `tty`, `status` and `told` are those of each
leader; `holds` says which control pipes a process has a copy of, since a fork copies
what the daemon has open. The daemon's open and close are sequences of steps; a kill or a
crash may come between any two.

### DriverManager

Worker and main thread at the grain of `_workerMutex`. `Needs` lists the packages of each
driver, which may share some. `turn` is the driver and the package that the nested loops
are at, first those of the removals, then those of the searches and installs, in the order
of the code; `refused` is what pacman failed at. `machine` is the fingerprint of the
hardware (processors and graphics devices, bound or not), and says nothing about which
devices have a driver bound, so `FindDevice` finds a driver's device or does not; `found`
are those of the attempt. `stored` is the fingerprint file, which may keep its content
or lose it when it is written. `Reboot` ends everything at any point and starts again with
the same hardware or other. Two histories: `fitted`, the installation for the stored
hardware was completed, and `kept`, the file stayed as it was although other hardware was
installed for.

### CommandRunner

The child and the parent. A pipe holds `Capacity` units of one read; the child has
chosen the stream it writes to and blocks there while it is full. `ready` is what poll()
said, which a later write outdates. A stream hangs up when nobody has it open: neither the
command and its descendants (`open`) nor the leader of a session that the main thread forked
between `pipe()` and the parent's `close()` (`held`, `ForkLeader`), which stays until its user
logs out. `PollFails` is an error of poll() that ends the reading.

### SignalDispatch, ObjectDispatch

`HandleSignal` copies the list of shared cells and calls them one by one; a callback is a
point between two steps where anything may be subscribed to or ended. `heard` is the
sequence of what each subscription got and `due` the set of signals it has to get;
`SignalsDelivered` says that the one is the other without what is still to come, and that
the sequence is in order and without repetition. In `ObjectDispatch` nested calls of
`Set` are a `stack`; a callback may set other properties, refuse, or catch the
refusal of what it set.

### AudioService

`pulse` is PulseAudio with the socket to it, `client` the service's tables and objects.
PulseAudio answers requests in order and between two of them anything may change: a
port, the default, an unplugged sink, the end of PulseAudio. Events and answers are
handled when they are sent, which is sound since nothing the service does depends on
when it reads them (the module's header says why). A list comes back as one message
for each entry, in an order that PulseAudio does not promise and the model leaves open
(`InSomeOrder`); `HandledFirst` hands the messages of a step to the service one by one.
The service's methods are operators on `client`.

### AccountManager, PowerManager, LocaleService

`AccountManager` is the one handler that makes the initial user, one step per blocking
call, each of which may fail, or fail after it took effect, or be the last before a
restart; other programs edit `/etc/group` in between. `PowerManager` has discovery,
subscription and the queue of UPower's signals. The calls to UPower may throw: at
discovery the exception leaves the service's constructor, and when a battery is added later
it is dropped by the dispatch of the signal, and the battery with it. `missed` is a history of
these batteries and of what came between discovery and subscription. A restart of UPower is
not modelled. `LocaleService` has the cache, and an
answer that overtakes queued signals.

## 4. The runs

| run | module | instance | shows |
|---|---|---|---|
| `SessionManager_safety` | `SessionManager` | three ids, root and one user, greeter may crash, PAM failures | `GreeterAlone`, `JobsAccountedFor`, `SeatShowsSession`, `NoSpuriousStop` |
| `SessionManager_live` | `SessionManager` | two ids, the live user, startup failures, fairness | `NoOrphans`, `LoginAvailable`, `DeadSessionReaped`, `InstallerOffered` |
| `Installer` | `MCInstaller` | two installations of two steps, one plan | `OneInstaller`, `CancelledWithinStep`, `SuccessUnmounts`, `PlanIsValidated`, `EndsReached` |
| `NetworkManager` | `NetworkManager` | two devices, two profiles, one request, two activations, two events; fairness | `OneTruthfulAnswer`, `SignalsMatchDevices`, `ConnectionsMirrored`, `RequestAnswered` |
| `Daemon` | `MCDaemon` | see below | the loop: `NothingStranded`; audio: `AudioMirrored`; network: `LinksMirrored`, `ProfilePreferred`; the wrapper: `SignalsDelivered`, `AnnouncedIsValue`; the disk: `SizesAddUp`, `OnlyNamedLost`, `ExecutedAsPlanned`; accounts: `InitialUserComplete`, `MembershipsKept`; power and locale: `StatusMirrored`; `TypesOK` of all |
| `Threads` | `MCThreads` | see below | the loop: `CallbacksRunWithContext`, `SignalEndsProcess`; the watchdog: `FrozenHandlerBounded`, `AlarmNeedsBusyPeriod`; the logger: `ImplementsQueue`; drivers: `CompleteMeansInstalled`; both workers: `WorkersAnswer`; commands: `CommandReturns`; leaders: `LeadersOwned`, `NoReaderStuck` |
| `SessionManager_greeter_dies` | `SessionManager` | the greeter may end | finding: `LoginAvailable` fails |
| `Watchdog_false_alarm` | `Watchdog` | timeout of five ticks | finding: `NoFalseAlarm` fails |
| `MainLoop_stranded` | `MainLoop` | blocking calls in constructors and callbacks too | finding: `MessagesHandled` fails |
| `MainLoop_thread` | `MainLoop` | a thread reports to the main loop | finding: `CallbacksRun` fails |
| `StdoutLogger_join` | `StdoutLogger` | three threads | finding: `DestructorReturns` fails |
| `CommandRunner_drain` | `CommandRunner` | the bounds of `Threads` | finding: `OutputComplete` fails |

Bounds. Sessions: three ids hold the greeter, a user and the one being opened while another
is closing, which is as deep as the nesting of handlers goes. Two suffice for liveness,
where the question is about one session and its replacement. The queues of signals need no
bound: a session has two jobs and one unit, so at most six signals. With `MaxBatch` 2
instead of 64 a queue of three is longer than a dispatch, so that the end of a manager is
lost behind it. Network: two devices share or exchange two profiles, one request races two
activations and two events: a stop and a return of NetworkManager, or hot plugs. Installer:
the second installation overlaps with the end of the first, and a third would meet the same;
one plan suffices since after it id 0 begins its data again; a step that mounts and one that
unmounts leave a point between them to fail or cancel.

`Threads`. Watchdog: the timeout only has to be longer than the alternations of the two
threads that matter; five ticks leave room for a handler that begins at every offset of an
old deadline. Logger: four messages from three threads fill the queue behind one that is
being printed. Drivers: two that share a package, two attempts, so that a failed one is made
up for, one connection that comes in between, two fingerprints and two restarts, at any
point, so that other hardware comes and the old one comes back. Command: pipes of one unit
and two units of output, so that a write blocks on each stream. Leaders: two, so that one
inherits the other's pipe, one command that inherits both, two terminals, one kill.

`Daemon`. Loop, here and in `Threads`: three messages that wait are one being handled, one
in libdbus's queue and one in the socket; when one is done another may come. Audio: two
sinks, one source, one stream, two names to use again, two changes and one request of a
client: a change before and one after each of the service's two requests. Signals: two keys,
two subscriptions, three signals of a key, a refused rule: one subscription ends the other,
or itself, in the middle of a dispatch. Objects: two with two properties, nested three deep,
two calls. Disk: plans of three operations on six disks of at most four regions: a removal,
a creation in the space it leaves, and a mount point for it. Accounts: two faults, since the
property is about one and its failing recovery, two other members. Power: two batteries and
four events, a battery that goes and comes back around discovery. Locale: two locales and
four changes. Access points: two, two strengths, two profiles, three batches: a connection,
one that replaces it directly, and a change of the strength. Ethernet: three profiles.

`CHECK_DEADLOCK FALSE` stands in every configuration of a system that may end
(the daemon shuts down, the thread is joined, the bound on messages is reached).

Fairness. `SessionManager`: weak fairness of the daemon's own steps (the loop runs, GLib
serves timers) and of systemd finishing accepted jobs; nobody has to log in, log out or
crash. `Watchdog`: time passes, a thread that can run does; handlers and callbacks may last
for ever. `MainLoop`: the main thread runs and its handlers and callbacks return; nobody has
to stop sending, so that the liveness properties have messages without a pause (`Flooded`)
as their exception. `StdoutLogger`: threads that can run do; nobody has to log, nothing
relies on a spurious wake-up.

`Installer`: both threads run, the commands of the steps return, and a queued
callback is dispatched if the loop comes by with the main context again and again
(strong fairness: the loop leaves the context in between, and an Update that has it
dispatches what it finds ready). No message has to arrive: a loop asleep without the
context may sleep for ever.

`NetworkManager`: messages are handled, libnm's cache follows NetworkManager, an
asynchronous call returns, an activation does not stay in between for ever
(NetworkManager times out). Nobody has to restart it or to plug anything.

`DriverManager`: the worker runs and pacman returns, a thread that changed a flag goes on to
notify, a destructor that was begun goes on; no connection has to appear and nobody has to
restart. `CommandRunner`: the parent runs, the child goes on to write, close and exit, each
stream by itself: `CommandReturns` is about commands that end, and the code has no timeout
for others. No user has to log out, so a leader may hold a pipe for ever, and poll() does
not have to fail. That pacman returns, which `DriverManager` takes as given, is what
`CommandReturns` says of a command that ends while no leader holds its pipes.
`SessionLeader`: leaders and the daemon's opening and closing go on, a command ends, and
init reaps; nobody has to open a session or to crash.

## 5. Findings

* **The greeter dies** (`SessionManager_greeter_dies`). `StopSession` opens a
  login screen only if the session that ended was not the greeter's and no
  greeter is flagged active. When the greeter's own program ends, nothing
  resets `_isGreeterActive`, and the daemon stays without any session.
* **A false alarm** (`Watchdog_false_alarm`). `wait_for` looks at the current
  value of `_watching` only. If one handler ends and the next begins before the
  watcher takes the mutex, the first one's deadline ends a process that answers.
* **Stranded messages** (`MainLoop_stranded`). `Update` pops messages only if
  poll() saw the socket readable, but a blocking call in a constructor or in a
  GLib callback may have read the message into libdbus's queue already.
* **A join that never returns** (`StdoutLogger_join`). The destructor notifies
  without the mutex, between the logger thread's predicate and its sleep.
* **A loop without its sources** (`MainLoop_thread`). While the installer's thread
  runs a callback in the main context, `Update` cannot take it and polls the bus
  and the signal pipe only, without a time-out.
* **Lost output** (`CommandRunner_drain`). With POLLIN and POLLHUP together, `Run`
  reads once and closes: what a child left in the pipe beyond 4096 bytes is lost.

Observations that need no run, where the code promises nothing else. A dispatch that finds
a peer's connection closed handles 64 messages and removes its source, so that a
Disconnected behind more of them is never handled and its session stays (`deaf` in
`DeadSessionReaped`). The loop over the messages ends only when none is left: behind a
sender that does not pause, GLib callbacks and the signal pipe wait for ever, and the
watchdog is content (`Flooded`). GLib callbacks are never watched: BeginWatching has
one caller, the message loop. And after an exception in `Run`, CleanUp deletes
`_serviceManager` without resetting the pointer, so the null check in
FailFastFatalError passes on a deleted object. A network connection that is replaced
directly by another keeps its object, and a profile that becomes active again while
its old object is there is not subscribed to: `outlived` in `NetworkManager` is the
set of these. A device that has an active connection when it is discovered shows none
until the connection changes. In the installer, `BeginInstallation(0)` after a cancel
begins the cancelled plan (`OnBeginInstallation` in the model has this), a cancel
before the worker's reset is lost (`asked` stays 0), and only the first installation's
outcome is promised to be shown: the second one's `Running` may be queued behind the
first worker's last callback and dispatched after the second outcome.

More of them, by component:

* *Session leaders.* A leader inherits the daemon's handler of SIGTERM, SIGINT and SIGQUIT
  with its self-pipe (`application.h:118-124`): when logind ends a session by a signal to
  its leader, the daemon quits. A signal during the blocking read of the
  status pipe looks like a refused authentication. A leader forked while another thread starts a
  command has that command's pipes, which are made without `O_CLOEXEC`
  (`command_runner.cpp:45-48`), and since it executes nothing the command's `Run` waits for the
  logout (`held` in `CommandReturns`). If the second `pipe()` fails the first
  is not closed. The main thread blocks during PAM. A startup failure after the switch of the VT
  leaves the seat on a closed session.
* *Wi-Fi.* The strength shown is that of the access point that was active when the
  connection object was made: 0 for ever if there was none, and stale after roaming,
  even back to it. When a connection was replaced directly, its object may take the updates
  of the one in its place: `FindConnectionByAccessPoint` asks for the device's active access
  point and takes the first object of that device, so `StrengthFollowed` says only that one
  of them shows the strength. That an object can be left over by another device is in
  `NetworkManager`, without strengths. The strengths of the listed access points are read again only
  when the list is.
* *Audio.* `HandleServerInfo` compares a display name with PulseAudio's name
  (`audio_service.cpp:513-570`), so the active device becomes empty where the two differ. A
  stream callback that is not suppressed (735-744) can throw out of PulseAudio's callback. A
  device without ports cannot be made active. After a failure the connection is
  never opened again (375).
* *Plans.* libparted renumbers the logical partitions behind one that is removed
  (`partition_step.cpp:624`), and the plan does not: the next operation on one of them
  fails, or is done to the partition that has the number now, which may be one that the plan
  never named; and what the worker's maps say of the old numbers is what it mounts and
  formats. `OnlyNamedLost` and `ExecutedAsPlanned` leave out the partitions behind a removed
  one (`Moved`), the first only if two operations lose logical partitions. Free regions are
  numbered by the list that is shown, which counts gaps below 1 MiB, and by the validation,
  which does not; the worker numbers them anew after each operation. A mount of `/boot` in
  the running system counts in validation and not in execution, which then fails after the
  commit. The disks are listed once. Erasing may leave the root up to 2 MiB below the
  minimum. `IsRootDevice` knows a partition mounted at `/` by its device name only. The
  check for a "BUG" (935-936) cannot be reached: `SizesAddUp`.
* *D-Bus wrapper.* When the bus refuses a match rule, the slot of the subscription that threw
  stays, so later ones of that key never add the rule. A key lacks the bus name. The
  destructor of a subscription may throw. A call of an unknown object, interface or method
  gets no reply.
* *Drivers.* The fingerprint is stored before anything is installed (398), so that a failed or
  interrupted installation is never made up for: `CompleteMeansInstalled` has to say which
  starts it speaks of (`fitted`). A fingerprint that cannot be written is ignored: the one
  before stays, the new hardware's installation removes its packages, and when that
  hardware comes back nothing is installed (`kept`). An undetermined fingerprint is stored as `?`
  and compared like any other, against the comment at 404. A stop during the packages of the
  last driver counts as success. A connection that appears while the worker installs is not
  remembered. The devices searched for are those with a bound driver, those in the
  fingerprint are not.
* *Accounts.* When `CacheUser` fails a second initial user can be made. A restart between
  the creation and the password leaves a user without one and blocks the set-up. A member added
  to the edited group between the read and the lock is lost (343-358).
* *Power, locale.* A battery whose values cannot be read when it appears is never listed,
  and one at discovery ends the daemon's start. The removal of a battery is not announced,
  and one that comes between the query and the subscription is missed. Callers of
  `SetLocale` and `SetTimezone` get no reply. A list without `LANG=` leaves the cache as it
  was.

## 6. The proofs

All proofs are in `...Proofs.tla`, checked by TLAPS without assumptions other than the
named ones on the constants and the hypotheses that a theorem states. Every safety
property of the runs has a theorem whose statement names it, for every value
of the constants (`theorems` in `PROJECT.json`). The assumptions:

| assumption | says | why the code justifies it |
|---|---|---|
| `SessionAssumption`, `InstallerAssumption`, `LoopAssumption`, `TimeoutAssumption` | the sets and bounds are what their comments say | shape of the constants |
| `NetworkAssumption` | bounds are natural numbers, there is a device, the empty path is no profile | shape of the constants |
| `DaemonAssumption` | access points are not named like the tables; no subscription is the empty slot; there is a property value, the number of nested calls is bounded, users have a first group (`BoundsAre`); disks are as libparted presents them, sizes are natural numbers | shape of the constants; `USER_GROUPS` is a list that is not empty (`account_manager_service.h:65`); `PopulateDeviceWithParted` walks the disk with `ped_disk_next_partition`, which gives each partition once, by its number |
| `Audio!ParametersAre`, in `DaemonAssumption` | there is a sink; sinks, sources and streams are finitely many; nothing is named by the empty name | shape of the constants (the indices and names that PulseAudio may give); PulseAudio gives every sink and source a name |
| `ThreadsAssumption` | processes have names of their own, there is a leader, terminals are numbered from 1; the packages of drivers are listed | shape of the constants |
| `Failures \subseteq {"auth"}` (`SeatIsShown`) | no call fails after the VT switch | with other failures the property does not hold: a start that fails after the switch takes the new session away and leaves the seat with it, while the old one goes on (section 5) |
| `~GreeterMayEnd`, two ids (`AlwaysALogin`) | the greeter does not end by itself | the finding of `SessionManager_greeter_dies` |
| `CleansUp` (`NothingLeftMounted`) | a step that mounts is followed by one that cleans up before the next that mounts | the list of steps in `installer_service.cpp:77-85` |
| `Threads = {}` (`NeverLeftOut`) | no thread uses the main context | the finding of `MainLoop_thread` |

The arguments, with what makes each invariant inductive:

* `SessionManagerProofs`: a method is an operator from a world to a world, so each
  method gets a lemma: it takes a good world to a good world. Callers cite the lemmas of
  what they call, in the order of the call graph. `WorldOK`, `GreeterExclusive` and
  `ResourcesOf` are inductive together: opening needs the free id not to be the
  greeter's and its queues to be empty. On them rest `AllAccounted` (each session's start
  jobs are with its manager or in its queue, and a queued disconnect means that its unit has gone),
  whose step lemma also yields the reasons of `NoSpuriousStop`; `Shown`; and `Served` (the
  greeter's unit is well and nothing queued would end it), from which
  `LoginAvailable` follows: the last session to end is a user's, and then the greeter's is opened.
* `InstallerProofs`: `ActiveIsLast`: only the last worker can be active, and while it is,
  the state is `Running`, so a new one is refused. It also shows that no other worker can
  reset the flag, which `Heeded` needs: the flag stays, and the worker's step is the one
  at which it was asked or the next. `PlanIsValidated` is inductive on top of it.
  `CleanSoFar` says for each point of a run what it has mounted, counted from the steps
  that it has been through.
* `NetworkManagerProofs`: `IInv` has three parts. The types and the numbers of requests;
  `Answering`: an activation belongs to one request at most, a request that is pending
  has no answer yet, one that is not has one at most (`Owned`, `AnswersOk`); `Listing`: the
  devices listed are those of libnm's cache, what is shown on one is what is active on it,
  and no profile is active on two (`Tracks`), what was announced adds up to them
  (`Matched`), and a connection object is that of some device or `outlived`. Each method has
  a lemma for each part.
* `DaemonProofs`: lemma `Parts` says that a step of `Daemon` is a step or a stutter of each
  part, so each part is proved by itself.
  * The loop: `QuitAt` says where in the loop `quit` can hold, `Drained` that outside the
    handling of messages libdbus's queue has just what blocking calls have put `aside`,
    `LoopOwns` who has the main context. With `NeverLeftOut` the run's
    `CallbacksRunWithContext` is `CallbacksRun` on every system but the live one, where the
    installer's thread exists. (`QuitFinal` is about a formula that no run checks, since the
    theorem is stronger.)
  * Accounts: `OneRecovers` counts the failures: a user without a password is the one of
    the request in progress, or a second call has failed. `Kept` says what the copy of
    `/etc/group` in memory may lack at each point of the edit.
  * Power and locale: `PowerInv`: the last signal about a battery that waits says whether
    UPower has it, and if none waits the table does, but for `missed`. `LocaleInv`: the last
    signal that waits brings the current locale, and if none waits the cache has it.
  * Access points: `CacheInv`: the active one is in libnm's cache; `ConnectionInv`: the
    access point of a connection is followed while it stays active, and one of the device's
    objects shows its strength or a notification of it is still to come; `PointsMirrored` is
    inductive with them.
  * Objects: `Announced` (whoever follows the signals knows every value, also while callbacks run)
    and `Answering` (a call waits for its answer only while a callback is on the stack).
  * Signals: `Shaped`, `Placed` (slots and subscriptions name each other, and a key with a list
    has its rule), `Numbered` (what is dispatched comes before what waits; the copy
    has each subscription once), `InOrder` and `Complete` (heard and still to come are what is
    due). An end of a subscription in the middle of a dispatch is
    the hard case: the copy still names its cell, and `Placed` says that the cell is empty.
* `DiskPlanProofs`, for any disks and any number of operations. Recursive functions are
  sets of pairs and natural numbers are well-founded, so a property given as a *set* of
  numbers can be proved by induction (`Induction`, from which `Iterates` for functions
  defined by recursion); that is what the lemmas on `Listed`, `Coalesced` and `Total` rest on.
  * `SizesInv`: shapes of the lists; `Total` of a concatenation is the sum, and joining adjacent
    free entries does not change it, so no splice does.
  * `LostInv`: each partition shown is spared by the list, the table and at last the disk
    (`Spares`), unless an operation names it or it is one of the `Strays`, which an operation
    may hit under another's number. `Embeds` relates the partitions of a list to those
    of its coalesced form one by one, and `Replaced` those before and after an operation.
  * `PlanInv`: `Planned` says what the operations of the plan have made of the list that it
    was simulated on; `Executed` says what the first `done` of them have made of the table
    and of the worker's maps; at the commit the two speak of the same plan, which gives
    `Held` for each target. The simulation keeps names and the worker gives them anew after
    each operation; the invariant never mentions positions, only the numbers of partitions.
    A removal changes those of the logical partitions behind, all of which are in `Moves`,
    the numbers that the plan's removals may shift; `Executed` is about the other numbers,
    whose partitions are the same as in the list (`was`), and a removal shifts none of them.
  * `RegionsInv`, on top of the three: the table stays a list of regions, each partition with a
    number of its own, and what the targets, the worker's maps and the plan have to make are
    named filesystems on numbered partitions. This is what the type of the disk takes.
* `AudioServiceProofs`, for any sinks, sources, streams and names, and any number of changes
  and requests. `AudioMirrored` is about the states in which nothing is under way, so the
  invariant says what is under way in all others: whatever the service does not have as
  PulseAudio has it, it has asked for, or an event or an answer brings it (`Follows`, of
  `DevicesFollow` and `DevicesGo`, `StreamsFollow` and `StreamsGo`, `NamesFollow`,
  `DefaultFollows`, `ActiveFollows`, `PathsFollow`, `ChoicesFollow`). `SinksFirst` is what
  the streams need besides: a stream gets its path when it is reported, so a sink that the
  service does not know yet has to be reported before its streams are. The
  messages of a step are handled one by one, each in a state that follows PulseAudio up to the
  rest of them, which is why `Follows` has the messages and a position in them as
  parameters. Once an exception has left a callback, the tables promise nothing.
* What these modules prove reaches `Daemon` in `DaemonProofs`: the module is instantiated under the
  names that `Daemon` gives to the variables, and a lemma says that the formulas of this
  instance and of the part's own in `Daemon` are the same (`PlansAre` for the disks, the
  `Same...` lemmas and `AudioSteps` for audio). `DaemonProofs` also has
  `BestProfile`: the loop of `EthernetSetEnabled` by `Iterates`, the comparison being a total
  preorder; and `EveryType`, the types of all parts, from one lemma for each part.
  Several types are not inductive by themselves; that of a disk, for one, takes `RegionsInv`.
* `ThreadsProofs`.
  * The watchdog: `FrozenHandlerBounded` alone is not inductive. `WatchInv` adds that the flag
    agrees with what the main thread does (`FlagsAgree`), that while a handler is watched its
    age and what is left of the deadline make at most the timeout (`DeadlineInTime`), and that
    the deadline is not earlier than the streak allows (`DeadlineNotEarly`).
  * Leaders: `LeadersOwned` is about the states in which nothing is opened or closed. `DaemonOwns`
    and `OpensOwn` say which processes and pipes are the daemon's at each point of opening and
    closing; `OpensOwn` also that the terminal chosen stays free until the child has taken
    it, without which `TtysDiffer`, that no two leaders have the same, is not inductive.
  * Drivers: `DriverInv` says what the loops have done up to `turn`: a package that they have
    been through is removed or refused (`Removing`), then what is installed is what the
    hardware wants up to there (`Installing`); `Complete` and `Fitted` carry that to the flag
    and across restarts. `Fits` is about what the attempt has `found`, and with
    `kept` it promises nothing, since another machine's installation came in between.
* `StdoutLoggerProofs`: `QueueImplemented`, for any writers, one of which is the main
  thread, and any messages: `Spec => Q!Spec`, the safety of the refinement. `WritersEnd`
  says that the main thread ends the logger when all other writers are gone; `InSequence`
  that what is printed, what the thread holds and what is queued are the messages
  in the order they were pushed, and that the thread ends with an empty queue.

Only model-checked: liveness, since fairness and ENABLED are beyond the prover. That
is `DeadSessionReaped`, `InstallerOffered`, `EndsReached`, `RequestAnswered`, `WorkersAnswer`,
`CommandReturns`, `NoReaderStuck`, `SignalEndsProcess`, `CallbacksRunWithContext` and the
liveness of `ImplementsQueue`.

## 7. Not modelled

Values that are copied and decide nothing: IP addresses, device states, volumes, battery
levels, the time zone. Methods that only forward or only read: the Wi-Fi switch,
ListSessions, the lists of users, drivers, locales. The setters of the installer's locale and
keyboard, which share `_suppressPropertyCallbacks` with the worker's callbacks
(`installer_service.cpp:588`). The marshalling templates of `dbus/dbus_wrapper.h`, wording of
logs and errors, drawing, the data files (taken as assumptions: the unit has
`Restart=no`, PAM answers yes or no), and dead code as named in section 1.
`PROJECT.json` gives the reason for each component that is modelled in part or not at all.
