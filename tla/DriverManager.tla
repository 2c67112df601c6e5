--------------------------- MODULE DriverManager ----------------------------
(***************************************************************************)
(* The driver manager                                                      *)
(* (src/src/services/driver_manager/driver_manager_service.cpp).           *)
(*                                                                         *)
(* A worker thread installs the packages of the static drivers when the    *)
(* hardware changed: it waits for a request, tries to refresh the package  *)
(* lists, removes all static packages and installs those of the hardware   *)
(* that is there.  The main thread requests another attempt when a network *)
(* connection appears, and the destructor stops the worker between two     *)
(* operations.  Flags change under _workerMutex, so each evaluation of a   *)
(* predicate is a step, and the notification that follows another.  The    *)
(* fingerprint of the hardware is a file, which outlives the machine's     *)
(* restarts, at any point, with other hardware or the same.  It tells the  *)
(* processors and graphics devices of the machine; which of these have a   *)
(* driver bound, and so a device that is found, it does not tell.          *)
(***************************************************************************)
EXTENDS Naturals, Sequences

CONSTANTS
  Machines,       \* the fingerprints that hardware may have
  Needs,          \* the packages of each static driver, in order; they may share some
  Tries,          \* TRY_INSTALL_STATIC_DRIVERS_RETRY_COUNT
  MaxConnections, \* bound on the network connections that appear
  MaxReboots      \* bound on the restarts of the machine

VARIABLES
  machine,      \* the fingerprint of the hardware that is there
  found,        \* history: the drivers whose device the attempt has found
  stored,       \* hardware.txt
  flags,        \* _stopping, _installRequested, _installing, _installationComplete
  worker,       \* where the worker is
  attempt,      \* of TryInstallStaticDriversWithRetry
  turn,         \* the driver and the package that its loops are at
  installed,    \* packages on the disk
  refused,      \* history: packages whose last operation in it failed
  main,         \* where the main thread is
  connections,  \* connections that appeared so far
  fitted,       \* history: the hardware stored has had its installation
  kept,         \* history: it stayed stored as that of other hardware was not written
  reboots       \* restarts so far

hardware == <<machine, stored, fitted, kept, reboots>>
disk == <<installed, refused>>
vars == <<hardware, found, flags, worker, attempt, turn, disk, main, connections>>

Drivers == DOMAIN Needs
PackagesOf(d) == {Needs[d][j] : j \in DOMAIN Needs[d]}
Packages == UNION {PackagesOf(d) : d \in Drivers}

\* The loops over the drivers and, in a turn, over the packages of one; package 0
\* is what comes before those.
First == [driver |-> 1, package |-> 0]
NextDriver == [driver |-> turn.driver + 1, package |-> 0]

\* Mutant of NextPackage: the last package of each driver is left out.
NextPackageTooFew ==
  IF turn.package + 1 < Len(Needs[turn.driver]) THEN [turn EXCEPT !.package = @ + 1] ELSE NextDriver

NextPackage ==
  IF turn.package < Len(Needs[turn.driver]) THEN [turn EXCEPT !.package = @ + 1] ELSE NextDriver

\* GetCurrentHardwareFingerprint: processors that cannot be read leave a
\* fingerprint that is the same for all hardware.
Unknown == "?"
NoFile == ""
Fingerprint == {machine, Unknown}

AtStart == [stopping |-> FALSE, requested |-> TRUE, installing |-> FALSE, complete |-> FALSE]

Init ==
  /\ machine \in Machines /\ stored = NoFile /\ reboots = 0
  /\ fitted = FALSE /\ kept = FALSE /\ found = {}
  /\ flags = AtStart
  /\ worker = "starting" /\ attempt = 0 /\ turn = First
  /\ installed \in SUBSET Packages /\ refused = {}
  /\ main = "running" /\ connections = 0
-----------------------------------------------------------------------------
(* The main thread *)

\* Mutant of Notify: nobody is woken.
NotifyNobody == UNCHANGED worker

\* A sleeping worker looks at its predicate again.
Notify == worker' = IF worker = "asleep" THEN "waiting" ELSE worker

\* HandleNetworkConnectionAdded: of no use to a worker that is busy or done.
ConnectionAdded ==
  /\ main = "running" /\ connections < MaxConnections
  /\ connections' = connections + 1
  /\ IF flags.stopping \/ flags.complete \/ flags.installing
     THEN UNCHANGED <<flags, main>>
     ELSE /\ flags' = [flags EXCEPT !.requested = TRUE]
          /\ main' = "notifying"
  /\ UNCHANGED <<hardware, found, worker, attempt, turn, disk>>

NotifyRequest ==
  /\ main = "notifying"
  /\ Notify
  /\ main' = "running"
  /\ UNCHANGED <<hardware, found, flags, attempt, turn, disk, connections>>

\* ~DriverManagerService: no connection is heard of any more.
Stop ==
  /\ main = "running"
  /\ flags' = [flags EXCEPT !.stopping = TRUE]
  /\ main' = "stopping"
  /\ UNCHANGED <<hardware, found, worker, attempt, turn, disk, connections>>

NotifyStop ==
  /\ main = "stopping"
  /\ Notify
  /\ main' = "joining"
  /\ UNCHANGED <<hardware, found, flags, attempt, turn, disk, connections>>

Join ==
  /\ main = "joining" /\ worker = "ended"
  /\ main' = "gone"
  /\ UNCHANGED <<hardware, found, flags, worker, attempt, turn, disk, connections>>
-----------------------------------------------------------------------------
(* The worker *)

Moves(to) == worker' = to /\ UNCHANGED <<main, connections>>
Goes(to) == Moves(to) /\ UNCHANGED hardware

\* Opening the file may fail, and so may writing to what it has emptied.
WriteFile(now) == stored' \in {now, stored, NoFile}

\* HardwareFingerprintChanged stores the fingerprint before the installation.
HardwareFingerprintChanged ==
  \E now \in Fingerprint :
    /\ now # stored /\ WriteFile(now)
    /\ kept' = (stored' = stored) /\ fitted' = (fitted /\ kept')
    /\ UNCHANGED <<machine, reboots>>

\* If the hardware is the same there is nothing to do.
Start ==
  /\ worker = "starting"
  /\ \/ /\ ~flags.stopping /\ HardwareFingerprintChanged /\ Moves("waiting")
        /\ found' = {} /\ refused' = {}
     \/ /\ (flags.stopping \/ stored \in Fingerprint) /\ Goes("ended")
        /\ UNCHANGED <<found, refused>>
  /\ UNCHANGED <<flags, attempt, turn, installed>>

\* The wait's predicate; the flags are taken over under the mutex.
Wait ==
  /\ worker = "waiting"
  /\ IF flags.stopping THEN Goes("ended") /\ UNCHANGED <<flags, attempt>>
     ELSE IF ~flags.requested THEN Goes("asleep") /\ UNCHANGED <<flags, attempt>>
     ELSE /\ Goes("pausing")
          /\ flags' = [flags EXCEPT !.requested = FALSE, !.installing = TRUE]
          /\ attempt' = 1
  /\ UNCHANGED <<found, turn, disk>>

SpuriousWakeup ==
  /\ worker = "asleep" /\ Goes("waiting")
  /\ UNCHANGED <<found, flags, attempt, turn, disk>>

\* WaitForRetry, five seconds unless the daemon stops; then CheckPackages, and
\* if it fails the next attempt.
Pause ==
  /\ worker = "pausing"
  /\ Goes(IF flags.stopping THEN "failed" ELSE "checking")
  /\ UNCHANGED <<found, flags, attempt, turn, disk>>

CheckPackages ==
  /\ worker = "checking"
  /\ \/ /\ Goes(IF attempt < Tries THEN "pausing" ELSE "failed")
        /\ attempt' = attempt + 1
        /\ UNCHANGED <<found, turn>>
     \/ /\ Goes(IF flags.stopping THEN "failed" ELSE "removing")
        /\ turn' = First /\ attempt' = 0
        /\ UNCHANGED found
  /\ UNCHANGED <<flags, disk>>

InLoop(loop) == worker = loop /\ turn.driver \in Drivers
Package == Needs[turn.driver][turn.package]

\* CleanupStaticDrivers: pacman -Rs fails for a package that is missing or needed
\* by another one.
RemovePackage ==
  /\ InLoop("removing")
  /\ IF turn.package = 0 THEN Goes("removing") /\ turn' = NextPackage /\ UNCHANGED disk
     ELSE IF flags.stopping THEN Goes("installing") /\ turn' = First /\ UNCHANGED disk
     ELSE /\ Goes("removing") /\ turn' = NextPackage
          /\ \/ installed' = installed \ {Package} /\ refused' = refused \ {Package}
             \/ /\ Package \in installed
                /\ refused' = refused \cup {Package}
                /\ UNCHANGED installed
  /\ UNCHANGED <<found, flags, attempt>>

CleanedUp ==
  /\ worker = "removing" /\ turn.driver \notin Drivers
  /\ turn' = First
  /\ UNCHANGED <<found, flags, attempt, disk>> /\ Goes("installing")

\* The loop over the drivers, and HasDeviceForDriver, which may throw: whether
\* the device has its driver bound by now, hardware of one fingerprint may differ.
FindDevice ==
  /\ InLoop("installing") /\ turn.package = 0
  /\ \/ Goes("failed") /\ UNCHANGED <<found, turn>>
     \/ /\ ~flags.stopping /\ Goes("installing")
        /\ \/ turn' = NextPackage /\ found' = found \cup {turn.driver}
           \/ turn' = NextDriver /\ found' = found \ {turn.driver}
  /\ UNCHANGED <<flags, attempt, disk>>

\* InstallDriver: a package that fails is logged, and the others are tried.
InstallPackage ==
  /\ InLoop("installing") /\ turn.package # 0
  /\ IF flags.stopping THEN turn' = NextDriver /\ UNCHANGED disk
     ELSE /\ turn' = NextPackage
          /\ \/ installed' = installed \cup {Package} /\ refused' = refused \ {Package}
             \/ refused' = refused \cup {Package} /\ UNCHANGED installed
  /\ UNCHANGED <<found, flags, attempt>> /\ Goes("installing")

\* The attempt succeeded, or all attempts failed and the next request is
\* waited for.
Finish ==
  \/ /\ worker = "installing" /\ turn.driver \notin Drivers
     /\ flags' = [flags EXCEPT !.installing = FALSE, !.complete = TRUE]
     /\ Moves("ended")
     /\ fitted' = (fitted \/ (~flags.stopping /\ stored = machine))
     /\ UNCHANGED <<machine, stored, kept, reboots, found, attempt, turn, disk>>
  \/ /\ worker = "failed"
     /\ flags' = [flags EXCEPT !.installing = FALSE]
     /\ Goes(IF flags.stopping THEN "ended" ELSE "waiting")
     /\ turn' = First /\ attempt' = 0 /\ found' = {} /\ refused' = {}
     /\ UNCHANGED installed

\* The machine goes down, with or without a shutdown, and starts again.
Reboot ==
  /\ reboots < MaxReboots /\ reboots' = reboots + 1
  /\ machine' \in Machines /\ flags' = AtStart
  /\ worker' = "starting" /\ attempt' = 0 /\ turn' = First /\ main' = "running"
  /\ UNCHANGED <<stored, fitted, kept, found, disk, connections>>

Worker ==
  \/ Start \/ Wait \/ Pause \/ CheckPackages
  \/ RemovePackage \/ CleanedUp \/ FindDevice \/ InstallPackage \/ Finish

Next ==
  \/ ConnectionAdded \/ NotifyRequest \/ Stop \/ NotifyStop \/ Join
  \/ Worker \/ SpuriousWakeup \/ Reboot

Spec == Init /\ [][Next]_vars

\* pacman ends, and nothing may rely on a spurious wake-up.
FairSpec ==
  /\ Spec
  /\ WF_vars(Worker) /\ WF_vars(NotifyRequest) /\ WF_vars(NotifyStop) /\ WF_vars(Join)
-----------------------------------------------------------------------------
(* Properties *)

\* Every variable has its type.
TypeOK ==
  /\ installed \subseteq Packages /\ refused \subseteq Packages
  /\ worker \in {"starting", "waiting", "asleep", "pausing", "checking",
                 "removing", "installing", "failed", "ended"}
  /\ main \in {"running", "notifying", "stopping", "joining", "gone"}
  /\ attempt \in 0 .. Tries + 1
  /\ flags \in [stopping : BOOLEAN, requested : BOOLEAN, installing : BOOLEAN, complete : BOOLEAN]
  /\ turn \in [driver : 1 .. Len(Needs) + 1, package : Nat]
  /\ InLoop(worker) => turn.package \in 0 .. Len(Needs[turn.driver])
  /\ machine \in Machines /\ stored \in Machines \cup {Unknown, NoFile} /\ found \subseteq Drivers
  /\ fitted \in BOOLEAN /\ kept \in BOOLEAN /\ reboots \in 0 .. MaxReboots

\* An installation counts as complete only if exactly the packages of the
\* drivers whose devices it found are installed, but for those pacman refused;
\* drivers may share packages.  A later start that finds the hardware it was
\* for, and does nothing, finds them too, although restarts may come in the
\* middle of an operation, with other hardware, and the file may not have been
\* written; but if that kept the fingerprint of the hardware before, the
\* packages are those of the other hardware when it comes back.
CompleteMeansInstalled ==
  (flags.complete /\ ~flags.stopping) \/ (fitted /\ ~kept /\ stored = machine) =>
    \A p \in Packages \ refused : p \in installed <=> \E d \in found : p \in PackagesOf(d)

\* A request that was accepted is taken up and the destructor returns, if the
\* machine stays up: the worker misses neither notification, whatever it was
\* doing.
WorkerAnswers ==
  /\ flags.requested ~> (~flags.requested \/ worker = "ended")
  /\ (main = "stopping") ~> (main \in {"gone", "running"})
=============================================================================
