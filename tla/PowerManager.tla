---------------------------- MODULE PowerManager ----------------------------
(***************************************************************************)
(* The battery devices                                                     *)
(* (src/src/services/power_manager/power_manager_service.cpp).             *)
(*                                                                         *)
(* The service asks UPower for its devices and then subscribes to the      *)
(* signals about them, which wait in the connection's queue until the main *)
(* loop handles them.  D-Bus clients list the devices and follow the       *)
(* service's own signals.                                                  *)
(***************************************************************************)
EXTENDS Naturals, Sequences, FiniteSets

CONSTANTS
  Batteries,  \* UPower's device paths
  MaxEvents   \* bound on the devices that come and go

VARIABLES
  upower,    \* the devices UPower has
  queue,     \* its signals on the way
  devices,   \* _devices
  state,     \* "new", "discovered", "ready" (_uPower) or "closed"
  told,      \* history: what a client knows that follows the signals
  missed,    \* history: devices whose last change was not seen or not followed
  events     \* devices that came and went so far

vars == <<upower, queue, devices, state, told, missed, events>>

Init ==
  /\ upower \in SUBSET Batteries /\ queue = <<>> /\ devices = {}
  /\ state = "new" /\ told = {} /\ missed = {} /\ events = 0
-----------------------------------------------------------------------------
(* UPower *)

\* A signal is sent if it is subscribed to.
Reports(what, d) ==
  /\ events < MaxEvents /\ events' = events + 1
  /\ queue' = IF state = "ready" THEN Append(queue, <<what, d>>) ELSE queue
  /\ missed' = IF state = "discovered" THEN missed \cup {d} ELSE missed
  /\ UNCHANGED <<devices, state, told>>

Plugged(d) == d \notin upower /\ upower' = upower \cup {d} /\ Reports("added", d)
Unplugged(d) == d \in upower /\ upower' = upower \ {d} /\ Reports("removed", d)
-----------------------------------------------------------------------------
(* InitPowerManager, CleanupPowerManager *)

\* DiscoverDevices: each device is added and announced.
DiscoverDevices ==
  /\ state = "new"
  /\ devices' = upower /\ told' = upower
  /\ state' = "discovered"
  /\ UNCHANGED <<upower, queue, missed, events>>

\* A call of the query or of a device's constructor throws: the exception leaves
\* the service's constructor, and the daemon does not start.
DiscoveryFails ==
  /\ state = "new"
  /\ told' \in SUBSET upower /\ devices' = {}
  /\ state' = "closed"
  /\ UNCHANGED <<upower, queue, missed, events>>

SubscribeToPowerManagerSignals ==
  /\ state = "discovered"
  /\ state' = "ready"
  /\ UNCHANGED <<upower, queue, devices, told, missed, events>>

\* All devices are announced as removed.
CleanupPowerManager ==
  /\ state = "ready"
  /\ state' = "closed" /\ queue' = <<>>
  /\ told' = told \ devices /\ devices' = {}
  /\ UNCHANGED <<upower, missed, events>>
-----------------------------------------------------------------------------
(* Signals *)

\* A device that is listed is left alone. A new one subscribes to its properties
\* first: one of these calls may throw, and DispatchSignal drops the exception.
AddDevice ==
  /\ state = "ready" /\ queue # <<>> /\ Head(queue)[1] = "added"
  /\ LET d == Head(queue)[2]
     IN \/ /\ devices' = devices \cup {d} /\ told' = told \cup {d}
           /\ missed' = missed \ {d}
        \/ /\ d \notin devices
           /\ missed' = missed \cup {d}
           /\ UNCHANGED <<devices, told>>
  /\ queue' = Tail(queue)
  /\ UNCHANGED <<upower, state, events>>

\* Mutant of Removed: the one that is left is dropped as well.
RemovedAll(d) == {}

Removed(d) == devices \ {d}

\* RemoveDevice: nothing is announced.
RemoveDevice ==
  /\ state = "ready" /\ queue # <<>> /\ Head(queue)[1] = "removed"
  /\ devices' = Removed(Head(queue)[2])
  /\ missed' = missed \ {Head(queue)[2]}
  /\ queue' = Tail(queue)
  /\ UNCHANGED <<upower, state, told, events>>

Next ==
  \/ \E d \in Batteries : Plugged(d) \/ Unplugged(d)
  \/ DiscoverDevices \/ DiscoveryFails
  \/ SubscribeToPowerManagerSignals \/ CleanupPowerManager
  \/ AddDevice \/ RemoveDevice

Spec == Init /\ [][Next]_vars
-----------------------------------------------------------------------------
(* Properties *)

\* Every variable has its type.
TypeOK ==
  /\ upower \subseteq Batteries /\ devices \subseteq Batteries /\ told \subseteq Batteries
  /\ state \in {"new", "discovered", "ready", "closed"}

\* Once the signals are handled the service lists UPower's devices, but for
\* those that came or went between its query and its subscription, or whose
\* object could not be made, until they come or go again; and a client that
\* follows its signals knows every device it lists.
BatteriesMirrored ==
  /\ state = "ready" /\ queue = <<>> =>
       \A d \in Batteries \ missed : d \in devices <=> d \in upower
  /\ devices \subseteq told
=============================================================================
