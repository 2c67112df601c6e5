--------------------------- MODULE NetworkManager ---------------------------
(***************************************************************************)
(* The network manager service                                             *)
(* (src/src/services/network_manager/network_manager_service.cpp).         *)
(*                                                                         *)
(* It mirrors NetworkManager's devices and active connections as D-Bus     *)
(* objects and answers a Wi-Fi connection request later, with a signal.    *)
(* Three streams of events reach its one thread in no fixed order: libnm's *)
(* notifications, the answers of asynchronous calls, and NameOwnerChanged  *)
(* messages that say NetworkManager went away or came back.                *)
(*                                                                         *)
(* libnm keeps a cache of what NetworkManager showed it; a notification is *)
(* emitted right after the cache changed, so both are one step here.  Each *)
(* activation of a profile on a device is a new ActiveConnection object.   *)
(* The service's methods are operators from its state to its state.        *)
(***************************************************************************)
EXTENDS Integers, Sequences, FiniteSets

CONSTANTS
  Devices,         \* Wi-Fi interfaces
  Profiles,        \* connection profiles, by UUID
  NoProfile,       \* the empty object path
  MaxRequests,     \* bound on the Connect requests
  MaxActivations,  \* bound on the activations
  MaxEvents        \* bound on restarts of NetworkManager and hot-plug events

ASSUME NetworkAssumption ==
  /\ Devices # {} /\ NoProfile \notin Profiles
  /\ MaxRequests \in Nat /\ MaxActivations \in Nat /\ MaxEvents \in Nat

VARIABLES
  nm,        \* NetworkManager: does it run, what hardware is there, events so far
  news,      \* NameOwnerChanged messages not yet handled
  cache,     \* the devices libnm shows
  outdated,  \* does the cache show a NetworkManager that has gone?
  acts,      \* the ActiveConnection objects
  current,   \* the activation libnm shows as active on each device, or 0
  requests,  \* the Connect requests made
  outlived,  \* history: profiles whose object outlived its activation
  service    \* the tables of NetworkManagerService and what it has signalled

libnm == <<cache, outdated, acts, current>>
vars == <<nm, news, cache, outdated, acts, current, requests, outlived, service>>

Activations == 1 .. MaxActivations

Activation == [profile : Profiles \cup {NoProfile}, device : Devices,
               state : {"unused", "activating", "activated", "deactivated"},
               succeeded : BOOLEAN]

\* A request's asynchronous call, the activation NetworkManager gave it, and
\* whether its device was there as long as the call was in flight.
Request == [device : Devices, call : {"calling", "returned"},
            act : Activations \cup {0}, stayed : BOOLEAN]
-----------------------------------------------------------------------------
(* The service's methods *)

Without(f, x) == [y \in DOMAIN f \ {x} |-> f[y]]
With(f, x, v) == [y \in DOMAIN f \cup {x} |-> IF y = x THEN v ELSE f[y]]

Appended(answers, R, known, ok) ==
  [r \in DOMAIN answers |->
     IF r \in R /\ requests[r].device \in known THEN Append(answers[r], ok)
     ELSE answers[r]]

\* One ConnectResult for each request of R, dropped if its device is not listed.
EmitWifiConnectResult(w, R, ok) ==
  [w EXCEPT !.answers = Appended(@, R, DOMAIN w.devices, ok)]

\* Mutant of Resolve: the pending entry is not erased.
ResolveKeepsEntry(w, a, state) ==
  IF a \notin DOMAIN w.pending \/ state = "activating" THEN w
  ELSE EmitWifiConnectResult(w, {w.pending[a]}, state = "activated")

\* ResolvePendingWifiConnectRequest
Resolve(w, a, state) ==
  IF a \notin DOMAIN w.pending \/ state = "activating" THEN w
  ELSE [EmitWifiConnectResult(w, {w.pending[a]}, state = "activated")
          EXCEPT !.pending = Without(@, a)]

\* TrackPendingWifiConnectRequest
Track(w, a, r, state) ==
  Resolve([w EXCEPT !.pending = With(@, a, r), !.subscribed = @ \cup {a}], a, state)

Requested(w, D) == {a \in DOMAIN w.pending : requests[w.pending[a]].device \in D}

\* Mutant of FailPending: the entries go without an answer.
FailPendingSilently(w, D) ==
  [w EXCEPT !.pending = [a \in DOMAIN w.pending \ Requested(w, D) |-> w.pending[a]]]

\* FailPendingWifiConnectRequestsForDevice, FailAllPendingWifiConnectRequests
FailPending(w, D) ==
  LET failing == Requested(w, D)
  IN [EmitWifiConnectResult(w, {w.pending[a] : a \in failing}, FALSE)
        EXCEPT !.pending = [a \in DOMAIN w.pending \ failing |-> w.pending[a]]]

\* AddDevice.  What is active on the device already is not looked at.
AddDevice(w, d) ==
  IF d \in DOMAIN w.devices THEN w
  ELSE [w EXCEPT !.devices = With(@, d, NoProfile), !.announced[d] = @ + 1]

\* Mutant of RemoveDevice: its connection object stays.
RemoveDeviceOnly(w, d) ==
  IF d \notin DOMAIN w.devices THEN w
  ELSE [FailPending([w EXCEPT !.announced[d] = @ - 1], {d})
          EXCEPT !.devices = Without(@, d)]

\* RemoveDevice: DeviceRemoved is sent, then the requests are answered.
RemoveDevice(w, d) ==
  IF d \notin DOMAIN w.devices THEN w
  ELSE [FailPending([w EXCEPT !.announced[d] = @ - 1], {d})
          EXCEPT !.connections = @ \ {w.devices[d]}, !.devices = Without(@, d)]

\* EnsureConnectionObject: an object of that profile, whoever it was made for,
\* is kept, and the new activation's signals are not subscribed to.
EnsureConnectionObject(w, a, p) ==
  IF p \in w.connections THEN w
  ELSE [w EXCEPT !.connections = @ \cup {p}, !.subscribed = @ \cup {a}]

\* OnDeviceActiveConnectionChanged.  A connection that is replaced directly by
\* another one keeps its object.
ActiveConnectionChanged(w, d, a) ==
  IF d \notin DOMAIN w.devices THEN w
  ELSE IF a = 0
       THEN [w EXCEPT !.connections = @ \ {w.devices[d]}, !.devices[d] = NoProfile]
       ELSE [EnsureConnectionObject(w, a, acts'[a].profile)
               EXCEPT !.devices[d] = acts'[a].profile]

\* OnActiveConnectionStateChanged, if the service is connected to the signal.
StateChanged(w, a) ==
  IF a \in w.subscribed THEN Resolve(w, a, acts'[a].state) ELSE w

Listed(w) == DOMAIN w.devices

\* Mutant of Disappeared: the devices stay in the table.
DisappearedKeepsDevices(w) ==
  IF ~w.client THEN w
  ELSE [FailPending(w, Devices)
          EXCEPT !.client = FALSE, !.connections = {}, !.subscribed = {},
                 !.announced = [d \in Devices |->
                                  IF d \in Listed(w) THEN @[d] - 1 ELSE @[d]]]

\* OnNetworkManagerDisappeared: all requests are answered, the devices are
\* announced as removed, the tables cleared and the client with its objects freed.
Disappeared(w) ==
  IF ~w.client THEN w
  ELSE [FailPending(w, Devices)
          EXCEPT !.client = FALSE, !.connections = {}, !.subscribed = {},
                 !.devices = [d \in {} |-> NoProfile],
                 !.announced = [d \in Devices |->
                                  IF d \in Listed(w) THEN @[d] - 1 ELSE @[d]]]

\* TryInitNetworkManager, when the client shows the devices D.
Discover(w, D) ==
  [w EXCEPT !.client = TRUE,
            !.devices = [d \in Listed(w) \cup D |->
                           IF d \in Listed(w) THEN w.devices[d] ELSE NoProfile],
            !.announced = [d \in Devices |->
                             IF d \in D \ Listed(w) THEN @[d] + 1 ELSE @[d]]]
-----------------------------------------------------------------------------
NoService ==
  [client |-> FALSE, devices |-> [d \in {} |-> NoProfile], connections |-> {},
   subscribed |-> {}, pending |-> [a \in {} |-> 0],
   answers |-> [r \in 1 .. MaxRequests |-> <<>>],
   announced |-> [d \in Devices |-> 0]]

Unused == [profile |-> NoProfile, device |-> CHOOSE d \in Devices : TRUE,
           state |-> "unused", succeeded |-> FALSE]

\* The constructor.  Without NetworkManager a client may be there or not.
Init ==
  /\ \E up, ok \in BOOLEAN, hardware \in SUBSET Devices :
       /\ nm = [up |-> up, devices |-> hardware, events |-> 0]
       /\ cache = IF up THEN hardware ELSE {}
       /\ service = IF up \/ ok THEN Discover(NoService, cache) ELSE NoService
  /\ news = <<>> /\ outdated = FALSE
  /\ acts = [a \in Activations |-> Unused]
  /\ current = [d \in Devices |-> 0]
  /\ requests = <<>> /\ outlived = {}
-----------------------------------------------------------------------------
(* Methods called by clients, and answers of asynchronous calls            *)

\* WifiConnect: the call is started and the request's id is the reply.
WifiConnect(d) ==
  /\ service.client /\ d \in DOMAIN service.devices /\ d \in cache
  /\ Len(requests) < MaxRequests
  /\ requests' = Append(requests, [device |-> d, call |-> "calling", act |-> 0,
                                   stayed |-> TRUE])
  /\ UNCHANGED <<nm, news, libnm, outlived, service>>

\* Requests whose device went while their call was in flight.
Left == {r \in DOMAIN requests : ~requests[r].stayed}

Calling(r) == r \in DOMAIN requests /\ requests[r].call = "calling"

\* The call failed: activate_connection_finish returned an error.
CallFails(r) ==
  /\ Calling(r) /\ requests[r].act = 0
  /\ requests' = [requests EXCEPT ![r].call = "returned"]
  /\ service' = EmitWifiConnectResult(service, {r}, FALSE)
  /\ UNCHANGED <<nm, news, libnm, outlived>>

\* The call returned an ActiveConnection, in whatever state it is by now.
CallReturns(r) ==
  /\ Calling(r) /\ requests[r].act # 0
  /\ requests' = [requests EXCEPT ![r].call = "returned"]
  /\ service' = Track(service, requests[r].act, r, acts[requests[r].act].state)
  /\ UNCHANGED <<nm, news, libnm, outlived>>
-----------------------------------------------------------------------------
(* What libnm notifies *)

\* libnm shows device d of the NetworkManager that runs.
Shown(d) == service.client /\ nm.up /\ ~outdated /\ d \in cache

\* Devices leave the table: the answer to a call in flight may find none to tell.
Leaves(D) ==
  [r \in DOMAIN requests |->
     [requests[r] EXCEPT !.stayed = @ /\ ~(Calling(r) /\ requests[r].device \in D)]]

Fresh == {a \in Activations : acts[a].state = "unused"}

\* NetworkManager starts activation a of p on d, in place of what was active
\* there; a profile is active on one device at most.
Starts(a, p, d) ==
  /\ Shown(d) /\ d \in nm.devices
  /\ a \in Fresh /\ \A b \in Fresh : a <= b
  /\ \A e \in Devices \ {d} : current[e] # 0 => acts[current[e]].profile # p
  /\ LET old == current[d]
         ended == IF old = 0 THEN acts ELSE [acts EXCEPT ![old].state = "deactivated"]
     IN /\ acts' = [ended EXCEPT ![a] = [profile |-> p, device |-> d,
                                         state |-> "activating", succeeded |-> FALSE]]
        /\ current' = [current EXCEPT ![d] = a]
        /\ service' = ActiveConnectionChanged(
                        IF old = 0 THEN service ELSE StateChanged(service, old), d, a)
        /\ outlived' = IF old # 0 /\ acts[old].profile \in service.connections
                       THEN outlived \cup {acts[old].profile} ELSE outlived
  /\ UNCHANGED <<nm, news, cache, outdated>>

\* NetworkManager activates a profile by itself.
Autoconnects(a, p, d) == Starts(a, p, d) /\ UNCHANGED requests

\* NetworkManager accepts request r; libnm shows it before the call returns.
Accepts(r, a, p) ==
  /\ Calling(r) /\ requests[r].act = 0
  /\ Starts(a, p, requests[r].device)
  /\ requests' = [requests EXCEPT ![r].act = a]

Activated(a) ==
  /\ acts[a].state = "activating" /\ Shown(acts[a].device)
  /\ current[acts[a].device] = a
  /\ acts' = [acts EXCEPT ![a].state = "activated", ![a].succeeded = TRUE]
  /\ service' = StateChanged(service, a)
  /\ UNCHANGED <<nm, news, cache, outdated, current, requests, outlived>>

\* An activation fails or ends; its device may have left the cache already.
Deactivated(a) ==
  /\ acts[a].state \in {"activating", "activated"} /\ service.client
  /\ acts' = [acts EXCEPT ![a].state = "deactivated"]
  /\ LET d == acts[a].device
         told == StateChanged(service, a)
         ends == d \in cache /\ current[d] = a
     IN /\ current' = IF ends THEN [current EXCEPT ![d] = 0] ELSE current
        /\ service' = IF ends THEN ActiveConnectionChanged(told, d, 0) ELSE told
        /\ outlived' = outlived \cap service'.connections
  /\ UNCHANGED <<nm, news, cache, outdated, requests>>

\* device-removed: unplugged, or NetworkManager is not the one libnm showed.
DeviceRemoved(d) ==
  /\ service.client /\ d \in cache
  /\ d \notin nm.devices \/ ~nm.up \/ outdated
  /\ cache' = cache \ {d}
  /\ current' = [current EXCEPT ![d] = 0]
  /\ service' = RemoveDevice(service, d)
  /\ requests' = Leaves({d})
  /\ outlived' = outlived \cap service'.connections
  /\ UNCHANGED <<nm, news, outdated, acts>>

\* device-added
DeviceAdded(d) ==
  /\ service.client /\ nm.up /\ d \in nm.devices \ cache
  /\ ~outdated \/ cache = {}
  /\ cache' = cache \cup {d}
  /\ outdated' = FALSE
  /\ service' = AddDevice(service, d)
  /\ UNCHANGED <<nm, news, acts, current, requests, outlived>>
-----------------------------------------------------------------------------
(* NameOwnerChanged *)

\* What is left of libnm's objects when its client is freed.
Dropped ==
  [a \in Activations |->
     IF acts[a].state = "unused" THEN acts[a]
     ELSE [acts[a] EXCEPT !.state = "deactivated"]]

NetworkManagerGone ==
  /\ news # <<>> /\ Head(news) = "gone"
  /\ news' = Tail(news)
  /\ service' = Disappeared(service)
  /\ requests' = IF service.client THEN Leaves(Devices) ELSE requests
  /\ IF service.client
     THEN /\ cache' = {} /\ outdated' = FALSE /\ acts' = Dropped /\ outlived' = {}
          /\ current' = [d \in Devices |-> 0]
     ELSE UNCHANGED <<libnm, outlived>>
  /\ UNCHANGED nm

\* OnNetworkManagerAppeared.  A device can have an active connection already.
NetworkManagerAppeared ==
  /\ news # <<>> /\ Head(news) = "appeared"
  /\ news' = Tail(news)
  /\ IF service.client
     THEN UNCHANGED <<libnm, service>>
     ELSE \E ok \in BOOLEAN :
            /\ nm.up => ok
            /\ cache' = IF nm.up THEN nm.devices ELSE {}
            /\ service' = IF ok THEN Discover(service, cache') ELSE service
            /\ outdated' = FALSE
            /\ \/ UNCHANGED <<acts, current>>
               \/ \E a \in Fresh, p \in Profiles, d \in cache' :
                    /\ \A b \in Fresh : a <= b
                    /\ current' = [current EXCEPT ![d] = a]
                    /\ acts' = [acts EXCEPT ![a] = [profile |-> p, device |-> d,
                                 state |-> "activated", succeeded |-> TRUE]]
  /\ UNCHANGED <<nm, requests, outlived>>
-----------------------------------------------------------------------------
(* NetworkManager and the hardware *)

Happens(e) == nm.events < MaxEvents /\ nm' = [e EXCEPT !.events = @ + 1]

Stops ==
  /\ nm.up /\ Happens([nm EXCEPT !.up = FALSE])
  /\ outdated' = TRUE
  /\ news' = Append(news, "gone")
  /\ UNCHANGED <<cache, acts, current, requests, outlived, service>>

Restarts ==
  /\ ~nm.up /\ Happens([nm EXCEPT !.up = TRUE])
  /\ news' = Append(news, "appeared")
  /\ UNCHANGED <<libnm, requests, outlived, service>>

Plugs(d) ==
  /\ Happens([nm EXCEPT !.devices = IF d \in @ THEN @ \ {d} ELSE @ \cup {d}])
  /\ UNCHANGED <<news, libnm, requests, outlived, service>>

Next ==
  \/ \E d \in Devices : WifiConnect(d) \/ DeviceRemoved(d) \/ DeviceAdded(d) \/ Plugs(d)
  \/ \E r \in 1 .. MaxRequests : CallFails(r) \/ CallReturns(r)
  \/ \E a \in Activations, p \in Profiles :
       \/ \E d \in Devices : Autoconnects(a, p, d)
       \/ \E r \in 1 .. MaxRequests : Accepts(r, a, p)
  \/ \E a \in Activations : Activated(a) \/ Deactivated(a)
  \/ NetworkManagerGone \/ NetworkManagerAppeared
  \/ Stops \/ Restarts

Spec == Init /\ [][Next]_vars

Returns(r) ==
  \/ CallFails(r) \/ CallReturns(r)
  \/ \E a \in Activations, p \in Profiles : Accepts(r, a, p)

\* The main loop runs, libnm's cache follows NetworkManager, asynchronous calls
\* return and an activation does not go on for ever: it succeeds, times out, or
\* ends with its device.
FairSpec ==
  /\ Spec
  /\ WF_vars(NetworkManagerGone) /\ WF_vars(NetworkManagerAppeared)
  /\ \A d \in Devices : WF_vars(DeviceRemoved(d)) /\ WF_vars(DeviceAdded(d))
  /\ \A r \in 1 .. MaxRequests : WF_vars(Returns(r))
  /\ \A a \in Activations :
       WF_vars(acts[a].state = "activating" /\ (Activated(a) \/ Deactivated(a)))
-----------------------------------------------------------------------------
(* Properties *)

\* Every variable has its type; what is pending is a request whose call returned.
TypeOK ==
  /\ nm \in [up : BOOLEAN, devices : SUBSET Devices, events : 0 .. MaxEvents]
  /\ news \in Seq({"gone", "appeared"})
  /\ cache \subseteq Devices /\ outdated \in BOOLEAN
  /\ acts \in [Activations -> Activation]
  /\ current \in [Devices -> Activations \cup {0}]
  /\ requests \in Seq(Request)
  /\ outlived \subseteq Profiles
  /\ service.client \in BOOLEAN
  /\ service.devices \in [DOMAIN service.devices -> Profiles \cup {NoProfile}]
  /\ DOMAIN service.devices \subseteq Devices
  /\ service.connections \subseteq Profiles
  /\ service.subscribed \subseteq Activations
  /\ DOMAIN service.pending \subseteq Activations
  /\ \A a \in DOMAIN service.pending :
       /\ service.pending[a] \in DOMAIN requests
       /\ requests[service.pending[a]].call = "returned"

\* A request gets one ConnectResult at most, and one that reports success is
\* about an activation of its own that succeeded, whatever order the call's
\* answer, state changes, device removals and restarts come in.
OneTruthfulAnswer ==
  \A r \in 1 .. MaxRequests :
    /\ Len(service.answers[r]) <= 1
    /\ service.answers[r] = <<TRUE>> =>
         requests[r].act # 0 /\ acts[requests[r].act].succeeded

\* DeviceAdded and DeviceRemoved alternate for each device and add up to what
\* ListDevices returns, across hot-plugging and restarts that are reported
\* twice, by libnm and by the bus.
SignalsMatchDevices ==
  \A d \in Devices :
    service.announced[d] = IF d \in DOMAIN service.devices THEN 1 ELSE 0

\* The connections that the service shows are those of its devices and those that
\* were replaced directly by another: ActiveConnection names an existing object,
\* no other object is left over, and the service follows the activation behind it.
ConnectionsMirrored ==
  /\ service.connections \subseteq
       {service.devices[d] : d \in DOMAIN service.devices} \cup outlived
  /\ \A d \in DOMAIN service.devices :
       /\ service.devices[d] \in service.connections \cup {NoProfile}
       /\ service.devices[d] \notin outlived \cup {NoProfile} =>
            current[d] \in service.subscribed

\* Every request is answered, also if the activation ended before the call
\* returned, its device is removed or NetworkManager goes and comes back.  Only a
\* call that was in flight when the device left the table may go unanswered, as
\* its result is dropped if the device is not listed.
RequestAnswered ==
  \A r \in 1 .. MaxRequests :
    (r \in DOMAIN requests)
      ~> (service.answers[r] # <<>> \/ r \in Left)
=============================================================================
