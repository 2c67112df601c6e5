---------------------------- MODULE AccessPoints ----------------------------
(***************************************************************************)
(* The access points of a Wi-Fi device and the signal strength of its      *)
(* connection                                                              *)
(* (src/src/services/network_manager/network_manager_service.cpp).         *)
(*                                                                         *)
(* libnm changes its cache in batches and then emits the notifications of  *)
(* a batch, in an order that the service cannot count on; method calls     *)
(* come between batches.  The service shows the cache's access points as   *)
(* objects, and follows the strength of some of them.  The device itself   *)
(* is there all the time, and has one connection after the other: when one *)
(* replaces another directly, the object of the other is left over, and a  *)
(* notification of strength goes to any of them.  Devices that come, go    *)
(* and take each other's connections are in NetworkManager.                *)
(***************************************************************************)
EXTENDS Naturals

CONSTANTS
  Points,     \* access points; the name of one that is gone is not used again
  NoPoint,    \* no access point
  Strengths,  \* signal strengths
  Profiles,   \* connection profiles, by UUID
  NoProfile,  \* the empty object path
  MaxBatches  \* bound on the batches

VARIABLES
  nm,          \* libnm's cache: the access points, the active one, the profile connected
  strength,    \* what the cache says of their strength
  news,        \* the notifications of the batch not emitted yet
  seen,        \* the access points that have been there
  shown,       \* _accessPoints: whether each is connected
  announced,   \* AccessPointAdded signals of each, less AccessPointRemoved
  connections, \* the SignalStrength of each object in _connections made for the device
  activePath,  \* the device's ActiveConnection
  followed,    \* the access points whose notify::strength is connected
  steady,      \* history: has the active one been the same since its object was made?
  batches      \* the number of batches

service == <<shown, announced, connections, activePath, followed>>
vars == <<nm, strength, news, seen, service, steady, batches>>

ActiveStrength == IF nm.active = NoPoint THEN 0 ELSE strength[nm.active]

\* SyncWifiAccessPoints, with what the cache has now.
SyncWifiAccessPoints ==
  /\ shown' = [p \in nm.points |-> p = nm.active]
  /\ announced' = [p \in Points |->
       announced[p] + (IF p \in nm.points \ DOMAIN shown THEN 1 ELSE 0)
                    - (IF p \in DOMAIN shown \ nm.points THEN 1 ELSE 0)]

\* AddDevice is the first to call it.
Init ==
  /\ nm \in [points : SUBSET Points, active : Points \cup {NoPoint}, profile : {NoProfile}]
  /\ nm.active \in nm.points \cup {NoPoint}
  /\ strength \in [Points -> Strengths]
  /\ news = {} /\ seen = nm.points /\ followed = {}
  /\ connections = [c \in {} |-> 0] /\ activePath = NoProfile
  /\ shown = [p \in nm.points |-> p = nm.active]
  /\ announced = [p \in Points |-> IF p \in nm.points THEN 1 ELSE 0]
  /\ steady = FALSE /\ batches = 0
-----------------------------------------------------------------------------
(* libnm *)

\* An activation is a new ActiveConnection, of the profile that was connected
\* before too.
Changed(new, levels, activated) ==
  (IF new.points # nm.points THEN {"points"} ELSE {})
    \cup (IF new.active # nm.active THEN {"active"} ELSE {})
    \cup (IF new.profile # nm.profile \/ activated THEN {"connection"} ELSE {})
    \cup {p \in new.points \cap nm.points : levels[p] # strength[p]}

Batch(new, levels, activated) ==
  /\ news = {} /\ batches < MaxBatches /\ batches' = batches + 1
  /\ new.active \in new.points \cup {NoPoint}
  /\ (new.points \ nm.points) \cap seen = {}
  /\ nm' = new /\ strength' = levels /\ news' = Changed(new, levels, activated)
  /\ seen' = seen \cup new.points /\ followed' = followed \cap new.points
  /\ steady' = (steady /\ new.active = nm.active)
  /\ UNCHANGED <<shown, announced, connections, activePath>>

CacheChanges ==
  \E points \in SUBSET Points, active \in Points \cup {NoPoint}, profile \in Profiles \cup {NoProfile},
     levels \in [Points -> Strengths], activated \in BOOLEAN :
    /\ activated => profile # NoProfile
    /\ Batch([points |-> points, active |-> active, profile |-> profile], levels, activated)

Emitted(note) == note \in news /\ news' = news \ {note}
-----------------------------------------------------------------------------
(* The service *)

AccessPointsChanged ==
  /\ Emitted("points") /\ SyncWifiAccessPoints
  /\ UNCHANGED <<nm, strength, seen, connections, activePath, followed, steady, batches>>

ActiveIgnored ==
  /\ Emitted("active")
  /\ UNCHANGED <<nm, strength, seen, service, steady, batches>>

ActiveAccessPointChanged ==
  /\ Emitted("active") /\ SyncWifiAccessPoints
  /\ UNCHANGED <<nm, strength, seen, connections, activePath, followed, steady, batches>>

\* OnDeviceActiveConnectionChanged.  EnsureConnectionObject keeps an object of
\* the profile as it is; a new one reads the strength and subscribes to the
\* access point that is active now, if any.
ConnectionAppears ==
  /\ nm.profile # NoProfile /\ Emitted("connection")
  /\ activePath' = nm.profile
  /\ IF nm.profile \in DOMAIN connections
     THEN /\ steady' = (steady /\ activePath = nm.profile)
          /\ UNCHANGED <<connections, followed>>
     ELSE /\ connections' = [c \in DOMAIN connections \cup {nm.profile} |->
                              IF c = nm.profile THEN ActiveStrength ELSE connections[c]]
          /\ followed' = followed \cup ({nm.active} \ {NoPoint})
          /\ steady' = TRUE
  /\ UNCHANGED <<nm, strength, seen, shown, announced, batches>>

\* Only the device's own connection goes; what it replaced before is left over.
ConnectionDisappears ==
  /\ nm.profile = NoProfile /\ Emitted("connection")
  /\ connections' = [c \in DOMAIN connections \ {activePath} |-> connections[c]]
  /\ activePath' = NoProfile /\ steady' = FALSE
  /\ UNCHANGED <<nm, strength, seen, shown, announced, followed, batches>>

\* OnAccessPointStrengthChanged: FindConnectionByAccessPoint takes the first
\* connection, in the order of a hash table, whose device has that access point
\* as its active one, and that gets the strength of the active one.
StrengthChanged(p) ==
  /\ Emitted(p)
  /\ IF p \in followed /\ nm.active = p /\ DOMAIN connections # {}
     THEN \E c \in DOMAIN connections : connections' = [connections EXCEPT ![c] = ActiveStrength]
     ELSE UNCHANGED connections
  /\ UNCHANGED <<nm, strength, seen, shown, announced, activePath, followed, steady, batches>>

\* The scan is only asked for.
WifiScan ==
  /\ news = {} /\ SyncWifiAccessPoints
  /\ UNCHANGED <<nm, strength, news, seen, connections, activePath, followed, steady, batches>>

\* NetworkManager is asked to disconnect the device, and then the cache changes.
WifiDisconnect ==
  /\ nm.profile # NoProfile
  /\ Batch([nm EXCEPT !.profile = NoProfile, !.active = NoPoint], strength, FALSE)

Next ==
  \/ CacheChanges \/ AccessPointsChanged \/ ActiveAccessPointChanged
  \/ ConnectionAppears \/ ConnectionDisappears \/ (\E p \in Points : StrengthChanged(p))
  \/ WifiScan \/ WifiDisconnect

Spec == Init /\ [][Next]_vars
-----------------------------------------------------------------------------
(* Properties *)

TypeOK ==
  /\ nm.points \subseteq seen /\ seen \subseteq Points
  /\ nm.active \in nm.points \cup {NoPoint} /\ nm.profile \in Profiles \cup {NoProfile}
  /\ strength \in [Points -> Strengths]
  /\ news \subseteq {"points", "active", "connection"} \cup nm.points
  /\ shown \in [DOMAIN shown -> BOOLEAN] /\ DOMAIN shown \subseteq Points
  /\ announced \in [Points -> 0 .. 1] /\ followed \subseteq nm.points
  /\ DOMAIN connections \subseteq Profiles /\ activePath \in DOMAIN connections \cup {NoProfile}
  /\ connections \in [DOMAIN connections -> Strengths \cup {0}]

\* Whatever the order of a batch's notifications, once they are emitted the
\* objects are the cache's access points, the connected one is the active one,
\* and the signals sent add up to the objects there are.
PointsMirrored ==
  /\ {"points", "active"} \cap news = {} =>
       shown = [p \in nm.points |-> p = nm.active]
  /\ \A p \in Points : announced[p] = IF p \in DOMAIN shown THEN 1 ELSE 0

\* A device's connection shows the strength of its access point for as long as
\* the one it was made with stays active, however scans, notifications and other
\* activations of its profile come in between, if it replaced no other
\* connection directly.  If it did, the strength is shown by it or by one of
\* those that it replaced.
StrengthFollowed ==
  news = {} /\ steady =>
    /\ activePath \in DOMAIN connections
    /\ \E c \in DOMAIN connections : connections[c] = ActiveStrength
=============================================================================
