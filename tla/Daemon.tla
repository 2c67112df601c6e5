------------------------------- MODULE Daemon -------------------------------
(***************************************************************************)
(* The daemon's main loop, and what it runs: the PulseAudio, account,      *)
(* power and locale services, the Wi-Fi access points and the Ethernet     *)
(* switch of the network manager, the partitioning plans of the installer, *)
(* and the D-Bus layer that they all use.  The session manager, the other  *)
(* part of the network manager and the installation have their own runs.   *)
(*                                                                         *)
(* The services run as callbacks of the loop and share no state, so that   *)
(* an interleaving of two of them is, to each, its own behaviour with      *)
(* pauses, and the loop's model says when a callback runs and nothing of   *)
(* what it does: a behaviour moves one part, and the others stay in an     *)
(* initial state.                                                          *)
(***************************************************************************)
EXTENDS MainLoop, Sequences

CONSTANTS
  Sinks, Microphones, Streams, Names, PortSets, MaxChanges, MaxRequests, \* AudioService
  Keys, Subs, MaxSignals, MaxFailures,                                \* SignalDispatch
  Objects, Props, ReadOnly, Values, MaxDepth, MaxCalls,               \* ObjectDispatch
  Disks, Sizes, MaxOps, MinBoot, NewBoot, MinRoot,                    \* DiskPlan
  NewUsers, Groups, Others, MaxFaults, MaxAdded,                      \* AccountManager
  Batteries, MaxEvents,                                               \* PowerManager
  Locales, MaxLocaleChanges,                                          \* LocaleService
  Points, NoPoint, Strengths, Profiles, NoProfile, MaxBatches,        \* AccessPoints
  MaxProfiles                                                         \* EthernetDevice

VARIABLES
  part,                                                     \* the part that moves
  pulse, client, asked, chosen, requests,                   \* AudioService
  handlers, cell, sub, rules, queue, dispatch,              \* SignalDispatch
  emitted, failures, heard, due,
  registry, value, announced, stack, caller, calls, replies, \* ObjectDispatch
  disk, extended, listed, mode, plan, parts, step, table, done, keys, targets, made, \* DiskPlan
  users, groups, at, user, group, faults, misled, added, raced, \* AccountManager
  upower, upowerQueue, devices, state, told, missed, events, \* PowerManager
  current, localeQueue, cached, localeTold, changes,        \* LocaleService
  nm, strength, news, seen, shown, pointsTold, connections, \* AccessPoints
  activePath, followed, steady, batches,
  offered, active                                           \* EthernetDevice

Audio == INSTANCE AudioService WITH Sources <- Microphones
Signal == INSTANCE SignalDispatch
Object == INSTANCE ObjectDispatch
Disk == INSTANCE DiskPlan WITH phase <- step
Account == INSTANCE AccountManager WITH Users <- NewUsers
Power == INSTANCE PowerManager WITH queue <- upowerQueue
Locale == INSTANCE LocaleService
  WITH queue <- localeQueue, told <- localeTold, MaxChanges <- MaxLocaleChanges
Access == INSTANCE AccessPoints WITH announced <- pointsTold
Ethernet == INSTANCE EthernetDevice

audioVars == <<pulse, client, asked, chosen, requests>>
signalVars == <<handlers, cell, sub, rules, queue, dispatch, emitted, failures, heard, due>>
objectVars == <<registry, value, announced, stack, caller, calls, replies>>
diskVars == <<disk, extended, listed, mode, plan, parts, step, table, done, keys, targets, made>>
accountVars == <<users, groups, at, user, group, faults, misled, added, raced>>
powerVars == <<upower, upowerQueue, devices, state, told, missed, events>>
localeVars == <<current, localeQueue, cached, localeTold, changes>>
accessVars ==
  <<nm, strength, news, seen, shown, pointsTold, connections, activePath, followed, steady, batches>>
ethernetVars == <<offered, active>>
others == <<audioVars, signalVars, objectVars, diskVars, accountVars, powerVars, localeVars,
            accessVars, ethernetVars>>
allVars == <<vars, others, part>>

\* Access points and profiles have names of their own; a property holds something, the groups of
\* users are numbered from one and bounds are numbers; what PulseAudio has, and what
\* the installer finds on the disks.
NamesDiffer ==
  /\ NoPoint \notin Points /\ {"points", "active", "connection"} \cap Points = {}
  /\ NoProfile \notin Profiles
BoundsAre == Values # {} /\ MaxCalls \in Nat /\ 1 \in Groups
ASSUME DaemonAssumption ==
  /\ NamesDiffer /\ BoundsAre /\ Signal!Slot \notin Subs
  /\ Audio!ParametersAre /\ Disk!DisksAre /\ Disk!ParametersAre

\* A part that does not move has one initial state.
InitAll ==
  /\ part \in {"loop", "audio", "signals", "objects", "disk", "accounts", "power", "locale",
               "access", "ethernet"}
  /\ Init /\ Signal!Init /\ Object!Init /\ Account!Init
  /\ Audio!Init
  /\ part # "audio" =>
       /\ pulse.usedStreams = {}
       /\ \A d \in pulse.used : pulse.devices[d] = CHOOSE info \in Audio!FirstInfos : TRUE
  /\ Disk!Init /\ (part # "disk" => mode = "erase" /\ Len(disk) = 1)
  /\ Power!Init /\ (part # "power" => upower = {})
  /\ Locale!Init /\ (part # "locale" => current = Locale!NoLang)
  /\ Access!Init
  /\ part # "access" => nm.points = {} /\ strength = [p \in Points |-> CHOOSE level \in Strengths : TRUE]
  /\ Ethernet!Init /\ (part # "ethernet" => offered = <<>>)
-----------------------------------------------------------------------------
InLoop(A) == part = "loop" /\ A /\ UNCHANGED <<part, others>>
MoveAudio ==
  /\ part = "audio" /\ Audio!Next
  /\ UNCHANGED <<part, vars, signalVars, objectVars, diskVars, accountVars,
                 powerVars, localeVars, accessVars, ethernetVars>>
MoveSignal ==
  /\ part = "signals" /\ Signal!Next
  /\ UNCHANGED <<part, vars, audioVars, objectVars, diskVars, accountVars,
                 powerVars, localeVars, accessVars, ethernetVars>>
MoveObject ==
  /\ part = "objects" /\ Object!Next
  /\ UNCHANGED <<part, vars, audioVars, signalVars, diskVars, accountVars,
                 powerVars, localeVars, accessVars, ethernetVars>>
MoveDisk ==
  /\ part = "disk" /\ Disk!Next
  /\ UNCHANGED <<part, vars, audioVars, signalVars, objectVars, accountVars,
                 powerVars, localeVars, accessVars, ethernetVars>>
MoveAccount ==
  /\ part = "accounts" /\ Account!Next
  /\ UNCHANGED <<part, vars, audioVars, signalVars, objectVars, diskVars,
                 powerVars, localeVars, accessVars, ethernetVars>>
MovePower ==
  /\ part = "power" /\ Power!Next
  /\ UNCHANGED <<part, vars, audioVars, signalVars, objectVars, diskVars,
                 accountVars, localeVars, accessVars, ethernetVars>>
MoveLocale ==
  /\ part = "locale" /\ Locale!Next
  /\ UNCHANGED <<part, vars, audioVars, signalVars, objectVars, diskVars,
                 accountVars, powerVars, accessVars, ethernetVars>>
MoveAccess ==
  /\ part = "access" /\ Access!Next
  /\ UNCHANGED <<part, vars, audioVars, signalVars, objectVars, diskVars,
                 accountVars, powerVars, localeVars, ethernetVars>>
MoveEthernet ==
  /\ part = "ethernet" /\ Ethernet!Next
  /\ UNCHANGED <<part, vars, audioVars, signalVars, objectVars, diskVars,
                 accountVars, powerVars, localeVars, accessVars>>

NextAll ==
  \/ InLoop(Next) \/ MoveAudio \/ MoveSignal \/ MoveObject
  \/ MoveDisk \/ MoveAccount \/ MovePower \/ MoveLocale \/ MoveAccess \/ MoveEthernet

SpecAll == InitAll /\ [][NextAll]_allVars
-----------------------------------------------------------------------------
(* The properties of the parts, under names of their own *)

\* The shapes of the tables, queues and states of every part; the loop handles
\* no message that it has not read.
TypesOK ==
  /\ TypeOK /\ Audio!TypeOK /\ Signal!TypeOK /\ Object!TypeOK
  /\ Disk!TypeOK /\ Account!TypeOK /\ Power!TypeOK /\ Locale!TypeOK
  /\ Access!TypeOK /\ Ethernet!TypeOK

\* When everything was handled the objects are exactly PulseAudio's ports and
\* sink inputs, however its events crossed the service's queries, and the paths
\* that properties show are no leftovers: an active device is the active port of
\* the default sink or source, a stream's device the active port of its sink.  A
\* device that a client made active was PulseAudio's default before everything
\* came to rest, unless its port went away: the second of the two requests is
\* made whatever else arrives between them.
AudioMirrored == Audio!ObjectsMirrorPulse /\ Audio!PathsAreCurrent /\ Audio!ActiveDeviceSet

\* A subscription hears every signal emitted while it exists, once and in
\* order, whatever the callbacks before it do, and none after its end, which
\* may come in the middle of a dispatch.  The key's rule was never refused.
SignalsDelivered == Signal!SignalsDelivered

\* When no callback runs, a client that follows PropertiesChanged knows every
\* property of every live object, and each property call was answered once,
\* however the callbacks nested, refused, caught and put values back.
AnnouncedIsValue == Object!AnnouncedIsValue

\* The sizes of the simulated list always add up to those of the list shown, so
\* that the "BUG" which validation checks for cannot happen, and the worker's
\* regions always fill the disk.
SizesAddUp == Disk!SizesAddUp

\* Whatever becomes of the plan, a partition that was on the disk is lost only if
\* the plan erases the disk, or removes or makes a filesystem on just that one.
OnlyNamedLost == Disk!OnlyNamedLost

\* A plan that succeeds gives the partitions that validation found for the boot
\* and root mount points: with that filesystem, and formatted if and only if the
\* plan makes them or sets their filesystem.
ExecutedAsPlanned == Disk!ExecutedAsPlanned

\* No user without a password is left behind by one failed call, whichever it
\* is, if its failure is true and the daemon goes on: a second failure, that of
\* the removal, is needed.
InitialUserComplete == Account!InitialUserComplete

\* What another program adds to /etc/group stays there, in the middle of
\* SetUserGroups too, except in the group being edited after it was read.
MembershipsKept == Account!MembershipsKept

\* Once the signals are handled the service lists UPower's devices, but for
\* those that came or went between its query and its subscription, or whose
\* object could not be made, until they come or go again, and a client that
\* follows its signals knows every device it lists; the cached locale is
\* the one of localed and of its readers, although an answer may overtake signals.
StatusMirrored == Power!BatteriesMirrored /\ Locale!LocaleMirrored

\* Whatever the order of libnm's notifications, the objects are the access
\* points of its cache, the active one connected, once they are handled, and
\* the signals sent add up to them.  A device's connection shows the strength of
\* the access point it was made with for as long as that one is the active one,
\* unless it replaced another connection directly, which may show it instead.
LinksMirrored == Access!PointsMirrored /\ Access!StrengthFollowed

\* The profile that enabling an Ethernet device activates is the best of those
\* offered, in whichever order they come: one that may connect by itself first,
\* and of two alike one that names the interface.
ProfilePreferred == Ethernet!ProfilePreferred
=============================================================================
