---------------------------- MODULE AudioService ----------------------------
(***************************************************************************)
(* The audio service                                                       *)
(* (src/src/services/audio_pulse/audio_service.cpp, audio_stream.cpp).     *)
(*                                                                         *)
(* It mirrors PulseAudio's sinks, sources and sink inputs as D-Bus objects:*)
(* one device object for each port of a sink or source, one stream object  *)
(* for each sink input.  PulseAudio answers requests in order, on the same *)
(* socket on which it sends its subscription events; an event says only    *)
(* that something changed, and the service asks again.  Clients set the    *)
(* active device and a stream's device at any time.                        *)
(*                                                                         *)
(* Requests wait before PulseAudio reads them, and anything may happen in  *)
(* between.  What PulseAudio sends is handled when it is sent: it does not *)
(* depend on when the service reads it, only on the order of its requests, *)
(* and a property set while messages wait is one set before they are sent. *)
(*                                                                         *)
(* An index is never used twice, a name may be once its owner is gone.     *)
(* The service's methods are operators from its state to its state.        *)
(***************************************************************************)
EXTENDS Naturals, Sequences, FiniteSets, SequencesExt

CONSTANTS
  Sinks, Sources,  \* indices of sinks and of sources
  Streams,         \* indices of sink inputs
  Names,           \* PulseAudio's names of sinks and sources
  PortSets,        \* the sets of ports a device may have, {} for a portless one
  MaxChanges,      \* bound on what happens in PulseAudio by itself
  MaxRequests      \* bound on the properties set by D-Bus clients

VARIABLES
  pulse,     \* PulseAudio: what it manages
  client,    \* the tables of AudioService, and its requests on the way
  asked,     \* history: the device a client made active, until it is the default
  chosen,    \* history: a stream's device where a client set it last
  requests   \* properties set so far

vars == <<pulse, client, asked, chosen, requests>>

NoName == ""
NoPort == ""
NoPath == <<"none", 0, NoPort>>

\* PulseAudio has a sink, and not without end; each has a name.
ParametersAre ==
  /\ Sinks # {} /\ IsFiniteSet(Sinks) /\ IsFiniteSet(Sources) /\ IsFiniteSet(Streams)
  /\ NoName \notin Names

Devices == ({"out"} \X Sinks) \cup ({"in"} \X Sources)
Dirs == {"out", "in"}
Ports == UNION PortSets
Infos == {i \in [name : Names, ports : PortSets, active : Ports \cup {NoPort}] :
            IF i.ports = {} THEN i.active = NoPort ELSE i.active \in i.ports}

\* GetObjectPathForDevice: out_<index>_p<port>
Path(dev, port) == <<dev[1], dev[2], port>>
DeviceOf(path) == <<path[1], path[2]>>
PathsOf(dev, info) ==
  {Path(dev, p) : p \in IF info.ports = {} THEN {NoPort} ELSE info.ports}

Without(f, S) == [x \in DOMAIN f \ S |-> f[x]]
With(f, x, v) == [y \in DOMAIN f \cup {x} |-> IF y = x THEN v ELSE f[y]]

\* The values of a function, one after the other.
InSomeOrder(f) ==
  LET elements == SetToSeq(DOMAIN f) IN [i \in 1 .. Len(elements) |-> f[elements[i]]]
-----------------------------------------------------------------------------
(* Requests to PulseAudio *)

Ask(w, r) == IF w.context = "none" THEN w ELSE [w EXCEPT !.out = Append(@, r)]

\* The initial queries, after the subscription.
Initial == <<<<"subscribe">>, <<"list", "out">>, <<"list", "in">>,
             <<"streams">>, <<"server">>>>

SyncInitialPulseState == Initial

QueryServerInfo(w) == Ask(w, <<"server">>)
QueryDevice(w, dev) == Ask(w, <<"device", dev>>)
QueryStream(w, s) == Ask(w, <<"stream", s>>)
MoveStreamToDevice(w, s, sink) == Ask(w, <<"move", s, sink>>)

\* MoveStreamToDevice for each of some streams.
MoveStreams(w, S, sink) ==
  IF w.context = "none" THEN w
  ELSE [w EXCEPT !.out = @ \o InSomeOrder([s \in S |-> <<"move", s, sink>>])]

\* ActivateOutputPortAndMakeDefault: the port first, the default once it is set.
ActivatePort(w, path) ==
  Ask(w, <<"port", DeviceOf(path), path[3], w.devices[path]>>)
SetDefault(w, dir, name) == Ask(w, <<"default", dir, name>>)
-----------------------------------------------------------------------------
(* Devices *)

StreamsOn(w, sink) == {s \in DOMAIN w.streams : w.streams[s].sink = sink}

\* HandleActiveOutputPortChanged: the Device property of each stream of that sink
\* is set, and its callback, which moves the stream, not suppressed: an unknown
\* device is an exception in a PulseAudio callback.
HandleActiveOutputPortChanged(w, dev, port) ==
  LET path == Path(dev, port)
      moved == {s \in StreamsOn(w, dev[2]) : w.streams[s].device # path}
  IN IF moved # {} /\ path \notin DOMAIN w.devices THEN [w EXCEPT !.escaped = TRUE]
     ELSE MoveStreams([w EXCEPT !.streams =
                         [s \in DOMAIN @ |-> IF s \in moved THEN [@[s] EXCEPT !.device = path]
                                             ELSE @[s]]],
                      moved, dev[2])

PortOf(w, dev) == IF dev \in DOMAIN w.ports THEN w.ports[dev] ELSE NoPort

\* Mutant of Updated: a port that is gone keeps its object.
UpdatedKeepsStale(w, dev, info) ==
  LET paths == PathsOf(dev, info)
  IN [w EXCEPT
        !.ports = With(@, dev, info.active),
        !.devices = [p \in DOMAIN @ \cup paths |->
                       IF p \in paths THEN info.name ELSE @[p]],
        !.active[dev[1]] = IF w.default[dev[1]] = info.name
                           THEN Path(dev, info.active) ELSE @]

\* One object for each port; an active port of the default device is the
\* active device; the objects of other ports are removed last.
Updated(w, dev, info) ==
  LET paths == PathsOf(dev, info)
      stale == {p \in DOMAIN w.devices : DeviceOf(p) = dev} \ paths
  IN [w EXCEPT
        !.ports = With(@, dev, info.active),
        !.devices = [p \in (DOMAIN @ \ stale) \cup paths |->
                       IF p \in paths THEN info.name ELSE @[p]],
        !.active[dev[1]] = IF w.default[dev[1]] = info.name
                           THEN Path(dev, info.active) ELSE @]

AddOrUpdateInputDevice(w, dev, info) == Updated(w, dev, info)

AddOrUpdateOutputDevice(w, dev, info) ==
  LET told == IF PortOf(w, dev) = info.active THEN w
              ELSE HandleActiveOutputPortChanged(w, dev, info.active)
  IN Updated(told, dev, info)

AddOrUpdateDevice(w, dev, info) ==
  IF dev[1] = "out" THEN AddOrUpdateOutputDevice(w, dev, info)
  ELSE AddOrUpdateInputDevice(w, dev, info)

\* RemoveOutputDevicesByIndex.  The active device and the streams that name one
\* of the removed objects are left alone.
RemoveDevicesByIndex(w, dev) ==
  [w EXCEPT !.devices = Without(@, {p \in DOMAIN @ : DeviceOf(p) = dev}),
            !.ports = Without(@, {dev})]
-----------------------------------------------------------------------------
(* Streams *)

\* A stream shows the active port of its sink, if the sink is known.
AddOrUpdateStream(w, s, sink) ==
  LET shown == IF s \in DOMAIN w.streams THEN w.streams[s].device ELSE NoPath
      dev == <<"out", sink>>
  IN [w EXCEPT !.streams =
        With(@, s, [sink |-> sink,
                    device |-> IF dev \in DOMAIN w.ports
                               THEN Path(dev, w.ports[dev]) ELSE shown])]

RemoveStream(w, s) == [w EXCEPT !.streams = Without(@, {s})]
-----------------------------------------------------------------------------
(* The default devices *)

\* HandleServerInfo: a new default is looked for by its PulseAudio name among
\* the display names, which name the port or describe the device; none matches,
\* and the property is empty until the device is next reported.
HandleServerInfo(w, default) ==
  [w EXCEPT !.default = default,
            !.active = [dir \in Dirs |->
                          IF default[dir] = w.default[dir] THEN @[dir] ELSE NoPath]]
-----------------------------------------------------------------------------
(* What PulseAudio sends *)

\* HandleOutputDeviceChanged, HandleInputDeviceChanged
HandleDeviceChanged(w, dev, what) ==
  IF what = "remove" THEN RemoveDevicesByIndex(w, dev) ELSE QueryDevice(w, dev)

HandleStreamChanged(w, s, what) ==
  IF what = "remove" THEN RemoveStream(w, s) ELSE QueryStream(w, s)

\* HandleSubscribeCallback
HandleEvent(w, facility, what, index) ==
  CASE facility = "server" -> QueryServerInfo(w)
    [] facility = "stream" -> HandleStreamChanged(w, index, what)
    [] OTHER -> HandleDeviceChanged(w, <<facility, index>>, what)

\* An event or an answer.
Handled(w, m) ==
  CASE m[1] = "event" -> HandleEvent(w, m[2], m[3], m[4])
    [] m[1] = "device" -> AddOrUpdateDevice(w, m[2], m[3])
    [] m[1] = "stream" -> AddOrUpdateStream(w, m[2], m[3])
    [] m[1] = "server" -> HandleServerInfo(w, m[2])
    [] m[1] = "port set" -> SetDefault(w, m[2], m[3])

\* The service after the first n messages.
HandledFirst(reader, messages) ==
  LET after[n \in 0 .. Len(messages)] ==
        IF n = 0 THEN reader ELSE Handled(after[n - 1], messages[n])
  IN after

NoClient ==
  [context |-> "connecting", devices |-> Without([p \in {NoPath} |-> NoName], {NoPath}),
   ports |-> Without([d \in Devices |-> NoPort], Devices),
   streams |-> Without([s \in Streams |-> 0], Streams),
   active |-> [d \in Dirs |-> NoPath], default |-> [d \in Dirs |-> NoName],
   out |-> <<>>, escaped |-> FALSE]

Alive == client.context # "none" /\ ~client.escaped

\* PA_CONTEXT_READY
ContextReady ==
  /\ Alive /\ client.context = "connecting" /\ pulse.up
  /\ client' = [client EXCEPT !.context = "ready", !.out = SyncInitialPulseState]
  /\ UNCHANGED <<pulse, asked, chosen, requests>>

\* PA_CONTEXT_FAILED, PA_CONTEXT_TERMINATED: nothing connects again, and the
\* tables stay as they are.
ContextFailed ==
  /\ Alive /\ ~pulse.up
  /\ client' = [client EXCEPT !.context = "none", !.out = <<>>]
  /\ UNCHANGED <<pulse, asked, chosen, requests>>

\* A client's choice stands until PulseAudio reports the stream.
Reports(m, s) == m[1] = "stream" /\ m[2] = s

\* A choice is done, or void once its port is gone.
Pending(path, p) ==
  /\ path # NoPath /\ DeviceOf(path) \in DOMAIN p.devices
  /\ LET info == p.devices[DeviceOf(path)]
     IN path[3] \in info.ports /\ p.default[path[1]] # info.name

\* The messages are read and handled in the order they are sent.
Receive(reader, messages) ==
  /\ client' = HandledFirst(reader, messages)[Len(messages)]
  /\ asked' = [dir \in Dirs |-> IF Pending(asked[dir], pulse') THEN asked[dir] ELSE NoPath]
  /\ chosen' = [s \in Streams |->
                  IF \E i \in DOMAIN messages : Reports(messages[i], s)
                  THEN NoPath ELSE chosen[s]]
-----------------------------------------------------------------------------
(* Properties set by D-Bus clients *)

Sets == ~client.escaped /\ requests < MaxRequests /\ requests' = requests + 1

\* The streams play on the new output device at once.
ActiveChosen(path) ==
  LET w == ActivatePort(client, path)
  IN IF path[1] = "in" THEN w
     ELSE MoveStreams(w, DOMAIN w.streams, path[2])

\* OnSetActiveInputDevice, OnSetActiveOutputDevice.  Another path than that of
\* a device of this direction is an error, the one shown already is ignored.
SetActiveDevice(path) ==
  /\ Sets /\ client.context # "none"
  /\ path \in DOMAIN client.devices /\ client.active[path[1]] # path
  /\ client' = ActiveChosen(path)
  /\ asked' = [asked EXCEPT ![path[1]] = IF Pending(path, pulse) THEN path ELSE NoPath]
  /\ UNCHANGED <<pulse, chosen>>

\* Set of a stream's Device: the value is stored and announced first; moving
\* the stream may then fail, and the value stays.
SetStreamDevice(s, path) ==
  /\ Sets /\ s \in DOMAIN client.streams /\ client.streams[s].device # path
  /\ LET w == [client EXCEPT !.streams[s].device = path]
     IN client' = IF path \in DOMAIN w.devices /\ path[1] = "out"
                  THEN MoveStreamToDevice(w, s, path[2]) ELSE w
  /\ chosen' = [chosen EXCEPT ![s] = path]
  /\ UNCHANGED <<pulse, asked>>
-----------------------------------------------------------------------------
(* PulseAudio answers requests in order *)

Here(dev) == dev \in DOMAIN pulse.devices
Owner(p, dir, name) ==
  {d \in DOMAIN p.devices : d[1] = dir /\ p.devices[d].name = name}

\* The state after a request, the events it causes and its answer.
Nothing(p) == [pulse |-> p, events |-> <<>>, answer |-> <<>>]

\* A list calls back once for each entry.
DeviceEntries(S) ==
  InSomeOrder([d \in S |-> <<"device", d, pulse.devices[d]>>])
StreamEntries(S) ==
  InSomeOrder([s \in S |-> <<"stream", s, pulse.streams[s]>>])

Answered(r) ==
  CASE r[1] = "subscribe" -> Nothing([pulse EXCEPT !.subscribed = TRUE])
    [] r[1] = "list" ->
         [Nothing(pulse) EXCEPT !.answer =
            DeviceEntries({d \in DOMAIN pulse.devices : d[1] = r[2]})]
    [] r[1] = "device" /\ Here(r[2]) ->
         [Nothing(pulse) EXCEPT !.answer = DeviceEntries({r[2]})]
    [] r[1] = "streams" ->
         [Nothing(pulse) EXCEPT !.answer = StreamEntries(DOMAIN pulse.streams)]
    [] r[1] = "stream" /\ r[2] \in DOMAIN pulse.streams ->
         [Nothing(pulse) EXCEPT !.answer = StreamEntries({r[2]})]
    [] r[1] = "server" ->
         [Nothing(pulse) EXCEPT !.answer = <<<<"server", pulse.default>>>>]
    [] r[1] = "port" /\ Here(r[2]) /\ r[3] \in pulse.devices[r[2]].ports ->
         [pulse |-> [pulse EXCEPT !.devices[r[2]].active = r[3]],
          events |-> IF pulse.devices[r[2]].active = r[3] THEN <<>>
                     ELSE <<<<"event", r[2][1], "change", r[2][2]>>>>,
          answer |-> <<<<"port set", r[2][1], r[4]>>>>]
    [] r[1] = "default" /\ Owner(pulse, r[2], r[3]) # {} ->
         [pulse |-> [pulse EXCEPT !.default[r[2]] = r[3]],
          events |-> IF pulse.default[r[2]] = r[3] THEN <<>>
                     ELSE <<<<"event", "server", "change", 0>>>>,
          answer |-> <<>>]
    [] r[1] = "move" /\ r[2] \in DOMAIN pulse.streams /\ Here(<<"out", r[3]>>)
                     /\ pulse.streams[r[2]] # r[3] ->
         [pulse |-> [pulse EXCEPT !.streams[r[2]] = r[3]],
          events |-> <<<<"event", "stream", "change", r[2]>>>>,
          answer |-> <<>>]
    [] OTHER -> Nothing(pulse)

Answer ==
  /\ Alive /\ pulse.up /\ client.out # <<>>
  /\ LET a == Answered(Head(client.out))
         read == [client EXCEPT !.out = Tail(@)]
     IN /\ pulse' = a.pulse
        /\ Receive(read, (IF pulse.subscribed THEN a.events ELSE <<>>) \o a.answer)
  /\ UNCHANGED requests
-----------------------------------------------------------------------------
(* PulseAudio by itself, or for another of its clients *)

Happens(p, events) ==
  /\ Alive /\ pulse.up /\ pulse.changes < MaxChanges
  /\ pulse' = [p EXCEPT !.changes = @ + 1]
  /\ Receive(client, IF pulse.subscribed THEN events ELSE <<>>)
  /\ UNCHANGED requests

\* A change of the default is reported if there is one.
Default(old, new) ==
  IF old = new THEN <<>> ELSE <<<<"event", "server", "change", 0>>>>

\* The first device of a direction becomes its default.
Appears(dev, info) ==
  /\ dev \notin pulse.used /\ Owner(pulse, dev[1], info.name) = {}
  /\ LET default == IF pulse.default[dev[1]] = NoName
                    THEN [pulse.default EXCEPT ![dev[1]] = info.name] ELSE pulse.default
     IN Happens([pulse EXCEPT !.devices = With(@, dev, info), !.used = @ \cup {dev},
                              !.default = default],
                <<<<"event", dev[1], "new", dev[2]>>>> \o Default(pulse.default, default))

\* The streams of a sink that vanishes are moved to another one or end.
Vanishes(dev, to) ==
  /\ Here(dev) /\ to # dev /\ to \in DOMAIN pulse.devices \cup {NoPath}
  /\ to # NoPath => to[1] = dev[1]
  /\ to = NoPath => \A d \in DOMAIN pulse.devices : d[1] = dev[1] => d = dev
  /\ LET next == IF to = NoPath THEN NoName ELSE pulse.devices[to].name
         default == IF pulse.default[dev[1]] = pulse.devices[dev].name
                    THEN [pulse.default EXCEPT ![dev[1]] = next] ELSE pulse.default
         moved == IF dev[1] = "in" THEN {}
                  ELSE {s \in DOMAIN pulse.streams : pulse.streams[s] = dev[2]}
         what == IF to = NoPath THEN "remove" ELSE "change"
     IN Happens([pulse EXCEPT
                   !.devices = Without(@, {dev}), !.default = default,
                   !.streams = IF to = NoPath THEN Without(@, moved)
                               ELSE [s \in DOMAIN @ |-> IF s \in moved THEN to[2] ELSE @[s]]],
                InSomeOrder([s \in moved |-> <<"event", "stream", what, s>>])
                \o Default(pulse.default, default)
                \o <<<<"event", dev[1], "remove", dev[2]>>>>)

\* Something is plugged into a jack: a port becomes active, or ports change.
PortChanges(dev, info) ==
  /\ Here(dev) /\ info.name = pulse.devices[dev].name /\ info # pulse.devices[dev]
  /\ Happens([pulse EXCEPT !.devices[dev] = info],
             <<<<"event", dev[1], "change", dev[2]>>>>)

StreamStarts(s, sink) ==
  /\ s \notin pulse.usedStreams /\ Here(<<"out", sink>>)
  /\ Happens([pulse EXCEPT !.streams = With(@, s, sink), !.usedStreams = @ \cup {s}],
             <<<<"event", "stream", "new", s>>>>)

StreamMoves(s, sink) ==
  /\ s \in DOMAIN pulse.streams /\ Here(<<"out", sink>>) /\ pulse.streams[s] # sink
  /\ Happens([pulse EXCEPT !.streams[s] = sink], <<<<"event", "stream", "change", s>>>>)

StreamEnds(s) ==
  /\ s \in DOMAIN pulse.streams
  /\ Happens([pulse EXCEPT !.streams = Without(@, {s})],
             <<<<"event", "stream", "remove", s>>>>)

DefaultChanges(dev) ==
  /\ Here(dev) /\ pulse.default[dev[1]] # pulse.devices[dev].name
  /\ Happens([pulse EXCEPT !.default[dev[1]] = pulse.devices[dev].name],
             <<<<"event", "server", "change", 0>>>>)

Exits == Happens([pulse EXCEPT !.up = FALSE], <<>>)

\* Names and ports are interchangeable: the first sink has the first of them.
FirstInfos ==
  {i \in Infos : /\ i.name = CHOOSE name \in Names : TRUE
                 /\ i.ports # {} => i.active = CHOOSE p \in i.ports : TRUE}

Init ==
  /\ \E dev \in {<<"out", CHOOSE sink \in Sinks : TRUE>>}, info \in FirstInfos, S \in SUBSET Streams :
       pulse = [up |-> TRUE, subscribed |-> FALSE, changes |-> 0,
                devices |-> With(Without([d \in Devices |-> info], Devices), dev, info),
                used |-> {dev}, streams |-> [s \in S |-> dev[2]], usedStreams |-> S,
                default |-> [d \in Dirs |-> IF d = "out" THEN info.name ELSE NoName]]
  /\ client = NoClient /\ requests = 0
  /\ asked = [d \in Dirs |-> NoPath] /\ chosen = [s \in Streams |-> NoPath]

Environment ==
  \/ \E dev \in Devices :
       \/ \E info \in Infos : Appears(dev, info) \/ PortChanges(dev, info)
       \/ \E to \in Devices \cup {NoPath} : Vanishes(dev, to)
       \/ DefaultChanges(dev)
  \/ \E s \in Streams :
       \/ \E sink \in Sinks : StreamStarts(s, sink) \/ StreamMoves(s, sink)
       \/ StreamEnds(s)
  \/ Exits

AllPaths == {Path(d, p) : d \in Devices, p \in Ports \cup {NoPort}}

Next ==
  \/ ContextReady \/ ContextFailed \/ Answer
  \/ \E path \in AllPaths : SetActiveDevice(path)
  \/ \E s \in Streams, path \in DOMAIN client.devices \cup {NoPath} : SetStreamDevice(s, path)
  \/ Environment

Spec == Init /\ [][Next]_vars
-----------------------------------------------------------------------------
(* Properties *)

\* Nothing is on its way between the service and PulseAudio.
Quiet ==
  Alive /\ client.context = "ready" /\ pulse.up /\ client.out = <<>>

\* Every variable has its type.
TypeOK ==
  /\ DOMAIN client.devices \subseteq AllPaths
  /\ DOMAIN client.ports \subseteq Devices
  /\ DOMAIN client.streams \subseteq Streams
  /\ client.active \in [Dirs -> AllPaths \cup {NoPath}]
  /\ client.default \in [Dirs -> Names \cup {NoName}]
  /\ client.context \in {"connecting", "ready", "none"}
  /\ pulse.default \in [Dirs -> Names \cup {NoName}]
  /\ DOMAIN pulse.devices \subseteq pulse.used
  /\ DOMAIN pulse.streams \subseteq pulse.usedStreams

\* When everything was handled the objects are exactly PulseAudio's ports and
\* sink inputs, however its events crossed the service's queries.
ObjectsMirrorPulse ==
  Quiet =>
    /\ DOMAIN client.devices =
         UNION {PathsOf(d, pulse.devices[d]) : d \in DOMAIN pulse.devices}
    /\ [s \in DOMAIN client.streams |-> client.streams[s].sink] = pulse.streams
    /\ client.ports = [d \in DOMAIN pulse.devices |-> pulse.devices[d].active]
    /\ client.default = pulse.default

ActivePath(dev) == Path(dev, pulse.devices[dev].active)

\* The path a property shows is never a leftover: an active device is the
\* active port of the default sink or source, and a stream's device is the
\* active port of its sink, unless a client set it since.
PathsAreCurrent ==
  Quiet =>
    /\ \A dir \in Dirs : client.active[dir] # NoPath =>
         \E dev \in Owner(pulse, dir, pulse.default[dir]) :
           client.active[dir] = ActivePath(dev)
    /\ \A s \in DOMAIN pulse.streams :
         client.streams[s].device \in
           {ActivePath(<<"out", pulse.streams[s]>>), chosen[s]}

\* A device that a client made active was PulseAudio's default before
\* everything came to rest, unless its port went away: the second of the two
\* requests is made whatever else arrives between them.
ActiveDeviceSet == Quiet => \A dir \in Dirs : asked[dir] = NoPath
=============================================================================
