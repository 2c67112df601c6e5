-------------------------- MODULE AudioServiceProofs --------------------------
(***************************************************************************)
(* Proofs about AudioService, for any sinks, sources, streams and names,   *)
(* and any number of changes and requests.                                 *)
(*                                                                         *)
(* The invariant is not about the tables but about what is still to come:  *)
(* what the service does not have as PulseAudio has it, it has asked for,  *)
(* or an event or an answer of the messages of this step brings it.  Each  *)
(* message is handled in a state that follows PulseAudio in this sense,    *)
(* and leaves one that does, unless an exception leaves a callback; so do  *)
(* the changes of PulseAudio's own, its answers, and the clients' calls.   *)
(* At rest nothing is to come any more, and the tables are PulseAudio's.   *)
(***************************************************************************)
EXTENDS AudioService, SequenceTheorems, FiniteSetTheorems, WellFoundedInduction, TLAPS

-----------------------------------------------------------------------------
(* Induction, and functions defined by it *)

\* The order of the natural numbers, written out, is well-founded.
LEMMA NatWellFounded == IsWellFoundedOn({ss \in Nat \X Nat : ss[1] < ss[2]}, Nat)
<1>1. IsWellFoundedOn(OpToRel(<,Nat), Nat)
  BY NatLessThanWellFounded
<1> QED
  BY <1>1 DEF OpToRel

\* A set of numbers that is not empty has a least one.
LEMMA LeastNumber ==
  ASSUME NEW T, T \subseteq Nat, T # {}
  PROVE  \E x \in T : \A y \in T : x <= y
<1> DEFINE R == {ss \in Nat \X Nat : ss[1] < ss[2]}
<1>1. IsWellFoundedOn(R, Nat)
  BY NatWellFounded
<1>2. \A x, y \in Nat : x < y => <<x, y>> \in R
  OBVIOUS
<1> HIDE DEF R
<1>3. PICK x \in T : \A y \in T : ~ (<<y, x>> \in R)
  BY <1>1, WFMin
<1>4. \A y \in T : ~(y < x)
  BY <1>2, <1>3
<1>5. \A y \in T : x \in Nat /\ y \in Nat
  OBVIOUS
<1> QED
  BY <1>4, <1>5

\* Induction, with a set for the predicate: the provers can instantiate it.
LEMMA Induction ==
  ASSUME NEW P, 0 \in P, \A n \in Nat : n \in P => n + 1 \in P
  PROVE  \A n \in Nat : n \in P
<1> DEFINE T == Nat \ P
<1>1. CASE T = {}
  BY <1>1
<1>2. CASE T # {}
  <2>1. PICK x \in T : \A y \in T : x <= y
    BY <1>2, LeastNumber
  <2>2. x \in Nat /\ x # 0
    BY <2>1
  <2>3. x - 1 \in Nat /\ x - 1 \notin T
    BY <2>1, <2>2
  <2> QED
    BY <2>1, <2>2, <2>3
<1> QED
  BY <1>1, <1>2

\* The turns of a recursive function on 0 .. L.
Turned(h, S, a, D, L) ==
  /\ h \in [0 .. L -> S] /\ h[0] = a
  /\ \A n \in 0 .. L : n # 0 => n - 1 \in 0 .. L /\ h[n] = D[n][h[n - 1]]

\* A recursion over the first L numbers has a function that follows it.
LEMMA Turns ==
  ASSUME NEW S, NEW a \in S, NEW L \in Nat, NEW D \in [Nat -> [S -> S]]
  PROVE  \E h : Turned(h, S, a, D, L)
<1> DEFINE P == {n \in Nat : \E h : Turned(h, S, a, D, n)}
<1>1. 0 \in P
  <2>1. Turned([i \in 0 .. 0 |-> a], S, a, D, 0)
    BY DEF Turned
  <2> QED
    BY <2>1
<1>2. ASSUME NEW n \in Nat, n \in P PROVE n + 1 \in P
  <2>1. PICK g : Turned(g, S, a, D, n)
    BY <1>2
  <2>2. /\ g \in [0 .. n -> S] /\ g[0] = a
        /\ \A i \in 0 .. n : i # 0 => i - 1 \in 0 .. n /\ g[i] = D[i][g[i - 1]]
    BY <2>1 DEF Turned
  <2> DEFINE h == [i \in 0 .. n + 1 |-> IF i = n + 1 THEN D[n + 1][g[n]] ELSE g[i]]
  <2>3. g[n] \in S /\ D[n + 1][g[n]] \in S
    BY <2>2
  <2>4. h \in [0 .. n + 1 -> S] /\ h[0] = a /\ h[n + 1] = D[n + 1][g[n]]
    BY <2>2, <2>3
  <2>5. \A i \in 0 .. n : h[i] = g[i]
    OBVIOUS
  <2> HIDE DEF h
  <2>6. ASSUME NEW i \in 0 .. n + 1, i # 0 PROVE i - 1 \in 0 .. n + 1 /\ h[i] = D[i][h[i - 1]]
    <3>1. CASE i = n + 1
      BY <2>4, <2>5, <3>1
    <3>2. CASE i # n + 1
      <4>1. i \in 0 .. n /\ i - 1 \in 0 .. n
        BY <2>6, <3>2
      <4> QED
        BY <2>2, <2>5, <2>6, <4>1
    <3> QED
      BY <3>1, <3>2
  <2>7. Turned(h, S, a, D, n + 1)
    BY <2>4, <2>6 DEF Turned
  <2> QED
    BY <2>7
<1> HIDE DEF P
<1>3. \A n \in Nat : n \in P
  BY <1>1, <1>2, Induction
<1> QED
  BY <1>3 DEF P

-----------------------------------------------------------------------------
(* Tables *)

\* The functions from some elements of S to T.
Partial(S, T) == UNION {[D -> T] : D \in SUBSET S}

\* The objects' paths, ports and names, with those that stand for none.
AnyPath == AllPaths \cup {NoPath}
AnyPort == Ports \cup {NoPort}
AnyName == Names \cup {NoName}

\* PulseAudio's state: the shapes of its tables.
Pulses ==
  [up : BOOLEAN, subscribed : BOOLEAN, changes : Nat, devices : Partial(Devices, Infos),
   used : SUBSET Devices, streams : Partial(Streams, Sinks), usedStreams : SUBSET Streams,
   default : [Dirs -> AnyName]]

\* The requests that the service makes.
Requested ==
  {<<"subscribe">>, <<"streams">>, <<"server">>} \cup ({"list"} \X Dirs)
    \cup ({"device"} \X Devices) \cup ({"stream"} \X Streams)
    \cup ({"port"} \X Devices \X AnyPort \X Names)
    \cup ({"default"} \X Dirs \X Names) \cup ({"move"} \X Streams \X Sinks)

\* A stream's properties.
Shown == [sink : Sinks, device : AnyPath]

\* The service's state: the shapes of its tables.
Clients ==
  [context : {"connecting", "ready", "none"}, devices : Partial(AllPaths, Names),
   ports : Partial(Devices, AnyPort), streams : Partial(Streams, Shown),
   active : [Dirs -> AnyPath], default : [Dirs -> AnyName],
   out : Seq(Requested), escaped : BOOLEAN]

\* A function on part of S, without its union.
LEMMA Partials ==
  ASSUME NEW S, NEW T, NEW f
  PROVE  f \in Partial(S, T) <=> /\ f = [x \in DOMAIN f |-> f[x]]
                                 /\ DOMAIN f \subseteq S /\ \A x \in DOMAIN f : f[x] \in T
<1>1. ASSUME f \in Partial(S, T)
      PROVE  f = [x \in DOMAIN f |-> f[x]] /\ DOMAIN f \subseteq S /\ \A x \in DOMAIN f : f[x] \in T
  BY <1>1 DEF Partial
<1>2. ASSUME f = [x \in DOMAIN f |-> f[x]], DOMAIN f \subseteq S, \A x \in DOMAIN f : f[x] \in T
      PROVE  f \in Partial(S, T)
  <2>1. f \in [DOMAIN f -> T]
    BY <1>2
  <2> QED
    BY <1>2, <2>1 DEF Partial
<1> QED
  BY <1>1, <1>2

\* g is f with a value for x.
Extended(g, f, x, v) ==
  /\ DOMAIN g = DOMAIN f \cup {x} /\ g[x] = v
  /\ \A y \in DOMAIN f : y # x => g[y] = f[y]

\* g is f without X.
Reduced(g, f, X) ==
  /\ DOMAIN g = DOMAIN f \ X
  /\ \A y \in DOMAIN f : y \notin X => g[y] = f[y]

\* With extends a table,
LEMMA WithPartial ==
  ASSUME NEW S, NEW T, NEW f \in Partial(S, T), NEW x \in S, NEW v \in T
  PROVE  With(f, x, v) \in Partial(S, T) /\ Extended(With(f, x, v), f, x, v)
<1>1. /\ Extended(With(f, x, v), f, x, v)
      /\ With(f, x, v) = [y \in DOMAIN With(f, x, v) |-> With(f, x, v)[y]]
  BY DEF With, Extended
<1>2. DOMAIN f \subseteq S /\ \A y \in DOMAIN f : f[y] \in T
  BY Partials
<1>3. DOMAIN With(f, x, v) \subseteq S /\ \A y \in DOMAIN With(f, x, v) : With(f, x, v)[y] \in T
  BY <1>1, <1>2 DEF Extended
<1> QED
  BY <1>1, <1>3, Partials

\* and Without reduces it.
LEMMA WithoutPartial ==
  ASSUME NEW S, NEW T, NEW f \in Partial(S, T), NEW X
  PROVE  Without(f, X) \in Partial(S, T) /\ Reduced(Without(f, X), f, X)
<1>1. /\ Reduced(Without(f, X), f, X)
      /\ Without(f, X) = [y \in DOMAIN Without(f, X) |-> Without(f, X)[y]]
  BY DEF Without, Reduced
<1>2. DOMAIN f \subseteq S /\ \A y \in DOMAIN f : f[y] \in T
  BY Partials
<1>3. DOMAIN Without(f, X) \subseteq S /\ \A y \in DOMAIN Without(f, X) : Without(f, X)[y] \in T
  BY <1>1, <1>2 DEF Reduced
<1> QED
  BY <1>1, <1>3, Partials

\* A path has its device and its port.
LEMMA Paths ==
  /\ \A d \in Devices : <<d[1], d[2]>> = d /\ d[1] \in Dirs
  /\ \A d \in Devices : \A p : Path(d, p) = <<d[1], d[2], p>> /\ DeviceOf(Path(d, p)) = d
  /\ \A d \in Devices, p \in AnyPort : Path(d, p) \in AllPaths /\ Path(d, p) # NoPath
  /\ \A x \in AllPaths : DeviceOf(x) \in Devices /\ x[3] \in AnyPort
        /\ x = Path(DeviceOf(x), x[3]) /\ x # NoPath /\ x[1] = DeviceOf(x)[1]
        /\ x[2] = DeviceOf(x)[2]
        /\ DeviceOf(x) = <<x[1], x[2]>>
<1>1. \A d \in Devices : <<d[1], d[2]>> = d /\ d[1] \in Dirs
  BY DEF Devices, Dirs
<1>2. \A d \in Devices : \A p : Path(d, p) = <<d[1], d[2], p>> /\ DeviceOf(Path(d, p)) = d
  BY <1>1 DEF Path, DeviceOf
<1>3. \A d \in Devices : \A p : Path(d, p) # NoPath
  BY <1>1, <1>2 DEF NoPath, Dirs
<1>4. \A d \in Devices, p \in AnyPort : Path(d, p) \in AllPaths
  BY DEF AllPaths, AnyPort
<1>5. ASSUME NEW x \in AllPaths
      PROVE  /\ DeviceOf(x) \in Devices /\ x[3] \in AnyPort
             /\ x = Path(DeviceOf(x), x[3]) /\ x # NoPath
             /\ x[1] = DeviceOf(x)[1] /\ x[2] = DeviceOf(x)[2] /\ DeviceOf(x) = <<x[1], x[2]>>
  <2>1. PICK d \in Devices, p \in AnyPort : x = Path(d, p)
    BY DEF AllPaths, AnyPort
  <2>2. DeviceOf(x) = d /\ x = <<d[1], d[2], p>> /\ x # NoPath
    BY <1>2, <1>3, <2>1
  <2>3. x[1] = d[1] /\ x[2] = d[2] /\ x[3] = p
    BY <2>2
  <2> QED
    BY <1>1, <2>1, <2>2, <2>3
<1> QED
  BY <1>1, <1>2, <1>3, <1>4, <1>5

\* What PulseAudio says of a device: it has a name, and its active port is one of its own.
LEMMA InfosAre ==
  ASSUME ParametersAre
  PROVE  /\ \A i \in Infos : /\ i.name \in Names /\ i.name # NoName /\ i.ports \subseteq Ports
                             /\ i.active \in AnyPort
                             /\ (i.ports = {} => i.active = NoPort)
                             /\ (i.ports # {} => i.active \in i.ports)
         /\ \A i \in Infos, d \in Devices : /\ PathsOf(d, i) \subseteq AllPaths
                                            /\ \A x \in PathsOf(d, i) : DeviceOf(x) = d
                                            /\ Path(d, i.active) \in PathsOf(d, i)
<1>1. ASSUME NEW i \in Infos
      PROVE  /\ i.name \in Names /\ i.name # NoName /\ i.ports \subseteq Ports
             /\ i.active \in AnyPort
             /\ (i.ports = {} => i.active = NoPort) /\ (i.ports # {} => i.active \in i.ports)
  BY DEF Infos, Ports, AnyPort, ParametersAre
<1>2. ASSUME NEW i \in Infos, NEW d \in Devices
      PROVE  /\ PathsOf(d, i) \subseteq AllPaths /\ \A x \in PathsOf(d, i) : DeviceOf(x) = d
             /\ Path(d, i.active) \in PathsOf(d, i)
  BY <1>1, Paths DEF PathsOf, AnyPort
<1> QED
  BY <1>1, <1>2

-----------------------------------------------------------------------------
(* Sequences *)

\* The values of a finite function, each of them somewhere in their order.
LEMMA Orders ==
  ASSUME NEW T, NEW f, f = [x \in DOMAIN f |-> f[x]], IsFiniteSet(DOMAIN f),
         \A x \in DOMAIN f : f[x] \in T
  PROVE  /\ InSomeOrder(f) \in Seq(T)
         /\ \A x \in DOMAIN f : \E i \in DOMAIN InSomeOrder(f) : InSomeOrder(f)[i] = f[x]
         /\ \A i \in DOMAIN InSomeOrder(f) : \E x \in DOMAIN f : InSomeOrder(f)[i] = f[x]
<1> DEFINE S == DOMAIN f
           n == Cardinality(S)
           e == SetToSeq(S)
<1>1. n \in Nat /\ ExistsBijection(1 .. n, S)
  BY FS_CardinalityType
<1>2. PICK b : b \in Bijection(1 .. n, S)
  BY <1>1 DEF ExistsBijection
<1>3. b \in [1 .. n -> S] /\ IsInjective(b)
  BY <1>2 DEF Bijection, Injection, IsInjective
<1>4. e \in [1 .. n -> S] /\ IsInjective(e)
  BY <1>3 DEF SetToSeq
<1> HIDE DEF e
<1>5. e \in Injection(1 .. n, S)
  BY <1>4 DEF IsInjective, Injection
<1>6. IsFiniteSet(1 .. n) /\ Cardinality(1 .. n) = n
  <2>1. Cardinality(1 .. n) = (IF 1 > n THEN 0 ELSE n - 1 + 1) /\ IsFiniteSet(1 .. n)
    BY <1>1, FS_Interval
  <2> QED
    BY <1>1, <2>1
<1>7. e \in Surjection(1 .. n, S)
  BY <1>5, <1>6, FS_Injection
<1>8. Len(e) = n /\ e \in Seq(S)
  BY <1>1, <1>4
<1>9. InSomeOrder(f) = [i \in 1 .. n |-> f[e[i]]]
  BY <1>8 DEF InSomeOrder, e
<1>10. \A x \in S : \E i \in 1 .. n : e[i] = x
  BY <1>7 DEF Surjection
<1>11. InSomeOrder(f) \in [1 .. n -> T]
  BY <1>4, <1>9
<1> QED
  BY <1>1, <1>4, <1>9, <1>10, <1>11

-----------------------------------------------------------------------------
(* The service, and what it does with a report *)

\* The service's fields, one by one.
LEMMA ClientFields ==
  ASSUME NEW w \in Clients
  PROVE  /\ w.context \in {"connecting", "ready", "none"} /\ w.devices \in Partial(AllPaths, Names)
         /\ w.ports \in Partial(Devices, AnyPort) /\ w.streams \in Partial(Streams, Shown)
         /\ w.active \in [Dirs -> AnyPath] /\ w.default \in [Dirs -> AnyName]
         /\ w.out \in Seq(Requested) /\ w.escaped \in BOOLEAN
  BY DEF Clients

\* PulseAudio's fields, and what its tables hold.
LEMMA PulseFields ==
  ASSUME NEW p \in Pulses
  PROVE  /\ p.up \in BOOLEAN /\ p.subscribed \in BOOLEAN /\ p.changes \in Nat
         /\ p.devices \in Partial(Devices, Infos) /\ p.used \in SUBSET Devices
         /\ p.streams \in Partial(Streams, Sinks) /\ p.usedStreams \in SUBSET Streams
         /\ p.default \in [Dirs -> AnyName]
         /\ DOMAIN p.devices \subseteq Devices /\ \A d \in DOMAIN p.devices : p.devices[d] \in Infos
         /\ DOMAIN p.streams \subseteq Streams /\ \A s \in DOMAIN p.streams : p.streams[s] \in Sinks
<1>1. p.devices \in Partial(Devices, Infos) /\ p.streams \in Partial(Streams, Sinks)
  BY DEF Pulses
<1> QED
  BY <1>1, Partials DEF Pulses

\* A request is appended, and nothing else happens.
Appended(w, v, r) == v = [w EXCEPT !.out = Append(@, r)]

\* Ask appends the request.
LEMMA AskAppends ==
  ASSUME NEW w \in Clients, NEW r \in Requested, w.context # "none"
  PROVE  Appended(w, Ask(w, r), r) /\ Ask(w, r) \in Clients
<1>1. Ask(w, r) = [w EXCEPT !.out = Append(@, r)]
  BY DEF Ask
<1>2. Append(w.out, r) \in Seq(Requested)
  BY ClientFields, AppendProperties
<1> QED
  BY <1>1, <1>2 DEF Appended, Clients

\* MoveStreams appends requests, and changes nothing else.
LEMMA StreamsMoved ==
  ASSUME ParametersAre, NEW w \in Clients, NEW S \in SUBSET Streams, NEW sink \in Sinks
  PROVE  \E q \in Seq(Requested) :
           /\ MoveStreams(w, S, sink) = [w EXCEPT !.out = @ \o q]
           /\ MoveStreams(w, S, sink) \in Clients
<1>1. IsFiniteSet(S)
  BY FS_Subset DEF ParametersAre
<1> DEFINE f == [s \in S |-> <<"move", s, sink>>]
<1>2. \A s \in S : f[s] \in Requested
  BY DEF Requested
<1>3. InSomeOrder(f) \in Seq(Requested)
  BY <1>1, <1>2, Orders
<1>4. w.out \in Seq(Requested) /\ <<>> \in Seq(Requested)
  BY ClientFields
<1>5. CASE w.context = "none"
  <2>1. w.out = w.out \o <<>>
    BY <1>4, ConcatEmptySeq
  <2>2. w = [w EXCEPT !.out = @ \o <<>>]
    BY <2>1 DEF Clients
  <2> QED
    BY <1>4, <1>5, <2>2 DEF MoveStreams
<1>6. CASE w.context # "none"
  <2>1. MoveStreams(w, S, sink) = [w EXCEPT !.out = @ \o InSomeOrder(f)]
    BY <1>6 DEF MoveStreams
  <2>2. w.out \o InSomeOrder(f) \in Seq(Requested)
    BY <1>3, <1>4, ConcatProperties
  <2>3. [w EXCEPT !.out = @ \o InSomeOrder(f)] \in Clients
    BY <2>2 DEF Clients
  <2> QED
    BY <1>3, <2>1, <2>3
<1> QED
  BY <1>5, <1>6

\* The device of a sink.
Dev(sink) == <<"out", sink>>

\* What a report of a device does to the tables.
Reported(w, v, d, info) ==
  /\ v.context = w.context /\ v.default = w.default
  /\ Extended(v.ports, w.ports, d, info.active)
  /\ \A x \in AllPaths : DeviceOf(x) = d =>
        /\ x \in DOMAIN v.devices <=> x \in PathsOf(d, info)
        /\ x \in DOMAIN v.devices => v.devices[x] = info.name
  /\ \A x \in AllPaths : DeviceOf(x) # d =>
        /\ x \in DOMAIN v.devices <=> x \in DOMAIN w.devices
        /\ x \in DOMAIN w.devices => v.devices[x] = w.devices[x]
  /\ v.active = [w.active EXCEPT ![d[1]] =
                   IF w.default[d[1]] = info.name THEN Path(d, info.active) ELSE @]

\* What it does to the streams: some show the new port, all if the port was not known to be
\* active.
ShownPort(w, v, d, info) ==
  /\ DOMAIN v.streams = DOMAIN w.streams
  /\ \A s \in DOMAIN w.streams :
       /\ v.streams[s].sink = w.streams[s].sink
       /\ \/ v.streams[s].device = w.streams[s].device
          \/ d = Dev(w.streams[s].sink) /\ v.streams[s].device = Path(d, info.active)
       /\ d = Dev(w.streams[s].sink) /\ PortOf(w, d) # info.active =>
            v.streams[s].device = Path(d, info.active)

\* AddOrUpdate makes the tables those of the report.
LEMMA UpdatedReports ==
  ASSUME ParametersAre, NEW w \in Clients, NEW d \in Devices, NEW info \in Infos
  PROVE  /\ Updated(w, d, info) \in Clients /\ Reported(w, Updated(w, d, info), d, info)
         /\ Updated(w, d, info).escaped = w.escaped /\ Updated(w, d, info).out = w.out
         /\ Updated(w, d, info).streams = w.streams
<1> DEFINE paths == PathsOf(d, info)
           stale == {p \in DOMAIN w.devices : DeviceOf(p) = d} \ paths
           v == Updated(w, d, info)
           ports == With(w.ports, d, info.active)
           devices == [p \in (DOMAIN w.devices \ stale) \cup paths |->
                       IF p \in paths THEN info.name ELSE w.devices[p]]
           active == [w.active EXCEPT ![d[1]] =
                       IF w.default[d[1]] = info.name THEN Path(d, info.active) ELSE @]
<1>1. v = [w EXCEPT !.ports = ports, !.devices = devices, !.active = active]
  BY ClientFields, Paths DEF Updated
<1> HIDE DEF v
<1>2. ports \in Partial(Devices, AnyPort) /\ Extended(ports, w.ports, d, info.active)
  <2>1. w.ports \in Partial(Devices, AnyPort) /\ info.active \in AnyPort
    BY ClientFields, InfosAre
  <2> QED
    BY <2>1, WithPartial
<1>3. paths \subseteq AllPaths /\ \A x \in paths : DeviceOf(x) = d
  BY InfosAre
<1>4. DOMAIN w.devices \subseteq AllPaths /\ \A x \in DOMAIN w.devices : w.devices[x] \in Names
  BY ClientFields, Partials
<1>5. devices \in Partial(AllPaths, Names)
  <2>1. devices = [x \in DOMAIN devices |-> devices[x]] /\ DOMAIN devices \subseteq AllPaths
    BY <1>3, <1>4
  <2>2. \A x \in DOMAIN devices : devices[x] \in Names
    BY <1>4, InfosAre
  <2> HIDE DEF devices
  <2> QED
    BY <2>1, <2>2, Partials
<1>6. active \in [Dirs -> AnyPath]
  BY ClientFields, Paths, InfosAre DEF AnyPath
<1>7. \A x \in AllPaths : DeviceOf(x) = d =>
        /\ x \in DOMAIN devices <=> x \in paths
        /\ x \in DOMAIN devices => devices[x] = info.name
  OBVIOUS
<1>8. \A x \in AllPaths : DeviceOf(x) # d =>
        /\ x \in DOMAIN devices <=> x \in DOMAIN w.devices
        /\ x \in DOMAIN w.devices => devices[x] = w.devices[x]
  BY <1>3
<1> HIDE DEF ports, devices, active
<1>9. v \in Clients
  BY <1>1, <1>2, <1>5, <1>6 DEF Clients
<1>10. /\ v.ports = ports /\ v.devices = devices /\ v.active = active
       /\ v.context = w.context /\ v.default = w.default /\ v.escaped = w.escaped /\ v.out = w.out
       /\ v.streams = w.streams
  BY <1>1 DEF Clients
<1>11. Reported(w, v, d, info)
  BY <1>2, <1>7, <1>8, <1>10 DEF Reported, active
<1> QED
  BY <1>9, <1>10, <1>11 DEF v

\* The state after a report: as reported, or an exception has left the callback.
DeviceTold(w, v, d, info) ==
  /\ v \in Clients
  /\ w.escaped => v.escaped
  /\ ~v.escaped => /\ Reported(w, v, d, info) /\ ShownPort(w, v, d, info)
                   /\ \E q \in Seq(Requested) : v.out = w.out \o q

\* HandleActiveOutputPortChanged is over before the tables are updated, and asks for more.
LEMMA DeviceHandled ==
  ASSUME ParametersAre, NEW w \in Clients, NEW d \in Devices, NEW info \in Infos
  PROVE  DeviceTold(w, AddOrUpdateDevice(w, d, info), d, info)
<1> DEFINE v == AddOrUpdateDevice(w, d, info)
           path == Path(d, info.active)
           moved == {s \in StreamsOn(w, d[2]) : w.streams[s].device # path}
           streams == [s \in DOMAIN w.streams |-> IF s \in moved THEN [w.streams[s] EXCEPT !.device = path]
                                                 ELSE w.streams[s]]
           told == HandleActiveOutputPortChanged(w, d, info.active)
<1> SUFFICES DeviceTold(w, v, d, info)
  OBVIOUS
<1>1. /\ w.streams \in Partial(Streams, Shown) /\ DOMAIN w.streams \subseteq Streams
      /\ \A s \in DOMAIN w.streams : w.streams[s] \in Shown
      /\ w.out \in Seq(Requested) /\ w.out = w.out \o <<>> /\ <<>> \in Seq(Requested)
  BY ClientFields, Partials, ConcatEmptySeq
<1>2. \A u \in Clients : /\ Updated(u, d, info) \in Clients /\ Reported(u, Updated(u, d, info), d, info)
                         /\ Updated(u, d, info).escaped = u.escaped
                         /\ Updated(u, d, info).out = u.out
                         /\ Updated(u, d, info).streams = u.streams
  BY UpdatedReports
<1>3. (d = Dev(d[2]) /\ d[2] \in Sinks) \/ d[1] = "in"
  BY DEF Devices, Dev
<1>4. CASE d[1] = "in"
  <2>1. v = Updated(w, d, info)
    BY <1>4 DEF AddOrUpdateDevice, AddOrUpdateInputDevice
  <2>2. \A sink : d # Dev(sink)
    BY <1>4 DEF Dev
  <2>3. ShownPort(w, v, d, info)
    BY <1>2, <2>1, <2>2 DEF ShownPort
  <2> QED
    BY <1>1, <1>2, <2>1, <2>3 DEF DeviceTold
<1>5. CASE d[1] = "out" /\ PortOf(w, d) = info.active
  <2>1. v = Updated(w, d, info)
    BY <1>5 DEF AddOrUpdateDevice, AddOrUpdateOutputDevice
  <2>2. ShownPort(w, v, d, info)
    BY <1>2, <1>5, <2>1 DEF ShownPort
  <2> QED
    BY <1>1, <1>2, <2>1, <2>2 DEF DeviceTold
<1>6. CASE d[1] = "out" /\ PortOf(w, d) # info.active
  <2>1. v = Updated(told, d, info)
    BY <1>6 DEF AddOrUpdateDevice, AddOrUpdateOutputDevice
  <2>2. d = Dev(d[2]) /\ d[2] \in Sinks
    BY <1>3, <1>6
  <2>3. path \in AnyPath
    BY Paths, InfosAre DEF AnyPath
  <2>4. moved \subseteq DOMAIN w.streams /\ \A s \in DOMAIN w.streams :
          s \in moved <=> w.streams[s].sink = d[2] /\ w.streams[s].device # path
    BY DEF StreamsOn
  <2>5. /\ streams \in Partial(Streams, Shown) /\ DOMAIN streams = DOMAIN w.streams
        /\ \A s \in DOMAIN w.streams : /\ streams[s].sink = w.streams[s].sink
                                       /\ s \in moved => streams[s].device = path
                                       /\ s \notin moved => streams[s].device = w.streams[s].device
    <3>1. DOMAIN streams = DOMAIN w.streams /\ streams = [s \in DOMAIN streams |-> streams[s]]
      OBVIOUS
    <3>2. ASSUME NEW s \in DOMAIN w.streams
          PROVE  /\ streams[s] \in Shown /\ streams[s].sink = w.streams[s].sink
                 /\ s \in moved => streams[s].device = path
                 /\ s \notin moved => streams[s].device = w.streams[s].device
      <4>1. w.streams[s] \in Shown
        BY <1>1
      <4> HIDE DEF moved, path
      <4> QED
        BY <2>3, <4>1 DEF Shown
    <3> HIDE DEF streams
    <3> QED
      BY <1>1, <3>1, <3>2, Partials
  <2>6. told = IF moved # {} /\ path \notin DOMAIN w.devices THEN [w EXCEPT !.escaped = TRUE]
               ELSE MoveStreams([w EXCEPT !.streams = streams], moved, d[2])
    BY DEF HandleActiveOutputPortChanged
  <2> HIDE DEF moved, streams, path, told, v
  <2>7. CASE moved # {} /\ path \notin DOMAIN w.devices
    <3>1. told = [w EXCEPT !.escaped = TRUE]
      BY <2>6, <2>7
    <3>2. told \in Clients /\ told.escaped
      BY <3>1 DEF Clients
    <3>3. v.escaped /\ v \in Clients
      BY <1>2, <2>1, <3>2
    <3> QED
      BY <3>3 DEF DeviceTold
  <2>8. CASE ~(moved # {} /\ path \notin DOMAIN w.devices)
    <3> DEFINE u == [w EXCEPT !.streams = streams]
    <3>1. u \in Clients
      BY <2>5 DEF Clients
    <3>2. moved \in SUBSET Streams
      BY <1>1, <2>4
    <3>3. told = MoveStreams(u, moved, d[2])
      BY <2>6, <2>8
    <3>4. PICK q \in Seq(Requested) : told = [u EXCEPT !.out = @ \o q] /\ told \in Clients
      BY <2>2, <3>1, <3>2, <3>3, StreamsMoved
    <3>5. told = [w EXCEPT !.streams = streams, !.out = @ \o q]
      BY <3>4 DEF Clients
    <3>6. /\ told.streams = streams /\ told.out = w.out \o q /\ told.escaped = w.escaped
          /\ told.context = w.context /\ told.default = w.default /\ told.ports = w.ports
          /\ told.devices = w.devices /\ told.active = w.active
      BY <3>5 DEF Clients
    <3>7. Reported(w, v, d, info)
      <4>1. Reported(told, v, d, info)
        BY <1>2, <2>1, <3>4
      <4> QED
        BY <3>6, <4>1 DEF Reported
    <3>8. \A s \in DOMAIN w.streams : d = Dev(w.streams[s].sink) <=> w.streams[s].sink = d[2]
      BY <2>2 DEF Dev
    <3>9. v.streams = streams /\ v.out = w.out \o q /\ v.escaped = w.escaped /\ v \in Clients
      BY <1>2, <2>1, <3>4, <3>6
    <3>10. ShownPort(w, v, d, info)
      BY <2>4, <2>5, <3>8, <3>9 DEF ShownPort, path
    <3> QED
      BY <3>4, <3>7, <3>9, <3>10 DEF DeviceTold
  <2> QED
    BY <2>7, <2>8
<1>7. d[1] \in Dirs
  BY Paths
<1> QED
  BY <1>4, <1>5, <1>6, <1>7 DEF Dirs

\* What a report of a stream does.
StreamTold(w, v, s, sink) ==
  \E x \in Shown :
    /\ v = [w EXCEPT !.streams = With(@, s, x)]
    /\ x.sink = sink
    /\ Dev(sink) \in DOMAIN w.ports => x.device = Path(Dev(sink), w.ports[Dev(sink)])

\* AddOrUpdateStream shows the stream with its sink, and the path of the port if known.
LEMMA StreamHandled ==
  ASSUME NEW w \in Clients, NEW s \in Streams, NEW sink \in Sinks
  PROVE  /\ AddOrUpdateStream(w, s, sink) \in Clients
         /\ StreamTold(w, AddOrUpdateStream(w, s, sink), s, sink)
<1> DEFINE shown == IF s \in DOMAIN w.streams THEN w.streams[s].device ELSE NoPath
           x == [sink |-> sink, device |-> IF Dev(sink) \in DOMAIN w.ports
                                           THEN Path(Dev(sink), w.ports[Dev(sink)]) ELSE shown]
<1>1. w.streams \in Partial(Streams, Shown) /\ w.ports \in Partial(Devices, AnyPort)
  BY ClientFields
<1>2. shown \in AnyPath
  <2>1. s \in DOMAIN w.streams => w.streams[s] \in Shown
    BY <1>1, Partials
  <2>2. s \in DOMAIN w.streams => w.streams[s].device \in AnyPath
    BY <2>1 DEF Shown
  <2> QED
    BY <2>2 DEF AnyPath
<1>3. Dev(sink) \in DOMAIN w.ports => Path(Dev(sink), w.ports[Dev(sink)]) \in AnyPath
  <2>1. Dev(sink) \in DOMAIN w.ports => Dev(sink) \in Devices /\ w.ports[Dev(sink)] \in AnyPort
    BY <1>1, Partials
  <2> QED
    BY <2>1, Paths DEF AnyPath
<1> HIDE DEF shown
<1>4. x \in Shown /\ x.sink = sink
      /\ (Dev(sink) \in DOMAIN w.ports => x.device = Path(Dev(sink), w.ports[Dev(sink)]))
  BY <1>2, <1>3 DEF Shown
<1>5. AddOrUpdateStream(w, s, sink) = [w EXCEPT !.streams = With(@, s, x)]
  BY DEF AddOrUpdateStream, shown, Dev
<1> HIDE DEF x
<1>6. With(w.streams, s, x) \in Partial(Streams, Shown)
  BY <1>1, <1>4, WithPartial
<1>7. [w EXCEPT !.streams = With(@, s, x)] \in Clients
  BY <1>6 DEF Clients
<1> QED
  BY <1>4, <1>5, <1>7 DEF StreamTold

\* Removals leave the tables well formed,
LEMMA RemovalsTyped ==
  ASSUME NEW w \in Clients
  PROVE  /\ \A s : RemoveStream(w, s) \in Clients
         /\ \A d : RemoveDevicesByIndex(w, d) \in Clients
<1>1. \A X : /\ Without(w.streams, X) \in Partial(Streams, Shown)
             /\ Without(w.devices, X) \in Partial(AllPaths, Names)
             /\ Without(w.ports, X) \in Partial(Devices, AnyPort)
  BY ClientFields, WithoutPartial
<1> QED
  BY <1>1 DEF RemoveStream, RemoveDevicesByIndex, Clients

\* and so does a report of the server.
LEMMA ServerTyped ==
  ASSUME NEW w \in Clients, NEW default \in [Dirs -> AnyName]
  PROVE  HandleServerInfo(w, default) \in Clients
<1>1. NoPath \in AnyPath
  BY DEF AnyPath
<1>2. [dir \in Dirs |-> IF default[dir] = w.default[dir] THEN w.active[dir] ELSE NoPath]
        \in [Dirs -> AnyPath]
  BY <1>1, ClientFields
<1> QED
  BY <1>2 DEF HandleServerInfo, Clients
-----------------------------------------------------------------------------
(* Messages *)

\* The events and the answers, by their kinds.
Changed(d, what) == <<"event", d[1], what, d[2]>>
StreamEvent(s, what) == <<"event", "stream", what, s>>
ServerEvent == <<"event", "server", "change", 0>>
DeviceAnswer(p, d) == <<"device", d, p.devices[d]>>
StreamAnswer(p, s) == <<"stream", s, p.streams[s]>>

\* What PulseAudio may send.
DeviceEvents(p) ==
  {Changed(d, "new") : d \in Devices} \cup {Changed(d, "change") : d \in Devices}
    \cup {Changed(d, "remove") : d \in Devices \ DOMAIN p.devices}
StreamEvents(p) ==
  {StreamEvent(s, "new") : s \in Streams} \cup {StreamEvent(s, "change") : s \in Streams}
    \cup {StreamEvent(s, "remove") : s \in Streams \ DOMAIN p.streams}
DeviceAnswers(p) == {DeviceAnswer(p, d) : d \in DOMAIN p.devices}
StreamAnswers(p) == {StreamAnswer(p, s) : s \in DOMAIN p.streams}
PortAnswer(x) == <<"port set", x[1], x[2]>>
PortAnswers == {PortAnswer(x) : x \in Dirs \X Names}
Sent(p) ==
  DeviceEvents(p) \cup StreamEvents(p) \cup DeviceAnswers(p) \cup StreamAnswers(p)
    \cup PortAnswers \cup {ServerEvent, <<"server", p.default>>}

\* The same, one by one.
SentIs(p, m) ==
  \/ \E d \in Devices, what \in {"new", "change"} : m = Changed(d, what)
  \/ \E d \in Devices \ DOMAIN p.devices : m = Changed(d, "remove")
  \/ \E s \in Streams, what \in {"new", "change"} : m = StreamEvent(s, what)
  \/ \E s \in Streams \ DOMAIN p.streams : m = StreamEvent(s, "remove")
  \/ m = ServerEvent
  \/ \E d \in DOMAIN p.devices : m = DeviceAnswer(p, d)
  \/ \E s \in DOMAIN p.streams : m = StreamAnswer(p, s)
  \/ m = <<"server", p.default>>
  \/ \E dir \in Dirs, name \in Names : m = <<"port set", dir, name>>

\* The two agree.
LEMMA SentAre ==
  ASSUME NEW p, NEW m \in Sent(p)
  PROVE  SentIs(p, m)
<1>1. \/ m \in DeviceEvents(p) \/ m \in StreamEvents(p) \/ m \in DeviceAnswers(p)
      \/ m \in StreamAnswers(p) \/ m \in PortAnswers
      \/ m = ServerEvent \/ m = <<"server", p.default>>
  BY DEF Sent
<1>2. m \in DeviceEvents(p) => \/ \E d \in Devices, what \in {"new", "change"} : m = Changed(d, what)
                              \/ \E d \in Devices \ DOMAIN p.devices : m = Changed(d, "remove")
  BY DEF DeviceEvents
<1>3. m \in StreamEvents(p) => \/ \E s \in Streams, what \in {"new", "change"} : m = StreamEvent(s, what)
                              \/ \E s \in Streams \ DOMAIN p.streams : m = StreamEvent(s, "remove")
  BY DEF StreamEvents
<1>4. /\ m \in DeviceAnswers(p) => \E d \in DOMAIN p.devices : m = DeviceAnswer(p, d)
      /\ m \in StreamAnswers(p) => \E s \in DOMAIN p.streams : m = StreamAnswer(p, s)
  BY DEF DeviceAnswers, StreamAnswers
<1>5. m \in PortAnswers => \E dir \in Dirs, name \in Names : m = <<"port set", dir, name>>
  <2>1. m \in PortAnswers => \E x \in Dirs \X Names : m = PortAnswer(x)
    BY Zenon DEF PortAnswers
  <2>2. \A x \in Dirs \X Names : x[1] \in Dirs /\ x[2] \in Names
    OBVIOUS
  <2> QED
    BY <2>1, <2>2, Zenon DEF PortAnswer
<1> QED
  BY <1>1, <1>2, <1>3, <1>4, <1>5 DEF SentIs

\* Handled, one kind of message at a time.
LEMMA HandledIs ==
  ASSUME NEW w
  PROVE  /\ \A d \in Devices, what \in {"new", "change"} : Handled(w, Changed(d, what)) = QueryDevice(w, d)
         /\ \A d \in Devices : Handled(w, Changed(d, "remove")) = RemoveDevicesByIndex(w, d)
         /\ \A s, what : Handled(w, StreamEvent(s, what)) =
              IF what = "remove" THEN RemoveStream(w, s) ELSE QueryStream(w, s)
         /\ Handled(w, ServerEvent) = QueryServerInfo(w)
         /\ \A d, info : Handled(w, <<"device", d, info>>) = AddOrUpdateDevice(w, d, info)
         /\ \A s, sink : Handled(w, <<"stream", s, sink>>) = AddOrUpdateStream(w, s, sink)
         /\ \A default : Handled(w, <<"server", default>>) = HandleServerInfo(w, default)
         /\ \A dir, name : Handled(w, <<"port set", dir, name>>) = SetDefault(w, dir, name)
<1>1. \A f, what, x : Handled(w, <<"event", f, what, x>>) = HandleEvent(w, f, what, x)
  BY DEF Handled
<1>2. ASSUME NEW d \in Devices, NEW what
      PROVE  Handled(w, Changed(d, what)) = HandleDeviceChanged(w, d, what)
  <2>1. d[1] \in Dirs /\ <<d[1], d[2]>> = d
    BY Paths
  <2>2. d[1] # "server" /\ d[1] # "stream"
    BY <2>1 DEF Dirs
  <2>3. Handled(w, Changed(d, what)) = HandleEvent(w, d[1], what, d[2])
    BY <1>1 DEF Changed
  <2> QED
    BY <2>1, <2>2, <2>3 DEF HandleEvent
<1>3. \A s, what : Handled(w, StreamEvent(s, what)) = HandleStreamChanged(w, s, what)
  BY <1>1 DEF HandleEvent, StreamEvent
<1>4. Handled(w, ServerEvent) = QueryServerInfo(w)
  BY <1>1 DEF HandleEvent, ServerEvent
<1>5. \A d, info : Handled(w, <<"device", d, info>>) = AddOrUpdateDevice(w, d, info)
  BY DEF Handled
<1>6. \A s, sink : Handled(w, <<"stream", s, sink>>) = AddOrUpdateStream(w, s, sink)
  BY DEF Handled
<1>7. \A default : Handled(w, <<"server", default>>) = HandleServerInfo(w, default)
  BY DEF Handled
<1>8. \A dir, name : Handled(w, <<"port set", dir, name>>) = SetDefault(w, dir, name)
  BY DEF Handled
<1>9. \A s, what : HandleStreamChanged(w, s, what) =
                     IF what = "remove" THEN RemoveStream(w, s) ELSE QueryStream(w, s)
  BY DEF HandleStreamChanged
<1>10. /\ \A d \in Devices : HandleDeviceChanged(w, d, "remove") = RemoveDevicesByIndex(w, d)
       /\ \A d \in Devices, what \in {"new", "change"} : HandleDeviceChanged(w, d, what) = QueryDevice(w, d)
  BY DEF HandleDeviceChanged
<1> QED
  BY <1>2, <1>3, <1>4, <1>5, <1>6, <1>7, <1>8, <1>9, <1>10

-----------------------------------------------------------------------------
(* What is on its way *)

\* A request of S is among q; a message of S is among those after the first k of ms.
Asks(q, S) == \E i \in DOMAIN q : q[i] \in S
Comes(ms, k, S) == \E i \in DOMAIN ms : i > k /\ ms[i] \in S

\* What is answered with a report of a device, and of a stream.
DeviceQueries(d) == {<<"list", d[1]>>, <<"device", d>>}
StreamQueries(s) == {<<"streams">>, <<"stream", s>>}

\* What makes the service ask for a device, and for a stream.
DeviceNews(d) == {Changed(d, "new"), Changed(d, "change")}
StreamNews(s) == {StreamEvent(s, "new"), StreamEvent(s, "change")}

\* A report of a device, a stream or the server, as it is now, is asked for or under way.
DeviceDue(p, q, ms, k, d) ==
  \/ Asks(q, DeviceQueries(d))
  \/ Comes(ms, k, DeviceNews(d) \cup {DeviceAnswer(p, d)})

StreamDue(p, q, ms, k, s) ==
  \/ Asks(q, StreamQueries(s))
  \/ Comes(ms, k, StreamNews(s) \cup {StreamAnswer(p, s)})

ServerDue(p, q, ms, k) ==
  \/ Asks(q, {<<"server">>})
  \/ Comes(ms, k, {ServerEvent, <<"server", p.default>>})

\* The device is asked for, and the stream after it.
InTurn(q, d, s) ==
  \E i, j \in DOMAIN q : i < j /\ q[i] \in DeviceQueries(d) /\ q[j] \in StreamQueries(s)

\* The device is reported, and the stream after it.
Before(p, q, ms, k, d, s) ==
  \/ InTurn(q, d, s)
  \/ Asks(q, StreamQueries(s)) /\ Comes(ms, k, {DeviceAnswer(p, d)})
  \/ Asks(q, DeviceQueries(d)) /\ Comes(ms, k, StreamNews(s))

\* A device is to become the default one, once its port is set.
DefaultDue(q, ms, k, d, port, name) ==
  \/ Asks(q, {<<"port", d, port, name>>, <<"default", d[1], name>>})
  \/ Comes(ms, k, {<<"port set", d[1], name>>})

\* What was asked for still is when requests are appended,
LEMMA AsksMore ==
  ASSUME NEW q \in Seq(Requested), NEW r \in Requested, NEW more \in Seq(Requested)
  PROVE  /\ \A S : Asks(q, S) => Asks(Append(q, r), S) /\ Asks(q \o more, S)
         /\ \A S : r \in S => Asks(Append(q, r), S)
         /\ \A d, s : InTurn(q, d, s) => InTurn(Append(q, r), d, s) /\ InTurn(q \o more, d, s)
         /\ \A d, s : Asks(q, DeviceQueries(d)) /\ r \in StreamQueries(s) =>
              InTurn(Append(q, r), d, s)
<1>1. /\ Len(q) \in Nat /\ DOMAIN q = 1 .. Len(q) /\ DOMAIN Append(q, r) = 1 .. Len(q) + 1
      /\ \A i \in 1 .. Len(q) : Append(q, r)[i] = q[i]
      /\ Append(q, r)[Len(q) + 1] = r
  BY AppendProperties, LenProperties
<1>2. /\ Len(more) \in Nat /\ DOMAIN (q \o more) = 1 .. Len(q) + Len(more)
      /\ \A i \in 1 .. Len(q) : (q \o more)[i] = q[i]
  BY ConcatProperties, LenProperties
<1>3. \A i \in DOMAIN q : /\ i \in DOMAIN Append(q, r) /\ Append(q, r)[i] = q[i]
                          /\ i \in DOMAIN (q \o more) /\ (q \o more)[i] = q[i]
                          /\ i < Len(q) + 1
  BY <1>1, <1>2
<1>4. Len(q) + 1 \in DOMAIN Append(q, r)
  BY <1>1
<1>5. \A S : Asks(q, S) => Asks(Append(q, r), S) /\ Asks(q \o more, S)
  BY <1>3 DEF Asks
<1>6. \A S : r \in S => Asks(Append(q, r), S)
  BY <1>1, <1>4 DEF Asks
<1>7. \A d, s : InTurn(q, d, s) => InTurn(Append(q, r), d, s) /\ InTurn(q \o more, d, s)
  BY <1>3 DEF InTurn
<1>8. \A d, s : Asks(q, DeviceQueries(d)) /\ r \in StreamQueries(s) => InTurn(Append(q, r), d, s)
  BY <1>1, <1>3, <1>4 DEF InTurn, Asks
<1> QED
  BY <1>5, <1>6, <1>7, <1>8

\* one or many,
LEMMA AsksAll ==
  ASSUME NEW q \in Seq(Requested), NEW more \in Seq(Requested)
  PROVE  /\ \A S : Asks(q, S) => Asks(q \o more, S)
         /\ \A d, s : InTurn(q, d, s) => InTurn(q \o more, d, s)
<1>1. <<"server">> \in Requested
  BY DEF Requested
<1> QED
  BY <1>1, AsksMore

\* and when PulseAudio takes the first it is that one, or still asked for.
LEMMA AsksNext ==
  ASSUME NEW q \in Seq(Requested), q # <<>>
  PROVE  /\ Tail(q) \in Seq(Requested) /\ Head(q) \in Requested
         /\ \A S : Asks(q, S) => Head(q) \in S \/ Asks(Tail(q), S)
         /\ \A d, s : InTurn(q, d, s) => \/ InTurn(Tail(q), d, s)
                                         \/ Head(q) \in DeviceQueries(d) /\ Asks(Tail(q), StreamQueries(s))
<1>1. /\ Len(q) \in Nat \ {0} /\ DOMAIN q = 1 .. Len(q) /\ Tail(q) \in Seq(Requested)
      /\ Len(Tail(q)) = Len(q) - 1 /\ \A i \in 1 .. Len(Tail(q)) : Tail(q)[i] = q[i + 1]
      /\ Head(q) = q[1] /\ Head(q) \in Requested
  BY HeadTailProperties, LenProperties, EmptySeq
<1>2. DOMAIN Tail(q) = 1 .. Len(q) - 1
  BY <1>1, LenProperties
<1>3. \A i \in DOMAIN q : i \in Nat /\ (i = 1 \/ (i - 1 \in DOMAIN Tail(q) /\ Tail(q)[i - 1] = q[i]))
  <2> SUFFICES ASSUME NEW i \in DOMAIN q, i # 1
               PROVE  i \in Nat /\ i - 1 \in DOMAIN Tail(q) /\ Tail(q)[i - 1] = q[i]
    BY <1>1
  <2>1. i \in Nat /\ i - 1 \in 1 .. Len(q) - 1 /\ (i - 1) + 1 = i
    BY <1>1
  <2> QED
    BY <1>1, <1>2, <2>1
<1>4. \A S : Asks(q, S) => Head(q) \in S \/ Asks(Tail(q), S)
  BY <1>1, <1>3 DEF Asks
<1>5. ASSUME NEW d, NEW s, InTurn(q, d, s)
      PROVE  \/ InTurn(Tail(q), d, s)
             \/ Head(q) \in DeviceQueries(d) /\ Asks(Tail(q), StreamQueries(s))
  <2>1. PICK i, j \in DOMAIN q : i < j /\ q[i] \in DeviceQueries(d) /\ q[j] \in StreamQueries(s)
    BY <1>5 DEF InTurn
  <2>2. j # 1 /\ i \in Nat /\ j \in Nat /\ j - 1 \in DOMAIN Tail(q) /\ Tail(q)[j - 1] = q[j]
    BY <1>1, <1>3, <2>1
  <2>3. CASE i = 1
    BY <1>1, <2>1, <2>2, <2>3 DEF Asks
  <2>4. CASE i # 1
    <3>1. i - 1 \in DOMAIN Tail(q) /\ Tail(q)[i - 1] = q[i] /\ i - 1 < j - 1
      BY <1>3, <2>1, <2>2, <2>4
    <3> QED
      BY <2>1, <2>2, <3>1 DEF InTurn
  <2> QED
    BY <2>3, <2>4
<1> QED
  BY <1>1, <1>4, <1>5

\* A message to come is the next one, or comes after it.
LEMMA ComesNext ==
  ASSUME NEW ms, Len(ms) \in Nat, DOMAIN ms = 1 .. Len(ms), NEW k \in 0 .. Len(ms) - 1
  PROVE  \A S : Comes(ms, k, S) => ms[k + 1] \in S \/ Comes(ms, k + 1, S)
<1> SUFFICES ASSUME NEW S, Comes(ms, k, S), ms[k + 1] \notin S PROVE Comes(ms, k + 1, S)
  OBVIOUS
<1>1. PICK i \in DOMAIN ms : i > k /\ ms[i] \in S
  BY DEF Comes
<1>2. i # k + 1 /\ i \in Nat
  BY <1>1
<1>3. i > k + 1
  BY <1>1, <1>2
<1> QED
  BY <1>1, <1>3 DEF Comes

\* Nothing comes of no messages.
LEMMA NoneComes == \A S : ~Comes(<<>>, 0, S)
  BY DEF Comes

-----------------------------------------------------------------------------
(* The tables and what is on its way *)

\* What PulseAudio keeps of its own: the names differ, the default devices are there, and so are
\* the streams' sinks; nothing comes back that was gone.
Consistent(p) ==
  /\ \A d, e \in DOMAIN p.devices : d[1] = e[1] /\ p.devices[d].name = p.devices[e].name => d = e
  /\ \A dir \in Dirs : p.default[dir] # NoName => Owner(p, dir, p.default[dir]) # {}
  /\ \A s \in DOMAIN p.streams : Dev(p.streams[s]) \in DOMAIN p.devices
  /\ DOMAIN p.devices \subseteq p.used /\ DOMAIN p.streams \subseteq p.usedStreams

\* The service has the device as it is now,
Known(p, w, d) ==
  /\ d \in DOMAIN w.ports /\ w.ports[d] = p.devices[d].active
  /\ \A x \in AllPaths : DeviceOf(x) = d =>
       (x \in DOMAIN w.devices <=> x \in PathsOf(d, p.devices[d]))

\* or has nothing of it.
Unknown(w, d) ==
  /\ d \notin DOMAIN w.ports
  /\ \A x \in AllPaths : DeviceOf(x) = d => x \notin DOMAIN w.devices

\* A device is known as it is, or a report of it is due.
DevicesFollow(p, w, ms, k) ==
  \A d \in DOMAIN p.devices : DeviceDue(p, w.out, ms, k, d) \/ Known(p, w, d)

\* A device that is gone is not known, or its removal is to come.
DevicesGo(p, w, ms, k) ==
  \A d \in Devices \ DOMAIN p.devices : Comes(ms, k, {Changed(d, "remove")}) \/ Unknown(w, d)

\* The name of a device never changes, so that the one kept is right.
NamesFollow(p, w) ==
  \A x \in DOMAIN w.devices : DeviceOf(x) \in DOMAIN p.devices =>
    w.devices[x] = p.devices[DeviceOf(x)].name

\* A stream is known with its sink, or a report of it is due.
StreamsFollow(p, w, ms, k) ==
  \A s \in DOMAIN p.streams :
    \/ StreamDue(p, w.out, ms, k, s)
    \/ s \in DOMAIN w.streams /\ w.streams[s].sink = p.streams[s]

\* A stream that is gone is not known, or its removal is to come.
StreamsGo(p, w, ms, k) ==
  \A s \in Streams \ DOMAIN p.streams : Comes(ms, k, {StreamEvent(s, "remove")}) \/ s \notin DOMAIN w.streams

\* The default names are PulseAudio's, or a report of the server is due.
DefaultFollows(p, w, ms, k) == w.default = p.default \/ ServerDue(p, w.out, ms, k)

\* An active device shown is the active port of the default one, or a report of it is due.
ActiveFollows(p, w, ms, k) ==
  \A dir \in Dirs : w.active[dir] # NoPath =>
    /\ w.default[dir] # NoName
    /\ \A d \in Owner(p, dir, w.default[dir]) :
         DeviceDue(p, w.out, ms, k, d) \/ w.active[dir] = Path(d, p.devices[d].active)

\* A stream whose sink is not known yet is reported after it: otherwise it would never get a path.
SinksFirst(p, w, ms, k) ==
  \A s \in DOMAIN p.streams : Dev(p.streams[s]) \notin DOMAIN w.ports =>
    Before(p, w.out, ms, k, Dev(p.streams[s]), s)

\* So is one that is shown with a sink not known.
ShownSinksFirst(p, w, ms, k) ==
  \A s \in DOMAIN w.streams :
    /\ Dev(w.streams[s].sink) \in p.used
    /\ Dev(w.streams[s].sink) \notin DOMAIN w.ports /\ Dev(w.streams[s].sink) \in DOMAIN p.devices =>
         Before(p, w.out, ms, k, Dev(w.streams[s].sink), s)

\* A stream shows the active port of its sink, or what a client chose.
PathShown(w, c, s) ==
  \/ w.streams[s].device = Path(Dev(w.streams[s].sink), w.ports[Dev(w.streams[s].sink)])
  \/ w.streams[s].device = c[s]

\* A stream's path is right, or a report of the stream is due.
PathsFollow(p, w, c, ms, k) ==
  \A s \in DOMAIN w.streams : Dev(w.streams[s].sink) \in DOMAIN w.ports =>
    PathShown(w, c, s) \/ StreamDue(p, w.out, ms, k, s)

\* What a client made active is still to become the default device.
ChoicesFollow(p, w, a, ms, k) ==
  \A dir \in Dirs : a[dir] # NoPath =>
    /\ Pending(a[dir], p) /\ a[dir] \in AllPaths /\ a[dir][1] = dir
    /\ DefaultDue(w.out, ms, k, DeviceOf(a[dir]), a[dir][3], p.devices[DeviceOf(a[dir])].name)

\* The tables follow PulseAudio's.
TablesFollow(p, w, ms, k) ==
  /\ DevicesFollow(p, w, ms, k) /\ DevicesGo(p, w, ms, k) /\ NamesFollow(p, w)
  /\ StreamsFollow(p, w, ms, k) /\ StreamsGo(p, w, ms, k) /\ DefaultFollows(p, w, ms, k)

\* The service follows PulseAudio: what it does not have right is asked for or under way.
Follows(p, w, c, a, ms, k) ==
  /\ TablesFollow(p, w, ms, k) /\ ActiveFollows(p, w, ms, k)
  /\ SinksFirst(p, w, ms, k) /\ ShownSinksFirst(p, w, ms, k)
  /\ PathsFollow(p, w, c, ms, k) /\ ChoicesFollow(p, w, a, ms, k)

\* All that was on its way still is, but for some devices and streams, and the default
\* devices if that is not meant to.
Carried(p, q, ms, k, q2, ms2, k2, X, Y, server) ==
  /\ \A d \in Devices \ X : /\ DeviceDue(p, q, ms, k, d) => DeviceDue(p, q2, ms2, k2, d)
                            /\ Comes(ms, k, {Changed(d, "remove")}) =>
                                 Comes(ms2, k2, {Changed(d, "remove")})
  /\ \A s \in Streams \ Y : /\ StreamDue(p, q, ms, k, s) => StreamDue(p, q2, ms2, k2, s)
                            /\ Comes(ms, k, {StreamEvent(s, "remove")}) =>
                                 Comes(ms2, k2, {StreamEvent(s, "remove")})
  /\ \A d \in Devices, s \in Streams : Before(p, q, ms, k, d, s) =>
       \/ Before(p, q2, ms2, k2, d, s)
       \/ d \in X /\ StreamDue(p, q2, ms2, k2, s)
  /\ server => (ServerDue(p, q, ms, k) => ServerDue(p, q2, ms2, k2))
  /\ \A d \in Devices : \A port, name :
       DefaultDue(q, ms, k, d, port, name) => DefaultDue(q2, ms2, k2, d, port, name)

\* What is reported after a device is reported.
LEMMA BeforeDue == \A p, q, ms, k, d, s : Before(p, q, ms, k, d, s) => StreamDue(p, q, ms, k, s)
<1> SUFFICES ASSUME NEW p, NEW q, NEW ms, NEW k, NEW d, NEW s, Before(p, q, ms, k, d, s)
             PROVE  StreamDue(p, q, ms, k, s)
  OBVIOUS
<1>1. InTurn(q, d, s) => Asks(q, StreamQueries(s))
  BY DEF InTurn, Asks
<1>2. Comes(ms, k, StreamNews(s)) => Comes(ms, k, StreamNews(s) \cup {StreamAnswer(p, s)})
  BY DEF Comes
<1> QED
  BY <1>1, <1>2 DEF Before, StreamDue

\* Only the requests and the context may differ.
SameTables(w, v) ==
  /\ v.devices = w.devices /\ v.ports = w.ports /\ v.streams = w.streams
  /\ v.active = w.active /\ v.default = w.default

\* Requests and messages that carry all that was due keep the service following.
LEMMA StillFollows ==
  ASSUME NEW p \in Pulses, Consistent(p), NEW w \in Clients, NEW v, SameTables(w, v),
         NEW c, NEW a, NEW ms, NEW k, NEW ms2, NEW k2,
         Follows(p, w, c, a, ms, k), Carried(p, w.out, ms, k, v.out, ms2, k2, {}, {}, TRUE)
  PROVE  Follows(p, v, c, a, ms2, k2)
<1> USE DEF SameTables, Carried
<1>0. /\ DOMAIN w.streams \subseteq Streams /\ DOMAIN p.streams \subseteq Streams
      /\ DOMAIN p.devices \subseteq Devices
  BY ClientFields, PulseFields, Partials
<1>1. DevicesFollow(p, v, ms2, k2)
  BY <1>0 DEF Follows, TablesFollow, DevicesFollow, Known
<1>2. DevicesGo(p, v, ms2, k2)
  BY DEF Follows, TablesFollow, DevicesGo, Unknown
<1>3. NamesFollow(p, v)
  BY DEF Follows, TablesFollow, NamesFollow
<1>4. StreamsFollow(p, v, ms2, k2)
  BY <1>0 DEF Follows, TablesFollow, StreamsFollow
<1>5. StreamsGo(p, v, ms2, k2)
  BY DEF Follows, TablesFollow, StreamsGo
<1>6. DefaultFollows(p, v, ms2, k2)
  BY DEF Follows, TablesFollow, DefaultFollows
<1>7. ActiveFollows(p, v, ms2, k2)
  BY <1>0 DEF Follows, ActiveFollows, Owner
<1>8. SinksFirst(p, v, ms2, k2)
  BY <1>0 DEF Follows, SinksFirst, Consistent
<1>9. ShownSinksFirst(p, v, ms2, k2)
  BY <1>0 DEF Follows, ShownSinksFirst
<1>10. PathsFollow(p, v, c, ms2, k2)
  BY <1>0 DEF Follows, PathsFollow, PathShown
<1>11. ChoicesFollow(p, v, a, ms2, k2)
  BY Paths DEF Follows, ChoicesFollow
<1> QED
  BY <1>1, <1>2, <1>3, <1>4, <1>5, <1>6, <1>7, <1>8, <1>9, <1>10, <1>11 DEF Follows, TablesFollow

\* A report of a device makes that one known, and nothing else of what was due is lost.
LEMMA DeviceReportFollows ==
  ASSUME ParametersAre, NEW p \in Pulses, Consistent(p), NEW w \in Clients, NEW v \in Clients,
         NEW d0 \in DOMAIN p.devices,
         Reported(w, v, d0, p.devices[d0]), ShownPort(w, v, d0, p.devices[d0]),
         NEW c, NEW a, NEW ms, NEW k, NEW k2, Follows(p, w, c, a, ms, k),
         Carried(p, w.out, ms, k, v.out, ms, k2, {d0}, {}, TRUE)
  PROVE  Follows(p, v, c, a, ms, k2)
<1> DEFINE info == p.devices[d0]
<1>0. /\ DOMAIN w.streams \subseteq Streams /\ DOMAIN p.streams \subseteq Streams
      /\ DOMAIN p.devices \subseteq Devices
      /\ DOMAIN w.devices \subseteq AllPaths /\ DOMAIN v.devices \subseteq AllPaths
      /\ d0 \in Devices /\ d0[1] \in Dirs /\ info \in Infos /\ info.name # NoName
      /\ w.active \in [Dirs -> AnyPath]
  BY ClientFields, PulseFields, Partials, Paths, InfosAre
<1> USE DEF Carried
<1>1. DevicesFollow(p, v, ms, k2)
  <2> SUFFICES ASSUME NEW d \in DOMAIN p.devices
               PROVE  DeviceDue(p, v.out, ms, k2, d) \/ Known(p, v, d)
    BY DEF DevicesFollow
  <2>1. CASE d = d0
    BY <2>1 DEF Reported, Known, Extended
  <2>2. CASE d # d0
    <3>1. DeviceDue(p, w.out, ms, k, d) \/ Known(p, w, d)
      BY DEF Follows, TablesFollow, DevicesFollow
    <3>2. Known(p, w, d) => Known(p, v, d)
      BY <2>2 DEF Known, Reported, Extended
    <3> QED
      BY <1>0, <2>2, <3>1, <3>2
  <2> QED
    BY <2>1, <2>2
<1>2. DevicesGo(p, v, ms, k2)
  BY DEF Follows, TablesFollow, DevicesGo, Unknown, Reported, Extended
<1>3. NamesFollow(p, v)
  BY <1>0 DEF Follows, TablesFollow, NamesFollow, Reported
<1>4. StreamsFollow(p, v, ms, k2)
  BY <1>0 DEF Follows, TablesFollow, StreamsFollow, ShownPort
<1>5. StreamsGo(p, v, ms, k2)
  BY DEF Follows, TablesFollow, StreamsGo, ShownPort
<1>6. DefaultFollows(p, v, ms, k2)
  BY DEF Follows, TablesFollow, DefaultFollows, Reported
<1>7. ActiveFollows(p, v, ms, k2)
  <2> SUFFICES ASSUME NEW dir \in Dirs, v.active[dir] # NoPath
               PROVE  /\ v.default[dir] # NoName
                      /\ \A d \in Owner(p, dir, v.default[dir]) :
                           DeviceDue(p, v.out, ms, k2, d) \/ v.active[dir] = Path(d, p.devices[d].active)
    BY DEF ActiveFollows
  <2>1. v.default = w.default
    BY DEF Reported
  <2>2. CASE dir = d0[1] /\ w.default[dir] = info.name
    <3>1. v.active[dir] = Path(d0, info.active)
      BY <1>0, <2>2 DEF Reported
    <3>2. \A d \in Owner(p, dir, w.default[dir]) : d = d0
      BY <2>2 DEF Owner, Consistent
    <3> QED
      BY <1>0, <2>1, <2>2, <3>1, <3>2
  <2>3. CASE ~(dir = d0[1] /\ w.default[dir] = info.name)
    <3>1. v.active[dir] = w.active[dir]
      BY <1>0, <2>3 DEF Reported
    <3>2. \A d \in Owner(p, dir, w.default[dir]) : d # d0 /\ d \in Devices
      BY <1>0, <2>3 DEF Owner
    <3> QED
      BY <2>1, <3>1, <3>2 DEF Follows, ActiveFollows
  <2> QED
    BY <2>2, <2>3
<1>8. SinksFirst(p, v, ms, k2)
  BY <1>0 DEF Follows, SinksFirst, Consistent, Reported, Extended
<1>9. ShownSinksFirst(p, v, ms, k2)
  BY <1>0 DEF Follows, ShownSinksFirst, Reported, ShownPort, Extended
<1>10. PathsFollow(p, v, c, ms, k2)
  <2> SUFFICES ASSUME NEW s \in DOMAIN w.streams, Dev(v.streams[s].sink) \in DOMAIN v.ports
               PROVE  PathShown(v, c, s) \/ StreamDue(p, v.out, ms, k2, s)
    BY DEF PathsFollow, ShownPort
  <2> DEFINE d == Dev(w.streams[s].sink)
  <2>1. /\ v.streams[s].sink = w.streams[s].sink /\ s \in Streams
        /\ \/ v.streams[s].device = w.streams[s].device
           \/ d0 = d /\ v.streams[s].device = Path(d0, info.active)
        /\ d0 = d /\ PortOf(w, d0) # info.active => v.streams[s].device = Path(d0, info.active)
    BY <1>0 DEF ShownPort
  <2>2. /\ d \in DOMAIN w.ports => PathShown(w, c, s) \/ StreamDue(p, w.out, ms, k, s)
        /\ StreamDue(p, w.out, ms, k, s) => StreamDue(p, v.out, ms, k2, s)
    BY <2>1 DEF Follows, PathsFollow
  <2>3. v.ports[d0] = info.active /\ DOMAIN v.ports = DOMAIN w.ports \cup {d0}
        /\ \A e \in DOMAIN w.ports : e # d0 => v.ports[e] = w.ports[e]
    BY DEF Reported, Extended
  <2>4. CASE d # d0
    BY <2>1, <2>2, <2>3, <2>4 DEF PathShown
  <2>5. CASE d = d0 /\ v.streams[s].device = Path(d0, info.active)
    BY <2>1, <2>3, <2>5 DEF PathShown
  <2>6. CASE d = d0 /\ v.streams[s].device = w.streams[s].device /\ PortOf(w, d0) = info.active
    <3>1. CASE d0 \in DOMAIN w.ports
      BY <2>1, <2>2, <2>3, <2>6, <3>1 DEF PathShown, PortOf
    <3>2. CASE d0 \notin DOMAIN w.ports
      <4>1. Before(p, w.out, ms, k, d0, s)
        BY <2>6, <3>2 DEF Follows, ShownSinksFirst
      <4>2. StreamDue(p, w.out, ms, k, s)
        BY <4>1, BeforeDue
      <4> QED
        BY <2>2, <4>2
    <3> QED
      BY <3>1, <3>2
  <2> QED
    BY <2>1, <2>4, <2>5, <2>6
<1>11. ChoicesFollow(p, v, a, ms, k2)
  BY Paths DEF Follows, ChoicesFollow
<1> QED
  BY <1>1, <1>2, <1>3, <1>4, <1>5, <1>6, <1>7, <1>8, <1>9, <1>10, <1>11 DEF Follows, TablesFollow

\* The same of a report of a stream.
LEMMA StreamReportFollows ==
  ASSUME NEW p \in Pulses, Consistent(p), NEW w \in Clients, NEW v \in Clients,
         NEW s0 \in DOMAIN p.streams,
         StreamTold(w, v, s0, p.streams[s0]),
         NEW c, NEW a, NEW ms, NEW k, NEW k2, Follows(p, w, c, a, ms, k),
         Carried(p, w.out, ms, k, v.out, ms, k2, {}, {s0}, TRUE)
  PROVE  Follows(p, v, c, a, ms, k2)
<1> DEFINE sink == p.streams[s0]
<1>0. /\ DOMAIN w.streams \subseteq Streams /\ DOMAIN p.streams \subseteq Streams
      /\ DOMAIN p.devices \subseteq Devices
      /\ Dev(sink) \in DOMAIN p.devices /\ Dev(sink) \in p.used
      /\ w.streams \in Partial(Streams, Shown)
  BY ClientFields, PulseFields, Partials DEF Consistent
<1>1. PICK x \in Shown :
    /\ v = [w EXCEPT !.streams = With(@, s0, x)]
    /\ x.sink = sink
    /\ Dev(sink) \in DOMAIN w.ports => x.device = Path(Dev(sink), w.ports[Dev(sink)])
  BY DEF StreamTold
<1>2. /\ v.devices = w.devices /\ v.ports = w.ports /\ v.active = w.active /\ v.default = w.default
      /\ v.streams = With(w.streams, s0, x)
  BY <1>1 DEF Clients
<1>3. Extended(v.streams, w.streams, s0, x)
  BY <1>0, <1>2, WithPartial
<1>4. /\ DOMAIN v.streams = DOMAIN w.streams \cup {s0} /\ v.streams[s0] = x
      /\ \A s \in DOMAIN w.streams : s # s0 => v.streams[s] = w.streams[s]
  BY <1>3 DEF Extended
<1> USE DEF Carried
<1>5. TablesFollow(p, v, ms, k2)
  <2>1. DevicesFollow(p, v, ms, k2)
    BY <1>0, <1>2 DEF Follows, TablesFollow, DevicesFollow, Known
  <2>2. DevicesGo(p, v, ms, k2)
    BY <1>2 DEF Follows, TablesFollow, DevicesGo, Unknown
  <2>3. NamesFollow(p, v)
    BY <1>2 DEF Follows, TablesFollow, NamesFollow
  <2>4. StreamsFollow(p, v, ms, k2)
    BY <1>0, <1>1, <1>4 DEF Follows, TablesFollow, StreamsFollow
  <2>5. StreamsGo(p, v, ms, k2)
    BY <1>0, <1>4 DEF Follows, TablesFollow, StreamsGo
  <2>6. DefaultFollows(p, v, ms, k2)
    BY <1>2 DEF Follows, TablesFollow, DefaultFollows
  <2> QED
    BY <2>1, <2>2, <2>3, <2>4, <2>5, <2>6 DEF TablesFollow
<1>6. ActiveFollows(p, v, ms, k2)
  BY <1>0, <1>2 DEF Follows, ActiveFollows, Owner
<1>7. SinksFirst(p, v, ms, k2)
  BY <1>0, <1>2 DEF Follows, SinksFirst, Consistent
<1>8. ShownSinksFirst(p, v, ms, k2)
  BY <1>0, <1>1, <1>2, <1>4 DEF Follows, ShownSinksFirst, SinksFirst
<1>9. PathsFollow(p, v, c, ms, k2)
  BY <1>0, <1>1, <1>2, <1>4 DEF Follows, PathsFollow, PathShown
<1>10. ChoicesFollow(p, v, a, ms, k2)
  BY Paths DEF Follows, ChoicesFollow
<1> QED
  BY <1>5, <1>6, <1>7, <1>8, <1>9, <1>10 DEF Follows

\* The same of a report of the server: the active devices shown are those that stayed the default.
LEMMA ServerReportFollows ==
  ASSUME NEW p \in Pulses, Consistent(p), NEW w \in Clients,
         NEW c, NEW a, NEW ms, NEW k, NEW k2, Follows(p, w, c, a, ms, k),
         Carried(p, w.out, ms, k, w.out, ms, k2, {}, {}, FALSE)
  PROVE  Follows(p, HandleServerInfo(w, p.default), c, a, ms, k2)
<1> DEFINE v == HandleServerInfo(w, p.default)
<1>0. /\ DOMAIN w.streams \subseteq Streams /\ DOMAIN p.streams \subseteq Streams
      /\ DOMAIN p.devices \subseteq Devices
  BY ClientFields, PulseFields, Partials
<1>1. /\ v.devices = w.devices /\ v.ports = w.ports /\ v.streams = w.streams
      /\ v.default = p.default /\ v.out = w.out
      /\ \A dir \in Dirs : v.active[dir] = IF p.default[dir] = w.default[dir] THEN w.active[dir] ELSE NoPath
  BY DEF HandleServerInfo, Clients
<1> HIDE DEF v
<1> USE DEF Carried
<1>5. TablesFollow(p, v, ms, k2)
  <2>1. DevicesFollow(p, v, ms, k2)
    BY <1>0, <1>1 DEF Follows, TablesFollow, DevicesFollow, Known
  <2>2. DevicesGo(p, v, ms, k2)
    BY <1>1 DEF Follows, TablesFollow, DevicesGo, Unknown
  <2>3. NamesFollow(p, v)
    BY <1>1 DEF Follows, TablesFollow, NamesFollow
  <2>4. StreamsFollow(p, v, ms, k2)
    BY <1>0, <1>1 DEF Follows, TablesFollow, StreamsFollow
  <2>5. StreamsGo(p, v, ms, k2)
    BY <1>0, <1>1 DEF Follows, TablesFollow, StreamsGo
  <2>6. DefaultFollows(p, v, ms, k2)
    BY <1>1 DEF DefaultFollows
  <2> QED
    BY <2>1, <2>2, <2>3, <2>4, <2>5, <2>6 DEF TablesFollow
<1>6. ActiveFollows(p, v, ms, k2)
  <2> SUFFICES ASSUME NEW dir \in Dirs, v.active[dir] # NoPath
               PROVE  /\ v.default[dir] # NoName
                      /\ \A d \in Owner(p, dir, v.default[dir]) :
                           DeviceDue(p, v.out, ms, k2, d) \/ v.active[dir] = Path(d, p.devices[d].active)
    BY DEF ActiveFollows
  <2>1. v.active[dir] = w.active[dir] /\ v.default[dir] = w.default[dir]
    BY <1>1
  <2>2. /\ w.default[dir] # NoName
        /\ \A d \in Owner(p, dir, w.default[dir]) :
             /\ d \in Devices
             /\ (DeviceDue(p, w.out, ms, k, d) \/ w.active[dir] = Path(d, p.devices[d].active))
    BY <1>0, <2>1 DEF Follows, ActiveFollows, Owner
  <2> QED
    BY <1>1, <2>1, <2>2
<1>7. SinksFirst(p, v, ms, k2)
  BY <1>0, <1>1 DEF Follows, SinksFirst, Consistent
<1>8. ShownSinksFirst(p, v, ms, k2)
  BY <1>0, <1>1 DEF Follows, ShownSinksFirst
<1>9. PathsFollow(p, v, c, ms, k2)
  BY <1>0, <1>1 DEF Follows, PathsFollow, PathShown
<1>10. ChoicesFollow(p, v, a, ms, k2)
  BY <1>1, Paths DEF Follows, ChoicesFollow
<1> QED
  BY <1>5, <1>6, <1>7, <1>8, <1>9, <1>10 DEF Follows, v

\* The same of the removal of a device,
LEMMA DeviceRemovalFollows ==
  ASSUME NEW p \in Pulses, Consistent(p), NEW w \in Clients, NEW d0 \in Devices \ DOMAIN p.devices,
         NEW c, NEW a, NEW ms, NEW k, NEW k2, Follows(p, w, c, a, ms, k),
         Carried(p, w.out, ms, k, w.out, ms, k2, {d0}, {}, TRUE)
  PROVE  Follows(p, RemoveDevicesByIndex(w, d0), c, a, ms, k2)
<1> DEFINE v == RemoveDevicesByIndex(w, d0)
           gone == {x \in DOMAIN w.devices : DeviceOf(x) = d0}
<1>0. /\ DOMAIN w.streams \subseteq Streams /\ DOMAIN p.streams \subseteq Streams
      /\ DOMAIN p.devices \subseteq Devices
      /\ DOMAIN w.devices \subseteq AllPaths
      /\ w.devices \in Partial(AllPaths, Names) /\ w.ports \in Partial(Devices, AnyPort)
  BY ClientFields, PulseFields, Partials
<1>1. /\ v.streams = w.streams /\ v.default = w.default /\ v.out = w.out /\ v.active = w.active
      /\ v.devices = Without(w.devices, gone) /\ v.ports = Without(w.ports, {d0})
  BY DEF RemoveDevicesByIndex, Clients
<1> HIDE DEF v
<1>2. /\ DOMAIN v.devices = DOMAIN w.devices \ gone
      /\ \A x \in DOMAIN v.devices : v.devices[x] = w.devices[x]
      /\ DOMAIN v.ports = DOMAIN w.ports \ {d0}
      /\ \A d \in DOMAIN v.ports : v.ports[d] = w.ports[d]
  <2> HIDE DEF gone
  <2>1. Reduced(v.devices, w.devices, gone) /\ Reduced(v.ports, w.ports, {d0})
    BY <1>0, <1>1, WithoutPartial
  <2> QED
    BY <2>1 DEF Reduced
<1> USE DEF Carried
<1>5. TablesFollow(p, v, ms, k2)
  <2>1. DevicesFollow(p, v, ms, k2)
    BY <1>0, <1>1, <1>2 DEF Follows, TablesFollow, DevicesFollow, Known
  <2>2. DevicesGo(p, v, ms, k2)
    BY <1>0, <1>2 DEF Follows, TablesFollow, DevicesGo, Unknown
  <2>3. NamesFollow(p, v)
    BY <1>2 DEF Follows, TablesFollow, NamesFollow
  <2>4. StreamsFollow(p, v, ms, k2)
    BY <1>0, <1>1 DEF Follows, TablesFollow, StreamsFollow
  <2>5. StreamsGo(p, v, ms, k2)
    BY <1>0, <1>1 DEF Follows, TablesFollow, StreamsGo
  <2>6. DefaultFollows(p, v, ms, k2)
    BY <1>1 DEF Follows, TablesFollow, DefaultFollows
  <2> QED
    BY <2>1, <2>2, <2>3, <2>4, <2>5, <2>6 DEF TablesFollow
<1>6. ActiveFollows(p, v, ms, k2)
  BY <1>0, <1>1 DEF Follows, ActiveFollows, Owner
<1>7. SinksFirst(p, v, ms, k2)
  BY <1>0, <1>1, <1>2 DEF Follows, SinksFirst, Consistent
<1>8. ShownSinksFirst(p, v, ms, k2)
  BY <1>0, <1>1, <1>2 DEF Follows, ShownSinksFirst
<1>9. PathsFollow(p, v, c, ms, k2)
  BY <1>0, <1>1, <1>2 DEF Follows, PathsFollow, PathShown
<1>10. ChoicesFollow(p, v, a, ms, k2)
  BY <1>1, Paths DEF Follows, ChoicesFollow
<1> QED
  BY <1>5, <1>6, <1>7, <1>8, <1>9, <1>10 DEF Follows, v

\* and of a stream.
LEMMA StreamRemovalFollows ==
  ASSUME NEW p \in Pulses, Consistent(p), NEW w \in Clients, NEW s0 \in Streams \ DOMAIN p.streams,
         NEW c, NEW a, NEW ms, NEW k, NEW k2, Follows(p, w, c, a, ms, k),
         Carried(p, w.out, ms, k, w.out, ms, k2, {}, {s0}, TRUE)
  PROVE  Follows(p, RemoveStream(w, s0), c, a, ms, k2)
<1> DEFINE v == RemoveStream(w, s0)
<1>0. /\ DOMAIN w.streams \subseteq Streams /\ DOMAIN p.streams \subseteq Streams
      /\ DOMAIN p.devices \subseteq Devices
      /\ w.streams \in Partial(Streams, Shown)
  BY ClientFields, PulseFields, Partials
<1>1. /\ v.devices = w.devices /\ v.default = w.default /\ v.out = w.out /\ v.active = w.active
      /\ v.ports = w.ports /\ v.streams = Without(w.streams, {s0})
  BY DEF RemoveStream, Clients
<1> HIDE DEF v
<1>2. /\ DOMAIN v.streams = DOMAIN w.streams \ {s0}
      /\ \A s \in DOMAIN v.streams : v.streams[s] = w.streams[s]
  <2>1. Reduced(v.streams, w.streams, {s0})
    BY <1>0, <1>1, WithoutPartial
  <2> QED
    BY <2>1 DEF Reduced
<1> USE DEF Carried
<1>5. TablesFollow(p, v, ms, k2)
  <2>1. DevicesFollow(p, v, ms, k2)
    BY <1>0, <1>1 DEF Follows, TablesFollow, DevicesFollow, Known
  <2>2. DevicesGo(p, v, ms, k2)
    BY <1>1 DEF Follows, TablesFollow, DevicesGo, Unknown
  <2>3. NamesFollow(p, v)
    BY <1>1 DEF Follows, TablesFollow, NamesFollow
  <2>4. StreamsFollow(p, v, ms, k2)
    BY <1>0, <1>1, <1>2 DEF Follows, TablesFollow, StreamsFollow
  <2>5. StreamsGo(p, v, ms, k2)
    BY <1>0, <1>2 DEF Follows, TablesFollow, StreamsGo
  <2>6. DefaultFollows(p, v, ms, k2)
    BY <1>1 DEF Follows, TablesFollow, DefaultFollows
  <2> QED
    BY <2>1, <2>2, <2>3, <2>4, <2>5, <2>6 DEF TablesFollow
<1>6. ActiveFollows(p, v, ms, k2)
  BY <1>0, <1>1 DEF Follows, ActiveFollows, Owner
<1>7. SinksFirst(p, v, ms, k2)
  BY <1>0, <1>1 DEF Follows, SinksFirst, Consistent
<1>8. ShownSinksFirst(p, v, ms, k2)
  BY <1>0, <1>1, <1>2 DEF Follows, ShownSinksFirst
<1>9. PathsFollow(p, v, c, ms, k2)
  BY <1>0, <1>1, <1>2 DEF Follows, PathsFollow, PathShown
<1>10. ChoicesFollow(p, v, a, ms, k2)
  BY <1>1, Paths DEF Follows, ChoicesFollow
<1> QED
  BY <1>5, <1>6, <1>7, <1>8, <1>9, <1>10 DEF Follows, v

-----------------------------------------------------------------------------
(* A message is handled *)

\* What q asks for q2 asks for too, in the same turn.
More(q, q2) ==
  /\ \A S : Asks(q, S) => Asks(q2, S)
  /\ \A d, s : InTurn(q, d, s) => InTurn(q2, d, s)

\* The queries that a message is to cause are made, but for some devices and streams.
Caused(p, m, q, q2, X, Y, server) ==
  /\ \A d \in Devices \ X : /\ m \in DeviceNews(d) \cup {DeviceAnswer(p, d)} =>
                                 Asks(q2, DeviceQueries(d))
                            /\ m # DeviceAnswer(p, d) /\ m # Changed(d, "remove")
  /\ \A s \in Streams \ Y : /\ m \in StreamNews(s) \cup {StreamAnswer(p, s)} =>
                                 Asks(q2, StreamQueries(s))
                            /\ m # StreamEvent(s, "remove")
  /\ \A d \in Devices, s \in Streams : m \in StreamNews(s) /\ Asks(q, DeviceQueries(d)) =>
       InTurn(q2, d, s)
  /\ server => (m \in {ServerEvent, <<"server", p.default>>} => Asks(q2, {<<"server">>}))
  /\ \A d \in Devices : \A name : m = <<"port set", d[1], name>> =>
       Asks(q2, {<<"default", d[1], name>>})

\* The next message is handled: what it was to cause is asked for.
LEMMA CarriedNext ==
  ASSUME NEW p, NEW q, NEW q2, More(q, q2), NEW ms, Len(ms) \in Nat, DOMAIN ms = 1 .. Len(ms),
         NEW k \in 0 .. Len(ms) - 1, NEW X, NEW Y, NEW server \in BOOLEAN,
         Caused(p, ms[k + 1], q, q2, X, Y, server)
  PROVE  Carried(p, q, ms, k, q2, ms, k + 1, X, Y, server)
<1> DEFINE m == ms[k + 1]
<1>0. /\ \A S : Comes(ms, k, S) => m \in S \/ Comes(ms, k + 1, S)
      /\ \A S : Asks(q, S) => Asks(q2, S)
      /\ \A d, s : InTurn(q, d, s) => InTurn(q2, d, s)
  BY ComesNext DEF More
<1> HIDE DEF m
<1>1. Caused(p, m, q, q2, X, Y, server)
  BY DEF m
<1> USE DEF Caused
<1>2. \A d \in Devices \ X : /\ DeviceDue(p, q, ms, k, d) => DeviceDue(p, q2, ms, k + 1, d)
                             /\ Comes(ms, k, {Changed(d, "remove")}) =>
                                  Comes(ms, k + 1, {Changed(d, "remove")})
  BY <1>0, <1>1 DEF DeviceDue
<1>3. \A s \in Streams \ Y : /\ StreamDue(p, q, ms, k, s) => StreamDue(p, q2, ms, k + 1, s)
                             /\ Comes(ms, k, {StreamEvent(s, "remove")}) =>
                                  Comes(ms, k + 1, {StreamEvent(s, "remove")})
  BY <1>0, <1>1 DEF StreamDue
<1>4. ASSUME NEW d \in Devices, NEW s \in Streams, Before(p, q, ms, k, d, s)
      PROVE  \/ Before(p, q2, ms, k + 1, d, s)
             \/ d \in X /\ StreamDue(p, q2, ms, k + 1, s)
  BY <1>0, <1>1, <1>4 DEF Before, StreamDue
<1>5. server => (ServerDue(p, q, ms, k) => ServerDue(p, q2, ms, k + 1))
  BY <1>0, <1>1 DEF ServerDue
<1>6. ASSUME NEW d \in Devices, NEW port, NEW name, DefaultDue(q, ms, k, d, port, name)
      PROVE  DefaultDue(q2, ms, k + 1, d, port, name)
  <2>2. Asks(q2, {<<"default", d[1], name>>}) =>
          Asks(q2, {<<"port", d, port, name>>, <<"default", d[1], name>>})
    BY DEF Asks
  <2> QED
    BY <1>0, <1>1, <1>6, <2>2 DEF DefaultDue
<1> QED
  BY <1>2, <1>3, <1>4, <1>5, <1>6 DEF Carried

\* What a message may be about.
Concerns(p, m, D, T, server, set) ==
  /\ \A e \in Devices \ D : m \notin DeviceNews(e) /\ m # Changed(e, "remove") /\ m # DeviceAnswer(p, e)
  /\ \A t \in Streams \ T : m \notin StreamNews(t) /\ m # StreamAnswer(p, t) /\ m # StreamEvent(t, "remove")
  /\ server \/ m \notin {ServerEvent, <<"server", p.default>>}
  /\ set \/ \A dir, name : m # <<"port set", dir, name>>

\* No message is one of another kind, or about another device or stream.
LEMMA DeviceKinds ==
  ASSUME NEW p, NEW d \in Devices, NEW what
  PROVE  /\ Concerns(p, Changed(d, what), {d}, {}, FALSE, FALSE)
         /\ Changed(d, what) # DeviceAnswer(p, d)
         /\ what # "remove" => Changed(d, what) # Changed(d, "remove")
         /\ Concerns(p, DeviceAnswer(p, d), {d}, {}, FALSE, FALSE)
<1>1. d[1] \in Dirs /\ <<d[1], d[2]>> = d /\ \A e \in Devices : <<e[1], e[2]>> = e
  BY Paths
<1>2. d[1] # "stream" /\ d[1] # "server"
  BY <1>1 DEF Dirs
<1>3. \A e \in Devices : \A x : Changed(d, what) = Changed(e, x) => e = d /\ what = x
  <2> SUFFICES ASSUME NEW e \in Devices, NEW x, Changed(d, what) = Changed(e, x)
               PROVE  e = d /\ what = x
    OBVIOUS
  <2>1. d[1] = e[1] /\ what = x /\ d[2] = e[2]
    BY DEF Changed
  <2> QED
    BY <1>1, <2>1
<1>4. \A e : Changed(d, what) # DeviceAnswer(p, e)
  BY DEF Changed, DeviceAnswer
<1>5. \A t, x : Changed(d, what) # StreamAnswer(p, t) /\ Changed(d, what) # StreamEvent(t, x)
  BY <1>2 DEF Changed, StreamAnswer, StreamEvent
<1>6. /\ Changed(d, what) # ServerEvent /\ \A x, y : Changed(d, what) # <<"port set", x, y>>
      /\ \A x : Changed(d, what) # <<"server", x>>
  BY <1>2 DEF Changed, ServerEvent
<1>7. Concerns(p, Changed(d, what), {d}, {}, FALSE, FALSE)
  BY <1>3, <1>4, <1>5, <1>6 DEF Concerns, DeviceNews, StreamNews
<1>8. /\ \A e, x : DeviceAnswer(p, d) # Changed(e, x)
      /\ \A e : e # d => DeviceAnswer(p, d) # DeviceAnswer(p, e)
      /\ \A t, x : DeviceAnswer(p, d) # StreamAnswer(p, t) /\ DeviceAnswer(p, d) # StreamEvent(t, x)
  BY DEF Changed, DeviceAnswer, StreamAnswer, StreamEvent
<1>9. /\ DeviceAnswer(p, d) # ServerEvent /\ \A x, y : DeviceAnswer(p, d) # <<"port set", x, y>>
      /\ \A x : DeviceAnswer(p, d) # <<"server", x>>
  BY DEF DeviceAnswer, ServerEvent
<1>10. Concerns(p, DeviceAnswer(p, d), {d}, {}, FALSE, FALSE)
  BY <1>8, <1>9 DEF Concerns, DeviceNews, StreamNews
<1> QED
  BY <1>3, <1>4, <1>7, <1>10

\* The same of a stream's messages,
LEMMA StreamKinds ==
  ASSUME NEW p, NEW s, NEW what
  PROVE  /\ Concerns(p, StreamEvent(s, what), {}, {s}, FALSE, FALSE)
         /\ StreamEvent(s, what) # StreamAnswer(p, s)
         /\ what # "remove" => StreamEvent(s, what) # StreamEvent(s, "remove")
         /\ StreamEvent(s, "remove") \notin StreamNews(s)
         /\ Concerns(p, StreamAnswer(p, s), {}, {s}, FALSE, FALSE)
         /\ StreamAnswer(p, s) \notin StreamNews(s)
<1>1. \A e \in Devices : e[1] # "stream"
  BY Paths DEF Dirs
<1>2. \A e \in Devices : \A x : /\ StreamEvent(s, what) # Changed(e, x)
                                /\ StreamEvent(s, what) # DeviceAnswer(p, e)
  BY <1>1 DEF Changed, DeviceAnswer, StreamEvent
<1>3. \A t, x, y : /\ StreamEvent(s, x) = StreamEvent(t, y) => t = s /\ x = y
                   /\ StreamEvent(s, x) # StreamAnswer(p, t)
  BY DEF StreamAnswer, StreamEvent
<1>4. /\ StreamEvent(s, what) # ServerEvent /\ \A x, y : StreamEvent(s, what) # <<"port set", x, y>>
      /\ \A x : StreamEvent(s, what) # <<"server", x>>
  BY DEF StreamEvent, ServerEvent
<1>5. Concerns(p, StreamEvent(s, what), {}, {s}, FALSE, FALSE)
  BY <1>2, <1>3, <1>4 DEF Concerns, DeviceNews, StreamNews
<1>6. /\ \A e, x : StreamAnswer(p, s) # Changed(e, x) /\ StreamAnswer(p, s) # DeviceAnswer(p, e)
      /\ \A t, x : StreamAnswer(p, s) # StreamEvent(t, x)
      /\ \A t : t # s => StreamAnswer(p, s) # StreamAnswer(p, t)
  BY DEF Changed, DeviceAnswer, StreamAnswer, StreamEvent
<1>7. /\ StreamAnswer(p, s) # ServerEvent /\ \A x, y : StreamAnswer(p, s) # <<"port set", x, y>>
      /\ \A x : StreamAnswer(p, s) # <<"server", x>>
  BY DEF StreamAnswer, ServerEvent
<1>8. Concerns(p, StreamAnswer(p, s), {}, {s}, FALSE, FALSE)
  BY <1>6, <1>7 DEF Concerns, DeviceNews, StreamNews
<1> QED
  BY <1>3, <1>5, <1>6, <1>8 DEF StreamNews

\* and of the others.
LEMMA OtherKinds ==
  ASSUME NEW p, NEW default
  PROVE  /\ Concerns(p, ServerEvent, {}, {}, TRUE, FALSE)
         /\ Concerns(p, <<"server", default>>, {}, {}, TRUE, FALSE)
         /\ \A dir, name : Concerns(p, <<"port set", dir, name>>, {}, {}, FALSE, TRUE)
<1>1. \A e \in Devices : e[1] # "server"
  BY Paths DEF Dirs
<1>2. \A e \in Devices : \A x : ServerEvent # Changed(e, x) /\ ServerEvent # DeviceAnswer(p, e)
  BY <1>1 DEF Changed, DeviceAnswer, ServerEvent
<1>3. /\ \A t, x : ServerEvent # StreamEvent(t, x) /\ ServerEvent # StreamAnswer(p, t)
      /\ \A x, y : ServerEvent # <<"port set", x, y>>
  BY DEF StreamAnswer, StreamEvent, ServerEvent
<1>4. /\ \A e, x : <<"server", default>> # Changed(e, x) /\ <<"server", default>> # StreamEvent(e, x)
      /\ \A e : <<"server", default>> # DeviceAnswer(p, e) /\ <<"server", default>> # StreamAnswer(p, e)
      /\ \A x, y : <<"server", default>> # <<"port set", x, y>>
  BY DEF Changed, DeviceAnswer, StreamAnswer, StreamEvent
<1>5. ASSUME NEW dir, NEW name
      PROVE  /\ \A e, x : /\ <<"port set", dir, name>> # Changed(e, x)
                          /\ <<"port set", dir, name>> # StreamEvent(e, x)
             /\ \A e : /\ <<"port set", dir, name>> # DeviceAnswer(p, e)
                       /\ <<"port set", dir, name>> # StreamAnswer(p, e)
             /\ <<"port set", dir, name>> # ServerEvent
             /\ \A x : <<"port set", dir, name>> # <<"server", x>>
  BY DEF Changed, DeviceAnswer, StreamAnswer, StreamEvent, ServerEvent
<1>6. Concerns(p, ServerEvent, {}, {}, TRUE, FALSE)
  BY <1>2, <1>3 DEF Concerns, DeviceNews, StreamNews
<1>7. Concerns(p, <<"server", default>>, {}, {}, TRUE, FALSE)
  BY <1>4 DEF Concerns, DeviceNews, StreamNews
<1>8. ASSUME NEW dir, NEW name PROVE Concerns(p, <<"port set", dir, name>>, {}, {}, FALSE, TRUE)
  BY <1>5 DEF Concerns, DeviceNews, StreamNews
<1> QED
  BY <1>6, <1>7, <1>8

\* Nothing is lost where nothing changes.
LEMMA MoreSame == \A q : More(q, q)
  BY DEF More

\* Ask keeps the tables and what was asked for.
LEMMA QueryCauses ==
  ASSUME NEW w \in Clients, w.context # "none", NEW r \in Requested
  PROVE  /\ Ask(w, r) \in Clients /\ SameTables(w, Ask(w, r)) /\ Ask(w, r).escaped = w.escaped
         /\ Ask(w, r).context = w.context /\ More(w.out, Ask(w, r).out)
         /\ \A S : r \in S => Asks(Ask(w, r).out, S)
         /\ \A d, s : Asks(w.out, DeviceQueries(d)) /\ r \in StreamQueries(s) =>
              InTurn(Ask(w, r).out, d, s)
<1>1. Ask(w, r) \in Clients /\ Ask(w, r) = [w EXCEPT !.out = Append(@, r)]
  BY AskAppends DEF Appended
<1>2. SameTables(w, Ask(w, r)) /\ Ask(w, r).out = Append(w.out, r) /\ Ask(w, r).escaped = w.escaped
      /\ Ask(w, r).context = w.context
  BY <1>1 DEF SameTables, Clients
<1>3. w.out \in Seq(Requested)
  BY ClientFields
<1> QED
  BY <1>1, <1>2, <1>3, AsksMore DEF More

\* The state after a message: still following, or an exception has left the callback.
Handles(p, w, v, c, a, ms, k) ==
  /\ v \in Clients
  /\ w.escaped => v.escaped
  /\ v.escaped \/ (v.context = w.context /\ Follows(p, v, c, a, ms, k + 1))

\* A message that asks for more.
LEMMA QueryHandles ==
  ASSUME NEW p \in Pulses, Consistent(p), NEW w \in Clients, w.context # "none",
         NEW r \in Requested,
         NEW c, NEW a, NEW ms, Len(ms) \in Nat, DOMAIN ms = 1 .. Len(ms),
         NEW k \in 0 .. Len(ms) - 1,
         Follows(p, w, c, a, ms, k),
         Caused(p, ms[k + 1], w.out, Ask(w, r).out, {}, {}, TRUE)
  PROVE  Handles(p, w, Ask(w, r), c, a, ms, k)
<1>1. /\ Ask(w, r) \in Clients /\ SameTables(w, Ask(w, r)) /\ Ask(w, r).escaped = w.escaped
      /\ Ask(w, r).context = w.context /\ More(w.out, Ask(w, r).out)
  BY QueryCauses
<1>2. Carried(p, w.out, ms, k, Ask(w, r).out, ms, k + 1, {}, {}, TRUE)
  BY <1>1, CarriedNext
<1>3. Follows(p, Ask(w, r), c, a, ms, k + 1)
  BY <1>1, <1>2, StillFollows
<1> QED
  BY <1>1, <1>3 DEF Handles

\* Whatever message PulseAudio sent is handled, the service goes on following.
LEMMA MessageHandled ==
  ASSUME ParametersAre, NEW p \in Pulses, Consistent(p), NEW w \in Clients, w.context # "none",
         NEW c, NEW a, NEW ms, Len(ms) \in Nat, DOMAIN ms = 1 .. Len(ms),
         NEW k \in 0 .. Len(ms) - 1,
         ms[k + 1] \in Sent(p), Follows(p, w, c, a, ms, k)
  PROVE  Handles(p, w, Handled(w, ms[k + 1]), c, a, ms, k)
<1> DEFINE m == ms[k + 1]
<1>0. DOMAIN p.devices \subseteq Devices /\ DOMAIN p.streams \subseteq Streams
      /\ More(w.out, w.out) /\ p.default \in [Dirs -> AnyName]
  BY PulseFields, MoreSame
<1>1. ASSUME NEW d \in Devices, NEW what \in {"new", "change"}, m = Changed(d, what)
      PROVE  Handles(p, w, Handled(w, m), c, a, ms, k)
  <2>1. Handled(w, m) = Ask(w, <<"device", d>>) /\ <<"device", d>> \in Requested
    BY <1>1, HandledIs DEF QueryDevice, Requested
  <2>2. \A S : <<"device", d>> \in S => Asks(Ask(w, <<"device", d>>).out, S)
    BY <2>1, QueryCauses
  <2>3. Asks(Ask(w, <<"device", d>>).out, DeviceQueries(d))
    BY <2>2 DEF DeviceQueries
  <2>4. /\ Concerns(p, m, {d}, {}, FALSE, FALSE)
        /\ m # DeviceAnswer(p, d) /\ m # Changed(d, "remove")
    BY <1>1, DeviceKinds
  <2> HIDE DEF m
  <2>5. Caused(p, m, w.out, Ask(w, <<"device", d>>).out, {}, {}, TRUE)
    BY <2>3, <2>4 DEF Caused, Concerns
  <2> QED
    BY <2>1, <2>5, QueryHandles DEF m
<1>2. ASSUME NEW d \in Devices \ DOMAIN p.devices, m = Changed(d, "remove")
      PROVE  Handles(p, w, Handled(w, m), c, a, ms, k)
  <2>1. Caused(p, m, w.out, w.out, {d}, {}, TRUE)
    <3>1. Concerns(p, m, {d}, {}, FALSE, FALSE)
      BY <1>2, DeviceKinds
    <3> HIDE DEF m
    <3> QED
      BY <3>1 DEF Caused, Concerns
  <2>2. Carried(p, w.out, ms, k, w.out, ms, k + 1, {d}, {}, TRUE)
    BY <1>0, <2>1, CarriedNext
  <2>3. Follows(p, RemoveDevicesByIndex(w, d), c, a, ms, k + 1)
    BY <2>2, DeviceRemovalFollows
  <2>4. Handled(w, m) = RemoveDevicesByIndex(w, d) /\ RemoveDevicesByIndex(w, d) \in Clients
    BY <1>2, HandledIs, RemovalsTyped
  <2>5. /\ RemoveDevicesByIndex(w, d).context = w.context
        /\ RemoveDevicesByIndex(w, d).escaped = w.escaped
    BY DEF RemoveDevicesByIndex, Clients
  <2> QED
    BY <2>3, <2>4, <2>5 DEF Handles
<1>3. ASSUME NEW s \in Streams, NEW what \in {"new", "change"}, m = StreamEvent(s, what)
      PROVE  Handles(p, w, Handled(w, m), c, a, ms, k)
  <2>1. Handled(w, m) = Ask(w, <<"stream", s>>) /\ <<"stream", s>> \in Requested
    BY <1>3, HandledIs DEF QueryStream, Requested
  <2>2. <<"stream", s>> \in StreamQueries(s)
    BY DEF StreamQueries
  <2>3. /\ Asks(Ask(w, <<"stream", s>>).out, StreamQueries(s))
        /\ \A d : Asks(w.out, DeviceQueries(d)) => InTurn(Ask(w, <<"stream", s>>).out, d, s)
    BY <2>1, <2>2, QueryCauses
  <2>4. /\ Concerns(p, m, {}, {s}, FALSE, FALSE)
        /\ m # StreamAnswer(p, s) /\ m # StreamEvent(s, "remove")
    BY <1>3, StreamKinds
  <2> HIDE DEF m
  <2>5. Caused(p, m, w.out, Ask(w, <<"stream", s>>).out, {}, {}, TRUE)
    BY <2>3, <2>4 DEF Caused, Concerns
  <2> QED
    BY <2>1, <2>5, QueryHandles DEF m
<1>4. ASSUME NEW s \in Streams \ DOMAIN p.streams, m = StreamEvent(s, "remove")
      PROVE  Handles(p, w, Handled(w, m), c, a, ms, k)
  <2>1. Caused(p, m, w.out, w.out, {}, {s}, TRUE)
    <3>1. Concerns(p, m, {}, {s}, FALSE, FALSE) /\ m \notin StreamNews(s)
      BY <1>4, StreamKinds
    <3> HIDE DEF m
    <3> QED
      BY <3>1 DEF Caused, Concerns
  <2>2. Carried(p, w.out, ms, k, w.out, ms, k + 1, {}, {s}, TRUE)
    BY <1>0, <2>1, CarriedNext
  <2>3. Follows(p, RemoveStream(w, s), c, a, ms, k + 1)
    BY <2>2, StreamRemovalFollows
  <2>4. Handled(w, m) = RemoveStream(w, s) /\ RemoveStream(w, s) \in Clients
    BY <1>4, HandledIs, RemovalsTyped
  <2>5. RemoveStream(w, s).context = w.context /\ RemoveStream(w, s).escaped = w.escaped
    BY DEF RemoveStream, Clients
  <2> QED
    BY <2>3, <2>4, <2>5 DEF Handles
<1>5. ASSUME m = ServerEvent
      PROVE  Handles(p, w, Handled(w, m), c, a, ms, k)
  <2>1. Handled(w, m) = Ask(w, <<"server">>) /\ <<"server">> \in Requested
    BY <1>5, HandledIs DEF QueryServerInfo, Requested
  <2>2. \A S : <<"server">> \in S => Asks(Ask(w, <<"server">>).out, S)
    BY <2>1, QueryCauses
  <2>3. Caused(p, m, w.out, Ask(w, <<"server">>).out, {}, {}, TRUE)
    <3>1. Concerns(p, m, {}, {}, TRUE, FALSE)
      BY <1>5, OtherKinds
    <3> HIDE DEF m
    <3> QED
      BY <2>2, <3>1 DEF Caused, Concerns
  <2> QED
    BY <2>1, <2>3, QueryHandles
<1>6. ASSUME NEW d \in DOMAIN p.devices, m = DeviceAnswer(p, d)
      PROVE  Handles(p, w, Handled(w, m), c, a, ms, k)
  <2> DEFINE v == AddOrUpdateDevice(w, d, p.devices[d])
  <2>1. p.devices[d] \in Infos /\ d \in Devices
    BY PulseFields
  <2>2. Handled(w, m) = v /\ DeviceTold(w, v, d, p.devices[d])
    BY <1>6, <2>1, HandledIs, DeviceHandled DEF DeviceAnswer
  <2> HIDE DEF v
  <2>3. ASSUME ~v.escaped PROVE Follows(p, v, c, a, ms, k + 1) /\ v.context = w.context
    <3>1. PICK q \in Seq(Requested) : v.out = w.out \o q
      BY <2>2, <2>3 DEF DeviceTold
    <3>2. More(w.out, v.out)
      <4>1. w.out \in Seq(Requested)
        BY ClientFields
      <4> QED
        BY <3>1, <4>1, AsksAll DEF More
    <3>3. Caused(p, m, w.out, v.out, {d}, {}, TRUE)
      <4>1. Concerns(p, m, {d}, {}, FALSE, FALSE)
        BY <1>6, <2>1, DeviceKinds
      <4> HIDE DEF m
      <4> QED
        BY <4>1 DEF Caused, Concerns
    <3>4. Carried(p, w.out, ms, k, v.out, ms, k + 1, {d}, {}, TRUE)
      BY <3>2, <3>3, CarriedNext
    <3> QED
      BY <2>2, <2>3, <3>4, DeviceReportFollows DEF DeviceTold, Reported
  <2> QED
    BY <2>2, <2>3 DEF Handles, DeviceTold
<1>7. ASSUME NEW s \in DOMAIN p.streams, m = StreamAnswer(p, s)
      PROVE  Handles(p, w, Handled(w, m), c, a, ms, k)
  <2> DEFINE v == AddOrUpdateStream(w, s, p.streams[s])
  <2>1. p.streams[s] \in Sinks /\ s \in Streams
    BY PulseFields
  <2>2. Handled(w, m) = v /\ v \in Clients /\ StreamTold(w, v, s, p.streams[s])
    <3>1. m = <<"stream", s, p.streams[s]>>
      BY <1>7 DEF StreamAnswer
    <3>2. Handled(w, m) = v
      BY <3>1, HandledIs
    <3> QED
      BY <2>1, <3>2, StreamHandled
  <2> HIDE DEF v
  <2>3. v.out = w.out /\ v.context = w.context /\ v.escaped = w.escaped
    BY <2>2 DEF StreamTold, Clients
  <2>4. Caused(p, m, w.out, v.out, {}, {s}, TRUE)
    <3>1. Concerns(p, m, {}, {s}, FALSE, FALSE) /\ m \notin StreamNews(s)
      BY <1>7, StreamKinds
    <3> HIDE DEF m
    <3> QED
      BY <3>1 DEF Caused, Concerns
  <2>5. Carried(p, w.out, ms, k, v.out, ms, k + 1, {}, {s}, TRUE)
    BY <1>0, <2>3, <2>4, CarriedNext
  <2> QED
    BY <2>2, <2>3, <2>5, StreamReportFollows DEF Handles
<1>8. ASSUME m = <<"server", p.default>>
      PROVE  Handles(p, w, Handled(w, m), c, a, ms, k)
  <2>1. Caused(p, m, w.out, w.out, {}, {}, FALSE)
    <3>1. Concerns(p, m, {}, {}, TRUE, FALSE)
      BY <1>8, OtherKinds
    <3> HIDE DEF m
    <3> QED
      BY <3>1 DEF Caused, Concerns
  <2>2. Carried(p, w.out, ms, k, w.out, ms, k + 1, {}, {}, FALSE)
    BY <1>0, <2>1, CarriedNext
  <2>3. Follows(p, HandleServerInfo(w, p.default), c, a, ms, k + 1)
    BY <2>2, ServerReportFollows
  <2>4. Handled(w, m) = HandleServerInfo(w, p.default) /\ HandleServerInfo(w, p.default) \in Clients
    BY <1>0, <1>8, HandledIs, ServerTyped
  <2>5. /\ HandleServerInfo(w, p.default).context = w.context
        /\ HandleServerInfo(w, p.default).escaped = w.escaped
    BY DEF HandleServerInfo, Clients
  <2> QED
    BY <2>3, <2>4, <2>5 DEF Handles
<1>9. ASSUME NEW dir \in Dirs, NEW name \in Names, m = <<"port set", dir, name>>
      PROVE  Handles(p, w, Handled(w, m), c, a, ms, k)
  <2> DEFINE r == <<"default", dir, name>>
  <2>1. Handled(w, m) = Ask(w, r) /\ r \in Requested
    BY <1>9, HandledIs DEF SetDefault, Requested
  <2>2. \A S : r \in S => Asks(Ask(w, r).out, S)
    BY <2>1, QueryCauses
  <2>3. \A x, n : m = <<"port set", x, n>> => r = <<"default", x, n>>
    <3> SUFFICES ASSUME NEW x, NEW n, m = <<"port set", x, n>> PROVE r = <<"default", x, n>>
      OBVIOUS
    <3>1. <<"port set", dir, name>> = <<"port set", x, n>>
      BY <1>9
    <3> HIDE DEF m
    <3>2. dir = x /\ name = n
      BY <3>1
    <3> QED
      BY <3>2
  <2>4. Concerns(p, m, {}, {}, FALSE, TRUE)
    BY <1>9, OtherKinds
  <2> HIDE DEF r, m
  <2>5. Caused(p, m, w.out, Ask(w, r).out, {}, {}, TRUE)
    BY <2>2, <2>3, <2>4 DEF Caused, Concerns
  <2> QED
    BY <2>1, <2>5, QueryHandles DEF m
<1> HIDE DEF m
<1>10. m \in Sent(p)
  BY DEF m
<1>11. Handles(p, w, Handled(w, m), c, a, ms, k)
  <2>1. SentIs(p, m)
    BY <1>10, SentAre
  <2> QED
    BY <1>1, <1>2, <1>3, <1>4, <1>5, <1>6, <1>7, <1>8, <1>9, <2>1 DEF SentIs
<1> QED
  BY <1>11 DEF m

\* A message leaves the tables well formed, whatever they are.
Tolerated(w, v) == v \in Clients /\ (w.escaped => v.escaped)

\* So does a request.
LEMMA AskTolerated ==
  ASSUME NEW w \in Clients, NEW r \in Requested
  PROVE  Tolerated(w, Ask(w, r))
<1>1. CASE w.context = "none"
  BY <1>1 DEF Ask, Tolerated
<1>2. CASE w.context # "none"
  BY <1>2, QueryCauses DEF Tolerated
<1> QED
  BY <1>1, <1>2

\* A message of any kind, handled by a service that need not follow.
LEMMA HandledTyped ==
  ASSUME ParametersAre, NEW p \in Pulses, NEW w \in Clients, NEW m \in Sent(p)
  PROVE  Tolerated(w, Handled(w, m))
<1>0. DOMAIN p.devices \subseteq Devices /\ DOMAIN p.streams \subseteq Streams
      /\ p.default \in [Dirs -> AnyName]
  BY PulseFields
<1>1. ASSUME NEW d \in Devices, NEW what \in {"new", "change"}, m = Changed(d, what)
      PROVE  Tolerated(w, Handled(w, m))
  <2>1. Handled(w, m) = Ask(w, <<"device", d>>) /\ <<"device", d>> \in Requested
    BY <1>1, HandledIs DEF QueryDevice, Requested
  <2> QED
    BY <2>1, AskTolerated
<1>2. ASSUME NEW d \in Devices \ DOMAIN p.devices, m = Changed(d, "remove")
      PROVE  Tolerated(w, Handled(w, m))
  <2>1. Handled(w, m) = RemoveDevicesByIndex(w, d) /\ RemoveDevicesByIndex(w, d) \in Clients
    BY <1>2, HandledIs, RemovalsTyped
  <2>2. RemoveDevicesByIndex(w, d).escaped = w.escaped
    BY DEF RemoveDevicesByIndex, Clients
  <2> QED
    BY <2>1, <2>2 DEF Tolerated
<1>3. ASSUME NEW s \in Streams, NEW what \in {"new", "change"}, m = StreamEvent(s, what)
      PROVE  Tolerated(w, Handled(w, m))
  <2>1. Handled(w, m) = Ask(w, <<"stream", s>>) /\ <<"stream", s>> \in Requested
    BY <1>3, HandledIs DEF QueryStream, Requested
  <2> QED
    BY <2>1, AskTolerated
<1>4. ASSUME NEW s \in Streams \ DOMAIN p.streams, m = StreamEvent(s, "remove")
      PROVE  Tolerated(w, Handled(w, m))
  <2>1. Handled(w, m) = RemoveStream(w, s) /\ RemoveStream(w, s) \in Clients
    BY <1>4, HandledIs, RemovalsTyped
  <2>2. RemoveStream(w, s).escaped = w.escaped
    BY DEF RemoveStream, Clients
  <2> QED
    BY <2>1, <2>2 DEF Tolerated
<1>5. ASSUME m = ServerEvent
      PROVE  Tolerated(w, Handled(w, m))
  <2>1. Handled(w, m) = Ask(w, <<"server">>) /\ <<"server">> \in Requested
    BY <1>5, HandledIs DEF QueryServerInfo, Requested
  <2> QED
    BY <2>1, AskTolerated
<1>6. ASSUME NEW d \in DOMAIN p.devices, m = DeviceAnswer(p, d)
      PROVE  Tolerated(w, Handled(w, m))
  <2>1. p.devices[d] \in Infos /\ d \in Devices
    BY PulseFields
  <2>2. DeviceTold(w, Handled(w, m), d, p.devices[d])
    BY <1>6, <2>1, HandledIs, DeviceHandled DEF DeviceAnswer
  <2> QED
    BY <2>2 DEF DeviceTold, Tolerated
<1>7. ASSUME NEW s \in DOMAIN p.streams, m = StreamAnswer(p, s)
      PROVE  Tolerated(w, Handled(w, m))
  <2> DEFINE v == AddOrUpdateStream(w, s, p.streams[s])
  <2>1. p.streams[s] \in Sinks /\ s \in Streams
    BY PulseFields
  <2>2. m = <<"stream", s, p.streams[s]>>
    BY <1>7 DEF StreamAnswer
  <2>3. Handled(w, m) = v
    BY <2>2, HandledIs
  <2>4. v \in Clients /\ StreamTold(w, v, s, p.streams[s])
    BY <2>1, StreamHandled
  <2> HIDE DEF v
  <2>5. v.escaped = w.escaped
    BY <2>4 DEF StreamTold, Clients
  <2> QED
    BY <2>3, <2>4, <2>5 DEF Tolerated
<1>8. ASSUME m = <<"server", p.default>>
      PROVE  Tolerated(w, Handled(w, m))
  <2>1. Handled(w, m) = HandleServerInfo(w, p.default) /\ HandleServerInfo(w, p.default) \in Clients
    BY <1>0, <1>8, HandledIs, ServerTyped
  <2>2. HandleServerInfo(w, p.default).escaped = w.escaped
    BY DEF HandleServerInfo, Clients
  <2> QED
    BY <2>1, <2>2 DEF Tolerated
<1>9. ASSUME NEW dir \in Dirs, NEW name \in Names, m = <<"port set", dir, name>>
      PROVE  Tolerated(w, Handled(w, m))
  <2>1. Handled(w, m) = Ask(w, <<"default", dir, name>>) /\ <<"default", dir, name>> \in Requested
    BY <1>9, HandledIs DEF SetDefault, Requested
  <2> QED
    BY <2>1, AskTolerated
<1>10. SentIs(p, m)
  BY SentAre
<1> QED
  BY <1>1, <1>2, <1>3, <1>4, <1>5, <1>6, <1>7, <1>8, <1>9, <1>10 DEF SentIs

\* The states after each of the messages.
Replays(h, w, ms) ==
  /\ h[0] = w
  /\ \A n \in 0 .. Len(ms) : h[n] \in Clients
  /\ \A n \in 0 .. Len(ms) - 1 : h[n + 1] = Handled(h[n], ms[n + 1])

\* HandledFirst replays the messages.  It is a recursive function, and exists.
LEMMA FirstReplays ==
  ASSUME ParametersAre, NEW p \in Pulses, NEW w \in Clients, NEW ms \in Seq(Sent(p))
  PROVE  Replays(HandledFirst(w, ms), w, ms)
<1> DEFINE L == Len(ms)
           D == [n \in Nat |-> [v \in Clients |-> IF n \in 1 .. L THEN Handled(v, ms[n]) ELSE v]]
           H == HandledFirst(w, ms)
<1>0. L \in Nat /\ \A n \in 1 .. L : ms[n] \in Sent(p)
  OBVIOUS
<1>1. \A v \in Clients, n \in 1 .. L : Handled(v, ms[n]) \in Clients
  BY <1>0, HandledTyped DEF Tolerated
<1>2. D \in [Nat -> [Clients -> Clients]]
  BY <1>1
<1>3. \A n \in 1 .. L, v \in Clients : D[n][v] = Handled(v, ms[n])
  BY <1>0
<1> HIDE DEF D
<1>4. PICK h : Turned(h, Clients, w, D, L)
  BY <1>0, <1>2, Turns
<1>5. /\ h \in [0 .. L -> Clients] /\ h[0] = w
      /\ \A n \in 0 .. L : n # 0 => n - 1 \in 0 .. L /\ h[n] = D[n][h[n - 1]]
  BY <1>4 DEF Turned
<1>6. ASSUME NEW n \in 0 .. L, n # 0 PROVE n - 1 \in 0 .. L /\ h[n] = Handled(h[n - 1], ms[n])
  <2>1. n \in 1 .. L /\ n - 1 \in 0 .. L /\ h[n] = D[n][h[n - 1]]
    BY <1>0, <1>5, <1>6
  <2> QED
    BY <1>3, <1>5, <2>1
<1>7. h = [n \in 0 .. L |-> IF n = 0 THEN w ELSE Handled(h[n - 1], ms[n])]
  BY <1>5, <1>6
<1>8. H = [n \in 0 .. L |-> IF n = 0 THEN w ELSE Handled(H[n - 1], ms[n])]
  <2>1. \E f : f = [n \in 0 .. L |-> IF n = 0 THEN w ELSE Handled(f[n - 1], ms[n])]
    BY <1>7
  <2> QED
    BY <2>1, Zenon DEF HandledFirst
<1> HIDE DEF H
<1>9. DOMAIN H = 0 .. L /\ H[0] = w
  BY <1>0, <1>8
<1>10. ASSUME NEW n \in 0 .. L - 1 PROVE n + 1 \in 0 .. L /\ H[n + 1] = Handled(H[n], ms[n + 1])
  <2>1. n + 1 \in 0 .. L /\ n + 1 # 0 /\ (n + 1) - 1 = n
    BY <1>0
  <2>2. H[n + 1] = Handled(H[(n + 1) - 1], ms[n + 1])
    BY <1>8, <2>1
  <2> QED
    BY <2>1, <2>2
<1> DEFINE P == {n \in Nat : n <= L => H[n] \in Clients}
<1>11. \A n \in Nat : n \in P
  <2>1. 0 \in P
    BY <1>9
  <2>2. ASSUME NEW n \in Nat, n \in P PROVE n + 1 \in P
    <3> SUFFICES ASSUME n + 1 <= L PROVE H[n + 1] \in Clients
      OBVIOUS
    <3>1. n \in 0 .. L - 1 /\ n + 1 \in 1 .. L /\ H[n] \in Clients
      BY <1>0, <2>2
    <3> QED
      BY <1>1, <1>10, <3>1
  <2> HIDE DEF P
  <2> QED
    BY <2>1, <2>2, Induction
<1>12. \A n \in 0 .. L : H[n] \in Clients
  BY <1>0, <1>11
<1>13. Replays(H, w, ms)
  BY <1>9, <1>10, <1>12 DEF Replays
<1> QED
  BY <1>13 DEF H

\* Following, or an exception has left the callback.
Copes(p, w, v, c, a, ms, k) ==
  /\ v \in Clients /\ (w.escaped => v.escaped)
  /\ v.escaped \/ (v.context = w.context /\ Follows(p, v, c, a, ms, k))

\* When all was handled nothing is left to come.
LEMMA AllCome ==
  ASSUME NEW p \in Pulses, Consistent(p), NEW w \in Clients, NEW c, NEW a, NEW ms, Len(ms) \in Nat,
         DOMAIN ms = 1 .. Len(ms), Follows(p, w, c, a, ms, Len(ms))
  PROVE  Follows(p, w, c, a, <<>>, 0)
<1>1. \A S : ~Comes(ms, Len(ms), S)
  BY DEF Comes
<1>2. Carried(p, w.out, ms, Len(ms), w.out, <<>>, 0, {}, {}, TRUE)
  BY <1>1 DEF Carried, DeviceDue, StreamDue, ServerDue, DefaultDue, Before
<1>3. SameTables(w, w)
  BY DEF SameTables
<1> QED
  BY <1>2, <1>3, StillFollows

\* All the messages of a step are handled.
LEMMA MessagesHandled ==
  ASSUME ParametersAre, NEW p \in Pulses, Consistent(p), NEW w \in Clients, w.context # "none",
         NEW c, NEW a, NEW ms \in Seq(Sent(p)), w.escaped \/ Follows(p, w, c, a, ms, 0)
  PROVE  Copes(p, w, HandledFirst(w, ms)[Len(ms)], c, a, <<>>, 0)
<1> DEFINE L == Len(ms)
           H == HandledFirst(w, ms)
           P == {n \in Nat : n <= L => Copes(p, w, H[n], c, a, ms, n)}
<1>0. L \in Nat /\ DOMAIN ms = 1 .. L /\ \A n \in 1 .. L : ms[n] \in Sent(p)
  OBVIOUS
<1>1. Replays(H, w, ms)
  BY FirstReplays
<1> HIDE DEF H
<1>2. 0 \in P
  BY <1>0, <1>1 DEF Copes, Replays
<1>3. ASSUME NEW n \in Nat, n \in P PROVE n + 1 \in P
  <2> SUFFICES ASSUME n + 1 <= L PROVE Copes(p, w, H[n + 1], c, a, ms, n + 1)
    OBVIOUS
  <2>1. n \in 0 .. L - 1 /\ n + 1 \in 1 .. L /\ n <= L
    BY <1>0
  <2>2. /\ Copes(p, w, H[n], c, a, ms, n) /\ H[n + 1] = Handled(H[n], ms[n + 1])
        /\ ms[n + 1] \in Sent(p)
    BY <1>0, <1>1, <1>3, <2>1 DEF Replays
  <2>3. Tolerated(H[n], H[n + 1]) /\ H[n] \in Clients
    BY <2>2, HandledTyped DEF Copes
  <2>4. CASE H[n].escaped
    BY <2>2, <2>3, <2>4 DEF Copes, Tolerated
  <2>5. CASE ~H[n].escaped
    <3>1. H[n].context = w.context /\ Follows(p, H[n], c, a, ms, n)
      BY <2>2, <2>5 DEF Copes
    <3>2. Handles(p, H[n], H[n + 1], c, a, ms, n)
      BY <1>0, <2>1, <2>2, <2>3, <3>1, MessageHandled
    <3> QED
      BY <2>2, <2>3, <3>1, <3>2 DEF Handles, Copes
  <2> QED
    BY <2>4, <2>5
<1> HIDE DEF P
<1>4. \A n \in Nat : n \in P
  BY <1>2, <1>3, Induction
<1>5. Copes(p, w, H[L], c, a, ms, L)
  BY <1>0, <1>4 DEF P
<1>6. Copes(p, w, H[L], c, a, <<>>, 0)
  BY <1>0, <1>5, AllCome DEF Copes
<1> QED
  BY <1>6 DEF H

-----------------------------------------------------------------------------
(* PulseAudio changes, and tells *)

\* PulseAudio's state becomes p2, and the requests q2: what changed of the devices is told, and what
\* was asked for is answered or still asked for.
DevicesTold(p, p2, q, q2, ms) ==
  /\ p.used \subseteq p2.used
  /\ \A d \in DOMAIN p2.devices \ DOMAIN p.devices : d \notin p.used /\ DeviceDue(p2, q2, ms, 0, d)
  /\ \A d \in DOMAIN p2.devices \cap DOMAIN p.devices :
       /\ p2.devices[d].name = p.devices[d].name
       /\ p2.devices[d] = p.devices[d] \/ DeviceDue(p2, q2, ms, 0, d)
       /\ Asks(q, DeviceQueries(d)) => DeviceDue(p2, q2, ms, 0, d)
       /\ \A s \in Streams : InTurn(q, d, s) => Before(p2, q2, ms, 0, d, s)
  /\ \A d \in DOMAIN p.devices \ DOMAIN p2.devices : Comes(ms, 0, {Changed(d, "remove")})

\* The same of the streams,
StreamsTold(p, p2, q, q2, ms) ==
  /\ \A s \in DOMAIN p2.streams :
       /\ Dev(p2.streams[s]) \in DOMAIN p.devices
       /\ \/ s \in DOMAIN p.streams /\ p2.streams[s] = p.streams[s]
          \/ /\ Comes(ms, 0, StreamNews(s))
             /\ \A d \in Devices : Asks(q, DeviceQueries(d)) => Asks(q2, DeviceQueries(d))
  /\ \A s \in DOMAIN p.streams : Asks(q, StreamQueries(s)) => StreamDue(p2, q2, ms, 0, s)
  /\ \A s \in DOMAIN p.streams \ DOMAIN p2.streams : Comes(ms, 0, {StreamEvent(s, "remove")})

\* of the default devices,
DefaultTold(p, p2, q, q2, ms) ==
  /\ p2.default = p.default \/ ServerDue(p2, q2, ms, 0)
  /\ Asks(q, {<<"server">>}) => ServerDue(p2, q2, ms, 0)

\* and of what clients chose.
ChoicesKept(p, p2, q2, ms, c, a, c2, a2) ==
  /\ \A s \in Streams : c2[s] = c[s] \/ StreamDue(p2, q2, ms, 0, s)
  /\ \A dir \in Dirs : a2[dir] # NoPath =>
       /\ a2[dir] = a[dir] /\ Pending(a[dir], p2)
       /\ DefaultDue(q2, ms, 0, DeviceOf(a[dir]), a[dir][3], p2.devices[DeviceOf(a[dir])].name)

\* What is told of a change is due, so that the service follows PulseAudio as it is now.
LEMMA ChangesFollow ==
  ASSUME NEW p \in Pulses, Consistent(p), NEW p2 \in Pulses, Consistent(p2), NEW w \in Clients,
         NEW v, SameTables(w, v), NEW c, NEW a, NEW c2, NEW a2, NEW ms,
         Follows(p, w, c, a, <<>>, 0),
         DevicesTold(p, p2, w.out, v.out, ms), StreamsTold(p, p2, w.out, v.out, ms),
         DefaultTold(p, p2, w.out, v.out, ms), ChoicesKept(p, p2, v.out, ms, c, a, c2, a2)
  PROVE  Follows(p2, v, c2, a2, ms, 0)
<1> DEFINE q == w.out
           q2 == v.out
<1>0. /\ v.devices = w.devices /\ v.ports = w.ports /\ v.streams = w.streams
      /\ v.active = w.active /\ v.default = w.default
  BY DEF SameTables
<1>1. /\ DOMAIN w.streams \subseteq Streams /\ DOMAIN p.streams \subseteq Streams
      /\ DOMAIN p.devices \subseteq Devices
      /\ DOMAIN p2.streams \subseteq Streams /\ DOMAIN p2.devices \subseteq Devices
      /\ DOMAIN w.devices \subseteq AllPaths /\ \A x \in AllPaths : DeviceOf(x) \in Devices
  BY ClientFields, PulseFields, Partials, Paths
<1>2. \A S : ~Comes(<<>>, 0, S)
  BY NoneComes
<1>3. /\ \A d \in DOMAIN p.devices : Asks(q, DeviceQueries(d)) \/ Known(p, w, d)
      /\ \A d \in Devices \ DOMAIN p.devices : Unknown(w, d)
      /\ \A x \in DOMAIN w.devices : DeviceOf(x) \in DOMAIN p.devices =>
           w.devices[x] = p.devices[DeviceOf(x)].name
  BY <1>2 DEF Follows, TablesFollow, DevicesFollow, DevicesGo, NamesFollow, DeviceDue
<1>4. /\ \A s \in DOMAIN p.streams : \/ Asks(q, StreamQueries(s))
                                     \/ s \in DOMAIN w.streams /\ w.streams[s].sink = p.streams[s]
      /\ \A s \in Streams \ DOMAIN p.streams : s \notin DOMAIN w.streams
      /\ w.default = p.default \/ Asks(q, {<<"server">>})
  BY <1>2 DEF Follows, TablesFollow, StreamsFollow, StreamsGo, DefaultFollows, StreamDue, ServerDue
<1>5. \A d, s : Before(p, q, <<>>, 0, d, s) => InTurn(q, d, s)
  BY <1>2 DEF Before
<1>6. \A d \in DOMAIN p2.devices \ DOMAIN p.devices :
        Unknown(w, d) /\ DeviceDue(p2, q2, ms, 0, d) /\ d \notin p.used
  BY <1>1, <1>3 DEF DevicesTold
<1>7. \A d \in DOMAIN p2.devices \cap DOMAIN p.devices :
        /\ p2.devices[d].name = p.devices[d].name
        /\ p2.devices[d] = p.devices[d] \/ DeviceDue(p2, q2, ms, 0, d)
        /\ Asks(q, DeviceQueries(d)) => DeviceDue(p2, q2, ms, 0, d)
        /\ \A s \in Streams : InTurn(q, d, s) => Before(p2, q2, ms, 0, d, s)
  BY DEF DevicesTold
<1>8. \A d \in DOMAIN p.devices \ DOMAIN p2.devices : Comes(ms, 0, {Changed(d, "remove")})
  BY DEF DevicesTold
<1> HIDE DEF q, q2
<1>9. DevicesFollow(p2, v, ms, 0)
  <2> SUFFICES ASSUME NEW d \in DOMAIN p2.devices
               PROVE  DeviceDue(p2, q2, ms, 0, d) \/ Known(p2, v, d)
    BY DEF DevicesFollow, q2
  <2>1. CASE d \notin DOMAIN p.devices
    BY <1>6, <2>1
  <2>2. CASE d \in DOMAIN p.devices
    <3>1. p2.devices[d] = p.devices[d] /\ Known(p, w, d) => Known(p2, v, d)
      BY <1>0 DEF Known
    <3> QED
      BY <1>3, <1>7, <2>2, <3>1
  <2> QED
    BY <2>1, <2>2
<1>10. DevicesGo(p2, v, ms, 0)
  <2>1. \A d \in Devices \ DOMAIN p.devices : Unknown(v, d)
    BY <1>0, <1>3 DEF Unknown
  <2> QED
    BY <1>8, <2>1 DEF DevicesGo
<1>11. NamesFollow(p2, v)
  <2>1. \A x \in DOMAIN w.devices : DeviceOf(x) \notin DOMAIN p2.devices \ DOMAIN p.devices
    BY <1>1, <1>6 DEF Unknown
  <2> QED
    BY <1>0, <1>1, <1>3, <1>7, <2>1 DEF NamesFollow
<1>12. StreamsFollow(p2, v, ms, 0)
  <2> SUFFICES ASSUME NEW s \in DOMAIN p2.streams
               PROVE  \/ StreamDue(p2, q2, ms, 0, s)
                      \/ s \in DOMAIN w.streams /\ w.streams[s].sink = p2.streams[s]
    BY <1>0 DEF StreamsFollow, q2
  <2>1. CASE s \in DOMAIN p.streams /\ p2.streams[s] = p.streams[s]
    <3>1. Asks(q, StreamQueries(s)) => StreamDue(p2, q2, ms, 0, s)
      BY <2>1 DEF StreamsTold, q, q2
    <3> QED
      BY <1>4, <2>1, <3>1
  <2>2. CASE Comes(ms, 0, StreamNews(s))
    BY <2>2 DEF StreamDue, Comes
  <2> QED
    BY <2>1, <2>2 DEF StreamsTold
<1>13. StreamsGo(p2, v, ms, 0)
  BY <1>0, <1>4 DEF StreamsGo, StreamsTold
<1>14. DefaultFollows(p2, v, ms, 0)
  BY <1>0, <1>4 DEF DefaultFollows, DefaultTold, q
<1>15. ActiveFollows(p2, v, ms, 0)
  <2> SUFFICES ASSUME NEW dir \in Dirs, w.active[dir] # NoPath
               PROVE  /\ w.default[dir] # NoName
                      /\ \A d \in Owner(p2, dir, w.default[dir]) :
                           DeviceDue(p2, q2, ms, 0, d) \/ w.active[dir] = Path(d, p2.devices[d].active)
    BY <1>0 DEF ActiveFollows, q2
  <2>1. /\ w.default[dir] # NoName
        /\ \A d \in Owner(p, dir, w.default[dir]) :
             Asks(q, DeviceQueries(d)) \/ w.active[dir] = Path(d, p.devices[d].active)
    BY <1>2 DEF Follows, ActiveFollows, DeviceDue, q
  <2>2. ASSUME NEW d \in Owner(p2, dir, w.default[dir])
        PROVE  DeviceDue(p2, q2, ms, 0, d) \/ w.active[dir] = Path(d, p2.devices[d].active)
    <3>1. d \in DOMAIN p2.devices
      BY DEF Owner
    <3>2. CASE d \notin DOMAIN p.devices
      BY <1>6, <3>1, <3>2
    <3>3. CASE d \in DOMAIN p.devices
      <4>1. d \in Owner(p, dir, w.default[dir])
        BY <1>7, <3>1, <3>3 DEF Owner
      <4> QED
        BY <1>7, <2>1, <3>1, <3>3, <4>1
    <3> QED
      BY <3>2, <3>3
  <2> QED
    BY <2>1, <2>2
<1>16. SinksFirst(p2, v, ms, 0)
  <2> SUFFICES ASSUME NEW s \in DOMAIN p2.streams, Dev(p2.streams[s]) \notin DOMAIN w.ports
               PROVE  Before(p2, q2, ms, 0, Dev(p2.streams[s]), s)
    BY <1>0 DEF SinksFirst, q2
  <2> DEFINE d == Dev(p2.streams[s])
  <2>1. d \in DOMAIN p2.devices \cap DOMAIN p.devices /\ s \in Streams /\ d \in Devices
    BY <1>1 DEF Consistent, StreamsTold
  <2>2. CASE s \in DOMAIN p.streams /\ p2.streams[s] = p.streams[s]
    <3>1. Before(p, q, <<>>, 0, d, s)
      BY <2>2 DEF Follows, SinksFirst, q
    <3> QED
      BY <1>5, <1>7, <2>1, <3>1
  <2>3. CASE /\ Comes(ms, 0, StreamNews(s))
             /\ \A e \in Devices : Asks(q, DeviceQueries(e)) => Asks(q2, DeviceQueries(e))
    <3>1. ~Known(p, w, d)
      BY DEF Known
    <3>2. Asks(q2, DeviceQueries(d))
      BY <1>3, <2>1, <2>3, <3>1
    <3> QED
      BY <2>3, <3>2 DEF Before
  <2> QED
    BY <2>2, <2>3 DEF StreamsTold, q, q2
<1>17. ShownSinksFirst(p2, v, ms, 0)
  <2> SUFFICES ASSUME NEW s \in DOMAIN w.streams
               PROVE  /\ Dev(w.streams[s].sink) \in p2.used
                      /\ Dev(w.streams[s].sink) \notin DOMAIN w.ports
                           /\ Dev(w.streams[s].sink) \in DOMAIN p2.devices =>
                           Before(p2, q2, ms, 0, Dev(w.streams[s].sink), s)
    BY <1>0 DEF ShownSinksFirst, q2
  <2> DEFINE d == Dev(w.streams[s].sink)
  <2>1. /\ d \in p.used
        /\ d \notin DOMAIN w.ports /\ d \in DOMAIN p.devices => Before(p, q, <<>>, 0, d, s)
    BY DEF Follows, ShownSinksFirst, q
  <2>2. d \in p2.used
    BY <2>1 DEF DevicesTold
  <2>3. d \notin DOMAIN w.ports /\ d \in DOMAIN p2.devices => Before(p2, q2, ms, 0, d, s)
    BY <1>1, <1>5, <1>6, <1>7, <2>1
  <2> QED
    BY <2>2, <2>3
<1>18. PathsFollow(p2, v, c2, ms, 0)
  <2> SUFFICES ASSUME NEW s \in DOMAIN w.streams, Dev(w.streams[s].sink) \in DOMAIN w.ports
               PROVE  PathShown(w, c2, s) \/ StreamDue(p2, q2, ms, 0, s)
    BY <1>0 DEF PathsFollow, PathShown, q2
  <2>1. s \in Streams /\ s \in DOMAIN p.streams
    BY <1>1, <1>4
  <2>2. PathShown(w, c, s) \/ Asks(q, StreamQueries(s))
    BY <1>2 DEF Follows, PathsFollow, StreamDue, q
  <2>3. c2[s] = c[s] \/ StreamDue(p2, q2, ms, 0, s)
    BY <2>1 DEF ChoicesKept, q2
  <2>4. Asks(q, StreamQueries(s)) => StreamDue(p2, q2, ms, 0, s)
    BY <2>1 DEF StreamsTold, q, q2
  <2> QED
    BY <2>2, <2>3, <2>4 DEF PathShown
<1>19. ChoicesFollow(p2, v, a2, ms, 0)
  <2> SUFFICES ASSUME NEW dir \in Dirs, a2[dir] # NoPath
               PROVE  /\ Pending(a2[dir], p2) /\ a2[dir] \in AllPaths /\ a2[dir][1] = dir
                      /\ DefaultDue(q2, ms, 0, DeviceOf(a2[dir]), a2[dir][3],
                                    p2.devices[DeviceOf(a2[dir])].name)
    BY DEF ChoicesFollow, q2
  <2>1. /\ a2[dir] = a[dir] /\ Pending(a[dir], p2)
        /\ DefaultDue(q2, ms, 0, DeviceOf(a[dir]), a[dir][3], p2.devices[DeviceOf(a[dir])].name)
    BY DEF ChoicesKept, q2
  <2>2. a[dir] \in AllPaths /\ a[dir][1] = dir
    BY <2>1 DEF Follows, ChoicesFollow
  <2> QED
    BY <2>1, <2>2
<1> QED
  BY <1>9, <1>10, <1>11, <1>12, <1>13, <1>14, <1>15, <1>16, <1>17, <1>18, <1>19 DEF Follows,
     TablesFollow

\* What PulseAudio tells of a change of its own.
Announced(p, p2, ms) ==
  /\ p.used \subseteq p2.used
  /\ \A d \in DOMAIN p2.devices \ DOMAIN p.devices : d \notin p.used /\ Comes(ms, 0, DeviceNews(d))
  /\ \A d \in DOMAIN p2.devices \cap DOMAIN p.devices :
       /\ p2.devices[d].name = p.devices[d].name
       /\ p2.devices[d] = p.devices[d] \/ Comes(ms, 0, DeviceNews(d))
  /\ \A d \in DOMAIN p.devices \ DOMAIN p2.devices : Comes(ms, 0, {Changed(d, "remove")})
  /\ \A s \in DOMAIN p2.streams :
       /\ Dev(p2.streams[s]) \in DOMAIN p.devices
       /\ (s \in DOMAIN p.streams /\ p2.streams[s] = p.streams[s]) \/ Comes(ms, 0, StreamNews(s))
  /\ \A s \in DOMAIN p.streams \ DOMAIN p2.streams : Comes(ms, 0, {StreamEvent(s, "remove")})
  /\ p2.default = p.default \/ Comes(ms, 0, {ServerEvent})

\* PulseAudio's next state, and the events of it.
Happened(p, p2, ms) ==
  /\ p2 \in Pulses /\ Consistent(p2) /\ ms \in Seq(Sent(p2)) /\ p2.subscribed = p.subscribed
  /\ Announced(p, p2, ms)

\* What comes of a set comes of a larger one.
LEMMA ComesWithin == \A ms, k, S, T : S \subseteq T /\ Comes(ms, k, S) => Comes(ms, k, T)
  BY DEF Comes

\* A single message,
LEMMA ComesOne == \A e, S : e \in S => Comes(<<e>>, 0, S)
  BY DEF Comes

\* two sequences of them,
LEMMA ComesJoined ==
  ASSUME NEW T, NEW s \in Seq(T), NEW t \in Seq(T)
  PROVE  /\ s \o t \in Seq(T)
         /\ \A S : Comes(s, 0, S) \/ Comes(t, 0, S) => Comes(s \o t, 0, S)
<1>1. /\ s \o t \in Seq(T) /\ Len(s) \in Nat /\ Len(t) \in Nat
      /\ DOMAIN s = 1 .. Len(s) /\ DOMAIN t = 1 .. Len(t) /\ DOMAIN (s \o t) = 1 .. Len(s) + Len(t)
      /\ \A i \in 1 .. Len(s) : (s \o t)[i] = s[i]
      /\ \A i \in 1 .. Len(t) : (s \o t)[Len(s) + i] = t[i]
  <2>1. s \o t \in Seq(T) /\ Len(s \o t) = Len(s) + Len(t)
        /\ \A i \in 1 .. Len(s) + Len(t) : (s \o t)[i] = IF i <= Len(s) THEN s[i] ELSE t[i - Len(s)]
    BY ConcatProperties
  <2> QED
    BY <2>1, LenProperties
<1>2. \A S : Comes(s, 0, S) => Comes(s \o t, 0, S)
  BY <1>1 DEF Comes
<1>3. ASSUME NEW S, Comes(t, 0, S) PROVE Comes(s \o t, 0, S)
  <2>1. PICK i \in DOMAIN t : t[i] \in S
    BY <1>3 DEF Comes
  <2>2. Len(s) + i \in DOMAIN (s \o t) /\ Len(s) + i > 0 /\ (s \o t)[Len(s) + i] = t[i]
    BY <1>1, <2>1
  <2> QED
    BY <2>1, <2>2 DEF Comes
<1> QED
  BY <1>1, <1>2, <1>3

\* and one for each value of a function.
LEMMA ComeInOrder ==
  ASSUME NEW T, NEW f, f = [x \in DOMAIN f |-> f[x]], IsFiniteSet(DOMAIN f),
         \A x \in DOMAIN f : f[x] \in T
  PROVE  /\ InSomeOrder(f) \in Seq(T)
         /\ \A x \in DOMAIN f : \A S : f[x] \in S => Comes(InSomeOrder(f), 0, S)
<1>1. /\ InSomeOrder(f) \in Seq(T)
      /\ \A x \in DOMAIN f : \E i \in DOMAIN InSomeOrder(f) : InSomeOrder(f)[i] = f[x]
  BY Orders
<1>2. \A i \in DOMAIN InSomeOrder(f) : i > 0
  BY <1>1, LenProperties
<1> QED
  BY <1>1, <1>2 DEF Comes

\* What is announced is told, whatever was asked for.
LEMMA AnnouncedTold ==
  ASSUME NEW p \in Pulses, NEW p2 \in Pulses, NEW q, NEW ms, Announced(p, p2, ms)
  PROVE  /\ DevicesTold(p, p2, q, q, ms) /\ StreamsTold(p, p2, q, q, ms)
         /\ DefaultTold(p, p2, q, q, ms)
<1>1. \A d : /\ Comes(ms, 0, DeviceNews(d)) => DeviceDue(p2, q, ms, 0, d)
             /\ Asks(q, DeviceQueries(d)) => DeviceDue(p2, q, ms, 0, d)
  BY ComesWithin DEF DeviceDue
<1>2. \A s : /\ Comes(ms, 0, StreamNews(s)) => StreamDue(p2, q, ms, 0, s)
             /\ Asks(q, StreamQueries(s)) => StreamDue(p2, q, ms, 0, s)
  BY ComesWithin DEF StreamDue
<1>3. /\ Comes(ms, 0, {ServerEvent}) => ServerDue(p2, q, ms, 0)
      /\ Asks(q, {<<"server">>}) => ServerDue(p2, q, ms, 0)
  BY ComesWithin DEF ServerDue
<1>4. \A d, s : InTurn(q, d, s) => Before(p2, q, ms, 0, d, s)
  BY DEF Before
<1>5. DevicesTold(p, p2, q, q, ms)
  BY <1>1, <1>4 DEF Announced, DevicesTold
<1>6. StreamsTold(p, p2, q, q, ms)
  BY <1>2 DEF Announced, StreamsTold
<1>7. DefaultTold(p, p2, q, q, ms)
  BY <1>3 DEF Announced, DefaultTold
<1> QED
  BY <1>5, <1>6, <1>7

\* A stream reported is one due.
LEMMA ReportedDue ==
  ASSUME NEW p, NEW ms \in Seq(Sent(p)), NEW s, NEW i \in DOMAIN ms, Reports(ms[i], s), NEW q
  PROVE  StreamDue(p, q, ms, 0, s)
<1> DEFINE m == ms[i]
<1>1. SentIs(p, m) /\ i > 0
  BY SentAre, LenProperties
<1>2. m[1] = "stream" /\ m[2] = s
  BY DEF Reports
<1> HIDE DEF m
<1>3. /\ \A d, what : Changed(d, what)[1] = "event" /\ StreamEvent(d, what)[1] = "event"
      /\ ServerEvent[1] = "event" /\ \A d : DeviceAnswer(p, d)[1] = "device"
      /\ \A x : <<"server", x>>[1] = "server" /\ \A y : <<"port set", x, y>>[1] = "port set"
      /\ \A t : StreamAnswer(p, t)[2] = t
  BY DEF Changed, StreamEvent, ServerEvent, DeviceAnswer, StreamAnswer
<1>4. \E t \in DOMAIN p.streams : m = StreamAnswer(p, t)
  BY <1>1, <1>2, <1>3 DEF SentIs
<1>5. m = StreamAnswer(p, s)
  BY <1>2, <1>3, <1>4
<1> QED
  BY <1>1, <1>5 DEF StreamDue, Comes, m

\* What Receive makes of the choices.
Received(c, a, c2, a2, p2, ms) ==
  /\ a2 = [dir \in Dirs |-> IF Pending(a[dir], p2) THEN a[dir] ELSE NoPath]
  /\ c2 = [s \in Streams |-> IF \E i \in DOMAIN ms : Reports(ms[i], s) THEN NoPath ELSE c[s]]

\* The requests for a device a client made active are answered.
ChoiceKept(p, p2, q, q2, ms) ==
  \A d \in DOMAIN p.devices \cap DOMAIN p2.devices : \A port \in p2.devices[d].ports :
    LET name == p2.devices[d].name
    IN Asks(q, {<<"port", d, port, name>>, <<"default", d[1], name>>}) /\ p2.default[d[1]] # name =>
         DefaultDue(q2, ms, 0, d, port, name)

\* Receive keeps the choices that are still to be carried out.
LEMMA ReceivedKeeps ==
  ASSUME NEW p \in Pulses, NEW p2 \in Pulses, NEW w, NEW c, NEW a, NEW c2, NEW a2,
         NEW ms \in Seq(Sent(p2)),
         NEW q2, Follows(p, w, c, a, <<>>, 0), DevicesTold(p, p2, w.out, q2, ms),
         ChoiceKept(p, p2, w.out, q2, ms), Received(c, a, c2, a2, p2, ms)
  PROVE  ChoicesKept(p, p2, q2, ms, c, a, c2, a2)
<1>1. \A s \in Streams : c2[s] = c[s] \/ StreamDue(p2, q2, ms, 0, s)
  BY ReportedDue DEF Received
<1>2. ASSUME NEW dir \in Dirs, a2[dir] # NoPath
      PROVE  /\ a2[dir] = a[dir] /\ Pending(a[dir], p2)
             /\ DefaultDue(q2, ms, 0, DeviceOf(a[dir]), a[dir][3], p2.devices[DeviceOf(a[dir])].name)
  <2> DEFINE x == a[dir]
             d == DeviceOf(x)
  <2>1. a2[dir] = x /\ Pending(x, p2)
    BY <1>2 DEF Received
  <2>2. /\ d \in DOMAIN p2.devices /\ x[3] \in p2.devices[d].ports
        /\ p2.default[x[1]] # p2.devices[d].name
    BY <2>1 DEF Pending
  <2>3. /\ Pending(x, p) /\ x \in AllPaths
        /\ DefaultDue(w.out, <<>>, 0, d, x[3], p.devices[d].name)
    BY <1>2, <2>1 DEF Follows, ChoicesFollow
  <2>4. d \in DOMAIN p.devices /\ x[1] = d[1]
    BY <2>3, Paths DEF Pending
  <2>5. p2.devices[d].name = p.devices[d].name
    BY <2>2, <2>4 DEF DevicesTold
  <2>6. Asks(w.out, {<<"port", d, x[3], p2.devices[d].name>>, <<"default", d[1], p2.devices[d].name>>})
    BY <2>3, <2>5, NoneComes DEF DefaultDue
  <2> HIDE DEF d, x
  <2>7. DefaultDue(q2, ms, 0, d, x[3], p2.devices[d].name)
    BY <2>2, <2>4, <2>6 DEF ChoiceKept
  <2> QED
    BY <2>1, <2>7 DEF d, x
<1> QED
  BY <1>1, <1>2 DEF ChoicesKept

\* Before the service is connected no client has made a choice.
NothingChosen(c, a) == c = [s \in Streams |-> NoPath] /\ a = [dir \in Dirs |-> NoPath]
\* The service once the context is ready.
Connected == [NoClient EXCEPT !.context = "ready", !.out = Initial]

\* The inductive invariant: the service has stopped, or has yet to subscribe and knows nothing, or
\* follows PulseAudio.
Upkeep(p, w, c, a) ==
  /\ p \in Pulses /\ Consistent(p) /\ w \in Clients
  /\ \/ w.escaped \/ w.context = "none" \/ ~p.up
     \/ w \in {NoClient, Connected} /\ ~p.subscribed /\ NothingChosen(c, a)
     \/ w.context = "ready" /\ p.subscribed /\ Follows(p, w, c, a, <<>>, 0)

\* No message, no change.
LEMMA NoMessages ==
  ASSUME ParametersAre, NEW p \in Pulses, NEW w \in Clients
  PROVE  HandledFirst(w, <<>>)[Len(<<>>)] = w
<1>1. Len(<<>>) = 0 /\ <<>> \in Seq(Sent(p))
  OBVIOUS
<1>2. Replays(HandledFirst(w, <<>>), w, <<>>)
  BY <1>1, FirstReplays
<1> QED
  BY <1>1, <1>2 DEF Replays

\* Nothing received, nothing chosen.
LEMMA NothingReceived ==
  ASSUME NEW c, NEW a, NEW c2, NEW a2, NEW p2, NothingChosen(c, a), Received(c, a, c2, a2, p2, <<>>)
  PROVE  NothingChosen(c2, a2)
<1>1. ~Pending(NoPath, p2)
  BY DEF Pending
<1>2. \A s \in Streams : c[s] = NoPath
  BY DEF NothingChosen
<1>3. c2 = [s \in Streams |-> NoPath]
  BY <1>2 DEF Received
<1> QED
  BY <1>1, <1>3 DEF NothingChosen, Received

\* A change of PulseAudio's own keeps the invariant: its events are handled if the service subscribed,
\* and if not it will ask for everything.
LEMMA HappensKeeps ==
  ASSUME ParametersAre, NEW p, NEW w, NEW c, NEW a, NEW p2, NEW c2, NEW a2, NEW events,
         Upkeep(p, w, c, a), w.context # "none", ~w.escaped, p.up, Happened(p, p2, events),
         Received(c, a, c2, a2, p2, IF p.subscribed THEN events ELSE <<>>)
  PROVE  LET ms == IF p.subscribed THEN events ELSE <<>>
         IN Upkeep(p2, HandledFirst(w, ms)[Len(ms)], c2, a2)
<1>1. /\ p \in Pulses /\ Consistent(p) /\ w \in Clients
      /\ p2 \in Pulses /\ Consistent(p2) /\ p2.subscribed = p.subscribed
  BY DEF Upkeep, Happened
<1>2. CASE w \in {NoClient, Connected} /\ ~p.subscribed /\ NothingChosen(c, a)
  <2>1. HandledFirst(w, <<>>)[Len(<<>>)] = w
    BY <1>1, NoMessages
  <2>2. NothingChosen(c2, a2)
    BY <1>2, NothingReceived
  <2> QED
    BY <1>1, <1>2, <2>1, <2>2 DEF Upkeep
<1>3. CASE w.context = "ready" /\ p.subscribed /\ Follows(p, w, c, a, <<>>, 0)
  <2>1. events \in Seq(Sent(p2)) /\ Announced(p, p2, events) /\ Received(c, a, c2, a2, p2, events)
    BY <1>3 DEF Happened
  <2>2. /\ DevicesTold(p, p2, w.out, w.out, events) /\ StreamsTold(p, p2, w.out, w.out, events)
        /\ DefaultTold(p, p2, w.out, w.out, events)
    BY <1>1, <2>1, AnnouncedTold
  <2>3. ChoiceKept(p, p2, w.out, w.out, events)
    BY DEF ChoiceKept, DefaultDue
  <2>4. ChoicesKept(p, p2, w.out, events, c, a, c2, a2)
    BY <1>1, <1>3, <2>1, <2>2, <2>3, ReceivedKeeps
  <2>5. Follows(p2, w, c2, a2, events, 0)
    <3>1. SameTables(w, w)
      BY DEF SameTables
    <3> QED
      BY <1>1, <1>3, <2>2, <2>4, <3>1, ChangesFollow
  <2>6. Copes(p2, w, HandledFirst(w, events)[Len(events)], c2, a2, <<>>, 0)
    BY <1>1, <2>1, <2>5, MessagesHandled
  <2> QED
    BY <1>1, <1>3, <2>6 DEF Upkeep, Copes
<1> QED
  BY <1>2, <1>3 DEF Upkeep

\* One more change, to these devices, streams and default devices.
Becomes(p, p2, D, U, F, S, V) ==
  /\ p2 \in Pulses /\ p2.subscribed = p.subscribed
  /\ p2.devices = D /\ p2.used = U /\ p2.default = F /\ p2.streams = S /\ p2.usedStreams = V

\* The events that PulseAudio may send.
LEMMA SentTyped ==
  ASSUME NEW p
  PROVE  /\ ServerEvent \in Sent(p)
         /\ \A d \in Devices : Changed(d, "new") \in Sent(p) /\ Changed(d, "change") \in Sent(p)
         /\ \A s \in Streams : StreamEvent(s, "new") \in Sent(p) /\ StreamEvent(s, "change") \in Sent(p)
         /\ \A d \in Devices \ DOMAIN p.devices : Changed(d, "remove") \in Sent(p)
         /\ \A s \in Streams \ DOMAIN p.streams : StreamEvent(s, "remove") \in Sent(p)
<1>1. ServerEvent \in Sent(p)
  BY DEF Sent
<1>2. /\ \A d \in Devices : Changed(d, "new") \in DeviceEvents(p) /\ Changed(d, "change") \in DeviceEvents(p)
      /\ \A d \in Devices \ DOMAIN p.devices : Changed(d, "remove") \in DeviceEvents(p)
  BY DEF DeviceEvents
<1>3. /\ \A s \in Streams : /\ StreamEvent(s, "new") \in StreamEvents(p)
                            /\ StreamEvent(s, "change") \in StreamEvents(p)
      /\ \A s \in Streams \ DOMAIN p.streams : StreamEvent(s, "remove") \in StreamEvents(p)
  BY DEF StreamEvents
<1> QED
  BY <1>1, <1>2, <1>3 DEF Sent

\* A single event.
LEMMA OneSent ==
  ASSUME NEW T, NEW e \in T
  PROVE  <<e>> \in Seq(T) /\ \A S : e \in S => Comes(<<e>>, 0, S)
<1>1. <<e>> \in Seq(T)
  OBVIOUS
<1> QED
  BY <1>1, ComesOne

\* An event of the server goes with each change of the default devices.
LEMMA DefaultTyped ==
  ASSUME NEW p, NEW f, NEW g
  PROVE  /\ Default(f, g) \in Seq(Sent(p))
         /\ g = f \/ Comes(Default(f, g), 0, {ServerEvent})
<1>1. ServerEvent \in Sent(p)
  BY SentTyped
<1>2. CASE f = g
  BY <1>2 DEF Default
<1>3. CASE f # g
  <2>1. Default(f, g) = <<ServerEvent>>
    BY <1>3 DEF Default, ServerEvent
  <2> QED
    BY <1>1, <2>1, ComesOne
<1> QED
  BY <1>2, <1>3

\* Who has a name.
LEMMA Owners ==
  ASSUME NEW p
  PROVE  \A dir, name : Owner(p, dir, name) # {} <=>
           \E d \in DOMAIN p.devices : d[1] = dir /\ p.devices[d].name = name
  BY DEF Owner

\* A device appears.
LEMMA AppearsHappens ==
  ASSUME ParametersAre, NEW p \in Pulses, Consistent(p), NEW dev \in Devices \ p.used,
         NEW info \in Infos,
         Owner(p, dev[1], info.name) = {}, NEW default,
         default = (IF p.default[dev[1]] = NoName THEN [p.default EXCEPT ![dev[1]] = info.name]
                    ELSE p.default),
         NEW p2,
         Becomes(p, p2, With(p.devices, dev, info), p.used \cup {dev}, default, p.streams, p.usedStreams)
  PROVE  Happened(p, p2, <<Changed(dev, "new")>> \o Default(p.default, default))
<1> DEFINE events == <<Changed(dev, "new")>> \o Default(p.default, default)
<1>0. /\ DOMAIN p.devices \subseteq Devices /\ \A d \in DOMAIN p.devices : p.devices[d] \in Infos
      /\ DOMAIN p.streams \subseteq Streams /\ p.default \in [Dirs -> AnyName]
      /\ p.devices \in Partial(Devices, Infos) /\ dev[1] \in Dirs /\ info.name # NoName
  BY PulseFields, Paths, InfosAre
<1>1. Extended(p2.devices, p.devices, dev, info)
  BY <1>0, WithPartial DEF Becomes
<1>2. /\ DOMAIN p2.devices = DOMAIN p.devices \cup {dev} /\ p2.devices[dev] = info
      /\ \A d \in DOMAIN p.devices : d # dev /\ p2.devices[d] = p.devices[d]
  BY <1>1 DEF Extended, Consistent
<1>3. /\ p2 \in Pulses /\ p2.used = p.used \cup {dev} /\ p2.default = default
      /\ p2.streams = p.streams
      /\ p2.usedStreams = p.usedStreams /\ p2.subscribed = p.subscribed
  BY DEF Becomes
<1>4. Consistent(p2)
  <2>1. \A d, e \in DOMAIN p2.devices : d[1] = e[1] /\ p2.devices[d].name = p2.devices[e].name =>
          d = e
    <3>1. \A d \in DOMAIN p.devices : ~(d[1] = dev[1] /\ p.devices[d].name = info.name)
      BY Owners
    <3> QED
      BY <1>2, <3>1 DEF Consistent
  <2>2. ASSUME NEW dir \in Dirs, p2.default[dir] # NoName PROVE Owner(p2, dir, p2.default[dir]) # {}
    <3>1. CASE p2.default[dir] = p.default[dir]
      <4>1. PICK d \in DOMAIN p.devices : d[1] = dir /\ p.devices[d].name = p.default[dir]
        BY <2>2, <3>1, Owners DEF Consistent
      <4>2. d \in DOMAIN p2.devices /\ d[1] = dir /\ p2.devices[d].name = p2.default[dir]
        BY <1>2, <3>1, <4>1
      <4> QED
        BY <4>2, Owners
    <3>2. CASE p2.default[dir] # p.default[dir]
      <4>1. dir = dev[1] /\ p2.default[dir] = info.name
        BY <1>0, <1>3, <3>2
      <4>2. dev \in DOMAIN p2.devices /\ dev[1] = dir /\ p2.devices[dev].name = p2.default[dir]
        BY <1>2, <4>1
      <4> QED
        BY <4>2, Owners
    <3> QED
      BY <3>1, <3>2
  <2>3. /\ \A s \in DOMAIN p2.streams : Dev(p2.streams[s]) \in DOMAIN p2.devices
        /\ DOMAIN p2.devices \subseteq p2.used /\ DOMAIN p2.streams \subseteq p2.usedStreams
    BY <1>2, <1>3 DEF Consistent
  <2> QED
    BY <2>1, <2>2, <2>3 DEF Consistent
<1>5. /\ <<Changed(dev, "new")>> \in Seq(Sent(p2)) /\ Default(p.default, default) \in Seq(Sent(p2))
      /\ default = p.default \/ Comes(Default(p.default, default), 0, {ServerEvent})
  <2>1. Changed(dev, "new") \in Sent(p2)
    BY SentTyped
  <2> QED
    BY <2>1, OneSent, DefaultTyped
<1>6. Comes(<<Changed(dev, "new")>>, 0, DeviceNews(dev))
  BY ComesOne DEF DeviceNews
<1>7. /\ events \in Seq(Sent(p2)) /\ Comes(events, 0, DeviceNews(dev))
      /\ default = p.default \/ Comes(events, 0, {ServerEvent})
  <2>1. \A S : Comes(<<Changed(dev, "new")>>, 0, S) \/ Comes(Default(p.default, default), 0, S)
              => Comes(events, 0, S)
    BY <1>5, ComesJoined
  <2> QED
    BY <1>5, <1>6, <2>1, ComesJoined
<1> HIDE DEF events
<1>8. Announced(p, p2, events)
  BY <1>2, <1>3, <1>7 DEF Announced, Consistent
<1> QED
  BY <1>3, <1>4, <1>7, <1>8 DEF Happened, events

\* The streams of a sink that vanished, and what is told of them.
Elsewhere(streams, moved, to) ==
  IF to = NoPath THEN Without(streams, moved)
  ELSE [s \in DOMAIN streams |-> IF s \in moved THEN to[2] ELSE streams[s]]
EventsOf(moved, what) == InSomeOrder([s \in moved |-> StreamEvent(s, what)])

\* A device vanishes, and its streams move or end.
LEMMA VanishesHappens ==
  ASSUME ParametersAre, NEW p \in Pulses, Consistent(p), NEW dev \in DOMAIN p.devices,
         NEW to \in DOMAIN p.devices \cup {NoPath}, to # dev, to # NoPath => to[1] = dev[1],
         to = NoPath => \A d \in DOMAIN p.devices : d[1] = dev[1] => d = dev,
         NEW default,
         default = (IF p.default[dev[1]] = p.devices[dev].name
                    THEN [p.default EXCEPT ![dev[1]] = IF to = NoPath THEN NoName ELSE p.devices[to].name]
                    ELSE p.default),
         NEW moved,
         moved = (IF dev[1] = "in" THEN {} ELSE {s \in DOMAIN p.streams : p.streams[s] = dev[2]}),
         NEW what, what = (IF to = NoPath THEN "remove" ELSE "change"),
         NEW p2, Becomes(p, p2, Without(p.devices, {dev}), p.used, default,
                         Elsewhere(p.streams, moved, to), p.usedStreams)
  PROVE  Happened(p, p2, EventsOf(moved, what)
                         \o Default(p.default, default) \o <<Changed(dev, "remove")>>)
<1> DEFINE f == [s \in moved |-> StreamEvent(s, what)]
           first == InSomeOrder(f)
           second == Default(p.default, default)
           third == <<Changed(dev, "remove")>>
           events == first \o second \o third
<1>0. /\ DOMAIN p.devices \subseteq Devices /\ \A d \in DOMAIN p.devices : p.devices[d] \in Infos
      /\ DOMAIN p.streams \subseteq Streams /\ p.default \in [Dirs -> AnyName]
      /\ p.devices \in Partial(Devices, Infos) /\ p.streams \in Partial(Streams, Sinks)
      /\ dev[1] \in Dirs
      /\ NoPath \notin Devices
  <2>1. NoPath \notin Devices
    BY DEF NoPath, Devices
  <2> QED
    BY <2>1, PulseFields, Paths
<1>1. /\ DOMAIN p2.devices = DOMAIN p.devices \ {dev}
      /\ \A d \in DOMAIN p2.devices : p2.devices[d] = p.devices[d]
  <2>1. Reduced(p2.devices, p.devices, {dev})
    BY <1>0, WithoutPartial DEF Becomes
  <2> QED
    BY <2>1 DEF Reduced
<1>2. /\ p2 \in Pulses /\ p2.used = p.used /\ p2.default = default
      /\ p2.usedStreams = p.usedStreams /\ p2.subscribed = p.subscribed
  BY DEF Becomes
<1>3. /\ moved \subseteq DOMAIN p.streams
      /\ \A s \in DOMAIN p.streams : s \in moved <=> Dev(p.streams[s]) = dev
  <2>1. \A s \in DOMAIN p.streams : Dev(p.streams[s]) = dev <=> dev[1] = "out" /\ dev[2] = p.streams[s]
    BY <1>0, Paths DEF Dev
  <2> QED
    BY <1>0, <2>1 DEF Dirs
<1>4. /\ to = NoPath => DOMAIN p2.streams = DOMAIN p.streams \ moved
      /\ to # NoPath => DOMAIN p2.streams = DOMAIN p.streams
      /\ \A s \in DOMAIN p2.streams : p2.streams[s] = IF s \in moved THEN to[2] ELSE p.streams[s]
  <2>1. CASE to = NoPath
    <3>1. Reduced(p2.streams, p.streams, moved)
      BY <1>0, <2>1, WithoutPartial DEF Becomes, Elsewhere
    <3> QED
      BY <2>1, <3>1 DEF Reduced
  <2>2. CASE to # NoPath
    <3>1. p2.streams = [s \in DOMAIN p.streams |-> IF s \in moved THEN to[2] ELSE p.streams[s]]
      BY <2>2 DEF Becomes, Elsewhere
    <3> QED
      BY <2>2, <3>1
  <2> QED
    BY <2>1, <2>2
<1>5. to # NoPath => to \in DOMAIN p2.devices /\ to[1] = dev[1]
  BY <1>1
<1>6. Consistent(p2)
  <2>1. \A d, e \in DOMAIN p2.devices : d[1] = e[1] /\ p2.devices[d].name = p2.devices[e].name =>
          d = e
    BY <1>1 DEF Consistent
  <2>2. ASSUME NEW dir \in Dirs, p2.default[dir] # NoName PROVE Owner(p2, dir, p2.default[dir]) # {}
    <3>1. CASE dir = dev[1] /\ p.default[dir] = p.devices[dev].name
      <4>1. p2.default[dir] = IF to = NoPath THEN NoName ELSE p.devices[to].name
        BY <1>0, <1>2, <3>1
      <4>2. to \in DOMAIN p2.devices /\ to[1] = dir /\ p2.devices[to].name = p2.default[dir]
        BY <1>1, <1>5, <2>2, <3>1, <4>1
      <4> QED
        BY <4>2, Owners
    <3>2. CASE ~(dir = dev[1] /\ p.default[dir] = p.devices[dev].name)
      <4>1. p2.default[dir] = p.default[dir]
        BY <1>0, <1>2, <3>2
      <4>2. PICK d \in DOMAIN p.devices : d[1] = dir /\ p.devices[d].name = p.default[dir]
        BY <2>2, <4>1, Owners DEF Consistent
      <4>3. d \in DOMAIN p2.devices /\ d[1] = dir /\ p2.devices[d].name = p2.default[dir]
        BY <1>1, <3>2, <4>1, <4>2
      <4> QED
        BY <4>3, Owners
    <3> QED
      BY <3>1, <3>2
  <2>3. ASSUME NEW s \in DOMAIN p2.streams PROVE Dev(p2.streams[s]) \in DOMAIN p2.devices
    <3>1. s \in DOMAIN p.streams /\ Dev(p.streams[s]) \in DOMAIN p.devices
      BY <1>4, <2>3 DEF Consistent
    <3>2. CASE s \notin moved
      BY <1>1, <1>3, <1>4, <3>1, <3>2
    <3>3. CASE s \in moved
      <4>1. to # NoPath /\ p2.streams[s] = to[2] /\ dev[1] = "out"
        BY <1>3, <1>4, <2>3, <3>3 DEF Dev
      <4>2. to \in Devices /\ to = <<"out", to[2]>>
        BY <1>0, <1>5, <4>1, Paths
      <4> QED
        BY <1>5, <4>1, <4>2 DEF Dev
    <3> QED
      BY <3>2, <3>3
  <2>4. DOMAIN p2.devices \subseteq p2.used /\ DOMAIN p2.streams \subseteq p2.usedStreams
    BY <1>1, <1>2, <1>4 DEF Consistent
  <2> QED
    BY <2>1, <2>2, <2>3, <2>4 DEF Consistent
<1>7. /\ first \in Seq(Sent(p2))
      /\ \A s \in moved : \A S : StreamEvent(s, what) \in S => Comes(first, 0, S)
  <2>1. moved \subseteq Streams /\ IsFiniteSet(moved)
    BY <1>0, <1>3, FS_Subset DEF ParametersAre
  <2>2. \A s \in moved : StreamEvent(s, what) \in Sent(p2)
    BY <1>4, <2>1, SentTyped
  <2>3. /\ f = [s \in DOMAIN f |-> f[s]] /\ DOMAIN f = moved
        /\ \A s \in moved : f[s] = StreamEvent(s, what)
    OBVIOUS
  <2> HIDE DEF f
  <2> QED
    <3>1. /\ f = [s \in DOMAIN f |-> f[s]] /\ IsFiniteSet(DOMAIN f)
          /\ \A s \in DOMAIN f : f[s] \in Sent(p2)
      BY <2>1, <2>2, <2>3
    <3>2. /\ InSomeOrder(f) \in Seq(Sent(p2))
          /\ \A s \in DOMAIN f : \A S : f[s] \in S => Comes(InSomeOrder(f), 0, S)
      BY ONLY <3>1, ComeInOrder
    <3> QED
      BY <2>3, <3>2
<1>8. /\ second \in Seq(Sent(p2)) /\ third \in Seq(Sent(p2))
      /\ \A S : Changed(dev, "remove") \in S => Comes(third, 0, S)
      /\ default = p.default \/ Comes(second, 0, {ServerEvent})
  <2>1. /\ second \in Seq(Sent(p2))
        /\ default = p.default \/ Comes(second, 0, {ServerEvent})
    BY DefaultTyped
  <2>2. Changed(dev, "remove") \in Sent(p2)
    BY <1>0, <1>1, SentTyped
  <2> HIDE DEF second
  <2> QED
    BY <2>1, <2>2, OneSent
<1> HIDE DEF first, second, third
<1>9. /\ events \in Seq(Sent(p2)) /\ Comes(events, 0, {Changed(dev, "remove")})
      /\ \A s \in moved : \A S : StreamEvent(s, what) \in S => Comes(events, 0, S)
      /\ default = p.default \/ Comes(events, 0, {ServerEvent})
  <2>1. first \o second \in Seq(Sent(p2))
        /\ \A S : Comes(first, 0, S) \/ Comes(second, 0, S) => Comes(first \o second, 0, S)
    BY <1>7, <1>8, ComesJoined
  <2>2. events \in Seq(Sent(p2))
        /\ \A S : Comes(first \o second, 0, S) \/ Comes(third, 0, S) => Comes(events, 0, S)
    BY <1>8, <2>1, ComesJoined
  <2> QED
    BY <1>7, <1>8, <2>1, <2>2
<1> HIDE DEF events
<1>10. Announced(p, p2, events)
  <2>1. ASSUME NEW s \in DOMAIN p2.streams
        PROVE  /\ Dev(p2.streams[s]) \in DOMAIN p.devices
               /\ (s \in DOMAIN p.streams /\ p2.streams[s] = p.streams[s]) \/ Comes(events, 0, StreamNews(s))
    <3>1. s \in moved => Comes(events, 0, StreamNews(s))
      <4>1. s \in moved => what = "change"
        BY <1>4, <2>1
      <4> QED
        BY <1>9, <4>1 DEF StreamNews
    <3> QED
      BY <1>1, <1>4, <1>6, <3>1 DEF Consistent
  <2>2. \A s \in DOMAIN p.streams \ DOMAIN p2.streams : Comes(events, 0, {StreamEvent(s, "remove")})
    BY <1>4, <1>9
  <2> QED
    BY <1>1, <1>2, <1>9, <2>1, <2>2 DEF Announced
<1> QED
  BY <1>2, <1>6, <1>9, <1>10 DEF Happened, events, first, second, third, f, EventsOf

\* A device's active port changes.
LEMMA PortChangesHappens ==
  ASSUME NEW p \in Pulses, Consistent(p), NEW dev \in DOMAIN p.devices, NEW info \in Infos,
         info.name = p.devices[dev].name,
         NEW p2,
         Becomes(p, p2, [p.devices EXCEPT ![dev] = info], p.used, p.default, p.streams, p.usedStreams)
  PROVE  Happened(p, p2, <<Changed(dev, "change")>>)
<1> DEFINE events == <<Changed(dev, "change")>>
<1>0. DOMAIN p.devices \subseteq Devices
  BY PulseFields
<1>1. /\ DOMAIN p2.devices = DOMAIN p.devices /\ p2.devices[dev] = info
      /\ \A d \in DOMAIN p.devices : d # dev => p2.devices[d] = p.devices[d]
  BY DEF Becomes
<1>2. \A d \in DOMAIN p.devices : p2.devices[d].name = p.devices[d].name
  BY <1>1
<1>3. /\ p2 \in Pulses /\ p2.used = p.used /\ p2.default = p.default /\ p2.streams = p.streams
      /\ p2.usedStreams = p.usedStreams /\ p2.subscribed = p.subscribed
  BY DEF Becomes
<1>4. Consistent(p2)
  <2>1. \A dir, name : Owner(p2, dir, name) = Owner(p, dir, name)
    BY <1>1, <1>2 DEF Owner
  <2> QED
    BY <1>1, <1>2, <1>3, <2>1 DEF Consistent
<1>5. events \in Seq(Sent(p2)) /\ Comes(events, 0, DeviceNews(dev))
  <2>1. Changed(dev, "change") \in Sent(p2) /\ Changed(dev, "change") \in DeviceNews(dev)
    BY <1>0, SentTyped DEF DeviceNews
  <2> QED
    BY <2>1, OneSent
<1> HIDE DEF events
<1>6. Announced(p, p2, events)
  BY <1>1, <1>2, <1>3, <1>5 DEF Announced, Consistent
<1> QED
  BY <1>3, <1>4, <1>5, <1>6 DEF Happened, events

\* A stream starts,
LEMMA StreamStartsHappens ==
  ASSUME NEW p \in Pulses, Consistent(p), NEW s0 \in Streams \ p.usedStreams, NEW sink \in Sinks,
         Dev(sink) \in DOMAIN p.devices,
         NEW p2,
         Becomes(p, p2, p.devices, p.used, p.default, With(p.streams, s0, sink), p.usedStreams \cup {s0})
  PROVE  Happened(p, p2, <<StreamEvent(s0, "new")>>)
<1> DEFINE events == <<StreamEvent(s0, "new")>>
<1>1. Extended(p2.streams, p.streams, s0, sink)
  <2>1. p.streams \in Partial(Streams, Sinks)
    BY PulseFields
  <2> QED
    BY <2>1, WithPartial DEF Becomes
<1>2. /\ DOMAIN p2.streams = DOMAIN p.streams \cup {s0} /\ p2.streams[s0] = sink
      /\ \A s \in DOMAIN p.streams : s # s0 /\ p2.streams[s] = p.streams[s]
  BY <1>1 DEF Extended, Consistent
<1>3. /\ p2 \in Pulses /\ p2.used = p.used /\ p2.default = p.default /\ p2.devices = p.devices
      /\ p2.usedStreams = p.usedStreams \cup {s0} /\ p2.subscribed = p.subscribed
  BY DEF Becomes
<1>4. Consistent(p2)
  BY <1>2, <1>3 DEF Consistent, Owner
<1>5. events \in Seq(Sent(p2)) /\ Comes(events, 0, StreamNews(s0))
  <2>1. StreamEvent(s0, "new") \in Sent(p2) /\ StreamEvent(s0, "new") \in StreamNews(s0)
    BY SentTyped DEF StreamNews
  <2> QED
    BY <2>1, OneSent
<1> HIDE DEF events
<1>6. Announced(p, p2, events)
  BY <1>2, <1>3, <1>5 DEF Announced, Consistent
<1> QED
  BY <1>3, <1>4, <1>5, <1>6 DEF Happened, events

\* moves,
LEMMA StreamMovesHappens ==
  ASSUME NEW p \in Pulses, Consistent(p), NEW s0 \in DOMAIN p.streams, NEW sink \in Sinks,
         Dev(sink) \in DOMAIN p.devices,
         NEW p2,
         Becomes(p, p2, p.devices, p.used, p.default, [p.streams EXCEPT ![s0] = sink], p.usedStreams)
  PROVE  Happened(p, p2, <<StreamEvent(s0, "change")>>)
<1> DEFINE events == <<StreamEvent(s0, "change")>>
<1>0. DOMAIN p.streams \subseteq Streams
  BY PulseFields
<1>1. /\ DOMAIN p2.streams = DOMAIN p.streams /\ p2.streams[s0] = sink
      /\ \A s \in DOMAIN p.streams : s # s0 => p2.streams[s] = p.streams[s]
  BY DEF Becomes
<1>2. /\ p2 \in Pulses /\ p2.used = p.used /\ p2.default = p.default /\ p2.devices = p.devices
      /\ p2.usedStreams = p.usedStreams /\ p2.subscribed = p.subscribed
  BY DEF Becomes
<1>3. Consistent(p2)
  BY <1>1, <1>2 DEF Consistent, Owner
<1>4. events \in Seq(Sent(p2)) /\ Comes(events, 0, StreamNews(s0))
  <2>1. StreamEvent(s0, "change") \in Sent(p2) /\ StreamEvent(s0, "change") \in StreamNews(s0)
    BY <1>0, SentTyped DEF StreamNews
  <2> QED
    BY <2>1, OneSent
<1> HIDE DEF events
<1>5. Announced(p, p2, events)
  BY <1>1, <1>2, <1>3, <1>4 DEF Announced, Consistent
<1> QED
  BY <1>2, <1>3, <1>4, <1>5 DEF Happened, events

\* and ends.
LEMMA StreamEndsHappens ==
  ASSUME NEW p \in Pulses, Consistent(p), NEW s0 \in DOMAIN p.streams,
         NEW p2,
         Becomes(p, p2, p.devices, p.used, p.default, Without(p.streams, {s0}), p.usedStreams)
  PROVE  Happened(p, p2, <<StreamEvent(s0, "remove")>>)
<1> DEFINE events == <<StreamEvent(s0, "remove")>>
<1>0. DOMAIN p.streams \subseteq Streams /\ p.streams \in Partial(Streams, Sinks)
  BY PulseFields
<1>1. /\ DOMAIN p2.streams = DOMAIN p.streams \ {s0}
      /\ \A s \in DOMAIN p2.streams : p2.streams[s] = p.streams[s]
  <2>1. Reduced(p2.streams, p.streams, {s0})
    BY <1>0, WithoutPartial DEF Becomes
  <2> QED
    BY <2>1 DEF Reduced
<1>2. /\ p2 \in Pulses /\ p2.used = p.used /\ p2.default = p.default /\ p2.devices = p.devices
      /\ p2.usedStreams = p.usedStreams /\ p2.subscribed = p.subscribed
  BY DEF Becomes
<1>3. Consistent(p2)
  BY <1>1, <1>2 DEF Consistent, Owner
<1>4. events \in Seq(Sent(p2)) /\ Comes(events, 0, {StreamEvent(s0, "remove")})
  <2>1. StreamEvent(s0, "remove") \in Sent(p2)
    BY <1>0, <1>1, SentTyped
  <2> QED
    BY <2>1, OneSent
<1> HIDE DEF events
<1>5. Announced(p, p2, events)
  BY <1>1, <1>2, <1>3, <1>4 DEF Announced, Consistent
<1> QED
  BY <1>2, <1>3, <1>4, <1>5 DEF Happened, events

\* Another device becomes the default one.
LEMMA DefaultChangesHappens ==
  ASSUME NEW p \in Pulses, Consistent(p), NEW dev \in DOMAIN p.devices,
         NEW p2,
         Becomes(p, p2, p.devices, p.used, [p.default EXCEPT ![dev[1]] = p.devices[dev].name],
                         p.streams, p.usedStreams)
  PROVE  Happened(p, p2, <<ServerEvent>>)
<1> DEFINE events == <<ServerEvent>>
<1>0. dev[1] \in Dirs /\ p.default \in [Dirs -> AnyName]
  BY PulseFields, Paths
<1>1. \A dir \in Dirs : p2.default[dir] = IF dir = dev[1] THEN p.devices[dev].name ELSE p.default[dir]
  BY <1>0 DEF Becomes
<1>2. /\ p2 \in Pulses /\ p2.used = p.used /\ p2.devices = p.devices /\ p2.streams = p.streams
      /\ p2.usedStreams = p.usedStreams /\ p2.subscribed = p.subscribed
  BY DEF Becomes
<1>3. Consistent(p2)
  <2>1. \A dir, name : Owner(p2, dir, name) = Owner(p, dir, name)
    BY <1>2 DEF Owner
  <2>2. Owner(p2, dev[1], p.devices[dev].name) # {}
    BY <2>1, Owners
  <2> QED
    BY <1>1, <1>2, <2>1, <2>2 DEF Consistent
<1>4. events \in Seq(Sent(p2)) /\ Comes(events, 0, {ServerEvent})
  <2>1. ServerEvent \in Sent(p2)
    BY SentTyped
  <2> QED
    BY <2>1, OneSent
<1> HIDE DEF events
<1>5. Announced(p, p2, events)
  BY <1>2, <1>4 DEF Announced, Consistent
<1> QED
  BY <1>2, <1>3, <1>4, <1>5 DEF Happened, events

\* PulseAudio exits.
LEMMA ExitsHappens ==
  ASSUME NEW p \in Pulses, Consistent(p),
         NEW p2, Becomes(p, p2, p.devices, p.used, p.default, p.streams, p.usedStreams)
  PROVE  Happened(p, p2, <<>>)
<1>1. /\ p2 \in Pulses /\ p2.used = p.used /\ p2.devices = p.devices /\ p2.streams = p.streams
      /\ p2.usedStreams = p.usedStreams /\ p2.subscribed = p.subscribed /\ p2.default = p.default
  BY DEF Becomes
<1>2. Consistent(p2)
  BY <1>1 DEF Consistent, Owner
<1>3. Announced(p, p2, <<>>)
  BY <1>1 DEF Announced, Consistent
<1> QED
  BY <1>1, <1>2, <1>3 DEF Happened
\* Counting a change.
LEMMA Counted ==
  ASSUME NEW p, NEW x, NEW D, NEW U, NEW F, NEW S, NEW V, Becomes(p, x, D, U, F, S, V)
  PROVE  Becomes(p, [x EXCEPT !.changes = @ + 1], D, U, F, S, V)
<1>1. x \in Pulses /\ x.changes + 1 \in Nat
  BY DEF Becomes, Pulses
<1>2. [x EXCEPT !.changes = @ + 1] \in Pulses
  BY <1>1 DEF Pulses
<1> QED
  BY <1>1, <1>2 DEF Becomes, Pulses
-----------------------------------------------------------------------------
(* Changes of PulseAudio's own *)

\* The invariant, of the state.
UpkeepHolds == Upkeep(pulse, client, chosen, asked)

\* A change of PulseAudio's own.
LEMMA HappensHolds ==
  ASSUME ParametersAre, UpkeepHolds, NEW x, NEW events, Happens(x, events),
         [x EXCEPT !.changes = @ + 1].subscribed = pulse.subscribed,
         Happened(pulse, [x EXCEPT !.changes = @ + 1], events)
  PROVE  UpkeepHolds'
<1> DEFINE ms == IF pulse.subscribed THEN events ELSE <<>>
<1>1. /\ client.context # "none" /\ ~client.escaped /\ pulse.up
      /\ pulse' = [x EXCEPT !.changes = @ + 1]
      /\ client' = HandledFirst(client, ms)[Len(ms)]
      /\ Received(chosen, asked, chosen', asked', pulse', ms)
  BY DEF Happens, Alive, Receive, Received
<1>2. Happened(pulse, pulse', events)
  BY <1>1
<1>3. Upkeep(pulse', HandledFirst(client, ms)[Len(ms)], chosen', asked')
  BY <1>1, <1>2, HappensKeeps DEF UpkeepHolds
<1> QED
  BY <1>1, <1>3 DEF UpkeepHolds

\* Every change of PulseAudio's own keeps the invariant.
LEMMA EnvironmentHolds ==
  ASSUME ParametersAre, UpkeepHolds, Environment
  PROVE  UpkeepHolds'
<1>0. /\ pulse \in Pulses /\ Consistent(pulse)
      /\ pulse.devices \in Partial(Devices, Infos) /\ DOMAIN pulse.devices \subseteq Devices
      /\ pulse.streams \in Partial(Streams, Sinks) /\ DOMAIN pulse.streams \subseteq Streams
      /\ pulse.default \in [Dirs -> AnyName] /\ pulse.used \subseteq Devices
      /\ pulse.usedStreams \subseteq Streams
      /\ \A d \in DOMAIN pulse.devices : pulse.devices[d] \in Infos
      /\ \A s \in DOMAIN pulse.streams : pulse.streams[s] \in Sinks
  BY PulseFields DEF UpkeepHolds, Upkeep
<1>1. ASSUME NEW dev \in Devices, NEW info \in Infos, Appears(dev, info) PROVE UpkeepHolds'
  <2> DEFINE default == IF pulse.default[dev[1]] = NoName
                        THEN [pulse.default EXCEPT ![dev[1]] = info.name] ELSE pulse.default
             x == [pulse EXCEPT !.devices = With(@, dev, info), !.used = @ \cup {dev}, !.default = default]
             p2 == [x EXCEPT !.changes = @ + 1]
  <2>1. /\ dev \notin pulse.used /\ Owner(pulse, dev[1], info.name) = {}
        /\ Happens(x, <<Changed(dev, "new")>> \o Default(pulse.default, default))
    BY <1>1 DEF Appears, Changed
  <2>2. With(pulse.devices, dev, info) \in Partial(Devices, Infos)
    BY <1>0, WithPartial
  <2>3. default \in [Dirs -> AnyName]
    BY <1>0, InfosAre DEF AnyName
  <2> HIDE DEF default
  <2>4. Becomes(pulse, p2, With(pulse.devices, dev, info), pulse.used \cup {dev}, default,
                pulse.streams, pulse.usedStreams)
    <3>1. Becomes(pulse, x, With(pulse.devices, dev, info), pulse.used \cup {dev}, default,
                   pulse.streams, pulse.usedStreams)
      BY <1>0, <2>2, <2>3 DEF Becomes, Pulses
    <3> HIDE DEF x
    <3> QED
      BY <3>1, Counted
  <2> HIDE DEF p2
  <2>5. Happened(pulse, p2, <<Changed(dev, "new")>> \o Default(pulse.default, default))
    BY <1>0, <2>1, <2>4, AppearsHappens DEF default
  <2> QED
    BY <2>1, <2>4, <2>5, HappensHolds DEF p2, Becomes
<1>2. ASSUME NEW dev \in Devices, NEW info \in Infos, PortChanges(dev, info) PROVE UpkeepHolds'
  <2> DEFINE x == [pulse EXCEPT !.devices[dev] = info]
             p2 == [x EXCEPT !.changes = @ + 1]
             D == [pulse.devices EXCEPT ![dev] = info]
  <2>1. /\ dev \in DOMAIN pulse.devices /\ info.name = pulse.devices[dev].name
        /\ Happens(x, <<Changed(dev, "change")>>)
    BY <1>2 DEF PortChanges, Changed, Here
  <2>2. D \in Partial(Devices, Infos)
    <3>1. /\ D = [d \in DOMAIN D |-> D[d]] /\ DOMAIN D \subseteq Devices
          /\ \A d \in DOMAIN D : D[d] \in Infos
      BY <1>0
    <3> HIDE DEF D
    <3> QED
      BY <3>1, Partials
  <2>3. Becomes(pulse, p2, D, pulse.used, pulse.default, pulse.streams, pulse.usedStreams)
    <3>1. x = [pulse EXCEPT !.devices = D]
      OBVIOUS
    <3> HIDE DEF D, x
    <3>2. Becomes(pulse, x, D, pulse.used, pulse.default, pulse.streams, pulse.usedStreams)
      BY <1>0, <2>2, <3>1 DEF Becomes, Pulses
    <3> QED
      BY <3>2, Counted
  <2> HIDE DEF p2
  <2>4. Happened(pulse, p2, <<Changed(dev, "change")>>)
    BY <1>0, <2>1, <2>3, PortChangesHappens
  <2> QED
    BY <2>1, <2>3, <2>4, HappensHolds DEF p2, Becomes
<1>3. ASSUME NEW dev \in Devices, NEW to \in Devices \cup {NoPath}, Vanishes(dev, to)
      PROVE  UpkeepHolds'
  <2> DEFINE next == IF to = NoPath THEN NoName ELSE pulse.devices[to].name
             default == IF pulse.default[dev[1]] = pulse.devices[dev].name
                        THEN [pulse.default EXCEPT ![dev[1]] = next] ELSE pulse.default
             moved == IF dev[1] = "in" THEN {}
                      ELSE {s \in DOMAIN pulse.streams : pulse.streams[s] = dev[2]}
             what == IF to = NoPath THEN "remove" ELSE "change"
             S == IF to = NoPath THEN Without(pulse.streams, moved)
                  ELSE [s \in DOMAIN pulse.streams |-> IF s \in moved THEN to[2] ELSE pulse.streams[s]]
             x == [pulse EXCEPT !.devices = Without(@, {dev}), !.default = default, !.streams = S]
             p2 == [x EXCEPT !.changes = @ + 1]
             events == InSomeOrder([s \in moved |-> StreamEvent(s, what)])
                       \o Default(pulse.default, default) \o <<Changed(dev, "remove")>>
  <2>1. /\ dev \in DOMAIN pulse.devices /\ to # dev /\ to \in DOMAIN pulse.devices \cup {NoPath}
        /\ to # NoPath => to[1] = dev[1]
        /\ to = NoPath => \A d \in DOMAIN pulse.devices : d[1] = dev[1] => d = dev
    BY <1>3 DEF Vanishes, Here
  <2>2. Happens(x, events)
    BY <1>3 DEF Vanishes, Changed, StreamEvent
  <2>3. default \in [Dirs -> AnyName]
    <3>1. next \in AnyName
      BY <1>0, <2>1, InfosAre DEF AnyName
    <3> HIDE DEF next
    <3> QED
      BY <1>0, <3>1
  <2>4. S \in Partial(Streams, Sinks)
    <3>1. CASE to = NoPath
      BY <1>0, <3>1, WithoutPartial
    <3>2. CASE to # NoPath
      <4>1. \A s \in moved : to[2] \in Sinks
        <5>1. to \in Devices /\ to[1] = dev[1] /\ (moved # {} => to[1] # "in")
          BY <2>1, <3>2
        <5> QED
          BY <5>1 DEF Devices
      <4> HIDE DEF moved
      <4>2. /\ S = [s \in DOMAIN S |-> S[s]] /\ DOMAIN S \subseteq Streams
            /\ \A s \in DOMAIN S : S[s] \in Sinks
        BY <1>0, <3>2, <4>1
      <4> HIDE DEF S
      <4> QED
        BY <4>2, Partials
    <3> QED
      BY <3>1, <3>2
  <2>5. Without(pulse.devices, {dev}) \in Partial(Devices, Infos)
    BY <1>0, WithoutPartial
  <2>6. Becomes(pulse, p2, Without(pulse.devices, {dev}), pulse.used, default, S, pulse.usedStreams)
    <3> HIDE DEF S, default
    <3>2. Becomes(pulse, x, Without(pulse.devices, {dev}), pulse.used, default, S, pulse.usedStreams)
      BY <1>0, <2>3, <2>4, <2>5 DEF Becomes, Pulses
    <3> HIDE DEF x
    <3> QED
      BY <3>2, Counted
  <2>7. Happened(pulse, p2, EventsOf(moved, what) \o Default(pulse.default, default)
                            \o <<Changed(dev, "remove")>>)
    <3> HIDE DEF p2
    <3>1. Becomes(pulse, p2, Without(pulse.devices, {dev}), pulse.used, default,
                  Elsewhere(pulse.streams, moved, to), pulse.usedStreams)
      BY <2>6 DEF Elsewhere
    <3>2. /\ moved = (IF dev[1] = "in" THEN {} ELSE {s \in DOMAIN pulse.streams : pulse.streams[s] = dev[2]})
          /\ what = (IF to = NoPath THEN "remove" ELSE "change")
          /\ default = (IF pulse.default[dev[1]] = pulse.devices[dev].name
                        THEN [pulse.default EXCEPT ![dev[1]] = IF to = NoPath THEN NoName
                                                               ELSE pulse.devices[to].name]
                        ELSE pulse.default)
      OBVIOUS
    <3> HIDE DEF moved, what, default
    <3> QED
      BY <1>0, <2>1, <3>1, <3>2, VanishesHappens
  <2>8. Happened(pulse, p2, events)
    BY <2>7 DEF EventsOf
  <2> HIDE DEF events, p2, x
  <2> QED
    BY <2>2, <2>6, <2>8, HappensHolds DEF p2, Becomes
<1>4. ASSUME NEW dev \in Devices, DefaultChanges(dev) PROVE UpkeepHolds'
  <2> DEFINE F == [pulse.default EXCEPT ![dev[1]] = pulse.devices[dev].name]
             x == [pulse EXCEPT !.default[dev[1]] = pulse.devices[dev].name]
             p2 == [x EXCEPT !.changes = @ + 1]
  <2>1. dev \in DOMAIN pulse.devices /\ Happens(x, <<ServerEvent>>)
    BY <1>4 DEF DefaultChanges, ServerEvent, Here
  <2>2. F \in [Dirs -> AnyName]
    BY <1>0, <2>1, InfosAre DEF AnyName
  <2>3. Becomes(pulse, p2, pulse.devices, pulse.used, F, pulse.streams, pulse.usedStreams)
    <3>1. x = [pulse EXCEPT !.default = F]
      OBVIOUS
    <3> HIDE DEF F, x
    <3>2. Becomes(pulse, x, pulse.devices, pulse.used, F, pulse.streams, pulse.usedStreams)
      BY <1>0, <2>2, <3>1 DEF Becomes, Pulses
    <3> QED
      BY <3>2, Counted
  <2> HIDE DEF p2
  <2>4. Happened(pulse, p2, <<ServerEvent>>)
    BY <1>0, <2>1, <2>3, DefaultChangesHappens
  <2> QED
    BY <2>1, <2>3, <2>4, HappensHolds DEF p2, Becomes
<1>5. ASSUME NEW s \in Streams, NEW sink \in Sinks, StreamStarts(s, sink) PROVE UpkeepHolds'
  <2> DEFINE x == [pulse EXCEPT !.streams = With(@, s, sink), !.usedStreams = @ \cup {s}]
             p2 == [x EXCEPT !.changes = @ + 1]
  <2>1. /\ s \notin pulse.usedStreams /\ Dev(sink) \in DOMAIN pulse.devices
        /\ Happens(x, <<StreamEvent(s, "new")>>)
    BY <1>5 DEF StreamStarts, StreamEvent, Here, Dev
  <2>2. With(pulse.streams, s, sink) \in Partial(Streams, Sinks)
    BY <1>0, WithPartial
  <2>3. Becomes(pulse, p2, pulse.devices, pulse.used, pulse.default, With(pulse.streams, s, sink),
                pulse.usedStreams \cup {s})
    <3>1. Becomes(pulse, x, pulse.devices, pulse.used, pulse.default, With(pulse.streams, s, sink),
                  pulse.usedStreams \cup {s})
      BY <1>0, <2>2 DEF Becomes, Pulses
    <3> HIDE DEF x
    <3> QED
      BY <3>1, Counted
  <2> HIDE DEF p2
  <2>4. Happened(pulse, p2, <<StreamEvent(s, "new")>>)
    BY <1>0, <2>1, <2>3, StreamStartsHappens
  <2> QED
    BY <2>1, <2>3, <2>4, HappensHolds DEF p2, Becomes
<1>6. ASSUME NEW s \in Streams, NEW sink \in Sinks, StreamMoves(s, sink) PROVE UpkeepHolds'
  <2> DEFINE S == [pulse.streams EXCEPT ![s] = sink]
             x == [pulse EXCEPT !.streams[s] = sink]
             p2 == [x EXCEPT !.changes = @ + 1]
  <2>1. /\ s \in DOMAIN pulse.streams /\ Dev(sink) \in DOMAIN pulse.devices
        /\ Happens(x, <<StreamEvent(s, "change")>>)
    BY <1>6 DEF StreamMoves, StreamEvent, Here, Dev
  <2>2. S \in Partial(Streams, Sinks)
    <3>1. /\ S = [t \in DOMAIN S |-> S[t]] /\ DOMAIN S \subseteq Streams
          /\ \A t \in DOMAIN S : S[t] \in Sinks
      BY <1>0
    <3> HIDE DEF S
    <3> QED
      BY <3>1, Partials
  <2>3. Becomes(pulse, p2, pulse.devices, pulse.used, pulse.default, S, pulse.usedStreams)
    <3>1. x = [pulse EXCEPT !.streams = S]
      OBVIOUS
    <3> HIDE DEF S, x
    <3>2. Becomes(pulse, x, pulse.devices, pulse.used, pulse.default, S, pulse.usedStreams)
      BY <1>0, <2>2, <3>1 DEF Becomes, Pulses
    <3> QED
      BY <3>2, Counted
  <2> HIDE DEF p2
  <2>4. Happened(pulse, p2, <<StreamEvent(s, "change")>>)
    BY <1>0, <2>1, <2>3, StreamMovesHappens
  <2> QED
    BY <2>1, <2>3, <2>4, HappensHolds DEF p2, Becomes
<1>7. ASSUME NEW s \in Streams, StreamEnds(s) PROVE UpkeepHolds'
  <2> DEFINE x == [pulse EXCEPT !.streams = Without(@, {s})]
             p2 == [x EXCEPT !.changes = @ + 1]
  <2>1. s \in DOMAIN pulse.streams /\ Happens(x, <<StreamEvent(s, "remove")>>)
    BY <1>7 DEF StreamEnds, StreamEvent
  <2>2. Without(pulse.streams, {s}) \in Partial(Streams, Sinks)
    BY <1>0, WithoutPartial
  <2>3. Becomes(pulse, p2, pulse.devices, pulse.used, pulse.default, Without(pulse.streams, {s}),
                pulse.usedStreams)
    <3>1. Becomes(pulse, x, pulse.devices, pulse.used, pulse.default, Without(pulse.streams, {s}),
                  pulse.usedStreams)
      BY <1>0, <2>2 DEF Becomes, Pulses
    <3> HIDE DEF x
    <3> QED
      BY <3>1, Counted
  <2> HIDE DEF p2
  <2>4. Happened(pulse, p2, <<StreamEvent(s, "remove")>>)
    BY <1>0, <2>1, <2>3, StreamEndsHappens
  <2> QED
    BY <2>1, <2>3, <2>4, HappensHolds DEF p2, Becomes
<1>8. ASSUME Exits PROVE UpkeepHolds'
  <2> DEFINE x == [pulse EXCEPT !.up = FALSE]
             p2 == [x EXCEPT !.changes = @ + 1]
  <2>1. Happens(x, <<>>)
    BY <1>8 DEF Exits
  <2>2. Becomes(pulse, p2, pulse.devices, pulse.used, pulse.default, pulse.streams, pulse.usedStreams)
    <3>1. Becomes(pulse, x, pulse.devices, pulse.used, pulse.default, pulse.streams, pulse.usedStreams)
      BY <1>0 DEF Becomes, Pulses
    <3> HIDE DEF x
    <3> QED
      BY <3>1, Counted
  <2> HIDE DEF p2
  <2>3. Happened(pulse, p2, <<>>)
    BY <1>0, <2>2, ExitsHappens
  <2> QED
    BY <2>1, <2>2, <2>3, HappensHolds DEF p2, Becomes
<1> QED
  BY <1>1, <1>2, <1>3, <1>4, <1>5, <1>6, <1>7, <1>8 DEF Environment

\* PulseAudio answers a request: what it may have changed is told, and what was asked comes.
Replies(p, p2, r, ms) ==
  /\ Happened(p, p2, ms)
  /\ DOMAIN p2.devices = DOMAIN p.devices /\ DOMAIN p2.streams = DOMAIN p.streams
  /\ \A d \in DOMAIN p.devices : r \in DeviceQueries(d) => Comes(ms, 0, {DeviceAnswer(p2, d)})
  /\ \A s \in DOMAIN p.streams : r \in StreamQueries(s) => Comes(ms, 0, {StreamAnswer(p2, s)})
  /\ r = <<"server">> => Comes(ms, 0, {<<"server", p2.default>>})
  /\ p2.streams = p.streams \/ \A d : r \notin DeviceQueries(d)
  /\ \A d \in DOMAIN p2.devices : \A port, name :
          port \in p2.devices[d].ports /\ r = <<"port", d, port, name>> =>
       Comes(ms, 0, {<<"port set", d[1], name>>})
  /\ \A d \in DOMAIN p2.devices : r = <<"default", d[1], p2.devices[d].name>> =>
        p2.default[d[1]] = p2.devices[d].name

\* An answered request is no longer asked for: what it was to bring is under way.
LEMMA RepliesTold ==
  ASSUME NEW p \in Pulses, Consistent(p), NEW p2, NEW q \in Seq(Requested), q # <<>>, NEW ms,
         Replies(p, p2, Head(q), ms)
  PROVE  /\ DevicesTold(p, p2, q, Tail(q), ms) /\ StreamsTold(p, p2, q, Tail(q), ms)
         /\ DefaultTold(p, p2, q, Tail(q), ms) /\ ChoiceKept(p, p2, q, Tail(q), ms)
<1> DEFINE r == Head(q)
           t == Tail(q)
<1>1. /\ \A S : Asks(q, S) => r \in S \/ Asks(t, S)
      /\ \A d, s : InTurn(q, d, s) =>
           InTurn(t, d, s) \/ (r \in DeviceQueries(d) /\ Asks(t, StreamQueries(s)))
  BY AsksNext
<1>2. p2 \in Pulses /\ Announced(p, p2, ms)
  BY DEF Replies, Happened
<1>3. /\ \A d \in DOMAIN p.devices : r \in DeviceQueries(d) => Comes(ms, 0, {DeviceAnswer(p2, d)})
      /\ \A s \in DOMAIN p.streams : r \in StreamQueries(s) => Comes(ms, 0, {StreamAnswer(p2, s)})
      /\ r = <<"server">> => Comes(ms, 0, {<<"server", p2.default>>})
      /\ p2.streams = p.streams \/ \A d : r \notin DeviceQueries(d)
      /\ \A d \in DOMAIN p2.devices : \A port, name :
              port \in p2.devices[d].ports /\ r = <<"port", d, port, name>> =>
           Comes(ms, 0, {<<"port set", d[1], name>>})
      /\ \A d \in DOMAIN p2.devices : r = <<"default", d[1], p2.devices[d].name>> =>
        p2.default[d[1]] = p2.devices[d].name
  BY DEF Replies
<1>4. DOMAIN p2.devices = DOMAIN p.devices /\ DOMAIN p2.streams = DOMAIN p.streams
  BY DEF Replies
<1> HIDE DEF r, t
<1>5. /\ DevicesTold(p, p2, t, t, ms) /\ StreamsTold(p, p2, t, t, ms)
      /\ DefaultTold(p, p2, t, t, ms)
  BY <1>2, AnnouncedTold
<1>6. DevicesTold(p, p2, q, t, ms)
  <2>1. ASSUME NEW d \in DOMAIN p2.devices, Asks(q, DeviceQueries(d))
        PROVE  DeviceDue(p2, t, ms, 0, d)
    <3>1. CASE Asks(t, DeviceQueries(d))
      BY <3>1 DEF DeviceDue
    <3>2. CASE r \in DeviceQueries(d)
      <4>1. Comes(ms, 0, {DeviceAnswer(p2, d)})
        BY <1>3, <1>4, <3>2
      <4> QED
        BY <4>1, ComesWithin DEF DeviceDue
    <3> QED
      BY <1>1, <2>1, <3>1, <3>2
  <2>2. ASSUME NEW d \in DOMAIN p2.devices, NEW s \in Streams, InTurn(q, d, s)
        PROVE  Before(p2, t, ms, 0, d, s)
    BY <1>1, <1>3, <1>4, <2>2 DEF Before
  <2> QED
    BY <1>4, <1>5, <2>1, <2>2 DEF DevicesTold
<1>7. StreamsTold(p, p2, q, t, ms)
  <2>1. ASSUME NEW s \in DOMAIN p.streams, Asks(q, StreamQueries(s))
        PROVE  StreamDue(p2, t, ms, 0, s)
    <3>1. CASE Asks(t, StreamQueries(s))
      BY <3>1 DEF StreamDue
    <3>2. CASE r \in StreamQueries(s)
      <4>1. Comes(ms, 0, {StreamAnswer(p2, s)})
        BY <1>3, <3>2
      <4> QED
        BY <4>1, ComesWithin DEF StreamDue
    <3> QED
      BY <1>1, <2>1, <3>1, <3>2
  <2>2. p2.streams = p.streams \/ \A d \in Devices : Asks(q, DeviceQueries(d)) =>
          Asks(t, DeviceQueries(d))
    BY <1>1, <1>3
  <2> QED
    BY <1>4, <1>5, <2>1, <2>2 DEF StreamsTold
<1>8. DefaultTold(p, p2, q, t, ms)
  <2>1. ASSUME Asks(q, {<<"server">>}) PROVE ServerDue(p2, t, ms, 0)
    <3>1. CASE Asks(t, {<<"server">>})
      BY <3>1 DEF ServerDue
    <3>2. CASE r = <<"server">>
      <4>1. Comes(ms, 0, {<<"server", p2.default>>})
        BY <1>3, <3>2
      <4> QED
        BY <4>1, ComesWithin DEF ServerDue
    <3> QED
      BY <1>1, <2>1, <3>1, <3>2
  <2> QED
    BY <1>5, <2>1 DEF DefaultTold
<1>9. ChoiceKept(p, p2, q, t, ms)
  <2>1. ASSUME NEW d \in DOMAIN p2.devices, NEW port \in p2.devices[d].ports, NEW name,
               name = p2.devices[d].name,
               Asks(q, {<<"port", d, port, name>>, <<"default", d[1], name>>}), p2.default[d[1]] # name
        PROVE  DefaultDue(t, ms, 0, d, port, name)
    <3>1. r # <<"default", d[1], name>>
      BY <1>3, <2>1
    <3>2. CASE r = <<"port", d, port, name>>
      BY <1>3, <3>2 DEF DefaultDue
    <3>3. CASE Asks(t, {<<"port", d, port, name>>, <<"default", d[1], name>>})
      BY <3>3 DEF DefaultDue
    <3> QED
      BY <1>1, <2>1, <3>1, <3>2, <3>3
  <2> QED
    BY <1>4, <2>1 DEF ChoiceKept
<1> QED
  BY <1>6, <1>7, <1>8, <1>9 DEF t

\* Only the requests differ.
LEMMA OutSet ==
  ASSUME NEW w \in Clients, NEW q \in Seq(Requested)
  PROVE  LET v == [w EXCEPT !.out = q]
         IN /\ v \in Clients /\ SameTables(w, v) /\ v.out = q /\ v.context = w.context
            /\ v.escaped = w.escaped
<1> DEFINE v == [w EXCEPT !.out = q]
<1>1. v \in Clients
  BY DEF Clients
<1> QED
  BY <1>1 DEF Clients, SameTables

\* An answer keeps the invariant.
LEMMA RepliesKeep ==
  ASSUME ParametersAre, NEW p \in Pulses, Consistent(p), NEW w \in Clients, w.context = "ready",
         p.subscribed,
         NEW c, NEW a, Follows(p, w, c, a, <<>>, 0), w.out # <<>>,
         NEW p2, NEW ms, Replies(p, p2, Head(w.out), ms), NEW c2, NEW a2,
         Received(c, a, c2, a2, p2, ms),
         NEW v \in Clients, v.out = Tail(w.out), v.context = w.context, SameTables(w, v)
  PROVE  Upkeep(p2, HandledFirst(v, ms)[Len(ms)], c2, a2)
<1>1. /\ p2 \in Pulses /\ Consistent(p2) /\ ms \in Seq(Sent(p2)) /\ p2.subscribed
  BY DEF Replies, Happened
<1>2. w.out \in Seq(Requested) /\ Tail(w.out) \in Seq(Requested)
  BY ClientFields, AsksNext
<1>4. /\ DevicesTold(p, p2, w.out, v.out, ms) /\ StreamsTold(p, p2, w.out, v.out, ms)
      /\ DefaultTold(p, p2, w.out, v.out, ms) /\ ChoiceKept(p, p2, w.out, v.out, ms)
  BY <1>2, RepliesTold
<1>5. ChoicesKept(p, p2, v.out, ms, c, a, c2, a2)
  BY <1>1, <1>4, ReceivedKeeps
<1>6. Follows(p2, v, c2, a2, ms, 0)
  BY <1>1, <1>4, <1>5, ChangesFollow
<1>7. Copes(p2, v, HandledFirst(v, ms)[Len(ms)], c2, a2, <<>>, 0)
  BY <1>1, <1>6, MessagesHandled
<1> QED
  BY <1>1, <1>7 DEF Upkeep, Copes

\* The requests by their first component.
LEMMA RequestKinds ==
  /\ \A d : \A x \in DeviceQueries(d) : x[1] \in {"list", "device"}
  /\ \A s : \A x \in StreamQueries(s) : x[1] \in {"streams", "stream"}
  /\ \A d, port, name : <<"port", d, port, name>>[1] = "port"
  /\ \A dir, name : <<"default", dir, name>>[1] = "default"
  /\ <<"server">>[1] = "server"
<1>1. \A d : \A x \in DeviceQueries(d) : x[1] \in {"list", "device"}
  BY DEF DeviceQueries
<1>2. \A s : \A x \in StreamQueries(s) : x[1] \in {"streams", "stream"}
  BY DEF StreamQueries
<1> QED
  BY <1>1, <1>2

\* The requests, one by one.
RequestIs(r) ==
  \/ r = <<"subscribe">>
  \/ r = <<"streams">>
  \/ r = <<"server">>
  \/ \E dir \in Dirs : r = <<"list", dir>>
  \/ \E d \in Devices : r = <<"device", d>>
  \/ \E s \in Streams : r = <<"stream", s>>
  \/ \E d \in Devices, port \in AnyPort, name \in Names : r = <<"port", d, port, name>>
  \/ \E dir \in Dirs, name \in Names : r = <<"default", dir, name>>
  \/ \E s \in Streams, sink \in Sinks : r = <<"move", s, sink>>

\* There are no others.
LEMMA RequestsAre ==
  ASSUME NEW r \in Requested
  PROVE  RequestIs(r)
<1>1. CASE r \in {<<"subscribe">>, <<"streams">>, <<"server">>}
  BY <1>1 DEF RequestIs
<1>2. CASE r \in {"list"} \X Dirs
  BY <1>2 DEF RequestIs
<1>3. CASE r \in {"device"} \X Devices
  BY <1>3 DEF RequestIs
<1>4. CASE r \in {"stream"} \X Streams
  BY <1>4 DEF RequestIs
<1>5. CASE r \in {"port"} \X Devices \X AnyPort \X Names
  BY <1>5 DEF RequestIs
<1>6. CASE r \in {"default"} \X Dirs \X Names
  BY <1>6 DEF RequestIs
<1>7. CASE r \in {"move"} \X Streams \X Sinks
  BY <1>7 DEF RequestIs
<1> QED
  BY <1>1, <1>2, <1>3, <1>4, <1>5, <1>6, <1>7 DEF Requested

\* What Answered comes to for each kind of request.
AnswerIs(r, p2, events, answer) ==
  Answered(r).pulse = p2 /\ Answered(r).events = events /\ Answered(r).answer = answer

\* What PulseAudio answers to a query,
LEMMA QueriesAnswered ==
  /\ AnswerIs(<<"subscribe">>, [pulse EXCEPT !.subscribed = TRUE], <<>>, <<>>)
  /\ AnswerIs(<<"streams">>, pulse, <<>>, StreamEntries(DOMAIN pulse.streams))
  /\ AnswerIs(<<"server">>, pulse, <<>>, <<<<"server", pulse.default>>>>)
  /\ \A dir : AnswerIs(<<"list", dir>>, pulse, <<>>,
                       DeviceEntries({d \in DOMAIN pulse.devices : d[1] = dir}))
  /\ \A d : \/ d \in DOMAIN pulse.devices /\ AnswerIs(<<"device", d>>, pulse, <<>>, DeviceEntries({d}))
            \/ d \notin DOMAIN pulse.devices /\ AnswerIs(<<"device", d>>, pulse, <<>>, <<>>)
  /\ \A s : \/ s \in DOMAIN pulse.streams /\ AnswerIs(<<"stream", s>>, pulse, <<>>, StreamEntries({s}))
            \/ s \notin DOMAIN pulse.streams /\ AnswerIs(<<"stream", s>>, pulse, <<>>, <<>>)
<1>1. AnswerIs(<<"subscribe">>, [pulse EXCEPT !.subscribed = TRUE], <<>>, <<>>)
  BY DEF AnswerIs, Answered, Nothing
<1>2. AnswerIs(<<"streams">>, pulse, <<>>, StreamEntries(DOMAIN pulse.streams))
  BY DEF AnswerIs, Answered, Nothing
<1>3. AnswerIs(<<"server">>, pulse, <<>>, <<<<"server", pulse.default>>>>)
  BY DEF AnswerIs, Answered, Nothing
<1>4. \A dir : AnswerIs(<<"list", dir>>, pulse, <<>>,
                        DeviceEntries({d \in DOMAIN pulse.devices : d[1] = dir}))
  BY DEF AnswerIs, Answered, Nothing
<1>5. ASSUME NEW d
      PROVE  \/ d \in DOMAIN pulse.devices /\ AnswerIs(<<"device", d>>, pulse, <<>>, DeviceEntries({d}))
             \/ d \notin DOMAIN pulse.devices /\ AnswerIs(<<"device", d>>, pulse, <<>>, <<>>)
  BY DEF AnswerIs, Answered, Nothing, Here
<1>6. ASSUME NEW s
      PROVE  \/ s \in DOMAIN pulse.streams /\ AnswerIs(<<"stream", s>>, pulse, <<>>, StreamEntries({s}))
             \/ s \notin DOMAIN pulse.streams /\ AnswerIs(<<"stream", s>>, pulse, <<>>, <<>>)
  BY DEF AnswerIs, Answered, Nothing
<1> QED
  BY <1>1, <1>2, <1>3, <1>4, <1>5, <1>6

\* and to a request for a change, which it may refuse.
LEMMA ChangesAnswered ==
  /\ \A d, port, name :
       \/ /\ d \in DOMAIN pulse.devices /\ port \in pulse.devices[d].ports
          /\ AnswerIs(<<"port", d, port, name>>, [pulse EXCEPT !.devices[d].active = port],
                      IF pulse.devices[d].active = port THEN <<>> ELSE <<Changed(d, "change")>>,
                      <<<<"port set", d[1], name>>>>)
       \/ /\ ~(d \in DOMAIN pulse.devices /\ port \in pulse.devices[d].ports)
          /\ AnswerIs(<<"port", d, port, name>>, pulse, <<>>, <<>>)
  /\ \A dir, name :
       \/ /\ Owner(pulse, dir, name) # {}
          /\ AnswerIs(<<"default", dir, name>>, [pulse EXCEPT !.default[dir] = name],
                      IF pulse.default[dir] = name THEN <<>> ELSE <<ServerEvent>>, <<>>)
       \/ Owner(pulse, dir, name) = {} /\ AnswerIs(<<"default", dir, name>>, pulse, <<>>, <<>>)
  /\ \A s, sink :
       \/ /\ s \in DOMAIN pulse.streams /\ Dev(sink) \in DOMAIN pulse.devices
          /\ AnswerIs(<<"move", s, sink>>, [pulse EXCEPT !.streams[s] = sink],
                      <<StreamEvent(s, "change")>>, <<>>)
       \/ AnswerIs(<<"move", s, sink>>, pulse, <<>>, <<>>)
<1>1. ASSUME NEW d, NEW port, NEW name
      PROVE  \/ /\ d \in DOMAIN pulse.devices /\ port \in pulse.devices[d].ports
                /\ AnswerIs(<<"port", d, port, name>>, [pulse EXCEPT !.devices[d].active = port],
                            IF pulse.devices[d].active = port THEN <<>> ELSE <<Changed(d, "change")>>,
                            <<<<"port set", d[1], name>>>>)
             \/ /\ ~(d \in DOMAIN pulse.devices /\ port \in pulse.devices[d].ports)
                /\ AnswerIs(<<"port", d, port, name>>, pulse, <<>>, <<>>)
  BY DEF AnswerIs, Answered, Nothing, Here, Changed
<1>2. ASSUME NEW dir, NEW name
      PROVE  \/ /\ Owner(pulse, dir, name) # {}
                /\ AnswerIs(<<"default", dir, name>>, [pulse EXCEPT !.default[dir] = name],
                            IF pulse.default[dir] = name THEN <<>> ELSE <<ServerEvent>>, <<>>)
             \/ Owner(pulse, dir, name) = {} /\ AnswerIs(<<"default", dir, name>>, pulse, <<>>, <<>>)
  BY DEF AnswerIs, Answered, Nothing, ServerEvent
<1>3. ASSUME NEW s, NEW sink
      PROVE  \/ /\ s \in DOMAIN pulse.streams /\ Dev(sink) \in DOMAIN pulse.devices
                /\ AnswerIs(<<"move", s, sink>>, [pulse EXCEPT !.streams[s] = sink],
                            <<StreamEvent(s, "change")>>, <<>>)
             \/ AnswerIs(<<"move", s, sink>>, pulse, <<>>, <<>>)
  BY DEF AnswerIs, Answered, Nothing, Here, StreamEvent, Dev
<1> QED
  BY <1>1, <1>2, <1>3
-----------------------------------------------------------------------------
(* Answers *)

\* Nothing changed.
LEMMA NothingHappened ==
  ASSUME NEW p \in Pulses, Consistent(p)
  PROVE  Happened(p, p, <<>>) /\ <<>> \in Seq(Sent(p))
<1>1. Becomes(p, p, p.devices, p.used, p.default, p.streams, p.usedStreams)
  BY DEF Becomes
<1> QED
  BY <1>1, ExitsHappens

\* Answers go with the events.
LEMMA HappenedMore ==
  ASSUME NEW p, NEW p2, NEW ms, Happened(p, p2, ms), NEW t \in Seq(Sent(p2))
  PROVE  Happened(p, p2, ms \o t) /\ \A S : Comes(t, 0, S) => Comes(ms \o t, 0, S)
<1>1. ms \in Seq(Sent(p2)) /\ Announced(p, p2, ms)
  BY DEF Happened
<1>2. /\ ms \o t \in Seq(Sent(p2))
      /\ \A S : Comes(ms, 0, S) \/ Comes(t, 0, S) => Comes(ms \o t, 0, S)
  BY <1>1, ComesJoined
<1>3. Announced(p, p2, ms \o t)
  BY <1>1, <1>2 DEF Announced
<1> QED
  BY <1>2, <1>3 DEF Happened

\* A query: nothing changes.
LEMMA QueryReplies ==
  ASSUME NEW p \in Pulses, Consistent(p), NEW r, NEW ms \in Seq(Sent(p)),
         r[1] \notin {"port", "default"},
         \A d \in DOMAIN p.devices : r \in DeviceQueries(d) => Comes(ms, 0, {DeviceAnswer(p, d)}),
         \A s \in DOMAIN p.streams : r \in StreamQueries(s) => Comes(ms, 0, {StreamAnswer(p, s)}),
         r = <<"server">> => Comes(ms, 0, {<<"server", p.default>>})
  PROVE  Replies(p, p, r, <<>> \o ms)
<1>1. Happened(p, p, <<>> \o ms) /\ \A S : Comes(ms, 0, S) => Comes(<<>> \o ms, 0, S)
  BY NothingHappened, HappenedMore
<1>2. /\ \A d, port, name : r # <<"port", d, port, name>>
      /\ \A dir, name : r # <<"default", dir, name>>
  BY RequestKinds
<1> QED
  BY <1>1, <1>2 DEF Replies

\* A request for a change.
LEMMA ChangeReplies ==
  ASSUME NEW p, NEW p2, NEW r, NEW events, Happened(p, p2, events), NEW ms \in Seq(Sent(p2)),
         DOMAIN p2.devices = DOMAIN p.devices, DOMAIN p2.streams = DOMAIN p.streams,
         r[1] \in {"port", "default", "move"},
         \A d \in DOMAIN p2.devices : \A port, name :
              port \in p2.devices[d].ports /\ r = <<"port", d, port, name>> =>
           Comes(ms, 0, {<<"port set", d[1], name>>}),
         \A d \in DOMAIN p2.devices : r = <<"default", d[1], p2.devices[d].name>> =>
        p2.default[d[1]] = p2.devices[d].name
  PROVE  Replies(p, p2, r, events \o ms)
<1>1. Happened(p, p2, events \o ms) /\ \A S : Comes(ms, 0, S) => Comes(events \o ms, 0, S)
  BY HappenedMore
<1>2. /\ \A d : r \notin DeviceQueries(d)
      /\ \A s : r \notin StreamQueries(s)
      /\ r # <<"server">>
  BY RequestKinds
<1> QED
  BY <1>1, <1>2 DEF Replies

\* A list is answered with each of its entries.
LEMMA EntriesCome ==
  ASSUME ParametersAre, pulse \in Pulses
  PROVE  /\ \A S \in SUBSET DOMAIN pulse.devices :
              /\ DeviceEntries(S) \in Seq(Sent(pulse))
              /\ \A d \in S : Comes(DeviceEntries(S), 0, {DeviceAnswer(pulse, d)})
         /\ \A S \in SUBSET DOMAIN pulse.streams :
              /\ StreamEntries(S) \in Seq(Sent(pulse))
              /\ \A s \in S : Comes(StreamEntries(S), 0, {StreamAnswer(pulse, s)})
<1>0. IsFiniteSet(DOMAIN pulse.streams) /\ IsFiniteSet(DOMAIN pulse.devices)
  <2>1. IsFiniteSet(Devices)
    <3>1. IsFiniteSet({"out"}) /\ IsFiniteSet({"in"})
      BY FS_Singleton
    <3>2. IsFiniteSet({"out"} \X Sinks) /\ IsFiniteSet({"in"} \X Sources)
      BY <3>1, FS_Product DEF ParametersAre
    <3> QED
      BY <3>2, FS_Union DEF Devices
  <2> QED
    BY <2>1, PulseFields, FS_Subset DEF ParametersAre
<1>1. ASSUME NEW S \in SUBSET DOMAIN pulse.devices
      PROVE  /\ DeviceEntries(S) \in Seq(Sent(pulse))
             /\ \A d \in S : Comes(DeviceEntries(S), 0, {DeviceAnswer(pulse, d)})
  <2> DEFINE f == [d \in S |-> <<"device", d, pulse.devices[d]>>]
  <2>1. /\ f = [d \in DOMAIN f |-> f[d]] /\ DOMAIN f = S
        /\ \A d \in S : f[d] = DeviceAnswer(pulse, d)
    BY DEF DeviceAnswer
  <2>2. \A d \in S : DeviceAnswer(pulse, d) \in Sent(pulse)
    BY DEF Sent, DeviceAnswers
  <2>3. IsFiniteSet(S)
    BY <1>0, FS_Subset
  <2> HIDE DEF f
  <2>4. /\ f = [d \in DOMAIN f |-> f[d]] /\ IsFiniteSet(DOMAIN f)
        /\ \A d \in DOMAIN f : f[d] \in Sent(pulse)
    BY <2>1, <2>2, <2>3
  <2>5. /\ InSomeOrder(f) \in Seq(Sent(pulse))
        /\ \A d \in DOMAIN f : \A T : f[d] \in T => Comes(InSomeOrder(f), 0, T)
    BY ONLY <2>4, ComeInOrder
  <2>6. /\ InSomeOrder(f) \in Seq(Sent(pulse))
        /\ \A d \in S : Comes(InSomeOrder(f), 0, {DeviceAnswer(pulse, d)})
    BY <2>1, <2>5
  <2> QED
    BY <2>6 DEF DeviceEntries, f
<1>2. ASSUME NEW S \in SUBSET DOMAIN pulse.streams
      PROVE  /\ StreamEntries(S) \in Seq(Sent(pulse))
             /\ \A s \in S : Comes(StreamEntries(S), 0, {StreamAnswer(pulse, s)})
  <2> DEFINE f == [s \in S |-> <<"stream", s, pulse.streams[s]>>]
  <2>1. /\ f = [s \in DOMAIN f |-> f[s]] /\ DOMAIN f = S
        /\ \A s \in S : f[s] = StreamAnswer(pulse, s)
    BY DEF StreamAnswer
  <2>2. \A s \in S : StreamAnswer(pulse, s) \in Sent(pulse)
    BY DEF Sent, StreamAnswers
  <2>3. IsFiniteSet(S)
    BY <1>0, FS_Subset
  <2> HIDE DEF f
  <2>4. /\ f = [s \in DOMAIN f |-> f[s]] /\ IsFiniteSet(DOMAIN f)
        /\ \A s \in DOMAIN f : f[s] \in Sent(pulse)
    BY <2>1, <2>2, <2>3
  <2>5. /\ InSomeOrder(f) \in Seq(Sent(pulse))
        /\ \A s \in DOMAIN f : \A T : f[s] \in T => Comes(InSomeOrder(f), 0, T)
    BY ONLY <2>4, ComeInOrder
  <2>6. /\ InSomeOrder(f) \in Seq(Sent(pulse))
        /\ \A s \in S : Comes(InSomeOrder(f), 0, {StreamAnswer(pulse, s)})
    BY <2>1, <2>5
  <2> QED
    BY <2>6 DEF StreamEntries, f
<1> QED
  BY <1>1, <1>2

\* PulseAudio's answer to r is one.
AnswerReplies(r) ==
  Replies(pulse, Answered(r).pulse, r, Answered(r).events \o Answered(r).answer)

\* The answers to the queries,
LEMMA QueriesReply ==
  ASSUME ParametersAre, pulse \in Pulses, Consistent(pulse), pulse.subscribed
  PROVE  /\ AnswerReplies(<<"subscribe">>) /\ AnswerReplies(<<"streams">>)
         /\ AnswerReplies(<<"server">>)
         /\ \A dir : AnswerReplies(<<"list", dir>>)
         /\ \A d : AnswerReplies(<<"device", d>>)
         /\ \A s : AnswerReplies(<<"stream", s>>)
<1>0. <<>> \in Seq(Sent(pulse))
  OBVIOUS
<1>1. ASSUME NEW r, NEW ms \in Seq(Sent(pulse)), AnswerIs(r, pulse, <<>>, ms),
             r[1] \notin {"port", "default"},
             \A d \in DOMAIN pulse.devices : r \in DeviceQueries(d) =>
               Comes(ms, 0, {DeviceAnswer(pulse, d)}),
             \A s \in DOMAIN pulse.streams : r \in StreamQueries(s) =>
               Comes(ms, 0, {StreamAnswer(pulse, s)}),
             r = <<"server">> => Comes(ms, 0, {<<"server", pulse.default>>})
      PROVE  AnswerReplies(r)
  <2>1. Replies(pulse, pulse, r, <<>> \o ms)
    BY <1>1, QueryReplies
  <2> QED
    BY <1>1, <2>1 DEF AnswerReplies, AnswerIs
<1>2. AnswerReplies(<<"subscribe">>)
  <2>1. [pulse EXCEPT !.subscribed = TRUE] = pulse
    BY DEF Pulses
  <2>2. AnswerIs(<<"subscribe">>, pulse, <<>>, <<>>)
    BY <2>1, QueriesAnswered
  <2>3. <<"subscribe">>[1] = "subscribe" /\ <<"subscribe">> # <<"server">>
    OBVIOUS
  <2> HIDE DEF AnswerReplies
  <2> QED
    BY <1>0, <1>1, <2>2, <2>3, RequestKinds
<1>3. AnswerReplies(<<"streams">>)
  <2>1. /\ StreamEntries(DOMAIN pulse.streams) \in Seq(Sent(pulse))
        /\ \A s \in DOMAIN pulse.streams :
                Comes(StreamEntries(DOMAIN pulse.streams), 0, {StreamAnswer(pulse, s)})
    BY EntriesCome
  <2>2. AnswerIs(<<"streams">>, pulse, <<>>, StreamEntries(DOMAIN pulse.streams))
    BY QueriesAnswered
  <2>3. <<"streams">>[1] = "streams" /\ <<"streams">> # <<"server">>
    OBVIOUS
  <2> QED
    BY <1>1, <2>1, <2>2, <2>3, RequestKinds
<1>4. AnswerReplies(<<"server">>)
  <2> DEFINE ms == <<<<"server", pulse.default>>>>
  <2>1. <<"server", pulse.default>> \in Sent(pulse)
    BY DEF Sent
  <2>2. ms \in Seq(Sent(pulse)) /\ Comes(ms, 0, {<<"server", pulse.default>>})
    BY <2>1, OneSent
  <2>3. AnswerIs(<<"server">>, pulse, <<>>, ms)
    BY QueriesAnswered
  <2>4. <<"server">>[1] = "server"
    OBVIOUS
  <2> HIDE DEF ms
  <2> QED
    BY <1>1, <2>2, <2>3, <2>4, RequestKinds
<1>5. ASSUME NEW dir PROVE AnswerReplies(<<"list", dir>>)
  <2> DEFINE S == {d \in DOMAIN pulse.devices : d[1] = dir}
  <2>1. S \in SUBSET DOMAIN pulse.devices
    OBVIOUS
  <2>2. /\ DeviceEntries(S) \in Seq(Sent(pulse))
        /\ \A d \in S : Comes(DeviceEntries(S), 0, {DeviceAnswer(pulse, d)})
    BY <2>1, EntriesCome
  <2>3. AnswerIs(<<"list", dir>>, pulse, <<>>, DeviceEntries(S))
    BY QueriesAnswered
  <2>4. <<"list", dir>>[1] = "list" /\ <<"list", dir>> # <<"server">>
    OBVIOUS
  <2>5. \A d \in DOMAIN pulse.devices : <<"list", dir>> \in DeviceQueries(d) => d \in S
    BY DEF DeviceQueries
  <2> HIDE DEF S
  <2> QED
    BY <1>1, <2>2, <2>3, <2>4, <2>5, RequestKinds
<1>6. ASSUME NEW d PROVE AnswerReplies(<<"device", d>>)
  <2>1. <<"device", d>>[1] = "device" /\ <<"device", d>> # <<"server">>
    OBVIOUS
  <2>2. \A e : <<"device", d>> \in DeviceQueries(e) => e = d
    BY DEF DeviceQueries
  <2>3. CASE /\ d \in DOMAIN pulse.devices
             /\ AnswerIs(<<"device", d>>, pulse, <<>>, DeviceEntries({d}))
    <3>1. {d} \in SUBSET DOMAIN pulse.devices
      BY <2>3
    <3>2. /\ DeviceEntries({d}) \in Seq(Sent(pulse))
          /\ Comes(DeviceEntries({d}), 0, {DeviceAnswer(pulse, d)})
      BY <3>1, EntriesCome
    <3> QED
      BY <1>1, <2>1, <2>2, <2>3, <3>2, RequestKinds
  <2>4. CASE d \notin DOMAIN pulse.devices /\ AnswerIs(<<"device", d>>, pulse, <<>>, <<>>)
    BY <1>0, <1>1, <2>1, <2>2, <2>4, RequestKinds
  <2> QED
    BY <2>3, <2>4, QueriesAnswered
<1>7. ASSUME NEW s PROVE AnswerReplies(<<"stream", s>>)
  <2>1. <<"stream", s>>[1] = "stream" /\ <<"stream", s>> # <<"server">>
    OBVIOUS
  <2>2. \A t : <<"stream", s>> \in StreamQueries(t) => t = s
    BY DEF StreamQueries
  <2>3. CASE /\ s \in DOMAIN pulse.streams
             /\ AnswerIs(<<"stream", s>>, pulse, <<>>, StreamEntries({s}))
    <3>1. {s} \in SUBSET DOMAIN pulse.streams
      BY <2>3
    <3>2. /\ StreamEntries({s}) \in Seq(Sent(pulse))
          /\ Comes(StreamEntries({s}), 0, {StreamAnswer(pulse, s)})
      BY <3>1, EntriesCome
    <3> QED
      BY <1>1, <2>1, <2>2, <2>3, <3>2, RequestKinds
  <2>4. CASE s \notin DOMAIN pulse.streams /\ AnswerIs(<<"stream", s>>, pulse, <<>>, <<>>)
    BY <1>0, <1>1, <2>1, <2>2, <2>4, RequestKinds
  <2> QED
    BY <2>3, <2>4, QueriesAnswered
<1> QED
  BY <1>2, <1>3, <1>4, <1>5, <1>6, <1>7

\* Nothing comes of a request that PulseAudio refuses.
LEMMA Refused ==
  ASSUME pulse \in Pulses, Consistent(pulse), NEW r, AnswerIs(r, pulse, <<>>, <<>>),
         r[1] \in {"port", "default", "move"},
         \A d \in DOMAIN pulse.devices : \A port, name : port \in pulse.devices[d].ports =>
           r # <<"port", d, port, name>>,
         \A d \in DOMAIN pulse.devices : r = <<"default", d[1], pulse.devices[d].name>> =>
           pulse.default[d[1]] = pulse.devices[d].name
  PROVE  AnswerReplies(r)
<1>1. Happened(pulse, pulse, <<>>) /\ <<>> \in Seq(Sent(pulse))
  BY NothingHappened
<1>2. Replies(pulse, pulse, r, <<>> \o <<>>)
  BY <1>1, ChangeReplies
<1> QED
  BY <1>2 DEF AnswerReplies, AnswerIs

\* to a request for a port,
LEMMA PortReplies ==
  ASSUME pulse \in Pulses, Consistent(pulse), NEW d \in Devices, NEW port, NEW name \in Names
  PROVE  AnswerReplies(<<"port", d, port, name>>)
<1> DEFINE r == <<"port", d, port, name>>
<1>0. /\ r[1] = "port" /\ \A e, q, n : r = <<"port", e, q, n>> => e = d /\ q = port /\ n = name
      /\ d[1] \in Dirs
  BY Paths
<1> HIDE DEF r
<1>1. CASE /\ ~(d \in DOMAIN pulse.devices /\ port \in pulse.devices[d].ports)
           /\ AnswerIs(r, pulse, <<>>, <<>>)
  <2>1. \A e, n : r # <<"default", e, n>>
    BY <1>0, RequestKinds
  <2> QED
    BY <1>0, <1>1, <2>1, Refused DEF r
<1>2. CASE /\ d \in DOMAIN pulse.devices /\ port \in pulse.devices[d].ports
           /\ AnswerIs(r, [pulse EXCEPT !.devices[d].active = port],
                       IF pulse.devices[d].active = port THEN <<>> ELSE <<Changed(d, "change")>>,
                       <<<<"port set", d[1], name>>>>)
  <2> DEFINE info == [pulse.devices[d] EXCEPT !.active = port]
             D == [pulse.devices EXCEPT ![d] = info]
             p2 == [pulse EXCEPT !.devices[d].active = port]
             events == IF pulse.devices[d].active = port THEN <<>> ELSE <<Changed(d, "change")>>
             ms == <<<<"port set", d[1], name>>>>
  <2>1. /\ pulse.devices \in Partial(Devices, Infos) /\ pulse.devices[d] \in Infos
        /\ pulse.devices = [e \in DOMAIN pulse.devices |-> pulse.devices[e]]
        /\ DOMAIN pulse.devices \subseteq Devices
        /\ \A e \in DOMAIN pulse.devices : pulse.devices[e] \in Infos
    <3>1. pulse.devices \in Partial(Devices, Infos)
      BY PulseFields
    <3>2. /\ pulse.devices = [e \in DOMAIN pulse.devices |-> pulse.devices[e]]
          /\ DOMAIN pulse.devices \subseteq Devices
          /\ \A e \in DOMAIN pulse.devices : pulse.devices[e] \in Infos
      BY ONLY <3>1, Partials
    <3> QED
      BY <1>2, <3>1, <3>2
  <2>2. /\ info \in Infos /\ info.name = pulse.devices[d].name /\ info.active = port
        /\ info.ports = pulse.devices[d].ports
    <3>1. /\ pulse.devices[d] \in [name : Names, ports : PortSets, active : Ports \cup {NoPort}]
          /\ port \in pulse.devices[d].ports /\ pulse.devices[d].ports # {}
      BY <1>2, <2>1 DEF Infos
    <3>2. port \in Ports
      BY <3>1 DEF Ports
    <3>3. /\ info \in [name : Names, ports : PortSets, active : Ports \cup {NoPort}]
          /\ info.name = pulse.devices[d].name /\ info.active = port
          /\ info.ports = pulse.devices[d].ports
      BY <3>1, <3>2
    <3> HIDE DEF info
    <3> QED
      BY <3>1, <3>3 DEF Infos
  <2>3. pulse.devices[d].active = port => info = pulse.devices[d]
    BY <2>1 DEF Infos
  <2>4. p2 = [pulse EXCEPT !.devices = D]
    OBVIOUS
  <2> HIDE DEF info
  <2>5. D \in Partial(Devices, Infos)
    <3>1. /\ D = [e \in DOMAIN D |-> D[e]] /\ DOMAIN D \subseteq Devices
          /\ \A e \in DOMAIN D : D[e] \in Infos
      BY <2>1, <2>2
    <3> HIDE DEF D
    <3> QED
      BY <3>1, Partials
  <2>6. pulse.devices[d].active = port => D = pulse.devices
    BY <2>1, <2>3
  <2>7. DOMAIN D = DOMAIN pulse.devices /\ D[d] = info
    BY <1>2
  <2> HIDE DEF p2
  <2>8. Becomes(pulse, p2, D, pulse.used, pulse.default, pulse.streams, pulse.usedStreams)
    <3> HIDE DEF D
    <3> QED
      BY <2>4, <2>5, PulseFields DEF Becomes, Pulses
  <2>9. Happened(pulse, p2, events)
    <3>1. CASE pulse.devices[d].active = port
      <4>1. /\ events = <<>>
            /\ Becomes(pulse, p2, pulse.devices, pulse.used, pulse.default, pulse.streams, pulse.usedStreams)
        BY <2>6, <2>8, <3>1
      <4> QED
        BY <4>1, ExitsHappens
    <3>2. CASE pulse.devices[d].active # port
      <4>1. events = <<Changed(d, "change")>>
        BY <3>2
      <4>2. Happened(pulse, p2, <<Changed(d, "change")>>)
        BY <1>2, <2>2, <2>8, PortChangesHappens
      <4> QED
        BY <4>1, <4>2
    <3> QED
      BY <3>1, <3>2
  <2>10. ms \in Seq(Sent(p2)) /\ Comes(ms, 0, {<<"port set", d[1], name>>})
    <3>1. <<"port set", d[1], name>> \in PortAnswers
      <4>1. /\ <<d[1], name>> \in Dirs \X Names
            /\ PortAnswer(<<d[1], name>>) = <<"port set", d[1], name>>
        BY <1>0 DEF PortAnswer
      <4> QED
        BY <4>1 DEF PortAnswers
    <3>2. <<"port set", d[1], name>> \in Sent(p2)
      BY <3>1 DEF Sent
    <3> QED
      BY <3>2, OneSent
  <2>11. DOMAIN p2.devices = DOMAIN pulse.devices /\ DOMAIN p2.streams = DOMAIN pulse.streams
    BY <2>7, <2>8 DEF Becomes
  <2>12. \A e, n : r # <<"default", e, n>>
    BY <1>0, RequestKinds
  <2>13. AnswerIs(r, p2, events, ms)
    BY <1>2 DEF p2
  <2> HIDE DEF events, ms
  <2>14. Replies(pulse, p2, r, events \o ms)
    BY <1>0, <2>9, <2>10, <2>11, <2>12, ChangeReplies
  <2> QED
    BY <2>13, <2>14 DEF AnswerReplies, AnswerIs, r
<1> QED
  BY <1>1, <1>2, ChangesAnswered DEF r

\* for a default device,
LEMMA DefaultReplies ==
  ASSUME pulse \in Pulses, Consistent(pulse), NEW dir \in Dirs, NEW name \in Names
  PROVE  AnswerReplies(<<"default", dir, name>>)
<1> DEFINE r == <<"default", dir, name>>
<1>0. /\ r[1] = "default" /\ \A e, n : r = <<"default", e, n>> => e = dir /\ n = name
      /\ \A e, port, n : r # <<"port", e, port, n>>
  OBVIOUS
<1> HIDE DEF r
<1>1. CASE Owner(pulse, dir, name) = {} /\ AnswerIs(r, pulse, <<>>, <<>>)
  <2>1. \A d \in DOMAIN pulse.devices : ~(d[1] = dir /\ pulse.devices[d].name = name)
    BY <1>1, Owners
  <2> QED
    BY <1>0, <1>1, <2>1, Refused DEF r
<1>2. CASE /\ Owner(pulse, dir, name) # {}
           /\ AnswerIs(r, [pulse EXCEPT !.default[dir] = name],
                       IF pulse.default[dir] = name THEN <<>> ELSE <<ServerEvent>>, <<>>)
  <2> DEFINE F == [pulse.default EXCEPT ![dir] = name]
             p2 == [pulse EXCEPT !.default[dir] = name]
             events == IF pulse.default[dir] = name THEN <<>> ELSE <<ServerEvent>>
  <2>1. PICK dev \in DOMAIN pulse.devices : dev[1] = dir /\ pulse.devices[dev].name = name
    BY <1>2, Owners
  <2>2. pulse.default \in [Dirs -> AnyName]
    BY PulseFields
  <2>3. F \in [Dirs -> AnyName] /\ F[dir] = name /\ (pulse.default[dir] = name => F = pulse.default)
    BY <2>2 DEF AnyName
  <2>4. p2 = [pulse EXCEPT !.default = F]
    OBVIOUS
  <2> HIDE DEF p2
  <2>5. Becomes(pulse, p2, pulse.devices, pulse.used, F, pulse.streams, pulse.usedStreams)
    <3> HIDE DEF F
    <3> QED
      BY <2>3, <2>4, PulseFields DEF Becomes, Pulses
  <2>6. Happened(pulse, p2, events)
    <3>1. CASE pulse.default[dir] = name
      <4>1. /\ events = <<>>
            /\ Becomes(pulse, p2, pulse.devices, pulse.used, pulse.default, pulse.streams, pulse.usedStreams)
        BY <2>3, <2>5, <3>1
      <4> QED
        BY <4>1, ExitsHappens
    <3>2. CASE pulse.default[dir] # name
      <4>1. events = <<ServerEvent>>
        BY <3>2
      <4>2. Becomes(pulse, p2, pulse.devices, pulse.used,
                    [pulse.default EXCEPT ![dev[1]] = pulse.devices[dev].name],
                    pulse.streams, pulse.usedStreams)
        BY <2>1, <2>5
      <4>3. Happened(pulse, p2, <<ServerEvent>>)
        BY <4>2, DefaultChangesHappens
      <4> QED
        BY <4>1, <4>3
    <3> QED
      BY <3>1, <3>2
  <2>7. /\ DOMAIN p2.devices = DOMAIN pulse.devices /\ DOMAIN p2.streams = DOMAIN pulse.streams
        /\ p2.default = F /\ <<>> \in Seq(Sent(p2))
    BY <2>5 DEF Becomes
  <2>8. \A d \in DOMAIN p2.devices : r = <<"default", d[1], p2.devices[d].name>> =>
          p2.default[d[1]] = p2.devices[d].name
    BY <1>0, <2>3, <2>7
  <2>9. AnswerIs(r, p2, events, <<>>)
    BY <1>2 DEF p2
  <2> HIDE DEF events, F
  <2>10. Replies(pulse, p2, r, events \o <<>>)
    BY <1>0, <2>6, <2>7, <2>8, ChangeReplies
  <2> QED
    BY <2>9, <2>10 DEF AnswerReplies, AnswerIs, r
<1> QED
  BY <1>1, <1>2, ChangesAnswered DEF r

\* and for a stream's sink.
LEMMA MoveReplies ==
  ASSUME pulse \in Pulses, Consistent(pulse), NEW s \in Streams, NEW sink \in Sinks
  PROVE  AnswerReplies(<<"move", s, sink>>)
<1> DEFINE r == <<"move", s, sink>>
<1>0. /\ r[1] = "move" /\ \A e, n : r # <<"default", e, n>>
      /\ \A e, port, n : r # <<"port", e, port, n>>
  OBVIOUS
<1> HIDE DEF r
<1>1. CASE AnswerIs(r, pulse, <<>>, <<>>)
  BY <1>0, <1>1, Refused DEF r
<1>2. CASE /\ s \in DOMAIN pulse.streams /\ Dev(sink) \in DOMAIN pulse.devices
           /\ AnswerIs(r, [pulse EXCEPT !.streams[s] = sink], <<StreamEvent(s, "change")>>, <<>>)
  <2> DEFINE S == [pulse.streams EXCEPT ![s] = sink]
             p2 == [pulse EXCEPT !.streams[s] = sink]
             events == <<StreamEvent(s, "change")>>
  <2>1. S \in Partial(Streams, Sinks) /\ DOMAIN S = DOMAIN pulse.streams
    <3>1. pulse.streams \in Partial(Streams, Sinks)
      BY PulseFields
    <3>2. /\ S = [t \in DOMAIN S |-> S[t]] /\ DOMAIN S \subseteq Streams
          /\ \A t \in DOMAIN S : S[t] \in Sinks
          /\ DOMAIN S = DOMAIN pulse.streams
      BY <3>1, Partials
    <3> HIDE DEF S
    <3> QED
      BY <3>2, Partials
  <2>2. p2 = [pulse EXCEPT !.streams = S]
    OBVIOUS
  <2> HIDE DEF p2
  <2>3. Becomes(pulse, p2, pulse.devices, pulse.used, pulse.default, S, pulse.usedStreams)
    <3> HIDE DEF S
    <3> QED
      BY <2>1, <2>2, PulseFields DEF Becomes, Pulses
  <2>4. Happened(pulse, p2, events)
    BY <1>2, <2>3, StreamMovesHappens
  <2>5. /\ DOMAIN p2.devices = DOMAIN pulse.devices /\ DOMAIN p2.streams = DOMAIN pulse.streams
        /\ <<>> \in Seq(Sent(p2))
    BY <2>1, <2>3 DEF Becomes
  <2>6. AnswerIs(r, p2, events, <<>>)
    BY <1>2 DEF p2
  <2> HIDE DEF events
  <2>7. Replies(pulse, p2, r, events \o <<>>)
    BY <1>0, <2>4, <2>5, ChangeReplies
  <2> QED
    BY <2>6, <2>7 DEF AnswerReplies, AnswerIs, r
<1> QED
  BY <1>1, <1>2, ChangesAnswered DEF r

\* Every request.
LEMMA AnswersReply ==
  ASSUME ParametersAre, pulse \in Pulses, Consistent(pulse), pulse.subscribed, NEW r \in Requested
  PROVE  AnswerReplies(r)
<1> QED
  BY RequestsAre, QueriesReply, PortReplies, DefaultReplies, MoveReplies DEF RequestIs

\* The service before it is connected, and once it is.
LEMMA NoClientIs ==
  /\ NoClient \in Clients /\ Connected \in Clients
  /\ DOMAIN NoClient.devices = {} /\ DOMAIN NoClient.ports = {} /\ DOMAIN NoClient.streams = {}
  /\ NoClient.context = "connecting" /\ ~NoClient.escaped /\ NoClient.out = <<>>
  /\ \A dir \in Dirs : NoClient.active[dir] = NoPath
  /\ SameTables(NoClient, Connected) /\ Connected.context = "ready" /\ Connected.out = Initial
  /\ ~Connected.escaped
<1>1. \A S, T : /\ Without([p \in {NoPath} |-> NoName], {NoPath}) \in Partial(S, T)
                /\ Without([d \in Devices |-> NoPort], Devices) \in Partial(S, T)
                /\ Without([s \in Streams |-> 0], Streams) \in Partial(S, T)
  <2>1. ASSUME NEW f, NEW S, NEW T, f = Without(f, {}), DOMAIN f = {} PROVE f \in Partial(S, T)
    <3>1. f = [x \in DOMAIN f |-> f[x]]
      BY <2>1 DEF Without
    <3> QED
      BY <2>1, <3>1, Partials
  <2>2. ASSUME NEW f, NEW X, DOMAIN f \ X = {}
        PROVE  Without(f, X) = Without(Without(f, X), {}) /\ DOMAIN Without(f, X) = {}
    BY <2>2 DEF Without
  <2> QED
    BY <2>1, <2>2
<1>2. /\ DOMAIN Without([p \in {NoPath} |-> NoName], {NoPath}) = {}
      /\ DOMAIN Without([d \in Devices |-> NoPort], Devices) = {}
      /\ DOMAIN Without([s \in Streams |-> 0], Streams) = {}
  BY DEF Without
<1>3. <<>> \in Seq(Requested) /\ Initial \in Seq(Requested)
  BY DEF Initial, Requested, Dirs
<1>4. [d \in Dirs |-> NoPath] \in [Dirs -> AnyPath] /\ [d \in Dirs |-> NoName] \in [Dirs -> AnyName]
  BY DEF AnyPath, AnyName
<1> DEFINE devices == Without([p \in {NoPath} |-> NoName], {NoPath})
           ports == Without([d \in Devices |-> NoPort], Devices)
           streams == Without([s \in Streams |-> 0], Streams)
           active == [d \in Dirs |-> NoPath]
           default == [d \in Dirs |-> NoName]
<1>5. \A dir \in Dirs : active[dir] = NoPath
  OBVIOUS
<1>6. NoClient = [context |-> "connecting", devices |-> devices, ports |-> ports, streams |-> streams,
                  active |-> active, default |-> default, out |-> <<>>, escaped |-> FALSE]
  BY DEF NoClient
<1> HIDE DEF devices, ports, streams, active, default, Initial
<1>7. NoClient \in Clients
  BY <1>1, <1>3, <1>4, <1>6 DEF Clients, devices, ports, streams, active, default
<1>9. Connected \in Clients
  BY <1>3, <1>7 DEF Clients, Connected
<1>10. SameTables(NoClient, Connected) /\ Connected.escaped = NoClient.escaped
  BY <1>7 DEF Clients, Connected, SameTables
<1>11. /\ NoClient.devices = devices /\ NoClient.ports = ports /\ NoClient.streams = streams
       /\ NoClient.active = active /\ NoClient.context = "connecting" /\ ~NoClient.escaped
       /\ NoClient.out = <<>>
  BY <1>6
<1>12. Connected.context = "ready" /\ Connected.out = Initial
  BY <1>7 DEF Clients, Connected
<1>13. DOMAIN devices = {} /\ DOMAIN ports = {} /\ DOMAIN streams = {}
  BY <1>2 DEF devices, ports, streams
<1> QED
  BY <1>5, <1>7, <1>9, <1>10, <1>11, <1>12, <1>13

\* After the subscription everything is asked for, devices before streams.
LEMMA SubscribedFollows ==
  ASSUME NEW p \in Pulses, Consistent(p), NEW v \in Clients, SameTables(NoClient, v),
         v.out = Tail(Initial),
         NEW c, NEW a, NothingChosen(c, a)
  PROVE  Follows(p, v, c, a, <<>>, 0)
<1> DEFINE q == Tail(Initial)
<1>1. /\ q = <<<<"list", "out">>, <<"list", "in">>, <<"streams">>, <<"server">>>>
      /\ DOMAIN q = 1 .. 4 /\ q[1] = <<"list", "out">> /\ q[2] = <<"list", "in">>
      /\ q[3] = <<"streams">> /\ q[4] = <<"server">>
  BY DEF Initial
<1> HIDE DEF q
<1>2. \A d \in Devices : \E i \in 1 .. 2 : q[i] \in DeviceQueries(d)
  BY <1>1, Paths DEF DeviceQueries, Dirs
<1>3. \A s : q[3] \in StreamQueries(s)
  BY <1>1 DEF StreamQueries
<1>4. /\ \A d \in Devices : Asks(q, DeviceQueries(d))
      /\ \A s : Asks(q, StreamQueries(s))
      /\ Asks(q, {<<"server">>})
  BY <1>1, <1>2, <1>3 DEF Asks
<1>5. ASSUME NEW d \in Devices, NEW s PROVE InTurn(q, d, s)
  <2>1. PICK i \in 1 .. 2 : q[i] \in DeviceQueries(d)
    BY <1>2
  <2>2. i \in DOMAIN q /\ 3 \in DOMAIN q /\ i < 3
    BY <1>1
  <2> QED
    BY <1>3, <2>1, <2>2 DEF InTurn
<1>6. /\ DOMAIN v.devices = {} /\ DOMAIN v.ports = {} /\ DOMAIN v.streams = {}
      /\ \A dir \in Dirs : v.active[dir] = NoPath
  BY NoClientIs DEF SameTables
<1>7. /\ DOMAIN p.devices \subseteq Devices /\ DOMAIN p.streams \subseteq Streams
      /\ \A s \in DOMAIN p.streams : Dev(p.streams[s]) \in Devices
  BY PulseFields DEF Consistent
<1>8. v.out = q
  BY DEF q
<1>9. TablesFollow(p, v, <<>>, 0)
  <2>1. DevicesFollow(p, v, <<>>, 0)
    BY <1>4, <1>7, <1>8 DEF DevicesFollow, DeviceDue
  <2>2. DevicesGo(p, v, <<>>, 0) /\ NamesFollow(p, v)
    BY <1>6 DEF DevicesGo, Unknown, NamesFollow
  <2>3. StreamsFollow(p, v, <<>>, 0) /\ StreamsGo(p, v, <<>>, 0)
    BY <1>4, <1>6, <1>7, <1>8 DEF StreamsFollow, StreamDue, StreamsGo
  <2>4. DefaultFollows(p, v, <<>>, 0)
    BY <1>4, <1>8 DEF DefaultFollows, ServerDue
  <2> QED
    BY <2>1, <2>2, <2>3, <2>4 DEF TablesFollow
<1>10. ActiveFollows(p, v, <<>>, 0)
  BY <1>6 DEF ActiveFollows
<1>11. SinksFirst(p, v, <<>>, 0) /\ ShownSinksFirst(p, v, <<>>, 0) /\ PathsFollow(p, v, c, <<>>, 0)
  BY <1>5, <1>6, <1>7, <1>8 DEF SinksFirst, ShownSinksFirst, PathsFollow, Before
<1>12. ChoicesFollow(p, v, a, <<>>, 0)
  BY DEF ChoicesFollow, NothingChosen
<1> QED
  BY <1>9, <1>10, <1>11, <1>12 DEF Follows

\* PulseAudio's answer to the next request keeps the invariant, if it still runs.
LEMMA AnswerHolds ==
  ASSUME ParametersAre, UpkeepHolds, Answer
  PROVE  UpkeepHolds'
<1> DEFINE r == Head(client.out)
           read == [client EXCEPT !.out = Tail(@)]
           ms == (IF pulse.subscribed THEN Answered(r).events ELSE <<>>) \o Answered(r).answer
<1>1. /\ client.context # "none" /\ ~client.escaped /\ pulse.up /\ client.out # <<>>
      /\ pulse' = Answered(r).pulse /\ client' = HandledFirst(read, ms)[Len(ms)]
      /\ Received(chosen, asked, chosen', asked', pulse', ms)
  BY DEF Answer, Alive, Receive, Received
<1>2. pulse \in Pulses /\ Consistent(pulse) /\ client \in Clients
  BY DEF UpkeepHolds, Upkeep
<1>3. client.out \in Seq(Requested) /\ r \in Requested /\ Tail(client.out) \in Seq(Requested)
  BY <1>1, <1>2, ClientFields, AsksNext
<1>4. /\ read \in Clients /\ SameTables(client, read) /\ read.out = Tail(client.out)
      /\ read.context = client.context
  <2>1. read = [client EXCEPT !.out = Tail(client.out)]
    OBVIOUS
  <2> HIDE DEF read
  <2> QED
    BY <1>2, <1>3, <2>1, OutSet
<1>5. CASE client \in {NoClient, Connected} /\ ~pulse.subscribed /\ NothingChosen(chosen, asked)
  <2>1. client = Connected /\ client.out = Initial
    BY <1>1, <1>5, NoClientIs
  <2>2. r = <<"subscribe">>
    BY <2>1 DEF Initial
  <2>3. Answered(r).pulse = [pulse EXCEPT !.subscribed = TRUE] /\ Answered(r).answer = <<>>
    BY <2>2, QueriesAnswered DEF AnswerIs
  <2>4. ms = <<>>
    <3>1. ms = <<>> \o <<>>
      BY <1>5, <2>3
    <3> QED
      BY <3>1
  <2>5. pulse' = [pulse EXCEPT !.subscribed = TRUE]
    BY <1>1, <2>3
  <2>6. /\ pulse' \in Pulses /\ pulse'.subscribed /\ pulse'.devices = pulse.devices
        /\ pulse'.streams = pulse.streams
        /\ pulse'.default = pulse.default /\ pulse'.used = pulse.used
        /\ pulse'.usedStreams = pulse.usedStreams
    BY <1>2, <2>5 DEF Pulses
  <2>7. Consistent(pulse')
    BY <1>2, <2>6 DEF Consistent, Owner
  <2> HIDE DEF ms, read, r
  <2>8. client' = read
    BY <1>1, <1>2, <1>4, <2>4, NoMessages
  <2>9. NothingChosen(chosen', asked')
    BY <1>1, <1>5, <2>4, NothingReceived
  <2>10. SameTables(NoClient, read) /\ read.out = Tail(Initial) /\ read.context = "ready"
    BY <1>4, <2>1, NoClientIs DEF SameTables
  <2>11. Follows(pulse', read, chosen', asked', <<>>, 0)
    BY <1>4, <2>6, <2>7, <2>9, <2>10, SubscribedFollows
  <2> QED
    BY <1>4, <2>6, <2>7, <2>8, <2>10, <2>11 DEF UpkeepHolds, Upkeep
<1>6. CASE /\ client.context = "ready" /\ pulse.subscribed
           /\ Follows(pulse, client, chosen, asked, <<>>, 0)
  <2>1. ms = Answered(r).events \o Answered(r).answer
    BY <1>6
  <2> HIDE DEF ms, read, r
  <2>2. Replies(pulse, pulse', r, ms)
    BY <1>1, <1>2, <1>3, <1>6, <2>1, AnswersReply DEF AnswerReplies
  <2>3. Upkeep(pulse', HandledFirst(read, ms)[Len(ms)], chosen', asked')
    BY <1>1, <1>2, <1>4, <1>6, <2>2, RepliesKeep DEF r
  <2> QED
    BY <1>1, <2>3 DEF UpkeepHolds
<1> QED
  BY <1>1, <1>5, <1>6 DEF UpkeepHolds, Upkeep

\* The shapes of the choices.
HistoryTyped == asked \in [Dirs -> AnyPath] /\ chosen \in [Streams -> AnyPath]

\* What a client may ask for, and nothing else of the service changes.
AsksFor(w, v) ==
  /\ v \in Clients /\ SameTables(w, v) /\ v.context = w.context /\ v.escaped = w.escaped
  /\ More(w.out, v.out)

\* What was due still is when more is asked for,
LEMMA MoreCarried ==
  ASSUME NEW p, NEW q, NEW q2, More(q, q2)
  PROVE  Carried(p, q, <<>>, 0, q2, <<>>, 0, {}, {}, TRUE)
BY NoneComes DEF More, Carried, DeviceDue, StreamDue, ServerDue, Before, DefaultDue

\* so that the service goes on following.
LEMMA AsksForFollows ==
  ASSUME NEW p \in Pulses, Consistent(p), NEW w \in Clients, NEW v, AsksFor(w, v), NEW c, NEW a,
         Follows(p, w, c, a, <<>>, 0)
  PROVE  Follows(p, v, c, a, <<>>, 0)
<1>1. SameTables(w, v) /\ Carried(p, w.out, <<>>, 0, v.out, <<>>, 0, {}, {}, TRUE)
  BY MoreCarried DEF AsksFor
<1> QED
  BY <1>1, StillFollows

\* Moving streams asks for more,
LEMMA StreamsMovedAsk ==
  ASSUME ParametersAre, NEW w \in Clients, NEW S \in SUBSET Streams, NEW sink \in Sinks
  PROVE  AsksFor(w, MoveStreams(w, S, sink))
<1>0. \E q \in Seq(Requested) :
        /\ MoveStreams(w, S, sink) = [w EXCEPT !.out = @ \o q]
        /\ MoveStreams(w, S, sink) \in Clients
  BY StreamsMoved, Zenon
<1>1. PICK q \in Seq(Requested) : MoveStreams(w, S, sink) = [w EXCEPT !.out = @ \o q]
  BY <1>0, Zenon
<1>2. w.out \in Seq(Requested)
  BY ClientFields
<1>3. w.out \o q \in Seq(Requested) /\ More(w.out, w.out \o q)
  BY <1>2, AsksAll DEF More
<1>4. MoveStreams(w, S, sink) = [w EXCEPT !.out = w.out \o q]
  BY <1>1
<1>5. LET v == [w EXCEPT !.out = w.out \o q]
      IN /\ v \in Clients /\ SameTables(w, v) /\ v.out = w.out \o q /\ v.context = w.context
         /\ v.escaped = w.escaped
  BY <1>3, OutSet
<1> QED
  BY <1>3, <1>4, <1>5 DEF AsksFor

\* and so does making a device active, for its port first of all.
LEMMA ActiveAsked ==
  ASSUME ParametersAre, NEW w \in Clients, w.context # "none", NEW path \in DOMAIN w.devices
  PROVE  LET u == ActivatePort(w, path)
             v == IF path[1] = "in" THEN u ELSE MoveStreams(u, DOMAIN u.streams, path[2])
         IN AsksFor(w, v) /\ Asks(v.out, {<<"port", DeviceOf(path), path[3], w.devices[path]>>})
<1> DEFINE r == <<"port", DeviceOf(path), path[3], w.devices[path]>>
           u == ActivatePort(w, path)
           v == IF path[1] = "in" THEN u ELSE MoveStreams(u, DOMAIN u.streams, path[2])
<1>1. /\ path \in AllPaths /\ w.devices[path] \in Names /\ DOMAIN w.streams \subseteq Streams
  <2>1. w.devices \in Partial(AllPaths, Names) /\ w.streams \in Partial(Streams, Shown)
    BY ClientFields
  <2>2. DOMAIN w.devices \subseteq AllPaths /\ \A x \in DOMAIN w.devices : w.devices[x] \in Names
    BY ONLY <2>1, Partials
  <2>3. DOMAIN w.streams \subseteq Streams
    BY ONLY <2>1, Partials
  <2> QED
    BY <2>2, <2>3
<1>2. /\ DeviceOf(path) \in Devices /\ path[3] \in AnyPort /\ path[1] = DeviceOf(path)[1]
      /\ path[2] = DeviceOf(path)[2]
  BY <1>1, Paths
<1>3. r \in Requested
  <2>1. r \in {"port"} \X Devices \X AnyPort \X Names
    BY <1>1, <1>2
  <2> HIDE DEF r
  <2> QED
    BY <2>1 DEF Requested
<1>4. u = Ask(w, r)
  BY DEF ActivatePort
<1> HIDE DEF r, u
<1>5. AsksFor(w, u) /\ Asks(u.out, {r})
  BY <1>3, <1>4, QueryCauses DEF AsksFor
<1>6. CASE path[1] = "in"
  BY <1>5, <1>6 DEF r, u
<1>7. CASE path[1] # "in"
  <2>1. path[2] \in Sinks /\ DOMAIN u.streams \in SUBSET Streams
    BY <1>1, <1>2, <1>5, <1>7 DEF Devices, AsksFor, SameTables
  <2>2. AsksFor(u, MoveStreams(u, DOMAIN u.streams, path[2]))
    BY <1>5, <2>1, StreamsMovedAsk DEF AsksFor
  <2>3. v = MoveStreams(u, DOMAIN u.streams, path[2])
    BY <1>7
  <2> HIDE DEF v
  <2>4. AsksFor(w, v) /\ Asks(v.out, {r})
    BY <1>5, <2>2, <2>3 DEF AsksFor, SameTables, More
  <2> QED
    BY <2>4 DEF v, r, u
<1> QED
  BY <1>6, <1>7

\* A client makes a device active.
LEMMA SetActiveHolds ==
  ASSUME ParametersAre, UpkeepHolds, HistoryTyped, NEW path \in AllPaths, SetActiveDevice(path)
  PROVE  UpkeepHolds' /\ HistoryTyped'
<1>1. /\ ~client.escaped /\ client.context # "none" /\ path \in DOMAIN client.devices
      /\ pulse' = pulse /\ chosen' = chosen
      /\ asked' = [asked EXCEPT ![path[1]] = IF Pending(path, pulse) THEN path ELSE NoPath]
      /\ client' = ActiveChosen(path)
  BY DEF SetActiveDevice, Sets
<1>2. pulse \in Pulses /\ Consistent(pulse) /\ client \in Clients
  BY DEF UpkeepHolds, Upkeep
<1>3. /\ AsksFor(client, client')
      /\ Asks(client'.out, {<<"port", DeviceOf(path), path[3], client.devices[path]>>})
  BY <1>1, <1>2, ActiveAsked DEF ActiveChosen
<1>4. client' \in Clients /\ client'.context = client.context
  BY <1>3 DEF AsksFor
<1>5. /\ path[1] \in Dirs /\ DeviceOf(path) \in Devices /\ DeviceOf(path)[1] = path[1]
  BY Paths
<1>6. HistoryTyped'
  BY <1>1, <1>5 DEF HistoryTyped, AnyPath
<1>7. UpkeepHolds'
  <2>1. CASE ~pulse.up
    BY <1>1, <1>2, <1>4, <2>1 DEF UpkeepHolds, Upkeep
  <2>2. CASE client \in {NoClient, Connected}
    BY <1>1, <2>2, NoClientIs DEF SameTables
  <2>3. CASE /\ client.context = "ready" /\ pulse.subscribed
             /\ Follows(pulse, client, chosen, asked, <<>>, 0)
    <3>1. Follows(pulse, client', chosen, asked, <<>>, 0)
      BY <1>2, <1>3, <2>3, AsksForFollows
    <3>2. ChoicesFollow(pulse, client', asked', <<>>, 0)
      <4>1. ASSUME NEW dir \in Dirs, asked'[dir] # NoPath
            PROVE  /\ Pending(asked'[dir], pulse) /\ asked'[dir] \in AllPaths
                   /\ asked'[dir][1] = dir
                   /\ DefaultDue(client'.out, <<>>, 0, DeviceOf(asked'[dir]), asked'[dir][3],
                                 pulse.devices[DeviceOf(asked'[dir])].name)
        <5>1. CASE dir # path[1]
          <6>1. asked'[dir] = asked[dir]
            BY <1>1, <5>1
          <6> QED
            BY <3>1, <4>1, <6>1 DEF Follows, ChoicesFollow
        <5>2. CASE dir = path[1]
          <6>1. asked'[dir] = path /\ Pending(path, pulse)
            BY <1>1, <4>1, <5>2 DEF HistoryTyped
          <6>2. client.devices[path] = pulse.devices[DeviceOf(path)].name
            BY <1>1, <2>3, <6>1 DEF Pending, Follows, TablesFollow, NamesFollow
          <6>3. \A S, T : Asks(client'.out, S) /\ S \subseteq T => Asks(client'.out, T)
            BY DEF Asks
          <6>4. Asks(client'.out, {<<"port", DeviceOf(path), path[3], pulse.devices[DeviceOf(path)].name>>,
                                   <<"default", DeviceOf(path)[1], pulse.devices[DeviceOf(path)].name>>})
            BY <1>3, <6>2, <6>3
          <6> QED
            BY <5>2, <6>1, <6>4 DEF DefaultDue
        <5> QED
          BY <5>1, <5>2
      <4> QED
        BY <4>1 DEF ChoicesFollow
    <3>3. Follows(pulse, client', chosen, asked', <<>>, 0)
      BY <3>1, <3>2 DEF Follows
    <3> QED
      BY <1>1, <1>2, <1>4, <2>3, <3>3 DEF UpkeepHolds, Upkeep
  <2> QED
    BY <1>1, <2>1, <2>2, <2>3 DEF UpkeepHolds, Upkeep
<1> QED
  BY <1>6, <1>7

\* A stream's Device property is set: nothing else of the tables changes.
Redirected(w, u, s, path) ==
  /\ u.context = w.context /\ u.escaped = w.escaped /\ u.out = w.out
  /\ u.devices = w.devices /\ u.ports = w.ports /\ u.active = w.active /\ u.default = w.default
  /\ DOMAIN u.streams = DOMAIN w.streams
  /\ \A t \in DOMAIN w.streams : /\ u.streams[t].sink = w.streams[t].sink
                                 /\ t # s => u.streams[t].device = w.streams[t].device
  /\ u.streams[s].device = path

\* That is what an assignment to it does.
LEMMA StreamRedirected ==
  ASSUME NEW w \in Clients, NEW s \in DOMAIN w.streams, NEW path \in AnyPath
  PROVE  LET u == [w EXCEPT !.streams[s].device = path]
         IN u \in Clients /\ Redirected(w, u, s, path)
<1> DEFINE x == [w.streams[s] EXCEPT !.device = path]
           S == [w.streams EXCEPT ![s] = x]
           u == [w EXCEPT !.streams[s].device = path]
<1>1. w.streams \in Partial(Streams, Shown)
  BY ClientFields
<1>2. /\ w.streams = [t \in DOMAIN w.streams |-> w.streams[t]] /\ DOMAIN w.streams \subseteq Streams
      /\ \A t \in DOMAIN w.streams : w.streams[t] \in Shown
  BY ONLY <1>1, Partials
<1>3. x \in Shown /\ x.sink = w.streams[s].sink /\ x.device = path
  BY <1>2 DEF Shown
<1>4. u = [w EXCEPT !.streams = S]
  OBVIOUS
<1> HIDE DEF x, u
<1>5. /\ S = [t \in DOMAIN S |-> S[t]] /\ DOMAIN S = DOMAIN w.streams
      /\ S[s] = x /\ \A t \in DOMAIN w.streams : t # s => S[t] = w.streams[t]
  BY <1>2
<1> HIDE DEF S
<1>6. S \in Partial(Streams, Shown)
  <2>1. \A t \in DOMAIN S : S[t] \in Shown
    BY <1>2, <1>3, <1>5
  <2> QED
    BY <1>2, <1>5, <2>1, Partials
<1>7. u \in Clients
  BY <1>4, <1>6 DEF Clients
<1>8. u.streams = S
  BY <1>4 DEF Clients
<1>9. Redirected(w, u, s, path)
  <2>1. /\ u.context = w.context /\ u.escaped = w.escaped /\ u.out = w.out
        /\ u.devices = w.devices /\ u.ports = w.ports /\ u.active = w.active
        /\ u.default = w.default
    BY <1>4 DEF Clients
  <2>2. \A t \in DOMAIN w.streams : /\ S[t].sink = w.streams[t].sink
                                    /\ t # s => S[t].device = w.streams[t].device
    BY <1>3, <1>5
  <2> QED
    BY <1>3, <1>5, <1>8, <2>1, <2>2 DEF Redirected
<1> QED
  BY <1>7, <1>9 DEF u

\* The stream shows what was chosen.
LEMMA RedirectedFollows ==
  ASSUME NEW p \in Pulses, Consistent(p), NEW w \in Clients, NEW u \in Clients,
         NEW s \in DOMAIN w.streams,
         NEW path, Redirected(w, u, s, path), NEW c, NEW a, NEW c2, c2[s] = path,
         \A t \in Streams : t # s => c2[t] = c[t],
         Follows(p, w, c, a, <<>>, 0)
  PROVE  Follows(p, u, c2, a, <<>>, 0)
<1>1. TablesFollow(p, u, <<>>, 0)
  BY DEF Redirected, Follows, TablesFollow, DevicesFollow, Known, DevicesGo, Unknown,
     NamesFollow, StreamsFollow,
         StreamsGo, DefaultFollows
<1>2. ActiveFollows(p, u, <<>>, 0) /\ ChoicesFollow(p, u, a, <<>>, 0)
  BY DEF Redirected, Follows, ActiveFollows, ChoicesFollow
<1>3. SinksFirst(p, u, <<>>, 0) /\ ShownSinksFirst(p, u, <<>>, 0)
  BY DEF Redirected, Follows, SinksFirst, ShownSinksFirst
<1>4. PathsFollow(p, u, c2, <<>>, 0)
  <2>1. DOMAIN w.streams \subseteq Streams
    BY ClientFields, Partials
  <2>2. ASSUME NEW t \in DOMAIN u.streams, Dev(u.streams[t].sink) \in DOMAIN u.ports
        PROVE  PathShown(u, c2, t) \/ StreamDue(p, u.out, <<>>, 0, t)
    <3>1. CASE t = s
      BY <3>1 DEF PathShown, Redirected
    <3>2. CASE t # s
      <4>1. PathShown(w, c, t) \/ StreamDue(p, w.out, <<>>, 0, t)
        BY <2>2 DEF Follows, PathsFollow, Redirected
      <4>2. c2[t] = c[t]
        BY <2>1, <2>2, <3>2 DEF Redirected
      <4> QED
        BY <2>2, <3>2, <4>1, <4>2 DEF PathShown, Redirected
    <3> QED
      BY <3>1, <3>2
  <2> QED
    BY <2>2 DEF PathsFollow
<1> QED
  BY <1>1, <1>2, <1>3, <1>4 DEF Follows

\* A client moves a stream to a device.
LEMMA SetStreamHolds ==
  ASSUME UpkeepHolds, HistoryTyped, NEW s \in Streams,
         NEW path \in DOMAIN client.devices \cup {NoPath},
         SetStreamDevice(s, path)
  PROVE  UpkeepHolds' /\ HistoryTyped'
<1> DEFINE u == [client EXCEPT !.streams[s].device = path]
<1>1. /\ ~client.escaped /\ s \in DOMAIN client.streams
      /\ pulse' = pulse /\ asked' = asked /\ chosen' = [chosen EXCEPT ![s] = path]
      /\ client' = IF path \in DOMAIN u.devices /\ path[1] = "out"
                   THEN MoveStreamToDevice(u, s, path[2]) ELSE u
  BY DEF SetStreamDevice, Sets
<1>2. pulse \in Pulses /\ Consistent(pulse) /\ client \in Clients
  BY DEF UpkeepHolds, Upkeep
<1>3. DOMAIN client.devices \subseteq AllPaths
  <2>1. client.devices \in Partial(AllPaths, Names)
    BY <1>2, ClientFields
  <2> QED
    BY ONLY <2>1, Partials
<1>4. path \in AnyPath
  BY <1>3 DEF AnyPath
<1>5. u \in Clients /\ Redirected(client, u, s, path)
  BY <1>1, <1>2, <1>4, StreamRedirected
<1> HIDE DEF u
<1>6. client' = u \/ AsksFor(u, client')
  <2>1. CASE client' = u
    BY <2>1
  <2>2. CASE /\ path \in DOMAIN u.devices /\ path[1] = "out"
             /\ client' = MoveStreamToDevice(u, s, path[2])
    <3> DEFINE r == <<"move", s, path[2]>>
    <3>1. client' = Ask(u, r)
      BY <2>2 DEF MoveStreamToDevice
    <3>2. DeviceOf(path) \in Devices /\ path[1] = DeviceOf(path)[1] /\ path[2] = DeviceOf(path)[2]
      BY <1>3, <1>5, <2>2, Paths DEF Redirected
    <3>3. path[2] \in Sinks
      BY <2>2, <3>2 DEF Devices
    <3>4. r \in Requested
      <4>1. r \in {"move"} \X Streams \X Sinks
        BY <3>3
      <4> HIDE DEF r
      <4> QED
        BY <4>1 DEF Requested
    <3> HIDE DEF r
    <3>5. CASE u.context = "none"
      BY <3>1, <3>5 DEF Ask
    <3>6. CASE u.context # "none"
      BY <1>5, <3>1, <3>4, <3>6, QueryCauses DEF AsksFor
    <3> QED
      BY <3>5, <3>6
  <2> QED
    BY <1>1, <2>1, <2>2
<1>7. client' \in Clients /\ client'.context = client.context
  BY <1>5, <1>6 DEF AsksFor, Redirected
<1>8. HistoryTyped'
  BY <1>1, <1>4 DEF HistoryTyped
<1>9. UpkeepHolds'
  <2>1. CASE client.context = "none" \/ ~pulse.up
    BY <1>1, <1>2, <1>7, <2>1 DEF UpkeepHolds, Upkeep
  <2>2. CASE client \in {NoClient, Connected}
    BY <1>1, <2>2, NoClientIs DEF SameTables
  <2>3. CASE /\ client.context = "ready" /\ pulse.subscribed
             /\ Follows(pulse, client, chosen, asked, <<>>, 0)
    <3>1. chosen'[s] = path /\ \A t \in Streams : t # s => chosen'[t] = chosen[t]
      BY <1>1 DEF HistoryTyped
    <3>2. s \in DOMAIN client.streams
      BY <1>1
    <3>3. Follows(pulse, u, chosen', asked, <<>>, 0)
      BY <1>2, <1>5, <2>3, <3>1, <3>2, RedirectedFollows
    <3>4. Follows(pulse, client', chosen', asked, <<>>, 0)
      BY <1>2, <1>5, <1>6, <3>3, AsksForFollows
    <3> QED
      BY <1>1, <1>2, <1>7, <2>3, <3>4 DEF UpkeepHolds, Upkeep
  <2> QED
    BY <1>1, <2>1, <2>2, <2>3 DEF UpkeepHolds, Upkeep
<1> QED
  BY <1>8, <1>9

\* The context gets ready, or fails.
LEMMA ContextHolds ==
  ASSUME UpkeepHolds, ContextReady \/ ContextFailed
  PROVE  UpkeepHolds'
<1>1. pulse \in Pulses /\ Consistent(pulse) /\ client \in Clients
  BY DEF UpkeepHolds, Upkeep
<1>2. CASE ContextReady
  <2>1. /\ ~client.escaped /\ client.context = "connecting" /\ pulse.up
        /\ client' = [client EXCEPT !.context = "ready", !.out = Initial]
        /\ pulse' = pulse /\ asked' = asked /\ chosen' = chosen
    BY <1>2 DEF ContextReady, Alive, SyncInitialPulseState
  <2>2. client = NoClient /\ ~pulse.subscribed /\ NothingChosen(chosen, asked)
    BY <2>1, NoClientIs DEF UpkeepHolds, Upkeep
  <2>3. client' = Connected
    BY <2>1, <2>2 DEF Connected
  <2> QED
    BY <1>1, <2>1, <2>2, <2>3, NoClientIs DEF UpkeepHolds, Upkeep
<1>3. CASE ContextFailed
  <2>1. /\ client' = [client EXCEPT !.context = "none", !.out = <<>>]
        /\ pulse' = pulse /\ asked' = asked /\ chosen' = chosen
    BY <1>3 DEF ContextFailed
  <2>2. client' \in Clients /\ client'.context = "none"
    <3>1. <<>> \in Seq(Requested)
      OBVIOUS
    <3> QED
      BY <1>1, <2>1, <3>1 DEF Clients
  <2> QED
    BY <1>1, <2>1, <2>2 DEF UpkeepHolds, Upkeep
<1> QED
  BY <1>2, <1>3

\* What Receive makes of the histories.
LEMMA ReceiveTyped ==
  ASSUME HistoryTyped, NEW reader, NEW messages, Receive(reader, messages)
  PROVE  HistoryTyped'
<1>1. /\ asked' = [dir \in Dirs |-> IF Pending(asked[dir], pulse') THEN asked[dir] ELSE NoPath]
      /\ chosen' = [s \in Streams |-> IF \E i \in DOMAIN messages : Reports(messages[i], s)
                                      THEN NoPath ELSE chosen[s]]
  BY DEF Receive
<1>2. \A x : x = NoPath => x \in AnyPath
  BY DEF AnyPath
<1> QED
  BY <1>1, <1>2 DEF HistoryTyped

\* What PulseAudio does leaves the choices as they are, or takes some back.
LEMMA EnvironmentTyped ==
  ASSUME HistoryTyped, Environment
  PROVE  HistoryTyped'
<1>1. ASSUME NEW p, NEW events, Happens(p, events) PROVE HistoryTyped'
  <2>1. Receive(client, IF pulse.subscribed THEN events ELSE <<>>)
    BY <1>1 DEF Happens
  <2> QED
    BY <2>1, ReceiveTyped
<1>2. ASSUME NEW dev, NEW info, Appears(dev, info) PROVE HistoryTyped'
  BY <1>1, <1>2 DEF Appears
<1>3. ASSUME NEW dev, NEW info, PortChanges(dev, info) PROVE HistoryTyped'
  BY <1>1, <1>3 DEF PortChanges
<1>4. ASSUME NEW dev, NEW to, Vanishes(dev, to) PROVE HistoryTyped'
  BY <1>1, <1>4 DEF Vanishes
<1>5. ASSUME NEW dev, DefaultChanges(dev) PROVE HistoryTyped'
  BY <1>1, <1>5 DEF DefaultChanges
<1>6. ASSUME NEW s, NEW sink, StreamStarts(s, sink) \/ StreamMoves(s, sink) PROVE HistoryTyped'
  BY <1>1, <1>6 DEF StreamStarts, StreamMoves
<1>7. ASSUME NEW s, StreamEnds(s) PROVE HistoryTyped'
  BY <1>1, <1>7 DEF StreamEnds
<1>8. ASSUME Exits PROVE HistoryTyped'
  BY <1>1, <1>8 DEF Exits
<1> QED
  BY <1>2, <1>3, <1>4, <1>5, <1>6, <1>7, <1>8 DEF Environment

\* The whole invariant.
AudioKept == UpkeepHolds /\ HistoryTyped

\* Every step keeps it,
LEMMA AudioNext ==
  ASSUME ParametersAre, AudioKept, Next
  PROVE  AudioKept'
<1>1. UpkeepHolds /\ HistoryTyped
  BY DEF AudioKept
<1>2. CASE ContextReady \/ ContextFailed
  <2>1. HistoryTyped'
    BY <1>1, <1>2 DEF ContextReady, ContextFailed, HistoryTyped
  <2> QED
    BY <1>1, <1>2, <2>1, ContextHolds DEF AudioKept
<1>3. CASE Answer
  <2>1. HistoryTyped'
    <3>1. \E reader, messages : Receive(reader, messages)
      BY <1>3 DEF Answer
    <3> QED
      BY <1>1, <3>1, ReceiveTyped
  <2> QED
    BY <1>1, <1>3, <2>1, AnswerHolds DEF AudioKept
<1>4. ASSUME NEW path \in AllPaths, SetActiveDevice(path) PROVE AudioKept'
  BY <1>1, <1>4, SetActiveHolds DEF AudioKept
<1>5. ASSUME NEW s \in Streams, NEW path \in DOMAIN client.devices \cup {NoPath},
             SetStreamDevice(s, path)
      PROVE  AudioKept'
  BY <1>1, <1>5, SetStreamHolds DEF AudioKept
<1>6. CASE Environment
  BY <1>1, <1>6, EnvironmentHolds, EnvironmentTyped DEF AudioKept
<1> QED
  BY <1>2, <1>3, <1>4, <1>5, <1>6 DEF Next

\* and it holds at first.
LEMMA AudioInit ==
  ASSUME ParametersAre, Init
  PROVE  AudioKept
<1>1. PICK dev \in {<<"out", CHOOSE sink \in Sinks : TRUE>>}, info \in FirstInfos, S \in SUBSET Streams :
        pulse = [up |-> TRUE, subscribed |-> FALSE, changes |-> 0,
                 devices |-> With(Without([d \in Devices |-> info], Devices), dev, info),
                 used |-> {dev}, streams |-> [s \in S |-> dev[2]], usedStreams |-> S,
                 default |-> [d \in Dirs |-> IF d = "out" THEN info.name ELSE NoName]]
  BY DEF Init
<1>2. client = NoClient /\ asked = [d \in Dirs |-> NoPath] /\ chosen = [s \in Streams |-> NoPath]
  BY DEF Init
<1>3. \E sink \in Sinks : dev = <<"out", sink>>
  BY DEF ParametersAre
<1>4. dev \in Devices /\ dev[2] \in Sinks /\ dev = Dev(dev[2]) /\ dev[1] = "out" /\ info \in Infos
  BY <1>3 DEF Devices, Dev, FirstInfos
<1> DEFINE none == Without([d \in Devices |-> info], Devices)
           D == With(none, dev, info)
           T == [s \in S |-> dev[2]]
           F == [d \in Dirs |-> IF d = "out" THEN info.name ELSE NoName]
<1>5. none \in Partial(Devices, Infos) /\ DOMAIN none = {}
  <2>1. none = [d \in DOMAIN none |-> none[d]] /\ DOMAIN none = {}
    BY DEF Without
  <2> HIDE DEF none
  <2> QED
    BY <2>1, Partials
<1> HIDE DEF none
<1>6. D \in Partial(Devices, Infos) /\ DOMAIN D = {dev} /\ D[dev] = info
  <2>1. D \in Partial(Devices, Infos) /\ Extended(D, none, dev, info)
    BY <1>4, <1>5, WithPartial
  <2> QED
    BY <1>5, <2>1 DEF Extended
<1>7. T \in Partial(Streams, Sinks) /\ DOMAIN T = S /\ \A s \in S : T[s] = dev[2]
  <2>1. /\ T = [s \in DOMAIN T |-> T[s]] /\ DOMAIN T \subseteq Streams
        /\ \A s \in DOMAIN T : T[s] \in Sinks
        /\ DOMAIN T = S /\ \A s \in S : T[s] = dev[2]
    BY <1>4
  <2> HIDE DEF T
  <2> QED
    BY <2>1, Partials
<1>8. F \in [Dirs -> AnyName] /\ F["out"] = info.name /\ F["in"] = NoName
  BY <1>4, InfosAre DEF AnyName, Dirs
<1>9. {dev} \in SUBSET Devices
  BY <1>4
<1> HIDE DEF D, T, F
<1>10. pulse = [up |-> TRUE, subscribed |-> FALSE, changes |-> 0, devices |-> D, used |-> {dev},
                streams |-> T,
                usedStreams |-> S, default |-> F]
  BY <1>1 DEF D, T, F, none
<1>11. pulse \in Pulses
  BY <1>6, <1>7, <1>8, <1>9, <1>10 DEF Pulses
<1>12. /\ pulse.devices = D /\ pulse.streams = T /\ pulse.used = {dev} /\ pulse.usedStreams = S
       /\ pulse.default = F
       /\ ~pulse.subscribed
  BY <1>10
<1>13. Consistent(pulse)
  <2>1. Owner(pulse, "out", F["out"]) # {}
    BY <1>4, <1>6, <1>8, <1>12, Owners
  <2>2. \A dir \in Dirs : pulse.default[dir] # NoName => Owner(pulse, dir, pulse.default[dir]) # {}
    BY <1>8, <1>12, <2>1 DEF Dirs
  <2> QED
    BY <1>4, <1>6, <1>7, <1>12, <2>2 DEF Consistent
<1>14. NothingChosen(chosen, asked)
  BY <1>2 DEF NothingChosen
<1>15. HistoryTyped
  BY <1>2 DEF HistoryTyped, AnyPath
<1> QED
  BY <1>2, <1>11, <1>12, <1>13, <1>14, <1>15, NoClientIs DEF AudioKept, UpkeepHolds, Upkeep
-----------------------------------------------------------------------------
(* What follows *)

\* Without requests and messages nothing is due.
LEMMA NothingDue ==
  ASSUME NEW p, NEW q, q = <<>>
  PROVE  /\ \A d : ~DeviceDue(p, q, <<>>, 0, d)
         /\ \A s : ~StreamDue(p, q, <<>>, 0, s)
         /\ ~ServerDue(p, q, <<>>, 0)
         /\ \A d, s : ~Before(p, q, <<>>, 0, d, s)
         /\ \A d, port, name : ~DefaultDue(q, <<>>, 0, d, port, name)
<1>1. \A S : ~Asks(q, S)
  BY DEF Asks
<1>2. \A d, s : ~InTurn(q, d, s)
  BY DEF InTurn
<1> QED
  BY <1>1, <1>2, NoneComes DEF DeviceDue, StreamDue, ServerDue, Before, DefaultDue

\* At rest the service follows PulseAudio, and asks for nothing.
LEMMA QuietFollows ==
  ASSUME AudioKept, Quiet
  PROVE  Follows(pulse, client, chosen, asked, <<>>, 0) /\ client.out = <<>>
<1>1. /\ ~client.escaped /\ client.context = "ready" /\ pulse.up /\ client.out = <<>>
  BY DEF Quiet, Alive
<1>2. Initial # <<>>
  BY DEF Initial
<1>3. client \notin {NoClient, Connected}
  BY <1>1, <1>2, NoClientIs
<1> QED
  BY <1>1, <1>3 DEF AudioKept, UpkeepHolds, Upkeep

\* At rest, then, the tables are PulseAudio's, the paths are current, and what was made active was
\* the default device.
LEMMA AudioMirrors ==
  ASSUME ParametersAre, AudioKept
  PROVE  ObjectsMirrorPulse /\ PathsAreCurrent /\ ActiveDeviceSet
<1> SUFFICES ASSUME Quiet
             PROVE  ObjectsMirrorPulse /\ PathsAreCurrent /\ ActiveDeviceSet
  BY DEF ObjectsMirrorPulse, PathsAreCurrent, ActiveDeviceSet
<1>1. Follows(pulse, client, chosen, asked, <<>>, 0) /\ client.out = <<>>
  BY QuietFollows
<1>2. pulse \in Pulses /\ Consistent(pulse) /\ client \in Clients
  BY DEF AudioKept, UpkeepHolds, Upkeep
<1>3. /\ client.devices \in Partial(AllPaths, Names) /\ client.ports \in Partial(Devices, AnyPort)
      /\ client.streams \in Partial(Streams, Shown)
  BY <1>2, ClientFields
<1>4. /\ DOMAIN client.devices \subseteq AllPaths
      /\ client.ports = [d \in DOMAIN client.ports |-> client.ports[d]]
      /\ DOMAIN client.ports \subseteq Devices
      /\ DOMAIN client.streams \subseteq Streams
  <2>1. DOMAIN client.devices \subseteq AllPaths
    BY ONLY <1>3, Partials
  <2>2. /\ client.ports = [d \in DOMAIN client.ports |-> client.ports[d]]
        /\ DOMAIN client.ports \subseteq Devices
    BY ONLY <1>3, Partials
  <2>3. DOMAIN client.streams \subseteq Streams
    BY ONLY <1>3, Partials
  <2> QED
    BY <2>1, <2>2, <2>3
<1>5. /\ DOMAIN pulse.devices \subseteq Devices
      /\ \A d \in DOMAIN pulse.devices : pulse.devices[d] \in Infos
      /\ DOMAIN pulse.streams \subseteq Streams
      /\ pulse.streams = [s \in DOMAIN pulse.streams |-> pulse.streams[s]]
  <2>1. pulse.streams \in Partial(Streams, Sinks)
    BY <1>2, PulseFields
  <2>2. pulse.streams = [s \in DOMAIN pulse.streams |-> pulse.streams[s]]
    BY ONLY <2>1, Partials
  <2> QED
    BY <1>2, <2>2, PulseFields
<1>6. /\ \A d \in DOMAIN pulse.devices : Known(pulse, client, d)
      /\ \A d \in Devices \ DOMAIN pulse.devices : Unknown(client, d)
      /\ \A s \in DOMAIN pulse.streams : /\ s \in DOMAIN client.streams
                                         /\ client.streams[s].sink = pulse.streams[s]
      /\ \A s \in Streams \ DOMAIN pulse.streams : s \notin DOMAIN client.streams
      /\ client.default = pulse.default
  BY <1>1, NothingDue, NoneComes DEF Follows, TablesFollow, DevicesFollow, DevicesGo,
     StreamsFollow, StreamsGo, DefaultFollows
<1>7. ObjectsMirrorPulse
  <2>1. DOMAIN client.devices = UNION {PathsOf(d, pulse.devices[d]) : d \in DOMAIN pulse.devices}
    <3>1. ASSUME NEW x \in DOMAIN client.devices
          PROVE  \E d \in DOMAIN pulse.devices : x \in PathsOf(d, pulse.devices[d])
      <4>1. x \in AllPaths /\ DeviceOf(x) \in Devices
        BY <1>4, Paths
      <4> QED
        BY <1>6, <4>1 DEF Known, Unknown
    <3>2. ASSUME NEW d \in DOMAIN pulse.devices, NEW x \in PathsOf(d, pulse.devices[d])
          PROVE  x \in DOMAIN client.devices
      <4>1. x \in AllPaths /\ DeviceOf(x) = d
        BY <1>5, InfosAre
      <4> QED
        BY <1>6, <4>1 DEF Known
    <3> QED
      BY <3>1, <3>2
  <2>2. [s \in DOMAIN client.streams |-> client.streams[s].sink] = pulse.streams
    <3>1. DOMAIN client.streams = DOMAIN pulse.streams
      BY <1>4, <1>5, <1>6
    <3> QED
      BY <1>5, <1>6, <3>1
  <2>3. client.ports = [d \in DOMAIN pulse.devices |-> pulse.devices[d].active]
    <3>1. DOMAIN client.ports = DOMAIN pulse.devices
      BY <1>4, <1>5, <1>6 DEF Known, Unknown
    <3>2. \A d \in DOMAIN pulse.devices : client.ports[d] = pulse.devices[d].active
      BY <1>6 DEF Known
    <3> QED
      BY <1>4, <3>1, <3>2
  <2> QED
    BY <1>6, <2>1, <2>2, <2>3 DEF ObjectsMirrorPulse
<1>8. PathsAreCurrent
  <2>1. ASSUME NEW dir \in Dirs, client.active[dir] # NoPath
        PROVE  \E dev \in Owner(pulse, dir, pulse.default[dir]) : client.active[dir] = ActivePath(dev)
    <3>1. pulse.default[dir] # NoName
      BY <1>1, <1>6, <2>1 DEF Follows, ActiveFollows
    <3>2. PICK dev \in Owner(pulse, dir, pulse.default[dir]) : TRUE
      BY <1>2, <3>1 DEF Consistent
    <3>3. client.active[dir] = Path(dev, pulse.devices[dev].active)
      BY <1>1, <1>6, <2>1, NothingDue DEF Follows, ActiveFollows
    <3> QED
      BY <3>2, <3>3 DEF ActivePath
  <2>2. ASSUME NEW s \in DOMAIN pulse.streams
        PROVE  client.streams[s].device \in {ActivePath(<<"out", pulse.streams[s]>>), chosen[s]}
    <3>1. s \in DOMAIN client.streams /\ client.streams[s].sink = pulse.streams[s]
      BY <1>6
    <3>2. Dev(pulse.streams[s]) \in DOMAIN pulse.devices
      BY <1>2 DEF Consistent
    <3>3. /\ Dev(pulse.streams[s]) \in DOMAIN client.ports
          /\ client.ports[Dev(pulse.streams[s])] = pulse.devices[Dev(pulse.streams[s])].active
      BY <1>6, <3>2 DEF Known
    <3>4. PathShown(client, chosen, s)
      BY <1>1, <3>1, <3>3, NothingDue DEF Follows, PathsFollow
    <3> QED
      BY <3>1, <3>3, <3>4 DEF PathShown, ActivePath, Dev
  <2> QED
    BY <2>1, <2>2 DEF PathsAreCurrent
<1>9. ActiveDeviceSet
  BY <1>1, NothingDue DEF Follows, ChoicesFollow, ActiveDeviceSet
<1> QED
  BY <1>7, <1>8, <1>9

\* The invariant has the types.
LEMMA AudioTypes ==
  ASSUME AudioKept
  PROVE  TypeOK
<1>1. pulse \in Pulses /\ Consistent(pulse) /\ client \in Clients
  BY DEF AudioKept, UpkeepHolds, Upkeep
<1>2. /\ client.devices \in Partial(AllPaths, Names) /\ client.ports \in Partial(Devices, AnyPort)
      /\ client.streams \in Partial(Streams, Shown)
  BY <1>1, ClientFields
<1>3. DOMAIN client.devices \subseteq AllPaths
  BY ONLY <1>2, Partials
<1>4. DOMAIN client.ports \subseteq Devices
  BY ONLY <1>2, Partials
<1>5. DOMAIN client.streams \subseteq Streams
  BY ONLY <1>2, Partials
<1> QED
  BY <1>1, <1>3, <1>4, <1>5, ClientFields, PulseFields DEF TypeOK, Consistent, AnyPath, AnyName

-----------------------------------------------------------------------------
(* The theorems *)

\* The invariant holds for ever.
LEMMA AudioAlways == ParametersAre /\ Spec => []AudioKept
<1> SUFFICES ASSUME ParametersAre PROVE Spec => []AudioKept
  OBVIOUS
<1>1. Init => AudioKept
  BY AudioInit
<1>2. AudioKept /\ [Next]_vars => AudioKept'
  <2>1. CASE Next
    BY <2>1, AudioNext
  <2>2. CASE UNCHANGED vars
    BY <2>2 DEF vars, AudioKept, UpkeepHolds, HistoryTyped
  <2> QED
    BY <2>1, <2>2
<1> QED
  BY <1>1, <1>2, PTL DEF Spec

\* PulseAudio's and the service's tables keep their shapes.
THEOREM AudioTypeCorrect == ParametersAre /\ Spec => []TypeOK
<1> SUFFICES ASSUME ParametersAre PROVE Spec => []TypeOK
  OBVIOUS
<1>1. AudioKept => TypeOK
  BY AudioTypes
<1> QED
  BY <1>1, AudioAlways, PTL

\* When everything was handled the objects are PulseAudio's ports and sink inputs,
\* the paths that properties show are no leftovers, and a device that a client made
\* active was PulseAudio's default: however its events crossed the service's queries.
THEOREM AudioFollows ==
  ParametersAre /\ Spec => [](ObjectsMirrorPulse /\ PathsAreCurrent /\ ActiveDeviceSet)
<1> SUFFICES ASSUME ParametersAre
             PROVE  Spec => [](ObjectsMirrorPulse /\ PathsAreCurrent /\ ActiveDeviceSet)
  OBVIOUS
<1>1. AudioKept => ObjectsMirrorPulse /\ PathsAreCurrent /\ ActiveDeviceSet
  BY AudioMirrors
<1> QED
  BY <1>1, AudioAlways, PTL
=============================================================================
