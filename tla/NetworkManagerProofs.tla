------------------------ MODULE NetworkManagerProofs ------------------------
(***************************************************************************)
(* Proofs about NetworkManager, for every set of interfaces and profiles   *)
(* and any number of requests, activations and restarts: type correctness, *)
(* that a request gets one truthful answer at most, that the signals add   *)
(* up to the devices listed, and that the connection objects are those of  *)
(* the devices.                                                            *)
(***************************************************************************)
EXTENDS NetworkManager, SequenceTheorems, TLAPS

-----------------------------------------------------------------------------
(* The service's state *)

Services(D, P) ==
  [client : BOOLEAN, devices : [D -> Profiles \cup {NoProfile}],
   connections : SUBSET Profiles, subscribed : SUBSET Activations,
   pending : [P -> 1 .. MaxRequests],
   answers : [1 .. MaxRequests -> Seq(BOOLEAN)], announced : [Devices -> Int]]

IsService(w) ==
  /\ w \in Services(DOMAIN w.devices, DOMAIN w.pending)
  /\ DOMAIN w.devices \subseteq Devices
  /\ DOMAIN w.pending \subseteq Activations

\* What w shows of devices and connections is what c shows.
SameTables(w, c) ==
  /\ c.client = w.client /\ c.devices = w.devices /\ c.connections = w.connections
  /\ c.subscribed = w.subscribed /\ c.announced = w.announced

\* The two know the same of the requests.
SameAnswers(w, c) == c.pending = w.pending /\ c.answers = w.answers

\* From w to c the requests pending for the activations F are answered with ok,
\* unless their device is not listed, and no other is.
Answers(w, c, F, ok) ==
  /\ F \subseteq DOMAIN w.pending
  /\ DOMAIN c.pending = DOMAIN w.pending \ F
  /\ \A a \in DOMAIN c.pending : c.pending[a] = w.pending[a]
  /\ \A r \in 1 .. MaxRequests :
       \/ c.answers[r] = w.answers[r]
       \/ /\ \E a \in F : r = w.pending[a]
          /\ c.answers[r] = Append(w.answers[r], ok)

\* The request pending for activation a is answered with what its state decides.
Decided(w, c, a, state) ==
  \E F \in SUBSET {a}, ok \in BOOLEAN :
    /\ Answers(w, c, F, ok)
    /\ F # {} => state # "activating" /\ ok = (state = "activated")

\* Requests are answered with failure.
Failed(w, c) == \E F : \E no \in BOOLEAN : no = FALSE /\ Answers(w, c, F, no)

\* The fields of a service have the types of its fields.
LEMMA ServiceFields ==
  ASSUME NEW w, IsService(w)
  PROVE  /\ w.client \in BOOLEAN
         /\ w.devices \in [DOMAIN w.devices -> Profiles \cup {NoProfile}]
         /\ w.connections \subseteq Profiles /\ w.subscribed \subseteq Activations
         /\ w.pending \in [DOMAIN w.pending -> 1 .. MaxRequests]
         /\ w.answers \in [1 .. MaxRequests -> Seq(BOOLEAN)]
         /\ w.announced \in [Devices -> Int]
BY DEF IsService, Services

\* A service whose requests are answered otherwise.
LEMMA NewAnswers ==
  ASSUME NEW w, IsService(w), NEW new \in [1 .. MaxRequests -> Seq(BOOLEAN)],
         NEW c, c = [w EXCEPT !.answers = new]
  PROVE  IsService(c) /\ SameTables(w, c) /\ c.pending = w.pending /\ c.answers = new
<1>1. w \in Services(DOMAIN w.devices, DOMAIN w.pending)
  BY DEF IsService
<1>2. c.answers = new /\ c.pending = w.pending
  BY <1>1 DEF Services
<1>3. SameTables(w, c)
  BY <1>1 DEF Services, SameTables
<1>4. c \in Services(DOMAIN w.devices, DOMAIN w.pending)
  BY <1>1 DEF Services
<1> QED BY <1>2, <1>3, <1>4 DEF IsService, SameTables

\* A service whose pending requests are others.
LEMMA NewPending ==
  ASSUME NEW w, IsService(w), NEW P \in SUBSET Activations,
         NEW new \in [P -> 1 .. MaxRequests], NEW c, c = [w EXCEPT !.pending = new]
  PROVE  IsService(c) /\ SameTables(w, c) /\ c.pending = new /\ c.answers = w.answers
<1>1. w \in Services(DOMAIN w.devices, DOMAIN w.pending)
  BY DEF IsService
<1>2. c.pending = new /\ c.answers = w.answers
  BY <1>1 DEF Services
<1>3. SameTables(w, c)
  BY <1>1 DEF Services, SameTables
<1>4. c \in Services(DOMAIN w.devices, P)
  BY <1>1 DEF Services
<1>5. DOMAIN c.pending = P
  BY <1>2
<1> QED BY <1>2, <1>3, <1>4, <1>5 DEF IsService, SameTables

\* Of the requests' answers, those of R get one more at most.
LEMMA AppendedAnswers ==
  ASSUME NEW f \in [1 .. MaxRequests -> Seq(BOOLEAN)], NEW R, NEW known, NEW ok \in BOOLEAN
  PROVE  /\ Appended(f, R, known, ok) \in [1 .. MaxRequests -> Seq(BOOLEAN)]
         /\ \A r \in 1 .. MaxRequests :
              \/ Appended(f, R, known, ok)[r] = f[r]
              \/ r \in R /\ Appended(f, R, known, ok)[r] = Append(f[r], ok)
<1>1. \A r \in 1 .. MaxRequests : f[r] \in Seq(BOOLEAN) /\ Append(f[r], ok) \in Seq(BOOLEAN)
  OBVIOUS
<1> QED BY <1>1 DEF Appended

\* A signal changes the answers only, and those of its requests.
LEMMA EmitOutcome ==
  ASSUME NEW w, IsService(w), NEW R, NEW ok \in BOOLEAN,
         NEW c, c = EmitWifiConnectResult(w, R, ok)
  PROVE  /\ IsService(c) /\ SameTables(w, c) /\ c.pending = w.pending
         /\ \A r \in 1 .. MaxRequests :
              \/ c.answers[r] = w.answers[r]
              \/ r \in R /\ c.answers[r] = Append(w.answers[r], ok)
<1> DEFINE new == Appended(w.answers, R, DOMAIN w.devices, ok)
<1>1. w.answers \in [1 .. MaxRequests -> Seq(BOOLEAN)]
  BY ServiceFields
<1>2. /\ new \in [1 .. MaxRequests -> Seq(BOOLEAN)]
      /\ \A r \in 1 .. MaxRequests :
           \/ new[r] = w.answers[r]
           \/ r \in R /\ new[r] = Append(w.answers[r], ok)
  BY <1>1, AppendedAnswers
<1>3. c = [w EXCEPT !.answers = new]
  BY DEF EmitWifiConnectResult
<1> HIDE DEF new
<1>4. IsService(c) /\ SameTables(w, c) /\ c.pending = w.pending /\ c.answers = new
  BY <1>2, <1>3, NewAnswers
<1> QED BY <1>2, <1>4

\* A pending request is answered when its activation is decided.
LEMMA ResolveOutcome ==
  ASSUME NEW w, IsService(w), NEW a, NEW state, NEW c, c = Resolve(w, a, state)
  PROVE  IsService(c) /\ SameTables(w, c) /\ Decided(w, c, a, state)
<1>1. CASE a \notin DOMAIN w.pending \/ state = "activating"
  <2>1. c = w
    BY <1>1 DEF Resolve
  <2>2. Answers(w, c, {}, FALSE)
    BY <2>1 DEF Answers
  <2> QED BY <2>1, <2>2 DEF SameTables, Decided
<1>2. CASE ~(a \notin DOMAIN w.pending \/ state = "activating")
  <2>0. PICK ok \in BOOLEAN : ok = (state = "activated")
    OBVIOUS
  <2> DEFINE e == EmitWifiConnectResult(w, {w.pending[a]}, ok)
  <2>1. /\ IsService(e) /\ SameTables(w, e) /\ e.pending = w.pending
        /\ \A r \in 1 .. MaxRequests :
              \/ e.answers[r] = w.answers[r]
              \/ r \in {w.pending[a]} /\ e.answers[r] = Append(w.answers[r], ok)
    <3> HIDE DEF e
    <3>1. PICK d : d = e
      OBVIOUS
    <3>2. d = EmitWifiConnectResult(w, {w.pending[a]}, ok)
      BY <3>1 DEF e
    <3> QED BY <3>1, <3>2, EmitOutcome
  <2>2. c = [e EXCEPT !.pending = Without(@, a)]
    BY <1>2, <2>0 DEF Resolve
  <2> HIDE DEF e
  <2> DEFINE new == Without(e.pending, a)
  <2>3. /\ new \in [DOMAIN e.pending \ {a} -> 1 .. MaxRequests]
        /\ \A b \in DOMAIN e.pending \ {a} : new[b] = e.pending[b]
        /\ DOMAIN new = DOMAIN e.pending \ {a}
    BY <2>1, ServiceFields DEF Without
  <2>4. c = [e EXCEPT !.pending = new]
    BY <2>2
  <2> HIDE DEF new
  <2>5. DOMAIN e.pending \ {a} \in SUBSET Activations
    BY <2>1 DEF IsService
  <2>6. IsService(c) /\ SameTables(e, c) /\ c.pending = new /\ c.answers = e.answers
    BY <2>1, <2>3, <2>4, <2>5, NewPending
  <2>7. SameTables(w, c)
    BY <2>1, <2>6 DEF SameTables
  <2>8. Answers(w, c, {a}, ok)
    BY <1>2, <2>1, <2>3, <2>6 DEF Answers
  <2> QED BY <1>2, <2>0, <2>6, <2>7, <2>8 DEF Decided
<1> QED BY <1>1, <1>2

\* The pending requests of devices that go are answered with failure.
LEMMA FailOutcome ==
  ASSUME NEW w, IsService(w), NEW D, NEW c, c = FailPending(w, D)
  PROVE  IsService(c) /\ SameTables(w, c) /\ Answers(w, c, Requested(w, D), FALSE)
<1> DEFINE F == Requested(w, D)
           new == [a \in DOMAIN w.pending \ F |-> w.pending[a]]
<1> DEFINE R == {w.pending[a] : a \in F}
<1>0. PICK no \in BOOLEAN : no = FALSE
  OBVIOUS
<1> DEFINE e == EmitWifiConnectResult(w, R, no)
<1>1. /\ IsService(e) /\ SameTables(w, e) /\ e.pending = w.pending
      /\ \A r \in 1 .. MaxRequests :
            \/ e.answers[r] = w.answers[r]
            \/ r \in R /\ e.answers[r] = Append(w.answers[r], no)
  <2> HIDE DEF R, e
  <2>1. PICK x : x = e
    OBVIOUS
  <2>2. x = EmitWifiConnectResult(w, R, no)
    BY <2>1 DEF e
  <2> QED BY <2>1, <2>2, EmitOutcome
<1>2. c = [e EXCEPT !.pending = new]
  BY <1>0 DEF FailPending
<1>3. F \subseteq DOMAIN w.pending
  BY DEF Requested
<1>4. /\ new \in [DOMAIN w.pending \ F -> 1 .. MaxRequests]
      /\ \A b \in DOMAIN w.pending \ F : new[b] = w.pending[b]
      /\ DOMAIN new = DOMAIN w.pending \ F
  BY ServiceFields
<1>5. \A r \in R : \E a \in F : r = w.pending[a]
  OBVIOUS
<1> HIDE DEF F, R, e, new
<1>6. DOMAIN w.pending \ F \in SUBSET Activations
  BY DEF IsService
<1>7. IsService(c) /\ SameTables(e, c) /\ c.pending = new /\ c.answers = e.answers
  BY <1>1, <1>2, <1>4, <1>6, NewPending
<1>8. SameTables(w, c)
  BY <1>1, <1>7 DEF SameTables
<1>9. Answers(w, c, F, FALSE)
  <2> SUFFICES ASSUME NEW r \in 1 .. MaxRequests, c.answers[r] # w.answers[r]
               PROVE  /\ \E a \in F : r = w.pending[a]
                      /\ c.answers[r] = Append(w.answers[r], FALSE)
    BY <1>3, <1>4, <1>7 DEF Answers
  <2> QED BY <1>0, <1>1, <1>5, <1>7
<1> QED BY <1>7, <1>8, <1>9 DEF F

\* A state change answers the request of its activation, if any.
LEMMA StateOutcome ==
  ASSUME NEW w, IsService(w), NEW a, NEW c, c = StateChanged(w, a)
  PROVE  IsService(c) /\ SameTables(w, c) /\ Decided(w, c, a, acts'[a].state)
<1>1. CASE a \in w.subscribed
  BY <1>1, ResolveOutcome DEF StateChanged
<1>2. CASE a \notin w.subscribed
  <2>1. c = w
    BY <1>2 DEF StateChanged
  <2>2. Answers(w, c, {}, FALSE)
    BY <2>1 DEF Answers
  <2> QED BY <2>1, <2>2 DEF SameTables, Decided
<1> QED BY <1>1, <1>2

\* Before the activation of an answered call is looked at, it is tracked.
Tracked(w, a, r) == [w EXCEPT !.pending = With(@, a, r), !.subscribed = @ \cup {a}]

\* What tracking a request's activation changes.
LEMMA TrackedOutcome ==
  ASSUME NEW w, IsService(w), NEW a \in Activations, NEW r \in 1 .. MaxRequests,
         NEW t, t = Tracked(w, a, r)
  PROVE  /\ IsService(t)
         /\ t.client = w.client /\ t.devices = w.devices /\ t.connections = w.connections
         /\ t.announced = w.announced /\ t.subscribed = w.subscribed \cup {a}
         /\ t.answers = w.answers
         /\ DOMAIN t.pending = DOMAIN w.pending \cup {a} /\ t.pending[a] = r
         /\ \A b \in DOMAIN w.pending \ {a} : t.pending[b] = w.pending[b]
<1>1. w \in Services(DOMAIN w.devices, DOMAIN w.pending)
  BY DEF IsService
<1> DEFINE new == With(w.pending, a, r)
           subs == w.subscribed \cup {a}
<1>2. /\ new \in [DOMAIN w.pending \cup {a} -> 1 .. MaxRequests]
      /\ DOMAIN new = DOMAIN w.pending \cup {a} /\ new[a] = r
      /\ \A b \in DOMAIN w.pending \ {a} : new[b] = w.pending[b]
  BY ServiceFields DEF With
<1>3. subs \in SUBSET Activations
  BY ServiceFields
<1>4. t = [w EXCEPT !.pending = new, !.subscribed = subs]
  BY DEF Tracked
<1> HIDE DEF new, subs
<1>5. t.pending = new /\ t.subscribed = subs /\ t.answers = w.answers
  BY <1>1, <1>4 DEF Services
<1>6. /\ t.client = w.client /\ t.devices = w.devices /\ t.connections = w.connections
      /\ t.announced = w.announced
  BY <1>1, <1>4 DEF Services
<1>7. t \in Services(DOMAIN w.devices, DOMAIN w.pending \cup {a})
  BY <1>1, <1>2, <1>3, <1>4 DEF Services
<1>8. DOMAIN w.devices \subseteq Devices /\ DOMAIN w.pending \cup {a} \subseteq Activations
  BY DEF IsService
<1> QED BY <1>2, <1>5, <1>6, <1>7, <1>8 DEF IsService, subs

-----------------------------------------------------------------------------
(* The answers *)

\* With the requests rs and the activations as: what is pending is a request
\* whose call returned that activation and that has no answer yet; a request has
\* one answer at most, after its call returned, and a success is a true one.
AnswersOk(w, rs, as) ==
  /\ \A a \in DOMAIN w.pending :
       /\ w.pending[a] \in DOMAIN rs
       /\ rs[w.pending[a]].act = a /\ rs[w.pending[a]].call = "returned"
       /\ w.answers[w.pending[a]] = << >>
  /\ \A r \in 1 .. MaxRequests :
       /\ w.answers[r] \in {<< >>, <<TRUE>>, <<FALSE>>}
       /\ w.answers[r] # << >> => r \in DOMAIN rs /\ rs[r].call = "returned"
       /\ w.answers[r] = <<TRUE>> => rs[r].act # 0 /\ as[rs[r].act].succeeded

\* Of the first answers, only the one with success says so.
LEMMA FirstAnswer ==
  /\ Append(<< >>, TRUE) = <<TRUE>> /\ Append(<< >>, FALSE) = <<FALSE>>
  /\ <<TRUE>> # <<FALSE>> /\ << >> # <<TRUE>> /\ << >> # <<FALSE>>
  /\ Len(<< >>) = 0 /\ Len(<<TRUE>>) = 1 /\ Len(<<FALSE>>) = 1
OBVIOUS

\* Answering what is pending keeps the answers as they should be, if success is
\* reported for an activation that succeeded.
LEMMA AnswersKept ==
  ASSUME NEW w, NEW c, NEW F, NEW ok \in BOOLEAN, NEW rs, NEW as,
         IsService(w), AnswersOk(w, rs, as), Answers(w, c, F, ok),
         ok => \A a \in F : as[a].succeeded
  PROVE  AnswersOk(c, rs, as)
<1>1. ASSUME NEW a \in DOMAIN c.pending
      PROVE  /\ c.pending[a] \in DOMAIN rs
             /\ rs[c.pending[a]].act = a /\ rs[c.pending[a]].call = "returned"
             /\ c.answers[c.pending[a]] = << >>
  <2>1. a \in DOMAIN w.pending /\ a \notin F /\ c.pending[a] = w.pending[a]
    BY <1>1 DEF Answers
  <2>2. /\ w.pending[a] \in DOMAIN rs /\ rs[w.pending[a]].act = a
        /\ rs[w.pending[a]].call = "returned" /\ w.answers[w.pending[a]] = << >>
    BY <2>1 DEF AnswersOk
  <2>3. w.pending[a] \in 1 .. MaxRequests
    BY <2>1, ServiceFields
  <2>4. ~ \E b \in F : w.pending[a] = w.pending[b]
    BY <2>1, <2>2 DEF Answers, AnswersOk
  <2>5. c.answers[w.pending[a]] = w.answers[w.pending[a]]
    BY <2>3, <2>4 DEF Answers
  <2> QED BY <2>1, <2>2, <2>5
<1>2. ASSUME NEW r \in 1 .. MaxRequests
      PROVE  /\ c.answers[r] \in {<< >>, <<TRUE>>, <<FALSE>>}
             /\ c.answers[r] # << >> => r \in DOMAIN rs /\ rs[r].call = "returned"
             /\ c.answers[r] = <<TRUE>> => rs[r].act # 0 /\ as[rs[r].act].succeeded
  <2>1. CASE c.answers[r] = w.answers[r]
    BY <2>1 DEF AnswersOk
  <2>2. CASE c.answers[r] # w.answers[r]
    <3>1. PICK a \in F : r = w.pending[a] /\ c.answers[r] = Append(w.answers[r], ok)
      BY <2>2 DEF Answers
    <3>2. a \in DOMAIN w.pending /\ a \in Activations
      BY DEF Answers, IsService
    <3>3. /\ r \in DOMAIN rs /\ rs[r].act = a /\ rs[r].call = "returned"
          /\ w.answers[r] = << >>
      BY <3>1, <3>2 DEF AnswersOk
    <3>4. c.answers[r] = Append(<< >>, ok)
      BY <3>1, <3>3
    <3>5. a # 0
      BY <3>2 DEF Activations
    <3>6. CASE ok = TRUE
      <4>1. c.answers[r] = <<TRUE>> /\ as[a].succeeded
        BY <3>4, <3>6, FirstAnswer
      <4> QED BY <3>3, <3>5, <4>1
    <3>7. CASE ok = FALSE
      <4>1. c.answers[r] = <<FALSE>>
        BY <3>4, <3>7, FirstAnswer
      <4> QED BY <3>3, <4>1, FirstAnswer
    <3> QED BY <3>6, <3>7
  <2> QED BY <2>1, <2>2
<1> QED BY <1>1, <1>2 DEF AnswersOk

-----------------------------------------------------------------------------
(* The tables *)

\* A device that is listed is announced once, any other is not.
Matched(w) ==
  \A d \in Devices : w.announced[d] = IF d \in DOMAIN w.devices THEN 1 ELSE 0

\* What adding a device changes.
LEMMA AddOutcome ==
  ASSUME NEW w, IsService(w), NEW d \in Devices, NEW c, c = AddDevice(w, d)
  PROVE  /\ IsService(c) /\ SameAnswers(w, c)
         /\ c.client = w.client /\ c.connections = w.connections
         /\ c.subscribed = w.subscribed
         /\ DOMAIN c.devices = DOMAIN w.devices \cup {d}
         /\ \A e \in DOMAIN w.devices : c.devices[e] = w.devices[e]
         /\ d \notin DOMAIN w.devices => c.devices[d] = NoProfile
         /\ Matched(w) => Matched(c)
<1>1. CASE d \in DOMAIN w.devices
  BY <1>1 DEF AddDevice, SameAnswers
<1>2. CASE d \notin DOMAIN w.devices
  <2>0. w \in Services(DOMAIN w.devices, DOMAIN w.pending)
    BY DEF IsService
  <2> DEFINE devs == With(w.devices, d, NoProfile)
             told == [w.announced EXCEPT ![d] = @ + 1]
  <2>1. /\ devs \in [DOMAIN w.devices \cup {d} -> Profiles \cup {NoProfile}]
        /\ DOMAIN devs = DOMAIN w.devices \cup {d} /\ devs[d] = NoProfile
        /\ \A e \in DOMAIN w.devices : devs[e] = w.devices[e]
    BY <1>2, ServiceFields DEF With
  <2>2. /\ told \in [Devices -> Int] /\ told[d] = w.announced[d] + 1
        /\ \A e \in Devices \ {d} : told[e] = w.announced[e]
    BY ServiceFields
  <2>3. c = [w EXCEPT !.devices = devs, !.announced = told]
    BY <1>2 DEF AddDevice
  <2> HIDE DEF devs, told
  <2>4. c.devices = devs /\ c.announced = told /\ c.client = w.client
    BY <2>0, <2>3 DEF Services
  <2>5. /\ c.connections = w.connections /\ c.subscribed = w.subscribed
        /\ c.pending = w.pending /\ c.answers = w.answers
    BY <2>0, <2>3 DEF Services
  <2>6. c \in Services(DOMAIN w.devices \cup {d}, DOMAIN w.pending)
    BY <2>0, <2>1, <2>2, <2>3 DEF Services
  <2>7. IsService(c)
    BY <2>1, <2>4, <2>5, <2>6 DEF IsService
  <2>8. Matched(w) => Matched(c)
    BY <1>2, <2>1, <2>2, <2>4 DEF Matched
  <2> QED BY <1>2, <2>1, <2>4, <2>5, <2>7, <2>8 DEF SameAnswers
<1> QED BY <1>1, <1>2

\* What removing a device changes, the requests that fail with it included.
LEMMA RemoveOutcome ==
  ASSUME NEW w, IsService(w), NEW d \in DOMAIN w.devices, NEW c, c = RemoveDevice(w, d)
  PROVE  /\ IsService(c) /\ Failed(w, c)
         /\ c.client = w.client /\ c.subscribed = w.subscribed
         /\ c.connections = w.connections \ {w.devices[d]}
         /\ DOMAIN c.devices = DOMAIN w.devices \ {d}
         /\ \A e \in DOMAIN c.devices : c.devices[e] = w.devices[e]
         /\ Matched(w) => Matched(c)
<1>0. w \in Services(DOMAIN w.devices, DOMAIN w.pending) /\ d \in Devices
  BY DEF IsService
<1> DEFINE told == [w.announced EXCEPT ![d] = @ - 1]
           v == [w EXCEPT !.announced = told]
           f == FailPending(v, {d})
<1>1. /\ told \in [Devices -> Int] /\ told[d] = w.announced[d] - 1
      /\ \A e \in Devices \ {d} : told[e] = w.announced[e]
  BY <1>0, ServiceFields
<1>2. v = [w EXCEPT !.announced = told] /\ f = FailPending(v, {d})
  OBVIOUS
<1>3. c = [f EXCEPT !.connections = f.connections \ {w.devices[d]},
                    !.devices = Without(f.devices, d)]
  BY DEF RemoveDevice
<1> HIDE DEF told, v, f
<1>4. /\ v.devices = w.devices /\ v.announced = told /\ v.client = w.client
      /\ v.connections = w.connections /\ v.subscribed = w.subscribed
  BY <1>0, <1>2 DEF Services
<1>5. v.pending = w.pending /\ v.answers = w.answers
  BY <1>0, <1>2 DEF Services
<1>6. v \in Services(DOMAIN w.devices, DOMAIN w.pending)
  BY <1>0, <1>1, <1>2 DEF Services
<1>7. IsService(v)
  BY <1>4, <1>5, <1>6 DEF IsService
<1>8. IsService(f) /\ SameTables(v, f) /\ Answers(v, f, Requested(v, {d}), FALSE)
  BY <1>2, <1>7, FailOutcome
<1> DEFINE devs == Without(f.devices, d)
           conns == f.connections \ {w.devices[d]}
<1>9. /\ devs \in [DOMAIN w.devices \ {d} -> Profiles \cup {NoProfile}]
      /\ DOMAIN devs = DOMAIN w.devices \ {d}
      /\ \A e \in DOMAIN w.devices \ {d} : devs[e] = w.devices[e]
  BY <1>4, <1>8, ServiceFields DEF Without, SameTables
<1>10. conns \in SUBSET Profiles /\ conns = w.connections \ {w.devices[d]}
  BY <1>4, <1>8, ServiceFields DEF SameTables
<1>11. f \in Services(DOMAIN w.devices, DOMAIN f.pending)
  BY <1>4, <1>8 DEF IsService, SameTables
<1>12. c = [f EXCEPT !.connections = conns, !.devices = devs]
  BY <1>3
<1> HIDE DEF devs, conns
<1>13. /\ c.connections = conns /\ c.devices = devs /\ c.client = f.client
  BY <1>11, <1>12 DEF Services
<1>14. /\ c.subscribed = f.subscribed /\ c.announced = f.announced
       /\ c.pending = f.pending /\ c.answers = f.answers
  BY <1>11, <1>12 DEF Services
<1>15. c \in Services(DOMAIN w.devices \ {d}, DOMAIN f.pending)
  BY <1>9, <1>10, <1>11, <1>12 DEF Services
<1>16. IsService(c)
  BY <1>8, <1>9, <1>13, <1>14, <1>15, <1>0 DEF IsService
<1>17. Failed(w, c)
  <2>1. Answers(w, c, Requested(v, {d}), FALSE)
    BY <1>5, <1>8, <1>14 DEF Answers
  <2> QED BY <2>1 DEF Failed
<1>18. Matched(w) => Matched(c)
  BY <1>0, <1>1, <1>4, <1>8, <1>9, <1>13, <1>14 DEF Matched, SameTables
<1> QED BY <1>4, <1>8, <1>9, <1>10, <1>13, <1>14, <1>16, <1>17, <1>18 DEF SameTables

\* Nothing becomes active on the device any more.
LEMMA InactiveOutcome ==
  ASSUME NEW w, IsService(w), NEW d \in DOMAIN w.devices,
         NEW c, c = ActiveConnectionChanged(w, d, 0)
  PROVE  /\ IsService(c) /\ SameAnswers(w, c)
         /\ c.client = w.client /\ c.subscribed = w.subscribed
         /\ c.announced = w.announced
         /\ c.connections = w.connections \ {w.devices[d]}
         /\ DOMAIN c.devices = DOMAIN w.devices /\ c.devices[d] = NoProfile
         /\ \A e \in DOMAIN w.devices \ {d} : c.devices[e] = w.devices[e]
<1>1. w \in Services(DOMAIN w.devices, DOMAIN w.pending)
  BY DEF IsService
<1> DEFINE devs == [w.devices EXCEPT ![d] = NoProfile]
           conns == w.connections \ {w.devices[d]}
<1>2. /\ devs \in [DOMAIN w.devices -> Profiles \cup {NoProfile}]
      /\ DOMAIN devs = DOMAIN w.devices /\ devs[d] = NoProfile
      /\ \A e \in DOMAIN w.devices \ {d} : devs[e] = w.devices[e]
      /\ conns \in SUBSET Profiles
  BY ServiceFields
<1>3. c = [w EXCEPT !.connections = conns, !.devices = devs]
  BY DEF ActiveConnectionChanged
<1>4. conns = w.connections \ {w.devices[d]}
  OBVIOUS
<1> HIDE DEF devs, conns
<1>5. c.devices = devs /\ c.connections = conns /\ c.client = w.client
  BY <1>1, <1>3 DEF Services
<1>6. /\ c.announced = w.announced /\ c.subscribed = w.subscribed
      /\ c.pending = w.pending /\ c.answers = w.answers
  BY <1>1, <1>3 DEF Services
<1>7. c \in Services(DOMAIN w.devices, DOMAIN w.pending)
  BY <1>1, <1>2, <1>3 DEF Services
<1> QED BY <1>2, <1>4, <1>5, <1>6, <1>7 DEF IsService, SameAnswers

\* The connection of activation a is active on the device.
LEMMA ActiveOutcome ==
  ASSUME NEW w, IsService(w), NEW d \in DOMAIN w.devices, NEW a \in Activations,
         NEW p \in Profiles, acts'[a].profile = p,
         NEW c, c = ActiveConnectionChanged(w, d, a)
  PROVE  /\ IsService(c) /\ SameAnswers(w, c)
         /\ c.client = w.client /\ c.announced = w.announced
         /\ DOMAIN c.devices = DOMAIN w.devices /\ c.devices[d] = p
         /\ \A e \in DOMAIN w.devices \ {d} : c.devices[e] = w.devices[e]
         /\ c.connections = w.connections \cup {p}
         /\ w.subscribed \subseteq c.subscribed
         /\ p \notin w.connections => a \in c.subscribed
<1> DEFINE v == EnsureConnectionObject(w, a, p)
<1>1. /\ IsService(v) /\ SameAnswers(w, v) /\ v.devices = w.devices
      /\ v.client = w.client /\ v.announced = w.announced
      /\ v.connections = w.connections \cup {p}
      /\ w.subscribed \subseteq v.subscribed
      /\ p \notin w.connections => a \in v.subscribed
  <2>1. CASE p \in w.connections
    <3>1. v = w
      BY <2>1 DEF EnsureConnectionObject
    <3> QED BY <2>1, <3>1 DEF SameAnswers
  <2>2. CASE p \notin w.connections
    <3>0. w \in Services(DOMAIN w.devices, DOMAIN w.pending)
      BY DEF IsService
    <3> DEFINE conns == w.connections \cup {p}
               subs == w.subscribed \cup {a}
    <3>1. conns \in SUBSET Profiles /\ subs \in SUBSET Activations
      BY ServiceFields
    <3>2. v = [w EXCEPT !.connections = conns, !.subscribed = subs]
      BY <2>2 DEF EnsureConnectionObject
    <3>3. conns = w.connections \cup {p} /\ subs = w.subscribed \cup {a}
      OBVIOUS
    <3> HIDE DEF conns, subs, v
    <3>4. v.connections = conns /\ v.subscribed = subs /\ v.devices = w.devices
      BY <3>0, <3>2 DEF Services
    <3>5. /\ v.announced = w.announced /\ v.client = w.client
          /\ v.pending = w.pending /\ v.answers = w.answers
      BY <3>0, <3>2 DEF Services
    <3>6. v \in Services(DOMAIN w.devices, DOMAIN w.pending)
      BY <3>0, <3>1, <3>2 DEF Services
    <3> QED BY <3>3, <3>4, <3>5, <3>6 DEF IsService, SameAnswers
  <2> QED BY <2>1, <2>2
<1> DEFINE devs == [v.devices EXCEPT ![d] = p]
<1>2. c = [v EXCEPT !.devices = devs]
  BY DEF ActiveConnectionChanged, Activations
<1> HIDE DEF v
<1>3. /\ devs \in [DOMAIN w.devices -> Profiles \cup {NoProfile}]
      /\ DOMAIN devs = DOMAIN w.devices /\ devs[d] = p
      /\ \A e \in DOMAIN w.devices \ {d} : devs[e] = w.devices[e]
  BY <1>1, ServiceFields
<1> HIDE DEF devs
<1>4. v \in Services(DOMAIN w.devices, DOMAIN w.pending)
  BY <1>1 DEF IsService, SameAnswers
<1>5. c.devices = devs /\ c.connections = v.connections /\ c.client = v.client
  BY <1>2, <1>4 DEF Services
<1>6. /\ c.announced = v.announced /\ c.subscribed = v.subscribed
      /\ c.pending = v.pending /\ c.answers = v.answers
  BY <1>2, <1>4 DEF Services
<1>7. c \in Services(DOMAIN w.devices, DOMAIN w.pending)
  BY <1>2, <1>3, <1>4 DEF Services
<1>8. IsService(c)
  BY <1>1, <1>3, <1>5, <1>6, <1>7 DEF IsService, SameAnswers
<1> QED BY <1>1, <1>3, <1>5, <1>6, <1>8 DEF SameAnswers

\* NetworkManager is gone and the service has seen it: nothing is listed.
LEMMA DisappearedOutcome ==
  ASSUME NEW w, IsService(w), w.client, NEW c, c = Disappeared(w)
  PROVE  /\ IsService(c) /\ Failed(w, c)
         /\ c.client = FALSE /\ c.connections = {} /\ c.subscribed = {}
         /\ DOMAIN c.devices = {}
         /\ Matched(w) => Matched(c)
<1> DEFINE f == FailPending(w, Devices)
           devs == [d \in {} |-> NoProfile]
           told == [d \in Devices |->
                      IF d \in Listed(w) THEN f.announced[d] - 1 ELSE f.announced[d]]
<1>1. IsService(f) /\ SameTables(w, f) /\ Answers(w, f, Requested(w, Devices), FALSE)
  BY FailOutcome
<1>2. c = [f EXCEPT !.client = FALSE, !.connections = {}, !.subscribed = {},
                    !.devices = devs, !.announced = told]
  BY DEF Disappeared
<1>3. /\ devs \in [{} -> Profiles \cup {NoProfile}] /\ DOMAIN devs = {}
  OBVIOUS
<1> HIDE DEF f, devs
<1>4. /\ told \in [Devices -> Int]
      /\ \A d \in Devices : told[d] = IF d \in Listed(w) THEN w.announced[d] - 1
                                      ELSE w.announced[d]
  BY <1>1, ServiceFields DEF SameTables
<1> HIDE DEF told
<1>5. f \in Services(DOMAIN w.devices, DOMAIN f.pending)
  BY <1>1 DEF IsService, SameTables
<1>6. c.client = FALSE /\ c.connections = {} /\ c.subscribed = {}
  BY <1>2, <1>5 DEF Services
<1>7. /\ c.devices = devs /\ c.announced = told
      /\ c.pending = f.pending /\ c.answers = f.answers
  BY <1>2, <1>5 DEF Services
<1>8. c \in Services({}, DOMAIN f.pending)
  BY <1>2, <1>3, <1>4, <1>5 DEF Services
<1>9. IsService(c)
  BY <1>1, <1>3, <1>7, <1>8 DEF IsService
<1>10. Failed(w, c)
  <2>1. Answers(w, c, Requested(w, Devices), FALSE)
    BY <1>1, <1>7 DEF Answers
  <2> QED BY <2>1 DEF Failed
<1>11. Matched(w) => Matched(c)
  BY <1>3, <1>4, <1>7 DEF Matched, Listed
<1> QED BY <1>3, <1>6, <1>7, <1>9, <1>10, <1>11

\* A service with a client that shows the devices D, and no connection of theirs.
Discovered(w, D, c) ==
  /\ SameAnswers(w, c) /\ c.client = TRUE
  /\ c.connections = w.connections /\ c.subscribed = w.subscribed
  /\ DOMAIN c.devices = DOMAIN w.devices \cup D
  /\ \A d \in DOMAIN w.devices : c.devices[d] = w.devices[d]
  /\ \A d \in D \ DOMAIN w.devices : c.devices[d] = NoProfile
  /\ Matched(w) => Matched(c)

\* What finding a set of devices changes.
LEMMA DiscoverOutcome ==
  ASSUME NEW w, IsService(w), NEW D \in SUBSET Devices, NEW c, c = Discover(w, D)
  PROVE  IsService(c) /\ Discovered(w, D, c)
<1> DEFINE devs == [d \in Listed(w) \cup D |->
                      IF d \in Listed(w) THEN w.devices[d] ELSE NoProfile]
           told == [d \in Devices |->
                      IF d \in D \ Listed(w) THEN w.announced[d] + 1 ELSE w.announced[d]]
<1>1. w \in Services(DOMAIN w.devices, DOMAIN w.pending)
  BY DEF IsService
<1>2. c = [w EXCEPT !.client = TRUE, !.devices = devs, !.announced = told]
  BY DEF Discover
<1>3. /\ devs \in [DOMAIN w.devices \cup D -> Profiles \cup {NoProfile}]
      /\ DOMAIN devs = DOMAIN w.devices \cup D
      /\ \A d \in DOMAIN w.devices : devs[d] = w.devices[d]
      /\ \A d \in D \ DOMAIN w.devices : devs[d] = NoProfile
  BY ServiceFields DEF Listed
<1>4. /\ told \in [Devices -> Int]
      /\ \A d \in Devices : told[d] = IF d \in D \ DOMAIN w.devices THEN w.announced[d] + 1
                                      ELSE w.announced[d]
  BY ServiceFields DEF Listed
<1> HIDE DEF devs, told
<1>5. c.client = TRUE /\ c.devices = devs /\ c.announced = told
  BY <1>1, <1>2 DEF Services
<1>6. /\ c.connections = w.connections /\ c.subscribed = w.subscribed
      /\ c.pending = w.pending /\ c.answers = w.answers
  BY <1>1, <1>2 DEF Services
<1>7. c \in Services(DOMAIN w.devices \cup D, DOMAIN w.pending)
  BY <1>1, <1>2, <1>3, <1>4 DEF Services
<1>8. IsService(c)
  BY <1>3, <1>5, <1>6, <1>7 DEF IsService
<1>9. Matched(w) => Matched(c)
  BY <1>3, <1>4, <1>5 DEF Matched
<1> QED BY <1>3, <1>5, <1>6, <1>8, <1>9 DEF SameAnswers, Discovered

\* The service without a client.
LEMMA NoServiceFields ==
  /\ IsService(NoService) /\ NoService.client = FALSE
  /\ DOMAIN NoService.devices = {} /\ NoService.connections = {}
  /\ NoService.subscribed = {} /\ DOMAIN NoService.pending = {}
  /\ \A r \in 1 .. MaxRequests : NoService.answers[r] = << >>
  /\ Matched(NoService)
<1>1. NoService \in Services({}, {})
  BY DEF NoService, Services
<1>2. /\ DOMAIN NoService.devices = {} /\ DOMAIN NoService.pending = {}
      /\ NoService.client = FALSE /\ NoService.connections = {}
      /\ NoService.subscribed = {}
      /\ NoService.answers = [r \in 1 .. MaxRequests |-> << >>]
      /\ NoService.announced = [d \in Devices |-> 0]
  BY DEF NoService
<1>3. IsService(NoService)
  BY <1>1, <1>2 DEF IsService
<1>4. Matched(NoService)
  BY <1>2 DEF Matched
<1> QED BY <1>2, <1>3, <1>4

-----------------------------------------------------------------------------
(* The invariant *)

Typed ==
  /\ nm \in [up : BOOLEAN, devices : SUBSET Devices, events : 0 .. MaxEvents]
  /\ news \in Seq({"gone", "appeared"})
  /\ cache \subseteq Devices /\ outdated \in BOOLEAN
  /\ acts \in [Activations -> Activation]
  /\ current \in [Devices -> Activations \cup {0}]
  /\ requests \in Seq(Request) /\ Len(requests) <= MaxRequests
  /\ outlived \subseteq Profiles
  /\ IsService(service)

\* An activation belongs to one request at most and was used for it, and it is
\* activated only if it succeeded.
Owned ==
  /\ \A q, r \in DOMAIN requests :
       requests[q].act # 0 /\ requests[q].act = requests[r].act => q = r
  /\ \A r \in DOMAIN requests :
       requests[r].act # 0 => acts[requests[r].act].state # "unused"
  /\ \A a \in Activations : acts[a].state = "activated" => acts[a].succeeded

\* The devices listed are those of libnm's cache.  A device on which something is
\* active is one of them, what the service shows on it is what is active, and no
\* profile is active on two of them.
Tracks ==
  /\ DOMAIN service.devices = cache /\ (service.client \/ cache = {})
  /\ \A d \in Devices : current[d] # 0 => d \in cache /\ acts[current[d]].state # "unused"
  /\ \A d \in cache : service.devices[d] # NoProfile =>
       current[d] # 0 /\ acts[current[d]].profile = service.devices[d]
  /\ \A d, e \in Devices :
       d # e /\ current[d] # 0 /\ current[e] # 0 =>
         acts[current[d]].profile # acts[current[e]].profile

Listing == Tracks /\ Matched(service) /\ ConnectionsMirrored

Answering == Owned /\ AnswersOk(service, requests, acts)

IInv == Typed /\ Answering /\ Listing

\* What was made of an activation stays so: its profile and that it succeeded.
ActsKept ==
  \A a \in Activations : acts[a].state # "unused" =>
    /\ acts'[a].profile = acts[a].profile
    /\ acts'[a].state # "unused"
    /\ acts[a].succeeded => acts'[a].succeeded

\* A request whose call returned keeps its activation.
RequestsKept ==
  /\ DOMAIN requests \subseteq DOMAIN requests'
  /\ \A r \in DOMAIN requests : requests[r].call = "returned" =>
       requests'[r].act = requests[r].act /\ requests'[r].call = "returned"

\* A request that was made is one.
LEMMA RequestTypes ==
  ASSUME Typed, NEW r \in DOMAIN requests
  PROVE  /\ requests[r] \in Request /\ requests[r].act \in Activations \cup {0}
         /\ requests[r].call \in {"calling", "returned"} /\ r \in 1 .. MaxRequests
<1>1. requests \in Seq(Request) /\ Len(requests) <= MaxRequests /\ MaxRequests \in Nat
  BY NetworkAssumption DEF Typed
<1>2. requests[r] \in Request /\ r \in 1 .. MaxRequests
  BY <1>1
<1> QED BY <1>2 DEF Request

\* What is right about the answers stays right when more becomes known of the
\* requests and the activations.
LEMMA AnswersCarried ==
  ASSUME Typed, Owned, AnswersOk(service, requests, acts), ActsKept, RequestsKept
  PROVE  AnswersOk(service, requests', acts')
<1>1. ASSUME NEW a \in DOMAIN service.pending
      PROVE  /\ service.pending[a] \in DOMAIN requests'
             /\ requests'[service.pending[a]].act = a
             /\ requests'[service.pending[a]].call = "returned"
             /\ service.answers[service.pending[a]] = << >>
  BY <1>1 DEF AnswersOk, RequestsKept
<1>2. ASSUME NEW r \in 1 .. MaxRequests
      PROVE  /\ service.answers[r] \in {<< >>, <<TRUE>>, <<FALSE>>}
             /\ service.answers[r] # << >> =>
                  r \in DOMAIN requests' /\ requests'[r].call = "returned"
             /\ service.answers[r] = <<TRUE>> =>
                  requests'[r].act # 0 /\ acts'[requests'[r].act].succeeded
  <2>1. /\ service.answers[r] \in {<< >>, <<TRUE>>, <<FALSE>>}
        /\ service.answers[r] # << >> => r \in DOMAIN requests /\ requests[r].call = "returned"
        /\ service.answers[r] = <<TRUE>> =>
             requests[r].act # 0 /\ acts[requests[r].act].succeeded
    BY DEF AnswersOk
  <2>2. ASSUME r \in DOMAIN requests, requests[r].call = "returned"
        PROVE  /\ r \in DOMAIN requests' /\ requests'[r].call = "returned"
               /\ requests'[r].act = requests[r].act
    BY <2>2 DEF RequestsKept
  <2>3. ASSUME service.answers[r] = <<TRUE>>
        PROVE  requests'[r].act # 0 /\ acts'[requests'[r].act].succeeded
    <3>1. r \in DOMAIN requests /\ requests[r].call = "returned"
      BY <2>1, <2>3, FirstAnswer
    <3>2. /\ requests[r].act \in Activations /\ acts[requests[r].act].succeeded
          /\ requests[r].act # 0
      BY <2>1, <2>3, <3>1, RequestTypes
    <3>3. acts[requests[r].act].state # "unused"
      BY <3>1, <3>2 DEF Owned
    <3>4. acts'[requests[r].act].succeeded
      BY <3>2, <3>3 DEF ActsKept
    <3> QED BY <2>2, <3>1, <3>2, <3>4
  <2> QED BY <2>1, <2>2, <2>3
<1> QED BY <1>1, <1>2 DEF AnswersOk

\* An action that answers what is pending, and reports success only for
\* activations that succeeded.
LEMMA AnsweringKept ==
  ASSUME Typed, Answering, ActsKept, RequestsKept, Owned',
         NEW F, NEW ok \in BOOLEAN, Answers(service, service', F, ok),
         ok => \A a \in F : acts'[a].succeeded
  PROVE  Answering'
<1>1. AnswersOk(service, requests', acts')
  BY AnswersCarried DEF Answering
<1>2. AnswersOk(service', requests', acts')
  BY <1>1, AnswersKept DEF Typed
<1> QED BY <1>2 DEF Answering

\* Or reports failures only.
LEMMA AnsweringFailed ==
  ASSUME Typed, Answering, ActsKept, RequestsKept, Owned', Failed(service, service')
  PROVE  Answering'
<1>1. PICK F : \E no \in BOOLEAN : no = FALSE /\ Answers(service, service', F, no)
  BY DEF Failed
<1>2. PICK no \in BOOLEAN : no = FALSE /\ Answers(service, service', F, no)
  BY <1>1
<1> QED BY <1>2, AnsweringKept

\* Or answers nothing.
LEMMA AnsweringStays ==
  ASSUME Typed, Answering, ActsKept, RequestsKept, Owned',
         SameAnswers(service, service')
  PROVE  Answering'
<1>1. PICK no \in BOOLEAN : no = FALSE
  OBVIOUS
<1>2. Answers(service, service', {}, no)
  BY DEF SameAnswers, Answers
<1> QED BY <1>1, <1>2, AnsweringKept

\* While the activations and the requests stay, who owns which does.
LEMMA OwnedStays ==
  ASSUME Owned, UNCHANGED <<acts, requests>>
  PROVE  Owned' /\ ActsKept /\ RequestsKept
BY DEF Owned, ActsKept, RequestsKept

\* What is active stays so while the cache and the tables stay.
LEMMA TracksStays ==
  ASSUME Typed, Tracks, ActsKept, SameTables(service, service'),
         UNCHANGED <<cache, current>>
  PROVE  Tracks'
<1>1. \A d \in Devices : current[d] # 0 =>
        /\ acts'[current[d]].profile = acts[current[d]].profile
        /\ acts'[current[d]].state # "unused"
  BY DEF Typed, Tracks, ActsKept
<1> QED BY <1>1 DEF Typed, Tracks, SameTables

\* What the service shows stays right while nothing it shows changes.
LEMMA ListingStays ==
  ASSUME Typed, Listing, ActsKept, SameTables(service, service'),
         UNCHANGED <<cache, current, outlived>>
  PROVE  Listing'
<1>1. Tracks'
  BY TracksStays DEF Listing
<1>2. Matched(service)'
  BY DEF Listing, Matched, SameTables
<1>3. ConnectionsMirrored'
  BY DEF Listing, ConnectionsMirrored, SameTables
<1> QED BY <1>1, <1>2, <1>3 DEF Listing

-----------------------------------------------------------------------------
(* The steps *)

\* What NetworkManager and the hardware become by one more event.
LEMMA EventTypes ==
  ASSUME NEW m \in [up : BOOLEAN, devices : SUBSET Devices, events : 0 .. MaxEvents],
         m.events < MaxEvents, NEW up \in BOOLEAN, NEW ds \in SUBSET Devices
  PROVE  /\ [m EXCEPT !.up = up, !.events = m.events + 1] \in
               [up : BOOLEAN, devices : SUBSET Devices, events : 0 .. MaxEvents]
         /\ [m EXCEPT !.devices = ds, !.events = m.events + 1] \in
               [up : BOOLEAN, devices : SUBSET Devices, events : 0 .. MaxEvents]
<1>1. m.events + 1 \in 0 .. MaxEvents
  BY NetworkAssumption
<1> QED BY <1>1

\* NetworkManager's comings and goings, and new hardware, do not reach the
\* service before they are notified.
LEMMA OutsideKeeps ==
  ASSUME IInv, \/ Stops \/ Restarts
               \/ \E d \in Devices : Plugs(d)
  PROVE  IInv'
<1> USE DEF IInv
<1>1. /\ UNCHANGED <<cache, acts, current, requests, outlived, service>>
      /\ outdated' \in BOOLEAN
  BY DEF Stops, Restarts, Plugs, libnm, Typed
<1>2. news' \in Seq({"gone", "appeared"})
  <2>1. news' \in {news, Append(news, "gone"), Append(news, "appeared")}
    BY DEF Stops, Restarts, Plugs
  <2>2. /\ news \in Seq({"gone", "appeared"})
        /\ Append(news, "gone") \in Seq({"gone", "appeared"})
        /\ Append(news, "appeared") \in Seq({"gone", "appeared"})
    BY DEF Typed
  <2> QED BY <2>1, <2>2
<1>3. nm' \in [up : BOOLEAN, devices : SUBSET Devices, events : 0 .. MaxEvents]
  <2>1. CASE Stops
    <3>1. nm' = [nm EXCEPT !.up = FALSE, !.events = nm.events + 1] /\ nm.events < MaxEvents
      BY <2>1 DEF Stops, Happens, Typed
    <3> QED BY <3>1, EventTypes DEF Typed
  <2>2. CASE Restarts
    <3>1. nm' = [nm EXCEPT !.up = TRUE, !.events = nm.events + 1] /\ nm.events < MaxEvents
      BY <2>2 DEF Restarts, Happens, Typed
    <3> QED BY <3>1, EventTypes DEF Typed
  <2>3. ASSUME NEW d \in Devices, Plugs(d)
        PROVE  nm' \in [up : BOOLEAN, devices : SUBSET Devices, events : 0 .. MaxEvents]
    <3> DEFINE ds == IF d \in nm.devices THEN nm.devices \ {d} ELSE nm.devices \cup {d}
    <3>1. nm' = [nm EXCEPT !.devices = ds, !.events = nm.events + 1] /\ nm.events < MaxEvents
      BY <2>3 DEF Plugs, Happens, Typed
    <3>2. ds \in SUBSET Devices
      BY DEF Typed
    <3> HIDE DEF ds
    <3>3. nm \in [up : BOOLEAN, devices : SUBSET Devices, events : 0 .. MaxEvents]
      BY DEF Typed
    <3>4. nm.events + 1 \in 0 .. MaxEvents
      BY <3>1, <3>3, NetworkAssumption
    <3> QED BY <3>1, <3>2, <3>3, <3>4
  <2> QED BY <2>1, <2>2, <2>3
<1>4. Typed'
  BY <1>1, <1>2, <1>3 DEF Typed
<1>5. Answering'
  BY <1>1, OwnedStays, AnsweringStays DEF Answering, SameAnswers
<1>6. Listing'
  BY <1>1, OwnedStays, ListingStays DEF Answering, SameTables
<1> QED BY <1>4, <1>5, <1>6

\* A client asks for a connection.
LEMMA WifiConnectKeeps ==
  ASSUME IInv, NEW d \in Devices, WifiConnect(d)
  PROVE  IInv'
<1> USE DEF IInv
<1> DEFINE new == [device |-> d, call |-> "calling", act |-> 0, stayed |-> TRUE]
<1>1. /\ requests' = Append(requests, new) /\ Len(requests) < MaxRequests
      /\ UNCHANGED <<nm, news, cache, outdated, acts, current, outlived, service>>
  BY DEF WifiConnect, libnm
<1>2. new \in Request /\ new.act = 0
  BY DEF Request
<1> HIDE DEF new
<1>3. /\ requests' \in Seq(Request) /\ Len(requests') = Len(requests) + 1
      /\ \A r \in DOMAIN requests : r \in DOMAIN requests' /\ requests'[r] = requests[r]
      /\ DOMAIN requests' = 1 .. Len(requests) + 1 /\ DOMAIN requests = 1 .. Len(requests)
      /\ requests'[Len(requests) + 1] = new
  BY <1>1, <1>2 DEF Typed
<1>4. Len(requests') <= MaxRequests
  BY <1>1, <1>3, NetworkAssumption DEF Typed
<1>5. Typed'
  BY <1>1, <1>3, <1>4 DEF Typed
<1>6. \A r \in DOMAIN requests' : requests'[r].act # 0 =>
        r \in DOMAIN requests /\ requests'[r] = requests[r]
  <2> SUFFICES ASSUME NEW r \in DOMAIN requests', requests'[r].act # 0
               PROVE  r \in DOMAIN requests
    BY <1>3
  <2>1. r # Len(requests) + 1
    BY <1>2, <1>3
  <2> QED BY <1>3, <2>1 DEF Typed
<1>7. Owned' /\ ActsKept /\ RequestsKept
  BY <1>1, <1>3, <1>6 DEF Answering, Owned, ActsKept, RequestsKept
<1>8. Answering'
  BY <1>1, <1>7, AnsweringStays DEF SameAnswers
<1>9. Listing'
  BY <1>1, <1>7, ListingStays DEF SameTables
<1> QED BY <1>5, <1>8, <1>9

\* A list in which one request is another one.
LEMMA RequestSet ==
  ASSUME NEW s \in Seq(Request), NEW r \in DOMAIN s, NEW q \in Request,
         NEW t, t = [s EXCEPT ![r] = q]
  PROVE  /\ t \in Seq(Request) /\ Len(t) = Len(s) /\ DOMAIN t = DOMAIN s
         /\ t[r] = q /\ \A i \in DOMAIN s \ {r} : t[i] = s[i]
BY ExceptSeq

\* A call returned: the request has it noted.
LEMMA ReturnedRequests ==
  ASSUME Typed, NEW r \in DOMAIN requests,
         requests' = [requests EXCEPT ![r].call = "returned"]
  PROVE  /\ requests' \in Seq(Request) /\ Len(requests') = Len(requests)
         /\ DOMAIN requests' = DOMAIN requests
         /\ \A i \in DOMAIN requests \ {r} : requests'[i] = requests[i]
         /\ requests'[r].act = requests[r].act /\ requests'[r].call = "returned"
<1>0. requests[r] \in Request /\ requests \in Seq(Request)
  BY DEF Typed
<1> DEFINE q == [requests[r] EXCEPT !.call = "returned"]
<1>1. q \in Request /\ q.act = requests[r].act /\ q.call = "returned"
  BY <1>0 DEF Request
<1>2. requests' = [requests EXCEPT ![r] = q]
  OBVIOUS
<1> HIDE DEF q
<1> QED BY <1>0, <1>1, <1>2, RequestSet

\* The call fails, and that is the answer.
LEMMA CallFailsKeeps ==
  ASSUME IInv, NEW r \in 1 .. MaxRequests, CallFails(r)
  PROVE  IInv'
<1> USE DEF IInv
<1>1. /\ UNCHANGED <<nm, news, cache, outdated, acts, current, outlived>>
      /\ r \in DOMAIN requests /\ requests[r].call = "calling" /\ requests[r].act = 0
      /\ requests' = [requests EXCEPT ![r].call = "returned"]
      /\ service' = EmitWifiConnectResult(service, {r}, FALSE)
  BY DEF CallFails, Calling, libnm
<1>2. /\ requests' \in Seq(Request) /\ Len(requests') = Len(requests)
      /\ DOMAIN requests' = DOMAIN requests
      /\ \A i \in DOMAIN requests \ {r} : requests'[i] = requests[i]
      /\ requests'[r].act = requests[r].act /\ requests'[r].call = "returned"
  BY <1>1, ReturnedRequests
<1>3. PICK no \in BOOLEAN : no = FALSE
  OBVIOUS
<1>4. service' = EmitWifiConnectResult(service, {r}, no)
  BY <1>1, <1>3
<1>5. /\ IsService(service') /\ SameTables(service, service')
      /\ service'.pending = service.pending
      /\ \A q \in 1 .. MaxRequests :
           \/ service'.answers[q] = service.answers[q]
           \/ q \in {r} /\ service'.answers[q] = Append(service.answers[q], no)
  <2> DEFINE R == {r}
  <2> HIDE DEF R
  <2>1. service' = EmitWifiConnectResult(service, R, no) /\ IsService(service)
    BY <1>4 DEF R, Typed
  <2>2. PICK x, y : x = service /\ y = service'
    OBVIOUS
  <2>3. y = EmitWifiConnectResult(x, R, no) /\ IsService(x)
    BY <2>1, <2>2
  <2>4. /\ IsService(y) /\ SameTables(x, y) /\ y.pending = x.pending
        /\ \A q \in 1 .. MaxRequests :
             \/ y.answers[q] = x.answers[q]
             \/ q \in R /\ y.answers[q] = Append(x.answers[q], no)
    BY <2>3, EmitOutcome
  <2> QED BY <2>2, <2>4 DEF R
<1>6. Typed'
  BY <1>1, <1>2, <1>5 DEF Typed
<1>7. Owned' /\ ActsKept /\ RequestsKept
  BY <1>1, <1>2 DEF Answering, Owned, ActsKept, RequestsKept
<1>8. AnswersOk(service, requests', acts')
  BY <1>7, AnswersCarried DEF Answering
<1>9. service.answers[r] = << >> /\ \A a \in DOMAIN service.pending : service.pending[a] # r
  BY <1>1 DEF Answering, AnswersOk
<1>10. \A a \in DOMAIN service.pending : service.pending[a] \in 1 .. MaxRequests
  BY ServiceFields DEF Typed
<1>11. \A q \in 1 .. MaxRequests : q # r => service'.answers[q] = service.answers[q]
  BY <1>5
<1>12. service'.answers[r] \in {<< >>, <<FALSE>>}
  BY <1>3, <1>5, <1>9, FirstAnswer
<1>13. AnswersOk(service', requests', acts')
  <2>1. ASSUME NEW a \in DOMAIN service'.pending
        PROVE  /\ service'.pending[a] \in DOMAIN requests'
               /\ requests'[service'.pending[a]].act = a
               /\ requests'[service'.pending[a]].call = "returned"
               /\ service'.answers[service'.pending[a]] = << >>
    BY <1>5, <1>8, <1>9, <1>10, <1>11 DEF AnswersOk
  <2>2. ASSUME NEW q \in 1 .. MaxRequests
        PROVE  /\ service'.answers[q] \in {<< >>, <<TRUE>>, <<FALSE>>}
               /\ service'.answers[q] # << >> =>
                    q \in DOMAIN requests' /\ requests'[q].call = "returned"
               /\ service'.answers[q] = <<TRUE>> =>
                    requests'[q].act # 0 /\ acts'[requests'[q].act].succeeded
    <3>1. CASE q # r
      BY <1>8, <1>11, <3>1 DEF AnswersOk
    <3>2. CASE q = r
      BY <1>1, <1>2, <1>12, <3>2, FirstAnswer
    <3> QED BY <3>1, <3>2
  <2> QED BY <2>1, <2>2 DEF AnswersOk
<1>14. Listing'
  BY <1>1, <1>5, <1>7, ListingStays
<1> QED BY <1>6, <1>7, <1>13, <1>14 DEF Answering

\* The call returned its activation: it is pending until that is decided.
LEMMA CallReturnsKeeps ==
  ASSUME IInv, NEW r \in 1 .. MaxRequests, CallReturns(r)
  PROVE  IInv'
<1> USE DEF IInv
<1> DEFINE a == requests[r].act
           t == Tracked(service, a, r)
<1>1. /\ UNCHANGED <<nm, news, cache, outdated, acts, current, outlived>>
      /\ r \in DOMAIN requests /\ requests[r].call = "calling" /\ a # 0
      /\ requests' = [requests EXCEPT ![r].call = "returned"]
      /\ service' = Resolve(t, a, acts[a].state)
  BY DEF CallReturns, Calling, libnm, Track, Tracked
<1>2. /\ requests' \in Seq(Request) /\ Len(requests') = Len(requests)
      /\ DOMAIN requests' = DOMAIN requests
      /\ \A i \in DOMAIN requests \ {r} : requests'[i] = requests[i]
      /\ requests'[r].act = a /\ requests'[r].call = "returned"
  BY <1>1, ReturnedRequests
<1>3. a \in Activations /\ a = requests[r].act
  BY <1>1, RequestTypes
<1> HIDE DEF a
<1>4. t = Tracked(service, a, r)
  OBVIOUS
<1> HIDE DEF t
<1>5. /\ IsService(t) /\ t.client = service.client
      /\ t.devices = service.devices /\ t.connections = service.connections
      /\ t.announced = service.announced /\ t.subscribed = service.subscribed \cup {a}
      /\ t.answers = service.answers
      /\ DOMAIN t.pending = DOMAIN service.pending \cup {a} /\ t.pending[a] = r
      /\ \A b \in DOMAIN service.pending \ {a} : t.pending[b] = service.pending[b]
  BY <1>3, <1>4, TrackedOutcome DEF Typed
<1>6. IsService(service') /\ SameTables(t, service')
  BY <1>1, <1>5, ResolveOutcome
<1>7. PICK F \in SUBSET {a}, ok \in BOOLEAN :
        /\ Answers(t, service', F, ok)
        /\ F # {} => acts[a].state # "activating" /\ ok = (acts[a].state = "activated")
  <2>1. Decided(t, service', a, acts[a].state)
    BY <1>1, <1>5, ResolveOutcome
  <2> QED BY <2>1 DEF Decided
<1>8. Typed'
  BY <1>1, <1>2, <1>6 DEF Typed
<1>9. Owned' /\ ActsKept /\ RequestsKept
  BY <1>1, <1>2, <1>3 DEF Answering, Owned, ActsKept, RequestsKept
<1>10. AnswersOk(service, requests', acts')
  BY <1>9, AnswersCarried DEF Answering
<1>11. service.answers[r] = << >>
  BY <1>1 DEF Answering, AnswersOk
<1>12. AnswersOk(t, requests', acts')
  <2>1. ASSUME NEW b \in DOMAIN t.pending
        PROVE  /\ t.pending[b] \in DOMAIN requests'
               /\ requests'[t.pending[b]].act = b
               /\ requests'[t.pending[b]].call = "returned"
               /\ t.answers[t.pending[b]] = << >>
    <3>1. CASE b = a
      BY <1>1, <1>2, <1>5, <1>11, <3>1
    <3>2. CASE b # a
      BY <1>5, <1>10, <3>2 DEF AnswersOk
    <3> QED BY <3>1, <3>2
  <2>2. \A q \in 1 .. MaxRequests :
          /\ t.answers[q] \in {<< >>, <<TRUE>>, <<FALSE>>}
          /\ t.answers[q] # << >> => q \in DOMAIN requests' /\ requests'[q].call = "returned"
          /\ t.answers[q] = <<TRUE>> =>
               requests'[q].act # 0 /\ acts'[requests'[q].act].succeeded
    BY <1>5, <1>10 DEF AnswersOk
  <2> QED BY <2>1, <2>2 DEF AnswersOk
<1>13. ok => \A b \in F : acts'[b].succeeded
  BY <1>1, <1>3, <1>7 DEF Answering, Owned
<1>14. AnswersOk(service', requests', acts')
  BY <1>5, <1>7, <1>12, <1>13, AnswersKept
<1>15. Listing'
  <2>1. Tracks'
    BY <1>1, <1>5, <1>6 DEF Listing, Tracks, SameTables
  <2>2. Matched(service)'
    BY <1>5, <1>6 DEF Listing, Matched, SameTables
  <2>3. ConnectionsMirrored'
    BY <1>1, <1>5, <1>6 DEF Listing, ConnectionsMirrored, SameTables
  <2> QED BY <2>1, <2>2, <2>3 DEF Listing
<1> QED BY <1>8, <1>9, <1>14, <1>15 DEF Answering

\* What an activation starting on a device does to the activations: what was
\* active there has ended, all else is as it was.
LEMMA StartedActs ==
  ASSUME IInv, NEW a \in Activations, NEW p \in Profiles, NEW d \in Devices, Starts(a, p, d)
  PROVE  /\ acts' \in [Activations -> Activation]
         /\ acts[a].state = "unused" /\ current[d] # a
         /\ acts'[a].profile = p /\ acts'[a].state = "activating"
         /\ \A b \in Activations \ {a} :
              /\ acts'[b].profile = acts[b].profile
              /\ acts'[b].succeeded = acts[b].succeeded
              /\ acts'[b].state = IF b = current[d] THEN "deactivated" ELSE acts[b].state
         /\ ActsKept
<1> DEFINE old == current[d]
           ended == IF old = 0 THEN acts ELSE [acts EXCEPT ![old].state = "deactivated"]
           new == [profile |-> p, device |-> d, state |-> "activating", succeeded |-> FALSE]
<1>1. /\ acts \in [Activations -> Activation] /\ old \in Activations \cup {0}
      /\ old # 0 => acts[old].state # "unused"
  BY DEF IInv, Typed, Listing, Tracks
<1>2. acts[a].state = "unused" /\ acts' = [ended EXCEPT ![a] = new]
  BY DEF Starts, Fresh
<1>3. /\ ended \in [Activations -> Activation]
      /\ \A b \in Activations :
           /\ ended[b].profile = acts[b].profile /\ ended[b].succeeded = acts[b].succeeded
           /\ ended[b].state = IF b = old THEN "deactivated" ELSE acts[b].state
  <2>1. CASE old = 0
    <3>1. \A b \in Activations : b # old
      BY <2>1 DEF Activations
    <3> QED BY <1>1, <2>1, <3>1
  <2>2. CASE old # 0
    <3>1. old \in Activations /\ ended = [acts EXCEPT ![old].state = "deactivated"]
      BY <1>1, <2>2
    <3> HIDE DEF old, ended
    <3>2. ended \in [Activations -> Activation]
      BY <1>1, <3>1 DEF Activation
    <3> QED BY <1>1, <3>1, <3>2 DEF Activation
  <2> QED BY <2>1, <2>2
<1>4. new \in Activation /\ new.profile = p /\ new.state = "activating"
  BY DEF Activation
<1> HIDE DEF old, ended, new
<1>5. acts' \in [Activations -> Activation] /\ acts'[a] = new
      /\ \A b \in Activations \ {a} : acts'[b] = ended[b]
  BY <1>2, <1>3, <1>4
<1>6. old # a
  BY <1>1, <1>2 DEF Activations
<1>7. ActsKept
  BY <1>1, <1>2, <1>3, <1>5 DEF ActsKept
<1> QED BY <1>2, <1>3, <1>4, <1>5, <1>6, <1>7 DEF old

\* What is shown after an activation has started.
LEMMA StartsKeeps ==
  ASSUME IInv, NEW a \in Activations, NEW p \in Profiles, NEW d \in Devices,
         Starts(a, p, d), RequestsKept, Owned'
  PROVE  Listing' /\ Answering' /\ IsService(service') /\ outlived' \subseteq Profiles
<1> DEFINE old == current[d]
           v == IF old = 0 THEN service ELSE StateChanged(service, old)
<1>0. /\ acts[a].state = "unused" /\ old # a /\ acts'[a].profile = p /\ ActsKept
      /\ acts'[a].state = "activating"
      /\ \A b \in Activations \ {a} : acts'[b].profile = acts[b].profile
      /\ old \in Activations => acts'[old].state = "deactivated"
  BY StartedActs
<1>1. /\ UNCHANGED cache /\ d \in cache /\ current' = [current EXCEPT ![d] = a]
      /\ service' = ActiveConnectionChanged(v, d, a)
      /\ outlived' = IF old # 0 /\ acts[old].profile \in service.connections
                     THEN outlived \cup {acts[old].profile} ELSE outlived
      /\ \A e \in Devices \ {d} : current[e] # 0 => acts[current[e]].profile # p
  BY DEF Starts, Shown
<1>2. /\ IsService(service) /\ old \in Activations \cup {0} /\ cache \subseteq Devices
      /\ current \in [Devices -> Activations \cup {0}] /\ old = current[d]
      /\ p # NoProfile /\ 0 \notin Activations
      /\ outlived \subseteq Profiles
  BY NetworkAssumption DEF IInv, Typed, Activations
<1>3. PICK F \in SUBSET {old}, ok \in BOOLEAN :
        /\ IsService(v) /\ SameTables(service, v) /\ Answers(service, v, F, ok)
        /\ F # {} => ok = (acts'[old].state = "activated") /\ old \in Activations
  <2>1. CASE old = 0
    <3>1. PICK no \in BOOLEAN : no = FALSE
      OBVIOUS
    <3>2. v = service /\ Answers(service, v, {}, no)
      BY <2>1 DEF Answers
    <3> QED BY <1>2, <3>2 DEF SameTables
  <2>2. CASE old # 0
    <3>1. v = StateChanged(service, old) /\ old \in Activations
      BY <1>2, <2>2
    <3> HIDE DEF v, old
    <3>2. IsService(v) /\ SameTables(service, v)
      BY <1>2, <3>1, StateOutcome
    <3>3. Decided(service, v, old, acts'[old].state)
      BY <1>2, <3>1, StateOutcome
    <3> QED BY <3>1, <3>2, <3>3 DEF Decided
  <2> QED BY <2>1, <2>2
<1> HIDE DEF v, old
<1>4. d \in DOMAIN v.devices
  BY <1>1, <1>3 DEF IInv, Listing, Tracks, SameTables
<1>5. /\ IsService(service') /\ SameAnswers(v, service')
      /\ service'.client = v.client /\ service'.announced = v.announced
      /\ DOMAIN service'.devices = DOMAIN v.devices /\ service'.devices[d] = p
      /\ \A e \in DOMAIN v.devices \ {d} : service'.devices[e] = v.devices[e]
      /\ service'.connections = v.connections \cup {p}
      /\ v.subscribed \subseteq service'.subscribed
      /\ p \notin v.connections => a \in service'.subscribed
  BY <1>0, <1>1, <1>3, <1>4, ActiveOutcome
<1>6. Answering'
  <2>1. Answers(service, service', F, ok)
    BY <1>3, <1>5 DEF Answers, SameAnswers
  <2>2. F # {} => ~ok
    BY <1>0, <1>3
  <2>3. ok => \A b \in F : acts'[b].succeeded
    BY <2>2
  <2> QED BY <1>0, <2>1, <2>3, AnsweringKept DEF IInv
<1>7. /\ current'[d] = a /\ \A e \in Devices \ {d} : current'[e] = current[e]
      /\ DOMAIN service.devices = cache /\ DOMAIN service'.devices = cache
      /\ \A e \in cache \ {d} : service'.devices[e] = service.devices[e]
  BY <1>1, <1>2, <1>3, <1>5 DEF IInv, Listing, Tracks, SameTables
<1>8. \A e \in Devices \ {d} : current[e] # 0 =>
        /\ current[e] \in Activations /\ acts[current[e]].state # "unused"
        /\ acts'[current[e]].profile = acts[current[e]].profile
        /\ acts'[current[e]].state # "unused"
  <2> SUFFICES ASSUME NEW e \in Devices \ {d}, current[e] # 0
               PROVE  /\ current[e] \in Activations /\ acts[current[e]].state # "unused"
                      /\ acts'[current[e]].profile = acts[current[e]].profile
                      /\ acts'[current[e]].state # "unused"
    OBVIOUS
  <2>1. current[e] \in Activations /\ acts[current[e]].state # "unused"
    BY <1>2 DEF IInv, Listing, Tracks
  <2> QED BY <1>0, <2>1 DEF ActsKept
<1>9. Tracks'
  <2>1. service'.client \/ cache' = {}
    BY <1>1, <1>3, <1>5 DEF IInv, Listing, Tracks, SameTables
  <2>2. \A e \in Devices : current'[e] # 0 =>
          e \in cache' /\ acts'[current'[e]].state # "unused"
    BY <1>0, <1>1, <1>7, <1>8 DEF IInv, Listing, Tracks
  <2>3. \A e \in cache' : service'.devices[e] # NoProfile =>
          current'[e] # 0 /\ acts'[current'[e]].profile = service'.devices[e]
    <3> SUFFICES ASSUME NEW e \in cache, service'.devices[e] # NoProfile
                 PROVE  current'[e] # 0 /\ acts'[current'[e]].profile = service'.devices[e]
      BY <1>1
    <3>1. CASE e = d
      BY <1>0, <1>2, <1>5, <1>7, <3>1
    <3>2. CASE e # d
      BY <1>2, <1>7, <1>8, <3>2 DEF IInv, Listing, Tracks
    <3> QED BY <3>1, <3>2
  <2>4. \A e, f \in Devices : e # f /\ current'[e] # 0 /\ current'[f] # 0 =>
          acts'[current'[e]].profile # acts'[current'[f]].profile
    <3> SUFFICES ASSUME NEW e \in Devices, NEW f \in Devices, e # f,
                        current'[e] # 0, current'[f] # 0
                 PROVE  acts'[current'[e]].profile # acts'[current'[f]].profile
      OBVIOUS
    <3>1. CASE e = d
      BY <1>0, <1>1, <1>7, <1>8, <3>1
    <3>2. CASE f = d
      BY <1>0, <1>1, <1>7, <1>8, <3>2
    <3>3. CASE e # d /\ f # d
      BY <1>7, <1>8, <3>3 DEF IInv, Listing, Tracks
    <3> QED BY <3>1, <3>2, <3>3
  <2> QED BY <1>1, <1>7, <2>1, <2>2, <2>3, <2>4 DEF Tracks
<1>10. Matched(service)'
  BY <1>3, <1>5 DEF IInv, Listing, Matched, SameTables
<1>11. ConnectionsMirrored'
  <2>0. /\ service'.connections = service.connections \cup {p}
        /\ service.subscribed \subseteq service'.subscribed
        /\ p \notin service.connections => a \in service'.subscribed
        /\ outlived \subseteq outlived'
    BY <1>1, <1>3, <1>5 DEF SameTables
  <2>1. /\ service.connections \subseteq
             {service.devices[e] : e \in DOMAIN service.devices} \cup outlived
        /\ \A e \in DOMAIN service.devices :
             /\ service.devices[e] \in service.connections \cup {NoProfile}
             /\ service.devices[e] \notin outlived \cup {NoProfile} =>
                  current[e] \in service.subscribed
    BY DEF IInv, Listing, ConnectionsMirrored
  <2>2. ASSUME NEW c \in service'.connections
        PROVE  c \in {service'.devices[e] : e \in DOMAIN service'.devices} \cup outlived'
    <3>1. CASE c = p
      BY <1>1, <1>5, <1>7, <3>1
    <3>2. CASE c \in outlived
      BY <2>0, <3>2
    <3>3. ASSUME c # p, c \notin outlived
          PROVE  c \in {service'.devices[e] : e \in DOMAIN service'.devices} \cup outlived'
      <4>1. c \in service.connections
        BY <2>0, <3>3
      <4>2. PICK e \in cache : c = service.devices[e]
        BY <1>7, <2>1, <3>3, <4>1
      <4>3. CASE e # d
        BY <1>7, <4>2, <4>3
      <4>4. CASE e = d
        <5>1. c # NoProfile
          BY <1>2, <4>1, ServiceFields, NetworkAssumption
        <5>2. old # 0 /\ acts[old].profile = c
          BY <1>2, <4>2, <4>4, <5>1 DEF IInv, Listing, Tracks
        <5> QED BY <1>1, <4>1, <5>2
      <4> QED BY <4>3, <4>4
    <3> QED BY <3>1, <3>2, <3>3
  <2>3. ASSUME NEW e \in DOMAIN service'.devices
        PROVE  /\ service'.devices[e] \in service'.connections \cup {NoProfile}
               /\ service'.devices[e] \notin outlived' \cup {NoProfile} =>
                    current'[e] \in service'.subscribed
    <3>1. CASE e # d
      <4>1. e \in cache /\ e \in Devices /\ service'.devices[e] = service.devices[e]
        BY <1>2, <1>7, <3>1
      <4> QED BY <1>7, <2>0, <2>1, <3>1, <4>1
    <3>2. CASE e = d
      <4>1. p \in service.connections => p \in outlived'
        <5> SUFFICES ASSUME p \in service.connections, p \notin outlived PROVE p \in outlived'
          BY <2>0
        <5>1. PICK f \in cache : p = service.devices[f]
          BY <1>7, <2>1
        <5>2. current[f] # 0 /\ acts[current[f]].profile = p /\ f \in Devices
          BY <1>2, <5>1 DEF IInv, Listing, Tracks
        <5>3. f = d
          BY <1>1, <5>2
        <5> QED BY <1>1, <1>2, <5>2, <5>3
      <4> QED BY <1>5, <1>7, <2>0, <3>2, <4>1
    <3> QED BY <3>1, <3>2
  <2> QED BY <2>2, <2>3 DEF ConnectionsMirrored
<1>12. outlived' \subseteq Profiles
  <2>1. service.connections \subseteq Profiles
    BY <1>2, ServiceFields
  <2> QED BY <1>1, <1>2, <2>1
<1> QED BY <1>5, <1>6, <1>9, <1>10, <1>11, <1>12 DEF Listing

\* NetworkManager connects a device by itself.
LEMMA AutoconnectsKeeps ==
  ASSUME IInv, NEW a \in Activations, NEW p \in Profiles, NEW d \in Devices,
         Autoconnects(a, p, d)
  PROVE  IInv'
<1>1. Starts(a, p, d) /\ requests' = requests
  BY DEF Autoconnects
<1>2. RequestsKept
  BY <1>1 DEF RequestsKept
<1>3. Owned'
  <2>1. \A r \in DOMAIN requests : requests[r].act # 0 => acts'[requests[r].act].state # "unused"
    <3> SUFFICES ASSUME NEW r \in DOMAIN requests, requests[r].act # 0
                 PROVE  acts'[requests[r].act].state # "unused"
      OBVIOUS
    <3>1. requests[r].act \in Activations /\ acts[requests[r].act].state # "unused"
      BY RequestTypes DEF IInv, Answering, Owned
    <3> QED BY <1>1, <3>1, StartedActs DEF ActsKept
  <2>2. \A b \in Activations : acts'[b].state = "activated" => acts'[b].succeeded
    BY <1>1, StartedActs DEF IInv, Answering, Owned
  <2> QED BY <1>1, <2>1, <2>2 DEF IInv, Answering, Owned
<1>4. Listing' /\ Answering' /\ IsService(service') /\ outlived' \subseteq Profiles
  BY <1>1, <1>2, <1>3, StartsKeeps
<1>5. Typed'
  <2>1. acts' \in [Activations -> Activation]
    BY <1>1, StartedActs
  <2>2. current' \in [Devices -> Activations \cup {0}]
    BY <1>1 DEF Starts, IInv, Typed
  <2> QED BY <1>1, <1>4, <2>1, <2>2 DEF Starts, IInv, Typed
<1> QED BY <1>4, <1>5 DEF IInv

\* A request is answered with its activation.
LEMMA AcceptsKeeps ==
  ASSUME IInv, NEW r \in 1 .. MaxRequests, NEW a \in Activations, NEW p \in Profiles,
         Accepts(r, a, p)
  PROVE  IInv'
<1> DEFINE d == requests[r].device
           q == [requests[r] EXCEPT !.act = a]
<1>1. /\ Starts(a, p, d) /\ r \in DOMAIN requests
      /\ requests[r].call = "calling" /\ requests[r].act = 0
      /\ requests' = [requests EXCEPT ![r] = q]
  BY DEF Accepts, Calling
<1>2. requests[r] \in Request /\ requests \in Seq(Request) /\ Len(requests) <= MaxRequests
  BY <1>1, RequestTypes DEF IInv, Typed
<1>3. q \in Request /\ q.act = a /\ d \in Devices
  BY <1>2 DEF Request
<1> HIDE DEF d, q
<1>4. /\ requests' \in Seq(Request) /\ Len(requests') = Len(requests)
      /\ DOMAIN requests' = DOMAIN requests
      /\ requests'[r] = q /\ \A i \in DOMAIN requests \ {r} : requests'[i] = requests[i]
  BY <1>1, <1>2, <1>3, RequestSet
<1>5. /\ acts' \in [Activations -> Activation] /\ ActsKept
      /\ acts[a].state = "unused" /\ acts'[a].state = "activating"
      /\ \A b \in Activations \ {a} : acts'[b].state = "activated" =>
           acts[b].state = "activated" /\ acts'[b].succeeded = acts[b].succeeded
  BY <1>1, <1>3, StartedActs
<1>6. RequestsKept
  BY <1>1, <1>4 DEF RequestsKept
<1>7. \A i \in DOMAIN requests : requests[i].act # 0 =>
        /\ requests[i].act \in Activations /\ acts[requests[i].act].state # "unused"
        /\ acts'[requests[i].act].state # "unused" /\ requests[i].act # a
  <2> SUFFICES ASSUME NEW i \in DOMAIN requests, requests[i].act # 0
               PROVE  /\ requests[i].act \in Activations
                      /\ acts[requests[i].act].state # "unused"
                      /\ acts'[requests[i].act].state # "unused" /\ requests[i].act # a
    OBVIOUS
  <2>1. requests[i].act \in Activations /\ acts[requests[i].act].state # "unused"
    BY RequestTypes DEF IInv, Answering, Owned
  <2> QED BY <1>5, <2>1 DEF ActsKept
<1>8. Owned'
  <2>1. \A i \in DOMAIN requests' :
          requests'[i].act # 0 => acts'[requests'[i].act].state # "unused"
    BY <1>3, <1>4, <1>5, <1>7
  <2>2. \A i, j \in DOMAIN requests' :
          requests'[i].act # 0 /\ requests'[i].act = requests'[j].act => i = j
    <3> SUFFICES ASSUME NEW i \in DOMAIN requests, NEW j \in DOMAIN requests, i # j,
                        requests'[i].act # 0, requests'[i].act = requests'[j].act
                 PROVE  FALSE
      BY <1>4
    <3>1. CASE i = r
      BY <1>3, <1>4, <1>7, <3>1
    <3>2. CASE j = r
      BY <1>3, <1>4, <1>7, <3>2
    <3>3. CASE i # r /\ j # r
      BY <1>4, <3>3 DEF IInv, Answering, Owned
    <3> QED BY <3>1, <3>2, <3>3
  <2>3. \A b \in Activations : acts'[b].state = "activated" => acts'[b].succeeded
    BY <1>5 DEF IInv, Answering, Owned
  <2> QED BY <2>1, <2>2, <2>3 DEF Owned
<1>9. Listing' /\ Answering' /\ IsService(service') /\ outlived' \subseteq Profiles
  BY <1>1, <1>3, <1>6, <1>8, StartsKeeps
<1>10. Typed'
  <2>1. current' \in [Devices -> Activations \cup {0}]
    BY <1>1 DEF Starts, IInv, Typed
  <2> QED BY <1>1, <1>2, <1>4, <1>5, <1>9, <2>1 DEF Starts, IInv, Typed
<1> QED BY <1>9, <1>10 DEF IInv

\* An activation has succeeded.
LEMMA ActivatedKeeps ==
  ASSUME IInv, NEW a \in Activations, Activated(a)
  PROVE  IInv'
<1>1. /\ acts' = [acts EXCEPT ![a].state = "activated", ![a].succeeded = TRUE]
      /\ acts[a].state = "activating" /\ service' = StateChanged(service, a)
      /\ UNCHANGED <<nm, news, cache, outdated, current, requests, outlived>>
  BY DEF Activated
<1>2. /\ acts' \in [Activations -> Activation]
      /\ acts'[a].profile = acts[a].profile /\ acts'[a].state = "activated"
      /\ acts'[a].succeeded = TRUE
      /\ \A b \in Activations \ {a} : acts'[b] = acts[b]
  BY <1>1 DEF IInv, Typed, Activation
<1>3. ActsKept /\ RequestsKept
  BY <1>1, <1>2 DEF ActsKept, RequestsKept
<1>4. Owned'
  <2>1. \A r \in DOMAIN requests : requests[r].act # 0 => acts'[requests[r].act].state # "unused"
    BY <1>3, RequestTypes DEF IInv, Answering, Owned, ActsKept
  <2> QED BY <1>1, <1>2, <2>1 DEF IInv, Answering, Owned
<1>5. IsService(service') /\ SameTables(service, service')
  BY <1>1, StateOutcome DEF IInv, Typed
<1>6. Decided(service, service', a, acts'[a].state)
  BY <1>1, StateOutcome DEF IInv, Typed
<1>7. PICK F \in SUBSET {a}, ok \in BOOLEAN : Answers(service, service', F, ok)
  BY <1>6 DEF Decided
<1>8. Answering'
  <2>1. ok => \A b \in F : acts'[b].succeeded
    BY <1>2
  <2> QED BY <1>3, <1>4, <1>7, <2>1, AnsweringKept DEF IInv
<1>9. Listing'
  BY <1>1, <1>3, <1>5, ListingStays DEF IInv
<1>10. Typed'
  BY <1>1, <1>2, <1>5 DEF IInv, Typed
<1> QED BY <1>8, <1>9, <1>10 DEF IInv

\* A device has no connection any more, or is gone: what the service shows of
\* connections is right for the others.
LEMMA ConnectionEnds ==
  ASSUME IInv, NEW d \in cache, ActsKept, IsService(service'), Matched(service'),
         service'.client = service.client,
         current' = [current EXCEPT ![d] = 0],
         service'.subscribed = service.subscribed,
         service'.connections = service.connections \ {service.devices[d]},
         cache' = DOMAIN service'.devices, cache \ {d} \subseteq cache', cache' \subseteq cache,
         \A e \in cache \ {d} : service'.devices[e] = service.devices[e],
         d \in cache' => service'.devices[d] = NoProfile,
         outlived' = outlived \cap service'.connections
  PROVE  Listing'
<1>1. /\ cache \subseteq Devices /\ current \in [Devices -> Activations \cup {0}]
      /\ DOMAIN service.devices = cache /\ NoProfile \notin Profiles
      /\ service.connections \subseteq Profiles /\ 0 \notin Activations
      /\ \A e \in cache : service.devices[e] \in Profiles \cup {NoProfile}
  BY ServiceFields, NetworkAssumption DEF IInv, Typed, Listing, Tracks, Activations
<1>2. current'[d] = 0 /\ \A e \in Devices \ {d} : current'[e] = current[e]
  BY <1>1
<1>3. \A e \in Devices : current[e] # 0 =>
        /\ e \in cache
        /\ acts'[current[e]].profile = acts[current[e]].profile
        /\ acts'[current[e]].state # "unused"
  BY <1>1 DEF IInv, Listing, Tracks, ActsKept
<1>4. \A e \in cache \ {d} : service.devices[e] # NoProfile =>
        service.devices[e] # service.devices[d]
  <2> SUFFICES ASSUME NEW e \in cache \ {d}, service.devices[e] # NoProfile,
                      service.devices[e] = service.devices[d]
               PROVE  FALSE
    OBVIOUS
  <2>1. /\ current[e] # 0 /\ acts[current[e]].profile = service.devices[e]
        /\ current[d] # 0 /\ acts[current[d]].profile = service.devices[d]
    BY DEF IInv, Listing, Tracks
  <2> QED BY <1>1, <2>1 DEF IInv, Listing, Tracks
<1>5. Tracks'
  <2>1. service'.client \/ cache' = {}
    BY DEF IInv, Listing, Tracks
  <2>2. \A e \in Devices : current'[e] # 0 =>
          e \in cache' /\ acts'[current'[e]].state # "unused"
    BY <1>2, <1>3
  <2>3. \A e \in cache' : service'.devices[e] # NoProfile =>
          current'[e] # 0 /\ acts'[current'[e]].profile = service'.devices[e]
    <3> SUFFICES ASSUME NEW e \in cache', service'.devices[e] # NoProfile
                 PROVE  current'[e] # 0 /\ acts'[current'[e]].profile = service'.devices[e]
      OBVIOUS
    <3>1. e \in cache \ {d} /\ e \in Devices \ {d}
      BY <1>1
    <3>2. current[e] # 0 /\ acts[current[e]].profile = service.devices[e]
      BY <3>1 DEF IInv, Listing, Tracks
    <3> QED BY <1>2, <1>3, <3>1, <3>2
  <2>4. \A e, f \in Devices : e # f /\ current'[e] # 0 /\ current'[f] # 0 =>
          acts'[current'[e]].profile # acts'[current'[f]].profile
    BY <1>2, <1>3 DEF IInv, Listing, Tracks
  <2> QED BY <2>1, <2>2, <2>3, <2>4 DEF Tracks
<1>6. ConnectionsMirrored'
  <2>1. /\ service.connections \subseteq
             {service.devices[e] : e \in cache} \cup outlived
        /\ \A e \in cache :
             /\ service.devices[e] \in service.connections \cup {NoProfile}
             /\ service.devices[e] \notin outlived \cup {NoProfile} =>
                  current[e] \in service.subscribed
    BY <1>1 DEF IInv, Listing, ConnectionsMirrored
  <2>2. ASSUME NEW c \in service'.connections
        PROVE  c \in {service'.devices[e] : e \in cache'} \cup outlived'
    <3>1. c \in service.connections /\ c # service.devices[d]
      OBVIOUS
    <3>2. CASE c \in outlived
      BY <3>2
    <3>3. CASE c \notin outlived
      <4>1. PICK e \in cache : c = service.devices[e]
        BY <2>1, <3>1, <3>3
      <4>2. e \in cache \ {d} /\ service'.devices[e] = c /\ e \in cache'
        BY <3>1, <4>1
      <4> QED BY <4>2
    <3> QED BY <3>2, <3>3
  <2>3. ASSUME NEW e \in cache'
        PROVE  /\ service'.devices[e] \in service'.connections \cup {NoProfile}
               /\ service'.devices[e] \notin outlived' \cup {NoProfile} =>
                    current'[e] \in service'.subscribed
    <3>1. CASE e = d
      BY <3>1
    <3>2. CASE e # d
      <4>1. e \in cache \ {d} /\ e \in Devices \ {d} /\ service'.devices[e] = service.devices[e]
        BY <1>1, <3>2
      <4>2. service'.devices[e] \in service'.connections \cup {NoProfile}
        BY <1>4, <2>1, <4>1
      <4>3. service'.devices[e] \in outlived /\ service'.devices[e] # NoProfile =>
              service'.devices[e] \in outlived'
        BY <4>2
      <4> QED BY <1>2, <2>1, <4>1, <4>2, <4>3
    <3> QED BY <3>1, <3>2
  <2> QED BY <2>2, <2>3 DEF ConnectionsMirrored
<1> QED BY <1>5, <1>6 DEF Listing

\* An activation has ended.
LEMMA DeactivatedKeeps ==
  ASSUME IInv, NEW a \in Activations, Deactivated(a)
  PROVE  IInv'
<1> DEFINE d == acts[a].device
           told == StateChanged(service, a)
           ends == d \in cache /\ current[d] = a
<1>1. /\ acts' = [acts EXCEPT ![a].state = "deactivated"]
      /\ acts[a].state \in {"activating", "activated"} /\ service.client
      /\ current' = IF ends THEN [current EXCEPT ![d] = 0] ELSE current
      /\ service' = IF ends THEN ActiveConnectionChanged(told, d, 0) ELSE told
      /\ outlived' = outlived \cap service'.connections
      /\ UNCHANGED <<nm, news, cache, outdated, requests>>
  BY DEF Deactivated
<1>2. /\ acts' \in [Activations -> Activation]
      /\ acts'[a].profile = acts[a].profile /\ acts'[a].state = "deactivated"
      /\ acts'[a].succeeded = acts[a].succeeded
      /\ \A b \in Activations \ {a} : acts'[b] = acts[b]
  BY <1>1 DEF IInv, Typed, Activation
<1>3. ActsKept /\ RequestsKept
  BY <1>1, <1>2 DEF ActsKept, RequestsKept
<1>4. Owned'
  <2>1. \A r \in DOMAIN requests : requests[r].act # 0 => acts'[requests[r].act].state # "unused"
    BY <1>3, RequestTypes DEF IInv, Answering, Owned, ActsKept
  <2> QED BY <1>1, <1>2, <2>1 DEF IInv, Answering, Owned
<1>5. told = StateChanged(service, a) /\ (ends => d \in cache /\ current[d] = a)
  OBVIOUS
<1> HIDE DEF told, ends, d
<1>6. IsService(told) /\ SameTables(service, told)
  BY <1>5, StateOutcome DEF IInv, Typed
<1>7. PICK F \in SUBSET {a}, ok \in BOOLEAN :
        /\ Answers(service, told, F, ok)
        /\ F # {} => ok = (acts'[a].state = "activated")
  <2>1. Decided(service, told, a, acts'[a].state)
    BY <1>5, StateOutcome DEF IInv, Typed
  <2> QED BY <2>1 DEF Decided
<1>8. ok => \A b \in F : acts'[b].succeeded
  BY <1>2, <1>7
<1>9. DOMAIN service.devices = cache /\ cache \subseteq Devices
  BY DEF IInv, Typed, Listing, Tracks
<1>10. CASE ends
  <2>1. d \in DOMAIN told.devices /\ service' = ActiveConnectionChanged(told, d, 0)
    BY <1>1, <1>5, <1>6, <1>9, <1>10 DEF SameTables
  <2>2. /\ IsService(service') /\ SameAnswers(told, service')
        /\ service'.client = told.client /\ service'.subscribed = told.subscribed
        /\ service'.announced = told.announced
        /\ service'.connections = told.connections \ {told.devices[d]}
        /\ DOMAIN service'.devices = DOMAIN told.devices /\ service'.devices[d] = NoProfile
        /\ \A e \in DOMAIN told.devices \ {d} : service'.devices[e] = told.devices[e]
    BY <1>6, <2>1, InactiveOutcome
  <2>3. Answers(service, service', F, ok)
    BY <1>7, <2>2 DEF Answers, SameAnswers
  <2>4. Matched(service')
    BY <1>6, <2>2 DEF IInv, Listing, Matched, SameTables
  <2>5. Answering'
    BY <1>3, <1>4, <1>8, <2>3, AnsweringKept DEF IInv
  <2>6. /\ d \in cache /\ current' = [current EXCEPT ![d] = 0]
        /\ cache' = cache
    BY <1>1, <1>5, <1>10
  <2>7. /\ service'.client = service.client /\ service'.subscribed = service.subscribed
        /\ service'.connections = service.connections \ {service.devices[d]}
        /\ cache' = DOMAIN service'.devices
        /\ \A e \in cache \ {d} : service'.devices[e] = service.devices[e]
        /\ service'.devices[d] = NoProfile
    BY <1>6, <1>9, <2>2, <2>6 DEF SameTables
  <2>8. Listing'
    BY <1>1, <1>3, <2>2, <2>4, <2>6, <2>7, ConnectionEnds
  <2>9. Typed'
    BY <1>1, <1>2, <2>2, <2>6 DEF IInv, Typed
  <2> QED BY <2>5, <2>8, <2>9 DEF IInv
<1>11. CASE ~ends
  <2>1. service' = told /\ current' = current
    BY <1>1, <1>11
  <2>2. Answering'
    BY <1>3, <1>4, <1>7, <1>8, <2>1, AnsweringKept DEF IInv
  <2>3. Tracks'
    BY <1>1, <1>3, <1>6, <2>1, TracksStays DEF IInv, Listing
  <2>4. Matched(service)'
    BY <1>6, <2>1 DEF IInv, Listing, Matched, SameTables
  <2>5. ConnectionsMirrored'
    BY <1>1, <1>6, <2>1 DEF IInv, Listing, ConnectionsMirrored, SameTables
  <2>6. Typed'
    BY <1>1, <1>2, <1>6, <2>1 DEF IInv, Typed
  <2> QED BY <2>2, <2>3, <2>4, <2>5, <2>6 DEF IInv, Listing
<1> QED BY <1>10, <1>11

\* What a device leaving does to the requests: nothing but that it is noted.
LEMMA LeftRequests ==
  ASSUME Typed, NEW D, requests' = Leaves(D)
  PROVE  /\ requests' \in Seq(Request) /\ Len(requests') = Len(requests)
         /\ DOMAIN requests' = DOMAIN requests
         /\ \A r \in DOMAIN requests :
              requests'[r].act = requests[r].act /\ requests'[r].call = requests[r].call
<1>1. requests \in Seq(Request) /\ DOMAIN requests = 1 .. Len(requests) /\ Len(requests) \in Nat
  BY DEF Typed
<1>2. ASSUME NEW r \in DOMAIN requests
      PROVE  /\ requests'[r] \in Request
             /\ requests'[r].act = requests[r].act /\ requests'[r].call = requests[r].call
  <2>1. requests[r] \in Request
    BY RequestTypes
  <2>2. PICK stayed \in BOOLEAN :
          stayed = (requests[r].stayed /\ ~(Calling(r) /\ requests[r].device \in D))
    OBVIOUS
  <2>3. requests'[r] = [requests[r] EXCEPT !.stayed = stayed]
    BY <2>1, <2>2 DEF Leaves
  <2> QED BY <2>1, <2>3 DEF Request
<1>3. DOMAIN requests' = DOMAIN requests
  BY DEF Leaves
<1>4. requests' = [r \in 1 .. Len(requests) |-> requests'[r]]
  BY <1>1 DEF Leaves
<1>5. requests' \in Seq(Request) /\ Len(requests') = Len(requests)
  BY <1>1, <1>2, <1>3, <1>4
<1> QED BY <1>2, <1>3, <1>5

\* A device is unplugged.
LEMMA DeviceRemovedKeeps ==
  ASSUME IInv, NEW d \in Devices, DeviceRemoved(d)
  PROVE  IInv'
<1>1. /\ d \in cache /\ cache' = cache \ {d} /\ current' = [current EXCEPT ![d] = 0]
      /\ service' = RemoveDevice(service, d) /\ requests' = Leaves({d})
      /\ outlived' = outlived \cap service'.connections
      /\ UNCHANGED <<nm, news, outdated, acts>>
  BY DEF DeviceRemoved
<1>2. DOMAIN service.devices = cache /\ IsService(service) /\ Matched(service)
  BY DEF IInv, Typed, Listing, Tracks
<1>3. /\ IsService(service') /\ Failed(service, service')
      /\ service'.client = service.client /\ service'.subscribed = service.subscribed
      /\ service'.connections = service.connections \ {service.devices[d]}
      /\ DOMAIN service'.devices = cache \ {d}
      /\ \A e \in DOMAIN service'.devices : service'.devices[e] = service.devices[e]
      /\ Matched(service) => Matched(service')
  <2>1. d \in DOMAIN service.devices
    BY <1>1, <1>2
  <2>2. IsService(service') /\ Failed(service, service')
    BY <1>1, <1>2, <2>1, RemoveOutcome
  <2>3. /\ service'.client = service.client /\ service'.subscribed = service.subscribed
        /\ service'.connections = service.connections \ {service.devices[d]}
        /\ DOMAIN service'.devices = DOMAIN service.devices \ {d}
        /\ \A e \in DOMAIN service'.devices : service'.devices[e] = service.devices[e]
        /\ Matched(service) => Matched(service')
    BY <1>1, <1>2, <2>1, <2>2, RemoveOutcome
  <2> QED BY <1>2, <2>2, <2>3
<1>4. /\ requests' \in Seq(Request) /\ Len(requests') = Len(requests)
      /\ DOMAIN requests' = DOMAIN requests
      /\ \A r \in DOMAIN requests :
           requests'[r].act = requests[r].act /\ requests'[r].call = requests[r].call
  BY <1>1, LeftRequests DEF IInv
<1>5. Owned' /\ ActsKept /\ RequestsKept
  <2>1. ActsKept
    BY <1>1 DEF ActsKept
  <2>2. RequestsKept
    BY <1>4 DEF RequestsKept
  <2>3. \A q, r \in DOMAIN requests' :
          requests'[q].act # 0 /\ requests'[q].act = requests'[r].act => q = r
    BY <1>4 DEF IInv, Answering, Owned
  <2> QED BY <1>1, <1>4, <2>1, <2>2, <2>3 DEF IInv, Answering, Owned
<1>6. Answering'
  BY <1>3, <1>5, AnsweringFailed DEF IInv
<1>7. Listing'
  <2>1. \A e \in cache \ {d} : service'.devices[e] = service.devices[e]
    BY <1>3
  <2>2. /\ cache' = DOMAIN service'.devices /\ cache \ {d} \subseteq cache'
        /\ cache' \subseteq cache /\ d \notin cache'
    BY <1>1, <1>3
  <2> QED BY <1>1, <1>2, <1>3, <1>5, <2>1, <2>2, ConnectionEnds
<1>8. Typed'
  BY <1>1, <1>3, <1>4 DEF IInv, Typed
<1> QED BY <1>6, <1>7, <1>8 DEF IInv

\* A device is plugged in.
LEMMA DeviceAddedKeeps ==
  ASSUME IInv, NEW d \in Devices, DeviceAdded(d)
  PROVE  IInv'
<1>1. /\ d \notin cache /\ cache' = cache \cup {d} /\ outdated' = FALSE
      /\ service' = AddDevice(service, d) /\ service.client
      /\ UNCHANGED <<nm, news, acts, current, requests, outlived>>
  BY DEF DeviceAdded
<1>2. /\ DOMAIN service.devices = cache /\ IsService(service) /\ Matched(service)
      /\ cache \subseteq Devices
  BY DEF IInv, Typed, Listing, Tracks
<1>3. /\ IsService(service') /\ SameAnswers(service, service')
      /\ service'.client = service.client /\ service'.connections = service.connections
      /\ service'.subscribed = service.subscribed
      /\ DOMAIN service'.devices = cache \cup {d}
      /\ \A e \in DOMAIN service.devices : service'.devices[e] = service.devices[e]
      /\ d \notin DOMAIN service.devices => service'.devices[d] = NoProfile
      /\ Matched(service) => Matched(service')
  <2>1. IsService(service') /\ SameAnswers(service, service')
    BY <1>1, <1>2, AddOutcome
  <2>2. /\ service'.client = service.client /\ service'.connections = service.connections
        /\ service'.subscribed = service.subscribed
    BY <1>1, <1>2, <2>1, AddOutcome
  <2>3. /\ DOMAIN service'.devices = DOMAIN service.devices \cup {d}
        /\ \A e \in DOMAIN service.devices : service'.devices[e] = service.devices[e]
    BY <1>1, <1>2, <2>1, AddOutcome
  <2>4. d \notin DOMAIN service.devices => service'.devices[d] = NoProfile
    BY <1>1, <1>2, <2>1, AddOutcome
  <2>5. Matched(service) => Matched(service')
    BY <1>1, <1>2, <2>1, AddOutcome
  <2> QED BY <1>2, <2>1, <2>2, <2>3, <2>4, <2>5
<1>4. Owned' /\ ActsKept /\ RequestsKept
  BY <1>1, OwnedStays DEF IInv, Answering
<1>5. Answering'
  BY <1>3, <1>4, AnsweringStays DEF IInv
<1>6. Tracks'
  <2>1. \A e \in cache' : service'.devices[e] # NoProfile =>
          current'[e] # 0 /\ acts'[current'[e]].profile = service'.devices[e]
    BY <1>1, <1>2, <1>3 DEF IInv, Listing, Tracks
  <2>2. \A e \in Devices : current'[e] # 0 =>
          e \in cache' /\ acts'[current'[e]].state # "unused"
    BY <1>1 DEF IInv, Listing, Tracks
  <2>3. \A e, f \in Devices : e # f /\ current'[e] # 0 /\ current'[f] # 0 =>
          acts'[current'[e]].profile # acts'[current'[f]].profile
    BY <1>1 DEF IInv, Listing, Tracks
  <2> QED BY <1>1, <1>3, <2>1, <2>2, <2>3 DEF Tracks
<1>7. ConnectionsMirrored'
  <2>1. /\ service.connections \subseteq
             {service.devices[e] : e \in cache} \cup outlived
        /\ \A e \in cache :
             /\ service.devices[e] \in service.connections \cup {NoProfile}
             /\ service.devices[e] \notin outlived \cup {NoProfile} =>
                  current[e] \in service.subscribed
    BY <1>2 DEF IInv, Listing, ConnectionsMirrored
  <2>2. service'.connections \subseteq
          {service'.devices[e] : e \in DOMAIN service'.devices} \cup outlived'
    BY <1>1, <1>2, <1>3, <2>1
  <2> QED BY <1>1, <1>2, <1>3, <2>1, <2>2 DEF ConnectionsMirrored
<1>8. Typed'
  BY <1>1, <1>2, <1>3 DEF IInv, Typed
<1> QED BY <1>2, <1>3, <1>5, <1>6, <1>7, <1>8 DEF IInv, Listing

\* Activations that ended with libnm's client.
LEMMA DroppedActs ==
  ASSUME IInv, acts' = Dropped
  PROVE  /\ acts' \in [Activations -> Activation] /\ ActsKept
         /\ \A a \in Activations : acts'[a].state # "activated" \/ acts'[a].succeeded
<1>1. acts \in [Activations -> Activation]
  BY DEF IInv, Typed
<1>2. ASSUME NEW a \in Activations
      PROVE  /\ acts'[a] \in Activation /\ acts'[a].profile = acts[a].profile
             /\ acts'[a].succeeded = acts[a].succeeded
             /\ acts'[a].state = IF acts[a].state = "unused" THEN "unused" ELSE "deactivated"
  <2>1. acts[a] \in Activation
    BY <1>1
  <2>2. CASE acts[a].state = "unused"
    BY <2>1, <2>2 DEF Dropped
  <2>3. CASE acts[a].state # "unused"
    <3>1. acts'[a] = [acts[a] EXCEPT !.state = "deactivated"]
      BY <2>3 DEF Dropped
    <3> QED BY <2>1, <2>3, <3>1 DEF Activation
  <2> QED BY <2>2, <2>3
<1>3. acts' \in [Activations -> Activation]
  BY <1>2 DEF Dropped
<1> QED BY <1>2, <1>3 DEF ActsKept

\* The service sees NetworkManager go and frees libnm's client.
LEMMA GoneKeeps ==
  ASSUME IInv, NetworkManagerGone
  PROVE  IInv'
<1>1. news' \in Seq({"gone", "appeared"}) /\ nm' = nm
  BY DEF NetworkManagerGone, IInv, Typed
<1>2. IsService(service)
  BY DEF IInv, Typed
<1>3. CASE service.client
  <2>1. /\ service' = Disappeared(service) /\ requests' = Leaves(Devices)
        /\ cache' = {} /\ outdated' = FALSE /\ acts' = Dropped /\ outlived' = {}
        /\ current' = [d \in Devices |-> 0]
    BY <1>3 DEF NetworkManagerGone
  <2>2. IsService(service') /\ Failed(service, service')
    BY <1>2, <1>3, <2>1, DisappearedOutcome
  <2>3. /\ service'.client = FALSE /\ service'.connections = {}
        /\ service'.subscribed = {} /\ DOMAIN service'.devices = {}
    BY <1>2, <1>3, <2>1, <2>2, DisappearedOutcome
  <2>4. Matched(service')
    BY <1>2, <1>3, <2>1, <2>2, DisappearedOutcome DEF IInv, Listing
  <2>5. /\ requests' \in Seq(Request) /\ Len(requests') = Len(requests)
        /\ DOMAIN requests' = DOMAIN requests
        /\ \A r \in DOMAIN requests :
             requests'[r].act = requests[r].act /\ requests'[r].call = requests[r].call
    BY <2>1, LeftRequests DEF IInv
  <2>6. /\ acts' \in [Activations -> Activation] /\ ActsKept
        /\ \A a \in Activations : acts'[a].state # "activated" \/ acts'[a].succeeded
    BY <2>1, DroppedActs
  <2>7. RequestsKept
    BY <2>5 DEF RequestsKept
  <2>8. Owned'
    <3>1. \A r \in DOMAIN requests' :
            requests'[r].act # 0 => acts'[requests'[r].act].state # "unused"
      <4> SUFFICES ASSUME NEW r \in DOMAIN requests, requests[r].act # 0
                   PROVE  acts'[requests[r].act].state # "unused"
        BY <2>5
      <4>1. requests[r].act \in Activations /\ acts[requests[r].act].state # "unused"
        BY RequestTypes DEF IInv, Answering, Owned
      <4> QED BY <2>6, <4>1 DEF ActsKept
    <3>2. \A q, r \in DOMAIN requests' :
            requests'[q].act # 0 /\ requests'[q].act = requests'[r].act => q = r
      BY <2>5 DEF IInv, Answering, Owned
    <3> QED BY <2>6, <3>1, <3>2 DEF Owned
  <2>9. Answering'
    BY <2>2, <2>6, <2>7, <2>8, AnsweringFailed DEF IInv
  <2>10. Tracks' /\ ConnectionsMirrored'
    BY <2>1, <2>3 DEF Tracks, ConnectionsMirrored
  <2>11. Typed'
    BY <1>1, <2>1, <2>2, <2>5, <2>6 DEF IInv, Typed
  <2> QED BY <2>4, <2>9, <2>10, <2>11 DEF IInv, Listing
<1>4. CASE ~service.client
  <2>1. UNCHANGED <<cache, outdated, acts, current, requests, outlived, service>>
    BY <1>4 DEF NetworkManagerGone, Disappeared, libnm
  <2>2. Answering'
    BY <2>1, OwnedStays, AnsweringStays DEF IInv, Answering, SameAnswers
  <2>3. Listing'
    BY <2>1, OwnedStays, ListingStays DEF IInv, Answering, SameTables
  <2>4. Typed'
    BY <1>1, <2>1 DEF IInv, Typed
  <2> QED BY <2>2, <2>3, <2>4 DEF IInv
<1> QED BY <1>3, <1>4

\* The service sees NetworkManager come back, with a connection perhaps that
\* nobody will tell it of.
LEMMA AppearedKeeps ==
  ASSUME IInv, NetworkManagerAppeared
  PROVE  IInv'
<1>1. news' \in Seq({"gone", "appeared"}) /\ UNCHANGED <<nm, requests, outlived>>
  BY DEF NetworkManagerAppeared, IInv, Typed
<1>2. IsService(service) /\ Matched(service) /\ DOMAIN service.devices = cache
  BY DEF IInv, Typed, Listing, Tracks
<1>3. CASE service.client
  <2>1. UNCHANGED <<cache, outdated, acts, current, requests, outlived, service>>
    BY <1>1, <1>3 DEF NetworkManagerAppeared, libnm
  <2>2. Answering'
    BY <2>1, OwnedStays, AnsweringStays DEF IInv, Answering, SameAnswers
  <2>3. Listing'
    BY <2>1, OwnedStays, ListingStays DEF IInv, Answering, SameTables
  <2>4. Typed'
    BY <1>1, <2>1 DEF IInv, Typed
  <2> QED BY <2>2, <2>3, <2>4 DEF IInv
<1>4. CASE ~service.client
  <2>1. PICK ok \in BOOLEAN :
          /\ nm.up => ok
          /\ cache' = IF nm.up THEN nm.devices ELSE {}
          /\ service' = IF ok THEN Discover(service, cache') ELSE service
          /\ outdated' = FALSE
          /\ \/ UNCHANGED <<acts, current>>
             \/ \E a \in Fresh, p \in Profiles, d \in cache' :
                  /\ \A b \in Fresh : a <= b
                  /\ current' = [current EXCEPT ![d] = a]
                  /\ acts' = [acts EXCEPT ![a] = [profile |-> p, device |-> d,
                               state |-> "activated", succeeded |-> TRUE]]
    BY <1>4 DEF NetworkManagerAppeared
  <2>2. /\ cache = {} /\ cache' \in SUBSET Devices
        /\ \A d \in Devices : current[d] = 0
    BY <1>4, <2>1 DEF IInv, Typed, Listing, Tracks
  <2>3. ConnectionsMirrored /\ DOMAIN service.devices = {}
    BY <1>2, <2>2 DEF IInv, Listing
  <2>4. service.connections \subseteq outlived
    BY <2>3 DEF ConnectionsMirrored
  <2>5. /\ IsService(service') /\ SameAnswers(service, service') /\ Matched(service')
        /\ service'.connections = service.connections
        /\ DOMAIN service'.devices = cache'
        /\ \A d \in cache' : service'.devices[d] = NoProfile
        /\ service'.client \/ cache' = {}
    <3>1. CASE ok
      <4>1. service' = Discover(service, cache')
        BY <2>1, <3>1
      <4>2. IsService(service') /\ Discovered(service, cache', service')
        BY <1>2, <2>2, <4>1, DiscoverOutcome
      <4> QED BY <1>2, <2>3, <4>2 DEF Discovered
    <3>2. CASE ~ok
      <4>1. service' = service /\ cache' = {}
        BY <2>1, <3>2
      <4> QED BY <1>2, <2>3, <4>1 DEF SameAnswers
    <3> QED BY <3>1, <3>2
  <2>6. ConnectionsMirrored'
    BY <1>1, <2>4, <2>5 DEF ConnectionsMirrored
  <2>7. /\ acts' \in [Activations -> Activation]
        /\ current' \in [Devices -> Activations \cup {0}]
        /\ ActsKept
        /\ \A a \in Activations : acts'[a].state = "activated" => acts'[a].succeeded
        /\ \A d \in Devices : current'[d] # 0 =>
             d \in cache' /\ acts'[current'[d]].state # "unused"
        /\ \A d, e \in Devices : d # e => current'[d] = 0 \/ current'[e] = 0
    <3>0. /\ acts \in [Activations -> Activation] /\ current \in [Devices -> Activations \cup {0}]
          /\ \A a \in Activations : acts[a].state = "activated" => acts[a].succeeded
      BY DEF IInv, Typed, Answering, Owned
    <3>1. CASE UNCHANGED <<acts, current>>
      BY <2>2, <3>0, <3>1 DEF ActsKept
    <3>2. ASSUME NEW a \in Fresh, NEW p \in Profiles, NEW d \in cache',
                 current' = [current EXCEPT ![d] = a],
                 acts' = [acts EXCEPT ![a] = [profile |-> p, device |-> d,
                               state |-> "activated", succeeded |-> TRUE]]
          PROVE  /\ acts' \in [Activations -> Activation]
                 /\ current' \in [Devices -> Activations \cup {0}]
                 /\ ActsKept
                 /\ \A b \in Activations : acts'[b].state = "activated" => acts'[b].succeeded
                 /\ \A e \in Devices : current'[e] # 0 =>
                      e \in cache' /\ acts'[current'[e]].state # "unused"
                 /\ \A e, f \in Devices : e # f => current'[e] = 0 \/ current'[f] = 0
      <4>1. a \in Activations /\ acts[a].state = "unused" /\ d \in Devices
        BY <2>2 DEF Fresh
      <4> DEFINE new == [profile |-> p, device |-> d, state |-> "activated", succeeded |-> TRUE]
      <4>2. new \in Activation /\ new.state = "activated" /\ new.succeeded
        BY <4>1 DEF Activation
      <4>3. acts' = [acts EXCEPT ![a] = new]
        BY <3>2
      <4> HIDE DEF new
      <4>4. /\ acts' \in [Activations -> Activation] /\ acts'[a] = new
            /\ \A b \in Activations \ {a} : acts'[b] = acts[b]
        BY <3>0, <4>1, <4>2, <4>3
      <4>5. /\ current' \in [Devices -> Activations \cup {0}] /\ current'[d] = a
            /\ \A e \in Devices \ {d} : current'[e] = 0
        BY <2>2, <3>0, <3>2, <4>1
      <4>6. ActsKept
        BY <4>1, <4>4 DEF ActsKept
      <4> QED BY <3>0, <4>1, <4>2, <4>4, <4>5, <4>6
    <3> QED BY <2>1, <3>1, <3>2
  <2>8. RequestsKept
    BY <1>1 DEF RequestsKept
  <2>9. Owned'
    <3>1. \A r \in DOMAIN requests : requests[r].act # 0 => acts'[requests[r].act].state # "unused"
      <4> SUFFICES ASSUME NEW r \in DOMAIN requests, requests[r].act # 0
                   PROVE  acts'[requests[r].act].state # "unused"
        OBVIOUS
      <4>1. requests[r].act \in Activations /\ acts[requests[r].act].state # "unused"
        BY RequestTypes DEF IInv, Answering, Owned
      <4> QED BY <2>7, <4>1 DEF ActsKept
    <3> QED BY <1>1, <2>7, <3>1 DEF IInv, Answering, Owned
  <2>10. Answering'
    BY <2>5, <2>7, <2>8, <2>9, AnsweringStays DEF IInv
  <2>11. Tracks'
    BY <2>5, <2>7 DEF Tracks
  <2>12. Typed'
    BY <1>1, <2>1, <2>2, <2>5, <2>7 DEF IInv, Typed
  <2> QED BY <2>5, <2>6, <2>10, <2>11, <2>12 DEF IInv, Listing
<1> QED BY <1>3, <1>4

-----------------------------------------------------------------------------
(* The theorems *)

\* The start satisfies the invariant, whether NetworkManager runs or not.
LEMMA InitInv == Init => IInv
<1> SUFFICES ASSUME Init PROVE IInv
  OBVIOUS
<1>1. PICK up \in BOOLEAN, ok \in BOOLEAN, hardware \in SUBSET Devices :
        /\ nm = [up |-> up, devices |-> hardware, events |-> 0]
        /\ cache = IF up THEN hardware ELSE {}
        /\ service = IF up \/ ok THEN Discover(NoService, cache) ELSE NoService
  BY DEF Init
<1>2. /\ news = << >> /\ outdated = FALSE /\ acts = [a \in Activations |-> Unused]
      /\ current = [d \in Devices |-> 0] /\ requests = << >> /\ outlived = {}
  BY DEF Init
<1>3. cache \in SUBSET Devices
  BY <1>1
<1>4. /\ IsService(service) /\ Matched(service) /\ service.connections = {}
      /\ DOMAIN service.devices = cache /\ DOMAIN service.pending = {}
      /\ \A d \in cache : service.devices[d] = NoProfile
      /\ service.client \/ cache = {}
      /\ \A r \in 1 .. MaxRequests : service.answers[r] = << >>
  <2>1. CASE up \/ ok
    <3>1. service = Discover(NoService, cache)
      BY <1>1, <2>1
    <3>2. IsService(service) /\ Discovered(NoService, cache, service)
      BY <1>3, <3>1, NoServiceFields, DiscoverOutcome
    <3> QED BY <3>2, NoServiceFields DEF Discovered, SameAnswers
  <2>2. CASE ~(up \/ ok)
    BY <1>1, <2>2, NoServiceFields
  <2> QED BY <2>1, <2>2
<1>5. Unused \in Activation /\ Unused.state = "unused"
  <2>1. (CHOOSE d \in Devices : TRUE) \in Devices
    BY NetworkAssumption
  <2> QED BY <2>1 DEF Unused, Activation
<1>6. Typed
  <2>1. nm \in [up : BOOLEAN, devices : SUBSET Devices, events : 0 .. MaxEvents]
    BY <1>1, NetworkAssumption
  <2>2. requests \in Seq(Request) /\ Len(requests) <= MaxRequests
    BY <1>2, NetworkAssumption
  <2>3. acts \in [Activations -> Activation] /\ current \in [Devices -> Activations \cup {0}]
    BY <1>2, <1>5
  <2>4. << >> \in Seq({"gone", "appeared"}) /\ FALSE \in BOOLEAN /\ {} \subseteq Profiles
    OBVIOUS
  <2>5. news = << >> /\ outdated = FALSE /\ outlived = {}
    BY <1>2
  <2>6. news \in Seq({"gone", "appeared"}) /\ outdated \in BOOLEAN /\ outlived \subseteq Profiles
    BY <2>4, <2>5
  <2> QED BY <1>3, <1>4, <2>1, <2>2, <2>3, <2>6 DEF Typed
<1>7. Answering
  <2>1. DOMAIN requests = {} /\ \A a \in Activations : acts[a].state = "unused"
    BY <1>2, <1>5
  <2>2. Owned
    BY <2>1 DEF Owned
  <2>3. AnswersOk(service, requests, acts)
    BY <1>4, FirstAnswer DEF AnswersOk
  <2> QED BY <2>2, <2>3 DEF Answering
<1>8. Listing
  BY <1>2, <1>4 DEF Listing, Tracks, ConnectionsMirrored
<1> QED BY <1>6, <1>7, <1>8 DEF IInv

\* The invariant holds in every reachable state.
LEMMA Invariance == Spec => []IInv
<1>1. IInv /\ [Next]_vars => IInv'
  <2> SUFFICES ASSUME IInv, [Next]_vars PROVE IInv'
    OBVIOUS
  <2>1. CASE \E d \in Devices : WifiConnect(d) \/ DeviceRemoved(d) \/ DeviceAdded(d) \/ Plugs(d)
    BY <2>1, WifiConnectKeeps, DeviceRemovedKeeps, DeviceAddedKeeps, OutsideKeeps
  <2>2. CASE \E r \in 1 .. MaxRequests : CallFails(r) \/ CallReturns(r)
    BY <2>2, CallFailsKeeps, CallReturnsKeeps
  <2>3. CASE \E a \in Activations, p \in Profiles :
               \/ \E d \in Devices : Autoconnects(a, p, d)
               \/ \E r \in 1 .. MaxRequests : Accepts(r, a, p)
    BY <2>3, AutoconnectsKeeps, AcceptsKeeps
  <2>4. CASE \E a \in Activations : Activated(a) \/ Deactivated(a)
    BY <2>4, ActivatedKeeps, DeactivatedKeeps
  <2>5. CASE NetworkManagerGone \/ NetworkManagerAppeared \/ Stops \/ Restarts
    BY <2>5, GoneKeeps, AppearedKeeps, OutsideKeeps
  <2>6. CASE UNCHANGED vars
    <3>1. UNCHANGED <<nm, news, cache, outdated, acts, current, requests, outlived, service>>
      BY <2>6 DEF vars, libnm
    <3>2. Answering'
      BY <3>1, OwnedStays, AnsweringStays DEF IInv, Answering, SameAnswers
    <3>3. Listing'
      BY <3>1, OwnedStays, ListingStays DEF IInv, Answering, SameTables
    <3>4. Typed'
      BY <3>1 DEF IInv, Typed
    <3> QED BY <3>2, <3>3, <3>4 DEF IInv
  <2> QED BY <2>1, <2>2, <2>3, <2>4, <2>5, <2>6 DEF Next
<1> QED BY InitInv, <1>1, PTL DEF Spec

\* Every variable keeps its type, and what is pending is a request whose call
\* returned.
THEOREM TypeCorrect == Spec => []TypeOK
<1>1. IInv => TypeOK
  <2> SUFFICES ASSUME IInv PROVE TypeOK
    OBVIOUS
  <2>1. IsService(service) /\ AnswersOk(service, requests, acts)
    BY DEF IInv, Typed, Answering
  <2>2. \A a \in DOMAIN service.pending :
          /\ service.pending[a] \in DOMAIN requests
          /\ requests[service.pending[a]].call = "returned"
    BY <2>1 DEF AnswersOk
  <2>3. /\ service.client \in BOOLEAN
        /\ service.devices \in [DOMAIN service.devices -> Profiles \cup {NoProfile}]
        /\ DOMAIN service.devices \subseteq Devices
        /\ service.connections \subseteq Profiles
        /\ service.subscribed \subseteq Activations
        /\ DOMAIN service.pending \subseteq Activations
    BY <2>1, ServiceFields DEF IsService
  <2> QED BY <2>2, <2>3 DEF IInv, Typed, TypeOK
<1> QED BY <1>1, Invariance, PTL

\* A request to connect is answered once at most, and with success only if its
\* own activation succeeded, in whatever order calls return, states change,
\* devices come and go and NetworkManager restarts.
THEOREM AnsweredOnce == Spec => []OneTruthfulAnswer
<1>1. IInv => OneTruthfulAnswer
  <2> SUFFICES ASSUME IInv, NEW r \in 1 .. MaxRequests
               PROVE  /\ Len(service.answers[r]) <= 1
                      /\ service.answers[r] = <<TRUE>> =>
                           requests[r].act # 0 /\ acts[requests[r].act].succeeded
    BY DEF OneTruthfulAnswer
  <2>1. /\ service.answers[r] \in {<< >>, <<TRUE>>, <<FALSE>>}
        /\ service.answers[r] = <<TRUE>> =>
             requests[r].act # 0 /\ acts[requests[r].act].succeeded
    BY DEF IInv, Answering, AnswersOk
  <2>2. Len(service.answers[r]) \in {0, 1}
    BY <2>1, FirstAnswer
  <2>3. Len(service.answers[r]) <= 1
    <3> DEFINE n == Len(service.answers[r])
    <3>1. n \in {0, 1}
      BY <2>2
    <3> HIDE DEF n
    <3>2. n <= 1
      BY <3>1
    <3> QED BY <3>2 DEF n
  <2> QED BY <2>1, <2>3
<1> QED BY <1>1, Invariance, PTL

\* The DeviceAdded and DeviceRemoved signals add up to the devices listed.
THEOREM SignalsAddUp == Spec => []SignalsMatchDevices
<1>1. IInv => SignalsMatchDevices
  BY DEF IInv, Listing, Matched, SignalsMatchDevices
<1> QED BY <1>1, Invariance, PTL

\* Every connection object is that of a device or of one whose connection was
\* replaced directly, and every device's connection has its object.
THEOREM ConnectionsFollow == Spec => []ConnectionsMirrored
<1>1. IInv => ConnectionsMirrored
  BY DEF IInv, Listing
<1> QED BY <1>1, Invariance, PTL
=============================================================================
