------------------------ MODULE SessionManagerProofs ------------------------
(***************************************************************************)
(* Proofs about SessionManager for every set of ids and accounts and every *)
(* choice of the environment's constants.  WorldInv is the inductive       *)
(* invariant of the tables; because the handlers are operators on the      *)
(* world, it is preserved operator by operator, in the order in which they *)
(* call each other.  Upon it rest AllAccounted, the account of the start   *)
(* jobs, from which NoSpuriousStop follows too, and under an assumption on *)
(* the environment each, Shown (the seat) and Served (the login screen).   *)
(***************************************************************************)
EXTENDS SessionManager, TLAPS

WorldInv(w) == WorldOK(w) /\ GreeterExclusive(w) /\ ResourcesOf(w)

\* CreateSession is only reached with a greeter that is really there: the
\* caller's session exists, or the flag is down.
GreeterNotStale(w) == w.greeterActive => w.greeterId \in DOMAIN w.sessions

\* A closed world, field by field.
LEMMA CloseFields ==
  ASSUME NEW Sess, NEW w \in Worlds(Sess), NEW s \in Ids,
         NEW c, c = CloseSession(w, s)
  PROVE  c = [sessions |-> Erase(w.sessions, s), greeterId |-> w.greeterId,
              greeterActive |-> w.greeterActive,
              seat |-> IF w.seat = s THEN NoId ELSE w.seat, retired |-> s,
              leaders |-> w.leaders \ {s}, timers |-> c.timers,
              unit |-> [w.unit EXCEPT ![s] = "none"],
              jobs |-> [w.jobs EXCEPT ![s] = {}],
              inbox |-> [w.inbox EXCEPT ![s] = <<>>]]
  BY DEF Worlds, CloseSession

\* Closing a registered session keeps the invariant and only touches its own
\* entries; the greeter's bookkeeping is left as it is.
LEMMA CloseKeeps ==
  ASSUME NEW w, WorldOK(w), ResourcesOf(w), NEW s \in DOMAIN w.sessions
  PROVE  /\ WorldOK(CloseSession(w, s))
         /\ ResourcesOf(CloseSession(w, s))
         /\ DOMAIN CloseSession(w, s).sessions = DOMAIN w.sessions \ {s}
         /\ \A x \in DOMAIN w.sessions \ {s} :
              CloseSession(w, s).sessions[x] = w.sessions[x]
         /\ CloseSession(w, s).greeterId = w.greeterId
         /\ CloseSession(w, s).greeterActive = w.greeterActive
         /\ CloseSession(w, s).retired = s
<1> DEFINE c == CloseSession(w, s)
<1>1. /\ w \in Worlds([DOMAIN w.sessions -> SessionInfo])
      /\ s \in Ids
  BY DEF WorldOK
<1>2. c.sessions = Erase(w.sessions, s)
  BY <1>1 DEF CloseSession, Worlds
<1>3. /\ c.greeterId = w.greeterId
      /\ c.greeterActive = w.greeterActive
      /\ c.retired = s
      /\ c.leaders = w.leaders \ {s}
      /\ c.timers = IF w.sessions[s].installerSource THEN w.timers \ {s} ELSE w.timers
      /\ c.seat = IF w.seat = s THEN NoId ELSE w.seat
  BY <1>1 DEF CloseSession, Worlds
<1>4. /\ c.unit = [w.unit EXCEPT ![s] = "none"]
      /\ c.jobs = [w.jobs EXCEPT ![s] = {}]
      /\ c.inbox = [w.inbox EXCEPT ![s] = <<>>]
  BY <1>1 DEF CloseSession, Worlds
<1>5. /\ DOMAIN c.sessions = DOMAIN w.sessions \ {s}
      /\ \A x \in DOMAIN w.sessions \ {s} : c.sessions[x] = w.sessions[x]
      /\ c.sessions \in [DOMAIN c.sessions -> SessionInfo]
  BY <1>1, <1>2 DEF Erase, Worlds
<1>6. c = [sessions |-> c.sessions, greeterId |-> c.greeterId,
           greeterActive |-> c.greeterActive, seat |-> c.seat,
           retired |-> c.retired, leaders |-> c.leaders, timers |-> c.timers,
           unit |-> c.unit, jobs |-> c.jobs, inbox |-> c.inbox]
  <2> HIDE DEF c
  <2> QED BY <1>1, CloseFields DEF c
<1> HIDE DEF c
<1>7. WorldOK(c)
  <2>1. /\ c.unit \in [Ids -> UnitStates]
        /\ c.jobs \in [Ids -> SUBSET Jobs]
        /\ c.inbox \in [Ids -> Seq(Signals)]
    BY <1>1, <1>4 DEF Worlds, UnitStates
  <2>2. /\ c.greeterId \in Ids \cup {NoId}
        /\ c.greeterActive \in BOOLEAN
        /\ c.seat \in Ids \cup {NoId}
        /\ c.retired \in Ids \cup {NoId}
        /\ c.leaders \in SUBSET Ids
        /\ c.timers \in SUBSET Ids
    BY <1>1, <1>3 DEF Worlds
  <2> QED BY <1>5, <1>6, <2>1, <2>2, WorldOK(w) DEF WorldOK, Worlds
<1>8. ResourcesOf(c)
  <2>1. c.leaders = DOMAIN c.sessions
    BY <1>3, <1>5 DEF ResourcesOf
  <2>2. c.timers = {x \in DOMAIN c.sessions : c.sessions[x].installerSource}
    BY <1>3, <1>5 DEF ResourcesOf
  <2>3. c.seat \in DOMAIN c.sessions \cup {NoId}
    BY <1>3, <1>5 DEF ResourcesOf
  <2>4. ASSUME NEW x \in Ids \ DOMAIN c.sessions
        PROVE  c.unit[x] = "none" /\ c.jobs[x] = {} /\ c.inbox[x] = <<>>
    BY <1>1, <1>4, <1>5 DEF ResourcesOf, Worlds
  <2> QED BY <2>1, <2>2, <2>3, <2>4 DEF ResourcesOf
<1> QED BY <1>3, <1>5, <1>7, <1>8 DEF c

\* An opened world, field by field.
LEMMA OpenFields ==
  ASSUME NEW Sess, NEW w \in Worlds(Sess), NEW n \in Ids, NEW u,
         NEW c, c = OpenSession(w, n, u)
  PROVE  c = [sessions |-> Register(w.sessions, n, NewSession(u)),
              greeterId |-> w.greeterId, greeterActive |-> w.greeterActive,
              seat |-> n, retired |-> w.retired,
              leaders |-> w.leaders \cup {n}, timers |-> w.timers,
              unit |-> [w.unit EXCEPT ![n] = "pending"],
              jobs |-> [w.jobs EXCEPT ![n] = Jobs],
              inbox |-> [w.inbox EXCEPT ![n] = <<PropertiesChanged>>]]
  BY DEF Worlds, OpenSession

\* A fresh record is a SessionInfo of its user, with no installer source.
LEMMA NewSessionType ==
  ASSUME NEW u \in Accounts
  PROVE  /\ NewSession(u) \in SessionInfo
         /\ NewSession(u).user = u
         /\ NewSession(u).installerSource = FALSE
  BY DEF NewSession, SessionInfo, Jobs

\* Opening a session under a fresh id keeps the invariant's type and resource
\* parts, adds exactly that id, and leaves the greeter's bookkeeping alone.
LEMMA OpenKeeps ==
  ASSUME NEW w, WorldOK(w), ResourcesOf(w), NEW n \in Free(w), NEW u \in Accounts
  PROVE  /\ WorldOK(OpenSession(w, n, u))
         /\ ResourcesOf(OpenSession(w, n, u))
         /\ DOMAIN OpenSession(w, n, u).sessions = DOMAIN w.sessions \cup {n}
         /\ \A x \in DOMAIN w.sessions :
              OpenSession(w, n, u).sessions[x] = w.sessions[x]
         /\ OpenSession(w, n, u).sessions[n].user = u
         /\ OpenSession(w, n, u).greeterId = w.greeterId
         /\ OpenSession(w, n, u).greeterActive = w.greeterActive
<1> DEFINE c == OpenSession(w, n, u)
<1>1. /\ w \in Worlds([DOMAIN w.sessions -> SessionInfo])
      /\ n \in Ids
      /\ n \notin DOMAIN w.sessions
  BY DEF WorldOK, Free
<1>2. c = [sessions |-> Register(w.sessions, n, NewSession(u)),
           greeterId |-> w.greeterId, greeterActive |-> w.greeterActive,
           seat |-> n, retired |-> w.retired,
           leaders |-> w.leaders \cup {n}, timers |-> w.timers,
           unit |-> [w.unit EXCEPT ![n] = "pending"],
           jobs |-> [w.jobs EXCEPT ![n] = Jobs],
           inbox |-> [w.inbox EXCEPT ![n] = <<PropertiesChanged>>]]
  <2> HIDE DEF c
  <2> QED BY <1>1, OpenFields DEF c
<1> HIDE DEF c
<1>3. /\ DOMAIN c.sessions = DOMAIN w.sessions \cup {n}
      /\ \A x \in DOMAIN w.sessions : c.sessions[x] = w.sessions[x]
      /\ c.sessions[n] = NewSession(u)
  BY <1>1, <1>2 DEF Register
<1>4. c.sessions \in [DOMAIN c.sessions -> SessionInfo]
  <2>1. w.sessions \in [DOMAIN w.sessions -> SessionInfo]
    BY <1>1 DEF Worlds
  <2>2. Register(w.sessions, n, NewSession(u))
           \in [DOMAIN w.sessions \cup {n} -> SessionInfo]
    BY <2>1, NewSessionType DEF Register
  <2> QED BY <1>2, <1>3, <2>2
<1>5. WorldOK(c)
  <2>1. /\ c.unit \in [Ids -> UnitStates]
        /\ c.jobs \in [Ids -> SUBSET Jobs]
        /\ c.inbox \in [Ids -> Seq(Signals)]
    <3>1. PropertiesChanged \in Signals
      BY DEF PropertiesChanged, Signals, Jobs
    <3> QED BY <1>1, <1>2, <3>1 DEF Worlds, UnitStates
  <2>2. /\ c.greeterId \in Ids \cup {NoId}
        /\ c.greeterActive \in BOOLEAN
        /\ c.seat \in Ids \cup {NoId}
        /\ c.retired \in Ids \cup {NoId}
        /\ c.leaders \in SUBSET Ids
        /\ c.timers \in SUBSET Ids
    BY <1>1, <1>2 DEF Worlds
  <2> QED BY <1>1, <1>2, <1>3, <1>4, <2>1, <2>2, WorldOK(w) DEF WorldOK, Worlds
<1>6. ResourcesOf(c)
  <2>1. c.timers = {x \in DOMAIN c.sessions : c.sessions[x].installerSource}
    <3>1. c.timers = {x \in DOMAIN w.sessions : w.sessions[x].installerSource}
      BY <1>2 DEF ResourcesOf
    <3>2. ~c.sessions[n].installerSource
      BY <1>3, NewSessionType
    <3>3. \A x \in DOMAIN w.sessions :
            c.sessions[x].installerSource <=> w.sessions[x].installerSource
      BY <1>3
    <3> QED BY <1>3, <3>1, <3>2, <3>3
  <2>2. /\ c.leaders = DOMAIN c.sessions
        /\ c.seat \in DOMAIN c.sessions \cup {NoId}
    BY <1>2, <1>3 DEF ResourcesOf
  <2>3. ASSUME NEW x \in Ids \ DOMAIN c.sessions
        PROVE  c.unit[x] = "none" /\ c.jobs[x] = {} /\ c.inbox[x] = <<>>
    BY <1>1, <1>2, <1>3 DEF ResourcesOf, Worlds
  <2> QED BY <2>1, <2>2, <2>3 DEF ResourcesOf
<1>7. c.greeterId = w.greeterId /\ c.greeterActive = w.greeterActive
  BY <1>2
<1> QED BY <1>3, <1>5, <1>6, <1>7, NewSessionType DEF c

\* The world with the greeter's bookkeeping replaced, field by field.
LEMMA GreeterFields ==
  ASSUME NEW Sess, NEW w \in Worlds(Sess), NEW id, NEW active,
         NEW c, c = SetGreeter(w, id, active)
  PROVE  c = [sessions |-> w.sessions, greeterId |-> id, greeterActive |-> active,
              seat |-> w.seat, retired |-> w.retired, leaders |-> w.leaders,
              timers |-> w.timers, unit |-> w.unit, jobs |-> w.jobs,
              inbox |-> w.inbox]
  BY DEF Worlds, SetGreeter

\* The flag and the greeter's id do not matter to types and resources.
LEMMA GreeterKeeps ==
  ASSUME NEW w, WorldOK(w), ResourcesOf(w),
         NEW id \in Ids \cup {NoId}, NEW active \in BOOLEAN
  PROVE  /\ WorldOK(SetGreeter(w, id, active))
         /\ ResourcesOf(SetGreeter(w, id, active))
         /\ SetGreeter(w, id, active).sessions = w.sessions
         /\ SetGreeter(w, id, active).greeterId = id
         /\ SetGreeter(w, id, active).greeterActive = active
<1> DEFINE c == SetGreeter(w, id, active)
<1>1. w \in Worlds([DOMAIN w.sessions -> SessionInfo])
  BY DEF WorldOK
<1>2. c = [sessions |-> w.sessions, greeterId |-> id, greeterActive |-> active,
           seat |-> w.seat, retired |-> w.retired, leaders |-> w.leaders,
           timers |-> w.timers, unit |-> w.unit, jobs |-> w.jobs,
           inbox |-> w.inbox]
  <2> HIDE DEF c
  <2> QED BY <1>1, GreeterFields DEF c
<1> HIDE DEF c
<1>3. WorldOK(c)
  BY <1>1, <1>2, WorldOK(w) DEF WorldOK, Worlds
<1>4. ResourcesOf(c)
  BY <1>2 DEF ResourcesOf
<1> QED BY <1>2, <1>3, <1>4 DEF c

\* The world with another session on the seat, field by field.
LEMMA SeatFields ==
  ASSUME NEW Sess, NEW w \in Worlds(Sess), NEW id,
         NEW c, c = [w EXCEPT !.seat = id]
  PROVE  c = [sessions |-> w.sessions, greeterId |-> w.greeterId,
              greeterActive |-> w.greeterActive,
              seat |-> id, retired |-> w.retired, leaders |-> w.leaders,
              timers |-> w.timers, unit |-> w.unit, jobs |-> w.jobs,
              inbox |-> w.inbox]
  BY DEF Worlds

\* Showing a registered session, or none, on the seat keeps the invariant.
LEMMA SeatKeeps ==
  ASSUME NEW w, WorldInv(w), NEW id \in DOMAIN w.sessions \cup {NoId},
         NEW c, c = [w EXCEPT !.seat = id]
  PROVE  /\ WorldInv(c)
         /\ c.sessions = w.sessions
         /\ c.greeterId = w.greeterId
         /\ c.greeterActive = w.greeterActive
<1>1. w \in Worlds([DOMAIN w.sessions -> SessionInfo])
  BY DEF WorldOK, WorldInv
<1>2. c = [sessions |-> w.sessions, greeterId |-> w.greeterId,
           greeterActive |-> w.greeterActive,
           seat |-> id, retired |-> w.retired, leaders |-> w.leaders,
           timers |-> w.timers, unit |-> w.unit, jobs |-> w.jobs,
           inbox |-> w.inbox]
  BY <1>1, SeatFields
<1>3. WorldOK(c)
  BY <1>1, <1>2, WorldInv(w) DEF WorldOK, Worlds, WorldInv
<1>4. ResourcesOf(c) /\ GreeterExclusive(c)
  BY <1>2 DEF ResourcesOf, WorldInv, GreeterExclusive
<1> QED BY <1>2, <1>3, <1>4 DEF WorldInv

-----------------------------------------------------------------------------
(* The session handlers, innermost first.                                  *)

\* Closing the greeter's session and lowering the flag, as a login does.
LEMMA StopLoginKeeps ==
  ASSUME NEW w, WorldOK(w), ResourcesOf(w), GreeterNotStale(w)
  PROVE  /\ WorldOK(StopLoginSession(w))
         /\ ResourcesOf(StopLoginSession(w))
         /\ w.greeterActive =>
              /\ StopLoginSession(w).greeterId = NoId
              /\ ~StopLoginSession(w).greeterActive
              /\ DOMAIN StopLoginSession(w).sessions
                   = DOMAIN w.sessions \ {w.greeterId}
              /\ \A x \in DOMAIN w.sessions \ {w.greeterId} :
                   StopLoginSession(w).sessions[x] = w.sessions[x]
         /\ ~w.greeterActive => StopLoginSession(w) = w
<1>1. CASE ~w.greeterActive
  BY <1>1 DEF StopLoginSession
<1>2. CASE w.greeterActive
  <2> DEFINE c == CloseSession(w, w.greeterId)
  <2>1. w.greeterId \in DOMAIN w.sessions
    BY <1>2 DEF GreeterNotStale
  <2>2. StopLoginSession(w) = SetGreeter(c, NoId, FALSE)
    BY <1>2, <2>1 DEF StopLoginSession
  <2>3. /\ WorldOK(c)
        /\ ResourcesOf(c)
        /\ DOMAIN c.sessions = DOMAIN w.sessions \ {w.greeterId}
        /\ \A x \in DOMAIN w.sessions \ {w.greeterId} : c.sessions[x] = w.sessions[x]
    BY <2>1, CloseKeeps
  <2> HIDE DEF c
  <2>4. /\ WorldOK(SetGreeter(c, NoId, FALSE))
        /\ ResourcesOf(SetGreeter(c, NoId, FALSE))
        /\ SetGreeter(c, NoId, FALSE).sessions = c.sessions
        /\ SetGreeter(c, NoId, FALSE).greeterId = NoId
        /\ SetGreeter(c, NoId, FALSE).greeterActive = FALSE
    BY <2>3, GreeterKeeps
  <2> QED BY <1>2, <2>2, <2>3, <2>4
<1> QED BY <1>1, <1>2

\* The id logind gives is one of the free ones.
LEMMA NewIdFree ==
  ASSUME NEW w, NEW answer, Opens(w, answer)
  PROVE  NewId(w) \in Free(w)
  BY DEF Opens, NewId

\* A login keeps the invariant: when it succeeds, a greeter that was there is
\* gone.  Without a stale flag it never leaves a greeter beside a user.
LEMMA CreateKeeps ==
  ASSUME NEW w, WorldInv(w), GreeterNotStale(w), NEW u \in Users, NEW answer
  PROVE  /\ WorldInv(CreateSession(w, u, FALSE, answer))
         /\ ~w.greeterActive =>
              /\ ~CreateSession(w, u, FALSE, answer).greeterActive
              /\ ~Opens(w, answer) =>
                   CreateSession(w, u, FALSE, answer).sessions = w.sessions
<1>1. CASE Opens(w, answer)
  <2> DEFINE n == NewId(w)
             o == OpenSession(w, n, u)
             r == StopLoginSession(o)
  <2>1. CreateSession(w, u, FALSE, answer) = r
    BY <1>1 DEF CreateSession
  <2>2. n \in Free(w) /\ n \in Ids /\ n # w.greeterId /\ n \notin DOMAIN w.sessions
    BY <1>1, NewIdFree DEF Free
  <2>3. u \in Accounts /\ u # GreeterUser
    BY SessionAssumption DEF Accounts
  <2> HIDE DEF n
  <2>4. /\ WorldOK(o)
        /\ ResourcesOf(o)
        /\ DOMAIN o.sessions = DOMAIN w.sessions \cup {n}
        /\ \A x \in DOMAIN w.sessions : o.sessions[x] = w.sessions[x]
        /\ o.sessions[n].user = u
        /\ o.greeterId = w.greeterId
        /\ o.greeterActive = w.greeterActive
    BY <2>2, <2>3, OpenKeeps DEF WorldInv
  <2> HIDE DEF o
  <2>5. GreeterNotStale(o)
    BY <2>4 DEF GreeterNotStale
  <2>6. /\ WorldOK(r)
        /\ ResourcesOf(r)
        /\ o.greeterActive =>
              /\ r.greeterId = NoId
              /\ ~r.greeterActive
              /\ DOMAIN r.sessions = DOMAIN o.sessions \ {o.greeterId}
              /\ \A x \in DOMAIN o.sessions \ {o.greeterId} :
                   r.sessions[x] = o.sessions[x]
        /\ ~o.greeterActive => r = o
    BY <2>4, <2>5, StopLoginKeeps
  <2> HIDE DEF r
  <2>7. GreeterExclusive(r)
    <3>1. CASE w.greeterActive
      <4>1. DOMAIN r.sessions = {n} /\ r.sessions[n].user = u
        BY <2>2, <2>4, <2>6, <3>1 DEF WorldInv, GreeterExclusive
      <4>2. n # NoId
        BY <2>2, SessionAssumption
      <4> QED BY <2>3, <2>4, <2>6, <3>1, <4>1, <4>2 DEF GreeterExclusive
    <3>2. CASE ~w.greeterActive
      BY <2>2, <2>3, <2>4, <2>6, <3>2 DEF WorldInv, GreeterExclusive
    <3> QED BY <3>1, <3>2
  <2> QED BY <1>1, <2>1, <2>4, <2>6, <2>7 DEF WorldInv
<1>2. CASE ~Opens(w, answer) /\ answer = "startup"
  <2> DEFINE c == [w EXCEPT !.seat = NoId]
  <2>1. CreateSession(w, u, FALSE, answer) = c
    BY <1>2 DEF CreateSession
  <2>2. WorldInv(c) /\ c.sessions = w.sessions /\ c.greeterActive = w.greeterActive
    BY SeatKeeps
  <2> QED BY <2>1, <2>2
<1>3. CASE ~Opens(w, answer) /\ answer # "startup"
  BY <1>3 DEF CreateSession
<1> QED BY <1>1, <1>2, <1>3

\* Bringing up the login screen, or the automatic login, when no session is
\* left keeps the invariant: the greeter then is the only session.
LEMMA CreateLoginKeeps ==
  ASSUME NEW w, WorldInv(w), ~w.greeterActive, DOMAIN w.sessions = {}, NEW a
  PROVE  WorldInv(CreateLoginSession(w, a))
<1> DEFINE tried == TryAutologinSession(w, a.auto)
           greeted == CreateSession(tried, GreeterUser, TRUE, a.greeter)
<1>1. /\ WorldInv(tried)
      /\ ~tried.greeterActive
      /\ ~AutologinOpens(w, a.auto) => tried.sessions = w.sessions
  <2>1. CASE Autologin = NoUser
    BY <2>1 DEF TryAutologinSession, AutologinOpens
  <2>2. CASE Autologin # NoUser
    <3>1. Autologin \in Users
      BY <2>2, SessionAssumption DEF Autologin
    <3>2. tried = CreateSession(w, Autologin, FALSE, a.auto)
      BY <2>2 DEF TryAutologinSession
    <3>3. GreeterNotStale(w)
      BY DEF GreeterNotStale
    <3>4. AutologinOpens(w, a.auto) <=> Opens(w, a.auto)
      BY <2>2 DEF AutologinOpens
    <3> HIDE DEF tried
    <3>5. /\ WorldInv(CreateSession(w, Autologin, FALSE, a.auto))
          /\ ~CreateSession(w, Autologin, FALSE, a.auto).greeterActive
          /\ ~Opens(w, a.auto) =>
               CreateSession(w, Autologin, FALSE, a.auto).sessions = w.sessions
      BY <3>1, <3>3, CreateKeeps
    <3> QED BY <3>2, <3>4, <3>5
  <2> QED BY <2>1, <2>2
<1>2. CASE AutologinOpens(w, a.auto)
  BY <1>1, <1>2 DEF CreateLoginSession
<1>3. CASE ~AutologinOpens(w, a.auto) /\ Opens(tried, a.greeter)
  <2> DEFINE n == NewId(tried)
             o == OpenSession(tried, n, GreeterUser)
             r == SetGreeter(o, n, TRUE)
  <2>1. CreateLoginSession(w, a) = r
    BY <1>3 DEF CreateLoginSession, CreateSession
  <2>2. n \in Free(tried) /\ n \in Ids
    BY <1>3, NewIdFree DEF Free
  <2>3. GreeterUser \in Accounts
    BY DEF Accounts
  <2>4. DOMAIN tried.sessions = {}
    BY <1>1, <1>3
  <2> HIDE DEF n, tried
  <2>5. /\ WorldOK(o)
        /\ ResourcesOf(o)
        /\ DOMAIN o.sessions = {n} /\ o.sessions[n].user = GreeterUser
    BY <1>1, <2>2, <2>3, <2>4, OpenKeeps DEF WorldInv
  <2> HIDE DEF o
  <2>6. /\ WorldOK(r)
        /\ ResourcesOf(r)
        /\ r.sessions = o.sessions
        /\ r.greeterId = n
        /\ r.greeterActive = TRUE
    BY <2>2, <2>5, GreeterKeeps
  <2> HIDE DEF r
  <2>7. n # NoId
    BY <2>2, SessionAssumption
  <2>8. GreeterExclusive(r)
    BY <2>5, <2>6, <2>7 DEF GreeterExclusive
  <2> QED BY <2>1, <2>6, <2>8 DEF WorldInv
<1>4. CASE ~AutologinOpens(w, a.auto) /\ ~Opens(tried, a.greeter)
  <2>1. CreateLoginSession(w, a) = greeted
    BY <1>4 DEF CreateLoginSession
  <2> HIDE DEF tried
  <2>2. CASE a.greeter = "startup"
    <3> DEFINE c == [tried EXCEPT !.seat = NoId]
    <3>1. greeted = c
      BY <1>4, <2>2 DEF CreateSession
    <3>2. WorldInv(c)
      BY <1>1, SeatKeeps
    <3> QED BY <2>1, <3>1, <3>2
  <2>3. CASE a.greeter # "startup"
    BY <1>1, <1>4, <2>1, <2>3 DEF CreateSession
  <2> QED BY <2>2, <2>3
<1> QED BY <1>2, <1>3, <1>4

\* Ending any registered session keeps the invariant, whatever the calls made
\* on the way back to another session or to the login screen answer.
LEMMA StopKeeps ==
  ASSUME NEW w, WorldInv(w), NEW s \in DOMAIN w.sessions, NEW a
  PROVE  WorldInv(StopSession(w, s, a))
<1> DEFINE c == CloseSession(w, s)
<1>1. /\ WorldOK(c)
      /\ ResourcesOf(c)
      /\ DOMAIN c.sessions = DOMAIN w.sessions \ {s}
      /\ \A x \in DOMAIN w.sessions \ {s} : c.sessions[x] = w.sessions[x]
      /\ c.greeterId = w.greeterId
      /\ c.greeterActive = w.greeterActive
  BY CloseKeeps DEF WorldInv
<1> HIDE DEF c
<1>2. GreeterExclusive(c)
  BY <1>1 DEF WorldInv, GreeterExclusive
<1>3. WorldInv(c)
  BY <1>1, <1>2 DEF WorldInv
<1>4. CASE s = w.greeterId \/ w.greeterActive
  BY <1>3, <1>4 DEF StopSession, c
<1>5. CASE ~(s = w.greeterId \/ w.greeterActive)
  <2>1. StopSession(w, s, a) = AfterLogout(c, a)
    BY <1>5 DEF StopSession, c
  <2>2. CASE DOMAIN c.sessions = {}
    BY <1>1, <1>3, <1>5, <2>1, <2>2, CreateLoginKeeps DEF AfterLogout
  <2>3. CASE DOMAIN c.sessions # {} /\ a.activate = "ok"
    <3> DEFINE r == [c EXCEPT !.seat = First(c.sessions)]
    <3>1. AfterLogout(c, a) = r
      BY <2>3 DEF AfterLogout
    <3>2. First(c.sessions) \in DOMAIN c.sessions
      BY <2>3 DEF First
    <3>3. WorldInv(r)
      BY <1>3, <3>2, SeatKeeps
    <3> QED BY <2>1, <3>1, <3>3
  <2>4. CASE DOMAIN c.sessions # {} /\ a.activate # "ok"
    BY <1>3, <2>1, <2>4 DEF AfterLogout
  <2> QED BY <2>2, <2>3, <2>4
<1> QED BY <1>4, <1>5

-----------------------------------------------------------------------------
(* Signals and snapshots.                                                  *)

\* The world with one amended record, field by field.
LEMMA AmendFields ==
  ASSUME NEW Sess, NEW w \in Worlds(Sess), NEW s, NEW info, NEW timers,
         NEW c, c = Amend(w, s, info, timers)
  PROVE  c = [sessions |-> [w.sessions EXCEPT ![s] = info],
              greeterId |-> w.greeterId, greeterActive |-> w.greeterActive,
              seat |-> w.seat, retired |-> w.retired, leaders |-> w.leaders,
              timers |-> timers, unit |-> w.unit, jobs |-> w.jobs,
              inbox |-> w.inbox]
  BY DEF Worlds, Amend

\* A record amended for the same user, with its timer armed exactly when it
\* remembers a source, keeps the invariant.
LEMMA AmendKeeps ==
  ASSUME NEW w, WorldInv(w), NEW s \in DOMAIN w.sessions,
         NEW info \in SessionInfo, info.user = w.sessions[s].user,
         NEW timers, timers \ {s} = w.timers \ {s},
         s \in timers <=> info.installerSource
  PROVE  /\ WorldInv(Amend(w, s, info, timers))
         /\ DOMAIN Amend(w, s, info, timers).sessions = DOMAIN w.sessions
         /\ Amend(w, s, info, timers).sessions[s] = info
<1> DEFINE c == Amend(w, s, info, timers)
<1>1. /\ w \in Worlds([DOMAIN w.sessions -> SessionInfo])
      /\ DOMAIN w.sessions \subseteq Ids
      /\ s \in Ids
  BY DEF WorldOK, WorldInv
<1>2. c = [sessions |-> [w.sessions EXCEPT ![s] = info],
           greeterId |-> w.greeterId, greeterActive |-> w.greeterActive,
           seat |-> w.seat, retired |-> w.retired, leaders |-> w.leaders,
           timers |-> timers, unit |-> w.unit, jobs |-> w.jobs,
           inbox |-> w.inbox]
  <2> HIDE DEF c
  <2> QED BY <1>1, AmendFields DEF c
<1> HIDE DEF c
<1>3. w.sessions \in [DOMAIN w.sessions -> SessionInfo]
  BY <1>1 DEF Worlds
<1>4. /\ DOMAIN c.sessions = DOMAIN w.sessions
      /\ c.sessions[s] = info
      /\ \A x \in DOMAIN w.sessions \ {s} : c.sessions[x] = w.sessions[x]
      /\ c.sessions \in [DOMAIN c.sessions -> SessionInfo]
  BY <1>2, <1>3
<1>5. timers \in SUBSET Ids
  BY <1>1 DEF Worlds
<1>6. WorldOK(c)
  BY <1>1, <1>2, <1>4, <1>5 DEF WorldOK, Worlds
<1>7. ResourcesOf(c)
  <2>1. w.timers = {x \in DOMAIN w.sessions : w.sessions[x].installerSource}
    BY DEF WorldInv, ResourcesOf
  <2>2. \A x \in DOMAIN w.sessions \ {s} :
          c.sessions[x].installerSource <=> w.sessions[x].installerSource
    BY <1>4
  <2>3. s \in timers <=> c.sessions[s].installerSource
    BY <1>4
  <2>4. \A x : x \in timers <=> x \in DOMAIN c.sessions /\ c.sessions[x].installerSource
    BY <1>4, <2>1, <2>2, <2>3
  <2>5. c.timers = {x \in DOMAIN c.sessions : c.sessions[x].installerSource}
    BY <1>2, <2>4
  <2> QED BY <1>2, <1>4, <2>5 DEF WorldInv, ResourcesOf
<1>8. GreeterExclusive(c)
  BY <1>2, <1>4 DEF WorldInv, GreeterExclusive
<1> QED BY <1>4, <1>6, <1>7, <1>8 DEF WorldInv, c

\* The world after a step of a user manager, field by field.
LEMMA ManagerFields ==
  ASSUME NEW Sess, NEW w \in Worlds(Sess), NEW s, NEW unit, NEW jobs, NEW inbox,
         NEW c, c = ManagerStep(w, s, unit, jobs, inbox)
  PROVE  c = [sessions |-> w.sessions, greeterId |-> w.greeterId,
              greeterActive |-> w.greeterActive,
              seat |-> w.seat, retired |-> w.retired, leaders |-> w.leaders,
              timers |-> w.timers,
              unit |-> [w.unit EXCEPT ![s] = unit],
              jobs |-> [w.jobs EXCEPT ![s] = jobs],
              inbox |-> [w.inbox EXCEPT ![s] = inbox]]
  BY DEF Worlds, ManagerStep

\* What the user manager of a registered session does keeps the invariant.
LEMMA ManagerKeeps ==
  ASSUME NEW w, WorldInv(w), NEW s \in DOMAIN w.sessions,
         NEW unit \in UnitStates, NEW jobs \in SUBSET Jobs,
         NEW inbox \in Seq(Signals)
  PROVE  /\ WorldInv(ManagerStep(w, s, unit, jobs, inbox))
         /\ ManagerStep(w, s, unit, jobs, inbox).sessions = w.sessions
<1> DEFINE c == ManagerStep(w, s, unit, jobs, inbox)
<1>1. /\ w \in Worlds([DOMAIN w.sessions -> SessionInfo])
      /\ DOMAIN w.sessions \subseteq Ids
      /\ s \in Ids
  BY DEF WorldOK, WorldInv
<1>2. c = [sessions |-> w.sessions, greeterId |-> w.greeterId,
           greeterActive |-> w.greeterActive,
           seat |-> w.seat, retired |-> w.retired, leaders |-> w.leaders,
           timers |-> w.timers,
           unit |-> [w.unit EXCEPT ![s] = unit],
           jobs |-> [w.jobs EXCEPT ![s] = jobs],
           inbox |-> [w.inbox EXCEPT ![s] = inbox]]
  <2> HIDE DEF c
  <2> QED BY <1>1, ManagerFields DEF c
<1> HIDE DEF c
<1>3. WorldOK(c)
  <2>1. /\ c.unit \in [Ids -> UnitStates]
        /\ c.jobs \in [Ids -> SUBSET Jobs]
        /\ c.inbox \in [Ids -> Seq(Signals)]
    BY <1>1, <1>2 DEF Worlds
  <2> QED BY <1>1, <1>2, <2>1 DEF WorldOK, Worlds
<1>4. ResourcesOf(c)
  BY <1>1, <1>2 DEF WorldInv, ResourcesOf, Worlds
<1>5. GreeterExclusive(c)
  BY <1>2 DEF WorldInv, GreeterExclusive
<1> QED BY <1>2, <1>3, <1>4, <1>5 DEF WorldInv, c

\* What a snapshot takes over, and what is done about it.
LEMMA RefreshSeen ==
  ASSUME NEW w, WorldInv(w), NEW s \in DOMAIN w.sessions, NEW a, w.unit[s] # "gone",
         NEW v, v = RefreshSessionState(w, s, a)
  PROVE  \E info, timers :
           /\ info \in SessionInfo
           /\ info.user = w.sessions[s].user
           /\ info.starting = w.sessions[s].starting /\ info.startJobs = w.sessions[s].startJobs
           /\ info.activeState = ActiveState(w.unit[s]) /\ info.result = Result(w.unit[s])
           /\ timers \ {s} = w.timers \ {s} /\ (s \in timers <=> info.installerSource)
           /\ v = IF EvaluateSessionState(info)
                  THEN StopSession(Amend(w, s, info, timers), s, a) ELSE Amend(w, s, info, timers)
<1> DEFINE i == w.sessions[s]
           snapshot == [i EXCEPT !.result = Result(w.unit[s]),
                                 !.privileged = (w.unit[s] = "active"),
                                 !.activeState = ActiveState(w.unit[s])]
           schedules == SchedulesInstaller(snapshot)
           info == [snapshot EXCEPT !.installerLaunchScheduled = @ \/ schedules,
                                    !.installerSource = @ \/ schedules]
           timers == IF schedules THEN w.timers \cup {s} ELSE w.timers
           seen == Amend(w, s, info, timers)
<1>1. v = IF EvaluateSessionState(info) THEN StopSession(seen, s, a) ELSE seen
  BY DEF RefreshSessionState
<1>2. i \in SessionInfo
  BY DEF WorldInv, WorldOK, Worlds
<1>3. /\ Result(w.unit[s]) \in {"success", "exit-code"}
      /\ ActiveState(w.unit[s]) \in {"inactive", "active", "failed"}
  BY DEF Result, ActiveState
<1>4. /\ snapshot \in SessionInfo /\ snapshot.user = i.user
      /\ snapshot.starting = i.starting /\ snapshot.startJobs = i.startJobs
      /\ snapshot.activeState = ActiveState(w.unit[s]) /\ snapshot.result = Result(w.unit[s])
      /\ snapshot.installerSource = i.installerSource
  BY <1>2, <1>3 DEF SessionInfo
<1>5. schedules \in BOOLEAN
  BY DEF SchedulesInstaller
<1> HIDE DEF snapshot, schedules
<1>6. /\ info \in SessionInfo /\ info.user = i.user
      /\ info.starting = i.starting /\ info.startJobs = i.startJobs
      /\ info.activeState = ActiveState(w.unit[s]) /\ info.result = Result(w.unit[s])
      /\ info.installerSource = (i.installerSource \/ schedules)
  BY <1>4, <1>5 DEF SessionInfo
<1> HIDE DEF info
<1>7. s \in w.timers <=> i.installerSource
  BY DEF WorldInv, ResourcesOf
<1>8. timers \ {s} = w.timers \ {s} /\ (s \in timers <=> info.installerSource)
  BY <1>5, <1>6, <1>7
<1> HIDE DEF timers
<1> QED
  BY <1>1, <1>6, <1>8

\* Taking a snapshot, and acting on it, keeps the invariant.
LEMMA RefreshKeeps ==
  ASSUME NEW w, WorldInv(w), NEW s \in DOMAIN w.sessions, NEW a
  PROVE  WorldInv(RefreshSessionState(w, s, a))
<1> DEFINE v == RefreshSessionState(w, s, a)
<1>1. CASE w.unit[s] = "gone"
  BY <1>1 DEF RefreshSessionState
<1>2. CASE w.unit[s] # "gone"
  <2> HIDE DEF v
  <2>1. PICK info, timers :
          /\ info \in SessionInfo
          /\ info.user = w.sessions[s].user
          /\ timers \ {s} = w.timers \ {s} /\ (s \in timers <=> info.installerSource)
          /\ \/ v = StopSession(Amend(w, s, info, timers), s, a)
             \/ v = Amend(w, s, info, timers)
    BY <1>2, RefreshSeen DEF v
  <2> DEFINE seen == Amend(w, s, info, timers)
  <2>2. WorldInv(seen) /\ s \in DOMAIN seen.sessions
    BY <2>1, AmendKeeps
  <2> HIDE DEF seen
  <2>3. WorldInv(StopSession(seen, s, a))
    BY <2>2, StopKeeps
  <2>4. v = StopSession(seen, s, a) \/ v = seen
    BY <2>1 DEF seen
  <2>5. WorldInv(v)
    BY <2>2, <2>3, <2>4
  <2> QED
    BY <2>5 DEF v
<1> QED
  BY <1>1, <1>2

\* A finished start job keeps the invariant.
LEMMA JobKeeps ==
  ASSUME NEW w, WorldInv(w), NEW s \in DOMAIN w.sessions, NEW signal, NEW a
  PROVE  WorldInv(HandleSessionJobRemoved(w, s, signal, a))
<1> DEFINE i == w.sessions[s]
           left == i.startJobs \ {signal.job}
           info == [i EXCEPT !.startJobs = left, !.starting = (left # {})]
           marked == Amend(w, s, info, w.timers)
<1>1. i \in SessionInfo
  BY DEF WorldInv, WorldOK, Worlds
<1>2. /\ info \in SessionInfo
      /\ info.user = i.user
      /\ info.installerSource = i.installerSource
  BY <1>1 DEF SessionInfo
<1>3. s \in w.timers <=> i.installerSource
  BY DEF WorldInv, ResourcesOf
<1>4. \/ HandleSessionJobRemoved(w, s, signal, a) = w
      \/ HandleSessionJobRemoved(w, s, signal, a) = StopSession(marked, s, a)
      \/ HandleSessionJobRemoved(w, s, signal, a) = RefreshSessionState(marked, s, a)
      \/ HandleSessionJobRemoved(w, s, signal, a) = marked
  BY DEF HandleSessionJobRemoved
<1> HIDE DEF info
<1>5. WorldInv(marked) /\ s \in DOMAIN marked.sessions
  BY <1>2, <1>3, AmendKeeps
<1> HIDE DEF marked
<1> QED BY <1>4, <1>5, StopKeeps, RefreshKeeps

\* Whatever signal is dispatched for a registered session.
LEMMA SignalKeeps ==
  ASSUME NEW w, WorldInv(w), NEW s \in DOMAIN w.sessions,
         NEW signal \in Signals, NEW a
  PROVE  WorldInv(HandleSignal(w, s, signal, a))
<1>1. signal.kind \in {"props", "disconnected", "job"}
  BY DEF Signals
<1> QED BY <1>1, RefreshKeeps, JobKeeps, StopKeeps DEF HandleSignal

-----------------------------------------------------------------------------
(* The specification.                                                      *)

\* Before the idle callback there is no session, so the login screen it brings
\* up is alone.
Inv == /\ WorldInv(world)
       /\ phase \in {"booting", "running", "stopped"}
       /\ phase = "booting" => DOMAIN world.sessions = {} /\ ~world.greeterActive

\* The world of a daemon that has not started, or has stopped.
LEMMA NoWorldInv ==
  WorldInv(NoWorld) /\ DOMAIN NoWorld.sessions = {} /\ ~NoWorld.greeterActive
<1>1. DOMAIN NoWorld.sessions = {}
  BY DEF NoWorld
<1>2. NoWorld.sessions \in [DOMAIN NoWorld.sessions -> SessionInfo]
  BY DEF NoWorld
<1>3. <<>> \in Seq(Signals)
  OBVIOUS
<1>4. NoWorld \in Worlds([DOMAIN NoWorld.sessions -> SessionInfo])
  <2> DEFINE Sess == [DOMAIN NoWorld.sessions -> SessionInfo]
  <2>1. NoWorld.sessions \in Sess
    BY <1>2
  <2> HIDE DEF Sess
  <2> SUFFICES NoWorld \in Worlds(Sess)
    BY DEF Sess
  <2> QED BY <1>3, <2>1 DEF NoWorld, Worlds, UnitStates
<1>5. WorldOK(NoWorld)
  BY <1>1, <1>4 DEF WorldOK
<1>6. ResourcesOf(NoWorld)
  BY DEF ResourcesOf, NoWorld
<1>7. GreeterExclusive(NoWorld)
  BY DEF GreeterExclusive, NoWorld
<1> QED BY <1>1, <1>5, <1>6, <1>7 DEF WorldInv, NoWorld

\* Every step of the daemon and of the user managers keeps the invariant.
LEMMA StepKeeps == Inv /\ [Next]_vars => Inv'
<1> SUFFICES ASSUME Inv, [Next]_vars PROVE Inv'
  OBVIOUS
<1> USE DEF Inv
<1>1. CASE Start
  <2>1. PICK a \in Answers : world' = CreateLoginSession(world, a)
    BY <1>1 DEF Start
  <2>2. WorldInv(CreateLoginSession(world, a))
    BY <1>1, CreateLoginKeeps DEF Start
  <2> QED BY <1>1, <2>1, <2>2 DEF Start
<1>2. ASSUME NEW c \in Ids, NEW u \in Users, OnCreateSession(c, u)
      PROVE  Inv'
  <2>1. PICK answer \in Openings : world' = CreateSession(world, u, FALSE, answer)
    BY <1>2 DEF OnCreateSession
  <2>2. c \in DOMAIN world.sessions
    BY <1>2 DEF OnCreateSession, SharedPolicy
  <2>3. GreeterNotStale(world)
    BY <2>2 DEF WorldInv, GreeterExclusive, GreeterNotStale
  <2>4. WorldInv(CreateSession(world, u, FALSE, answer))
    BY <2>3, CreateKeeps
  <2> QED BY <1>2, <2>1, <2>4 DEF OnCreateSession
<1>3. ASSUME NEW c \in Ids, NEW s \in Ids, OnStopSession(c, s)
      PROVE  Inv'
  <2>1. PICK a \in Answers : world' = StopSession(world, s, a)
    BY <1>3 DEF OnStopSession
  <2>2. WorldInv(StopSession(world, s, a))
    BY <1>3, StopKeeps DEF OnStopSession
  <2> QED BY <1>3, <2>1, <2>2 DEF OnStopSession
<1>4. ASSUME NEW s \in Ids, Dispatch(s)
      PROVE  Inv'
  <2> DEFINE w == ManagerStep(world, s, world.unit[s], world.jobs[s],
                              Tail(world.inbox[s]))
             signal == Head(world.inbox[s])
  <2>1. PICK a \in Answers : world' = HandleSignal(w, s, signal, a)
    BY <1>4 DEF Dispatch
  <2>2. /\ world.unit[s] \in UnitStates
        /\ world.jobs[s] \in SUBSET Jobs
        /\ world.inbox[s] \in Seq(Signals)
    BY DEF WorldInv, WorldOK, Worlds
  <2>3. signal \in Signals /\ Tail(world.inbox[s]) \in Seq(Signals)
    BY <1>4, <2>2 DEF Dispatch
  <2>4. s \in DOMAIN world.sessions
    BY <1>4 DEF Dispatch
  <2>5. WorldInv(w) /\ s \in DOMAIN w.sessions
    BY <2>2, <2>3, <2>4, ManagerKeeps
  <2> HIDE DEF w, signal
  <2>6. WorldInv(HandleSignal(w, s, signal, a))
    BY <2>3, <2>5, SignalKeeps
  <2> QED BY <1>4, <2>1, <2>6 DEF Dispatch
<1>5. ASSUME NEW s \in Ids, InstallerTimer(s)
      PROVE  Inv'
  <2> DEFINE i == world.sessions[s]
             info == [i EXCEPT !.installerSource = FALSE,
                               !.installerStarted = @ \/ i.activeState = "active"]
             timers == world.timers \ {s}
  <2>1. s \in DOMAIN world.sessions
    BY <1>5 DEF InstallerTimer, WorldInv, ResourcesOf
  <2>2. world' = Amend(world, s, info, timers)
    BY <1>5, <2>1 DEF InstallerTimer
  <2>3. i \in SessionInfo
    BY <2>1 DEF WorldInv, WorldOK, Worlds
  <2>4. info \in SessionInfo /\ info.user = i.user /\ ~info.installerSource
    BY <2>3 DEF SessionInfo
  <2>5. timers \ {s} = world.timers \ {s} /\ s \notin timers
    OBVIOUS
  <2> HIDE DEF info, timers
  <2>6. WorldInv(Amend(world, s, info, timers))
    BY <2>1, <2>4, <2>5, AmendKeeps
  <2> QED BY <1>5, <2>2, <2>6 DEF InstallerTimer
<1>6. CASE Shutdown
  BY <1>6, NoWorldInv DEF Shutdown
<1>7. ASSUME NEW s \in Ids, Manager(s)
      PROVE  Inv'
  <2>1. /\ s \in DOMAIN world.sessions
        /\ phase = "running"
        /\ phase' = phase
    BY <1>7 DEF Manager, SessionJobEnds, DaemonJobEnds, UnitEnds, ManagerLost
  <2>2. /\ world.unit[s] \in UnitStates
        /\ world.jobs[s] \in SUBSET Jobs
        /\ world.inbox[s] \in Seq(Signals)
    BY DEF WorldInv, WorldOK, Worlds
  <2>3. /\ PropertiesChanged \in Signals
        /\ Disconnected \in Signals
        /\ \A j \in Jobs, ok \in BOOLEAN : JobRemoved(j, ok) \in Signals
    BY DEF PropertiesChanged, Disconnected, JobRemoved, Signals, Jobs
  <2>4. PICK unit \in UnitStates, jobs \in SUBSET Jobs, inbox \in Seq(Signals) :
          world' = ManagerStep(world, s, unit, jobs, inbox)
    <3>1. ASSUME NEW ok \in BOOLEAN, SessionJobEnds(s, ok)
          PROVE  \E unit \in UnitStates, jobs \in SUBSET Jobs, inbox \in Seq(Signals) :
                   world' = ManagerStep(world, s, unit, jobs, inbox)
      <4>1. PICK order \in {<<PropertiesChanged, JobRemoved("session", ok)>>,
                            <<JobRemoved("session", ok), PropertiesChanged>>} :
              world' = ManagerStep(world, s, IF ok THEN "active" ELSE "failed",
                                   world.jobs[s] \ {"session"},
                                   world.inbox[s] \o order)
        BY <3>1 DEF SessionJobEnds
      <4>2. JobRemoved("session", ok) \in Signals
        BY <2>3 DEF Jobs
      <4>3. order \in Seq(Signals)
        <5>1. \A x, y \in Signals : <<x, y>> \in Seq(Signals)
          OBVIOUS
        <5>2. PropertiesChanged \in Signals
          BY <2>3
        <5> QED BY <4>2, <5>1, <5>2
      <4>4. world.inbox[s] \o order \in Seq(Signals)
        BY <2>2, <4>3
      <4>5. (IF ok THEN "active" ELSE "failed") \in UnitStates
        BY DEF UnitStates
      <4>6. world.jobs[s] \ {"session"} \in SUBSET Jobs
        BY <2>2
      <4> QED BY <4>1, <4>4, <4>5, <4>6
    <3>2. ASSUME NEW ok \in BOOLEAN, DaemonJobEnds(s, ok)
          PROVE  \E unit \in UnitStates, jobs \in SUBSET Jobs, inbox \in Seq(Signals) :
                   world' = ManagerStep(world, s, unit, jobs, inbox)
      <4>1. world' = ManagerStep(world, s, world.unit[s], {},
                                 Append(world.inbox[s], JobRemoved("daemon", ok)))
        BY <3>2 DEF DaemonJobEnds
      <4>2. JobRemoved("daemon", ok) \in Signals
        BY <2>3 DEF Jobs
      <4>3. Append(world.inbox[s], JobRemoved("daemon", ok)) \in Seq(Signals)
        BY <2>2, <4>2
      <4> QED BY <2>2, <4>1, <4>3
    <3>3. ASSUME NEW how \in {"exited", "failed"}, UnitEnds(s, how)
          PROVE  \E unit \in UnitStates, jobs \in SUBSET Jobs, inbox \in Seq(Signals) :
                   world' = ManagerStep(world, s, unit, jobs, inbox)
      <4>1. world' = ManagerStep(world, s, how, world.jobs[s],
                                 Append(world.inbox[s], PropertiesChanged))
        BY <3>3 DEF UnitEnds
      <4>2. how \in UnitStates
        BY DEF UnitStates
      <4>3. Append(world.inbox[s], PropertiesChanged) \in Seq(Signals)
        BY <2>2, <2>3
      <4> QED BY <2>2, <4>1, <4>2, <4>3
    <3>4. ASSUME ManagerLost(s)
          PROVE  \E unit \in UnitStates, jobs \in SUBSET Jobs, inbox \in Seq(Signals) :
                   world' = ManagerStep(world, s, unit, jobs, inbox)
      <4>1. world' = ManagerStep(world, s, "gone", {},
                                 Append(world.inbox[s], Disconnected))
        BY <3>4 DEF ManagerLost
      <4>2. "gone" \in UnitStates
        BY DEF UnitStates
      <4>3. Append(world.inbox[s], Disconnected) \in Seq(Signals)
        BY <2>2, <2>3
      <4> QED BY <4>1, <4>2, <4>3
    <3> QED BY <1>7, <3>1, <3>2, <3>3, <3>4 DEF Manager
  <2>5. WorldInv(ManagerStep(world, s, unit, jobs, inbox))
    BY <2>1, ManagerKeeps
  <2> QED BY <2>1, <2>4, <2>5
<1>8. CASE UNCHANGED vars
  BY <1>8 DEF vars
<1> QED BY <1>1, <1>2, <1>3, <1>4, <1>5, <1>6, <1>7, <1>8 DEF Next, Daemon

\* The inductive invariant holds in every reachable state.
LEMMA Invariance == Spec => []Inv
<1>1. Init => Inv
  <2> HAVE Init
  <2>1. world = NoWorld /\ phase = "booting"
    BY DEF Init
  <2> QED BY <2>1, NoWorldInv DEF Inv
<1> QED BY <1>1, StepKeeps, PTL DEF Spec

\* A dispatch under way serves one session and may handle another message, and
\* only a session that is there can be deaf.
PeersInv ==
  /\ batch \in Batches \cup {NoBatch}
  /\ deaf \in SUBSET DOMAIN world.sessions

\* The handlers between two dispatches keep no dispatch and drop the peers of
\* the sessions they end.
LEMMA BetweenKeeps == PeersInv /\ Between => PeersInv'
<1>1. PeersInv /\ Between => batch' \in Batches \cup {NoBatch}
  BY DEF PeersInv, Between
<1>2. PeersInv /\ Between => deaf' \in SUBSET DOMAIN world'.sessions
  BY DEF PeersInv, Between, PeersFollow
<1> QED BY <1>1, <1>2 DEF PeersInv, Batches, NoBatch

\* One more message of a dispatch.
LEMMA DispatchKeepsPeers ==
  ASSUME PeersInv, NEW s \in Ids, Dispatch(s) PROVE PeersInv'
<1> DEFINE now == Continued(s)
           over == s \notin DOMAIN world'.sessions \/ world'.inbox[s] = <<>> \/ now.left = 0
<1>1. /\ batch' = IF over THEN NoBatch ELSE now
      /\ deaf' \subseteq DOMAIN world'.sessions
  BY DEF Dispatch, EndOfDispatch
<1>2. /\ now.source \in Ids /\ now.last \in BOOLEAN
      /\ now.left \in 0..MaxBatch - 1
      /\ now = [source |-> now.source, left |-> now.left, last |-> now.last]
  <2>1. MaxBatch \in Nat /\ MaxBatch > 0
    BY SessionAssumption
  <2>2. CASE batch = NoBatch
    BY <2>1, <2>2 DEF Continued
  <2>3. CASE batch # NoBatch
    <3>1. batch \in Batches
      BY <2>3 DEF PeersInv
    <3> QED BY <2>1, <2>3, <3>1 DEF Continued, Batches
  <2> QED BY <2>2, <2>3
<1>3. MaxBatch \in Nat /\ MaxBatch > 0
  BY SessionAssumption
<1> HIDE DEF now
<1>4. ASSUME ~over PROVE now \in Batches
  BY <1>2, <1>3, <1>4 DEF Batches
<1>5. batch' \in Batches \cup {NoBatch}
  BY <1>1, <1>4
<1> QED BY <1>1, <1>5 DEF PeersInv, Batches, NoBatch

\* The user managers leave the table of sessions and its peers alone.
LEMMA ManagerKeepsPeers ==
  ASSUME Inv, PeersInv, NEW s \in Ids, Manager(s) PROVE PeersInv'
<1>1. batch' = batch /\ deaf' = deaf
  BY DEF Manager, SessionJobEnds, DaemonJobEnds, UnitEnds, ManagerLost
<1>2. PICK unit, jobs, inbox : world' = ManagerStep(world, s, unit, jobs, inbox)
  <2>1. ASSUME NEW ok \in BOOLEAN, SessionJobEnds(s, ok)
        PROVE  \E unit, jobs, inbox : world' = ManagerStep(world, s, unit, jobs, inbox)
    BY <2>1 DEF SessionJobEnds
  <2>2. ASSUME NEW ok \in BOOLEAN, DaemonJobEnds(s, ok)
        PROVE  \E unit, jobs, inbox : world' = ManagerStep(world, s, unit, jobs, inbox)
    BY <2>2 DEF DaemonJobEnds
  <2>3. ASSUME NEW how \in {"exited", "failed"}, UnitEnds(s, how)
        PROVE  \E unit, jobs, inbox : world' = ManagerStep(world, s, unit, jobs, inbox)
    BY <2>3 DEF UnitEnds
  <2>4. ASSUME ManagerLost(s)
        PROVE  \E unit, jobs, inbox : world' = ManagerStep(world, s, unit, jobs, inbox)
    BY <2>4 DEF ManagerLost
  <2> QED BY <2>1, <2>2, <2>3, <2>4 DEF Manager
<1>3. world'.sessions = world.sessions
  BY <1>2 DEF ManagerStep, Inv, WorldInv, WorldOK, Worlds
<1> QED BY <1>1, <1>3 DEF PeersInv, Batches, NoBatch

\* The session table, the queues, the process states and the dispatch of the
\* peers' sources are always well-formed.
THEOREM TypeCorrect == Spec => []TypeOK
<1>1. Init => PeersInv
  BY DEF Init, PeersInv
<1>2. Inv /\ PeersInv /\ [Next]_vars => PeersInv'
  <2> SUFFICES ASSUME Inv, PeersInv, [Next]_vars PROVE PeersInv'
    OBVIOUS
  <2>1. CASE Between
    BY <2>1, BetweenKeeps
  <2>2. CASE \E s \in Ids : Dispatch(s)
    BY <2>2, DispatchKeepsPeers
  <2>3. CASE \E s \in Ids : Manager(s)
    BY <2>3, ManagerKeepsPeers
  <2>4. CASE UNCHANGED vars
    BY <2>4 DEF vars, PeersInv, Batches, NoBatch
  <2>5. Next => Between \/ (\E s \in Ids : Dispatch(s)) \/ (\E s \in Ids : Manager(s))
    BY DEF Next, Daemon, Start, OnCreateSession, OnStopSession, InstallerTimer, Shutdown
  <2> QED BY <2>1, <2>2, <2>3, <2>4, <2>5
<1>3. Inv /\ PeersInv => TypeOK
  BY DEF Inv, WorldInv, WorldOK, PeersInv, TypeOK
<1> QED BY <1>1, <1>2, <1>3, Invariance, PTL DEF Spec

\* The login screen never runs beside a user's session, and its flag and id
\* agree: what OnCreateSession and StopSession decide on is exact.
THEOREM GreeterIsAlone == Spec => []GreeterAlone
<1>1. Inv => GreeterAlone
  BY DEF Inv, WorldInv, GreeterAlone
<1> QED BY <1>1, Invariance, PTL

\* PAM leaders, installer timers, units and queued signals exist exactly for
\* registered sessions, through failed logins, logouts in any order and crashes
\* of units and user managers.
THEOREM OrphanFree == Spec => []NoOrphans
<1>1. Inv => NoOrphans
  BY DEF Inv, WorldInv, NoOrphans
<1> QED BY <1>1, Invariance, PTL

-----------------------------------------------------------------------------
(* Start jobs: what the user managers owe the daemon.                      *)

\* No start job is announced twice.
NoDuplicates(q) ==
  \A k, l \in DOMAIN q :
    q[k].kind = "job" /\ q[l].kind = "job" /\ q[k].job = q[l].job => k = l

\* A start job is with the user manager, or its JobRemoved is queued once, or the
\* daemon knows of its end; the unit waits for its job only, and a connection that
\* reports its end has ended.
Accounted(w, s) ==
  /\ w.sessions[s].starting <=> w.sessions[s].startJobs # {}
  /\ w.unit[s] # "gone" =>
       w.sessions[s].startJobs = w.jobs[s] \cup QueuedJobs(w.inbox[s])
  /\ w.jobs[s] \cap QueuedJobs(w.inbox[s]) = {}
  /\ NoDuplicates(w.inbox[s])
  /\ w.unit[s] # "none"
  /\ w.unit[s] = "pending" => "session" \in w.jobs[s]
  /\ \A k \in DOMAIN w.inbox[s] : w.inbox[s][k].kind = "disconnected" => w.unit[s] = "gone"

AllAccounted(w) == \A s \in DOMAIN w.sessions : Accounted(w, s)

\* The login screen is well, if it never ends.
GreeterWell(w, s) ==
  w.sessions[s].user = GreeterUser =>
    /\ w.unit[s] \in {"pending", "active"}
    /\ \A k \in DOMAIN w.inbox[s] :
         w.inbox[s][k].kind # "disconnected" /\ w.inbox[s][k].done

-----------------------------------------------------------------------------
(* Which sessions there are after a handler, and what is new about them.   *)

\* Nothing about session x has changed but the seat and the greeter's id.
Same(w, v, x) ==
  /\ v.sessions[x] = w.sessions[x] /\ v.unit[x] = w.unit[x]
  /\ v.jobs[x] = w.jobs[x] /\ v.inbox[x] = w.inbox[x]

\* Session x was just opened: both of its start jobs are still to end.
Opened(v, x) ==
  /\ v.sessions[x].starting /\ v.sessions[x].startJobs = Jobs
  /\ v.unit[x] = "pending" /\ v.jobs[x] = Jobs /\ v.inbox[x] = <<PropertiesChanged>>

\* A handler that takes w to v leaves a session as it is, ends it or opens it.
Follows(w, v) ==
  \A x \in DOMAIN v.sessions : Opened(v, x) \/ (x \in DOMAIN w.sessions /\ Same(w, v, x))

\* What follows what follows a world follows it.
LEMMA FollowsTransitive ==
  ASSUME NEW u, NEW v, NEW w, Follows(u, v), Follows(v, w)
  PROVE  Follows(u, w)
  BY DEF Follows, Opened, Same

\* A world follows itself.
LEMMA FollowsItself == ASSUME NEW w PROVE Follows(w, w)
  BY DEF Follows, Same

\* What is left of a world when a session closes follows it; the seat moves only if the session had it.
LEMMA CloseFollows ==
  ASSUME NEW w, WorldOK(w), ResourcesOf(w), NEW s \in DOMAIN w.sessions
  PROVE  /\ Follows(w, CloseSession(w, s))
         /\ w.seat # s => CloseSession(w, s).seat = w.seat
<1> DEFINE c == CloseSession(w, s)
<1>1. w \in Worlds([DOMAIN w.sessions -> SessionInfo]) /\ s \in Ids /\ DOMAIN w.sessions \subseteq Ids
  BY DEF WorldOK
<1>2. /\ c.unit = [w.unit EXCEPT ![s] = "none"] /\ c.jobs = [w.jobs EXCEPT ![s] = {}]
      /\ c.inbox = [w.inbox EXCEPT ![s] = <<>>]
      /\ c.seat = IF w.seat = s THEN NoId ELSE w.seat
  BY <1>1 DEF CloseSession, Worlds
<1>3. /\ DOMAIN c.sessions = DOMAIN w.sessions \ {s}
      /\ \A x \in DOMAIN w.sessions \ {s} : c.sessions[x] = w.sessions[x]
  BY CloseKeeps
<1> HIDE DEF c
<1>4. w.unit \in [Ids -> UnitStates] /\ w.jobs \in [Ids -> SUBSET Jobs] /\ w.inbox \in [Ids -> Seq(Signals)]
  BY <1>1 DEF Worlds
<1>5. \A x \in DOMAIN w.sessions \ {s} : Same(w, c, x)
  BY <1>1, <1>2, <1>3, <1>4 DEF Same
<1> QED
  BY <1>2, <1>3, <1>5 DEF Follows, c

\* The world with a session opened follows it, and the session may have the seat.
LEMMA OpenFollows ==
  ASSUME NEW w, WorldOK(w), ResourcesOf(w), NEW n \in Free(w), NEW u \in Accounts
  PROVE  /\ Follows(w, OpenSession(w, n, u))
         /\ OpenSession(w, n, u).seat = n /\ OpenSession(w, n, u).sessions[n].starting
<1> DEFINE c == OpenSession(w, n, u)
<1>1. w \in Worlds([DOMAIN w.sessions -> SessionInfo]) /\ n \in Ids \ DOMAIN w.sessions
  BY DEF WorldOK, Free
<1>2. /\ c.unit = [w.unit EXCEPT ![n] = "pending"] /\ c.jobs = [w.jobs EXCEPT ![n] = Jobs]
      /\ c.inbox = [w.inbox EXCEPT ![n] = <<PropertiesChanged>>]
      /\ c.seat = n /\ c.sessions = Register(w.sessions, n, NewSession(u))
  BY <1>1 DEF OpenSession, Worlds
<1> HIDE DEF c
<1>3. w.unit \in [Ids -> UnitStates] /\ w.jobs \in [Ids -> SUBSET Jobs] /\ w.inbox \in [Ids -> Seq(Signals)]
  BY <1>1 DEF Worlds
<1>4. /\ DOMAIN c.sessions = DOMAIN w.sessions \cup {n} /\ c.sessions[n] = NewSession(u)
      /\ \A x \in DOMAIN w.sessions : c.sessions[x] = w.sessions[x]
  BY <1>1, <1>2 DEF Register
<1>5. Opened(c, n)
  BY <1>1, <1>2, <1>3, <1>4 DEF Opened, NewSession
<1>6. \A x \in DOMAIN w.sessions : Same(w, c, x)
  BY <1>1, <1>2, <1>3, <1>4 DEF Same, WorldOK
<1> QED
  BY <1>2, <1>4, <1>5, <1>6 DEF Follows, c, Opened

\* The world with another greeter follows it.
LEMMA GreeterFollows ==
  ASSUME NEW w, WorldOK(w), NEW id, NEW active
  PROVE  /\ Follows(w, SetGreeter(w, id, active))
         /\ SetGreeter(w, id, active).seat = w.seat
         /\ SetGreeter(w, id, active).sessions = w.sessions
<1> DEFINE c == SetGreeter(w, id, active)
<1>1. w \in Worlds([DOMAIN w.sessions -> SessionInfo])
  BY DEF WorldOK
<1>2. /\ c.sessions = w.sessions /\ c.unit = w.unit /\ c.jobs = w.jobs /\ c.inbox = w.inbox
      /\ c.seat = w.seat
  BY <1>1 DEF SetGreeter, Worlds
<1> QED
  BY <1>2 DEF Follows, Same

\* The world with the seat switched follows it.
LEMMA SeatFollows ==
  ASSUME NEW w, WorldOK(w), NEW id, NEW c, c = [w EXCEPT !.seat = id]
  PROVE  Follows(w, c) /\ c.seat = id /\ c.sessions = w.sessions
<1>1. w \in Worlds([DOMAIN w.sessions -> SessionInfo])
  BY DEF WorldOK
<1>2. /\ c.sessions = w.sessions /\ c.unit = w.unit /\ c.jobs = w.jobs /\ c.inbox = w.inbox
      /\ c.seat = id
  BY <1>1 DEF Worlds
<1> QED
  BY <1>2 DEF Follows, Same

\* The world without the login screen follows it; the seat moves only if the greeter had it.
LEMMA StopLoginFollows ==
  ASSUME NEW w, WorldOK(w), ResourcesOf(w), GreeterNotStale(w)
  PROVE  /\ Follows(w, StopLoginSession(w))
         /\ w.seat # w.greeterId => StopLoginSession(w).seat = w.seat
<1>1. CASE w.greeterActive
  <2> DEFINE c == CloseSession(w, w.greeterId)
  <2>1. w.greeterId \in DOMAIN w.sessions /\ StopLoginSession(w) = SetGreeter(c, NoId, FALSE)
    BY <1>1 DEF GreeterNotStale, StopLoginSession
  <2>2. WorldOK(c) /\ Follows(w, c) /\ (w.seat # w.greeterId => c.seat = w.seat)
    BY <2>1, CloseKeeps, CloseFollows
  <2> HIDE DEF c
  <2>3. Follows(c, SetGreeter(c, NoId, FALSE)) /\ SetGreeter(c, NoId, FALSE).seat = c.seat
    BY <2>2, GreeterFollows
  <2> QED
    BY <2>1, <2>2, <2>3, FollowsTransitive
<1>2. CASE ~w.greeterActive
  BY <1>2, FollowsItself DEF StopLoginSession
<1> QED
  BY <1>1, <1>2

\* A login that succeeds is shown on the seat, and ends the greeter at most.
LEMMA CreateFollows ==
  ASSUME NEW w, WorldInv(w), GreeterNotStale(w), NEW u \in Users, NEW answer,
         NEW v, v = CreateSession(w, u, FALSE, answer)
  PROVE  /\ Follows(w, v)
         /\ Opens(w, answer) =>
              /\ DOMAIN w.sessions \ DOMAIN v.sessions \subseteq {w.greeterId}
              /\ v.seat \in DOMAIN v.sessions /\ v.sessions[v.seat].starting
         /\ ~Opens(w, answer) => v.sessions = w.sessions
         /\ ~Opens(w, answer) /\ answer # "startup" => v = w
<1>1. CASE Opens(w, answer)
  <2> DEFINE n == NewId(w)
             o == OpenSession(w, n, u)
             r == StopLoginSession(o)
  <2>1. v = r
    BY <1>1 DEF CreateSession
  <2>2. n \in Free(w) /\ n \in Ids /\ n # w.greeterId /\ n \notin DOMAIN w.sessions
    BY <1>1, NewIdFree DEF Free
  <2>3. u \in Accounts
    BY DEF Accounts
  <2> HIDE DEF n
  <2>4. /\ WorldOK(o) /\ ResourcesOf(o) /\ DOMAIN o.sessions = DOMAIN w.sessions \cup {n}
        /\ o.greeterId = w.greeterId /\ o.greeterActive = w.greeterActive
        /\ Follows(w, o) /\ o.seat = n /\ o.sessions[n].starting
    BY <2>2, <2>3, OpenKeeps, OpenFollows DEF WorldInv
  <2> HIDE DEF o
  <2>5. GreeterNotStale(o)
    BY <2>4 DEF GreeterNotStale
  <2>6. /\ o.greeterActive =>
             /\ DOMAIN r.sessions = DOMAIN o.sessions \ {o.greeterId}
             /\ \A x \in DOMAIN o.sessions \ {o.greeterId} : r.sessions[x] = o.sessions[x]
        /\ ~o.greeterActive => r = o
    BY <2>4, <2>5, StopLoginKeeps
  <2>7. Follows(o, r) /\ r.seat = n
    BY <2>2, <2>4, <2>5, StopLoginFollows
  <2> HIDE DEF r
  <2>8. Follows(w, r)
    BY <2>4, <2>7, FollowsTransitive
  <2>9. n \in DOMAIN r.sessions /\ r.sessions[n] = o.sessions[n]
    BY <2>2, <2>4, <2>6
  <2> QED
    BY <1>1, <2>1, <2>4, <2>6, <2>7, <2>8, <2>9
<1>2. CASE ~Opens(w, answer) /\ answer = "startup"
  <2>1. v = [w EXCEPT !.seat = NoId]
    BY <1>2 DEF CreateSession
  <2>2. WorldOK(w)
    BY DEF WorldInv
  <2> DEFINE c == [w EXCEPT !.seat = NoId]
  <2>3. Follows(w, c) /\ c.sessions = w.sessions
    BY <2>2, SeatFollows
  <2> HIDE DEF c
  <2> QED
    BY <1>2, <2>1, <2>3 DEF c
<1>3. CASE ~Opens(w, answer) /\ answer # "startup"
  BY <1>3, FollowsItself DEF CreateSession
<1> QED
  BY <1>1, <1>2, <1>3

\* An automatic login into a seat without sessions.
LEMMA AutologinFollows ==
  ASSUME NEW w, WorldInv(w), ~w.greeterActive, NEW answer,
         NEW v, v = TryAutologinSession(w, answer)
  PROVE  /\ WorldInv(v) /\ ~v.greeterActive /\ Follows(w, v)
         /\ ~AutologinOpens(w, answer) => v.sessions = w.sessions
         /\ AutologinOpens(w, answer) => v.seat \in DOMAIN v.sessions
<1>1. CASE Autologin = NoUser
  BY <1>1, FollowsItself DEF TryAutologinSession, AutologinOpens
<1>2. CASE Autologin # NoUser
  <2>1. Autologin \in Users
    BY <1>2, SessionAssumption DEF Autologin
  <2>2. v = CreateSession(w, Autologin, FALSE, answer)
    BY <1>2 DEF TryAutologinSession
  <2>3. GreeterNotStale(w)
    BY DEF GreeterNotStale
  <2>4. AutologinOpens(w, answer) <=> Opens(w, answer)
    BY <1>2 DEF AutologinOpens
  <2>5. /\ WorldInv(CreateSession(w, Autologin, FALSE, answer))
        /\ ~CreateSession(w, Autologin, FALSE, answer).greeterActive
    BY <2>1, <2>3, CreateKeeps
  <2>6. Follows(w, CreateSession(w, Autologin, FALSE, answer))
    BY <2>1, <2>3, CreateFollows
  <2>7. ~Opens(w, answer) => CreateSession(w, Autologin, FALSE, answer).sessions = w.sessions
    BY <2>1, <2>3, CreateKeeps
  <2>8. Opens(w, answer) =>
          CreateSession(w, Autologin, FALSE, answer).seat
            \in DOMAIN CreateSession(w, Autologin, FALSE, answer).sessions
    BY <2>1, <2>3, <2>6, CreateFollows
  <2> QED
    BY <2>2, <2>4, <2>5, <2>6, <2>7, <2>8
<1> QED
  BY <1>1, <1>2

\* Bringing up the login screen takes no session away: there is none.
LEMMA CreateLoginFollows ==
  ASSUME NEW w, WorldInv(w), ~w.greeterActive, DOMAIN w.sessions = {}, NEW a,
         NEW v, v = CreateLoginSession(w, a)
  PROVE  Follows(w, v)
<1> DEFINE tried == TryAutologinSession(w, a.auto)
           greeted == CreateSession(tried, GreeterUser, TRUE, a.greeter)
<1>1. WorldInv(tried) /\ ~tried.greeterActive /\ Follows(w, tried)
  BY AutologinFollows
<1>2. CASE AutologinOpens(w, a.auto)
  BY <1>1, <1>2 DEF CreateLoginSession
<1>3. CASE ~AutologinOpens(w, a.auto) /\ Opens(tried, a.greeter)
  <2> DEFINE n == NewId(tried)
             o == OpenSession(tried, n, GreeterUser)
  <2>1. v = SetGreeter(o, n, TRUE)
    BY <1>3 DEF CreateLoginSession, CreateSession
  <2>2. n \in Free(tried) /\ GreeterUser \in Accounts
    BY <1>3, NewIdFree DEF Accounts
  <2> HIDE DEF n, tried
  <2>3. WorldOK(o) /\ Follows(tried, o)
    BY <1>1, <2>2, OpenKeeps, OpenFollows DEF WorldInv
  <2> HIDE DEF o
  <2>4. Follows(o, v)
    BY <2>1, <2>3, GreeterFollows
  <2> QED
    BY <1>1, <2>3, <2>4, FollowsTransitive
<1>4. CASE ~AutologinOpens(w, a.auto) /\ ~Opens(tried, a.greeter)
  <2>1. v = greeted
    BY <1>4 DEF CreateLoginSession
  <2> HIDE DEF tried
  <2>2. CASE a.greeter = "startup"
    <3> DEFINE c == [tried EXCEPT !.seat = NoId]
    <3>1. v = c
      BY <1>4, <2>1, <2>2 DEF CreateSession
    <3>2. WorldOK(tried)
      BY <1>1 DEF WorldInv
    <3>3. Follows(tried, c)
      BY <3>2, SeatFollows
    <3> HIDE DEF c
    <3> QED
      BY <1>1, <3>1, <3>3, FollowsTransitive
  <2>3. CASE a.greeter # "startup"
    BY <1>1, <1>4, <2>1, <2>3 DEF CreateSession
  <2> QED
    BY <2>2, <2>3
<1> QED
  BY <1>2, <1>3, <1>4

\* Stopping a session ends that one only.
LEMMA StopFollows ==
  ASSUME NEW w, WorldInv(w), NEW s \in DOMAIN w.sessions, NEW a,
         NEW v, v = StopSession(w, s, a)
  PROVE  Follows(w, v) /\ DOMAIN w.sessions \ DOMAIN v.sessions \subseteq {s}
<1> DEFINE c == CloseSession(w, s)
<1>1. /\ WorldOK(c) /\ ResourcesOf(c) /\ DOMAIN c.sessions = DOMAIN w.sessions \ {s}
      /\ \A x \in DOMAIN w.sessions \ {s} : c.sessions[x] = w.sessions[x]
      /\ c.greeterId = w.greeterId /\ c.greeterActive = w.greeterActive
      /\ Follows(w, c)
  BY CloseKeeps, CloseFollows DEF WorldInv
<1>2. v = c \/ (v = AfterLogout(c, a) /\ ~w.greeterActive)
  BY DEF StopSession
<1> HIDE DEF c
<1>3. WorldInv(c)
  BY <1>1 DEF WorldInv, GreeterExclusive
<1>4. CASE v = c
  BY <1>1, <1>4
<1>5. CASE v = AfterLogout(c, a) /\ ~w.greeterActive
  <2>1. CASE DOMAIN c.sessions = {}
    <3>1. Follows(c, v)
      BY <1>1, <1>3, <1>5, <2>1, CreateLoginFollows DEF AfterLogout
    <3> QED
      BY <1>1, <2>1, <3>1, FollowsTransitive
  <2>2. CASE DOMAIN c.sessions # {} /\ a.activate = "ok"
    <3> DEFINE r == [c EXCEPT !.seat = First(c.sessions)]
    <3>1. v = r
      BY <1>5, <2>2 DEF AfterLogout
    <3>2. Follows(c, r) /\ r.sessions = c.sessions
      BY <1>1, SeatFollows
    <3> HIDE DEF r
    <3> QED
      BY <1>1, <3>1, <3>2, FollowsTransitive
  <2>3. CASE DOMAIN c.sessions # {} /\ a.activate # "ok"
    BY <1>1, <1>5, <2>3 DEF AfterLogout
  <2> QED
    BY <2>1, <2>2, <2>3
<1> QED
  BY <1>2, <1>4, <1>5

-----------------------------------------------------------------------------
(* Start jobs and their signals.                                           *)

\* A job is queued if a signal of it is.
LEMMA QueuedMember ==
  ASSUME NEW q, NEW j
  PROVE  j \in QueuedJobs(q) <=> \E k \in DOMAIN q : q[k].kind = "job" /\ q[k].job = j
  BY DEF QueuedJobs

\* No job is queued in an empty queue, nor by a change of properties.
LEMMA QueuedNone == QueuedJobs(<<>>) = {} /\ QueuedJobs(<<PropertiesChanged>>) = {}
  BY DEF QueuedJobs, PropertiesChanged

\* A signal that is queued adds its job.
LEMMA QueuedAppend ==
  ASSUME NEW q \in Seq(Signals), NEW x \in Signals
  PROVE  QueuedJobs(Append(q, x)) = QueuedJobs(q) \cup (IF x.kind = "job" THEN {x.job} ELSE {})
<1> DEFINE r == Append(q, x)
<1>1. /\ DOMAIN r = 1 .. Len(q) + 1 /\ r[Len(q) + 1] = x
      /\ DOMAIN q = 1 .. Len(q) /\ Len(q) \in Nat
      /\ \A k \in 1 .. Len(q) : r[k] = q[k]
  OBVIOUS
<1> HIDE DEF r
<1>2. ASSUME NEW j
      PROVE  j \in QueuedJobs(r) <=> j \in QueuedJobs(q) \/ (x.kind = "job" /\ x.job = j)
  BY <1>1, QueuedMember
<1> QED
  BY <1>2 DEF r

\* A signal that is taken takes its job, which is queued once.
LEMMA QueuedTail ==
  ASSUME NEW q \in Seq(Signals), q # <<>>
  PROVE  /\ QueuedJobs(q) = QueuedJobs(Tail(q)) \cup (IF Head(q).kind = "job" THEN {Head(q).job} ELSE {})
         /\ NoDuplicates(q) => NoDuplicates(Tail(q))
         /\ NoDuplicates(q) /\ Head(q).kind = "job" => Head(q).job \notin QueuedJobs(Tail(q))
<1> DEFINE r == Tail(q)
<1>1. /\ DOMAIN r = 1 .. Len(q) - 1 /\ DOMAIN q = 1 .. Len(q) /\ Len(q) \in Nat \ {0}
      /\ \A k \in 1 .. Len(q) - 1 : r[k] = q[k + 1]
      /\ Head(q) = q[1]
  OBVIOUS
<1> HIDE DEF r
<1>2. \A k \in DOMAIN q : k = 1 \/ (k - 1 \in DOMAIN r /\ r[k - 1] = q[k])
  BY <1>1
<1>3. \A k \in DOMAIN r : k + 1 \in DOMAIN q /\ q[k + 1] = r[k] /\ k + 1 # 1
  BY <1>1
<1>4. ASSUME NEW j
      PROVE  j \in QueuedJobs(q) <=> j \in QueuedJobs(r) \/ (q[1].kind = "job" /\ q[1].job = j)
  <2>1. ASSUME j \in QueuedJobs(q) PROVE j \in QueuedJobs(r) \/ (q[1].kind = "job" /\ q[1].job = j)
    <3>1. PICK k \in DOMAIN q : q[k].kind = "job" /\ q[k].job = j
      BY <2>1, QueuedMember
    <3>2. k = 1 \/ (k - 1 \in DOMAIN r /\ r[k - 1].kind = "job" /\ r[k - 1].job = j)
      BY <1>2, <3>1
    <3> QED
      BY <3>1, <3>2, QueuedMember
  <2>2. ASSUME j \in QueuedJobs(r) PROVE j \in QueuedJobs(q)
    <3>1. PICK k \in DOMAIN r : r[k].kind = "job" /\ r[k].job = j
      BY <2>2, QueuedMember
    <3> QED
      BY <1>3, <3>1, QueuedMember
  <2>3. 1 \in DOMAIN q
    BY <1>1
  <2> QED
    BY <2>1, <2>2, <2>3, QueuedMember
<1>5. NoDuplicates(q) => NoDuplicates(r)
  BY <1>1, <1>3 DEF NoDuplicates
<1>6. NoDuplicates(q) /\ q[1].kind = "job" => q[1].job \notin QueuedJobs(r)
  <2> SUFFICES ASSUME NoDuplicates(q), q[1].kind = "job", q[1].job \in QueuedJobs(r) PROVE FALSE
    OBVIOUS
  <2>1. PICK k \in DOMAIN r : r[k].kind = "job" /\ r[k].job = q[1].job
    BY QueuedMember
  <2> QED
    BY <1>1, <1>3, <2>1 DEF NoDuplicates
<1> QED
  BY <1>1, <1>4, <1>5, <1>6 DEF r

\* A new job does not make a queue have one twice.
LEMMA DuplicatesAppend ==
  ASSUME NEW q \in Seq(Signals), NEW x \in Signals, NoDuplicates(q),
         x.kind = "job" => x.job \notin QueuedJobs(q)
  PROVE  NoDuplicates(Append(q, x))
<1> DEFINE r == Append(q, x)
<1>1. /\ DOMAIN r = 1 .. Len(q) + 1 /\ r[Len(q) + 1] = x
      /\ DOMAIN q = 1 .. Len(q) /\ Len(q) \in Nat
      /\ \A k \in 1 .. Len(q) : r[k] = q[k]
  OBVIOUS
<1> HIDE DEF r
<1>2. \A k \in DOMAIN r : k = Len(q) + 1 \/ k \in DOMAIN q
  BY <1>1
<1>3. NoDuplicates(r)
  BY <1>1, <1>2, QueuedMember DEF NoDuplicates
<1> QED
  BY <1>3 DEF r

\* What opens and closes sessions keeps their jobs accounted for.
LEMMA FollowsAccounted ==
  ASSUME NEW w, NEW v, AllAccounted(w), Follows(w, v)
  PROVE  AllAccounted(v)
<1> SUFFICES ASSUME NEW x \in DOMAIN v.sessions PROVE Accounted(v, x)
  BY DEF AllAccounted
<1>1. CASE Opened(v, x)
  <2>1. DOMAIN v.inbox[x] = {1} /\ v.inbox[x][1] = PropertiesChanged
    BY <1>1 DEF Opened
  <2>2. NoDuplicates(v.inbox[x])
    BY <2>1 DEF NoDuplicates
  <2>3. QueuedJobs(v.inbox[x]) = {}
    BY <1>1, QueuedNone DEF Opened
  <2>4. \A k \in DOMAIN v.inbox[x] : v.inbox[x][k].kind # "disconnected"
    BY <2>1 DEF PropertiesChanged
  <2> QED
    BY <1>1, <2>2, <2>3, <2>4 DEF Opened, Accounted, Jobs
<1>2. CASE x \in DOMAIN w.sessions /\ Same(w, v, x)
  BY <1>2 DEF Same, AllAccounted, Accounted
<1> QED
  BY <1>1, <1>2 DEF Follows

\* An amended record leaves the rest as it is.
LEMMA AmendSame ==
  ASSUME NEW w, WorldOK(w), NEW s \in DOMAIN w.sessions, NEW info, NEW timers,
         NEW c, c = Amend(w, s, info, timers)
  PROVE  /\ c.unit = w.unit /\ c.jobs = w.jobs /\ c.inbox = w.inbox /\ c.seat = w.seat
         /\ DOMAIN c.sessions = DOMAIN w.sessions /\ c.sessions[s] = info
         /\ \A x \in DOMAIN w.sessions \ {s} : c.sessions[x] = w.sessions[x]
<1>1. w \in Worlds([DOMAIN w.sessions -> SessionInfo])
  BY DEF WorldOK
<1>2. /\ c.unit = w.unit /\ c.jobs = w.jobs /\ c.inbox = w.inbox /\ c.seat = w.seat
      /\ c.sessions = [w.sessions EXCEPT ![s] = info]
  BY <1>1, AmendFields
<1>3. w.sessions \in [DOMAIN w.sessions -> SessionInfo]
  BY <1>1 DEF Worlds
<1> QED
  BY <1>2, <1>3

\* A user manager touches the entries of its session.
LEMMA ManagerSame ==
  ASSUME NEW w, WorldOK(w), NEW s \in DOMAIN w.sessions, NEW unit, NEW jobs, NEW inbox,
         NEW c, c = ManagerStep(w, s, unit, jobs, inbox)
  PROVE  /\ c.sessions = w.sessions /\ c.timers = w.timers /\ c.seat = w.seat
         /\ c.unit[s] = unit /\ c.jobs[s] = jobs /\ c.inbox[s] = inbox
         /\ \A x \in DOMAIN w.sessions \ {s} : Same(w, c, x)
<1>1. w \in Worlds([DOMAIN w.sessions -> SessionInfo]) /\ DOMAIN w.sessions \subseteq Ids
  BY DEF WorldOK
<1>2. c.sessions = w.sessions /\ c.timers = w.timers /\ c.seat = w.seat
  BY <1>1, ManagerFields
<1>3. /\ c.unit = [w.unit EXCEPT ![s] = unit] /\ c.jobs = [w.jobs EXCEPT ![s] = jobs]
      /\ c.inbox = [w.inbox EXCEPT ![s] = inbox]
  BY <1>1, ManagerFields
<1> QED
  BY <1>1, <1>2, <1>3 DEF Worlds, Same

\* So does what changes neither a session's jobs nor that it is starting.
LEMMA AmendAccounted ==
  ASSUME NEW w, WorldOK(w), AllAccounted(w), NEW s \in DOMAIN w.sessions, NEW info, NEW timers,
         info.starting = w.sessions[s].starting, info.startJobs = w.sessions[s].startJobs
  PROVE  AllAccounted(Amend(w, s, info, timers))
<1> DEFINE c == Amend(w, s, info, timers)
<1>1. /\ c.unit = w.unit /\ c.jobs = w.jobs /\ c.inbox = w.inbox
      /\ DOMAIN c.sessions = DOMAIN w.sessions /\ c.sessions[s] = info
      /\ \A x \in DOMAIN w.sessions \ {s} : c.sessions[x] = w.sessions[x]
  BY AmendSame
<1> HIDE DEF c
<1>2. AllAccounted(c)
  BY <1>1 DEF AllAccounted, Accounted
<1> QED
  BY <1>2 DEF c

\* A unit that ended is why a snapshot ends a session, and nothing else is.
LEMMA RefreshFollows ==
  ASSUME NEW w, WorldInv(w), AllAccounted(w), NEW s \in DOMAIN w.sessions, NEW a,
         NEW v, v = RefreshSessionState(w, s, a)
  PROVE  /\ AllAccounted(v)
         /\ DOMAIN w.sessions \ DOMAIN v.sessions \subseteq {s}
         /\ DOMAIN w.sessions \subseteq DOMAIN v.sessions \/ w.unit[s] \in {"exited", "failed"}
<1>1. CASE w.unit[s] = "gone"
  BY <1>1 DEF RefreshSessionState
<1>2. CASE w.unit[s] # "gone"
  <2>1. PICK info, timers :
          /\ info \in SessionInfo
          /\ info.user = w.sessions[s].user
          /\ info.starting = w.sessions[s].starting /\ info.startJobs = w.sessions[s].startJobs
          /\ info.activeState = ActiveState(w.unit[s]) /\ info.result = Result(w.unit[s])
          /\ timers \ {s} = w.timers \ {s} /\ (s \in timers <=> info.installerSource)
          /\ v = IF EvaluateSessionState(info)
                 THEN StopSession(Amend(w, s, info, timers), s, a) ELSE Amend(w, s, info, timers)
    BY <1>2, RefreshSeen
  <2> DEFINE seen == Amend(w, s, info, timers)
  <2>2. WorldOK(w)
    BY DEF WorldInv
  <2>3. DOMAIN seen.sessions = DOMAIN w.sessions
    BY <2>2, AmendSame
  <2>4. AllAccounted(seen)
    BY <2>1, <2>2, AmendAccounted
  <2>5. WorldInv(seen)
    BY <2>1, AmendKeeps
  <2> HIDE DEF seen
  <2>6. CASE EvaluateSessionState(info)
    <3>1. ~w.sessions[s].starting /\ Accounted(w, s)
      BY <2>1, <2>6 DEF EvaluateSessionState, AllAccounted
    <3>2. w.unit[s] \in UnitStates /\ w.unit[s] \notin {"none", "pending", "gone"}
      <4>1. w.unit[s] \in UnitStates
        BY DEF WorldInv, WorldOK, Worlds
      <4> QED
        BY <1>2, <3>1, <4>1 DEF Accounted
    <3>3. w.unit[s] # "active"
      BY <2>1, <2>6 DEF EvaluateSessionState, ActiveState, Result
    <3>4. w.unit[s] \in {"exited", "failed"}
      BY <3>2, <3>3 DEF UnitStates
    <3>5. v = StopSession(seen, s, a)
      BY <2>1, <2>6 DEF seen
    <3>6. Follows(seen, v) /\ DOMAIN seen.sessions \ DOMAIN v.sessions \subseteq {s}
      BY <2>3, <2>5, <3>5, StopFollows
    <3> QED
      BY <2>3, <2>4, <3>4, <3>6, FollowsAccounted
  <2>7. CASE ~EvaluateSessionState(info)
    BY <2>1, <2>3, <2>4, <2>7 DEF seen
  <2> QED
    BY <2>6, <2>7
<1> QED
  BY <1>1, <1>2

\* A handler that keeps the account of session s and does not touch the others.
LEMMA TouchAccounted ==
  ASSUME NEW w, AllAccounted(w), NEW v, NEW s,
         DOMAIN v.sessions \subseteq DOMAIN w.sessions, Accounted(v, s),
         \A x \in DOMAIN v.sessions \ {s} : Same(w, v, x)
  PROVE  AllAccounted(v)
<1> SUFFICES ASSUME NEW x \in DOMAIN v.sessions, x # s PROVE Accounted(v, x)
  BY DEF AllAccounted
<1>1. Same(w, v, x) /\ Accounted(w, x)
  BY DEF AllAccounted
<1> QED
  BY <1>1 DEF Accounted, Same

\* Dispatching a signal: the session it is about is ended if its unit or its user
\* manager ended, or if the signal says that a start job failed.
LEMMA DispatchFollows ==
  ASSUME NEW w, WorldInv(w), AllAccounted(w), NEW s \in DOMAIN w.sessions, 1 \in DOMAIN w.inbox[s],
         NEW a, NEW v,
         v = HandleSignal(ManagerStep(w, s, w.unit[s], w.jobs[s], Tail(w.inbox[s])),
                          s, Head(w.inbox[s]), a)
  PROVE  /\ AllAccounted(v)
         /\ DOMAIN w.sessions \ DOMAIN v.sessions \subseteq {s}
         /\ \/ DOMAIN w.sessions \subseteq DOMAIN v.sessions
            \/ w.unit[s] \in {"exited", "failed", "gone"}
            \/ Head(w.inbox[s]).kind = "job" /\ ~Head(w.inbox[s]).done
<1> DEFINE q == w.inbox[s]
           i == w.sessions[s]
           p == ManagerStep(w, s, w.unit[s], w.jobs[s], Tail(q))
           signal == Head(q)
<1>0. v = HandleSignal(p, s, signal, a)
  OBVIOUS
<1>1. /\ w.unit[s] \in UnitStates /\ w.jobs[s] \in SUBSET Jobs /\ q \in Seq(Signals)
      /\ i \in SessionInfo /\ WorldOK(w)
  BY DEF WorldInv, WorldOK, Worlds
<1>2. q # <<>> /\ signal \in Signals /\ Tail(q) \in Seq(Signals)
  BY <1>1
<1>3. /\ p.sessions = w.sessions /\ p.timers = w.timers
      /\ p.unit[s] = w.unit[s] /\ p.jobs[s] = w.jobs[s] /\ p.inbox[s] = Tail(q)
      /\ \A x \in DOMAIN w.sessions \ {s} : Same(w, p, x)
  BY <1>1, ManagerSame
<1>4. WorldInv(p)
  BY <1>1, <1>2, ManagerKeeps
<1>5. Accounted(w, s)
  BY DEF AllAccounted
<1>6. /\ QueuedJobs(q) = QueuedJobs(Tail(q)) \cup (IF signal.kind = "job" THEN {signal.job} ELSE {})
      /\ NoDuplicates(Tail(q))
      /\ signal.kind = "job" => signal.job \notin QueuedJobs(Tail(q))
  BY <1>1, <1>2, <1>5, QueuedTail DEF Accounted
<1>7. \A k \in DOMAIN Tail(q) : Tail(q)[k].kind = "disconnected" => w.unit[s] = "gone"
  BY <1>1, <1>5 DEF Accounted
<1>8. signal = q[1] /\ 1 \in DOMAIN q
  BY <1>1, <1>2
<1> HIDE DEF p, signal
<1> SUFFICES /\ AllAccounted(v) /\ DOMAIN w.sessions \ DOMAIN v.sessions \subseteq {s}
             /\ \/ DOMAIN w.sessions \subseteq DOMAIN v.sessions
                \/ w.unit[s] \in {"exited", "failed", "gone"}
                \/ signal.kind = "job" /\ ~signal.done
  BY DEF signal
<1>9. ASSUME w.unit[s] = "gone" \/ signal.kind # "job" PROVE AllAccounted(p)
  <2>1. Accounted(p, s)
    BY <1>3, <1>5, <1>6, <1>7, <1>9 DEF Accounted
  <2> QED
    BY <1>3, <2>1, TouchAccounted
<1> HIDE DEF q, i
<1>10. CASE signal.kind = "props"
  <2>1. v = RefreshSessionState(p, s, a)
    BY <1>0, <1>10 DEF HandleSignal
  <2>2. s \in DOMAIN p.sessions /\ AllAccounted(p)
    BY <1>3, <1>9, <1>10
  <2> QED
    BY <1>3, <1>4, <2>1, <2>2, RefreshFollows
<1>11. CASE signal.kind = "disconnected"
  <2>1. v = StopSession(p, s, a)
    BY <1>0, <1>11 DEF HandleSignal
  <2>2. s \in DOMAIN p.sessions /\ AllAccounted(p)
    BY <1>3, <1>9, <1>11
  <2>3. w.unit[s] = "gone"
    BY <1>5, <1>8, <1>11 DEF Accounted, q
  <2>4. Follows(p, v) /\ DOMAIN p.sessions \ DOMAIN v.sessions \subseteq {s}
    BY <1>4, <2>1, <2>2, StopFollows
  <2> QED
    BY <1>3, <2>2, <2>3, <2>4, FollowsAccounted
<1>12. CASE signal.kind = "job"
  <2> DEFINE left == i.startJobs \ {signal.job}
             info == [i EXCEPT !.startJobs = left, !.starting = (left # {})]
             marked == Amend(p, s, info, p.timers)
  <2>1. v = HandleSessionJobRemoved(p, s, signal, a)
    BY <1>0, <1>12 DEF HandleSignal
  <2>2. CASE signal.job \notin i.startJobs
    <3>1. v = p
      BY <1>3, <2>1, <2>2 DEF HandleSessionJobRemoved, i
    <3>2. w.unit[s] = "gone"
      BY <1>5, <1>6, <1>12, <2>2 DEF Accounted, q, i
    <3> QED
      BY <1>3, <1>9, <3>1, <3>2
  <2>3. CASE signal.job \in i.startJobs
    <3>1. v = IF ~signal.done THEN StopSession(marked, s, a)
              ELSE IF left = {} THEN RefreshSessionState(marked, s, a) ELSE marked
      BY <1>3, <2>1, <2>3 DEF HandleSessionJobRemoved, i
    <3>2. /\ info \in SessionInfo /\ info.user = i.user
          /\ info.installerSource = i.installerSource
          /\ info.startJobs = left /\ info.starting = (left # {})
      BY <1>1 DEF SessionInfo, i
    <3> HIDE DEF info
    <3>3. /\ marked.unit = p.unit /\ marked.jobs = p.jobs /\ marked.inbox = p.inbox
          /\ DOMAIN marked.sessions = DOMAIN w.sessions /\ marked.sessions[s] = info
          /\ \A x \in DOMAIN w.sessions \ {s} : marked.sessions[x] = w.sessions[x]
      <4>1. s \in DOMAIN p.sessions /\ WorldOK(p)
        BY <1>3, <1>4 DEF WorldInv
      <4> QED
        BY <1>3, <4>1, AmendSame
    <3>4. WorldInv(marked)
      <4>1. s \in DOMAIN p.sessions /\ info.user = p.sessions[s].user
        BY <1>3, <3>2 DEF i
      <4>2. s \in p.timers <=> info.installerSource
        BY <1>3, <1>4, <3>2 DEF WorldInv, ResourcesOf, i
      <4> QED
        BY <1>4, <3>2, <4>1, <4>2, AmendKeeps
    <3> HIDE DEF marked
    <3>5. Accounted(marked, s)
      <4>1. /\ marked.sessions[s].startJobs = left /\ marked.sessions[s].starting = (left # {})
            /\ marked.unit[s] = w.unit[s] /\ marked.jobs[s] = w.jobs[s] /\ marked.inbox[s] = Tail(q)
        BY <1>3, <3>2, <3>3
      <4>2. w.jobs[s] \cap QueuedJobs(q) = {}
        BY <1>5 DEF Accounted, q
      <4>3. w.jobs[s] \cap QueuedJobs(Tail(q)) = {}
        BY <1>6, <4>2 DEF q
      <4>4. w.unit[s] # "gone" => left = w.jobs[s] \cup QueuedJobs(Tail(q))
        BY <1>5, <1>6, <1>12, <4>2 DEF Accounted, q, i
      <4>5. w.unit[s] # "none" /\ (w.unit[s] = "pending" => "session" \in w.jobs[s])
        BY <1>5 DEF Accounted
      <4> QED
        BY <1>6, <1>7, <4>1, <4>3, <4>4, <4>5 DEF Accounted, q
    <3>6. AllAccounted(marked)
      <4>1. \A x \in DOMAIN w.sessions \ {s} : Same(w, marked, x)
        BY <1>3, <3>3 DEF Same
      <4> QED
        BY <3>3, <3>5, <4>1, TouchAccounted
    <3>7. s \in DOMAIN marked.sessions /\ marked.unit[s] = w.unit[s]
      BY <1>3, <3>3
    <3>8. CASE ~signal.done
      <4>1. v = StopSession(marked, s, a)
        BY <3>1, <3>8
      <4>2. Follows(marked, v) /\ DOMAIN marked.sessions \ DOMAIN v.sessions \subseteq {s}
        BY <3>4, <3>7, <4>1, StopFollows
      <4> QED
        BY <1>12, <3>3, <3>6, <3>8, <4>2, FollowsAccounted
    <3>9. CASE signal.done /\ left = {}
      <4>1. v = RefreshSessionState(marked, s, a)
        BY <3>1, <3>9
      <4> QED
        BY <3>3, <3>4, <3>6, <3>7, <4>1, RefreshFollows
    <3>10. CASE signal.done /\ left # {}
      BY <3>1, <3>3, <3>6, <3>10
    <3> QED
      BY <3>8, <3>9, <3>10
  <2> QED
    BY <2>2, <2>3
<1> QED
  BY <1>2, <1>10, <1>11, <1>12 DEF Signals

\* A signal that arrives behind the others.
LEMMA AppendAccounted ==
  ASSUME NEW q \in Seq(Signals), NEW x \in Signals, NoDuplicates(q),
         x.kind = "job" => x.job \notin QueuedJobs(q),
         NEW gone \in BOOLEAN, x.kind = "disconnected" => gone,
         \A k \in DOMAIN q : q[k].kind = "disconnected" => gone
  PROVE  /\ NoDuplicates(Append(q, x)) /\ Append(q, x) \in Seq(Signals)
         /\ QueuedJobs(Append(q, x)) = QueuedJobs(q) \cup (IF x.kind = "job" THEN {x.job} ELSE {})
         /\ \A k \in DOMAIN Append(q, x) : Append(q, x)[k].kind = "disconnected" => gone
<1> DEFINE r == Append(q, x)
<1>1. /\ DOMAIN r = 1 .. Len(q) + 1 /\ r[Len(q) + 1] = x
      /\ DOMAIN q = 1 .. Len(q) /\ Len(q) \in Nat
      /\ \A k \in 1 .. Len(q) : r[k] = q[k]
  OBVIOUS
<1> HIDE DEF r
<1>2. \A k \in DOMAIN r : k = Len(q) + 1 \/ k \in DOMAIN q
  BY <1>1
<1>3. \A k \in DOMAIN r : r[k].kind = "disconnected" => gone
  BY <1>1, <1>2
<1> QED
  BY <1>3, QueuedAppend, DuplicatesAppend DEF r

\* A user manager's step that keeps the account of its own session.
LEMMA ManagerAccounted ==
  ASSUME NEW w, WorldOK(w), AllAccounted(w), NEW s \in DOMAIN w.sessions,
         NEW unit, NEW jobs, NEW inbox, unit # "none",
         unit # "gone" => w.sessions[s].startJobs = jobs \cup QueuedJobs(inbox),
         jobs \cap QueuedJobs(inbox) = {}, NoDuplicates(inbox),
         unit = "pending" => "session" \in jobs,
         \A k \in DOMAIN inbox : inbox[k].kind = "disconnected" => unit = "gone",
         NEW c, c = ManagerStep(w, s, unit, jobs, inbox)
  PROVE  AllAccounted(c) /\ c.sessions = w.sessions
<1>1. /\ c.sessions = w.sessions
      /\ c.unit[s] = unit /\ c.jobs[s] = jobs /\ c.inbox[s] = inbox
      /\ \A x \in DOMAIN w.sessions \ {s} : Same(w, c, x)
  BY ManagerSame
<1>2. Accounted(w, s)
  BY DEF AllAccounted
<1>3. Accounted(c, s)
  BY <1>1, <1>2 DEF Accounted
<1> QED
  BY <1>1, <1>3, TouchAccounted

\* Whatever a user manager does, it accounts for its jobs and ends no session.
LEMMA ManagersAccounted ==
  ASSUME Inv, AllAccounted(world), NEW s \in Ids, Manager(s)
  PROVE  AllAccounted(world') /\ world'.sessions = world.sessions
<1> DEFINE q == world.inbox[s]
           i == world.sessions[s]
<1>1. s \in DOMAIN world.sessions
  BY DEF Manager, SessionJobEnds, DaemonJobEnds, UnitEnds, ManagerLost
<1>2. /\ world.unit[s] \in UnitStates /\ world.jobs[s] \in SUBSET Jobs /\ q \in Seq(Signals)
      /\ WorldOK(world)
  BY DEF Inv, WorldInv, WorldOK, Worlds
<1>3. /\ world.unit[s] # "gone" => i.startJobs = world.jobs[s] \cup QueuedJobs(q)
      /\ world.jobs[s] \cap QueuedJobs(q) = {} /\ NoDuplicates(q) /\ world.unit[s] # "none"
      /\ world.unit[s] = "pending" => "session" \in world.jobs[s]
      /\ \A k \in DOMAIN q : q[k].kind = "disconnected" => world.unit[s] = "gone"
  BY <1>1 DEF AllAccounted, Accounted
<1>4. /\ PropertiesChanged \in Signals /\ PropertiesChanged.kind = "props"
      /\ Disconnected \in Signals /\ Disconnected.kind = "disconnected"
  BY DEF PropertiesChanged, Disconnected, Signals, Jobs
<1>5. \A j \in Jobs, ok \in BOOLEAN :
        JobRemoved(j, ok) \in Signals /\ JobRemoved(j, ok).kind = "job" /\ JobRemoved(j, ok).job = j
  BY DEF JobRemoved, Signals
<1> HIDE DEF q, i
<1>6. ASSUME NEW ok \in BOOLEAN, SessionJobEnds(s, ok)
      PROVE  AllAccounted(world') /\ world'.sessions = world.sessions
  <2> DEFINE unit == IF ok THEN "active" ELSE "failed"
             jobs == world.jobs[s] \ {"session"}
             p == PropertiesChanged
             j == JobRemoved("session", ok)
  <2>1. /\ world.unit[s] = "pending" /\ "session" \in world.jobs[s]
        /\ unit \notin {"none", "gone", "pending"}
    BY <1>6 DEF SessionJobEnds
  <2>2. /\ p \in Signals /\ p.kind = "props"
        /\ j \in Signals /\ j.kind = "job" /\ j.job = "session"
    BY <1>4, <1>5 DEF Jobs
  <2>3. PICK order \in {<<p, j>>, <<j, p>>} : world' = ManagerStep(world, s, unit, jobs, q \o order)
    BY <1>6 DEF SessionJobEnds, q
  <2> HIDE DEF unit, jobs, p, j
  <2>4. \A k \in DOMAIN q : q[k].kind = "disconnected" => FALSE
    BY <1>3, <2>1
  <2>5. "session" \notin QueuedJobs(q)
    BY <1>3, <2>1
  <2>6. PICK inbox : /\ world' = ManagerStep(world, s, unit, jobs, inbox)
                     /\ NoDuplicates(inbox) /\ QueuedJobs(inbox) = QueuedJobs(q) \cup {"session"}
                     /\ \A k \in DOMAIN inbox : inbox[k].kind = "disconnected" => FALSE
    <3>1. CASE order = <<p, j>>
      <4> DEFINE q1 == Append(q, p)
                 q2 == Append(q1, j)
      <4>1. q \o order = q2
        BY <1>2, <2>2, <3>1
      <4>2. /\ NoDuplicates(q1) /\ q1 \in Seq(Signals) /\ QueuedJobs(q1) = QueuedJobs(q)
            /\ \A k \in DOMAIN q1 : q1[k].kind = "disconnected" => FALSE
        BY <1>2, <1>3, <2>2, <2>4, AppendAccounted
      <4> HIDE DEF q1
      <4>3. /\ NoDuplicates(q2) /\ QueuedJobs(q2) = QueuedJobs(q1) \cup {"session"}
            /\ \A k \in DOMAIN q2 : q2[k].kind = "disconnected" => FALSE
        BY <2>2, <2>5, <4>2, AppendAccounted
      <4> HIDE DEF q2
      <4> QED
        BY <2>3, <4>1, <4>2, <4>3
    <3>2. CASE order = <<j, p>>
      <4> DEFINE q1 == Append(q, j)
                 q2 == Append(q1, p)
      <4>1. q \o order = q2
        BY <1>2, <2>2, <3>2
      <4>2. /\ NoDuplicates(q1) /\ q1 \in Seq(Signals) /\ QueuedJobs(q1) = QueuedJobs(q) \cup {"session"}
            /\ \A k \in DOMAIN q1 : q1[k].kind = "disconnected" => FALSE
        BY <1>2, <1>3, <2>2, <2>4, <2>5, AppendAccounted
      <4> HIDE DEF q1
      <4>3. /\ NoDuplicates(q2) /\ QueuedJobs(q2) = QueuedJobs(q1)
            /\ \A k \in DOMAIN q2 : q2[k].kind = "disconnected" => FALSE
        BY <2>2, <4>2, AppendAccounted
      <4> HIDE DEF q2
      <4> QED
        BY <2>3, <4>1, <4>2, <4>3
    <3> QED
      BY <2>3, <3>1, <3>2
  <2>7. /\ i.startJobs = jobs \cup QueuedJobs(inbox) /\ jobs \cap QueuedJobs(inbox) = {}
    BY <1>3, <2>1, <2>6 DEF jobs
  <2> QED
    BY <1>1, <1>2, <2>1, <2>6, <2>7, ManagerAccounted DEF i
<1>7. ASSUME NEW ok \in BOOLEAN, DaemonJobEnds(s, ok)
      PROVE  AllAccounted(world') /\ world'.sessions = world.sessions
  <2> DEFINE r == Append(q, JobRemoved("daemon", ok))
  <2>1. /\ world.jobs[s] = {"daemon"} /\ world.unit[s] # "gone"
        /\ world' = ManagerStep(world, s, world.unit[s], {}, r)
    BY <1>7 DEF DaemonJobEnds, q
  <2>2. /\ JobRemoved("daemon", ok) \in Signals /\ JobRemoved("daemon", ok).kind = "job"
        /\ JobRemoved("daemon", ok).job = "daemon"
    BY <1>5 DEF Jobs
  <2>3. "daemon" \notin QueuedJobs(q) /\ \A k \in DOMAIN q : q[k].kind = "disconnected" => FALSE
    BY <1>3, <2>1
  <2>4. /\ NoDuplicates(r) /\ QueuedJobs(r) = QueuedJobs(q) \cup {"daemon"}
        /\ \A k \in DOMAIN r : r[k].kind = "disconnected" => FALSE
    BY <1>2, <1>3, <2>2, <2>3, AppendAccounted
  <2> HIDE DEF r
  <2>5. i.startJobs = {} \cup QueuedJobs(r) /\ {} \cap QueuedJobs(r) = {}
    BY <1>3, <2>1, <2>4
  <2>6. world.unit[s] # "pending"
    BY <1>3, <2>1
  <2> QED
    BY <1>1, <1>2, <1>3, <2>1, <2>4, <2>5, <2>6, ManagerAccounted DEF i
<1>8. ASSUME NEW how \in {"exited", "failed"}, UnitEnds(s, how)
      PROVE  AllAccounted(world') /\ world'.sessions = world.sessions
  <2> DEFINE p == PropertiesChanged
             r == Append(q, p)
  <2>1. world.unit[s] = "active" /\ world' = ManagerStep(world, s, how, world.jobs[s], r)
    BY <1>8 DEF UnitEnds, q
  <2>2. \A k \in DOMAIN q : q[k].kind = "disconnected" => FALSE
    BY <1>3, <2>1
  <2> HIDE DEF p
  <2>3. p \in Signals /\ p.kind = "props"
    BY <1>4 DEF p
  <2>4. /\ NoDuplicates(r) /\ QueuedJobs(r) = QueuedJobs(q)
        /\ \A k \in DOMAIN r : r[k].kind = "disconnected" => FALSE
    <3>1. NoDuplicates(r)
      BY <1>2, <1>3, <2>3, DuplicatesAppend
    <3>2. QueuedJobs(r) = QueuedJobs(q)
      BY <1>2, <2>3, QueuedAppend
    <3>3. \A k \in DOMAIN r : r[k].kind = "disconnected" => FALSE
      BY <1>2, <1>3, <2>2, <2>3, AppendAccounted
    <3> QED
      BY <3>1, <3>2, <3>3
  <2> HIDE DEF r
  <2>5. i.startJobs = world.jobs[s] \cup QueuedJobs(r) /\ world.jobs[s] \cap QueuedJobs(r) = {}
    BY <1>3, <2>1, <2>4
  <2> QED
    BY <1>1, <1>2, <1>8, <2>1, <2>4, <2>5, ManagerAccounted DEF i
<1>9. ASSUME ManagerLost(s)
      PROVE  AllAccounted(world') /\ world'.sessions = world.sessions
  <2> DEFINE r == Append(q, Disconnected)
  <2>1. world' = ManagerStep(world, s, "gone", {}, r)
    BY <1>9 DEF ManagerLost, q
  <2>2. NoDuplicates(r)
    BY <1>2, <1>3, <1>4, DuplicatesAppend
  <2> HIDE DEF r
  <2> QED
    BY <1>1, <1>2, <2>1, <2>2, ManagerAccounted
<1> QED
  BY <1>6, <1>7, <1>8, <1>9 DEF Manager

-----------------------------------------------------------------------------
(* Start jobs and the reasons for which sessions end.                      *)

JobsAccounted == AllAccounted(world)

\* The action of NoSpuriousStop.
EndedForAReason ==
  \A s \in DOMAIN world.sessions \ DOMAIN world'.sessions :
    \/ world.unit[s] \in {"exited", "failed", "gone"}
    \/ JobFailed(s)
    \/ ReplacedByLogin(s)
    \/ \E c \in Ids : OnStopSession(c, s)
    \/ phase' = "stopped"

\* Every step keeps the account of the start jobs, and ends a session only for
\* one of the reasons listed.
LEMMA StepAccounted ==
  Inv /\ JobsAccounted /\ [Next]_vars => JobsAccounted' /\ [EndedForAReason]_vars
<1> SUFFICES ASSUME Inv, AllAccounted(world), [Next]_vars
             PROVE  AllAccounted(world') /\ [EndedForAReason]_vars
  BY DEF JobsAccounted
<1> DEFINE Goal == AllAccounted(world') /\ [EndedForAReason]_vars
<1>0. /\ WorldInv(world)
      /\ phase = "booting" => DOMAIN world.sessions = {} /\ ~world.greeterActive
  BY DEF Inv
<1>1. CASE Start
  <2>1. PICK a \in Answers : world' = CreateLoginSession(world, a)
    BY <1>1 DEF Start
  <2>2. DOMAIN world.sessions = {} /\ ~world.greeterActive
    BY <1>0, <1>1 DEF Start
  <2>3. Follows(world, world')
    BY <1>0, <2>1, <2>2, CreateLoginFollows
  <2>4. AllAccounted(world')
    BY <2>3, FollowsAccounted
  <2> QED
    BY <2>2, <2>4 DEF EndedForAReason
<1>2. ASSUME NEW c \in Ids, NEW u \in Users, OnCreateSession(c, u)
      PROVE  Goal
  <2>1. PICK answer \in Openings : world' = CreateSession(world, u, FALSE, answer)
    BY <1>2 DEF OnCreateSession
  <2>2. c \in DOMAIN world.sessions
    BY <1>2 DEF OnCreateSession, SharedPolicy
  <2>3. GreeterNotStale(world)
    BY <1>0, <2>2 DEF WorldInv, GreeterExclusive, GreeterNotStale
  <2>4. Follows(world, world')
    BY <1>0, <2>1, <2>3, CreateFollows
  <2>5. CASE Opens(world, answer)
    <3>1. /\ DOMAIN world.sessions \ DOMAIN world'.sessions \subseteq {world.greeterId}
          /\ world'.seat \in DOMAIN world'.sessions /\ world'.sessions[world'.seat].starting
      BY <1>0, <2>1, <2>3, <2>5, CreateFollows
    <3>2. \A s \in DOMAIN world.sessions \ DOMAIN world'.sessions : ReplacedByLogin(s)
      BY <3>1 DEF ReplacedByLogin
    <3> QED
      BY <2>4, <3>2, FollowsAccounted DEF EndedForAReason
  <2>6. CASE ~Opens(world, answer)
    <3>1. world'.sessions = world.sessions
      BY <1>0, <2>1, <2>3, <2>6, CreateFollows
    <3> QED
      BY <2>4, <3>1, FollowsAccounted DEF EndedForAReason
  <2> QED
    BY <2>5, <2>6
<1>3. ASSUME NEW c \in Ids, NEW s \in Ids, OnStopSession(c, s)
      PROVE  Goal
  <2>1. PICK a \in Answers : world' = StopSession(world, s, a)
    BY <1>3 DEF OnStopSession
  <2>2. s \in DOMAIN world.sessions
    BY <1>3 DEF OnStopSession
  <2>3. Follows(world, world') /\ DOMAIN world.sessions \ DOMAIN world'.sessions \subseteq {s}
    BY <1>0, <2>1, <2>2, StopFollows
  <2>4. EndedForAReason
    BY <1>3, <2>3 DEF EndedForAReason
  <2> QED
    BY <2>3, <2>4, FollowsAccounted
<1>4. ASSUME NEW s \in Ids, Dispatch(s)
      PROVE  Goal
  <2>1. /\ s \in DOMAIN world.sessions /\ world.inbox[s] # <<>>
        /\ world.inbox[s] \in Seq(Signals)
    BY <1>0, <1>4 DEF Dispatch, WorldInv, WorldOK, Worlds
  <2>2. Head(world.inbox[s]) = world.inbox[s][1] /\ 1 \in DOMAIN world.inbox[s]
    BY <2>1
  <2>3. PICK a \in Answers :
          world' = HandleSignal(ManagerStep(world, s, world.unit[s], world.jobs[s],
                                            Tail(world.inbox[s])),
                                s, Head(world.inbox[s]), a)
    BY <1>4 DEF Dispatch
  <2>4. /\ AllAccounted(world')
        /\ DOMAIN world.sessions \ DOMAIN world'.sessions \subseteq {s}
        /\ \/ DOMAIN world.sessions \subseteq DOMAIN world'.sessions
           \/ world.unit[s] \in {"exited", "failed", "gone"}
           \/ Head(world.inbox[s]).kind = "job" /\ ~Head(world.inbox[s]).done
    <3> DEFINE w == world
               p == ManagerStep(w, s, w.unit[s], w.jobs[s], Tail(w.inbox[s]))
               signal == Head(w.inbox[s])
    <3>1. WorldInv(w) /\ AllAccounted(w) /\ s \in DOMAIN w.sessions /\ 1 \in DOMAIN w.inbox[s]
      BY <1>0, <2>1, <2>2
    <3> HIDE DEF w
    <3>2. ASSUME NEW v, v = HandleSignal(p, s, signal, a)
          PROVE  /\ AllAccounted(v)
                 /\ DOMAIN w.sessions \ DOMAIN v.sessions \subseteq {s}
                 /\ \/ DOMAIN w.sessions \subseteq DOMAIN v.sessions
                    \/ w.unit[s] \in {"exited", "failed", "gone"}
                    \/ signal.kind = "job" /\ ~signal.done
      BY <3>1, <3>2, DispatchFollows
    <3> QED
      BY <2>3, <3>2 DEF w
  <2>5. Head(world.inbox[s]).kind = "job" /\ ~Head(world.inbox[s]).done => JobFailed(s)
    BY <2>2 DEF JobFailed
  <2>6. EndedForAReason
    BY <2>4, <2>5 DEF EndedForAReason
  <2> QED
    BY <2>4, <2>6
<1>5. ASSUME NEW s \in Ids, InstallerTimer(s)
      PROVE  Goal
  <2> DEFINE i == world.sessions[s]
             info == [i EXCEPT !.installerSource = FALSE,
                               !.installerStarted = @ \/ i.activeState = "active"]
             timers == world.timers \ {s}
  <2>1. s \in DOMAIN world.sessions
    BY <1>0, <1>5 DEF InstallerTimer, WorldInv, ResourcesOf
  <2>2. world' = Amend(world, s, info, timers)
    BY <1>5, <2>1 DEF InstallerTimer
  <2>3. i \in SessionInfo /\ WorldOK(world)
    BY <1>0, <2>1 DEF WorldInv, WorldOK, Worlds
  <2>4. info.starting = i.starting /\ info.startJobs = i.startJobs
    BY <2>3 DEF SessionInfo
  <2> HIDE DEF info, timers
  <2>5. AllAccounted(Amend(world, s, info, timers))
    BY <2>1, <2>3, <2>4, AmendAccounted
  <2>6. DOMAIN world'.sessions = DOMAIN world.sessions
    BY <2>1, <2>2, <2>3, AmendSame
  <2> QED
    BY <2>2, <2>5, <2>6 DEF EndedForAReason
<1>6. CASE Shutdown
  <2>1. phase' = "stopped" /\ DOMAIN world'.sessions = {}
    BY <1>6, NoWorldInv DEF Shutdown
  <2> QED
    BY <2>1 DEF EndedForAReason, AllAccounted
<1>7. ASSUME NEW s \in Ids, Manager(s)
      PROVE  Goal
  BY <1>7, ManagersAccounted DEF EndedForAReason
<1>8. CASE UNCHANGED vars
  BY <1>8 DEF vars
<1> QED
  BY <1>1, <1>2, <1>3, <1>4, <1>5, <1>6, <1>7, <1>8 DEF Next, Daemon

\* The start jobs are accounted for in every reachable state.
LEMMA AccountsHold == Spec => []JobsAccounted
<1>1. Init => JobsAccounted
  BY NoWorldInv DEF Init, JobsAccounted, AllAccounted
<1> QED
  BY <1>1, Invariance, StepAccounted, PTL DEF Spec

\* A session counts as starting exactly while one of its start jobs has not been
\* heard of, and such a job is still running or its JobRemoved is on its way: the
\* snapshot that ends the startup is taken after the last of them, once.
THEOREM JobsAreAccountedFor == Spec => []JobsAccountedFor
<1>1. JobsAccounted => JobsAccountedFor
  BY DEF JobsAccounted, AllAccounted, Accounted, JobsAccountedFor
<1> QED
  BY <1>1, AccountsHold, PTL

\* No handler tears down a session that is well, however the signals queued
\* during its startup are interleaved with the blocking calls.
THEOREM NoneStoppedSpuriously == Spec => NoSpuriousStop
<1>1. Inv /\ JobsAccounted /\ [Next]_vars => [EndedForAReason]_vars
  BY StepAccounted
<1>2. Spec => [][EndedForAReason]_vars
  BY <1>1, Invariance, AccountsHold, PTL DEF Spec
<1> QED
  BY <1>2 DEF EndedForAReason, NoSpuriousStop

-----------------------------------------------------------------------------
(* The seat, and the login screen that is always there.                    *)

\* While there is a session, the seat shows one.
Shown(w) == DOMAIN w.sessions # {} => w.seat # NoId

\* Nothing but a refused authentication goes wrong in a handler.
Smooth(a) == a.auto # "startup" /\ a.greeter # "startup" /\ a.activate = "ok"

\* A login that succeeds takes the seat, one that is refused leaves it alone.
LEMMA CreateShown ==
  ASSUME NEW w, WorldInv(w), GreeterNotStale(w), Shown(w), NEW u \in Users,
         NEW answer, answer # "startup", NEW v, v = CreateSession(w, u, FALSE, answer)
  PROVE  Shown(v)
<1>1. CASE Opens(w, answer)
  <2>1. WorldInv(v)
    BY CreateKeeps
  <2>2. v.seat \in DOMAIN v.sessions
    BY <1>1, CreateFollows
  <2> QED
    BY <2>1, <2>2, SessionAssumption DEF Shown, WorldInv, WorldOK
<1>2. CASE ~Opens(w, answer)
  <2>1. v = w
    BY <1>2, CreateFollows
  <2> QED
    BY <2>1
<1> QED
  BY <1>1, <1>2

\* The login screen, once it opens, is a session and has the seat.
LEMMA GreeterOpens ==
  ASSUME NEW w, WorldInv(w), DOMAIN w.sessions = {}, Free(w) # {},
         NEW n, n = NewId(w), NEW o, o = OpenSession(w, n, GreeterUser),
         NEW v, v = SetGreeter(o, n, TRUE)
  PROVE  DOMAIN v.sessions # {} /\ v.seat # NoId
<1>1. n \in Free(w) /\ n \in Ids /\ GreeterUser \in Accounts
  BY DEF NewId, Free, Accounts
<1>2. /\ WorldOK(OpenSession(w, n, GreeterUser))
      /\ DOMAIN OpenSession(w, n, GreeterUser).sessions = DOMAIN w.sessions \cup {n}
  BY <1>1, OpenKeeps DEF WorldInv
<1>3. OpenSession(w, n, GreeterUser).seat = n
  BY <1>1, OpenFollows DEF WorldInv
<1>4. WorldOK(o) /\ n \in DOMAIN o.sessions /\ o.seat = n
  BY <1>2, <1>3
<1>5. o \in Worlds([DOMAIN o.sessions -> SessionInfo])
  BY <1>4 DEF WorldOK
<1>6. v.sessions = o.sessions /\ v.seat = o.seat
  BY <1>5 DEF SetGreeter, Worlds
<1> QED
  BY <1>1, <1>4, <1>6, SessionAssumption

\* An empty seat gets a session that it shows, unless both the automatic login
\* and the login screen fail; there always is an id for the login screen.
LEMMA CreateLoginShown ==
  ASSUME NEW w, WorldInv(w), ~w.greeterActive, DOMAIN w.sessions = {}, NEW a,
         NEW v, v = CreateLoginSession(w, a)
  PROVE  /\ a.auto # "startup" /\ a.greeter # "startup" => Shown(v)
         /\ a.greeter = "ok" /\ (\E d, e \in Ids : d # e) => DOMAIN v.sessions # {}
<1> DEFINE tried == TryAutologinSession(w, a.auto)
           greeted == CreateSession(tried, GreeterUser, TRUE, a.greeter)
<1>1. /\ WorldInv(tried) /\ ~tried.greeterActive
      /\ ~AutologinOpens(w, a.auto) => tried.sessions = w.sessions
      /\ AutologinOpens(w, a.auto) => tried.seat \in DOMAIN tried.sessions
  BY AutologinFollows
<1>2. CASE AutologinOpens(w, a.auto)
  <2>1. v = tried
    BY <1>2 DEF CreateLoginSession
  <2> QED
    BY <1>1, <1>2, <2>1, SessionAssumption DEF Shown, WorldInv, WorldOK
<1>3. CASE ~AutologinOpens(w, a.auto) /\ Opens(tried, a.greeter)
  <2> DEFINE n == NewId(tried)
             o == OpenSession(tried, n, GreeterUser)
  <2>1. v = SetGreeter(o, n, TRUE)
    BY <1>3 DEF CreateLoginSession, CreateSession
  <2>2. Free(tried) # {} /\ DOMAIN tried.sessions = {}
    BY <1>1, <1>3 DEF Opens
  <2> HIDE DEF tried
  <2>3. DOMAIN v.sessions # {} /\ v.seat # NoId
    BY <1>1, <2>1, <2>2, GreeterOpens
  <2> QED
    BY <2>3 DEF Shown
<1>4. CASE ~AutologinOpens(w, a.auto) /\ ~Opens(tried, a.greeter)
  <2>1. v = greeted
    BY <1>4 DEF CreateLoginSession
  <2> HIDE DEF tried
  <2>2. a.greeter # "startup" => v = tried
    BY <1>4, <2>1 DEF CreateSession
  <2>3. DOMAIN tried.sessions = {}
    BY <1>1, <1>4
  <2>4. ASSUME NEW d \in Ids, NEW e \in Ids, d # e PROVE Free(tried) # {}
    <3>1. tried.greeterId = NoId
      BY <1>1 DEF WorldInv, GreeterExclusive
    <3> QED
      BY <2>3, <2>4, <3>1, SessionAssumption DEF Free
  <2> QED
    BY <1>4, <2>2, <2>3, <2>4 DEF Opens, Shown
<1> QED
  BY <1>2, <1>3, <1>4

\* After a logout the seat shows a session that is left, or a new one; only the
\* end of the login screen itself leaves none.
LEMMA StopShown ==
  ASSUME NEW w, WorldInv(w), NEW s \in DOMAIN w.sessions, NEW a,
         NEW v, v = StopSession(w, s, a)
  PROVE  /\ Smooth(a) => Shown(v)
         /\ /\ w.sessions[s].user # GreeterUser /\ a.greeter = "ok"
            /\ \E d, e \in Ids : d # e
            => DOMAIN v.sessions # {}
<1> DEFINE c == CloseSession(w, s)
<1>1. /\ WorldOK(c) /\ ResourcesOf(c) /\ DOMAIN c.sessions = DOMAIN w.sessions \ {s}
      /\ \A x \in DOMAIN w.sessions \ {s} : c.sessions[x] = w.sessions[x]
      /\ c.greeterId = w.greeterId /\ c.greeterActive = w.greeterActive
  BY CloseKeeps DEF WorldInv
<1>2. WorldInv(c)
  BY <1>1 DEF WorldInv, GreeterExclusive
<1>3. s \in Ids /\ (w.sessions[s].user = GreeterUser <=> s = w.greeterId)
  BY DEF WorldInv, WorldOK, GreeterExclusive
<1>4. w.greeterActive => s = w.greeterId
  BY DEF WorldInv, GreeterExclusive
<1>5. s = w.greeterId => DOMAIN c.sessions = {}
  BY <1>1, <1>3, SessionAssumption DEF WorldInv, GreeterExclusive
<1>6. CASE s = w.greeterId \/ w.greeterActive
  <2>1. v = c
    BY <1>6 DEF StopSession
  <2> QED
    BY <1>3, <1>4, <1>5, <1>6, <2>1 DEF Shown
<1>7. CASE ~(s = w.greeterId \/ w.greeterActive)
  <2>1. v = AfterLogout(c, a) /\ ~c.greeterActive
    BY <1>1, <1>7 DEF StopSession
  <2> HIDE DEF c
  <2>2. CASE DOMAIN c.sessions = {}
    <3>1. v = CreateLoginSession(c, a)
      BY <2>1, <2>2 DEF AfterLogout
    <3> QED
      BY <1>2, <2>1, <2>2, <3>1, CreateLoginShown DEF Smooth
  <2>3. CASE DOMAIN c.sessions # {} /\ a.activate = "ok"
    <3>1. First(c.sessions) \in DOMAIN c.sessions
      BY <2>3 DEF First
    <3>2. v = [c EXCEPT !.seat = First(c.sessions)]
      BY <2>1, <2>3 DEF AfterLogout
    <3> DEFINE f == First(c.sessions)
    <3> HIDE DEF f
    <3>3. v.seat = f /\ v.sessions = c.sessions
      BY <1>1, <3>2, SeatFollows DEF f
    <3> QED
      BY <1>1, <2>3, <3>1, <3>3, SessionAssumption DEF f, Shown, WorldOK
  <2>4. CASE DOMAIN c.sessions # {} /\ a.activate # "ok"
    BY <2>1, <2>4 DEF AfterLogout, Smooth
  <2> QED
    BY <2>2, <2>3, <2>4
<1> QED
  BY <1>6, <1>7

\* The login screen, if it never ends, has nothing queued that would end it.
Served(w) == \A s \in DOMAIN w.sessions : GreeterWell(w, s)

\* What opens and closes sessions keeps the greeter served.
LEMMA FollowsServed ==
  ASSUME NEW w, NEW v, Served(w), Follows(w, v)
  PROVE  Served(v)
<1> SUFFICES ASSUME NEW x \in DOMAIN v.sessions PROVE GreeterWell(v, x)
  BY DEF Served
<1>1. CASE Opened(v, x)
  <2>1. DOMAIN v.inbox[x] = {1} /\ v.inbox[x][1] = PropertiesChanged
    BY <1>1 DEF Opened
  <2> QED
    BY <1>1, <2>1 DEF GreeterWell, Opened, PropertiesChanged
<1>2. CASE x \in DOMAIN w.sessions /\ Same(w, v, x)
  BY <1>2 DEF Same, Served, GreeterWell
<1> QED
  BY <1>1, <1>2 DEF Follows

\* Only the records may differ, and not in their users.
Noted(w, u) ==
  /\ DOMAIN u.sessions = DOMAIN w.sessions /\ u.seat = w.seat
  /\ u.unit = w.unit /\ u.inbox = w.inbox
  /\ \A x \in DOMAIN w.sessions : u.sessions[x].user = w.sessions[x].user

\* A world notes itself.
LEMMA NotedItself == ASSUME NEW w PROVE Noted(w, w)
  BY DEF Noted

\* What notes what notes a world notes it.
LEMMA NotedTransitive ==
  ASSUME NEW u, NEW v, NEW w, Noted(u, v), Noted(v, w)
  PROVE  Noted(u, w)
  BY DEF Noted

\* A session amended with the same user is noted.
LEMMA AmendNoted ==
  ASSUME NEW w, WorldOK(w), NEW s \in DOMAIN w.sessions, NEW info, NEW timers,
         info.user = w.sessions[s].user
  PROVE  Noted(w, Amend(w, s, info, timers))
<1> DEFINE c == Amend(w, s, info, timers)
<1>1. /\ c.unit = w.unit /\ c.inbox = w.inbox /\ c.seat = w.seat
      /\ DOMAIN c.sessions = DOMAIN w.sessions /\ c.sessions[s] = info
      /\ \A x \in DOMAIN w.sessions \ {s} : c.sessions[x] = w.sessions[x]
  BY AmendSame
<1> HIDE DEF c
<1>2. Noted(w, c)
  BY <1>1 DEF Noted
<1> QED
  BY <1>2 DEF c

\* A snapshot is taken over, and the session is stopped or it is not.
LEMMA RefreshOutcome ==
  ASSUME NEW w, WorldInv(w), NEW s \in DOMAIN w.sessions, NEW a,
         NEW v, v = RefreshSessionState(w, s, a)
  PROVE  \E u : WorldInv(u) /\ Noted(w, u) /\ (v = u \/ v = StopSession(u, s, a))
<1>1. CASE w.unit[s] = "gone"
  BY <1>1, NotedItself DEF RefreshSessionState
<1>2. CASE w.unit[s] # "gone"
  <2>1. PICK info, timers :
          /\ info \in SessionInfo
          /\ info.user = w.sessions[s].user
          /\ timers \ {s} = w.timers \ {s} /\ (s \in timers <=> info.installerSource)
          /\ v = IF EvaluateSessionState(info)
                 THEN StopSession(Amend(w, s, info, timers), s, a) ELSE Amend(w, s, info, timers)
    BY <1>2, RefreshSeen
  <2> DEFINE u == Amend(w, s, info, timers)
  <2>2. WorldInv(u)
    BY <2>1, AmendKeeps
  <2>3. Noted(w, u)
    BY <2>1, AmendNoted DEF WorldInv
  <2> QED
    BY <2>1, <2>2, <2>3
<1> QED
  BY <1>1, <1>2

\* So it is with every signal.
LEMMA SignalOutcome ==
  ASSUME NEW w, WorldInv(w), NEW s \in DOMAIN w.sessions, NEW signal \in Signals, NEW a,
         NEW v, v = HandleSignal(w, s, signal, a)
  PROVE  \E u : WorldInv(u) /\ Noted(w, u) /\ (v = u \/ v = StopSession(u, s, a))
<1>1. CASE signal.kind = "props"
  BY <1>1, RefreshOutcome DEF HandleSignal
<1>2. CASE signal.kind = "disconnected"
  BY <1>2, NotedItself DEF HandleSignal
<1>3. CASE signal.kind = "job"
  <2> DEFINE i == w.sessions[s]
             left == i.startJobs \ {signal.job}
             info == [i EXCEPT !.startJobs = left, !.starting = (left # {})]
             marked == Amend(w, s, info, w.timers)
  <2>1. v = HandleSessionJobRemoved(w, s, signal, a)
    BY <1>3 DEF HandleSignal
  <2>2. v = w \/ v = StopSession(marked, s, a) \/ v = RefreshSessionState(marked, s, a) \/ v = marked
    BY <2>1 DEF HandleSessionJobRemoved
  <2>3. i \in SessionInfo /\ (s \in w.timers <=> i.installerSource)
    BY DEF WorldInv, WorldOK, Worlds, ResourcesOf
  <2>4. info \in SessionInfo /\ info.user = i.user /\ info.installerSource = i.installerSource
    BY <2>3 DEF SessionInfo
  <2> HIDE DEF info
  <2>5. WorldInv(marked)
    BY <2>3, <2>4, AmendKeeps
  <2>6. Noted(w, marked)
    BY <2>4, AmendNoted DEF WorldInv
  <2> HIDE DEF marked
  <2>7. s \in DOMAIN marked.sessions
    BY <2>6 DEF Noted
  <2>8. CASE v = RefreshSessionState(marked, s, a)
    <3>1. PICK u : WorldInv(u) /\ Noted(marked, u) /\ (v = u \/ v = StopSession(u, s, a))
      BY <2>5, <2>7, <2>8, RefreshOutcome
    <3> QED
      BY <2>6, <3>1, NotedTransitive
  <2> QED
    BY <2>2, <2>5, <2>6, <2>8, NotedItself
<1> QED
  BY <1>1, <1>2, <1>3 DEF Signals

\* A dispatched signal leaves the login screen well and a session on the seat,
\* and may then stop its session.
LEMMA DispatchOutcome ==
  ASSUME NEW w, WorldInv(w), NEW s \in DOMAIN w.sessions, 1 \in DOMAIN w.inbox[s], NEW a, NEW v,
         v = HandleSignal(ManagerStep(w, s, w.unit[s], w.jobs[s], Tail(w.inbox[s])),
                          s, Head(w.inbox[s]), a)
  PROVE  \E u : /\ WorldInv(u) /\ s \in DOMAIN u.sessions
               /\ u.sessions[s].user = w.sessions[s].user
               /\ (Served(w) => Served(u)) /\ (Shown(w) => Shown(u))
               /\ (v = u \/ v = StopSession(u, s, a))
<1> DEFINE q == w.inbox[s]
           p == ManagerStep(w, s, w.unit[s], w.jobs[s], Tail(q))
<1>1. /\ w.unit[s] \in UnitStates /\ w.jobs[s] \in SUBSET Jobs /\ q \in Seq(Signals) /\ WorldOK(w)
  BY DEF WorldInv, WorldOK, Worlds
<1>2. q # <<>> /\ Head(q) \in Signals /\ Tail(q) \in Seq(Signals)
  BY <1>1
<1>3. /\ DOMAIN Tail(q) = 1 .. Len(q) - 1 /\ DOMAIN q = 1 .. Len(q) /\ Len(q) \in Nat
      /\ \A k \in 1 .. Len(q) - 1 : Tail(q)[k] = q[k + 1]
  BY <1>1, <1>2
<1>4. /\ p.sessions = w.sessions /\ p.seat = w.seat
      /\ p.unit[s] = w.unit[s] /\ p.inbox[s] = Tail(q)
      /\ \A x \in DOMAIN w.sessions \ {s} : Same(w, p, x)
  BY <1>1, ManagerSame
<1>5. WorldInv(p)
  BY <1>1, <1>2, ManagerKeeps
<1>6. v = HandleSignal(p, s, Head(q), a)
  OBVIOUS
<1> HIDE DEF p
<1>7. ASSUME Served(w) PROVE Served(p)
  <2> SUFFICES ASSUME NEW x \in DOMAIN w.sessions PROVE GreeterWell(p, x)
    BY <1>4 DEF Served
  <2>1. GreeterWell(w, x)
    BY <1>7 DEF Served
  <2>2. CASE x = s
    <3>1. \A k \in DOMAIN Tail(q) : k + 1 \in DOMAIN q /\ Tail(q)[k] = q[k + 1]
      BY <1>3
    <3> QED
      BY <1>4, <2>1, <2>2, <3>1 DEF GreeterWell
  <2>3. CASE x # s
    BY <1>4, <2>1, <2>3 DEF GreeterWell, Same
  <2> QED
    BY <2>2, <2>3
<1> HIDE DEF q
<1>8. PICK u : WorldInv(u) /\ Noted(p, u) /\ (v = u \/ v = StopSession(u, s, a))
  BY <1>2, <1>4, <1>5, <1>6, SignalOutcome
<1>9. s \in DOMAIN u.sessions /\ u.sessions[s].user = w.sessions[s].user
  BY <1>4, <1>8 DEF Noted
<1>10. Served(w) => Served(u)
  BY <1>7, <1>8 DEF Noted, Served, GreeterWell
<1>11. Shown(w) => Shown(u)
  BY <1>4, <1>8 DEF Noted, Shown
<1> QED
  BY <1>8, <1>9, <1>10, <1>11

-----------------------------------------------------------------------------
(* Steps and the two theorems.                                             *)

SeatShown == Shown(world)

\* With no call failing but the authentication, every step leaves a session on
\* the seat if it leaves a session.
LEMMA StepShown ==
  ASSUME Failures \subseteq {"auth"}
  PROVE  Inv /\ SeatShown /\ [Next]_vars => SeatShown'
<1> SUFFICES ASSUME Inv, Shown(world), [Next]_vars PROVE Shown(world')
  BY DEF SeatShown
<1>1. /\ WorldInv(world)
      /\ phase = "booting" => DOMAIN world.sessions = {} /\ ~world.greeterActive
  BY DEF Inv
<1>2. \A a \in Answers : Smooth(a)
  <2>1. Openings \subseteq {"ok", "auth"} /\ Activations = {"ok"}
    BY DEF Openings, Activations
  <2>2. GreeterOpenings \subseteq {"ok", "auth"} /\ AutologinAnswers \subseteq {"ok", "auth"}
    BY <2>1 DEF GreeterOpenings, AutologinAnswers
  <2> QED
    BY <2>1, <2>2 DEF Answers, Smooth
<1>3. CASE Start
  <2>1. PICK a \in Answers : world' = CreateLoginSession(world, a)
    BY <1>3 DEF Start
  <2> QED
    BY <1>1, <1>2, <1>3, <2>1, CreateLoginShown DEF Smooth, Start
<1>4. ASSUME NEW c \in Ids, NEW u \in Users, OnCreateSession(c, u)
      PROVE  Shown(world')
  <2>1. PICK answer \in Openings : world' = CreateSession(world, u, FALSE, answer)
    BY <1>4 DEF OnCreateSession
  <2>2. GreeterNotStale(world) /\ answer # "startup"
    BY <1>1, <1>4 DEF OnCreateSession, SharedPolicy, WorldInv, GreeterExclusive, GreeterNotStale, Openings
  <2> QED
    BY <1>1, <2>1, <2>2, CreateShown
<1>5. ASSUME NEW c \in Ids, NEW s \in Ids, OnStopSession(c, s)
      PROVE  Shown(world')
  <2>1. PICK a \in Answers : world' = StopSession(world, s, a)
    BY <1>5 DEF OnStopSession
  <2> QED
    BY <1>1, <1>2, <1>5, <2>1, StopShown DEF OnStopSession
<1>6. ASSUME NEW s \in Ids, Dispatch(s)
      PROVE  Shown(world')
  <2>1. s \in DOMAIN world.sessions /\ 1 \in DOMAIN world.inbox[s]
    BY <1>1, <1>6 DEF Dispatch, WorldInv, WorldOK, Worlds
  <2>2. PICK a \in Answers :
          world' = HandleSignal(ManagerStep(world, s, world.unit[s], world.jobs[s],
                                            Tail(world.inbox[s])),
                                s, Head(world.inbox[s]), a)
    BY <1>6 DEF Dispatch
  <2>3. PICK u : /\ WorldInv(u) /\ s \in DOMAIN u.sessions
                 /\ (Shown(world) => Shown(u))
                 /\ (world' = u \/ world' = StopSession(u, s, a))
    BY <1>1, <2>1, <2>2, DispatchOutcome
  <2> QED
    BY <1>2, <2>3, StopShown
<1>7. ASSUME NEW s \in Ids, InstallerTimer(s)
      PROVE  Shown(world')
  <2>1. s \in DOMAIN world.sessions /\ WorldOK(world)
    BY <1>1, <1>7 DEF InstallerTimer, WorldInv, ResourcesOf
  <2>2. PICK info : world' = Amend(world, s, info, world.timers \ {s})
    BY <1>7, <2>1 DEF InstallerTimer
  <2> QED
    BY <2>1, <2>2, AmendSame DEF Shown
<1>8. CASE Shutdown
  BY <1>8, NoWorldInv DEF Shutdown, Shown
<1>9. ASSUME NEW s \in Ids, Manager(s)
      PROVE  Shown(world')
  <2>1. s \in DOMAIN world.sessions /\ WorldOK(world)
    BY <1>1, <1>9 DEF Manager, SessionJobEnds, DaemonJobEnds, UnitEnds, ManagerLost, WorldInv
  <2>2. PICK unit, jobs, inbox : world' = ManagerStep(world, s, unit, jobs, inbox)
    BY <1>9 DEF Manager, SessionJobEnds, DaemonJobEnds, UnitEnds, ManagerLost
  <2> QED
    BY <2>1, <2>2, ManagerSame DEF Shown
<1>10. CASE UNCHANGED vars
  BY <1>10 DEF vars
<1> QED
  BY <1>3, <1>4, <1>5, <1>6, <1>7, <1>8, <1>9, <1>10 DEF Next, Daemon

\* If the only external call that ever fails is the authentication, the seat
\* shows a session while there is one: logins, logouts in any order and crashes
\* of programs and user managers do not leave it on a dead terminal.
THEOREM SeatIsShown ==
  ASSUME Failures \subseteq {"auth"}
  PROVE  Spec => []SeatShowsSession
<1>1. Init => SeatShown
  BY NoWorldInv DEF Init, SeatShown, Shown
<1>2. SeatShown => SeatShowsSession
  BY DEF SeatShown, Shown, SeatShowsSession
<1>3. Inv /\ SeatShown /\ [Next]_vars => SeatShown'
  BY StepShown
<1> QED
  BY <1>1, <1>2, <1>3, Invariance, PTL DEF Spec

GreeterServed ==
  Served(world) /\ (phase = "running" => DOMAIN world.sessions # {})

\* What the manager of the login screen, which never ends, queues.
LEMMA WellAppend ==
  ASSUME NEW q \in Seq(Signals), NEW x \in Signals, x.kind # "disconnected", x.done,
         \A k \in DOMAIN q : q[k].kind # "disconnected" /\ q[k].done
  PROVE  /\ Append(q, x) \in Seq(Signals)
         /\ \A k \in DOMAIN Append(q, x) :
              Append(q, x)[k].kind # "disconnected" /\ Append(q, x)[k].done
<1> DEFINE r == Append(q, x)
<1>1. /\ DOMAIN r = 1 .. Len(q) + 1 /\ r[Len(q) + 1] = x
      /\ DOMAIN q = 1 .. Len(q) /\ Len(q) \in Nat
      /\ \A k \in 1 .. Len(q) : r[k] = q[k]
  OBVIOUS
<1>2. \A k \in DOMAIN r : k = Len(q) + 1 \/ k \in DOMAIN q
  BY <1>1
<1> HIDE DEF r
<1>3. \A k \in DOMAIN r : r[k].kind # "disconnected" /\ r[k].done
  BY <1>1, <1>2
<1> QED
  BY <1>3 DEF r

\* What systemd does to a user manager leaves the greeter served, as long as it does not end.
LEMMA ManagersServed ==
  ASSUME Inv, Served(world), ~GreeterMayEnd, NEW s \in Ids, Manager(s)
  PROVE  Served(world') /\ world'.sessions = world.sessions
<1> DEFINE q == world.inbox[s]
           i == world.sessions[s]
<1>1. s \in DOMAIN world.sessions
  BY DEF Manager, SessionJobEnds, DaemonJobEnds, UnitEnds, ManagerLost
<1>2. q \in Seq(Signals) /\ WorldOK(world)
  BY DEF Inv, WorldInv, WorldOK, Worlds
<1>3. GreeterWell(world, s)
  BY <1>1 DEF Served
<1>4. PropertiesChanged \in Signals /\ PropertiesChanged.kind = "props" /\ PropertiesChanged.done
  BY DEF PropertiesChanged, Signals, Jobs
<1>5. \A j \in Jobs : /\ JobRemoved(j, TRUE) \in Signals /\ JobRemoved(j, TRUE).kind = "job"
                      /\ JobRemoved(j, TRUE).done
  BY DEF JobRemoved, Signals
<1>6. PICK unit, jobs, inbox :
        /\ world' = ManagerStep(world, s, unit, jobs, inbox)
        /\ i.user = GreeterUser =>
             /\ unit \in {"pending", "active"}
             /\ \A k \in DOMAIN inbox : inbox[k].kind # "disconnected" /\ inbox[k].done
  <2>1. CASE i.user # GreeterUser
    BY <2>1 DEF Manager, SessionJobEnds, DaemonJobEnds, UnitEnds, ManagerLost
  <2>2. CASE i.user = GreeterUser
    <3> DEFINE p == PropertiesChanged
               j == JobRemoved("session", TRUE)
               d == JobRemoved("daemon", TRUE)
    <3>1. ~MayEnd(s)
      BY <2>2 DEF MayEnd
    <3>2. SessionJobEnds(s, TRUE) \/ DaemonJobEnds(s, TRUE)
      BY <3>1 DEF Manager, SessionJobEnds, DaemonJobEnds, UnitEnds, ManagerLost
    <3>3. /\ p \in Signals /\ p.kind # "disconnected" /\ p.done
          /\ j \in Signals /\ j.kind # "disconnected" /\ j.done
          /\ d \in Signals /\ d.kind # "disconnected" /\ d.done
      BY <1>4, <1>5 DEF Jobs
    <3>4. /\ world.unit[s] \in {"pending", "active"}
          /\ \A k \in DOMAIN q : q[k].kind # "disconnected" /\ q[k].done
      BY <1>3, <2>2 DEF GreeterWell
    <3>5. CASE SessionJobEnds(s, TRUE)
      <4>1. PICK order \in {<<p, j>>, <<j, p>>} :
              world' = ManagerStep(world, s, "active", world.jobs[s] \ {"session"}, q \o order)
        BY <3>5 DEF SessionJobEnds
      <4> HIDE DEF p, j, d, q
      <4>2. q \o <<p, j>> = Append(Append(q, p), j) /\ q \o <<j, p>> = Append(Append(q, j), p)
        BY <1>2, <3>3
      <4>3. \A x, y \in {p, j} : \A k \in DOMAIN Append(Append(q, x), y) :
              /\ Append(Append(q, x), y)[k].kind # "disconnected"
              /\ Append(Append(q, x), y)[k].done
        <5> SUFFICES ASSUME NEW x \in {p, j}, NEW y \in {p, j}
                     PROVE  \A k \in DOMAIN Append(Append(q, x), y) :
                              /\ Append(Append(q, x), y)[k].kind # "disconnected"
                              /\ Append(Append(q, x), y)[k].done
          OBVIOUS
        <5> DEFINE r == Append(q, x)
        <5>1. /\ r \in Seq(Signals)
              /\ \A k \in DOMAIN r : r[k].kind # "disconnected" /\ r[k].done
          BY <1>2, <3>3, <3>4, WellAppend
        <5> HIDE DEF r
        <5>2. \A k \in DOMAIN Append(r, y) :
                Append(r, y)[k].kind # "disconnected" /\ Append(r, y)[k].done
          BY <3>3, <5>1, WellAppend
        <5> QED
          BY <5>2 DEF r
      <4> QED
        BY <4>1, <4>2, <4>3
    <3>6. CASE DaemonJobEnds(s, TRUE)
      <4>1. world' = ManagerStep(world, s, world.unit[s], {}, Append(q, d))
        BY <3>6 DEF DaemonJobEnds
      <4> HIDE DEF p, j, d, q
      <4>2. \A k \in DOMAIN Append(q, d) : Append(q, d)[k].kind # "disconnected" /\ Append(q, d)[k].done
        BY <1>2, <3>3, <3>4, WellAppend
      <4> QED
        BY <3>4, <4>1, <4>2
    <3> QED
      BY <3>2, <3>5, <3>6
  <2> QED
    BY <2>1, <2>2
<1>7. /\ world'.sessions = world.sessions
      /\ world'.unit[s] = unit /\ world'.inbox[s] = inbox
      /\ \A x \in DOMAIN world.sessions \ {s} : Same(world, world', x)
  BY <1>1, <1>2, <1>6, ManagerSame
<1>8. GreeterWell(world', s)
  BY <1>6, <1>7 DEF GreeterWell
<1>9. \A x \in DOMAIN world.sessions \ {s} : GreeterWell(world', x)
  BY <1>7 DEF Served, GreeterWell, Same
<1> QED
  BY <1>7, <1>8, <1>9 DEF Served

\* With a login screen that never ends, and an id for it, there is always a
\* session once the daemon has started.
LEMMA StepServed ==
  ASSUME ~GreeterMayEnd, \E d, e \in Ids : d # e
  PROVE  Inv /\ JobsAccounted /\ GreeterServed /\ [Next]_vars => GreeterServed'
<1> SUFFICES ASSUME Inv, AllAccounted(world), GreeterServed, [Next]_vars PROVE GreeterServed'
  BY DEF JobsAccounted
<1>1. /\ WorldInv(world) /\ Served(world)
      /\ phase = "booting" => DOMAIN world.sessions = {} /\ ~world.greeterActive
      /\ phase = "running" => DOMAIN world.sessions # {}
  BY DEF Inv, GreeterServed
<1>2. \A a \in Answers : a.greeter = "ok"
  BY DEF Answers, GreeterOpenings
<1> SUFFICES Served(world') /\ (phase' = "running" => DOMAIN world'.sessions # {})
  BY DEF GreeterServed
<1>3. CASE Start
  <2>1. PICK a \in Answers : world' = CreateLoginSession(world, a)
    BY <1>3 DEF Start
  <2>2. DOMAIN world.sessions = {} /\ ~world.greeterActive
    BY <1>1, <1>3 DEF Start
  <2>3. Follows(world, world')
    BY <1>1, <2>1, <2>2, CreateLoginFollows
  <2>4. DOMAIN world'.sessions # {}
    BY <1>1, <1>2, <2>1, <2>2, CreateLoginShown
  <2> QED
    BY <1>1, <2>3, <2>4, FollowsServed
<1>4. ASSUME NEW c \in Ids, NEW u \in Users, OnCreateSession(c, u)
      PROVE  Served(world') /\ DOMAIN world'.sessions # {}
  <2>1. PICK answer \in Openings : world' = CreateSession(world, u, FALSE, answer)
    BY <1>4 DEF OnCreateSession
  <2>2. c \in DOMAIN world.sessions
    BY <1>4 DEF OnCreateSession, SharedPolicy
  <2>3. GreeterNotStale(world)
    BY <1>1, <2>2 DEF WorldInv, GreeterExclusive, GreeterNotStale
  <2>4. Follows(world, world')
    BY <1>1, <2>1, <2>3, CreateFollows
  <2>5. DOMAIN world'.sessions # {}
    BY <1>1, <2>1, <2>2, <2>3, CreateFollows
  <2> QED
    BY <1>1, <2>4, <2>5, FollowsServed
<1>5. ASSUME NEW c \in Ids, NEW s \in Ids, OnStopSession(c, s)
      PROVE  Served(world') /\ DOMAIN world'.sessions # {}
  <2>1. PICK a \in Answers : world' = StopSession(world, s, a)
    BY <1>5 DEF OnStopSession
  <2>2. s \in DOMAIN world.sessions /\ world.sessions[s].user # GreeterUser
    BY <1>1, <1>5 DEF OnStopSession, WorldInv, GreeterExclusive
  <2>3. Follows(world, world')
    BY <1>1, <2>1, <2>2, StopFollows
  <2>4. DOMAIN world'.sessions # {}
    BY <1>1, <1>2, <2>1, <2>2, StopShown
  <2> QED
    BY <1>1, <2>3, <2>4, FollowsServed
<1>6. ASSUME NEW s \in Ids, Dispatch(s)
      PROVE  Served(world') /\ DOMAIN world'.sessions # {}
  <2>1. s \in DOMAIN world.sessions /\ 1 \in DOMAIN world.inbox[s]
    BY <1>1, <1>6 DEF Dispatch, WorldInv, WorldOK, Worlds
  <2>2. PICK a \in Answers :
          world' = HandleSignal(ManagerStep(world, s, world.unit[s], world.jobs[s],
                                            Tail(world.inbox[s])),
                                s, Head(world.inbox[s]), a)
    BY <1>6 DEF Dispatch
  <2>3. PICK u : /\ WorldInv(u) /\ s \in DOMAIN u.sessions
                 /\ u.sessions[s].user = world.sessions[s].user /\ Served(u)
                 /\ (world' = u \/ world' = StopSession(u, s, a))
    BY <1>1, <2>1, <2>2, DispatchOutcome
  <2>4. Served(world')
    <3>1. CASE world' = StopSession(u, s, a)
      <4>1. Follows(u, world')
        BY <2>3, <3>1, StopFollows
      <4> QED
        BY <2>3, <4>1, FollowsServed
    <3> QED
      BY <2>3, <3>1
  <2>5. CASE world.sessions[s].user # GreeterUser
    <3>1. DOMAIN world'.sessions # {}
      BY <1>2, <2>3, <2>5, StopShown
    <3> QED
      BY <2>4, <3>1
  <2>6. CASE world.sessions[s].user = GreeterUser
    <3>1. \/ DOMAIN world.sessions \subseteq DOMAIN world'.sessions
          \/ world.unit[s] \in {"exited", "failed", "gone"}
          \/ Head(world.inbox[s]).kind = "job" /\ ~Head(world.inbox[s]).done
      BY <1>1, <2>1, <2>2, DispatchFollows
    <3>2. GreeterWell(world, s) /\ Head(world.inbox[s]) = world.inbox[s][1]
      BY <1>1, <1>6, <2>1 DEF Served, Dispatch, WorldInv, WorldOK, Worlds
    <3> QED
      BY <1>1, <2>1, <2>4, <2>6, <3>1, <3>2 DEF GreeterWell
  <2> QED
    BY <2>5, <2>6
<1>7. ASSUME NEW s \in Ids, InstallerTimer(s)
      PROVE  Served(world') /\ DOMAIN world'.sessions # {}
  <2> DEFINE i == world.sessions[s]
             info == [i EXCEPT !.installerSource = FALSE,
                               !.installerStarted = @ \/ i.activeState = "active"]
             timers == world.timers \ {s}
  <2>1. s \in DOMAIN world.sessions /\ WorldOK(world)
    BY <1>1, <1>7 DEF InstallerTimer, WorldInv, ResourcesOf
  <2>2. world' = Amend(world, s, info, timers)
    BY <1>7, <2>1 DEF InstallerTimer
  <2>3. i \in SessionInfo
    BY <1>1, <2>1 DEF WorldInv, WorldOK, Worlds
  <2>4. info.user = i.user
    BY <2>3 DEF SessionInfo
  <2> HIDE DEF info, timers
  <2>5. Noted(world, world')
    BY <2>1, <2>2, <2>4, AmendNoted
  <2> QED
    BY <1>1, <2>1, <2>5 DEF Noted, Served, GreeterWell
<1>8. CASE Shutdown
  BY <1>8, NoWorldInv DEF Shutdown, Served
<1>9. ASSUME NEW s \in Ids, Manager(s)
      PROVE  Served(world') /\ DOMAIN world'.sessions # {}
  <2>1. s \in DOMAIN world.sessions
    BY <1>9 DEF Manager, SessionJobEnds, DaemonJobEnds, UnitEnds, ManagerLost
  <2> QED
    BY <1>1, <1>9, <2>1, ManagersServed
<1>10. CASE UNCHANGED vars
  BY <1>1, <1>10 DEF vars
<1> QED
  BY <1>3, <1>4, <1>5, <1>6, <1>7, <1>8, <1>9, <1>10 DEF Next, Daemon

\* If the login screen itself neither fails to start nor ends, and logind can
\* tell a new session from the one just ended, then a running daemon always has
\* a session: whoever logs out last, or crashes, finds the login screen again.
THEOREM AlwaysALogin ==
  ASSUME ~GreeterMayEnd, \E d, e \in Ids : d # e
  PROVE  Spec => []LoginAvailable
<1>1. Init => GreeterServed
  BY NoWorldInv DEF Init, GreeterServed, Served
<1>2. GreeterServed => LoginAvailable
  BY DEF GreeterServed, LoginAvailable
<1>3. Inv /\ JobsAccounted /\ GreeterServed /\ [Next]_vars => GreeterServed'
  BY StepServed
<1> QED
  BY <1>1, <1>2, <1>3, Invariance, AccountsHold, PTL DEF Spec
=============================================================================
