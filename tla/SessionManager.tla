--------------------------- MODULE SessionManager ---------------------------
(***************************************************************************)
(* The session manager of the system daemon                                *)
(* (src/src/services/session_manager/session_manager_service.cpp).         *)
(*                                                                         *)
(* It opens a PAM/logind session per login, starts the session's units in  *)
(* the user's systemd manager, and keeps the table _sessions, the id of    *)
(* the greeter's session and the flag _isGreeterActive.  The daemon is     *)
(* single-threaded: a handler runs to its end, blocking calls included,    *)
(* before the main loop picks the next event, so each handler is one step. *)
(* The user managers, the session programs and the GLib timer run beside   *)
(* it and reach it only through queued signals and events.                 *)
(*                                                                         *)
(* A handler calls others (StopSession may call CreateLoginSession, which  *)
(* may call CreateSession, which may call StopLoginSession), so each       *)
(* method is an operator from the state before the call to the state after *)
(* it, and the actions apply them.  What a blocking external call answered *)
(* is a parameter of the operator.                                         *)
(*                                                                         *)
(* The signals of a session's user manager come over a connection of their *)
(* own, whose GLib source hands over at most MaxBatch queued messages each *)
(* time it is dispatched, and is removed afterwards if the connection was  *)
(* found closed when the dispatch began.                                   *)
(***************************************************************************)
EXTENDS Naturals, Sequences

CONSTANTS
  Ids,              \* logind session ids; one is drawn only while nothing refers to it
  NoId,             \* the empty session id
  Users,            \* accounts that can log in
  Root,             \* the account with uid 0
  LiveUser,         \* the account of the live image
  GreeterUser,      \* the account of the login screen
  NoUser,           \* no account
  AutologinUser,    \* the account marked AutomaticLogin, or NoUser
  LiveEnvironment,  \* _isLiveEnvironment
  Failures,         \* the external calls that may fail
  MaxBatch,         \* messages one dispatch of a peer's source handles (64)
  GreeterMayEnd     \* may the login screen fail to start, crash, or stop itself?

ASSUME SessionAssumption ==
  /\ NoId \notin Ids
  /\ GreeterUser \notin Users
  /\ NoUser \notin Users \cup {GreeterUser}
  /\ LiveUser \in Users
  /\ AutologinUser \in Users \cup {NoUser}
  /\ LiveEnvironment \in BOOLEAN
  /\ GreeterMayEnd \in BOOLEAN
  /\ Failures \subseteq {"auth", "startup", "activate"}
  /\ MaxBatch \in Nat \ {0}

VARIABLES
  world,  \* the service's tables and the processes, timers and queues around it
  phase,  \* "booting" until the idle callback, "running", "stopped" after the destructor
  batch,  \* the dispatch of a peer's source under way, or NoBatch
  deaf    \* the sessions whose peer's source has been removed before its queue was empty

vars == <<world, phase, batch, deaf>>
-----------------------------------------------------------------------------
Accounts == Users \cup {GreeterUser}

\* The two start jobs of a session: session@ (the compositor) and session-daemon@.
Jobs == {"session", "daemon"}

SessionInfo ==
  [user : Accounts, starting : BOOLEAN, startJobs : SUBSET Jobs,
   activeState : {"inactive", "active", "failed"},
   result : {"success", "exit-code"},
   privileged : BOOLEAN,
   installerLaunchScheduled : BOOLEAN, installerStarted : BOOLEAN,
   installerSource : BOOLEAN]

\* session@ID.service in the user's manager; "gone" once the manager hung up.
UnitStates == {"none", "pending", "active", "exited", "failed", "gone"}

\* What a user manager's connection can queue for the daemon.
Signals == [kind : {"props", "disconnected", "job"}, job : Jobs, done : BOOLEAN]

PropertiesChanged == [kind |-> "props", job |-> "session", done |-> TRUE]
Disconnected == [kind |-> "disconnected", job |-> "session", done |-> TRUE]
JobRemoved(j, ok) == [kind |-> "job", job |-> j, done |-> ok]

\* The account TryAutologinSession logs in without a password.
Autologin == IF LiveEnvironment THEN LiveUser ELSE AutologinUser

\* Answers of the external calls a handler makes: the automatic login's
\* CreateSession, the greeter's CreateSession, ActivateSessionOnSeat.
Openings == {"ok"} \cup (Failures \cap {"auth", "startup"})
GreeterOpenings == IF GreeterMayEnd THEN Openings ELSE {"ok"}
Activations == {"ok"} \cup (Failures \cap {"activate"})
AutologinAnswers == IF Autologin = NoUser THEN {"ok"} ELSE Openings
Answers == [auto : AutologinAnswers, greeter : GreeterOpenings, activate : Activations]
-----------------------------------------------------------------------------
\* ids logind may give to a new session: not the one that just ended, and none
\* that _sessions or _greeterSessionID still names
Free(w) == Ids \ (DOMAIN w.sessions \cup {w.greeterId, w.retired})

Opens(w, answer) == answer = "ok" /\ Free(w) # {}

NewId(w) == CHOOSE n \in Free(w) : TRUE

Erase(S, s) == [x \in DOMAIN S \ {s} |-> S[x]]

Register(S, n, info) ==
  [x \in DOMAIN S \cup {n} |-> IF x = n THEN info ELSE S[x]]

\* The record a successful CreateSession leaves: registered, both start jobs
\* recorded, and the snapshot RefreshSessionState took before they ran.
NewSession(u) ==
  [user |-> u, starting |-> TRUE, startJobs |-> Jobs,
   activeState |-> "inactive", result |-> "success", privileged |-> FALSE,
   installerLaunchScheduled |-> FALSE, installerStarted |-> FALSE,
   installerSource |-> FALSE]

\* Mutant of CloseSession: the installer's GLib source is not removed.
CloseSessionKeepsTimer(w, s) ==
  [w EXCEPT !.sessions = Erase(@, s), !.retired = s,
            !.leaders = @ \ {s},
            !.seat = IF @ = s THEN NoId ELSE @,
            !.unit[s] = "none", !.jobs[s] = {}, !.inbox[s] = <<>>]

\* What steps 2 to 6 of CreateSession leave when all went well: a PAM leader on
\* the VT now shown, the record, both start jobs queued in the user manager, and
\* the unit's first PropertiesChanged, read while a later call was blocking.
OpenSession(w, n, u) ==
  [w EXCEPT !.sessions = Register(@, n, NewSession(u)),
            !.leaders = @ \cup {n}, !.seat = n,
            !.unit[n] = "pending", !.jobs[n] = Jobs,
            !.inbox[n] = <<PropertiesChanged>>]

\* The handlers below amend one record and the set of GLib timers.
Amend(w, s, info, timers) ==
  [w EXCEPT !.sessions[s] = info, !.timers = timers]

\* The user manager of s moves, or its queue does.
ManagerStep(w, s, unit, jobs, inbox) ==
  [w EXCEPT !.unit[s] = unit, !.jobs[s] = jobs, !.inbox[s] = inbox]

SetGreeter(w, id, active) ==
  [w EXCEPT !.greeterId = id, !.greeterActive = active]

\* The unconditional part of StopSession: the installer timer is removed, the
\* units are stopped, the PAM leader is told to exit and reaped, and the peer
\* connection (with what it still queues) and the record are dropped.
CloseSession(w, s) ==
  [w EXCEPT !.sessions = Erase(@, s), !.retired = s,
            !.timers = IF w.sessions[s].installerSource THEN @ \ {s} ELSE @,
            !.leaders = @ \ {s},
            !.seat = IF @ = s THEN NoId ELSE @,
            !.unit[s] = "none", !.jobs[s] = {}, !.inbox[s] = <<>>]

\* Mutant of StopLoginSession: _isGreeterActive is not reset.
StopLoginSessionKeepsFlag(w) ==
  IF w.greeterActive /\ w.greeterId \in DOMAIN w.sessions
  THEN SetGreeter(CloseSession(w, w.greeterId), NoId, TRUE)
  ELSE w

\* Stopping the greeter never starts another session (isLoginSession), so the
\* inner StopSession is CloseSession; on a stale id it throws before any change.
StopLoginSession(w) ==
  IF w.greeterActive /\ w.greeterId \in DOMAIN w.sessions
  THEN SetGreeter(CloseSession(w, w.greeterId), NoId, FALSE)
  ELSE w

\* "auth": PAM refused before the VT was switched, nothing is left behind.
\* "startup": a later step threw; the guards stop the units, reap the leader
\* and erase the record, but the seat already shows the new, now dead, VT.
CreateSession(w, u, isLogin, answer) ==
  IF Opens(w, answer)
  THEN LET opened == OpenSession(w, NewId(w), u)
       IN IF isLogin THEN opened ELSE StopLoginSession(opened)
  ELSE IF answer = "startup" THEN [w EXCEPT !.seat = NoId] ELSE w

\* TryAutologinSession: TRUE when it opened a session, and the state it leaves.
AutologinOpens(w, answer) == Autologin # NoUser /\ Opens(w, answer)

TryAutologinSession(w, answer) ==
  IF Autologin = NoUser THEN w ELSE CreateSession(w, Autologin, FALSE, answer)

CreateLoginSession(w, a) ==
  IF w.greeterActive THEN w
  ELSE LET tried == TryAutologinSession(w, a.auto)
           greeted == CreateSession(tried, GreeterUser, TRUE, a.greeter)
       IN IF AutologinOpens(w, a.auto) THEN tried
          ELSE IF Opens(tried, a.greeter)
               THEN SetGreeter(greeted, NewId(tried), TRUE)
               ELSE greeted

\* _sessions.begin()
First(S) == CHOOSE s \in DOMAIN S : TRUE

\* Mutant of AfterLogout: switch when a session is left, never open a greeter.
AfterLogoutNoGreeter(w, a) ==
  IF DOMAIN w.sessions # {} /\ a.activate = "ok"
  THEN [w EXCEPT !.seat = First(w.sessions)] ELSE w

\* Mutant of AfterLogout: the seat is not switched to a remaining session.
AfterLogoutNoSwitch(w, a) ==
  IF DOMAIN w.sessions = {} THEN CreateLoginSession(w, a) ELSE w

\* Switch to another session, or back to the login screen when none is left.
AfterLogout(w, a) ==
  IF DOMAIN w.sessions = {} THEN CreateLoginSession(w, a)
  ELSE IF a.activate = "ok" THEN [w EXCEPT !.seat = First(w.sessions)]
  ELSE w

StopSession(w, s, a) ==
  LET closed == CloseSession(w, s)
  IN IF s = w.greeterId \/ w.greeterActive THEN closed
     ELSE AfterLogout(closed, a)
-----------------------------------------------------------------------------
\* Mutant of ActiveState: an unknown state string is taken over as it is.
ActiveStateRaw(u) == u

\* ActiveState and Result as the user manager reports them.
ActiveState(u) ==
  CASE u = "active" -> "active"
    [] u = "failed" -> "failed"
    [] OTHER -> "inactive"

Result(u) == IF u = "failed" THEN "exit-code" ELSE "success"

\* HandleSessionActiveStateChanged schedules the installer of a live session.
SchedulesInstaller(i) ==
  /\ ~i.starting
  /\ LiveEnvironment
  /\ i.activeState = "active"
  /\ i.user = LiveUser
  /\ ~i.installerLaunchScheduled
  /\ ~i.installerStarted

\* Mutant of EvaluateSessionState: the startup snapshot is judged too.
EvaluateWhileStarting(i) ==
  \/ i.activeState = "failed"
  \/ i.result # "success"
  \/ i.activeState = "inactive" /\ i.result = "success"

\* Mutant of EvaluateSessionState: a clean exit does not end the session.
EvaluateFailuresOnly(i) ==
  /\ ~i.starting
  /\ i.activeState = "failed" \/ i.result # "success"

\* EvaluateSessionState: does the snapshot end the session?
EvaluateSessionState(i) ==
  /\ ~i.starting
  /\ \/ i.activeState = "failed"
     \/ i.result # "success"
     \/ i.activeState = "inactive" /\ i.result = "success"

\* Read Result, MainPID and ActiveState, then act on the snapshot.  MainPID is
\* a live process of the user exactly while the unit is active.  A manager that
\* is gone makes the first read throw, and nothing changes.
RefreshSessionState(w, s, a) ==
  IF w.unit[s] = "gone" THEN w
  ELSE LET snapshot == [w.sessions[s] EXCEPT
                          !.result = Result(w.unit[s]),
                          !.privileged = (w.unit[s] = "active"),
                          !.activeState = ActiveState(w.unit[s])]
           schedules == SchedulesInstaller(snapshot)
           info == [snapshot EXCEPT
                      !.installerLaunchScheduled = @ \/ schedules,
                      !.installerSource = @ \/ schedules]
           seen == Amend(w, s, info, IF schedules THEN w.timers \cup {s} ELSE w.timers)
       IN IF EvaluateSessionState(info) THEN StopSession(seen, s, a) ELSE seen

\* Mutant of HandleSessionJobRemoved: the first job done ends the startup.
JobRemovedEndsStartup(w, s, signal, a) ==
  LET i == w.sessions[s]
      left == i.startJobs \ {signal.job}
      marked == Amend(w, s, [i EXCEPT !.startJobs = left, !.starting = FALSE], w.timers)
  IN IF signal.job \notin i.startJobs THEN w
     ELSE IF ~signal.done THEN StopSession(marked, s, a)
     ELSE RefreshSessionState(marked, s, a)

\* Mutant of HandleSessionJobRemoved: no fresh snapshot when the startup ends.
JobRemovedNoRefresh(w, s, signal, a) ==
  LET i == w.sessions[s]
      left == i.startJobs \ {signal.job}
      marked == Amend(w, s, [i EXCEPT !.startJobs = left, !.starting = (left # {})],
                      w.timers)
  IN IF signal.job \notin i.startJobs THEN w
     ELSE IF ~signal.done THEN StopSession(marked, s, a)
     ELSE marked

HandleSessionJobRemoved(w, s, signal, a) ==
  LET i == w.sessions[s]
      left == i.startJobs \ {signal.job}
      marked == Amend(w, s, [i EXCEPT !.startJobs = left, !.starting = (left # {})],
                      w.timers)
  IN IF signal.job \notin i.startJobs THEN w
     ELSE IF ~signal.done THEN StopSession(marked, s, a)
     ELSE IF left = {} THEN RefreshSessionState(marked, s, a)
     ELSE marked

HandleSignal(w, s, signal, a) ==
  CASE signal.kind = "props" -> RefreshSessionState(w, s, a)
    [] signal.kind = "job" -> HandleSessionJobRemoved(w, s, signal, a)
    [] signal.kind = "disconnected" -> StopSession(w, s, a)

IsGreeter(w, u) ==
  /\ w.greeterId \in DOMAIN w.sessions
  /\ w.sessions[w.greeterId].user = u

\* SharedPolicy for a call from the main process of session c: a session of its
\* user is managed and the process is on a privileged list.
SharedPolicy(w, c) ==
  /\ c \in DOMAIN w.sessions
  /\ w.unit[c] = "active"
  /\ w.sessions[c].privileged
-----------------------------------------------------------------------------
NoWorld ==
  [sessions |-> [s \in {} |-> NewSession(GreeterUser)],
   greeterId |-> NoId, greeterActive |-> FALSE, seat |-> NoId, retired |-> NoId,
   leaders |-> {}, timers |-> {},
   unit |-> [s \in Ids |-> "none"], jobs |-> [s \in Ids |-> {}],
   inbox |-> [s \in Ids |-> <<>>]]

\* A dispatch: the session whose peer it serves, the messages it may still
\* handle, and whether it found the connection closed.
Batches == [source : Ids, left : 1..MaxBatch - 1, last : BOOLEAN]
NoBatch == [source |-> NoId, left |-> 0, last |-> FALSE]

\* The destructor of a session's DBusPeer takes its source along.
PeersFollow == deaf' = deaf \cap DOMAIN world'.sessions

\* A handler that the main loop calls between two dispatches of GLib's sources.
Between == batch = NoBatch /\ batch' = batch /\ PeersFollow

Init == world = NoWorld /\ phase = "booting" /\ batch = NoBatch /\ deaf = {}

\* The idle callback the constructor queued; a failure is only logged.
Start ==
  /\ phase = "booting"
  /\ \E a \in Answers : world' = CreateLoginSession(world, a)
  /\ phase' = "running"
  /\ Between

OnCreateSession(c, u) ==
  /\ phase = "running"
  /\ SharedPolicy(world, c)
  /\ world.sessions[c].user = Root \/ IsGreeter(world, world.sessions[c].user)
  /\ \E answer \in Openings : world' = CreateSession(world, u, FALSE, answer)
  /\ UNCHANGED phase
  /\ Between

\* A call with the empty id passes the checks for the caller's own session and
\* then stops the session named "", which throws: no step of this model.
OnStopSession(c, s) ==
  /\ phase = "running"
  /\ SharedPolicy(world, c)
  /\ s \in DOMAIN world.sessions
  /\ world.sessions[s].user = world.sessions[c].user
  /\ GreeterMayEnd \/ s # world.greeterId
  /\ \E a \in Answers : world' = StopSession(world, s, a)
  /\ UNCHANGED phase
  /\ Between

\* The dispatch of s after one more message: the one under way, or a new one,
\* whose ReadWrite(0) tells whether the connection is still open.
Continued(s) ==
  IF batch = NoBatch
  THEN [source |-> s, left |-> MaxBatch - 1, last |-> (world.unit[s] = "gone")]
  ELSE [batch EXCEPT !.left = @ - 1]

\* It ends with the queue, with the limit, or with the session.  If the
\* connection was closed the source is then removed, and what is still queued,
\* Disconnected included, is never handled.
EndOfDispatch(s) ==
  LET now == Continued(s)
      over == s \notin DOMAIN world'.sessions \/ world'.inbox[s] = <<>> \/ now.left = 0
  IN /\ batch' = IF over THEN NoBatch ELSE now
     /\ deaf' = (deaf \cup IF over /\ now.last THEN {s} ELSE {}) \cap DOMAIN world'.sessions

\* The source of session s hands its next queued signal to the handler.
Dispatch(s) ==
  /\ phase = "running"
  /\ s \in DOMAIN world.sessions \ deaf
  /\ batch.source \in {NoId, s}
  /\ world.inbox[s] # <<>>
  /\ \E a \in Answers :
       world' = HandleSignal(ManagerStep(world, s, world.unit[s], world.jobs[s],
                                         Tail(world.inbox[s])),
                             s, Head(world.inbox[s]), a)
  /\ EndOfDispatch(s)
  /\ UNCHANGED phase

\* The 5 s installer timer of session s.
InstallerTimer(s) ==
  /\ phase = "running"
  /\ s \in world.timers
  /\ world' =
       IF s \in DOMAIN world.sessions
       THEN Amend(world, s,
                  [world.sessions[s] EXCEPT
                     !.installerSource = FALSE,
                     !.installerStarted = @ \/ world.sessions[s].activeState = "active"],
                  world.timers \ {s})
       ELSE [world EXCEPT !.timers = @ \ {s}]
  /\ UNCHANGED phase
  /\ Between

\* ~SessionManagerService: every session is ended and every table cleared.
Shutdown ==
  /\ phase # "stopped"
  /\ world' = NoWorld
  /\ phase' = "stopped"
  /\ Between
-----------------------------------------------------------------------------
(* The user managers (systemd), modelled from how the daemon uses them.    *)

MayEnd(s) == GreeterMayEnd \/ world.sessions[s].user # GreeterUser

\* A start job ends.  session-daemon@ is ordered After= and Requires= session@.
\* JobRemoved and the unit's PropertiesChanged come in either order.
SessionJobEnds(s, ok) ==
  /\ phase = "running"
  /\ s \in DOMAIN world.sessions
  /\ "session" \in world.jobs[s] /\ world.unit[s] = "pending"
  /\ ok \/ MayEnd(s)
  /\ \E order \in {<<PropertiesChanged, JobRemoved("session", ok)>>,
                   <<JobRemoved("session", ok), PropertiesChanged>>} :
       world' = ManagerStep(world, s, IF ok THEN "active" ELSE "failed",
                            world.jobs[s] \ {"session"}, world.inbox[s] \o order)
  /\ UNCHANGED <<phase, batch, deaf>>

DaemonJobEnds(s, ok) ==
  /\ phase = "running"
  /\ s \in DOMAIN world.sessions
  /\ world.jobs[s] = {"daemon"} /\ world.unit[s] # "gone"
  /\ ok \/ MayEnd(s)
  /\ world.unit[s] = "failed" => ~ok
  /\ world' = ManagerStep(world, s, world.unit[s], {},
                          Append(world.inbox[s], JobRemoved("daemon", ok)))
  /\ UNCHANGED <<phase, batch, deaf>>

\* The compositor or greeter ends: "exited" cleanly, or "failed".
UnitEnds(s, how) ==
  /\ phase = "running"
  /\ s \in DOMAIN world.sessions
  /\ world.unit[s] = "active" /\ MayEnd(s)
  /\ world' = ManagerStep(world, s, how, world.jobs[s],
                          Append(world.inbox[s], PropertiesChanged))
  /\ UNCHANGED <<phase, batch, deaf>>

\* The user manager dies: libdbus queues Disconnected behind what has arrived.
ManagerLost(s) ==
  /\ phase = "running"
  /\ s \in DOMAIN world.sessions
  /\ world.unit[s] # "gone" /\ MayEnd(s)
  /\ world' = ManagerStep(world, s, "gone", {}, Append(world.inbox[s], Disconnected))
  /\ UNCHANGED <<phase, batch, deaf>>

Manager(s) ==
  \/ \E ok \in BOOLEAN : SessionJobEnds(s, ok)
  \/ \E ok \in BOOLEAN : DaemonJobEnds(s, ok)
  \/ \E how \in {"exited", "failed"} : UnitEnds(s, how)
  \/ ManagerLost(s)

Daemon ==
  \/ Start
  \/ \E c \in Ids, u \in Users : OnCreateSession(c, u)
  \/ \E c, s \in Ids : OnStopSession(c, s)
  \/ \E s \in Ids : Dispatch(s) \/ InstallerTimer(s)
  \/ Shutdown

Next == Daemon \/ \E s \in Ids : Manager(s)

Spec == Init /\ [][Next]_vars

\* The main loop runs until shutdown, so queued events, timers and the idle
\* callback are served: GLib dispatches every source it found ready, one after
\* the other, before it looks again, so a dispatch of one source does not keep
\* another from its turn for ever.  systemd finishes the jobs it accepted.
\* Nobody has to log in, log out or crash.
Fairness ==
  /\ WF_vars(Start)
  /\ \A s \in Ids : /\ SF_vars(Dispatch(s))
                    /\ SF_vars(InstallerTimer(s))
                    /\ WF_vars(\E ok \in BOOLEAN : SessionJobEnds(s, ok))
                    /\ WF_vars(\E ok \in BOOLEAN : DaemonJobEnds(s, ok))

FairSpec == Spec /\ Fairness
-----------------------------------------------------------------------------
(* Properties                                                              *)

Worlds(Sess) ==
  [sessions : Sess, greeterId : Ids \cup {NoId}, greeterActive : BOOLEAN,
   seat : Ids \cup {NoId}, retired : Ids \cup {NoId},
   leaders : SUBSET Ids, timers : SUBSET Ids,
   unit : [Ids -> UnitStates], jobs : [Ids -> SUBSET Jobs],
   inbox : [Ids -> Seq(Signals)]]

WorldOK(w) ==
  /\ DOMAIN w.sessions \subseteq Ids
  /\ w \in Worlds([DOMAIN w.sessions -> SessionInfo])

\* Every table entry, queue and process state has its declared shape.
TypeOK ==
  /\ WorldOK(world)
  /\ phase \in {"booting", "running", "stopped"}
  /\ batch \in Batches \cup {NoBatch}
  /\ deaf \in SUBSET Ids

\* While _isGreeterActive is set the greeter's session is the only one there
\* can be (a login always takes it down), the flag and _greeterSessionID agree,
\* and that session, and no other, runs as the greeter's account.
\* OnCreateSession and StopSession decide on the flag alone.
GreeterExclusive(w) ==
  /\ w.greeterActive => DOMAIN w.sessions \subseteq {w.greeterId}
  /\ w.greeterActive <=> w.greeterId # NoId
  /\ \A s \in DOMAIN w.sessions :
       w.sessions[s].user = GreeterUser <=> s = w.greeterId

GreeterAlone == GreeterExclusive(world)

\* Exactly the registered sessions have a PAM leader; a pending installer timer
\* belongs to a registered session that remembers its source; a session that is
\* gone has no unit, job or queued signal left that could call back into it.
ResourcesOf(w) ==
  /\ w.leaders = DOMAIN w.sessions
  /\ w.timers = {s \in DOMAIN w.sessions : w.sessions[s].installerSource}
  /\ w.seat \in DOMAIN w.sessions \cup {NoId}
  /\ \A s \in Ids \ DOMAIN w.sessions :
       w.unit[s] = "none" /\ w.jobs[s] = {} /\ w.inbox[s] = <<>>

NoOrphans == ResourcesOf(world)

QueuedJobs(q) == {q[k].job : k \in {i \in DOMAIN q : q[i].kind = "job"}}

\* A session counts as starting exactly while a start job is unaccounted for,
\* and each such job is still with the user manager or its JobRemoved is queued
\* (unless the manager hung up): no completion is lost or counted twice,
\* whatever the order in which signals arrive.
JobsAccountedFor ==
  \A s \in DOMAIN world.sessions :
    LET i == world.sessions[s]
    IN /\ i.starting <=> i.startJobs # {}
       /\ world.unit[s] # "gone" =>
            i.startJobs = world.jobs[s] \cup QueuedJobs(world.inbox[s])

\* The reasons for which the daemon may end session s in the step taken.
JobFailed(s) ==
  \E k \in DOMAIN world.inbox[s] :
    world.inbox[s][k].kind = "job" /\ ~world.inbox[s][k].done

ReplacedByLogin(s) ==
  /\ s = world.greeterId
  /\ DOMAIN world'.sessions # {}
  /\ world'.sessions[world'.seat].starting

\* A healthy session is never torn down: a session disappears only when its
\* program or manager ended, a start job failed, its own user asked for it, a
\* login replaced the greeter, or the daemon shut down.  Startup signals that
\* were queued during blocking calls are not such a reason.
NoSpuriousStop ==
  [][\A s \in DOMAIN world.sessions \ DOMAIN world'.sessions :
       \/ world.unit[s] \in {"exited", "failed", "gone"}
       \/ JobFailed(s)
       \/ ReplacedByLogin(s)
       \/ \E c \in Ids : OnStopSession(c, s)
       \/ phase' = "stopped"]_vars

\* A session whose program or user manager ended is eventually closed, also
\* when it ended during startup, where PropertiesChanged is ignored.  The one
\* exception is a manager that hung up behind more messages than one dispatch
\* handles: its source is removed before Disconnected is reached.
DeadSessionReaped ==
  \A s \in Ids :
    (s \in DOMAIN world.sessions /\ world.unit[s] \in {"exited", "failed", "gone"})
      ~> (\/ phase = "stopped"
          \/ world.unit[s] \notin {"exited", "failed", "gone"}
          \/ s \in deaf)

\* On the live image, the installer of a live session that stays up is
\* eventually launched, even if the session became active during startup.
InstallerOffered ==
  \A s \in Ids :
    (/\ LiveEnvironment
     /\ s \in DOMAIN world.sessions
     /\ world.sessions[s].user = LiveUser
     /\ world.unit[s] = "active")
      ~> (\/ phase = "stopped"
          \/ world.unit[s] # "active"
          \/ world.sessions[s].installerStarted)

\* "if there are no sessions, just create a login session": once booted there
\* is always a session, the greeter's or a user's.
LoginAvailable == phase = "running" => DOMAIN world.sessions # {}

\* While there is a session, the seat shows one of them.
SeatShowsSession == DOMAIN world.sessions # {} => world.seat # NoId
=============================================================================
