--------------------------- MODULE SessionLeader ---------------------------
(***************************************************************************)
(* The processes that hold the sessions open                               *)
(* (src/src/services/session_manager/session_manager_service.cpp).         *)
(*                                                                         *)
(* For each session the daemon forks a leader, which authenticates and     *)
(* opens the session through PAM, says so through a status pipe, and waits *)
(* on a control pipe: a byte, or the end of it, makes it close the session *)
(* and exit.  The end is seen when no process has the pipe open for        *)
(* writing any more.  A fork copies what the daemon has open: the control  *)
(* pipes of other sessions, and into a command that another thread runs at *)
(* that moment (src/src/utils/command_runner.cpp) anything.  The leaders   *)
(* inherit the daemon's signal handler too, with its pipe.                 *)
(***************************************************************************)
EXTENDS Naturals

CONSTANTS
  Leaders,   \* the processes the daemon forks for sessions
  Commands,  \* the commands that other threads run
  Ttys,      \* virtual terminals
  MaxKills   \* bound on the signals that others send to leaders

VARIABLES
  daemon,    \* where the daemon's main thread is
  child,     \* the leader it is dealing with
  vt,        \* the terminal that was free
  quit,      \* "no"; "pending", a signal is in the pipe; "taken", the loop has ended
  sessions,  \* the leaders of _sessions
  pc,        \* where each leader is
  tty,       \* the terminal each leader has open, or 0
  status,    \* the byte in each status pipe
  told,      \* the control pipes with a byte
  holds,     \* the pipes each process has open for writing
  running,   \* where each command is
  kills      \* the number of signals sent

leaderVars == <<pc, tty, status, running, kills>>
vars == <<daemon, child, vt, quit, sessions, told, holds, leaderVars>>

Ends == {"status", "control"} \X Leaders
Processes == {"daemon"} \cup Leaders \cup Commands
Status(l) == <<"status", l>>
Control(l) == <<"control", l>>
Open(end) == \E p \in Processes : end \in holds[p]
Alive(l) == pc[l] \in {"setup", "opening", "serving", "closing"}

Init ==
  /\ daemon = "idle" /\ vt = 0 /\ quit = "no" /\ sessions = {} /\ told = {}
  /\ child = CHOOSE l \in Leaders : TRUE
  /\ pc = [l \in Leaders |-> "none"] /\ tty = [l \in Leaders |-> 0]
  /\ status = [l \in Leaders |-> "none"] /\ holds = [p \in Processes |-> {}]
  /\ running = [c \in Commands |-> "no"] /\ kills = 0
-----------------------------------------------------------------------------
(* The daemon *)

Fresh == {l \in Leaders : pc[l] = "none"}

\* FindFreeTTY: a terminal that nobody has open.
FreeTty ==
  LET free == Ttys \ {tty[l] : l \in Leaders}
  IN  IF free = {} THEN 0 ELSE CHOOSE n \in free : \A m \in free : n <= m

\* The terminal is asked for and the pipes are made.  If the second one cannot be
\* made the first stays open.
OpenPipes ==
  /\ daemon = "idle" /\ quit # "taken" /\ Fresh # {}
  /\ LET l == CHOOSE k \in Fresh : TRUE
     IN /\ child' = l /\ vt' = FreeTty
        /\ \/ /\ holds' = [holds EXCEPT !["daemon"] = @ \cup {Status(l), Control(l)}]
              /\ daemon' = "piped" /\ UNCHANGED pc
           \/ /\ holds' = [holds EXCEPT !["daemon"] = @ \cup {Status(l)}]
              /\ pc' = [pc EXCEPT ![l] = "gone"] /\ UNCHANGED daemon
  /\ UNCHANGED <<quit, sessions, told, tty, status, running, kills>>

ForkKeepsControl ==
  /\ daemon = "piped"
  /\ daemon' = "forked" /\ pc' = [pc EXCEPT ![child] = "setup"]
  /\ holds' = [holds EXCEPT ![child] = holds["daemon"]]
  /\ UNCHANGED <<child, vt, quit, sessions, told, tty, status, running, kills>>

\* The leader closes its copy of the end that the daemon writes to.
Fork ==
  /\ daemon = "piped"
  /\ daemon' = "forked" /\ pc' = [pc EXCEPT ![child] = "setup"]
  /\ holds' = [holds EXCEPT ![child] = holds["daemon"] \ {Control(child)}]
  /\ UNCHANGED <<child, vt, quit, sessions, told, tty, status, running, kills>>

ForkFails ==
  /\ daemon = "piped"
  /\ daemon' = "idle" /\ pc' = [pc EXCEPT ![child] = "gone"]
  /\ holds' = [holds EXCEPT !["daemon"] = @ \ {Status(child), Control(child)}]
  /\ UNCHANGED <<child, vt, quit, sessions, told, tty, status, running, kills>>

\* The parent closes the end that the leader writes to.
CloseStatus ==
  /\ daemon = "forked" /\ daemon' = "reading"
  /\ holds' = [holds EXCEPT !["daemon"] = @ \ {Status(child)}]
  /\ UNCHANGED <<child, vt, quit, sessions, told, leaderVars>>

\* kill, waitpid: what the leader had open is closed.
Reaped ==
  /\ pc' = [pc EXCEPT ![child] = "gone"] /\ tty' = [tty EXCEPT ![child] = 0]
  /\ holds' = [holds EXCEPT ![child] = {}, !["daemon"] = @ \ {Control(child)}]

ChildForgotten ==
  /\ holds' = [holds EXCEPT !["daemon"] = @ \ {Control(child)}]
  /\ daemon' = "idle" /\ UNCHANGED <<child, vt, sessions, told, leaderVars>>

ChildFailed ==
  /\ Reaped /\ daemon' = "idle"
  /\ UNCHANGED <<child, vt, sessions, told, status, running, kills>>

\* read() returns a byte, or nothing when the pipe has ended.
ReadStatus ==
  /\ daemon = "reading"
  /\ \/ /\ status[child] = "opened" /\ daemon' = "opened"
        /\ UNCHANGED <<child, vt, sessions, told, holds, leaderVars>>
     \/ /\ status[child] = "failed" \/ (status[child] = "none" /\ ~Open(Status(child)))
        /\ ChildFailed
  /\ UNCHANGED quit

\* The rest of CreateSession.  If it fails the leader is told, and cleanupPam
\* closes the control pipe before it waits.
SessionCreated ==
  /\ daemon = "opened" /\ daemon' = "idle" /\ sessions' = sessions \cup {child}
  /\ UNCHANGED <<child, vt, quit, told, holds, leaderVars>>

CleanupPam ==
  /\ daemon = "opened" /\ daemon' = "grace" /\ told' = told \cup {child}
  /\ holds' = [holds EXCEPT !["daemon"] = @ \ {Control(child)}]
  /\ UNCHANGED <<child, vt, quit, sessions, leaderVars>>

\* TerminatePAMForSession, on request, when the session has ended, or at the end.
TerminatePAM(l) ==
  /\ daemon = "idle" /\ l \in sessions
  /\ daemon' = "grace" /\ child' = l /\ told' = told \cup {l}
  /\ UNCHANGED <<vt, quit, sessions, holds, leaderVars>>

\* The grace period is over, or was not needed.
Reap ==
  /\ daemon = "grace" /\ Reaped
  /\ daemon' = "idle" /\ sessions' = sessions \ {child}
  /\ UNCHANGED <<child, vt, quit, told, status, running, kills>>

\* A signal interrupts read() if it comes to this thread.
Signalled ==
  /\ daemon # "dead" /\ quit = "no" /\ quit' = "pending"
  /\ \/ UNCHANGED <<daemon, child, vt, sessions, told, holds, leaderVars>>
     \/ daemon = "reading" /\ ChildFailed

\* The loop reads the pipe.  Then the destructor stops every session.
Quits ==
  /\ daemon = "idle" /\ quit = "pending" /\ quit' = "taken"
  /\ UNCHANGED <<daemon, child, vt, sessions, told, holds, leaderVars>>

Dead ==
  /\ daemon' = "dead" /\ holds' = [holds EXCEPT !["daemon"] = {}]
  /\ UNCHANGED <<child, vt, quit, sessions, told, leaderVars>>

Ended == daemon = "idle" /\ quit = "taken" /\ sessions = {} /\ Dead

\* It is killed, aborts, or exits because of a fatal error.
Crashes == daemon # "dead" /\ Dead
-----------------------------------------------------------------------------
(* A leader *)

\* A process that ends has nothing open any more.
Exits(l) ==
  /\ pc' = [pc EXCEPT ![l] = "zombie"] /\ tty' = [tty EXCEPT ![l] = 0]
  /\ holds' = [holds EXCEPT ![l] = {}]

\* PAM refuses or fails, or the terminal cannot be activated.
SetupFails(l) ==
  /\ pc[l] \in {"setup", "opening"} /\ Exits(l)
  /\ status' = [status EXCEPT ![l] = "failed"]
  /\ UNCHANGED <<daemon, child, vt, quit, sessions, told, running, kills>>

\* Authenticated: ActivateTTY opens the terminal and keeps it open.
ActivateTTY(l) ==
  /\ pc[l] = "setup" /\ vt > 0
  /\ pc' = [pc EXCEPT ![l] = "opening"] /\ tty' = [tty EXCEPT ![l] = vt]
  /\ UNCHANGED <<daemon, child, vt, quit, sessions, told, holds, status, running, kills>>

SessionOpened(l) ==
  /\ pc[l] = "opening" /\ pc' = [pc EXCEPT ![l] = "serving"]
  /\ status' = [status EXCEPT ![l] = "opened"]
  /\ holds' = [holds EXCEPT ![l] = @ \ {Status(l)}]
  /\ UNCHANGED <<daemon, child, vt, quit, sessions, told, tty, running, kills>>

\* read() returns a byte, or nothing when the pipe has ended.
ShutdownRead(l) ==
  /\ pc[l] = "serving" /\ (l \in told \/ ~Open(Control(l)))
  /\ pc' = [pc EXCEPT ![l] = "closing"]
  /\ UNCHANGED <<daemon, child, vt, quit, sessions, told, holds, tty, status, running, kills>>

SessionClosed(l) ==
  /\ pc[l] = "closing" /\ Exits(l)
  /\ UNCHANGED <<daemon, child, vt, quit, sessions, told, status, running, kills>>

Leader(l) ==
  \/ SetupFails(l) \/ ActivateTTY(l) \/ SessionOpened(l) \/ ShutdownRead(l) \/ SessionClosed(l)

\* logind ends the session: the inherited handler writes to the pipe that it
\* shares with the daemon, and interrupts the leader's read().
LeaderTerminated(l) ==
  /\ kills < MaxKills /\ kills' = kills + 1 /\ pc[l] \in {"setup", "opening", "serving"}
  /\ pc' = IF pc[l] = "serving" THEN [pc EXCEPT ![l] = "closing"] ELSE pc
  /\ quit' = IF quit = "no" THEN "pending" ELSE quit
  /\ UNCHANGED <<daemon, child, vt, sessions, told, holds, tty, status, running>>

\* It is killed, or a PAM module crashes.
LeaderKilled(l) ==
  /\ kills < MaxKills /\ kills' = kills + 1 /\ Alive(l) /\ Exits(l)
  /\ UNCHANGED <<daemon, child, vt, quit, sessions, told, status, running>>

\* Once the daemon is dead its children are init's.
InitReaps(l) ==
  /\ daemon = "dead" /\ pc[l] = "zombie" /\ pc' = [pc EXCEPT ![l] = "gone"]
  /\ UNCHANGED <<daemon, child, vt, quit, sessions, told, holds, tty, status, running, kills>>

\* CommandRunner::Run in another thread.
CommandStarts(c) ==
  /\ daemon # "dead" /\ running[c] = "no" /\ running' = [running EXCEPT ![c] = "yes"]
  /\ holds' = [holds EXCEPT ![c] = holds["daemon"]]
  /\ UNCHANGED <<daemon, child, vt, quit, sessions, told, pc, tty, status, kills>>

CommandEnds(c) ==
  /\ running[c] = "yes" /\ running' = [running EXCEPT ![c] = "ended"]
  /\ holds' = [holds EXCEPT ![c] = {}]
  /\ UNCHANGED <<daemon, child, vt, quit, sessions, told, pc, tty, status, kills>>
-----------------------------------------------------------------------------
Opening == Fork \/ ForkFails \/ CloseStatus \/ ReadStatus \/ SessionCreated \/ CleanupPam \/ Reap
Leaving == Quits \/ Ended \/ (quit = "taken" /\ \E l \in Leaders : TerminatePAM(l))

Next ==
  \/ OpenPipes \/ Opening \/ Leaving \/ Signalled \/ Crashes
  \/ \E l \in Leaders :
       TerminatePAM(l) \/ Leader(l) \/ LeaderTerminated(l) \/ LeaderKilled(l) \/ InitReaps(l)
  \/ \E c \in Commands : CommandStarts(c) \/ CommandEnds(c)

Spec == Init /\ [][Next]_vars

\* The daemon's main thread runs, PAM answers, commands end.
FairSpec ==
  /\ Spec /\ WF_vars(Opening) /\ WF_vars(Leaving)
  /\ \A l \in Leaders : WF_vars(Leader(l)) /\ WF_vars(InitReaps(l))
  /\ \A c \in Commands : WF_vars(CommandEnds(c))
-----------------------------------------------------------------------------
(* Properties *)

TypeOK ==
  /\ daemon \in {"idle", "piped", "forked", "reading", "opened", "grace", "dead"}
  /\ child \in Leaders /\ vt \in Ttys \cup {0} /\ quit \in {"no", "pending", "taken"}
  /\ sessions \subseteq Leaders /\ told \subseteq Leaders
  /\ pc \in [Leaders ->
       {"none", "setup", "opening", "serving", "closing", "zombie", "gone"}]
  /\ tty \in [Leaders -> Ttys \cup {0}] /\ status \in [Leaders -> {"none", "opened", "failed"}]
  /\ holds \in [Processes -> SUBSET Ends]
  /\ running \in [Commands -> {"no", "yes", "ended"}] /\ kills \in 0 .. MaxKills

\* Between two sessions' openings and closings every process that the daemon has
\* forked and not waited for leads a session, and every session has such a
\* process and a control pipe, which nothing else has: a process id that is
\* killed is never someone else's.  No two leaders have a terminal in common.
LeadersOwned ==
  /\ daemon = "idle" =>
       /\ sessions = {l \in Leaders : pc[l] \notin {"none", "gone"}}
       /\ sessions = {l \in Leaders : Control(l) \in holds["daemon"]}
  /\ \A k, l \in Leaders : k # l /\ tty[k] # 0 => tty[k] # tty[l]

\* The daemon is never stuck in its read of a status pipe, a leader that crashes
\* included, and if the daemon dies at any point no leader is left behind,
\* although leaders hold each other's control pipes and commands hold any.
NoReaderStuck ==
  /\ (daemon = "reading") ~> (daemon # "reading")
  /\ (daemon = "dead") ~> (\A l \in Leaders : pc[l] \in {"none", "gone"})
=============================================================================
