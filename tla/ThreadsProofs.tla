---------------------------- MODULE ThreadsProofs ----------------------------
(***************************************************************************)
(* Proofs about the leaders of sessions, the driver manager's worker and   *)
(* the watchdog, as part of the processes and threads that the run of      *)
(* Threads checks, for any number of leaders, commands, terminals, drivers *)
(* and packages and any time limit of the watchdog.                        *)
(***************************************************************************)
EXTENDS Threads, WellFoundedInduction, TLAPS

\* Whichever part moves, the leaders and the daemon's main thread make a step of
\* theirs or none.
LEMMA SessionSteps ==
  /\ InitAll => Session!Init
  /\ [NextAll]_allVars => [Session!Next]_(Session!vars)
<1>1. InitAll => Session!Init
  BY DEF InitAll
<1>2. UNCHANGED leaderVars => UNCHANGED Session!vars
  BY DEF leaderVars, Session!vars, Session!leaderVars
<1>3. [NextAll]_allVars => Session!Next \/ UNCHANGED leaderVars
  BY DEF NextAll, InLoop, InWatchdog, InLogger, InDriver, InCommand, InSession, allVars, others
<1> QED
  BY <1>1, <1>2, <1>3
-----------------------------------------------------------------------------
(* Types *)

Less == {ss \in Nat \X Nat : ss[1] < ss[2]}

\* The order of the natural numbers, written out, is well-founded.
LEMMA LessWellFounded == IsWellFoundedOn(Less, Nat)
<1>1. Less = OpToRel(<, Nat)
  BY DEF OpToRel, Less
<1> QED
  BY <1>1, NatLessThanWellFounded

\* A set of numbers has a least one.
LEMMA Least ==
  ASSUME NEW S, S \subseteq Nat, S # {}
  PROVE  \E n \in S : \A m \in S : n <= m
<1>1. PICK n \in S : \A m \in S : ~(<<m, n>> \in Less)
  BY LessWellFounded, WFMin
<1>2. ASSUME NEW m \in S, ~(n <= m) PROVE FALSE
  <2>1. m \in Nat /\ n \in Nat /\ m < n
    BY <1>2
  <2>2. <<m, n>> \in Less
    BY <2>1 DEF Less
  <2> QED
    BY <1>1, <2>2
<1> QED
  BY <1>2

\* The terminal that is asked for exists and nobody has it open, or there is none.
LEMMA FreeTtyIsFree ==
  ASSUME Distinct
  PROVE  Session!FreeTty = 0 \/ Session!FreeTty \in Ttys \ {tty[l] : l \in Leaders}
<1> DEFINE free == Ttys \ {tty[l] : l \in Leaders}
<1>1. CASE free = {}
  BY <1>1 DEF Session!FreeTty
<1>2. CASE free # {}
  <2>1. free \subseteq Nat
    BY DEF Distinct
  <2>2. \E n \in free : \A m \in free : n <= m
    BY <1>2, <2>1, Least
  <2> QED
    BY <1>2, <2>2 DEF Session!FreeTty
<1> QED
  BY <1>1, <1>2

\* At first only the daemon runs.
LEMMA TypeInit == Distinct /\ Session!Init => Session!TypeOK
  BY DEF Distinct, Session!Init, Session!TypeOK, Session!Processes, Session!Ends

\* What a process holds changes by ends that exist.
LEMMA EndsExist ==
  ASSUME NEW l \in Leaders
  PROVE  Session!Status(l) \in Session!Ends /\ Session!Control(l) \in Session!Ends
  BY DEF Session!Status, Session!Control, Session!Ends

\* Forks, execs, signals, reads and closings keep the types.
LEMMA TypeStep ==
  ASSUME Distinct, Session!TypeOK, [Session!Next]_(Session!vars)
  PROVE  Session!TypeOK'
<1> USE DEF Session!leaderVars
<1>0. /\ "daemon" \in Session!Processes /\ child \in Session!Processes /\ child \in Leaders
      /\ holds \in [Session!Processes -> SUBSET Session!Ends] /\ Session!Status(child) \in Session!Ends
      /\ \A p \in Session!Processes : holds[p] \subseteq Session!Ends
  BY EndsExist DEF Session!Processes, Session!TypeOK
<1>1. CASE Session!OpenPipes
  <2>1. PICK l \in Session!Fresh : l = CHOOSE k \in Session!Fresh : TRUE
    BY <1>1 DEF Session!OpenPipes
  <2>2. l \in Leaders /\ Session!Status(l) \in Session!Ends /\ Session!Control(l) \in Session!Ends
    BY <2>1, EndsExist DEF Session!Fresh
  <2>3. child' = l /\ vt' \in Ttys \cup {0}
    BY <1>1, <2>1, FreeTtyIsFree DEF Session!OpenPipes
  <2>4. holds' \in [Session!Processes -> SUBSET Session!Ends]
    BY <1>0, <1>1, <2>1, <2>2 DEF Session!OpenPipes
  <2>5. pc' = pc \/ pc' = [pc EXCEPT ![l] = "gone"]
    BY <1>1, <2>1 DEF Session!OpenPipes
  <2>6. mainThread' \in {"piped", mainThread} /\ UNCHANGED <<quit, sessions, told, tty, status, commandState, kills>>
    BY <1>1 DEF Session!OpenPipes
  <2> QED
    BY <2>2, <2>3, <2>4, <2>5, <2>6 DEF Session!TypeOK
<1>2. CASE Session!Fork
  BY <1>0, <1>2 DEF Session!Fork, Session!TypeOK
<1>3. CASE Session!ForkFails
  BY <1>0, <1>3 DEF Session!ForkFails, Session!TypeOK
<1>4. CASE Session!CloseStatus
  BY <1>0, <1>4 DEF Session!CloseStatus, Session!TypeOK
<1>5. ASSUME Session!ChildFailed, quit' \in {quit, "pending"} PROVE Session!TypeOK'
  BY <1>0, <1>5 DEF Session!ChildFailed, Session!Reaped, Session!TypeOK
<1>6. CASE Session!ReadStatus
  BY <1>5, <1>6 DEF Session!ReadStatus, Session!TypeOK
<1>7. CASE Session!SessionCreated
  BY <1>0, <1>7 DEF Session!SessionCreated, Session!TypeOK
<1>8. CASE Session!CleanupPam
  BY <1>0, <1>8 DEF Session!CleanupPam, Session!TypeOK
<1>9. CASE Session!Reap
  BY <1>0, <1>9 DEF Session!Reap, Session!Reaped, Session!TypeOK
<1>10. CASE Session!Quits
  BY <1>10 DEF Session!Quits, Session!TypeOK
<1>11. ASSUME Session!Dead PROVE Session!TypeOK'
  BY <1>0, <1>11 DEF Session!Dead, Session!TypeOK
<1>12. CASE Session!Signalled
  BY <1>5, <1>12 DEF Session!Signalled, Session!TypeOK
<1>13. ASSUME NEW l \in Leaders, Session!TerminatePAM(l) PROVE Session!TypeOK'
  BY <1>13 DEF Session!TerminatePAM, Session!TypeOK
<1>14. ASSUME NEW l \in Leaders, Session!Leader(l) PROVE Session!TypeOK'
  <2>0. l \in Session!Processes /\ Session!Status(l) \in Session!Ends
    BY EndsExist DEF Session!Processes
  <2>1. CASE Session!SetupFails(l)
    BY <1>0, <2>0, <2>1 DEF Session!SetupFails, Session!Exits, Session!TypeOK
  <2>2. CASE Session!ActivateTTY(l)
    BY <2>0, <2>2 DEF Session!ActivateTTY, Session!TypeOK
  <2>3. CASE Session!SessionOpened(l)
    BY <1>0, <2>0, <2>3 DEF Session!SessionOpened, Session!TypeOK
  <2>4. CASE Session!ShutdownRead(l)
    BY <2>0, <2>4 DEF Session!ShutdownRead, Session!TypeOK
  <2>5. CASE Session!SessionClosed(l)
    BY <1>0, <2>0, <2>5 DEF Session!SessionClosed, Session!Exits, Session!TypeOK
  <2> QED
    BY <1>14, <2>1, <2>2, <2>3, <2>4, <2>5 DEF Session!Leader
<1>15. ASSUME NEW l \in Leaders, Session!LeaderTerminated(l) PROVE Session!TypeOK'
  BY <1>15 DEF Session!LeaderTerminated, Session!TypeOK, Distinct
<1>16. ASSUME NEW l \in Leaders, Session!LeaderKilled(l) PROVE Session!TypeOK'
  BY <1>0, <1>16 DEF Session!LeaderKilled, Session!Exits, Session!TypeOK, Distinct, Session!Processes
<1>17. ASSUME NEW l \in Leaders, Session!InitReaps(l) PROVE Session!TypeOK'
  BY <1>17 DEF Session!InitReaps, Session!TypeOK
<1>18. ASSUME NEW c \in Commands, Session!CommandStarts(c) PROVE Session!TypeOK'
  BY <1>0, <1>18 DEF Session!CommandStarts, Session!TypeOK, Session!Processes
<1>19. ASSUME NEW c \in Commands, Session!CommandEnds(c) PROVE Session!TypeOK'
  BY <1>0, <1>19 DEF Session!CommandEnds, Session!TypeOK, Session!Processes
<1>20. CASE UNCHANGED Session!vars
  BY <1>20 DEF Session!vars, Session!TypeOK
<1> QED
  BY <1>1, <1>2, <1>3, <1>4, <1>6, <1>7, <1>8, <1>9, <1>10, <1>11, <1>12, <1>13, <1>14, <1>15,
     <1>16, <1>17, <1>18, <1>19, <1>20
  DEF Session!Next, Session!Opening, Session!Leaving, Session!Ended, Session!Crashes

\* Every variable has its type, for any processes and terminals.
THEOREM LeadersTypeCorrect == SpecAll => []Session!TypeOK
  BY ThreadsAssumption, SessionSteps, TypeInit, TypeStep, PTL DEF SpecAll
-----------------------------------------------------------------------------
(* Which processes the daemon has, and which terminals they have *)

Unreaped == {l \in Leaders : pc[l] \notin {"none", "gone"}}
Controlled == {l \in Leaders : Session!Control(l) \in holds["daemon"]}

\* While a session is opened or closed one leader is an exception, the child: it
\* has no entry in _sessions yet, or its control pipe is closed already.
DaemonOwns ==
  /\ mainThread = "idle" => sessions = Unreaped /\ sessions = Controlled
  /\ mainThread = "piped" =>
       pc[child] = "none" /\ sessions = Unreaped /\ Controlled = sessions \cup {child}
  /\ mainThread \in {"forked", "reading", "opened"} =>
       /\ child \notin sessions
       /\ Unreaped = sessions \cup {child} /\ Controlled = sessions \cup {child}
  /\ mainThread = "grace" =>
       /\ Unreaped \cup {child} = sessions \cup {child}
       /\ Controlled \ {child} = sessions \ {child}

\* Only the child opens a terminal, the one that was free, and not after it has
\* answered.
OpensOwn ==
  /\ \A l \in Leaders : status[l] = "opened" => pc[l] \notin {"none", "setup"}
  /\ \A l \in Leaders : pc[l] = "setup" => l = child /\ mainThread \in {"forked", "reading", "dead"}
  /\ mainThread = "piped" \/ pc[child] = "setup" => vt = 0 \/ \A l \in Leaders : tty[l] # vt

TtysDiffer == \A k, l \in Leaders : k # l /\ tty[k] # 0 => tty[k] # tty[l]

Owns == Session!TypeOK /\ DaemonOwns /\ OpensOwn /\ TtysDiffer

\* At first the daemon has no leader and no pipe.
LEMMA OwnsInit == Distinct /\ Session!Init => Owns
<1> SUFFICES ASSUME Distinct, Session!Init PROVE Owns
  OBVIOUS
<1>1. Unreaped = {} /\ Controlled = {}
  BY DEF Session!Init, Unreaped, Controlled, Session!Processes
<1>2. child \in Leaders
  BY DEF Session!Init, Distinct
<1> QED
  BY <1>1, <1>2, TypeInit DEF Session!Init, Owns, DaemonOwns, OpensOwn, TtysDiffer

\* Each end of a pipe belongs to one leader.
LEMMA EndsDiffer ==
  ASSUME NEW k \in Leaders, NEW l \in Leaders
  PROVE  Session!Control(k) # Session!Status(l) /\ (k # l => Session!Control(k) # Session!Control(l))
  BY DEF Session!Control, Session!Status

\* Every step keeps what the daemon owns at each point of opening and closing.
LEMMA OwnsStep ==
  ASSUME Distinct, Owns, [Session!Next]_(Session!vars)
  PROVE  Owns'
<1> USE DEF Session!leaderVars
<1>0. /\ Session!TypeOK /\ DaemonOwns /\ OpensOwn /\ TtysDiffer /\ Session!TypeOK' /\ child \in Leaders
      /\ child \in Session!Processes /\ "daemon" \in Session!Processes /\ child # "daemon"
  BY TypeStep DEF Owns, Session!TypeOK, Session!Processes, Distinct
<1>1. CASE Session!OpenPipes
  <2>1. PICK l \in Session!Fresh : l = CHOOSE k \in Session!Fresh : TRUE
    BY <1>1 DEF Session!OpenPipes
  <2>2. /\ l \in Leaders /\ pc[l] = "none" /\ child' = l /\ vt' = Session!FreeTty /\ mainThread = "idle"
        /\ UNCHANGED <<sessions, tty, status>>
    BY <1>1, <2>1 DEF Session!OpenPipes, Session!Fresh
  <2>3. vt' = 0 \/ \A k \in Leaders : tty[k] # vt'
    BY <2>2, FreeTtyIsFree
  <2>4. CASE /\ holds' = [holds EXCEPT !["daemon"] = @ \cup {Session!Status(l), Session!Control(l)}]
             /\ mainThread' = "piped" /\ UNCHANGED pc
    <3>1. Unreaped' = Unreaped
      BY <2>4 DEF Unreaped
    <3>2. Controlled' = Controlled \cup {l}
      BY <1>0, <2>2, <2>4, EndsDiffer DEF Controlled, Session!TypeOK
    <3> QED
      BY <1>0, <2>2, <2>3, <2>4, <3>1, <3>2 DEF Owns, DaemonOwns, OpensOwn, TtysDiffer
  <2>5. CASE /\ holds' = [holds EXCEPT !["daemon"] = @ \cup {Session!Status(l)}]
             /\ pc' = [pc EXCEPT ![l] = "gone"] /\ UNCHANGED mainThread
    <3>1. Unreaped' = Unreaped
      BY <1>0, <2>2, <2>5 DEF Unreaped, Session!TypeOK
    <3>2. Controlled' = Controlled
      BY <1>0, <2>2, <2>5, EndsDiffer DEF Controlled, Session!TypeOK
    <3>3. \A k \in Leaders : pc'[k] = IF k = l THEN "gone" ELSE pc[k]
      BY <1>0, <2>2, <2>5 DEF Session!TypeOK
    <3> QED
      BY <1>0, <2>2, <2>3, <2>5, <3>1, <3>2, <3>3 DEF Owns, DaemonOwns, OpensOwn, TtysDiffer
  <2> QED
    BY <1>1, <2>1, <2>4, <2>5 DEF Session!OpenPipes
<1>2. CASE Session!Fork
  <2>0. mainThread = "piped" /\ mainThread' = "forked" /\ UNCHANGED <<child, vt, sessions, tty, status>>
    BY <1>2 DEF Session!Fork
  <2>1. \A l \in Leaders : pc'[l] = IF l = child THEN "setup" ELSE pc[l]
    BY <1>0, <1>2 DEF Session!Fork, Session!TypeOK
  <2>2. Unreaped' = Unreaped \cup {child}
    BY <1>0, <2>1 DEF Unreaped
  <2>3. holds'["daemon"] = holds["daemon"]
    BY <1>0, <1>2 DEF Session!Fork, Session!TypeOK
  <2>4. Controlled' = Controlled
    BY <2>3 DEF Controlled
  <2>5. child \notin sessions
    BY <1>0, <2>0 DEF DaemonOwns, Unreaped
  <2> QED
    BY <1>0, <2>0, <2>1, <2>2, <2>4, <2>5 DEF Owns, DaemonOwns, OpensOwn, TtysDiffer
<1>3. CASE Session!ForkFails
  <2>0. mainThread = "piped" /\ mainThread' = "idle" /\ UNCHANGED <<child, vt, sessions, tty, status>>
    BY <1>3 DEF Session!ForkFails
  <2>1. \A l \in Leaders : pc'[l] = IF l = child THEN "gone" ELSE pc[l]
    BY <1>0, <1>3 DEF Session!ForkFails, Session!TypeOK
  <2>2. Unreaped' = Unreaped
    BY <1>0, <2>0, <2>1 DEF Unreaped, DaemonOwns
  <2>3. Controlled' = Controlled \ {child}
    BY <1>0, <1>3, EndsDiffer DEF Session!ForkFails, Session!TypeOK, Controlled
  <2>4. child \notin sessions
    BY <1>0, <2>0 DEF DaemonOwns, Unreaped
  <2> QED
    BY <1>0, <2>0, <2>1, <2>2, <2>3, <2>4 DEF Owns, DaemonOwns, OpensOwn, TtysDiffer
<1>4. CASE Session!CloseStatus
  <2>0. /\ mainThread = "forked" /\ mainThread' = "reading"
        /\ UNCHANGED <<child, vt, sessions, tty, status, pc>>
    BY <1>4 DEF Session!CloseStatus
  <2>1. Unreaped' = Unreaped
    BY <2>0 DEF Unreaped
  <2>2. Controlled' = Controlled
    BY <1>0, <1>4, EndsDiffer DEF Session!CloseStatus, Session!TypeOK, Controlled
  <2> QED
    BY <1>0, <2>0, <2>1, <2>2 DEF Owns, DaemonOwns, OpensOwn, TtysDiffer
<1>5. ASSUME Session!Reaped
      PROVE  /\ Unreaped' = Unreaped \ {child} /\ Controlled' = Controlled \ {child}
             /\ \A l \in Leaders : pc'[l] = IF l = child THEN "gone" ELSE pc[l]
             /\ \A l \in Leaders : tty'[l] = IF l = child THEN 0 ELSE tty[l]
  <2>1. \A l \in Leaders : pc'[l] = IF l = child THEN "gone" ELSE pc[l]
    BY <1>0, <1>5 DEF Session!Reaped, Session!TypeOK
  <2>2. Unreaped' = Unreaped \ {child}
    BY <2>1 DEF Unreaped
  <2>3. holds'["daemon"] = holds["daemon"] \ {Session!Control(child)}
    BY <1>0, <1>5 DEF Session!Reaped, Session!TypeOK
  <2>4. Controlled' = Controlled \ {child}
    BY <1>0, <2>3, EndsDiffer DEF Controlled
  <2> QED
    BY <1>0, <1>5, <2>1, <2>2, <2>4 DEF Session!Reaped, Session!TypeOK
<1>6. ASSUME Session!ChildFailed, mainThread = "reading" PROVE Owns'
  <2>0. mainThread' = "idle" /\ UNCHANGED <<child, vt, sessions, status>>
    BY <1>6 DEF Session!ChildFailed
  <2>1. child \notin sessions
    BY <1>0, <1>6 DEF DaemonOwns
  <2> QED
    BY <1>0, <1>5, <1>6, <2>0, <2>1 DEF Session!ChildFailed, Owns, DaemonOwns, OpensOwn, TtysDiffer
\* What the daemon does with the leaders where they are.
<1>7. ASSUME UNCHANGED <<pc, tty, status, vt, holds>> PROVE Unreaped' = Unreaped /\ Controlled' = Controlled
  BY <1>7 DEF Unreaped, Controlled
<1>8. CASE Session!ReadStatus
  <2>1. CASE /\ status[child] = "opened" /\ mainThread' = "opened"
             /\ UNCHANGED <<child, vt, sessions, told, holds, Session!leaderVars>>
    BY <1>0, <1>7, <1>8, <2>1 DEF Session!ReadStatus, Owns, DaemonOwns, OpensOwn, TtysDiffer
  <2> QED
    BY <1>6, <1>8, <2>1 DEF Session!ReadStatus
<1>9. CASE Session!SessionCreated
  BY <1>0, <1>7, <1>9 DEF Session!SessionCreated, Owns, DaemonOwns, OpensOwn, TtysDiffer
<1>10. CASE Session!CleanupPam
  <2>0. /\ mainThread = "opened" /\ mainThread' = "grace"
        /\ UNCHANGED <<child, vt, sessions, tty, status, pc>>
    BY <1>10 DEF Session!CleanupPam
  <2>1. Unreaped' = Unreaped
    BY <2>0 DEF Unreaped
  <2>2. Controlled' = Controlled \ {child}
    BY <1>0, <1>10, EndsDiffer DEF Session!CleanupPam, Session!TypeOK, Controlled
  <2> QED
    BY <1>0, <2>0, <2>1, <2>2 DEF Owns, DaemonOwns, OpensOwn, TtysDiffer
<1>11. ASSUME NEW l \in Leaders, Session!TerminatePAM(l) PROVE Owns'
  BY <1>0, <1>7, <1>11 DEF Session!TerminatePAM, Owns, DaemonOwns, OpensOwn, TtysDiffer
<1>12. CASE Session!Reap
  <2>0. /\ mainThread = "grace" /\ mainThread' = "idle" /\ sessions' = sessions \ {child}
        /\ UNCHANGED <<child, vt, status>>
    BY <1>12 DEF Session!Reap
  <2> QED
    BY <1>0, <1>5, <1>12, <2>0 DEF Session!Reap, Owns, DaemonOwns, OpensOwn, TtysDiffer
<1>13. ASSUME UNCHANGED <<mainThread, child, vt, sessions, pc, tty, status, holds>> PROVE Owns'
  BY <1>0, <1>7, <1>13 DEF Owns, DaemonOwns, OpensOwn, TtysDiffer
<1>14. CASE Session!Signalled
  BY <1>6, <1>13, <1>14 DEF Session!Signalled
<1>15. ASSUME Session!Dead PROVE Owns'
  BY <1>0, <1>15 DEF Session!Dead, Owns, DaemonOwns, OpensOwn, TtysDiffer
\* What a leader does is of no concern to the daemon until it is reaped.
<1>16. ASSUME NEW l \in Leaders, UNCHANGED <<mainThread, child, vt, sessions>>,
              pc[l] \notin {"none", "gone"},
              \A k \in Leaders : k # l => pc'[k] = pc[k] /\ status'[k] = status[k],
              pc'[l] \notin {"none", "gone"}, pc'[l] = "setup" => pc[l] = "setup",
              status'[l] = "opened" => status[l] = "opened" \/ pc'[l] # "setup",
              holds'["daemon"] = holds["daemon"],
              UNCHANGED tty \/ \A k \in Leaders : tty'[k] = IF k = l THEN 0 ELSE tty[k]
       PROVE  Owns'
  <2>1. Unreaped' = Unreaped
    BY <1>16 DEF Unreaped
  <2>2. Controlled' = Controlled
    BY <1>16 DEF Controlled
  <2>3. DaemonOwns'
    BY <1>0, <1>16, <2>1, <2>2 DEF DaemonOwns
  <2>4. OpensOwn'
    BY <1>0, <1>16 DEF OpensOwn
  <2>5. TtysDiffer'
    BY <1>0, <1>16 DEF TtysDiffer
  <2> QED
    BY <1>0, <2>3, <2>4, <2>5 DEF Owns
<1>17. ASSUME NEW l \in Leaders PROVE l \in Session!Processes /\ l # "daemon"
  BY DEF Session!Processes, Distinct
<1>18. ASSUME NEW l \in Leaders, Session!Exits(l), UNCHANGED <<mainThread, child, vt, sessions>>, Session!Alive(l),
              \A k \in Leaders : status'[k] = status[k] \/ status'[k] = "failed"
       PROVE  Owns'
  <2>1. /\ \A k \in Leaders : pc'[k] = IF k = l THEN "zombie" ELSE pc[k]
        /\ \A k \in Leaders : tty'[k] = IF k = l THEN 0 ELSE tty[k]
        /\ holds'["daemon"] = holds["daemon"]
    BY <1>0, <1>17, <1>18 DEF Session!Exits, Session!TypeOK
  <2>2. Unreaped' = Unreaped
    BY <1>18, <2>1 DEF Unreaped, Session!Alive
  <2>3. Controlled' = Controlled
    BY <2>1 DEF Controlled
  <2>4. DaemonOwns'
    BY <1>0, <1>18, <2>1, <2>2, <2>3 DEF DaemonOwns, Session!Alive
  <2>5. OpensOwn'
    BY <1>0, <1>18, <2>1 DEF OpensOwn
  <2>6. TtysDiffer'
    BY <1>0, <2>1 DEF TtysDiffer
  <2> QED
    BY <1>0, <2>4, <2>5, <2>6 DEF Owns
<1>19. ASSUME NEW l \in Leaders, Session!SetupFails(l) PROVE Owns'
  BY <1>0, <1>18, <1>19 DEF Session!SetupFails, Session!Alive, Session!TypeOK
<1>20. ASSUME NEW l \in Leaders, Session!ActivateTTY(l) PROVE Owns'
  <2>0. /\ l = child /\ mainThread \in {"forked", "reading", "dead"} /\ vt # 0 /\ pc[l] = "setup"
        /\ \A k \in Leaders : tty[k] # vt
        /\ UNCHANGED <<mainThread, child, vt, sessions, holds, status>>
    BY <1>0, <1>20 DEF Session!ActivateTTY, OpensOwn, Session!TypeOK, Distinct
  <2>1. /\ \A k \in Leaders : pc'[k] = IF k = l THEN "opening" ELSE pc[k]
        /\ \A k \in Leaders : tty'[k] = IF k = l THEN vt ELSE tty[k]
    BY <1>0, <1>20 DEF Session!ActivateTTY, Session!TypeOK
  <2>2. Unreaped' = Unreaped /\ Controlled' = Controlled
    BY <2>0, <2>1 DEF Unreaped, Controlled
  <2>3. DaemonOwns'
    BY <1>0, <2>0, <2>2 DEF DaemonOwns
  <2>4. OpensOwn' /\ TtysDiffer'
    BY <1>0, <2>0, <2>1 DEF OpensOwn, TtysDiffer
  <2> QED
    BY <1>0, <2>3, <2>4 DEF Owns
<1>21. ASSUME NEW l \in Leaders, Session!SessionOpened(l) PROVE Owns'
  BY <1>0, <1>16, <1>17, <1>21 DEF Session!SessionOpened, Session!TypeOK
<1>22. ASSUME NEW l \in Leaders, Session!ShutdownRead(l) PROVE Owns'
  BY <1>0, <1>16, <1>22 DEF Session!ShutdownRead, Session!TypeOK
<1>23. ASSUME NEW l \in Leaders, Session!SessionClosed(l) PROVE Owns'
  BY <1>0, <1>18, <1>23 DEF Session!SessionClosed, Session!Alive
<1>24. ASSUME NEW l \in Leaders, Session!LeaderTerminated(l) PROVE Owns'
  <2>1. CASE pc[l] = "serving"
    BY <1>0, <1>16, <1>24, <2>1 DEF Session!LeaderTerminated, Session!TypeOK
  <2> QED
    BY <1>13, <1>24, <2>1 DEF Session!LeaderTerminated
<1>25. ASSUME NEW l \in Leaders, Session!LeaderKilled(l) PROVE Owns'
  BY <1>18, <1>25 DEF Session!LeaderKilled
<1>26. ASSUME NEW l \in Leaders, Session!InitReaps(l) PROVE Owns'
  <2>1. mainThread = "dead" /\ \A k \in Leaders : pc'[k] = IF k = l THEN "gone" ELSE pc[k]
    BY <1>0, <1>26 DEF Session!InitReaps, Session!TypeOK
  <2> QED
    BY <1>0, <1>26, <2>1 DEF Session!InitReaps, Owns, DaemonOwns, OpensOwn, TtysDiffer
\* A command has copies of the pipes, and no other part in this.
<1>27. ASSUME NEW c \in Commands, Session!CommandStarts(c) \/ Session!CommandEnds(c) PROVE Owns'
  <2>1. c \in Session!Processes /\ c # "daemon" /\ UNCHANGED <<mainThread, child, vt, sessions, pc, tty, status>>
    BY <1>27 DEF Session!CommandStarts, Session!CommandEnds, Session!Processes, Distinct
  <2>2. holds'["daemon"] = holds["daemon"]
    BY <1>0, <1>27, <2>1 DEF Session!CommandStarts, Session!CommandEnds, Session!TypeOK
  <2>3. Unreaped' = Unreaped /\ Controlled' = Controlled
    BY <2>1, <2>2 DEF Unreaped, Controlled
  <2> QED
    BY <1>0, <2>1, <2>3 DEF Owns, DaemonOwns, OpensOwn, TtysDiffer
<1>28. CASE Session!Quits \/ UNCHANGED Session!vars
  BY <1>13, <1>28 DEF Session!Quits, Session!vars
<1> QED
  BY <1>1, <1>2, <1>3, <1>4, <1>8, <1>9, <1>10, <1>11, <1>12, <1>14, <1>15, <1>19, <1>20, <1>21,
     <1>22, <1>23, <1>24, <1>25, <1>26, <1>27, <1>28
  DEF Session!Next, Session!Opening, Session!Leaving, Session!Leader, Session!Ended, Session!Crashes

\* Whenever no session is being opened or closed, exactly the sessions have a
\* leader that is not reaped, and a control pipe, and no two leaders have a
\* terminal in common, for any processes and terminals and at whichever points
\* they crash (AuthenticateAndOpenPAMSession, TerminatePAMForSession).
THEOREM OwnedLeaders == SpecAll => []LeadersOwned
<1>1. Owns => LeadersOwned
  BY DEF LeadersOwned, Owns, DaemonOwns, TtysDiffer, Session!LeadersOwned, Unreaped, Controlled
<1> QED
  BY <1>1, ThreadsAssumption, SessionSteps, OwnsInit, OwnsStep, PTL DEF SpecAll
-----------------------------------------------------------------------------
(* Complete installations *)

\* Whichever part moves, the driver manager and its worker make a step of theirs
\* or none.
LEMMA DriverSteps ==
  /\ InitAll => Driver!Init
  /\ [NextAll]_allVars => [Driver!Next]_(Driver!vars)
<1>1. InitAll => Driver!Init
  BY DEF InitAll
<1>2. UNCHANGED driverVars => UNCHANGED Driver!vars
  BY DEF driverVars, Driver!vars, Driver!hardware, Driver!disk
<1>3. [NextAll]_allVars => Driver!Next \/ UNCHANGED driverVars
  BY DEF NextAll, InLoop, InWatchdog, InLogger, InDriver, InCommand, InSession, allVars, others
<1> QED
  BY <1>1, <1>2, <1>3

\* The loops have been through package j of driver d.
Before(d, j) == d < turn.driver \/ (d = turn.driver /\ j < turn.package)

Removing ==
  worker = "removing" /\ ~flags.stopping =>
    \A d \in Driver!Drivers : \A j \in DOMAIN Needs[d] :
       Before(d, j) => Needs[d][j] \in refused \/ Needs[d][j] \notin installed

Wanted(p) == \E d \in found : \E j \in DOMAIN Needs[d] : Before(d, j) /\ Needs[d][j] = p

Installing ==
  worker = "installing" /\ ~flags.stopping =>
    \A p \in Driver!Packages \ refused : p \in installed <=> Wanted(p)

\* The disk has what these drivers need.
Fits(drivers) ==
  \A p \in Driver!Packages \ refused : p \in installed <=> \E d \in drivers : p \in Driver!PackagesOf(d)

\* What is complete stays, as the worker has ended, or has not begun after a restart.
Complete == flags.complete => worker = "ended" /\ (flags.stopping \/ Fits(found))
Fitted == fitted /\ ~kept => worker \in {"starting", "ended"} /\ Fits(found)

Loops ==
  /\ found \subseteq Driver!Drivers /\ installed \subseteq Driver!Packages
  /\ flags \in [stopping : BOOLEAN, requested : BOOLEAN, installing : BOOLEAN, complete : BOOLEAN]
  /\ turn \in [driver : 1 .. Len(Needs) + 1, package : Nat]
  /\ worker \in {"removing", "installing"} /\ turn.driver \in Driver!Drivers =>
       turn.package \in 0 .. Len(Needs[turn.driver])
  /\ worker = "installing" /\ turn.package # 0 => turn.driver \in found

DriverInv == Loops /\ Removing /\ Installing /\ Complete /\ Fitted

\* The lists of packages are sequences of packages.
LEMMA ListsAre ==
  ASSUME Listed
  PROVE  /\ Len(Needs) \in Nat /\ Driver!Drivers = 1 .. Len(Needs)
         /\ \A d \in Driver!Drivers : /\ Len(Needs[d]) \in Nat /\ DOMAIN Needs[d] = 1 .. Len(Needs[d])
                                      /\ \A j \in DOMAIN Needs[d] : Needs[d][j] \in Driver!Packages
<1>1. Needs \in Seq(Seq(Driver!Packages))
  BY DEF Listed
<1>2. Len(Needs) \in Nat /\ Driver!Drivers = 1 .. Len(Needs)
  BY <1>1 DEF Driver!Drivers
<1>3. \A d \in Driver!Drivers : Needs[d] \in Seq(Driver!Packages)
  BY <1>1, <1>2
<1> QED
  BY <1>2, <1>3

\* At first nothing is installed and the worker has not begun.
LEMMA DriverInit == Listed /\ Driver!Init => DriverInv
  BY ListsAre DEF Driver!Init, Driver!AtStart, Driver!First, DriverInv, Loops, Removing, Installing,
                  Complete, Fitted

\* A turn of the inner loop: one more package was gone through.
LEMMA TurnsNext ==
  ASSUME Listed, Loops, worker \in {"removing", "installing"}, turn.driver \in Driver!Drivers,
         turn' = Driver!NextPackage
  PROVE  /\ turn' \in [driver : 1 .. Len(Needs) + 1, package : Nat]
         /\ turn'.driver \in Driver!Drivers => turn'.package \in 0 .. Len(Needs[turn'.driver])
         /\ turn'.package # 0 => turn'.driver = turn.driver
         /\ \A d \in Driver!Drivers : \A j \in DOMAIN Needs[d] :
              Before(d, j)' <=> Before(d, j) \/ (d = turn.driver /\ j = turn.package)
<1> DEFINE e == turn.driver
           i == turn.package
           l == Len(Needs[e])
<1>1. /\ e \in 1 .. Len(Needs) /\ i \in 0 .. l /\ l \in Nat /\ Len(Needs) \in Nat
      /\ turn = [driver |-> e, package |-> i]
  BY ListsAre DEF Loops
<1>2. CASE i < l
  <2>1. turn' = [driver |-> e, package |-> i + 1]
    BY <1>1, <1>2 DEF Driver!NextPackage
  <2>2. turn'.driver = e /\ turn'.package = i + 1
    BY <2>1
  <2> QED
    BY <1>1, <1>2, <2>1, <2>2, ListsAre DEF Before
<1>3. CASE ~(i < l)
  <2>1. turn' = [driver |-> e + 1, package |-> 0] /\ i = l
    BY <1>1, <1>3 DEF Driver!NextPackage, Driver!NextDriver
  <2>2. turn'.driver = e + 1 /\ turn'.package = 0
    BY <2>1
  <2>3. /\ turn' \in [driver : 1 .. Len(Needs) + 1, package : Nat]
        /\ turn'.driver \in Driver!Drivers => turn'.package \in 0 .. Len(Needs[turn'.driver])
        /\ turn'.package # 0 => turn'.driver = turn.driver
    BY <1>1, <2>1, <2>2, ListsAre
  <2>4. ASSUME NEW d \in Driver!Drivers, NEW j \in DOMAIN Needs[d]
        PROVE  Before(d, j)' <=> Before(d, j) \/ (d = e /\ j = i)
    <3>1. d \in Nat /\ j \in 1 .. Len(Needs[d]) /\ Len(Needs[d]) \in Nat
      BY ListsAre
    <3> QED
      BY <1>1, <2>1, <2>2, <3>1 DEF Before
  <2> QED
    BY <2>3, <2>4
<1> QED
  BY <1>2, <1>3

\* Before the first turn nothing was gone through.
LEMMA FirstTurn ==
  ASSUME Listed, turn' = Driver!First
  PROVE  /\ turn' \in [driver : 1 .. Len(Needs) + 1, package : Nat]
         /\ turn'.driver \in Driver!Drivers => turn'.package \in 0 .. Len(Needs[turn'.driver])
         /\ turn'.package = 0
         /\ \A d \in Driver!Drivers : \A j \in DOMAIN Needs[d] : ~Before(d, j)'
<1>1. turn' = [driver |-> 1, package |-> 0] /\ turn'.driver = 1 /\ turn'.package = 0
  BY DEF Driver!First
<1> QED
  BY <1>1, ListsAre DEF Before

\* After the last turn all packages of all drivers were.
LEMMA LastTurn ==
  ASSUME Listed, Loops, turn.driver \notin Driver!Drivers
  PROVE  \A d \in Driver!Drivers : \A j \in DOMAIN Needs[d] : Before(d, j)
  BY ListsAre DEF Loops, Before

\* What the worker does elsewhere, and the main thread, leaves the loops alone.
LEMMA OutOfLoops ==
  ASSUME Listed, DriverInv, UNCHANGED <<found, fitted, kept, installed, refused>>,
         flags' \in [stopping : BOOLEAN, requested : BOOLEAN, installing : BOOLEAN, complete : BOOLEAN],
         flags.stopping => flags'.stopping, flags'.complete => flags.complete,
         \/ worker' = worker /\ turn' = turn
         \/ /\ worker # "ended" /\ worker' \notin {"removing", "installing"}
            /\ worker' = "ended" \/ worker # "starting"
            /\ turn' = turn \/ turn' = Driver!First
  PROVE  DriverInv'
<1>1. turn' = turn => \A d, j : Before(d, j)' = Before(d, j)
  BY DEF Before
<1>2. turn' = turn => \A p : Wanted(p)' = Wanted(p)
  BY <1>1 DEF Wanted
<1>3. \A S : Fits(S)' = Fits(S)
  BY DEF Fits
<1>4. Loops'
  BY FirstTurn DEF DriverInv, Loops
<1>5. Removing' /\ Installing'
  BY <1>1, <1>2 DEF DriverInv, Removing, Installing
<1>6. Complete' /\ Fitted'
  BY <1>3 DEF DriverInv, Complete, Fitted
<1> QED
  BY <1>4, <1>5, <1>6 DEF DriverInv

\* In the loops nothing is complete.
LEMMA InLoops ==
  ASSUME DriverInv, worker \in {"removing", "installing"}
  PROVE  ~flags.complete /\ ~(fitted /\ ~kept)
  BY DEF DriverInv, Complete, Fitted

\* A package is removed, or refused.
LEMMA RemoveKeeps ==
  ASSUME Listed, DriverInv, Driver!RemovePackage
  PROVE  DriverInv'
<1> DEFINE e == turn.driver
           i == turn.package
           q == Driver!Package
<1>0. /\ worker = "removing" /\ e \in Driver!Drivers /\ Loops /\ Removing
      /\ UNCHANGED <<found, fitted, kept, flags>> /\ ~flags.complete /\ ~(fitted /\ ~kept)
  BY InLoops DEF Driver!RemovePackage, Driver!InLoop, Driver!Goes, Driver!Moves, Driver!hardware, DriverInv
<1>1. Complete' /\ Fitted'
  BY <1>0 DEF Complete, Fitted
<1>2. CASE worker' = "installing"
  <2>1. flags.stopping /\ turn' = Driver!First /\ UNCHANGED <<installed, refused>>
    BY <1>0, <1>2 DEF Driver!RemovePackage, Driver!Goes, Driver!Moves, Driver!disk
  <2> QED
    BY <1>0, <1>1, <1>2, <2>1, FirstTurn DEF DriverInv, Loops, Removing, Installing
<1>3. CASE worker' # "installing"
  <2>0. worker' = "removing" /\ turn' = Driver!NextPackage
    BY <1>0, <1>3 DEF Driver!RemovePackage, Driver!Goes, Driver!Moves
  <2>1. CASE i = 0
    <3>1. UNCHANGED <<installed, refused>>
      BY <1>0, <2>1 DEF Driver!RemovePackage, Driver!disk
    <3>2. \A d \in Driver!Drivers : \A j \in DOMAIN Needs[d] : j # 0
      BY ListsAre
    <3> QED
      BY <1>0, <1>1, <2>0, <2>1, <3>1, <3>2, TurnsNext DEF DriverInv, Loops, Removing, Installing
  <2>2. CASE i # 0
    <3>1. ~flags.stopping
      BY <1>0, <1>3, <2>2 DEF Driver!RemovePackage, Driver!Goes, Driver!Moves
    <3>2. /\ q = Needs[e][i]
          /\ \/ installed' = installed \ {q} /\ refused' = refused \ {q}
             \/ installed' = installed /\ refused' = refused \cup {q}
      BY <1>0, <2>2, <3>1 DEF Driver!RemovePackage, Driver!Package
    <3> HIDE DEF q
    <3>3. ASSUME NEW d \in Driver!Drivers, NEW j \in DOMAIN Needs[d], Before(d, j)'
          PROVE  Needs[d][j] \in refused' \/ Needs[d][j] \notin installed'
      <4>1. Before(d, j) \/ (d = e /\ j = i)
        BY <1>0, <2>0, <3>3, TurnsNext
      <4>2. Before(d, j) => Needs[d][j] \in refused \/ Needs[d][j] \notin installed
        BY <1>0, <3>1 DEF Removing
      <4> QED
        BY <3>2, <4>1, <4>2
    <3>4. Removing' /\ Installing'
      BY <2>0, <3>3 DEF Removing, Installing
    <3>5. Loops'
      BY <1>0, <2>0, <3>2, TurnsNext DEF Loops
    <3> QED
      BY <1>1, <3>4, <3>5 DEF DriverInv
  <2> QED
    BY <2>1, <2>2
<1> QED
  BY <1>2, <1>3

\* All removals are done.
LEMMA CleanedKeeps ==
  ASSUME Listed, DriverInv, Driver!CleanedUp
  PROVE  DriverInv'
<1>0. /\ worker = "removing" /\ worker' = "installing" /\ turn.driver \notin Driver!Drivers
      /\ turn' = Driver!First /\ Loops /\ Removing
      /\ UNCHANGED <<found, fitted, kept, flags, installed, refused>> /\ ~flags.complete /\ ~(fitted /\ ~kept)
  BY InLoops DEF Driver!CleanedUp, Driver!Goes, Driver!Moves, Driver!hardware, Driver!disk, DriverInv
<1>1. Complete' /\ Fitted' /\ Removing' /\ Loops'
  BY <1>0, FirstTurn DEF Complete, Fitted, Removing, Loops
<1>2. \A p \in Driver!Packages : ~Wanted(p)'
  BY <1>0, FirstTurn DEF Wanted, Loops
<1>3. ASSUME ~flags.stopping, NEW p \in Driver!Packages \ refused PROVE p \notin installed
  <2>1. PICK d \in Driver!Drivers : \E j \in DOMAIN Needs[d] : p = Needs[d][j]
    BY DEF Driver!Packages, Driver!PackagesOf
  <2> QED
    BY <1>0, <1>3, <2>1, LastTurn DEF Removing
<1>4. Installing'
  BY <1>0, <1>2, <1>3 DEF Installing
<1> QED
  BY <1>1, <1>4 DEF DriverInv

\* The loop turns to the packages of a driver whose device is found, or to the
\* next driver.
LEMMA FindKeeps ==
  ASSUME Listed, DriverInv, Driver!FindDevice
  PROVE  DriverInv'
<1> DEFINE e == turn.driver
<1>0. /\ worker = "installing" /\ e \in Driver!Drivers /\ turn.package = 0 /\ Loops /\ Installing
      /\ UNCHANGED <<fitted, kept, flags, installed, refused>> /\ ~flags.complete /\ ~(fitted /\ ~kept)
  BY InLoops DEF Driver!FindDevice, Driver!InLoop, Driver!Goes, Driver!Moves, Driver!hardware,
                 Driver!disk, DriverInv
<1>1. CASE worker' = "failed"
  <2>1. turn' = turn /\ found' = found
    BY <1>0, <1>1 DEF Driver!FindDevice, Driver!Goes, Driver!Moves
  <2> QED
    BY <1>0, <1>1, <2>1, OutOfLoops DEF Loops
<1>2. CASE worker' # "failed" /\ turn' = Driver!NextPackage /\ found' = found \cup {e}
  <2>0. worker' = "installing"
    BY <1>0, <1>2 DEF Driver!FindDevice, Driver!Goes, Driver!Moves
  <2>1. ASSUME NEW d \in Driver!Drivers, NEW j \in DOMAIN Needs[d]
        PROVE  /\ Before(d, j)' = Before(d, j)
               /\ d = e => ~Before(d, j)
    <3>1. j \in Nat /\ j # 0 /\ e \in Nat
      BY <1>0, ListsAre
    <3>2. Before(d, j)' <=> Before(d, j) \/ (d = e /\ j = turn.package)
      BY <1>0, <1>2, TurnsNext
    <3>3. Before(d, j) \in BOOLEAN /\ Before(d, j)' \in BOOLEAN
      BY DEF Before
    <3>4. ~(j < 0) /\ ~(e < e)
      BY <3>1
    <3>5. d = e => ~Before(d, j)
      BY <1>0, <3>4 DEF Before
    <3> QED
      BY <1>0, <3>1, <3>2, <3>3, <3>5
  <2>2. \A p : Wanted(p)' <=> Wanted(p)
    BY <1>0, <1>2, <2>1 DEF Wanted, Loops
  <2>3. Loops'
    BY <1>0, <1>2, <2>0, TurnsNext DEF Loops
  <2>4. Installing' /\ Removing' /\ Complete' /\ Fitted'
    BY <1>0, <2>0, <2>2 DEF Installing, Removing, Complete, Fitted
  <2> QED
    BY <2>3, <2>4 DEF DriverInv
<1>3. CASE worker' # "failed" /\ turn' = Driver!NextDriver /\ found' = found \ {e}
  <2>0. worker' = "installing"
    BY <1>0, <1>3 DEF Driver!FindDevice, Driver!Goes, Driver!Moves
  <2>1. turn' = [driver |-> e + 1, package |-> 0] /\ turn'.driver = e + 1 /\ turn'.package = 0
    BY <1>3 DEF Driver!NextDriver
  <2>2. ASSUME NEW d \in Driver!Drivers, NEW j \in DOMAIN Needs[d]
        PROVE  /\ d # e => Before(d, j)' = Before(d, j)
               /\ d = e => ~Before(d, j)
    <3>1. /\ d \in 1 .. Len(Needs) /\ e \in 1 .. Len(Needs) /\ Len(Needs) \in Nat
          /\ j \in Nat /\ j # 0
      BY <1>0, ListsAre
    <3>2. d # e => (d < e + 1) = (d < e)
      BY <3>1
    <3>3. ~(j < 0) /\ ~(e < e)
      BY <3>1
    <3>4. d = e => ~Before(d, j)
      BY <1>0, <3>3 DEF Before
    <3> QED
      BY <2>1, <3>2, <3>3, <3>4 DEF Before
  <2>3. \A p : Wanted(p)' <=> Wanted(p)
    BY <1>0, <1>3, <2>2 DEF Wanted, Loops
  <2>4. turn'.driver \in Driver!Drivers => Len(Needs[turn'.driver]) \in Nat
    BY ListsAre
  <2>5. e \in 1 .. Len(Needs) /\ Len(Needs) \in Nat
    BY <1>0, ListsAre
  <2>6. Loops'
    BY <1>0, <1>3, <2>1, <2>4, <2>5 DEF Loops
  <2>7. Installing' /\ Removing' /\ Complete' /\ Fitted'
    BY <1>0, <2>0, <2>3 DEF Installing, Removing, Complete, Fitted
  <2> QED
    BY <2>6, <2>7 DEF DriverInv
<1> QED
  BY <1>0, <1>1, <1>2, <1>3 DEF Driver!FindDevice, Driver!Goes, Driver!Moves

\* A package is installed, or refused.
LEMMA InstallKeeps ==
  ASSUME Listed, DriverInv, Driver!InstallPackage
  PROVE  DriverInv'
<1>e. PICK e, i, q : e = turn.driver /\ i = turn.package /\ q = Driver!Package
  OBVIOUS
<1>0. /\ worker = "installing" /\ worker' = "installing" /\ e \in Driver!Drivers /\ i # 0
      /\ Loops /\ Installing
      /\ UNCHANGED <<found, fitted, kept, flags>> /\ ~flags.complete /\ ~(fitted /\ ~kept)
  BY <1>e, InLoops DEF Driver!InstallPackage, Driver!InLoop, Driver!Goes, Driver!Moves, Driver!hardware, DriverInv
<1>1. Complete' /\ Fitted' /\ Removing'
  BY <1>0 DEF Complete, Fitted, Removing
<1>2. CASE flags.stopping
  <2>1. turn' = Driver!NextDriver /\ UNCHANGED <<installed, refused>>
    BY <1>0, <1>2 DEF Driver!InstallPackage, Driver!disk
  <2>2. turn' = [driver |-> e + 1, package |-> 0] /\ turn'.driver = e + 1 /\ turn'.package = 0
    BY <1>e, <2>1 DEF Driver!NextDriver
  <2>3. e \in 1 .. Len(Needs) /\ Len(Needs) \in Nat
    BY <1>0, ListsAre
  <2>4. turn'.driver \in Driver!Drivers => Len(Needs[turn'.driver]) \in Nat
    BY ListsAre
  <2>5. Loops'
    BY <1>0, <2>1, <2>2, <2>3, <2>4 DEF Loops
  <2> QED
    BY <1>0, <1>1, <1>2, <2>5 DEF DriverInv, Installing
<1>3. CASE ~flags.stopping
  <2>0. /\ q = Needs[e][i] /\ turn' = Driver!NextPackage
        /\ \/ installed' = installed \cup {q} /\ refused' = refused \ {q}
           \/ installed' = installed /\ refused' = refused \cup {q}
    BY <1>e, <1>0, <1>3 DEF Driver!InstallPackage, Driver!Package
  <2>1. i \in DOMAIN Needs[e] /\ q \in Driver!Packages
    BY <1>e, <1>0, <2>0, ListsAre DEF Loops
  <2>2. \A d \in Driver!Drivers : \A j \in DOMAIN Needs[d] :
          Before(d, j)' <=> Before(d, j) \/ (d = e /\ j = i)
    BY <1>e, <1>0, <2>0, TurnsNext
  <2>3. ASSUME NEW p, p # q PROVE Wanted(p)' <=> Wanted(p)
    BY <1>0, <2>0, <2>2, <2>3 DEF Wanted, Loops
  <2>4. Wanted(q)'
    <3>1. e \in found /\ found' = found /\ e \in Driver!Drivers
      BY <1>e, <1>0 DEF Loops
    <3>2. Before(e, i)'
      BY <2>1, <2>2, <3>1
    <3> QED
      BY <2>0, <2>1, <3>1, <3>2 DEF Wanted
  <2>5. Loops'
    BY <1>e, <1>0, <2>0, <2>1, TurnsNext DEF Loops
  <2>6. Installing'
    <3> SUFFICES ASSUME NEW p \in Driver!Packages \ refused' PROVE p \in installed' <=> Wanted(p)'
      BY DEF Installing
    <3>1. CASE p = q
      BY <2>0, <2>4, <3>1
    <3>2. CASE p # q
      BY <1>0, <1>3, <2>0, <2>3, <3>2 DEF Installing
    <3> QED
      BY <3>1, <3>2
  <2> QED
    BY <1>1, <2>5, <2>6 DEF DriverInv
<1> QED
  BY <1>2, <1>3

\* An installation that has been through everything is complete.
LEMMA FinishKeeps ==
  ASSUME Listed, DriverInv, Driver!Finish
  PROVE  DriverInv'
<1>1. CASE worker = "failed"
  <2>1. /\ flags' = [flags EXCEPT !.installing = FALSE] /\ worker' \in {"ended", "waiting"}
        /\ turn' = Driver!First /\ UNCHANGED <<fitted, kept, installed>> /\ found' = {}
    BY <1>1 DEF Driver!Finish, Driver!Goes, Driver!Moves, Driver!hardware
  <2>2. ~flags.complete /\ ~(fitted /\ ~kept)
    BY <1>1 DEF DriverInv, Complete, Fitted
  <2>3. Loops'
    BY <2>1, FirstTurn DEF DriverInv, Loops
  <2>4. ~flags'.complete
    BY <2>1, <2>2 DEF DriverInv, Loops
  <2> QED
    BY <2>1, <2>2, <2>3, <2>4 DEF DriverInv, Removing, Installing, Complete, Fitted
<1>2. CASE worker # "failed"
  <2>1. /\ worker = "installing" /\ turn.driver \notin Driver!Drivers /\ worker' = "ended"
        /\ flags' = [flags EXCEPT !.installing = FALSE, !.complete = TRUE]
        /\ fitted' = (fitted \/ (~flags.stopping /\ stored = machine))
        /\ UNCHANGED <<found, kept, installed, refused, turn>> /\ Loops /\ Installing /\ ~(fitted /\ ~kept)
    BY <1>2 DEF Driver!Finish, Driver!Moves, Driver!disk, DriverInv, Fitted
  <2>2. \A p : Wanted(p) <=> \E d \in found : p \in Driver!PackagesOf(d)
    BY <2>1, LastTurn DEF Wanted, Driver!PackagesOf, Loops
  <2>3. ~flags.stopping => Fits(found)
    BY <2>1, <2>2 DEF Installing, Fits
  <2>4. \A S : Fits(S)' = Fits(S)
    BY <2>1 DEF Fits
  <2>5. flags'.stopping = flags.stopping
    BY <2>1 DEF Loops
  <2>6. Complete'
    BY <2>1, <2>3, <2>4, <2>5 DEF Complete
  <2>7. Fitted'
    BY <2>1, <2>3, <2>4 DEF Fitted
  <2>8. Loops' /\ Removing' /\ Installing'
    BY <2>1 DEF Loops, Removing, Installing
  <2> QED
    BY <2>6, <2>7, <2>8 DEF DriverInv
<1> QED
  BY <1>1, <1>2

\* Every step of the worker, every stop and every restart keeps it.
LEMMA DriverStep == Listed /\ DriverInv /\ [Driver!Next]_(Driver!vars) => DriverInv'
<1> SUFFICES ASSUME Listed, DriverInv, [Driver!Next]_(Driver!vars) PROVE DriverInv'
  OBVIOUS
<1> USE DEF Driver!hardware, Driver!disk
<1>0. Loops
  BY DEF DriverInv
<1>1. CASE Driver!ConnectionAdded
  <2>1. flags' = flags \/ flags' = [flags EXCEPT !.requested = TRUE]
    BY <1>1 DEF Driver!ConnectionAdded
  <2>2. UNCHANGED <<found, fitted, kept, installed, refused, worker, turn>>
    BY <1>1 DEF Driver!ConnectionAdded
  <2> QED
    BY <1>0, <2>1, <2>2, OutOfLoops DEF Loops
<1>2. CASE Driver!NotifyRequest \/ Driver!NotifyStop
  <2>1. UNCHANGED <<found, fitted, kept, installed, refused, flags, turn>>
    BY <1>2 DEF Driver!NotifyRequest, Driver!NotifyStop
  <2>2. worker' = worker \/ (worker = "asleep" /\ worker' = "waiting")
    BY <1>2 DEF Driver!NotifyRequest, Driver!NotifyStop, Driver!Notify
  <2> QED
    BY <1>0, <2>1, <2>2, OutOfLoops DEF Loops
<1>3. CASE Driver!Stop
  BY <1>0, <1>3, OutOfLoops DEF Driver!Stop, Loops
<1>4. CASE Driver!Join \/ UNCHANGED Driver!vars
  BY <1>0, <1>4, OutOfLoops DEF Driver!Join, Driver!vars, Loops
<1>5. CASE Driver!Start
  <2>1. CASE worker' = "ended" /\ UNCHANGED Driver!hardware
    <3>1. /\ worker = "starting" /\ UNCHANGED <<flags, turn, found, installed, refused>>
      BY <1>5, <2>1 DEF Driver!Start, Driver!Moves
    <3> QED
      BY <1>0, <2>1, <3>1, OutOfLoops DEF Loops
  <2>2. CASE Driver!HardwareFingerprintChanged /\ worker' = "waiting" /\ found' = {}
    <3>1. worker = "starting" /\ UNCHANGED <<flags, turn, installed>>
      BY <1>5 DEF Driver!Start
    <3>2. fitted' = (fitted /\ kept')
      BY <2>2 DEF Driver!HardwareFingerprintChanged
    <3>3. ~flags.complete
      BY <3>1 DEF DriverInv, Complete
    <3> QED
      BY <1>0, <2>2, <3>1, <3>2, <3>3 DEF DriverInv, Loops, Removing, Installing, Complete, Fitted
  <2> QED
    BY <1>5, <2>1, <2>2 DEF Driver!Start, Driver!Goes, Driver!Moves
<1>6. CASE Driver!Wait
  <2>1. /\ worker = "waiting" /\ worker' \in {"ended", "asleep", "pausing"}
        /\ flags' \in {flags, [flags EXCEPT !.requested = FALSE, !.installing = TRUE]}
        /\ UNCHANGED <<found, fitted, kept, installed, refused, turn>>
    BY <1>6 DEF Driver!Wait, Driver!Goes, Driver!Moves
  <2> QED
    BY <1>0, <2>1, OutOfLoops DEF Loops
<1>7. CASE Driver!SpuriousWakeup \/ Driver!Pause
  <2>1. /\ worker \in {"asleep", "pausing"} /\ worker' \in {"waiting", "failed", "checking"}
        /\ UNCHANGED <<found, fitted, kept, installed, refused, turn, flags>>
    BY <1>7 DEF Driver!SpuriousWakeup, Driver!Pause, Driver!Goes, Driver!Moves
  <2> QED
    BY <1>0, <2>1, OutOfLoops DEF Loops
<1>8. CASE Driver!CheckPackages
  <2>1. /\ worker = "checking" /\ worker' \in {"pausing", "failed", "removing"}
        /\ turn' = turn \/ turn' = Driver!First
        /\ worker' = "removing" => turn' = Driver!First
        /\ UNCHANGED <<found, fitted, kept, installed, refused, flags>>
    BY <1>8 DEF Driver!CheckPackages, Driver!Goes, Driver!Moves
  <2>2. CASE worker' # "removing"
    BY <1>0, <2>1, <2>2, OutOfLoops DEF Loops
  <2>3. CASE worker' = "removing"
    BY <2>1, <2>3, FirstTurn DEF DriverInv, Loops, Removing, Installing, Complete, Fitted
  <2> QED
    BY <2>2, <2>3
<1>9. CASE Driver!Reboot
  <2>1. /\ flags' = Driver!AtStart /\ worker' = "starting"
        /\ turn' = Driver!First /\ UNCHANGED <<found, fitted, kept, installed, refused>>
    BY <1>9 DEF Driver!Reboot
  <2>2. \A S : Fits(S)' = Fits(S)
    BY <2>1 DEF Fits
  <2>3. Loops' /\ Complete' /\ Removing' /\ Installing'
    BY <1>0, <2>1, FirstTurn DEF Loops, Complete, Removing, Installing, Driver!AtStart
  <2>4. Fitted'
    BY <2>1, <2>2 DEF DriverInv, Fitted
  <2> QED
    BY <2>3, <2>4 DEF DriverInv
<1> QED
  BY <1>1, <1>2, <1>3, <1>4, <1>5, <1>6, <1>7, <1>8, <1>9, RemoveKeeps, CleanedKeeps, FindKeeps,
     InstallKeeps, FinishKeeps DEF Driver!Next, Driver!Worker

\* Whatever lists of packages the drivers have, shared or not, whichever devices
\* are found and wherever the machine goes down, an installation that counts as
\* complete has put exactly the packages of the devices it found on the disk, but
\* for those that pacman refused, and a later start that finds the fingerprint it
\* was for finds them too, unless another one came and could not be written
\* (TryInstallStaticDriversWithRetry, HardwareFingerprintChanged).
THEOREM Installations == SpecAll => []CompleteMeansInstalled
<1>1. DriverInv => CompleteMeansInstalled
  BY DEF CompleteMeansInstalled, Driver!CompleteMeansInstalled, DriverInv, Complete, Fitted, Fits
<1>2. Listed /\ DriverInv /\ [Driver!Next]_(Driver!vars) => DriverInv'
  BY DriverStep
<1> QED
  BY <1>1, <1>2, ThreadsAssumption, DriverSteps, DriverInit, PTL DEF SpecAll
-----------------------------------------------------------------------------
(* The watchdog: the watcher's deadline (left) against the age of the       *)
(* handler and the busy period that the watcher has seen                    *)

\* Whichever part moves, the main thread and the watcher make a step of theirs or none.
LEMMA WatchSteps ==
  /\ InitAll => Init
  /\ [NextAll]_allVars => [Next]_vars
<1>1. InitAll => Init
  BY DEF InitAll
<1>2. [NextAll]_allVars => Next \/ UNCHANGED vars
  BY DEF NextAll, InLoop, InWatchdog, InLogger, InDriver, InCommand, InSession, allVars, others
<1> QED
  BY <1>1, <1>2

\* The flags say what the main thread is doing.
FlagsAgree ==
  /\ watching <=> main = "handling"
  /\ ~running <=> main \in {"joining", "gone"}
  /\ watcher = "done" => ~running

\* The deadline is never later than a handler's _timeout ...
DeadlineInTime ==
  main = "handling" =>
    /\ watcher = "parked" => age = 0
    /\ watcher = "armed" => age + left <= Timeout
    /\ watcher = "firing" => age <= Timeout

\* ... and never earlier than a busy period of that length.
DeadlineNotEarly == watcher = "armed" => streak + left >= Timeout

WatchInv == TypeOK /\ FlagsAgree /\ DeadlineInTime /\ DeadlineNotEarly

\* Counting up stays within the count's bound and never skips a tick.
LEMMA LaterBounds ==
  ASSUME NEW n \in 0 .. Timeout + 1
  PROVE  /\ Later(n) \in 0 .. Timeout + 1
         /\ n < Timeout => Later(n) = n + 1
         /\ Later(n) >= n
         /\ n >= Timeout => Later(n) >= Timeout
  BY TimeoutAssumption DEF Later

\* At first nothing is watched.
LEMMA WatchInit == Init => WatchInv
<1> SUFFICES ASSUME Init PROVE WatchInv
  OBVIOUS
<1>1. TypeOK
  <2>1. watching \in BOOLEAN /\ running \in BOOLEAN /\ aborted \in BOOLEAN
    BY DEF Init
  <2>2. /\ main \in Activities
        /\ age \in 0 .. Timeout + 1 /\ streak \in 0 .. Timeout + 1
        /\ watcher \in {"parked", "armed", "firing", "done"}
        /\ left \in 0 .. Timeout
    BY TimeoutAssumption DEF Init, Activities
  <2> QED BY <2>1, <2>2 DEF TypeOK
<1>2. FlagsAgree
  BY DEF Init, FlagsAgree
<1>3. DeadlineInTime /\ DeadlineNotEarly
  BY DEF Init, DeadlineInTime, DeadlineNotEarly
<1> QED BY <1>1, <1>2, <1>3 DEF WatchInv

\* A turn of the main thread restarts its age and leaves the watcher alone.
LEMMA TurnKeeps ==
  ASSUME TypeOK, NEW from, NEW to \in Activities, Turn(from, to),
         watching' \in BOOLEAN, running' \in BOOLEAN
  PROVE  /\ TypeOK'
         /\ main = from /\ main' = to /\ age' = 0
         /\ streak' = streak /\ watcher' = watcher /\ left' = left
<1>1. /\ main = from /\ main' = to /\ age' = 0
      /\ streak' = streak /\ watcher' = watcher /\ left' = left
  BY DEF Turn, thread
<1>2. aborted' \in BOOLEAN
  BY DEF Turn, thread, TypeOK
<1> QED BY <1>1, <1>2, TimeoutAssumption DEF TypeOK

\* A step of the main thread keeps the invariant.
LEMMA MainKeeps == WatchInv /\ Main => WatchInv'
<1> SUFFICES ASSUME WatchInv, Main PROVE WatchInv'
  OBVIOUS
<1>1. CASE BeginWatching
  <2>1. Turn("polling", "handling")
    BY <1>1 DEF BeginWatching
  <2>2. main = "polling"
    BY <2>1 DEF Turn
  <2>3. running = TRUE
    BY <2>2 DEF WatchInv, TypeOK, FlagsAgree
  <2>4. watching' = TRUE /\ running' = TRUE
    BY <1>1, <2>3 DEF BeginWatching
  <2>5. /\ TypeOK'
        /\ main' = "handling" /\ age' = 0
        /\ streak' = streak /\ watcher' = watcher /\ left' = left
    BY <2>1, <2>4, TurnKeeps DEF WatchInv, Activities
  <2>6. FlagsAgree'
    BY <2>2, <2>4, <2>5 DEF WatchInv, FlagsAgree
  <2>7. DeadlineInTime' /\ DeadlineNotEarly'
    BY <2>2, <2>5, TimeoutAssumption
    DEF WatchInv, TypeOK, DeadlineInTime, DeadlineNotEarly
  <2> QED BY <2>5, <2>6, <2>7 DEF WatchInv
<1>2. CASE EndWatching
  <2>1. Turn("handling", "polling")
    BY <1>2 DEF EndWatching
  <2>2. main = "handling"
    BY <2>1 DEF Turn
  <2>3. running = TRUE
    BY <2>2 DEF WatchInv, TypeOK, FlagsAgree
  <2>4. watching' = FALSE /\ running' = TRUE
    BY <1>2, <2>3 DEF EndWatching
  <2>5. /\ TypeOK'
        /\ main' = "polling" /\ age' = 0
        /\ streak' = streak /\ watcher' = watcher /\ left' = left
    BY <2>1, <2>4, TurnKeeps DEF WatchInv, Activities
  <2>6. FlagsAgree'
    BY <2>2, <2>4, <2>5 DEF WatchInv, FlagsAgree
  <2>7. DeadlineInTime' /\ DeadlineNotEarly'
    BY <2>2, <2>5, TimeoutAssumption
    DEF WatchInv, TypeOK, DeadlineInTime, DeadlineNotEarly
  <2> QED BY <2>5, <2>6, <2>7 DEF WatchInv
<1>3. CASE DispatchGLib
  <2>1. Turn("polling", "callback")
    BY <1>3 DEF DispatchGLib
  <2>2. main = "polling"
    BY <2>1 DEF Turn
  <2>3. watching = FALSE /\ running = TRUE
    BY <2>2 DEF WatchInv, TypeOK, FlagsAgree
  <2>4. watching' = FALSE /\ running' = TRUE
    BY <1>3, <2>3 DEF DispatchGLib, shared
  <2>5. /\ TypeOK'
        /\ main' = "callback" /\ age' = 0
        /\ streak' = streak /\ watcher' = watcher /\ left' = left
    BY <2>1, <2>4, TurnKeeps DEF WatchInv, Activities
  <2>6. FlagsAgree'
    BY <2>2, <2>4, <2>5 DEF WatchInv, FlagsAgree
  <2>7. DeadlineInTime' /\ DeadlineNotEarly'
    BY <2>2, <2>5, TimeoutAssumption
    DEF WatchInv, TypeOK, DeadlineInTime, DeadlineNotEarly
  <2> QED BY <2>5, <2>6, <2>7 DEF WatchInv
<1>4. CASE ReturnFromGLib
  <2>1. Turn("callback", "polling")
    BY <1>4 DEF ReturnFromGLib
  <2>2. main = "callback"
    BY <2>1 DEF Turn
  <2>3. watching = FALSE /\ running = TRUE
    BY <2>2 DEF WatchInv, TypeOK, FlagsAgree
  <2>4. watching' = FALSE /\ running' = TRUE
    BY <1>4, <2>3 DEF ReturnFromGLib, shared
  <2>5. /\ TypeOK'
        /\ main' = "polling" /\ age' = 0
        /\ streak' = streak /\ watcher' = watcher /\ left' = left
    BY <2>1, <2>4, TurnKeeps DEF WatchInv, Activities
  <2>6. FlagsAgree'
    BY <2>2, <2>4, <2>5 DEF WatchInv, FlagsAgree
  <2>7. DeadlineInTime' /\ DeadlineNotEarly'
    BY <2>2, <2>5, TimeoutAssumption
    DEF WatchInv, TypeOK, DeadlineInTime, DeadlineNotEarly
  <2> QED BY <2>5, <2>6, <2>7 DEF WatchInv
<1>5. CASE CleanUp
  <2>1. Turn("polling", "closing")
    BY <1>5 DEF CleanUp
  <2>2. main = "polling"
    BY <2>1 DEF Turn
  <2>3. watching = FALSE /\ running = TRUE
    BY <2>2 DEF WatchInv, TypeOK, FlagsAgree
  <2>4. watching' = FALSE /\ running' = TRUE
    BY <1>5, <2>3 DEF CleanUp, shared
  <2>5. /\ TypeOK'
        /\ main' = "closing" /\ age' = 0
        /\ streak' = streak /\ watcher' = watcher /\ left' = left
    BY <2>1, <2>4, TurnKeeps DEF WatchInv, Activities
  <2>6. FlagsAgree'
    BY <2>2, <2>4, <2>5 DEF WatchInv, FlagsAgree
  <2>7. DeadlineInTime' /\ DeadlineNotEarly'
    BY <2>2, <2>5, TimeoutAssumption
    DEF WatchInv, TypeOK, DeadlineInTime, DeadlineNotEarly
  <2> QED BY <2>5, <2>6, <2>7 DEF WatchInv
<1>6. CASE Destroy
  <2>1. Turn("closing", "joining")
    BY <1>6 DEF Destroy
  <2>2. main = "closing"
    BY <2>1 DEF Turn
  <2>3. watching = FALSE /\ running = TRUE
    BY <2>2 DEF WatchInv, TypeOK, FlagsAgree
  <2>4. watching' = FALSE /\ running' = FALSE
    BY <1>6, <2>3 DEF Destroy
  <2>5. /\ TypeOK'
        /\ main' = "joining" /\ age' = 0
        /\ streak' = streak /\ watcher' = watcher /\ left' = left
    BY <2>1, <2>4, TurnKeeps DEF WatchInv, Activities
  <2>6. FlagsAgree'
    BY <2>2, <2>4, <2>5 DEF WatchInv, FlagsAgree
  <2>7. DeadlineInTime' /\ DeadlineNotEarly'
    BY <2>2, <2>5, TimeoutAssumption
    DEF WatchInv, TypeOK, DeadlineInTime, DeadlineNotEarly
  <2> QED BY <2>5, <2>6, <2>7 DEF WatchInv
<1>7. CASE Join
  <2>1. Turn("joining", "gone")
    BY <1>7 DEF Join
  <2>2. main = "joining"
    BY <2>1 DEF Turn
  <2>3. watching = FALSE /\ running = FALSE
    BY <2>2 DEF WatchInv, TypeOK, FlagsAgree
  <2>4. watching' = FALSE /\ running' = FALSE
    BY <1>7, <2>3 DEF Join, shared
  <2>5. /\ TypeOK'
        /\ main' = "gone" /\ age' = 0
        /\ streak' = streak /\ watcher' = watcher /\ left' = left
    BY <2>1, <2>4, TurnKeeps DEF WatchInv, Activities
  <2>6. FlagsAgree'
    BY <2>2, <2>4, <2>5 DEF WatchInv, FlagsAgree
  <2>7. DeadlineInTime' /\ DeadlineNotEarly'
    BY <2>2, <2>5, TimeoutAssumption
    DEF WatchInv, TypeOK, DeadlineInTime, DeadlineNotEarly
  <2> QED BY <2>5, <2>6, <2>7 DEF WatchInv
<1> QED BY <1>1, <1>2, <1>3, <1>4, <1>5, <1>6, <1>7 DEF Main

\* A step of the watcher keeps the invariant.
LEMMA WatcherKeeps == WatchInv /\ Watcher => WatchInv'
<1> SUFFICES ASSUME WatchInv, Watcher PROVE WatchInv'
  OBVIOUS
<1> USE TimeoutAssumption
    DEF WatchInv, TypeOK, FlagsAgree, DeadlineInTime, DeadlineNotEarly, Activities,
        shared, clock
<1>1. CASE Arm
  BY <1>1 DEF Arm
<1>2. CASE Disarm
  BY <1>2 DEF Disarm
<1>3. CASE Leave
  BY <1>3 DEF Leave
<1>4. CASE Expire
  BY <1>4 DEF Expire
<1>5. CASE OnTimeout
  BY <1>5 DEF OnTimeout
<1> QED BY <1>1, <1>2, <1>3, <1>4, <1>5 DEF Watcher

\* A tick keeps the invariant: an armed watcher that is not due sees a handler.
LEMMA TickKeeps == WatchInv /\ Tick => WatchInv'
<1> SUFFICES ASSUME WatchInv, Tick PROVE WatchInv'
  OBVIOUS
<1>1. /\ UNCHANGED <<main, watching, running, watcher, aborted>>
      /\ age' = Later(age)
      /\ left' = IF watcher = "armed" THEN left - 1 ELSE left
  BY DEF Tick, shared
<1>2. watcher = "armed" => /\ main = "handling"
                           /\ left \in 1 .. Timeout
                           /\ age < Timeout
  BY TimeoutAssumption
  DEF Tick, Due, WatchInv, TypeOK, FlagsAgree, DeadlineInTime
<1>3. TypeOK'
  <2>1. age' \in 0 .. Timeout + 1
    BY <1>1, LaterBounds DEF WatchInv, TypeOK
  <2>2. streak' \in 0 .. Timeout + 1
    BY LaterBounds, TimeoutAssumption DEF WatchInv, TypeOK, Tick
  <2>3. left' \in 0 .. Timeout
    BY <1>1, <1>2, TimeoutAssumption DEF WatchInv, TypeOK
  <2> QED BY <1>1, <2>1, <2>2, <2>3 DEF WatchInv, TypeOK
<1>4. FlagsAgree'
  BY <1>1 DEF WatchInv, FlagsAgree
<1>5. DeadlineInTime'
  <2>1. watcher = "armed" => age' + left' <= Timeout
    BY <1>1, <1>2, LaterBounds, TimeoutAssumption
    DEF WatchInv, TypeOK, DeadlineInTime
  <2>2. main = "handling" => watcher = "armed"
    BY DEF Tick, Due, WatchInv, TypeOK, FlagsAgree
  <2> QED BY <1>1, <2>1, <2>2 DEF DeadlineInTime
<1>6. DeadlineNotEarly'
  <2>1. watcher = "armed" => streak' = Later(streak) /\ left' = left - 1
    BY <1>1, <1>2 DEF Tick
  <2> QED BY <1>1, <1>2, <2>1, LaterBounds, TimeoutAssumption
          DEF WatchInv, TypeOK, DeadlineNotEarly
<1> QED BY <1>3, <1>4, <1>5, <1>6 DEF WatchInv

\* A step of the watchdog's part keeps the invariant, and no other part touches it.
LEMMA WatchStep == WatchInv /\ [NextAll]_allVars => WatchInv'
<1>1. UNCHANGED vars => UNCHANGED <<main, watching, running, watcher, aborted, age, streak, left>>
  BY DEF vars, shared, clock
<1>2. WatchInv /\ UNCHANGED vars => WatchInv'
  BY <1>1 DEF WatchInv, TypeOK, FlagsAgree, DeadlineInTime, DeadlineNotEarly
<1>3. WatchInv /\ Next => WatchInv'
  BY MainKeeps, WatcherKeeps, TickKeeps DEF Next
<1> QED
  BY <1>2, <1>3, WatchSteps

\* Flags, clocks and both threads' positions are always well-formed; the
\* watcher's deadline is never further away than _timeout.
THEOREM WatchdogTypeCorrect == SpecAll => []TypeOK
<1>1. WatchInv => TypeOK
  BY DEF WatchInv
<1> QED
  BY <1>1, WatchSteps, WatchInit, WatchStep, PTL DEF SpecAll

\* A message handler that runs for longer than _timeout ends the process.
THEOREM HandlerBounded == SpecAll => []FrozenHandlerBounded
<1>1. WatchInv => FrozenHandlerBounded
  BY TimeoutAssumption
  DEF WatchInv, TypeOK, FlagsAgree, DeadlineInTime, FrozenHandlerBounded
<1> QED
  BY <1>1, WatchSteps, WatchInit, WatchStep, PTL DEF SpecAll

\* An alarm follows a whole _timeout in which the main thread was handling
\* messages, though not necessarily the same one.
THEOREM AlarmJustified == SpecAll => AlarmNeedsBusyPeriod
<1>1. WatchInv => (Expire => streak >= Timeout)
  BY TimeoutAssumption DEF WatchInv, TypeOK, DeadlineNotEarly, Expire
<1>2. WatchInv /\ [NextAll]_allVars => [Expire => streak >= Timeout]_vars
  BY <1>1
<1> QED
  BY <1>2, WatchSteps, WatchInit, WatchStep, PTL DEF SpecAll, AlarmNeedsBusyPeriod
=============================================================================
