-------------------------- MODULE InstallerProofs --------------------------
(***************************************************************************)
(* Proofs about Installer, for every sequence of steps and any number of   *)
(* plans and installations: type correctness, that two installations never *)
(* work on the disk at the same time, that a request to cancel stops one   *)
(* after the step it has reached, that only a validated plan can be begun, *)
(* and that a successful installation leaves nothing mounted.              *)
(***************************************************************************)
EXTENDS Installer, SequenceTheorems, TLAPS

\* What the types of the counters need: a run is begun only if there is room
\* for it, and a worker executes only steps there are.
InBounds ==
  /\ main \in {"report", "callback", "spawn"} => runs < MaxRuns
  /\ \A r \in Runs : workers[r].pc = "execute" => workers[r].step <= Last

\* The worker that is active is the last one, and the state says that it runs;
\* while the next one is being started there is none.
ActiveIsLast ==
  /\ \A r \in Runs : Active(r) => r = runs /\ state = "Running"
  /\ main \in {"report", "callback", "spawn"} =>
       state = "Running" /\ \A r \in Runs : ~Active(r)

IInv == TypeOK /\ InBounds /\ ActiveIsLast

\* The steps that leave the workers and their counters alone.
MainSteps ==
  \/ TakeContext \/ Sleep \/ WakeUp \/ Dispatch \/ LeaveContext
  \/ \E valid \in BOOLEAN : OnCreateInstallPlan(valid)
  \/ \E id \in 0 .. MaxPlans : OnCancelInstallPlan(id)
  \/ Destroy \/ CancelInstall \/ JoinLast

StartSteps ==
  \/ \E id \in 0 .. MaxPlans : OnBeginInstallation(id)
  \/ ReportRunning \/ ShowRunning \/ Spawn \/ SpawnFails \/ Join

\* Next, in three parts.
LEMMA NextParts ==
  Next <=> MainSteps \/ StartSteps \/ \E r \in Runs : RunInstall(r)
BY DEF Next, MainSteps, StartSteps

\* The number of steps is a natural number.
LEMMA LastIsNat == Last \in Nat
BY InstallerAssumption DEF Last

\* The reports have the type of reports, and showing one keeps the type of what
\* is shown.
LEMMA ReportTypes ==
  /\ \A s \in States : StateReport(s) \in Report
  /\ \A k \in 1 .. Last + 1 : ProgressReport(k) \in Report
  /\ \A report \in Report :
       shown \in [state : States, step : 0 .. Last + 1] =>
         Handled(report) \in [state : States, step : 0 .. Last + 1]
BY LastIsNat DEF StateReport, ProgressReport, Report, Handled, States

\* A plan without its id is one still.
LEMMA PlanReset ==
  ASSUME NEW p \in [id : 0 .. MaxPlans, data : 0 .. MaxPlans]
  PROVE  [p EXCEPT !.id = 0] \in [id : 0 .. MaxPlans, data : 0 .. MaxPlans]
<1>1. 0 \in 0 .. MaxPlans
  BY InstallerAssumption
<1> QED BY <1>1

\* The steps of the main loop keep the types.
LEMMA MainStepsType == TypeOK /\ MainSteps => TypeOK'
<1> SUFFICES ASSUME TypeOK, MainSteps PROVE TypeOK'
  OBVIOUS
<1> USE InstallerAssumption, LastIsNat
    DEF TypeOK, Loop, Elsewhere, Kept, Free, Main, Runs
<1>1. CASE TakeContext \/ Sleep \/ WakeUp \/ LeaveContext
  BY <1>1 DEF TakeContext, Sleep, WakeUp, LeaveContext
<1>2. CASE Dispatch
  <2>1. Head(queue) \in Report /\ Tail(queue) \in Seq(Report)
    BY <1>2 DEF Dispatch
  <2> QED BY <1>2, <2>1, ReportTypes DEF Dispatch
<1>3. ASSUME NEW valid \in BOOLEAN, OnCreateInstallPlan(valid) PROVE TypeOK'
  BY <1>3 DEF OnCreateInstallPlan
<1>4. ASSUME NEW id \in 0 .. MaxPlans, OnCancelInstallPlan(id) PROVE TypeOK'
  <2>1. plan' \in [id : 0 .. MaxPlans, data : 0 .. MaxPlans]
    BY <1>4, PlanReset DEF OnCancelInstallPlan
  <2> QED BY <1>4, <2>1 DEF OnCancelInstallPlan
<1>5. CASE Destroy \/ JoinLast
  BY <1>5 DEF Destroy, JoinLast
<1>6. CASE CancelInstall
  <2>1. runs > 0 => workers[runs].step \in 0 .. Last + 1
    BY DEF Worker
  <2> QED BY <1>6, <2>1 DEF CancelInstall
<1> QED BY <1>1, <1>2, <1>3, <1>4, <1>5, <1>6 DEF MainSteps

\* The steps of the main loop change no worker and no state, and start nothing.
LEMMA MainStepsFrame ==
  MainSteps => /\ UNCHANGED <<workers, runs, state>>
               /\ main' \notin {"report", "callback", "spawn"}
<1> SUFFICES ASSUME MainSteps
             PROVE  /\ UNCHANGED <<workers, runs, state>>
                    /\ main' \notin {"report", "callback", "spawn"}
  OBVIOUS
<1> USE DEF Loop, Elsewhere, Kept
<1>1. CASE TakeContext \/ Sleep \/ WakeUp \/ Dispatch \/ LeaveContext
  BY <1>1 DEF TakeContext, Sleep, WakeUp, Dispatch, LeaveContext
<1>2. CASE \/ \E valid \in BOOLEAN : OnCreateInstallPlan(valid)
           \/ \E id \in 0 .. MaxPlans : OnCancelInstallPlan(id)
  BY <1>2 DEF OnCreateInstallPlan, OnCancelInstallPlan
<1>3. CASE Destroy \/ CancelInstall \/ JoinLast
  BY <1>3 DEF Destroy, CancelInstall, JoinLast
<1> QED BY <1>1, <1>2, <1>3 DEF MainSteps

\* What a step of the main loop does to the invariant.
LEMMA MainStepsKeep == IInv /\ MainSteps => IInv'
<1> SUFFICES ASSUME IInv, MainSteps PROVE IInv'
  OBVIOUS
<1>1. TypeOK'
  BY MainStepsType DEF IInv
<1>2. InBounds'
  BY MainStepsFrame DEF IInv, InBounds
<1>3. ActiveIsLast'
  BY MainStepsFrame DEF IInv, ActiveIsLast, Active
<1> QED BY <1>1, <1>2, <1>3 DEF IInv

\* The steps that begin an installation keep the types; there is room for its
\* worker since it was asked for.
LEMMA StartStepsType == TypeOK /\ InBounds /\ StartSteps => TypeOK' /\ InBounds'
<1> SUFFICES ASSUME TypeOK, InBounds, StartSteps PROVE TypeOK' /\ InBounds'
  OBVIOUS
<1> USE InstallerAssumption, LastIsNat DEF TypeOK, InBounds, Free, Main
<1>1. ASSUME NEW id \in 0 .. MaxPlans, OnBeginInstallation(id)
      PROVE  TypeOK' /\ InBounds'
  BY <1>1 DEF OnBeginInstallation, Elsewhere, States
<1>2. CASE ReportRunning
  <2>1. StateReport("Running") \in Report
    BY ReportTypes DEF States
  <2>2. queue' \in Seq(Report) /\ context' \in {Free, Main} \cup Runs
    <3>1. CASE Takes(Main)
      BY <3>1 DEF Takes
    <3>2. CASE Queues(StateReport("Running"))
      BY <3>2, <2>1 DEF Queues
    <3> QED BY <1>2, <3>1, <3>2 DEF ReportRunning
  <2>3. UNCHANGED <<Started, shown>> /\ main = "report"
    BY <1>2 DEF ReportRunning
  <2>4. main' \in {"callback", "spawn"}
    BY <1>2 DEF ReportRunning
  <2> QED BY <2>2, <2>3, <2>4 DEF Started
<1>3. CASE ShowRunning
  <2>1. StateReport("Running") \in Report
    BY ReportTypes DEF States
  <2>2. shown' \in [state : States, step : 0 .. Last + 1]
    BY <1>3, <2>1, ReportTypes DEF ShowRunning, Releases
  <2> QED BY <1>3, <2>2 DEF ShowRunning, Releases, Started
<1>4. CASE Spawn
  <2>1. runs' \in Runs /\ runs' \in 0 .. MaxRuns
    BY <1>4 DEF Spawn, Runs
  <2>2. workers' \in [Runs -> Worker]
    BY <1>4, <2>1 DEF Spawn, Worker
  <2>3. \A r \in Runs : workers'[r].pc = "execute" => workers'[r].step <= Last
    BY <1>4, <2>1 DEF Spawn, Worker
  <2> QED BY <1>4, <2>1, <2>2, <2>3 DEF Spawn, Settled
<1>5. CASE SpawnFails
  BY <1>5 DEF SpawnFails, Settled
<1>6. CASE Join
  <2>1. plan' \in [id : 0 .. MaxPlans, data : 0 .. MaxPlans]
    BY <1>6, PlanReset DEF Join
  <2> QED BY <1>6, <2>1 DEF Join, Settled
<1> QED BY <1>1, <1>2, <1>3, <1>4, <1>5, <1>6 DEF StartSteps

\* Nothing is begun while a worker is active, and nothing becomes active until
\* the new worker is there.
LEMMA StartStepsActive == IInv /\ StartSteps => ActiveIsLast'
<1> SUFFICES ASSUME IInv, StartSteps PROVE ActiveIsLast'
  OBVIOUS
<1> USE DEF IInv, ActiveIsLast
<1>1. ASSUME NEW id \in 0 .. MaxPlans, OnBeginInstallation(id) PROVE ActiveIsLast'
  <2>1. \A r \in Runs : ~Active(r)
    BY <1>1 DEF OnBeginInstallation
  <2>2. state' = "Running" /\ \A r \in Runs : ~Active(r)'
    BY <1>1, <2>1 DEF OnBeginInstallation, Elsewhere, Active
  <2> QED BY <2>2
<1>2. CASE ReportRunning \/ ShowRunning
  <2>1. UNCHANGED <<workers, runs, state>>
    BY <1>2 DEF ReportRunning, ShowRunning, Started
  <2>2. main \in {"report", "callback", "spawn"}
    BY <1>2 DEF ReportRunning, ShowRunning
  <2> QED BY <2>1, <2>2 DEF Active
<1>3. CASE Spawn
  <2>1. main = "spawn" /\ main' = "join" /\ state' = state
    BY <1>3 DEF Spawn, Settled
  <2>2. runs' \in Runs /\ workers' = [workers EXCEPT ![runs'].pc = "start"]
    BY <1>3, InstallerAssumption DEF Spawn, Runs, TypeOK, InBounds
  <2>3. \A r \in Runs : r # runs' => workers'[r] = workers[r]
    BY <2>2 DEF TypeOK
  <2>4. \A r \in Runs : Active(r)' => r = runs'
    BY <2>1, <2>3 DEF Active
  <2> QED BY <2>1, <2>4
<1>4. CASE SpawnFails \/ Join
  <2>1. UNCHANGED <<workers, runs, state>> /\ main' = "idle"
    BY <1>4 DEF SpawnFails, Join, Settled
  <2> QED BY <2>1 DEF Active
<1> QED BY <1>1, <1>2, <1>3, <1>4 DEF StartSteps

\* What beginning an installation does to the invariant.
LEMMA StartStepsKeep == IInv /\ StartSteps => IInv'
BY StartStepsType, StartStepsActive DEF IInv

\* What a worker becomes by its steps is a worker.
LEMMA WorkerTypes ==
  ASSUME NEW r \in Runs, workers \in [Runs -> Worker]
  PROVE  /\ \A report \in Report : Says(r, report) => workers' \in [Runs -> Worker]
         /\ Continues(r) => workers' \in [Runs -> Worker]
<1>1. ASSUME NEW report \in Report, Says(r, report) PROVE workers' \in [Runs -> Worker]
  BY <1>1 DEF Says, Worker
<1>2. ASSUME Continues(r) PROVE workers' \in [Runs -> Worker]
  BY <1>2 DEF Continues, Worker
<1> QED BY <1>1, <1>2

\* A list of mounts without its last ones is a list of mounts.
LEMMA Shortened ==
  ASSUME NEW M, NEW s \in Seq(M), NEW n \in Nat
  PROVE  SubSeq(s, 1, Len(s) - n) \in Seq(M)
<1>1. Len(s) - n \in Int /\ \A i \in 1 .. Len(s) - n : i \in 1 .. Len(s)
  OBVIOUS
<1>2. \A i \in 1 .. Len(s) - n : s[i] \in M
  BY <1>1
<1> QED BY <1>1, <1>2, SubSeqProperties

\* No step of an installation makes the mounts anything but a list of mounts.
LEMMA MountTypes ==
  ASSUME NEW r \in Runs, mounts \in Seq(Mount)
  PROVE  Completes(r) \subseteq Seq(Mount) /\ Throws(r) \subseteq Seq(Mount)
<1>1. [at |-> "root", by |-> r] \in Mount /\ [at |-> "boot", by |-> r] \in Mount
  BY DEF Mount
<1>2. Append(mounts, [at |-> "root", by |-> r]) \in Seq(Mount)
  BY <1>1
<1>3. Mounted(r) \in Seq(Mount)
  BY <1>1, <1>2 DEF Mounted
<1>4. Unmounted(1) \in Seq(Mount) /\ Unmounted(2) \in Seq(Mount)
  BY Shortened DEF Unmounted
<1>5. Completes(r) \subseteq {Mounted(r), Unmounted(2), mounts}
  BY DEF Completes
<1>6. Throws(r) \subseteq {mounts, Unmounted(1), Append(mounts, [at |-> "root", by |-> r])}
  BY DEF Throws
<1> QED BY <1>2, <1>3, <1>4, <1>5, <1>6

\* A worker's steps keep the types, and it executes only steps there are.
LEMMA WorkerType ==
  ASSUME NEW r \in Runs, TypeOK, InBounds, RunInstall(r)
  PROVE  TypeOK' /\ InBounds'
<1> USE InstallerAssumption, LastIsNat DEF TypeOK, Alone, Quiet
<1> DEFINE Bounded == \A q \in Runs : workers'[q].pc = "execute" => workers'[q].step <= Last
<1>1. workers[r] \in Worker /\ workers[r].step \in 1 .. Last + 1 /\ workers[r].say \in Report
  BY DEF Worker
<1>2. ASSUME NEW report \in Report, Says(r, report)
      PROVE  workers' \in [Runs -> Worker] /\ Bounded
  <2>1. workers' \in [Runs -> Worker]
    BY <1>2, WorkerTypes
  <2>2. Bounded
    BY <1>2 DEF Says, InBounds, Worker
  <2> QED BY <2>1, <2>2
<1>3. ASSUME Continues(r) PROVE workers' \in [Runs -> Worker] /\ Bounded
  <2>1. workers' \in [Runs -> Worker]
    BY <1>3, WorkerTypes
  <2>2. Bounded
    <3> SUFFICES ASSUME NEW q \in Runs, workers'[q].pc = "execute"
                 PROVE  workers'[q].step <= Last
      OBVIOUS
    <3>1. CASE q = r
      BY <1>1, <1>3, <3>1 DEF Continues
    <3>2. CASE q # r
      BY <1>3, <3>2 DEF Continues, InBounds
    <3> QED BY <3>1, <3>2
  <2> QED BY <2>1, <2>2
<1>4. \A s \in {"Cancelled", "Failed", "Succeeded"} : s \in States /\ StateReport(s) \in Report
  BY ReportTypes DEF States
<1>5. CASE Reset(r)
  <2>1. workers' \in [Runs -> Worker] /\ Bounded
    BY <1>5 DEF Reset, InBounds, Worker
  <2> QED BY <1>5, <2>1 DEF Reset, InBounds
<1>6. CASE Cancelled(r)
  BY <1>2, <1>4, <1>6 DEF Cancelled, InBounds
<1>7. CASE Proceed(r)
  <2>1. ProgressReport(workers[r].step) \in Report
    BY <1>1, ReportTypes
  <2> QED BY <1>2, <1>7, <2>1 DEF Proceed, InBounds
<1>8. CASE Reports(r)
  <2>1. CASE Takes(r) /\ workers' = [workers EXCEPT ![r].pc = "callback"]
    <3>1. workers' \in [Runs -> Worker] /\ Bounded
      BY <2>1 DEF InBounds, Worker
    <3> QED BY <1>8, <2>1, <3>1 DEF Reports, Takes, InBounds
  <2>2. CASE Queues(workers[r].say) /\ Continues(r)
    <3>1. queue' \in Seq(Report) /\ context' = context
      BY <1>1, <2>2 DEF Queues
    <3> QED BY <1>3, <1>8, <2>2, <3>1 DEF Reports, InBounds
  <2> QED BY <1>8, <2>1, <2>2 DEF Reports
<1>9. CASE Shows(r)
  <2>1. workers' \in [Runs -> Worker] /\ Bounded
    BY <1>3, <1>9 DEF Shows
  <2>2. context' = Free /\ main' \in {main, "crashed"}
    BY <1>9 DEF Shows, Releases
  <2>3. shown' \in [state : States, step : 0 .. Last + 1]
    BY <1>1, <1>9, ReportTypes DEF Shows, Releases
  <2> QED BY <1>9, <2>1, <2>2, <2>3 DEF Shows, InBounds
<1>10. CASE Execute(r)
  <2>1. mounts' \in Seq(Mount)
    BY <1>10, MountTypes DEF Execute
  <2>2. workers' \in [Runs -> Worker] /\ Bounded /\ state' \in States
    <3>1. CASE workers' = [workers EXCEPT ![r].pc = "check", ![r].step = @ + 1] /\ state' = state
      <4>1. workers[r].step + 1 \in 1 .. Last + 1
        BY <1>1, <1>10 DEF Execute, At, InBounds
      <4> QED BY <3>1, <4>1 DEF InBounds, Worker
    <3>2. CASE state' = "Failed" /\ Says(r, StateReport("Failed"))
      BY <1>2, <1>4, <3>2
    <3> QED BY <1>10, <3>1, <3>2 DEF Execute
  <2> QED BY <1>10, <2>1, <2>2 DEF Execute, InBounds
<1>11. CASE Succeed(r)
  BY <1>2, <1>4, <1>11 DEF Succeed, InBounds
<1> QED BY <1>5, <1>6, <1>7, <1>8, <1>9, <1>10, <1>11 DEF RunInstall

\* A worker that ends makes nobody else active, and one that is active is the
\* last one: so the state is Running exactly as long as it may touch the disk.
LEMMA WorkerActive ==
  ASSUME NEW r \in Runs, IInv, RunInstall(r)
  PROVE  ActiveIsLast'
<1> USE DEF IInv, TypeOK, Alone, Quiet
<1>1. /\ \A q \in Runs : q # r => workers'[q] = workers[q]
      /\ runs' = runs /\ main' \in {main, "crashed"}
  BY DEF RunInstall, Reset, Cancelled, Proceed, Reports, Shows, Execute, Succeed,
         Says, Continues
<1>2. \A q \in Runs : q # r => (Active(q)' <=> Active(q))
  BY <1>1 DEF Active
<1>3. CASE Active(r)' /\ Active(r) /\ state' = state
  BY <1>1, <1>2, <1>3 DEF ActiveIsLast
<1>4. CASE ~Active(r)' /\ state' = state
  BY <1>1, <1>2, <1>4 DEF ActiveIsLast
<1>5. CASE ~Active(r)' /\ Active(r)
  <2>1. \A q \in Runs : ~Active(q)'
    BY <1>2, <1>5 DEF ActiveIsLast
  <2>2. main' \notin {"report", "callback", "spawn"}
    BY <1>1, <1>5 DEF ActiveIsLast
  <2> QED BY <2>1, <2>2 DEF ActiveIsLast
<1>6. CASE Reset(r)
  BY <1>3, <1>6 DEF Reset, Active, At
<1>7. CASE Cancelled(r)
  <2>1. Active(r) /\ ~Active(r)'
    BY <1>7 DEF Cancelled, At, Says, Active, StateReport
  <2> QED BY <1>5, <2>1
<1>8. CASE Proceed(r)
  <2>1. Active(r) /\ Active(r)' /\ state' = state
    BY <1>8 DEF Proceed, At, Says, Active, ProgressReport
  <2> QED BY <1>3, <2>1
<1>9. CASE Reports(r) \/ Shows(r)
  <2>1. state' = state /\ workers[r].pc \in {"report", "callback"}
    BY <1>9 DEF Reports, Shows, At
  <2>2. Continues(r) \/ workers' = [workers EXCEPT ![r].pc = "callback"]
    BY <1>9 DEF Reports, Shows
  <2>3. workers'[r].say = workers[r].say
        /\ (workers[r].say.state # "same" => workers'[r].pc \in {"callback", "done"})
    <3>1. CASE Continues(r)
      BY <3>1 DEF Continues, Worker
    <3>2. CASE workers' = [workers EXCEPT ![r].pc = "callback"]
      BY <3>2 DEF Worker
    <3> QED BY <2>2, <3>1, <3>2
  <2>4. Active(r)' => Active(r)
    BY <2>1, <2>3 DEF Active
  <2> QED BY <1>3, <1>4, <2>1, <2>4
<1>10. CASE Execute(r)
  <2>1. Active(r)
    BY <1>10 DEF Execute, At, Active
  <2>2. CASE workers' = [workers EXCEPT ![r].pc = "check", ![r].step = @ + 1] /\ state' = state
    BY <1>3, <2>1, <2>2 DEF Active
  <2>3. CASE Says(r, StateReport("Failed"))
    BY <1>5, <2>1, <2>3 DEF Says, Active, StateReport
  <2> QED BY <1>10, <2>2, <2>3 DEF Execute
<1>11. CASE Succeed(r)
  <2>1. Active(r) /\ ~Active(r)'
    BY <1>11 DEF Succeed, At, Says, Active, StateReport
  <2> QED BY <1>5, <2>1
<1> QED BY <1>6, <1>7, <1>8, <1>9, <1>10, <1>11 DEF RunInstall

\* The start satisfies the invariant.
LEMMA InitInv == Init => IInv
<1> SUFFICES ASSUME Init PROVE IInv
  OBVIOUS
<1> USE InstallerAssumption, LastIsNat DEF Init
<1>1. StateReport("same") \in Report
  BY DEF StateReport, Report, States
<1>2. workers \in [Runs -> Worker]
  BY <1>1 DEF Worker
<1>3. TypeOK
  <2>1. state \in States /\ shown \in [state : States, step : 0 .. Last + 1]
    BY DEF States
  <2>2. plan \in [id : 0 .. MaxPlans, data : 0 .. MaxPlans]
    OBVIOUS
  <2>3. queue \in Seq(Report) /\ mounts \in Seq(Mount)
    OBVIOUS
  <2>4. plans \in 0 .. MaxPlans /\ runs \in 0 .. MaxRuns /\ asked \in 0 .. Last + 1
    OBVIOUS
  <2> HIDE DEF Init
  <2>5. context = Free /\ cancel \in BOOLEAN /\ main = "idle"
    BY DEF Init
  <2> QED BY <1>2, <2>1, <2>2, <2>3, <2>4, <2>5 DEF TypeOK
<1>4. InBounds
  BY DEF InBounds
<1>5. ActiveIsLast
  BY DEF ActiveIsLast, Active
<1> QED BY <1>3, <1>4, <1>5 DEF IInv

\* The invariant holds in every reachable state.
LEMMA Invariance == Spec => []IInv
<1>1. IInv /\ [Next]_vars => IInv'
  <2> SUFFICES ASSUME IInv, [Next]_vars PROVE IInv'
    OBVIOUS
  <2>1. CASE MainSteps
    BY <2>1, MainStepsKeep
  <2>2. CASE StartSteps
    BY <2>2, StartStepsKeep
  <2>3. ASSUME NEW r \in Runs, RunInstall(r) PROVE IInv'
    BY <2>3, WorkerType, WorkerActive DEF IInv
  <2>4. CASE UNCHANGED vars
    BY <2>4 DEF vars, IInv, TypeOK, InBounds, ActiveIsLast, Active
  <2> QED BY <2>1, <2>2, <2>3, <2>4, NextParts
<1> QED BY InitInv, <1>1, PTL DEF Spec

\* Every variable keeps its type, whatever the steps of an installation are.
THEOREM TypeCorrect == Spec => []TypeOK
<1>1. IInv => TypeOK
  BY DEF IInv
<1> QED BY <1>1, Invariance, PTL

\* Whatever is begun, cancelled or overtaken: one installation at a time works
\* on the disk.
THEOREM OneAtATime == Spec => []OneInstaller
<1>1. IInv => OneInstaller
  BY DEF IInv, ActiveIsLast, OneInstaller
<1> QED BY <1>1, Invariance, PTL

\* What a request to cancel leaves of the installation: the flag stays, since no
\* worker is about to reset it, and only the step that was reached is executed.
Heeded ==
  asked # 0 =>
    /\ main \in {"wait", "ended", "crashed"} /\ cancel /\ runs \in Runs
    /\ workers[runs].pc # "start"
    /\ workers[runs].step \in {asked, asked + 1}
    /\ workers[runs].pc = "execute" => workers[runs].step = asked
    /\ workers[runs].pc \in {"report", "callback"} /\ workers[runs].say.state = "same"
         => workers[runs].step = asked \/ workers[runs].step > Last

\* The steps of the main thread, with the one that makes the request.
LEMMA HeededByMain ==
  ASSUME IInv, Heeded, MainSteps \/ StartSteps
  PROVE  Heeded'
<1> USE DEF Heeded
<1>1. CASE CancelInstall
  <2>1. /\ UNCHANGED <<runs, workers>> /\ main' = "wait"
        /\ asked = 0
    BY <1>1 DEF CancelInstall, Kept
  <2>2. CASE state = "Running" /\ runs > 0 /\ workers[runs].pc # "start"
    <3>1. asked' = workers[runs].step /\ cancel' = TRUE
      BY <1>1, <2>2 DEF CancelInstall
    <3>2. runs \in Runs
      BY <2>2 DEF IInv, TypeOK, Runs
    <3> QED BY <2>1, <2>2, <3>1, <3>2
  <2>3. CASE ~(state = "Running" /\ runs > 0 /\ workers[runs].pc # "start")
    BY <1>1, <2>1, <2>3 DEF CancelInstall
  <2> QED BY <2>2, <2>3
<1>2. CASE MainSteps /\ ~CancelInstall
  <2>1. UNCHANGED <<asked, cancel>>
    BY <1>2 DEF MainSteps, TakeContext, Sleep, WakeUp, Dispatch, LeaveContext, Loop,
         OnCreateInstallPlan, OnCancelInstallPlan, Elsewhere, Destroy, JoinLast, Kept
  <2>2. main \in {"wait", "ended", "crashed"} => main' \in {"wait", "ended", "crashed"}
    BY <1>2 DEF MainSteps, TakeContext, Sleep, WakeUp, Dispatch, LeaveContext,
         OnCreateInstallPlan, OnCancelInstallPlan, Destroy, JoinLast
  <2> QED BY <1>2, <2>1, <2>2, MainStepsFrame
<1>3. CASE StartSteps
  <2>1. main \notin {"wait", "ended", "crashed"}
    BY <1>3 DEF StartSteps, OnBeginInstallation, ReportRunning, ShowRunning, Spawn,
         SpawnFails, Join
  <2>2. asked' = asked
    BY <1>3 DEF StartSteps, OnBeginInstallation, Elsewhere, ReportRunning, ShowRunning,
         Started, Spawn, SpawnFails, Join, Settled
  <2> QED BY <2>1, <2>2
<1> QED BY <1>1, <1>2, <1>3

\* The steps of the workers: the last one is the only one that could reset the
\* flag, and it has passed that line.
LEMMA HeededByWorker ==
  ASSUME NEW r \in Runs, IInv, Heeded, RunInstall(r)
  PROVE  Heeded'
<1> USE LastIsNat DEF Heeded, Alone, Quiet
<1> SUFFICES ASSUME asked' # 0 PROVE Heeded'
  OBVIOUS
<1>1. asked' = asked /\ runs' = runs /\ asked # 0 /\ runs \in Runs
  BY DEF RunInstall, Reset, Cancelled, Proceed, Reports, Shows, Execute, Succeed
<1>2. main' \in {main, "crashed"}
  BY DEF RunInstall, Reset, Cancelled, Proceed, Reports, Shows, Execute, Succeed
<1>3. workers[runs] \in Worker /\ workers \in [Runs -> Worker]
  BY <1>1 DEF IInv, TypeOK
<1>4. ~Reset(r)
  BY <1>1 DEF Reset, At, IInv, ActiveIsLast, Active
<1>5. cancel' = cancel
  BY <1>4 DEF RunInstall, Cancelled, Proceed, Reports, Shows, Execute, Succeed
<1>6. CASE r # runs
  <2>1. workers'[runs] = workers[runs]
    BY <1>3, <1>4, <1>6 DEF RunInstall, Cancelled, Proceed, Reports, Shows, Execute,
         Succeed, Says, Continues
  <2> QED BY <1>1, <1>2, <1>5, <2>1
<1>7. CASE r = runs
  <2> USE <1>7
  <2>1. CASE Cancelled(r)
    <3>1. workers'[runs] = [workers[runs] EXCEPT !.pc = "report", !.say = StateReport("Cancelled")]
      BY <1>1, <1>3, <2>1 DEF Cancelled, Says
    <3>2. workers'[runs].say.state = "Cancelled" /\ workers'[runs].pc = "report"
          /\ workers'[runs].step = workers[runs].step
      BY <1>3, <3>1 DEF StateReport, Worker
    <3> QED BY <1>1, <1>2, <1>5, <3>2
  <2>2. CASE Proceed(r)
    <3>1. workers[runs].step > Last
      BY <1>1, <2>2 DEF Proceed
    <3>2. workers'[runs].pc = "report" /\ workers'[runs].step = workers[runs].step
      BY <1>1, <1>3, <2>2 DEF Proceed, Says, Worker
    <3> QED BY <1>1, <1>2, <1>5, <3>1, <3>2
  <2>3. CASE Reports(r) \/ Shows(r)
    <3>1. workers[runs].pc \in {"report", "callback"}
      BY <2>3 DEF Reports, Shows, At
    <3>2. Continues(r) \/ workers' = [workers EXCEPT ![r].pc = "callback"]
      BY <2>3 DEF Reports, Shows
    <3>3. workers'[runs].say = workers[runs].say /\ workers'[runs].step = workers[runs].step
      BY <1>1, <1>3, <3>2 DEF Continues, Worker
    <3>4. workers'[runs].pc # "start"
      BY <1>1, <1>3, <3>2 DEF Continues, Worker
    <3>5. workers'[runs].pc = "execute" => workers[runs].say.state = "same"
                                           /\ ~(workers[runs].step > Last)
      BY <1>1, <1>3, <3>2 DEF Continues, Worker
    <3> QED BY <1>1, <1>2, <1>5, <3>1, <3>3, <3>4, <3>5
  <2>4. CASE Execute(r)
    <3>1. workers[runs].pc = "execute" /\ workers[runs].step = asked
      BY <1>1, <2>4 DEF Execute, At
    <3>2. CASE workers' = [workers EXCEPT ![r].pc = "check", ![r].step = @ + 1]
      <4>1. workers'[runs].pc = "check" /\ workers'[runs].step = asked + 1
        BY <1>1, <1>3, <3>1, <3>2 DEF Worker
      <4> QED BY <1>1, <1>2, <1>5, <4>1
    <3>3. CASE Says(r, StateReport("Failed"))
      <4>1. workers'[runs].pc = "report" /\ workers'[runs].step = workers[runs].step
            /\ workers'[runs].say.state = "Failed"
        BY <1>1, <1>3, <3>3 DEF Says, StateReport, Worker
      <4> QED BY <1>1, <1>2, <1>5, <4>1
    <3> QED BY <2>4, <3>2, <3>3 DEF Execute
  <2>5. CASE Succeed(r)
    <3>1. workers'[runs].pc = "report" /\ workers'[runs].step = workers[runs].step
          /\ workers'[runs].say.state = "Succeeded"
      BY <1>1, <1>3, <2>5 DEF Succeed, Says, StateReport, Worker
    <3> QED BY <1>1, <1>2, <1>5, <3>1
  <2> QED BY <1>4, <2>1, <2>2, <2>3, <2>4, <2>5 DEF RunInstall
<1> QED BY <1>6, <1>7

\* A request to cancel that a worker did not reset stops the installation after
\* the step it has reached, whatever the steps are.
THEOREM CancelHeeded == Spec => []CancelledWithinStep
<1>1. Init => Heeded
  BY DEF Init, Heeded
<1>2. IInv /\ Heeded /\ [Next]_vars => Heeded'
  <2> SUFFICES ASSUME IInv, Heeded, [Next]_vars PROVE Heeded'
    OBVIOUS
  <2>1. CASE UNCHANGED vars
    BY <2>1 DEF vars, Heeded
  <2> QED BY <2>1, NextParts, HeededByMain, HeededByWorker
<1>3. IInv /\ Heeded => CancelledWithinStep
  <2> SUFFICES ASSUME IInv, Heeded PROVE CancelledWithinStep
    OBVIOUS
  <2>1. asked \in Nat
    BY LastIsNat DEF IInv, TypeOK
  <2> QED BY <2>1 DEF Heeded, CancelledWithinStep
<1> QED BY <1>1, <1>2, <1>3, Invariance, PTL DEF Spec

\* The plan a client can begin by its id was validated under that id: the two
\* are given together, and only the id is ever taken back.
THEOREM ValidatedFirst == Spec => []PlanIsValidated
<1>1. Init => PlanIsValidated
  BY DEF Init, PlanIsValidated
<1>2. IInv /\ PlanIsValidated /\ [Next]_vars => PlanIsValidated'
  <2> SUFFICES ASSUME IInv, PlanIsValidated, [Next]_vars PROVE PlanIsValidated'
    OBVIOUS
  <2> USE DEF PlanIsValidated
  <2>1. plan \in [id : 0 .. MaxPlans, data : 0 .. MaxPlans]
    BY DEF IInv, TypeOK
  <2>2. ASSUME NEW valid \in BOOLEAN, OnCreateInstallPlan(valid) PROVE PlanIsValidated'
    BY <2>2 DEF OnCreateInstallPlan
  <2>3. ASSUME NEW id \in 0 .. MaxPlans, OnCancelInstallPlan(id) PROVE PlanIsValidated'
    BY <2>1, <2>3 DEF OnCancelInstallPlan
  <2>4. CASE Join
    BY <2>1, <2>4 DEF Join
  <2>5. CASE plan' = plan
    BY <2>5
  <2>6. CASE TakeContext \/ Sleep \/ WakeUp \/ Dispatch \/ LeaveContext
    BY <2>5, <2>6 DEF TakeContext, Sleep, WakeUp, Dispatch, LeaveContext, Loop
  <2>7. CASE Destroy \/ CancelInstall \/ JoinLast
    BY <2>5, <2>7 DEF Destroy, CancelInstall, JoinLast, Kept
  <2>8. ASSUME NEW id \in 0 .. MaxPlans, OnBeginInstallation(id) PROVE PlanIsValidated'
    BY <2>5, <2>8 DEF OnBeginInstallation
  <2>9. CASE ReportRunning \/ ShowRunning \/ Spawn \/ SpawnFails
    BY <2>5, <2>9 DEF ReportRunning, ShowRunning, Started, Spawn, SpawnFails
  <2>10. ASSUME NEW r \in Runs, RunInstall(r) PROVE PlanIsValidated'
    BY <2>5, <2>10 DEF RunInstall, Reset, Cancelled, Proceed, Reports, Shows, Execute,
         Succeed, Quiet, Alone
  <2>11. CASE UNCHANGED vars
    BY <2>5, <2>11 DEF vars
  <2> QED BY <2>2, <2>3, <2>4, <2>6, <2>7, <2>8, <2>9, <2>10, <2>11 DEF Next
<1> QED BY <1>1, <1>2, Invariance, PTL DEF Spec

-----------------------------------------------------------------------------
(* What a successful installation leaves mounted *)

\* What the steps of an installation have to be: whatever is mounted is cleaned
\* up by a later step, and before anything else is mounted.
CleansUp ==
  \A m \in 1 .. Last : Steps[m] = "mount" =>
    \E k \in m + 1 .. Last : /\ Steps[k] = "cleanup"
                             /\ \A j \in m + 1 .. k : Steps[j] # "mount"

\* Nothing is mounted by run r but the n mounts made last.
OnlyLast(n, r) == \A i \in 1 .. Len(mounts) - n : mounts[i].by # r

\* Before step k, a mount step is waiting for its cleanup.
Pending(k) ==
  \E m \in 1 .. k - 1 : Steps[m] = "mount" /\ \A j \in m + 1 .. k - 1 : Steps[j] # "cleanup"

\* The mounts are those of runs there were.  While an installation works, it has
\* mounted nothing, or nothing but its last two mounts with the cleanup still to
\* come; once it has succeeded it has nothing mounted.
CleanSoFar ==
  /\ \A i \in DOMAIN mounts : mounts[i].by <= runs
  /\ \A r \in Runs : Active(r) =>
       \/ OnlyLast(0, r)
       \/ OnlyLast(2, r) /\ Pending(workers[r].step)
  /\ \A r \in Runs : workers[r].pc = "succeed" => workers[r].step > Last
  /\ state = "Succeeded" => OnlyLast(0, runs)

\* With all its steps done no mount waits for a cleanup, and a mount step is not
\* reached while one does.
LEMMA NonePending ==
  ASSUME CleansUp, NEW k \in 1 .. Last + 1, k > Last \/ Steps[k] = "mount"
  PROVE  ~Pending(k)
<1> USE LastIsNat
<1> SUFFICES ASSUME NEW m \in 1 .. k - 1, Steps[m] = "mount",
                    \A j \in m + 1 .. k - 1 : Steps[j] # "cleanup"
             PROVE  FALSE
  BY DEF Pending
<1>1. m \in 1 .. Last
  OBVIOUS
<1>2. PICK c \in m + 1 .. Last : Steps[c] = "cleanup" /\ \A j \in m + 1 .. c : Steps[j] # "mount"
  BY <1>1 DEF CleansUp
<1>3. c >= k
  BY <1>2
<1>4. k <= Last /\ Steps[k] = "mount" /\ k \in m + 1 .. c
  BY <1>2, <1>3
<1> QED BY <1>2, <1>4

\* A step that is no cleanup leaves the mounts that wait waiting.
LEMMA StillPending ==
  ASSUME NEW k \in 1 .. Last, Steps[k] # "cleanup", Pending(k)
  PROVE  Pending(k + 1)
<1> USE LastIsNat
<1>1. PICK m \in 1 .. k - 1 : Steps[m] = "mount" /\ \A j \in m + 1 .. k - 1 : Steps[j] # "cleanup"
  BY DEF Pending
<1>2. m \in 1 .. k + 1 - 1 /\ \A j \in m + 1 .. k + 1 - 1 : Steps[j] # "cleanup"
  BY <1>1
<1> QED BY <1>1, <1>2 DEF Pending

\* A mount step leaves one.
LEMMA NowPending ==
  ASSUME NEW k \in 1 .. Last, Steps[k] = "mount"
  PROVE  Pending(k + 1)
<1>1. k \in 1 .. k + 1 - 1 /\ \A j \in k + 1 .. k + 1 - 1 : Steps[j] # "cleanup"
  BY LastIsNat
<1> QED BY <1>1 DEF Pending

\* A list without its last ones begins like the list.
LEMMA LastTaken ==
  ASSUME NEW M, NEW s \in Seq(M), NEW n \in Nat, NEW t, t = SubSeq(s, 1, Len(s) - n)
  PROVE  /\ t \in Seq(M)
         /\ \A i \in 1 .. Len(t) : i <= Len(s) - n /\ t[i] = s[i]
<1>1. t \in Seq(M)
  BY Shortened
<1>2. CASE 1 <= Len(s) - n
  <2>1. Len(s) - n \in 1 .. Len(s)
    BY <1>2
  <2>2. Len(t) = Len(s) - n /\ \A i \in 1 .. Len(s) - n : t[i] = s[i]
    BY <2>1, SubSeqProperties
  <2> QED BY <1>1, <2>1, <2>2
<1>3. CASE ~(1 <= Len(s) - n)
  <2>1. t = << >>
    BY <1>3, SubSeqProperties
  <2> QED BY <1>1, <2>1
<1> QED BY <1>2, <1>3

\* What a step that succeeds does to the mounts: of those before them, none goes
\* and none comes.
LEMMA CompletedMounts ==
  ASSUME NEW r \in Runs, mounts \in Seq(Mount), mounts' \in Completes(r),
         NEW q \in Runs, OnlyLast(2, q), runs \in Runs, r = runs,
         \A i \in DOMAIN mounts : mounts[i].by <= runs
  PROVE  /\ \A i \in DOMAIN mounts' : mounts'[i].by <= runs
         /\ Steps[workers[r].step] = "cleanup" => OnlyLast(0, q)'
         /\ Steps[workers[r].step] # "mount" /\ OnlyLast(0, q) => OnlyLast(0, q)'
         /\ OnlyLast(0, q) => OnlyLast(2, q)'
         /\ Steps[workers[r].step] # "mount" => OnlyLast(2, q)'
<1> USE DEF OnlyLast
<1>0. Len(mounts) \in Nat /\ DOMAIN mounts = 1 .. Len(mounts) /\ runs \in Nat
  BY DEF Runs
<1>1. CASE Steps[workers[r].step] = "mount"
  <2> DEFINE one == Append(mounts, [at |-> "root", by |-> r])
  <2>1. mounts' = Append(one, [at |-> "boot", by |-> r])
    BY <1>1 DEF Completes, Mounted
  <2>2. /\ one \in Seq(Mount) /\ Len(one) = Len(mounts) + 1
        /\ \A i \in 1 .. Len(mounts) : one[i] = mounts[i]
        /\ one[Len(mounts) + 1] = [at |-> "root", by |-> r]
    BY DEF Mount
  <2> HIDE DEF one
  <2>3. /\ Len(mounts') = Len(mounts) + 2
        /\ \A i \in 1 .. Len(mounts) : mounts'[i] = mounts[i]
        /\ mounts'[Len(mounts) + 1] = [at |-> "root", by |-> r]
        /\ mounts'[Len(mounts) + 2] = [at |-> "boot", by |-> r]
        /\ DOMAIN mounts' = 1 .. Len(mounts) + 2
    BY <1>0, <2>1, <2>2
  <2>4. \A i \in DOMAIN mounts' : mounts'[i].by <= runs
    <3> SUFFICES ASSUME NEW i \in 1 .. Len(mounts) + 2 PROVE mounts'[i].by <= runs
      BY <2>3
    <3>1. CASE i \in 1 .. Len(mounts)
      BY <1>0, <2>3, <3>1
    <3>2. CASE i \in {Len(mounts) + 1, Len(mounts) + 2}
      BY <1>0, <2>3, <3>2
    <3> QED BY <1>0, <3>1, <3>2
  <2>5. OnlyLast(0, q) => OnlyLast(2, q)'
    BY <1>0, <2>3
  <2> QED BY <1>1, <2>4, <2>5
<1>2. CASE Steps[workers[r].step] = "cleanup"
  <2>1. mounts' = SubSeq(mounts, 1, Len(mounts) - 2)
    BY <1>2 DEF Completes, Unmounted
  <2>3. /\ mounts' \in Seq(Mount)
        /\ \A i \in 1 .. Len(mounts') : i <= Len(mounts) - 2 /\ mounts'[i] = mounts[i]
    BY <1>0, <2>1, LastTaken
  <2>4. Len(mounts') \in Nat /\ DOMAIN mounts' = 1 .. Len(mounts')
    BY <2>3
  <2>5. \A i \in DOMAIN mounts' : mounts'[i].by <= runs
    BY <1>0, <2>3, <2>4
  <2>6. \A i \in 1 .. Len(mounts') : mounts'[i].by # q
    BY <1>0, <2>3, <2>4
  <2>7. OnlyLast(0, q)' /\ OnlyLast(2, q)'
    BY <2>4, <2>6
  <2> QED BY <1>2, <2>5, <2>7
<1>3. CASE Steps[workers[r].step] \notin {"mount", "cleanup"}
  <2>1. mounts' = mounts
    BY <1>3 DEF Completes
  <2> QED BY <1>0, <1>3, <2>1
<1> QED BY <1>1, <1>2, <1>3

\* What a step that throws leaves mounted was mounted by runs there were.
LEMMA ThrownMounts ==
  ASSUME NEW r \in Runs, mounts \in Seq(Mount), mounts' \in Throws(r),
         runs \in Runs, r = runs, \A i \in DOMAIN mounts : mounts[i].by <= runs
  PROVE  \A i \in DOMAIN mounts' : mounts'[i].by <= runs
<1>0. Len(mounts) \in Nat /\ DOMAIN mounts = 1 .. Len(mounts) /\ runs \in Nat
  BY DEF Runs
<1>1. CASE mounts' = mounts
  BY <1>1
<1>2. CASE mounts' = Append(mounts, [at |-> "root", by |-> r])
  <2>1. /\ DOMAIN mounts' = 1 .. Len(mounts) + 1
        /\ \A i \in 1 .. Len(mounts) : mounts'[i] = mounts[i]
        /\ mounts'[Len(mounts) + 1] = [at |-> "root", by |-> r]
    BY <1>0, <1>2 DEF Mount
  <2> QED BY <1>0, <2>1
<1>3. CASE mounts' = Unmounted(1)
  <2>1. mounts' = SubSeq(mounts, 1, Len(mounts) - 1)
    BY <1>3 DEF Unmounted
  <2>2. /\ mounts' \in Seq(Mount)
        /\ \A i \in 1 .. Len(mounts') : i <= Len(mounts) - 1 /\ mounts'[i] = mounts[i]
    BY <1>0, <2>1, LastTaken
  <2>3. DOMAIN mounts' = 1 .. Len(mounts')
    BY <2>2
  <2> QED BY <1>0, <2>2, <2>3
<1> QED BY <1>1, <1>2, <1>3 DEF Throws

\* The main thread mounts nothing; the installation it begins has nothing yet.
LEMMA CleanByMain ==
  ASSUME IInv, CleanSoFar, MainSteps \/ StartSteps
  PROVE  CleanSoFar'
<1> USE DEF CleanSoFar
<1>0. mounts' = mounts
  BY DEF MainSteps, TakeContext, Sleep, WakeUp, Dispatch, LeaveContext, Loop,
         OnCreateInstallPlan, OnCancelInstallPlan, Elsewhere, Destroy, CancelInstall,
         JoinLast, Kept, StartSteps, OnBeginInstallation, ReportRunning, ShowRunning,
         Started, Spawn, SpawnFails, Join, Settled
<1>1. CASE Spawn
  <2>1. /\ runs' = runs + 1 /\ runs' \in Runs /\ state' = state /\ state = "Running"
        /\ workers' = [workers EXCEPT ![runs'].pc = "start"]
        /\ \A r \in Runs : ~Active(r)
    BY <1>1, InstallerAssumption DEF Spawn, Settled, IInv, TypeOK, InBounds, ActiveIsLast, Runs
  <2>2. \A r \in Runs : r # runs' => workers'[r] = workers[r]
    BY <2>1 DEF IInv, TypeOK
  <2>3. \A i \in DOMAIN mounts : mounts[i].by # runs' /\ mounts[i].by <= runs'
    <3> SUFFICES ASSUME NEW i \in DOMAIN mounts PROVE mounts[i].by # runs' /\ mounts[i].by <= runs'
      OBVIOUS
    <3>1. mounts[i] \in Mount /\ mounts[i].by <= runs /\ runs \in Nat
      BY InstallerAssumption DEF IInv, TypeOK
    <3> QED BY <2>1, <3>1 DEF Mount, Runs
  <2>4. \A r \in Runs : Active(r)' => r = runs'
    BY <2>1, <2>2 DEF Active
  <2>5. OnlyLast(0, runs)'
    BY <1>0, <2>3 DEF OnlyLast, IInv, TypeOK
  <2>6. workers'[runs'].pc = "start"
    BY <2>1 DEF IInv, TypeOK, Worker
  <2>7. \A r \in Runs : workers'[r].pc = "succeed" => workers'[r].step > Last
    BY <2>2, <2>6
  <2> QED BY <1>0, <2>1, <2>3, <2>4, <2>5, <2>7
<1>2. CASE ~Spawn
  <2>1. runs' = runs /\ workers' = workers /\ (state' = state \/ state' = "Running")
    <3>1. CASE MainSteps
      BY <3>1, MainStepsFrame
    <3>2. CASE StartSteps
      BY <1>2, <3>2 DEF StartSteps, OnBeginInstallation, Elsewhere, ReportRunning,
           ShowRunning, Started, SpawnFails, Join, Settled
    <3> QED BY <3>1, <3>2
  <2> QED BY <1>0, <2>1 DEF Active, OnlyLast
<1> QED BY <1>1, <1>2

\* A worker cleans up what it has mounted before it has no step left.
LEMMA CleanByWorker ==
  ASSUME CleansUp, NEW r \in Runs, IInv, CleanSoFar, RunInstall(r)
  PROVE  CleanSoFar'
<1> USE LastIsNat DEF Alone, Quiet
<1>1. /\ \A q \in Runs : q # r => workers'[q] = workers[q]
      /\ runs' = runs
  BY DEF IInv, TypeOK, RunInstall, Reset, Cancelled, Proceed, Reports, Shows, Execute, Succeed,
         Says, Continues
<1>2. workers \in [Runs -> Worker] /\ workers[r] \in Worker /\ mounts \in Seq(Mount)
      /\ workers[r].step \in 1 .. Last + 1
  BY DEF IInv, TypeOK, Worker
<1>3. \A q \in Runs : q # r => (Active(q)' <=> Active(q))
  BY <1>1 DEF Active
<1>4. ASSUME UNCHANGED <<state, mounts>>, Active(r)' => Active(r),
             workers'[r].step = workers[r].step,
             workers'[r].pc = "succeed" => workers[r].step > Last
      PROVE  CleanSoFar'
  <2>1. \A q \in Runs : workers'[q].step = workers[q].step /\ (Active(q)' => Active(q))
    BY <1>1, <1>3, <1>4
  <2>2. \A q \in Runs : workers'[q].pc = "succeed" => workers'[q].step > Last
    BY <1>1, <1>4 DEF CleanSoFar
  <2>3. \A q \in Runs : Active(q)' => \/ OnlyLast(0, q)'
                                      \/ OnlyLast(2, q)' /\ Pending(workers'[q].step)
    BY <1>4, <2>1 DEF CleanSoFar, OnlyLast
  <2> QED BY <1>1, <1>4, <2>2, <2>3 DEF CleanSoFar, OnlyLast
<1>5. ASSUME ~Active(r)', Active(r), workers'[r].pc # "succeed",
             \A i \in DOMAIN mounts' : mounts'[i].by <= runs,
             state' = "Succeeded" => OnlyLast(0, r)'
      PROVE  CleanSoFar'
  <2>1. r = runs /\ \A q \in Runs : ~Active(q)'
    BY <1>3, <1>5 DEF IInv, ActiveIsLast
  <2>2. \A q \in Runs : workers'[q].pc = "succeed" => workers'[q].step > Last
    BY <1>1, <1>5 DEF CleanSoFar
  <2> QED BY <1>1, <1>5, <2>1, <2>2 DEF CleanSoFar
<1>6. CASE Reset(r)
  <2>1. workers'[r].step = workers[r].step /\ workers'[r].pc = "check" /\ Active(r)
    BY <1>2, <1>6 DEF Reset, Worker, Active, At
  <2> QED BY <1>4, <1>6, <2>1 DEF Reset
<1>7. CASE Cancelled(r)
  <2>1. Active(r) /\ ~Active(r)' /\ workers'[r].pc = "report" /\ state' = "Cancelled"
    BY <1>2, <1>7 DEF Cancelled, At, Says, Active, StateReport, Worker
  <2>2. \A i \in DOMAIN mounts' : mounts'[i].by <= runs
    BY <1>7 DEF Cancelled, CleanSoFar
  <2> QED BY <1>5, <2>1, <2>2
<1>8. CASE Proceed(r)
  <2>1. workers'[r].step = workers[r].step /\ workers'[r].pc = "report" /\ Active(r)
    BY <1>2, <1>8 DEF Proceed, Says, Worker, Active, At
  <2> QED BY <1>4, <1>8, <2>1 DEF Proceed
<1>9. CASE Reports(r) \/ Shows(r)
  <2>1. UNCHANGED <<state, mounts>> /\ workers[r].pc \in {"report", "callback"}
    BY <1>9 DEF Reports, Shows, At
  <2>2. Continues(r) \/ workers' = [workers EXCEPT ![r].pc = "callback"]
    BY <1>9 DEF Reports, Shows
  <2>3. /\ workers'[r].say = workers[r].say /\ workers'[r].step = workers[r].step
        /\ workers[r].say.state # "same" => workers'[r].pc \in {"callback", "done"}
        /\ workers'[r].pc = "succeed" => workers[r].step > Last
    BY <1>2, <2>2 DEF Continues, Worker
  <2>4. Active(r)' => Active(r)
    BY <2>1, <2>3 DEF Active
  <2> QED BY <1>4, <2>1, <2>3, <2>4
<1>10. CASE Execute(r)
  <2>1. workers[r].pc = "execute" /\ Active(r) /\ r = runs /\ workers[r].step \in 1 .. Last
    BY <1>2, <1>10 DEF Execute, At, Active, IInv, ActiveIsLast, InBounds
  <2>2. \A i \in DOMAIN mounts : mounts[i].by <= runs
    BY DEF CleanSoFar
  <2>3. CASE mounts' \in Throws(r) /\ state' = "Failed" /\ Says(r, StateReport("Failed"))
    <3>1. ~Active(r)' /\ workers'[r].pc = "report"
      BY <1>2, <2>3 DEF Says, Active, StateReport, Worker
    <3>2. \A i \in DOMAIN mounts' : mounts'[i].by <= runs
      BY <1>2, <2>1, <2>2, <2>3, ThrownMounts
    <3> QED BY <1>5, <2>1, <2>3, <3>1, <3>2
  <2>4. CASE /\ mounts' \in Completes(r) /\ state' = state
             /\ workers' = [workers EXCEPT ![r].pc = "check", ![r].step = @ + 1]
    <3> DEFINE k == workers[r].step
    <3>1. workers'[r].step = k + 1 /\ workers'[r].pc = "check"
      BY <1>2, <2>4 DEF Worker
    <3>2. OnlyLast(2, r) /\ (OnlyLast(0, r) \/ Pending(k))
      <4>1. OnlyLast(0, r) => OnlyLast(2, r)
        BY <1>2 DEF OnlyLast
      <4> QED BY <2>1, <4>1 DEF CleanSoFar
    <3>3. /\ \A i \in DOMAIN mounts' : mounts'[i].by <= runs
          /\ Steps[k] = "cleanup" => OnlyLast(0, r)'
          /\ Steps[k] # "mount" /\ OnlyLast(0, r) => OnlyLast(0, r)'
          /\ OnlyLast(0, r) => OnlyLast(2, r)'
          /\ Steps[k] # "mount" => OnlyLast(2, r)'
      BY <1>2, <2>1, <2>2, <2>4, <3>2, CompletedMounts
    <3>4. OnlyLast(0, r)' \/ (OnlyLast(2, r)' /\ Pending(k + 1))
      <4>1. CASE Steps[k] = "mount"
        BY <2>1, <3>2, <3>3, <4>1, NonePending, NowPending
      <4>2. CASE Steps[k] = "cleanup"
        BY <3>3, <4>2
      <4>3. CASE Steps[k] \notin {"mount", "cleanup"}
        BY <2>1, <3>2, <3>3, <4>3, StillPending
      <4> QED BY <4>1, <4>2, <4>3
    <3>5. state' # "Succeeded"
      BY <2>1, <2>4 DEF IInv, ActiveIsLast
    <3>6. \A q \in Runs : q # r => ~Active(q)'
      BY <1>3, <2>1 DEF IInv, ActiveIsLast
    <3>7. \A q \in Runs : workers'[q].pc = "succeed" => workers'[q].step > Last
      BY <1>1, <3>1 DEF CleanSoFar
    <3> QED BY <1>1, <3>1, <3>3, <3>4, <3>5, <3>6, <3>7 DEF CleanSoFar
  <2> QED BY <1>10, <2>3, <2>4 DEF Execute
<1>11. CASE Succeed(r)
  <2>1. Active(r) /\ ~Active(r)' /\ workers'[r].pc = "report" /\ mounts' = mounts
    BY <1>2, <1>11 DEF Succeed, At, Says, Active, StateReport, Worker
  <2>2. workers[r].step > Last
    BY <1>11 DEF Succeed, At, CleanSoFar
  <2>3. OnlyLast(0, r)
    BY <1>2, <2>1, <2>2, NonePending DEF CleanSoFar
  <2> QED BY <1>5, <2>1, <2>3 DEF OnlyLast, CleanSoFar
<1> QED BY <1>6, <1>7, <1>8, <1>9, <1>10, <1>11 DEF RunInstall

\* An installation that succeeds leaves nothing of its own mounted, if its steps
\* clean up what they mount; whatever earlier ones that failed have left.
THEOREM NothingLeftMounted ==
  ASSUME CleansUp
  PROVE  Spec => []SuccessUnmounts
<1>1. Init => CleanSoFar
  BY DEF Init, CleanSoFar, Active
<1>2. IInv /\ CleanSoFar /\ [Next]_vars => CleanSoFar'
  <2> SUFFICES ASSUME IInv, CleanSoFar, [Next]_vars PROVE CleanSoFar'
    OBVIOUS
  <2>1. CASE UNCHANGED vars
    BY <2>1 DEF vars, CleanSoFar, Active, OnlyLast
  <2> QED BY <2>1, NextParts, CleanByMain, CleanByWorker
<1>3. IInv /\ CleanSoFar => SuccessUnmounts
  BY DEF IInv, TypeOK, CleanSoFar, OnlyLast, SuccessUnmounts
<1> QED BY <1>1, <1>2, <1>3, Invariance, PTL DEF Spec
=============================================================================
