----------------------------- MODULE Installer -----------------------------
(***************************************************************************)
(* The installer: the plans of InstallerService                            *)
(* (src/src/services/installer/installer_service.cpp) and the thread of    *)
(* InstallController (install_controller.cpp), which runs the steps of an  *)
(* installation and reports to the main loop.                              *)
(*                                                                         *)
(* A report goes through g_main_context_invoke: a thread that finds GLib's *)
(* main context free takes it and runs the callback itself, any other one  *)
(* queues the callback for the main thread, which owns the context while   *)
(* it polls and dispatches and not while it handles a D-Bus message.       *)
(* Threads are numbered: 0 is the main thread, r is the r-th worker.       *)
(***************************************************************************)
EXTENDS Integers, Sequences

CONSTANTS
  Steps,     \* the steps of an installation, by what they do to the mounts
  MaxPlans,  \* bound on the plans created
  MaxRuns    \* bound on the installations begun

ASSUME InstallerAssumption ==
  /\ Steps \in Seq({"work", "mount", "cleanup"})
  /\ MaxPlans \in Nat /\ MaxRuns \in Nat

VARIABLES
  main,     \* what the main thread is at
  plans,    \* plans created so far
  plan,     \* _installPlanId, and the plan whose data _installData holds
  state,    \* _state of the controller
  cancel,   \* _cancelRequested
  runs,     \* worker threads started; _worker is the last one
  workers,  \* where each worker is, its step and what it reports
  context,  \* the owner of the main context
  queue,    \* callbacks queued for the main thread
  shown,    \* the properties State and Progress
  mounts,   \* what is mounted below the target root, oldest first
  asked     \* history: the worker's step when the cancel was requested

vars == <<main, plans, plan, state, cancel, runs, workers, context, queue,
          shown, mounts, asked>>

Free == -1
Main == 0
Runs == 1 .. MaxRuns
Last == Len(Steps)

States == {"Idle", "Running", "Succeeded", "Failed", "Cancelled"}

\* A report of a state, or of the step that begins: Last + 1 is "Done".
Report == [state : States \cup {"same"}, step : 0 .. Last + 1]
StateReport(s) == [state |-> s, step |-> 0]
ProgressReport(k) == [state |-> "same", step |-> k]

Worker == [pc : {"none", "start", "check", "report", "callback", "execute",
                 "succeed", "done"},
           step : 1 .. Last + 1, say : Report]

\* A mount below the target root, and the run that made it.
Mount == [at : {"root", "boot"}, by : Runs]

Init ==
  /\ main = "idle"
  /\ plans = 0 /\ plan = [id |-> 0, data |-> 0]
  /\ state = "Idle" /\ cancel = FALSE
  /\ runs = 0
  /\ workers = [r \in Runs |-> [pc |-> "none", step |-> 1, say |-> StateReport("same")]]
  /\ context = Free /\ queue = <<>>
  /\ shown = [state |-> "Idle", step |-> 0]
  /\ mounts = <<>> /\ asked = 0
-----------------------------------------------------------------------------
(* Reports *)

\* The service's callback for a report: each kind sets its own property.
Handled(report) ==
  [state |-> IF report.state = "same" THEN shown.state ELSE report.state,
   step |-> IF report.step = 0 THEN shown.step ELSE report.step]

\* g_main_context_invoke by thread t: to run the callback itself ...
Takes(t) == context = Free /\ context' = t /\ UNCHANGED queue

\* ... or to queue it.
Queues(report) == context # Free /\ queue' = Append(queue, report) /\ UNCHANGED context

\* The callback returns and the context is given back.
Releases(t, report) ==
  /\ context = t /\ context' = Free
  /\ shown' = Handled(report)
-----------------------------------------------------------------------------
(* The main loop and the service *)

Loop == <<plans, plan, state, cancel, runs, workers, mounts, asked>>

TakeContext ==
  /\ main = "idle" /\ context = Free
  /\ main' = "glib" /\ context' = Main
  /\ UNCHANGED <<Loop, queue, shown>>

\* Update could not take the context: it sleeps until a message comes.
Sleep ==
  /\ main = "idle" /\ context \in Runs
  /\ main' = "asleep"
  /\ UNCHANGED <<Loop, context, queue, shown>>

WakeUp ==
  /\ main = "asleep" /\ main' = "idle"
  /\ UNCHANGED <<Loop, context, queue, shown>>

Dispatch ==
  /\ main = "glib" /\ queue # <<>>
  /\ shown' = Handled(Head(queue))
  /\ queue' = Tail(queue)
  /\ UNCHANGED <<Loop, main, context>>

LeaveContext ==
  /\ main = "glib"
  /\ main' = "idle" /\ context' = Free
  /\ UNCHANGED <<Loop, queue, shown>>

Elsewhere == <<cancel, runs, workers, context, queue, shown, mounts, asked>>

\* Mutant of OnCreateInstallPlan: the id is given before the plan is validated.
CreateUnvalidated(valid) ==
  /\ main = "idle" /\ plan.id = 0 /\ state # "Running" /\ plans < MaxPlans
  /\ plans' = plans + 1
  /\ plan' = [id |-> plans', data |-> IF valid THEN plans' ELSE plan.data]
  /\ UNCHANGED <<Elsewhere, main, state>>

\* A plan that fails validation changes nothing.
OnCreateInstallPlan(valid) ==
  /\ main = "idle" /\ plan.id = 0 /\ state # "Running" /\ plans < MaxPlans
  /\ plans' = plans + 1
  /\ plan' = IF valid THEN [id |-> plans', data |-> plans'] ELSE plan
  /\ UNCHANGED <<Elsewhere, main, state>>

\* Only the id is reset, the data stay.
OnCancelInstallPlan(id) ==
  /\ main = "idle" /\ id = plan.id
  /\ plan' = [plan EXCEPT !.id = 0]
  /\ UNCHANGED <<Elsewhere, main, plans, state>>

\* Mutant of OnBeginInstallation: it is not asked whether one is running.
BeginAgain(id) ==
  /\ main = "idle" /\ id = plan.id /\ plan.data # 0 /\ runs < MaxRuns
  /\ state' = "Running"
  /\ main' = "report"
  /\ UNCHANGED <<Elsewhere, plans, plan>>

\* BeginInstallation and StartInstall up to the state.  After a plan was begun
\* or cancelled, id 0 is the current one and begins the data of the last plan.
OnBeginInstallation(id) ==
  /\ main = "idle" /\ id = plan.id /\ plan.data # 0 /\ runs < MaxRuns
  /\ state # "Running"
  /\ state' = "Running"
  /\ main' = "report"
  /\ UNCHANGED <<Elsewhere, plans, plan>>

Started == <<plans, plan, state, cancel, runs, workers, mounts, asked>>

\* Mutant of ReportRunning: the callback is queued in any case.
ReportRunningLater ==
  /\ main = "report"
  /\ queue' = Append(queue, StateReport("Running"))
  /\ main' = "spawn"
  /\ UNCHANGED <<Started, context, shown>>

\* UpdateState(Running), by the main thread.
ReportRunning ==
  /\ main = "report"
  /\ \/ Takes(Main) /\ main' = "callback"
     \/ Queues(StateReport("Running")) /\ main' = "spawn"
  /\ UNCHANGED <<Started, shown>>

ShowRunning ==
  /\ main = "callback" /\ main' = "spawn"
  /\ Releases(Main, StateReport("Running"))
  /\ UNCHANGED <<Started, queue>>

Settled == <<plans, state, cancel, context, queue, shown, mounts, asked>>

\* The new thread runs before _worker is assigned.
Spawn ==
  /\ main = "spawn" /\ main' = "join"
  /\ runs' = runs + 1
  /\ workers' = [workers EXCEPT ![runs'].pc = "start"]
  /\ UNCHANGED <<Settled, plan>>

\* There is no thread to be had: an error is the reply, the state stays.
SpawnFails ==
  /\ main = "spawn" /\ main' = "idle"
  /\ UNCHANGED <<Settled, plan, runs, workers>>

\* The assignment joins the thread that was in _worker.
Join ==
  /\ main = "join" /\ main' = "idle"
  /\ runs > 1 => workers[runs - 1].pc = "done"
  /\ plan' = [plan EXCEPT !.id = 0]
  /\ UNCHANGED <<Settled, runs, workers>>

Kept == <<plans, plan, state, runs, workers, context, queue, shown, mounts>>

\* The daemon ends: the properties are destroyed, then the controller.
Destroy ==
  /\ main \in {"idle", "asleep"} /\ main' = "cleanup"
  /\ UNCHANGED <<Kept, cancel, asked>>

\* ~InstallController: CancelInstall.
CancelInstall ==
  /\ main = "cleanup" /\ main' = "wait"
  /\ cancel' = (cancel \/ state = "Running")
  /\ asked' = IF state = "Running" /\ runs > 0 /\ workers[runs].pc # "start"
              THEN workers[runs].step ELSE asked
  /\ UNCHANGED Kept

\* ~InstallController: the worker is joined.
JoinLast ==
  /\ main = "wait" /\ main' = "ended"
  /\ runs > 0 => workers[runs].pc = "done"
  /\ UNCHANGED <<Kept, cancel, asked>>
-----------------------------------------------------------------------------
(* The worker *)

At(r, pc) == main \notin {"ended", "crashed"} /\ workers[r].pc = pc

Alone == <<main, plans, plan, runs, asked>>
Quiet == <<Alone, context, queue, shown>>

\* Worker r goes to report.
Says(r, report) == workers' = [workers EXCEPT ![r].pc = "report", ![r].say = report]

\* RunInstall forgets what was requested before.
Reset(r) ==
  /\ At(r, "start")
  /\ cancel' = FALSE
  /\ workers' = [workers EXCEPT ![r].pc = "check"]
  /\ UNCHANGED <<Quiet, state, mounts>>

Cancelled(r) ==
  /\ At(r, "check") /\ workers[r].step <= Last /\ cancel
  /\ state' = "Cancelled"
  /\ Says(r, StateReport("Cancelled"))
  /\ UNCHANGED <<Quiet, cancel, mounts>>

\* Mutant of Proceed: a request to cancel is noticed before the first step only.
ProceedAnyway(r) ==
  /\ At(r, "check")
  /\ \/ workers[r].step \in 2 .. Last + 1
     \/ ~cancel
  /\ Says(r, ProgressReport(workers[r].step))
  /\ UNCHANGED <<Quiet, state, cancel, mounts>>

\* The next step, or "Done" after the last one.
Proceed(r) ==
  /\ At(r, "check")
  /\ \/ workers[r].step > Last
     \/ ~cancel
  /\ Says(r, ProgressReport(workers[r].step))
  /\ UNCHANGED <<Quiet, state, cancel, mounts>>

\* What follows a report.
Continues(r) ==
  workers' = [workers EXCEPT ![r].pc =
                IF workers[r].say.state # "same" THEN "done"
                ELSE IF workers[r].step > Last THEN "succeed" ELSE "execute"]

Reports(r) ==
  /\ At(r, "report")
  /\ \/ Takes(r) /\ workers' = [workers EXCEPT ![r].pc = "callback"]
     \/ Queues(workers[r].say) /\ Continues(r)
  /\ UNCHANGED <<Alone, state, cancel, shown, mounts>>

\* The callback in the worker's thread.  When the properties are destroyed
\* already, what it does is undefined: nothing, or the end of the process.
Shows(r) ==
  /\ At(r, "callback")
  /\ Continues(r)
  /\ IF main \in {"cleanup", "wait"}
     THEN /\ context' = Free /\ UNCHANGED shown
          /\ main' \in {main, "crashed"}
     ELSE Releases(r, workers[r].say) /\ UNCHANGED main
  /\ UNCHANGED <<plans, plan, runs, asked, state, cancel, queue, mounts>>

Mounted(r) == Append(Append(mounts, [at |-> "root", by |-> r]), [at |-> "boot", by |-> r])

\* What is left without the n mounts made last.
Unmounted(n) == SubSeq(mounts, 1, Len(mounts) - n)

\* Mutant of Completes: errors of the last step are ignored.
CompletesAnyway(r) ==
  CASE Steps[workers[r].step] = "mount" -> {Mounted(r)}
    [] Steps[workers[r].step] = "cleanup" -> {Unmounted(n) : n \in 0 .. 2}
    [] OTHER -> {mounts}

\* The mounts after a step that succeeds.
Completes(r) ==
  CASE Steps[workers[r].step] = "mount" -> {Mounted(r)}
    [] Steps[workers[r].step] = "cleanup" -> {Unmounted(2)}
    [] OTHER -> {mounts}

\* The mounts after a step that throws.  A mount step takes back what it
\* mounted if it can; "boot" that stays mounted keeps "root" busy.
Throws(r) ==
  CASE Steps[workers[r].step] = "mount" ->
         {mounts, Append(mounts, [at |-> "root", by |-> r])}
    [] Steps[workers[r].step] = "cleanup" -> {mounts, Unmounted(1)}
    [] OTHER -> {mounts}

\* A step is executed: external commands, libparted, files.
Execute(r) ==
  /\ At(r, "execute")
  /\ \/ /\ mounts' \in Completes(r)
        /\ workers' = [workers EXCEPT ![r].pc = "check", ![r].step = @ + 1]
        /\ UNCHANGED state
     \/ /\ mounts' \in Throws(r)
        /\ state' = "Failed"
        /\ Says(r, StateReport("Failed"))
  /\ UNCHANGED <<Quiet, cancel>>

Succeed(r) ==
  /\ At(r, "succeed")
  /\ state' = "Succeeded"
  /\ Says(r, StateReport("Succeeded"))
  /\ UNCHANGED <<Quiet, cancel, mounts>>

RunInstall(r) ==
  \/ Reset(r) \/ Cancelled(r) \/ Proceed(r) \/ Reports(r) \/ Shows(r)
  \/ Execute(r) \/ Succeed(r)

Next ==
  \/ TakeContext \/ Sleep \/ WakeUp \/ Dispatch \/ LeaveContext
  \/ \E valid \in BOOLEAN : OnCreateInstallPlan(valid)
  \/ \E id \in 0 .. MaxPlans : OnCancelInstallPlan(id) \/ OnBeginInstallation(id)
  \/ ReportRunning \/ ShowRunning \/ Spawn \/ SpawnFails \/ Join
  \/ Destroy \/ CancelInstall \/ JoinLast
  \/ \E r \in Runs : RunInstall(r)

Spec == Init /\ [][Next]_vars

Begins == ReportRunning \/ ShowRunning \/ Spawn \/ Join
Ends == CancelInstall \/ JoinLast

\* Both threads run, the steps' commands return, and a callback that is queued
\* is dispatched by a main loop that comes by with the context again and again.
FairSpec ==
  /\ Spec
  /\ WF_vars(TakeContext \/ LeaveContext) /\ SF_vars(Dispatch)
  /\ WF_vars(Begins) /\ WF_vars(Ends)
  /\ \A r \in Runs : WF_vars(RunInstall(r))
-----------------------------------------------------------------------------
(* Properties *)

\* Every variable has its type.
TypeOK ==
  /\ main \in {"idle", "asleep", "glib", "report", "callback", "spawn", "join",
               "cleanup", "wait", "ended", "crashed"}
  /\ plans \in 0 .. MaxPlans
  /\ plan \in [id : 0 .. MaxPlans, data : 0 .. MaxPlans]
  /\ state \in States
  /\ cancel \in BOOLEAN
  /\ runs \in 0 .. MaxRuns
  /\ workers \in [Runs -> Worker]
  /\ context \in {Free, Main} \cup Runs
  /\ queue \in Seq(Report)
  /\ shown \in [state : States, step : 0 .. Last + 1]
  /\ mounts \in Seq(Mount)
  /\ asked \in 0 .. Last + 1

\* Worker r may still touch the disk.
Active(r) ==
  \/ workers[r].pc \in {"start", "check", "execute", "succeed"}
  \/ workers[r].pc \in {"report", "callback"} /\ workers[r].say.state = "same"

\* Two installations never work on the disk at the same time, although the next
\* one is started while the thread of the last one is still reporting.
OneInstaller == \A q, r \in Runs : Active(q) /\ Active(r) => q = r

\* A request to cancel that comes after the worker's reset lets it finish the
\* step it is in and no other.
CancelledWithinStep ==
  asked # 0 =>
    /\ workers[runs].step <= asked + 1
    /\ workers[runs].pc = "execute" => workers[runs].step = asked

\* A successful installation leaves nothing of its own mounted.
SuccessUnmounts ==
  state = "Succeeded" => \A i \in DOMAIN mounts : mounts[i].by # runs

\* The plan a client can begin by its id is the one that was validated under it.
PlanIsValidated == plan.id # 0 => plan.data = plan.id

\* The State property shows in the end how the first installation ended,
\* whichever thread runs the callbacks and in whatever order, and the daemon can
\* always end: its join waits for no more than the worker's steps.
EndsReached ==
  /\ (runs = 1 /\ state \notin {"Idle", "Running"})
       ~> (shown.state = state \/ state = "Running" \/ main \in {"cleanup", "wait", "ended", "crashed"})
  /\ (main = "cleanup") ~> (main \in {"ended", "crashed"})
=============================================================================
