--------------------------- MODULE CommandRunner ----------------------------
(***************************************************************************)
(* Running a command and collecting its output                             *)
(* (src/src/utils/command_runner.cpp).                                     *)
(*                                                                         *)
(* The child writes to two pipes of bounded capacity; the parent polls     *)
(* both, reads at most one buffer of each that is ready, closes those that *)
(* hung up, and waits for the child once both are closed.  The child blocks*)
(* on a write to a full pipe, of the stream it chose before.  A descendant *)
(* may hold a stream open after the child has ended, and so may the leader *)
(* of a session: the pipes are not made with O_CLOEXEC, another thread may *)
(* fork between their creation and the parent's close(), and a leader      *)
(* executes nothing and ends only at the logout.                           *)
(*                                                                         *)
(* Output is counted in units of one buffer; a pipe keeps it in order.     *)
(***************************************************************************)
EXTENDS Integers

CONSTANTS
  Capacity,  \* units a pipe holds: 16 on Linux
  MaxOutput  \* bound on the units written to each stream

VARIABLES
  writing,   \* the stream the child writes to next, or none
  open,      \* the streams whose write end the command or a descendant has open
  held,      \* those whose write end a session's leader has a copy of
  exited,    \* did the child end?
  written,   \* units written to each stream
  captured,  \* units of stdoutBuf and stderrBuf
  pipe,      \* units in each pipe
  fds,       \* the streams the parent has not closed
  ready,     \* what poll() reported: the streams with input and those hung up
  at         \* where the parent is

child == <<writing, open, exited, written>>
parent == <<captured, fds, ready, at>>
vars == <<child, held, pipe, parent>>

Streams == {"out", "err"}
Nobody == "none"
NotReady == [input |-> {}, hungUp |-> {}]

Init ==
  /\ writing = Nobody /\ open = Streams /\ held = {} /\ exited = FALSE
  /\ written = [s \in Streams |-> 0] /\ captured = [s \in Streams |-> 0]
  /\ pipe = [s \in Streams |-> 0]
  /\ fds = Streams /\ ready = NotReady /\ at = "start"
-----------------------------------------------------------------------------
(* The command *)

Choose(s) ==
  /\ ~exited /\ writing = Nobody /\ s \in open /\ written[s] < MaxOutput
  /\ writing' = s
  /\ UNCHANGED <<open, exited, written, held, pipe, parent>>

\* The parent closes a stream only when it hung up, so nobody writes to it then.
Write ==
  /\ writing # Nobody /\ pipe[writing] < Capacity
  /\ pipe' = [pipe EXCEPT ![writing] = @ + 1]
  /\ written' = [written EXCEPT ![writing] = @ + 1]
  /\ writing' = Nobody
  /\ UNCHANGED <<open, exited, held, parent>>

\* A stream is closed by the child, by its end, or by a descendant.
Closes(s) ==
  /\ s \in open /\ writing = Nobody
  /\ open' = open \ {s}
  /\ UNCHANGED <<writing, exited, written, held, pipe, parent>>

Exits ==
  /\ ~exited /\ writing = Nobody
  /\ exited' = TRUE
  /\ UNCHANGED <<writing, open, written, held, pipe, parent>>
-----------------------------------------------------------------------------
(* The session manager, in the main thread *)

\* A leader is forked while the parent has the write end of the first pipe, or
\* of both.
ForkLeader ==
  /\ at = "start"
  /\ \E copied \in {{"out"}, Streams} : held' = held \cup copied
  /\ UNCHANGED <<child, pipe, parent>>

\* Its user logs out.
LogsOut ==
  /\ held # {} /\ held' = {}
  /\ UNCHANGED <<child, pipe, parent>>
-----------------------------------------------------------------------------
(* Run *)

\* fork() has returned, and the parent closes its copies of the write ends.
Started ==
  /\ at = "start" /\ at' = "poll"
  /\ UNCHANGED <<child, held, pipe, captured, fds, ready>>

\* Mutant of Watched: stdout is read to its end before stderr.
WatchedInTurn == IF "out" \in fds THEN {"out"} ELSE fds

\* Both descriptors are polled, a closed one is ignored.
Watched == fds

\* poll() blocks until something is ready.
Poll ==
  /\ at = "poll" /\ fds # {}
  /\ ready' = [input |-> {s \in Watched : pipe[s] > 0}, hungUp |-> Watched \ (open \cup held)]
  /\ ready' # NotReady
  /\ at' = "out"
  /\ UNCHANGED <<child, held, pipe, captured, fds>>

\* Any other error of poll() than EINTR ends the loop over the output.
PollFails ==
  /\ at = "poll" /\ fds # {}
  /\ at' = "wait"
  /\ UNCHANGED <<child, held, pipe, captured, fds, ready>>

After(s) == IF s = "out" THEN "err" ELSE "poll"

\* One read of one buffer, and the descriptor is closed if it hung up.
Drain(s) ==
  /\ at = s
  /\ LET n == IF s \in ready.input THEN 1 ELSE 0
         left == IF s \in ready.hungUp THEN 0 ELSE pipe[s] - n
     IN /\ captured' = [captured EXCEPT ![s] = @ + n]
        /\ pipe' = [pipe EXCEPT ![s] = left]
  /\ fds' = fds \ (ready.hungUp \cap {s})
  /\ at' = After(s)
  /\ UNCHANGED <<child, held, ready>>

\* waitpid, and the result with all of the output or, after a failure, part of it.
Reap ==
  /\ exited
  /\ \/ at = "poll" /\ fds = {} /\ at' = "done"
     \/ at = "wait" /\ at' = "partial"
  /\ UNCHANGED <<child, held, pipe, captured, fds, ready>>

Parent == Started \/ Poll \/ Reap \/ \E s \in Streams : Drain(s)

Next ==
  \/ \E s \in Streams : Choose(s) \/ Closes(s)
  \/ Write \/ Exits \/ Parent \/ PollFails
  \/ ForkLeader \/ LogsOut

Spec == Init /\ [][Next]_vars

\* The command ends if its writes do, and so do those it leaves behind.  Nobody
\* has to log out.
FairSpec ==
  /\ Spec
  /\ WF_vars(Parent) /\ WF_vars(Write) /\ WF_vars(Exits)
  /\ \A s \in Streams : WF_vars(Closes(s))
-----------------------------------------------------------------------------
(* Properties *)

\* Every variable has its type.
TypeOK ==
  /\ writing \in Streams \cup {Nobody} /\ open \subseteq Streams /\ exited \in BOOLEAN
  /\ held \subseteq Streams
  /\ pipe \in [Streams -> 0 .. Capacity] /\ written \in [Streams -> 0 .. MaxOutput]
  /\ captured \in [Streams -> 0 .. MaxOutput]
  /\ fds \subseteq Streams /\ at \in Streams \cup {"start", "poll", "wait", "done", "partial"}

\* poll() failed, and the command waits for a pipe that nobody reads any more.
Abandoned == at = "wait" /\ writing # Nobody /\ pipe[writing] = Capacity

\* A command that ends is reported, however it spreads its output over the two
\* pipes and in which order it closes them: neither waits for the other.  The
\* exceptions are a session's leader that has copied a pipe and stays for ever,
\* and a failure of poll() that leaves the command on a full pipe.
CommandReturns ==
  <>(at \in {"done", "partial"}) \/ <>[](held # {}) \/ <>[]Abandoned

\* "so we drain any final bytes first": a result without a failure holds all the
\* output.
OutputComplete == at = "done" => captured = written
=============================================================================
