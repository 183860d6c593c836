---------------------------- MODULE HarborProcess ----------------------------
(****************************************************************************)
(* The supervision of one Harbor process (tier3/harbor/runner.py):          *)
(* _run_bounded_harbor_process with its output-reader and stdin-writer      *)
(* threads, _terminate_harbor_process_tree (POSIX) and the operating system *)
(* that runs the process group.  Time is abstracted to which deadlines have *)
(* passed; output is counted in units of the byte budget.                   *)
(****************************************************************************)
EXTENDS Naturals

CONSTANTS
    Descendants,    \* processes Harbor may start
    OutputBudget,   \* max_output_bytes, in units
    MaxChunk,       \* largest os.read, in units
    HasDeadline     \* timeout_seconds is not None

ASSUME BudgetAssumption == OutputBudget \in Nat \ {0} /\ MaxChunk \in Nat \ {0}
ASSUME DeadlineAssumption == HasDeadline \in BOOLEAN

VARIABLES
    pc,             \* where the supervising thread is
    primary,        \* exception in flight in the supervising thread, or "none"
    outcome,        \* what the caller got, "none" until pc = "done"
    cleanupFailed,  \* the exception handler's own termination raised
    timedOut,       \* local timed_out
    stop,           \* events of _HarborRunCancellation that are set
    leader,         \* the Harbor process
    child,          \* its descendants
    environments,   \* Harbor's trial environments (containers) are up
    reader,         \* the output-reader thread
    consumed,       \* output_budget.consumed_bytes
    exceeded,       \* output_exceeded
    sawEOF,         \* the reader read to the end of the pipe
    writer,         \* the stdin-writer thread
    failures,       \* threads whose error list is not empty
    elapsed,        \* deadlines that the monotonic clock is past
    sent,           \* signals the process group got
    refused         \* signals that killpg refused with EPERM

supervisor == <<pc, primary, outcome, cleanupFailed, timedOut>>
group      == <<leader, child, environments>>
threads    == <<reader, consumed, exceeded, sawEOF, writer, failures>>
signals    == <<sent, refused>>
vars == <<supervisor, stop, group, threads, elapsed, signals>>

(* A live descendant is in the process group or has left it (setsid), and
   holds Harbor's output pipe or has closed it. *)
InGroup == {"piped", "silent"}
Holding == {"piped", "detached"}
LeaderGone == leader \in {"exited", "reaped"}

(* End of file on the output pipe: no process holds its write end. *)
PipeClosed == LeaderGone /\ \A d \in Descendants : child[d] \notin Holding

Stages == {"start", "spawn", "threads", "checkStop", "checkDone", "checkCancel",
           "checkDeadline", "after", "term", "grace", "kill", "reap", "join",
           "verdict", "handler", "handlerJoin", "done"}
Errors == {"cancelled", "timeout", "error"}

StatesOK ==
    /\ pc \in Stages
    /\ primary \in Errors \cup {"none"}
    /\ outcome \in Errors \cup {"none", "result", "exceeded"}
    /\ cleanupFailed \in BOOLEAN /\ timedOut \in BOOLEAN
    /\ stop \subseteq {"requested", "forced"}
    /\ leader \in {"none", "running", "stopping", "killed", "exited", "reaped"}
    /\ child \in [Descendants -> InGroup \cup Holding \cup {"absent", "dead"}]
    /\ environments \in BOOLEAN
    /\ reader \in {"off", "reading", "closing", "done"}
    /\ exceeded \in BOOLEAN /\ sawEOF \in BOOLEAN
    /\ writer \in {"off", "writing", "done"}
    /\ failures \subseteq {"reader", "stdin"}
    /\ elapsed \subseteq {"deadline", "grace"}
    /\ sent \subseteq {"TERM", "KILL"} /\ refused \subseteq {"TERM", "KILL"}

TypeOK == StatesOK /\ consumed \in 0..OutputBudget

Init ==
    /\ pc = "start" /\ primary = "none" /\ outcome = "none"
    /\ cleanupFailed = FALSE /\ timedOut = FALSE
    /\ stop = {} /\ elapsed = {} /\ sent = {} /\ refused = {} /\ failures = {}
    /\ leader = "none" /\ child = [d \in Descendants |-> "absent"]
    /\ environments = FALSE
    /\ reader = "off" /\ consumed = 0 /\ exceeded = FALSE /\ sawEOF = FALSE
    /\ writer = "off"

Goto(from, to) == pc = from /\ pc' = to

(* The supervising thread moves on, raises into its own except BaseException
   block, or leaves the function. *)
Proceed(from, to) ==
    Goto(from, to) /\ UNCHANGED <<primary, outcome, cleanupFailed, timedOut>>
Raise(from, error) ==
    /\ Goto(from, "handler") /\ primary' = error
    /\ UNCHANGED <<outcome, cleanupFailed, timedOut>>
Return(from, answer) ==
    /\ Goto(from, "done") /\ outcome' = answer
    /\ UNCHANGED <<primary, cleanupFailed, timedOut>>

(* Everything but the supervising thread, and everything but it and Harbor. *)
Elsewhere == UNCHANGED <<stop, group, threads, elapsed, signals>>
ElsewhereButLeader == UNCHANGED <<stop, child, environments, threads, elapsed, signals>>

-----------------------------------------------------------------------------
(* The supervising thread: launch and polling loop. *)

RefuseLaunch == "requested" \in stop /\ Return("start", "cancelled") /\ Elsewhere
PassCheck    == "requested" \notin stop /\ Proceed("start", "spawn") /\ Elsewhere
SpawnFails   == Return("spawn", "error") /\ Elsewhere
Spawn == leader' = "running" /\ Proceed("spawn", "threads") /\ ElsewhereButLeader

(* Thread.start may raise, for the reader or, after it, for the writer. *)
StartThreads ==
    /\ \/ /\ Proceed("threads", "checkStop")
          /\ reader' = "reading" /\ writer' = "writing"
       \/ /\ Raise("threads", "error")
          /\ reader' \in {"off", "reading"} /\ UNCHANGED writer
    /\ UNCHANGED <<consumed, exceeded, sawEOF, failures, stop, group, elapsed, signals>>

MustStop == exceeded \/ failures # {}

CheckStop ==
    Proceed("checkStop", IF MustStop THEN "after" ELSE "checkDone") /\ Elsewhere

(* Popen.poll reaps the leader when it has exited. *)
Polled == IF leader = "exited" THEN "reaped" ELSE leader

CheckDone ==
    /\ Proceed("checkDone", IF reader = "done" /\ LeaderGone THEN "after" ELSE "checkCancel")
    /\ leader' = IF reader = "done" THEN Polled ELSE leader
    /\ ElsewhereButLeader

(* Mutant: the wrong event is read. *)
CancelSeenWhenForced == "forced" \in stop
CancelSeen == "requested" \in stop

CheckCancel ==
    /\ IF CancelSeen THEN Raise("checkCancel", "cancelled")
                     ELSE Proceed("checkCancel", "checkDeadline")
    /\ Elsewhere

(* Mutant: the deadline is compared once the reader is done. *)
DeadlineSeenAfterReader == "deadline" \in elapsed /\ reader = "done"
DeadlineSeen == "deadline" \in elapsed

CheckDeadline ==
    /\ Goto("checkDeadline", IF DeadlineSeen THEN "after" ELSE "checkStop")
    /\ timedOut' = DeadlineSeen
    /\ UNCHANGED <<primary, outcome, cleanupFailed>>
    /\ Elsewhere

(* process.wait() on the other branch returns at once: the loop ended with the
   leader polled.  Mutant: only the deadline terminates the tree. *)
MustTerminateOnTimeout == timedOut
MustTerminate == timedOut \/ MustStop

AfterLoop == Proceed("after", IF MustTerminate THEN "term" ELSE "join") /\ Elsewhere

-----------------------------------------------------------------------------
(* _terminate_harbor_process_tree: SIGTERM, grace, SIGKILL, reap.  It is called
   by the body of the function and by its exception handler. *)

InHandler == primary # "none"

(* The termination raises: into the handler of the body, or as the cleanup_error of
   the handler, which is noted. *)
TerminationFails(from) ==
    \/ ~InHandler /\ Raise(from, "error")
    \/ /\ InHandler /\ Goto(from, "handlerJoin") /\ cleanupFailed' = TRUE
       /\ UNCHANGED <<primary, outcome, timedOut>>

(* A group without members answers ESRCH, which is suppressed. *)
Terminate ==
    /\ Proceed("term", "grace")
    /\ sent' = sent \cup {"TERM"}
    /\ elapsed' = elapsed \ {"grace"}
    /\ UNCHANGED <<refused, stop, group, threads>>

(* PermissionError: nobody got the signal.  It is suppressed when Harbor turns out
   to be gone, and ends the termination otherwise. *)
SignalRefused(from, to, signal) ==
    /\ refused' = refused \cup {signal}
    /\ leader' = Polled
    /\ IF LeaderGone THEN Proceed(from, to) ELSE TerminationFails(from)
    /\ UNCHANGED <<sent, child, environments, stop, threads>>

TermRefused == SignalRefused("term", "grace", "TERM") /\ elapsed' = elapsed \ {"grace"}

(* _wait_for_harbor_leader: only a cancelled run passes end_grace.  Mutant:
   SIGKILL follows SIGTERM at once. *)
GraceSkipped == TRUE
GraceEnded == "grace" \in elapsed \/ (primary = "cancelled" /\ "forced" \in stop)

EndGrace ==
    /\ LeaderGone \/ GraceEnded
    /\ Proceed("grace", "kill")
    /\ leader' = Polled
    /\ ElsewhereButLeader

(* A process that was sent SIGKILL takes no further step of its own. *)
Kill ==
    /\ Proceed("kill", "reap")
    /\ sent' = sent \cup {"KILL"}
    /\ leader' = IF LeaderGone THEN leader ELSE "killed"
    /\ child' = [d \in Descendants |-> IF child[d] \in InGroup THEN "dead" ELSE child[d]]
    /\ UNCHANGED <<refused, environments, stop, threads, elapsed>>

KillRefused == SignalRefused("kill", "reap", "KILL") /\ UNCHANGED elapsed

Reap ==
    /\ LeaderGone
    /\ leader' = "reaped"
    /\ Proceed("reap", IF InHandler THEN "handlerJoin" ELSE "join")
    /\ ElsewhereButLeader

(* RuntimeError "could not be reaped". *)
ReapExpires == ~LeaderGone /\ TerminationFails("reap") /\ Elsewhere

-----------------------------------------------------------------------------
(* The supervising thread: joins, verdict and exception handler. *)

(* A thread that was never started is not joined. *)
Joined == reader \in {"off", "done"} /\ writer # "writing"

Join        == Joined /\ Proceed("join", "verdict") /\ Elsewhere
JoinExpires == ~Joined /\ Raise("join", "error") /\ Elsewhere

(* Mutant: the timeout is not told to the caller. *)
VerdictErrorNoTimeout == IF failures # {} THEN "error" ELSE "none"
VerdictError == IF failures # {} THEN "error" ELSE IF timedOut THEN "timeout" ELSE "none"

Verdict ==
    /\ IF VerdictError # "none"
         THEN Raise("verdict", VerdictError)
         ELSE Return("verdict", IF exceeded THEN "exceeded" ELSE "result")
    /\ Elsewhere

(* Mutant: a descendant that keeps the output pipe of a dead leader is ignored. *)
NeedsCleanupIfAlive == ~LeaderGone
NeedsCleanup == ~LeaderGone \/ reader # "done"

Handler ==
    /\ Proceed("handler", IF NeedsCleanup THEN "term" ELSE "handlerJoin")
    /\ leader' = Polled
    /\ ElsewhereButLeader

(* Both joins, each of at most five seconds, then the primary error. *)
HandlerJoin == Return("handlerJoin", primary) /\ Elsewhere

-----------------------------------------------------------------------------
(* The reader and writer threads. *)

NotThreads == UNCHANGED <<supervisor, stop, group, elapsed, signals>>

(* Only the part of a chunk that fits the budget is consumed. *)
ConsumedAfter(n) == IF n > OutputBudget - consumed THEN OutputBudget ELSE consumed + n

ReadChunk(n) ==
    /\ reader = "reading"
    /\ consumed' = ConsumedAfter(n)
    /\ exceeded' = (n > OutputBudget - consumed)
    /\ reader' = IF exceeded' THEN "closing" ELSE "reading"
    /\ UNCHANGED <<sawEOF, writer, failures>> /\ NotThreads

ReadEOF ==
    /\ reader = "reading" /\ PipeClosed
    /\ reader' = "closing" /\ sawEOF' = TRUE
    /\ UNCHANGED <<consumed, exceeded, writer, failures>> /\ NotThreads

(* os.read, the decoder or the redactor raises. *)
ReadFails ==
    /\ reader = "reading"
    /\ reader' = "closing" /\ failures' = failures \cup {"reader"}
    /\ UNCHANGED <<consumed, exceeded, sawEOF, writer>> /\ NotThreads

(* The finally block: after end of file the last of the redacted tail, which may
   raise; then close and reader_done. *)
ReaderCloses ==
    /\ reader = "closing" /\ reader' = "done"
    /\ failures' \in {failures} \cup (IF sawEOF THEN {failures \cup {"reader"}} ELSE {})
    /\ UNCHANGED <<consumed, exceeded, sawEOF, writer>> /\ NotThreads

(* The write ends when it is read, or with EPIPE, which is not an error. *)
WriteStdin ==
    /\ writer = "writing" /\ writer' = "done"
    /\ failures' \in {failures, failures \cup {"stdin"}}
    /\ UNCHANGED <<reader, consumed, exceeded, sawEOF>> /\ NotThreads

-----------------------------------------------------------------------------
(* The process group.  Harbor turns SIGTERM into KeyboardInterrupt, stops its
   trial environments and exits; it also exits by itself once they are down. *)

NotGroup == UNCHANGED <<supervisor, stop, threads, elapsed, signals>>

SpawnChild(d, s) ==
    /\ leader = "running" /\ child[d] = "absent"
    /\ child' = [child EXCEPT ![d] = s]
    /\ UNCHANGED <<leader, environments>> /\ NotGroup

StartEnvironments ==
    /\ leader = "running" /\ ~environments /\ environments' = TRUE
    /\ UNCHANGED <<leader, child>> /\ NotGroup

HandleTerm ==
    /\ leader = "running" /\ "TERM" \in sent /\ leader' = "stopping"
    /\ UNCHANGED <<child, environments>> /\ NotGroup

LeaderExits ==
    /\ leader \in {"running", "stopping"}
    /\ leader' = "exited" /\ environments' = FALSE
    /\ UNCHANGED child /\ NotGroup

LeaderDies ==
    /\ leader = "killed" /\ leader' = "exited"
    /\ UNCHANGED <<child, environments>> /\ NotGroup

ChildExits(d) ==
    /\ child[d] \in InGroup \cup Holding
    /\ child' = [child EXCEPT ![d] = "dead"]
    /\ UNCHANGED <<leader, environments>> /\ NotGroup

-----------------------------------------------------------------------------
(* The coordinating thread and the clock. *)

SetEvent(e) ==
    /\ e = "forced" => "requested" \in stop
    /\ e \notin stop /\ stop' = stop \cup {e}
    /\ UNCHANGED <<supervisor, group, threads, elapsed, signals>>

Pass(t) ==
    /\ t = "deadline" => HasDeadline /\ leader # "none"
    /\ t = "grace" => pc = "grace"
    /\ t \notin elapsed /\ elapsed' = elapsed \cup {t}
    /\ UNCHANGED <<supervisor, stop, group, threads, signals>>

Terminated == pc = "done" /\ UNCHANGED vars

Launching == RefuseLaunch \/ PassCheck \/ SpawnFails \/ Spawn \/ StartThreads
Polling   == CheckStop \/ CheckDone \/ CheckCancel \/ CheckDeadline \/ AfterLoop
Stopping  == Terminate \/ TermRefused \/ EndGrace \/ Kill \/ KillRefused \/ Reap \/ ReapExpires
Ending    == Join \/ JoinExpires \/ Verdict \/ Handler \/ HandlerJoin
Supervise == Launching \/ Polling \/ Stopping \/ Ending

Reader == (\E n \in 1..MaxChunk : ReadChunk(n)) \/ ReadEOF \/ ReadFails \/ ReaderCloses

Group ==
    \/ \E d \in Descendants, s \in {"piped", "silent", "detached"} : SpawnChild(d, s)
    \/ \E d \in Descendants : ChildExits(d)
    \/ StartEnvironments \/ HandleTerm \/ LeaderExits

Next ==
    \/ Supervise \/ Reader \/ WriteStdin \/ Group \/ LeaderDies
    \/ \E e \in {"requested", "forced"} : SetEvent(e)
    \/ \E t \in {"deadline", "grace"} : Pass(t)
    \/ Terminated

(* Threads are scheduled, the grace period passes, the kernel delivers SIGKILL and
   the end of file.  The deadline need not come, so that what ends a cancelled call
   is the cancellation; that also covers a call without one.  Nothing is assumed of
   Harbor, which need not write, read or exit, of its descendants or of the user. *)
Fairness ==
    /\ WF_vars(Supervise) /\ WF_vars(ReadEOF) /\ WF_vars(ReaderCloses)
    /\ WF_vars(LeaderDies) /\ WF_vars(Pass("grace"))

Spec == Init /\ [][Next]_vars /\ Fairness

-----------------------------------------------------------------------------
(* When the call is over Harbor is reaped, and no process that shares its output
   is left in its group, whichever way the call ended: the reader saw the end of
   the output or the group was sent SIGKILL, after which nothing of the group is
   left unless it was refused.  Two exceptions: the handler noted that its own
   cleanup failed, or the reader gave up early just before an exception whose handler
   finds Harbor gone (see CancelStopsTheTree, which the code does not satisfy). *)
Contained ==
    pc = "done" /\ ~cleanupFailed =>
        /\ leader \in {"none", "reaped"}
        /\ sawEOF => \A d \in Descendants : child[d] \notin Holding
        /\ "KILL" \in sent => \A d \in Descendants : child[d] \notin InGroup
        /\ outcome \in {"timeout", "exceeded"} => "KILL" \in sent \cup refused

(* The docstring of _run_bounded_harbor_process: a requested cancellation
   "prevents the launch, or stops a running process tree, and then raises". *)
CancelStopsTheTree ==
    outcome = "cancelled" /\ ~cleanupFailed /\ refused = {} =>
        \A d \in Descendants : child[d] \notin InGroup

(* The exit code reported as Harbor's own verdict is Harbor's own: nobody
   signalled the group, and its whole output was read to the end of file. *)
VerdictIsHarbors == outcome = "result" => sent = {} /\ sawEOF /\ ~exceeded

(* An interrupted job leaves its trial environments behind only when a second
   Ctrl+C, or the end of the 30-second grace period, cut its cleanup short, or when
   it could not be told to stop, and then the exception says so. *)
InterruptedJobCleansUp ==
    outcome = "cancelled" /\ environments =>
        \/ "forced" \in stop \/ "grace" \in elapsed
        \/ cleanupFailed /\ "TERM" \in refused

(* An exception of the function that carries no note of a failed cleanup comes after
   Harbor has been reaped, with its output closed or its group sent SIGKILL: no
   caller goes on to its next attempt with a live job behind it.  A cleanup fails
   only where a signal was refused or Harbor outlived SIGKILL. *)
NothingRunsBehindACaller ==
    [][outcome = "none" /\ outcome' \in Errors /\ leader # "none" =>
          \/ leader = "reaped" /\ (reader = "done" \/ "KILL" \in sent \cup refused)
          \/ cleanupFailed /\ (refused # {} \/ "KILL" \in sent)]_vars

(* Ctrl+C ends the call, and so does the deadline, whatever Harbor, its descendants
   and both pipes do. *)
CallEnds == "requested" \in stop \/ "deadline" \in elapsed ~> pc = "done"

(* The call implements the one-job contract that the run composes. *)
Abstract == INSTANCE HarborJob WITH
    job <- IF pc = "done" THEN "ended" ELSE IF leader = "none" THEN "idle" ELSE "running",
    requested <- "requested" \in stop
ImplementsHarborJob == Abstract!Spec
=============================================================================
