------------------------------ MODULE HarborRun ------------------------------
(****************************************************************************)
(* One Tier 3 run (run_harbor_eval and the agent part of                    *)
(* _run_harbor_eval_impl, tier3/harbor/runner.py): the coordinating thread, *)
(* the pool of agent workers, the Harbor jobs of each agent, Ctrl+C, and    *)
(* the progress events of the run.  A job follows HarborJob; the arms of an *)
(* agent run together in one _run_agent_pair.                               *)
(* Ctrl+C is delivered to the coordinating thread between any two of its    *)
(* steps, up to MaxInterrupts times.                                        *)
(****************************************************************************)
EXTENDS Naturals, Sequences, FiniteSets

CONSTANTS
    Agents,         \* the agents of the run
    Arms,           \* the conditions each agent runs (with, without, ...)
    Extra,          \* the privately requested arms among them
    MaxAgents,      \* --max-agents
    NConcurrent,    \* the trial budget of each agent
    MaxInterrupts   \* bound on the number of Ctrl+C

ASSUME PoolAssumption == MaxAgents \in Nat \ {0} /\ MaxInterrupts \in Nat
ASSUME AgentsAssumption == Agents # {} /\ Arms # {} /\ IsFiniteSet(Arms)
ASSUME BudgetAssumption == Extra \subseteq Arms /\ NConcurrent \in Nat \ {0}

VARIABLES
    pc,             \* where the coordinating thread is
    raised,         \* what is propagating in it: "none" | "interrupt" | "failure"
    interrupts,     \* Ctrl+C delivered so far
    futuresBound,   \* the dictionary "futures" has been assigned
    pending,        \* futures the loop still waits for
    batch,          \* futures of the last wait() not yet handled
    unexpected,     \* unexpected_worker_error is set
    failed,         \* agents with an entry in "errors"
    queue,          \* work queue of the executor
    worker,         \* the future of each agent
    result,         \* what its worker returned or raised
    job,            \* the Harbor job of each arm
    started,        \* started_agents, not yet read
    stop,           \* events of _HarborRunCancellation that are set
    shown,          \* last progress event of stage agent:<a>
    terminal,       \* run-finished events sent
    finalized       \* _finalize_harbor_artifacts has run

loop   == <<futuresBound, pending, batch, unexpected, failed>>
pool   == <<queue, worker, result, job, started>>
events == <<shown, terminal>>
vars == <<pc, raised, interrupts, loop, pool, stop, events, finalized>>

Ended == {"ok", "failed", "crashed", "cancelled"}
Stages == {"submit", "emit", "wait", "emitDone", "harvest", "shutdown", "request",
           "joinReport", "join", "poolExit", "workerFailed", "collect", "report",
           "return", "finalize", "terminalize", "over"}

TypeOK ==
    /\ pc \in Stages
    /\ raised \in {"none", "interrupt", "failure"}
    /\ interrupts \in 0..MaxInterrupts
    /\ futuresBound \in BOOLEAN /\ unexpected \in BOOLEAN /\ finalized \in BOOLEAN
    /\ pending \subseteq Agents /\ batch \subseteq Agents /\ failed \subseteq Agents
    /\ queue \in Seq(Agents) /\ started \subseteq Agents
    /\ worker \in [Agents -> {"new", "queued", "running", "ended", "dropped"}]
    /\ result \in [Agents -> {"none", "ok", "errors", "crashed", "cancelled"}]
    /\ job \in [Agents -> [Arms -> Ended \cup {"idle", "admitted", "running"}]]
    /\ stop \subseteq {"requested", "forced"}
    /\ shown \in [Agents -> {"none", "running", "failed", "complete"}]
    /\ terminal \in 0..1

Init ==
    /\ pc = "submit" /\ raised = "none" /\ interrupts = 0
    /\ futuresBound = FALSE /\ pending = {} /\ batch = {}
    /\ unexpected = FALSE /\ failed = {}
    /\ queue = <<>> /\ started = {}
    /\ worker = [a \in Agents |-> "new"] /\ result = [a \in Agents |-> "none"]
    /\ job = [a \in Agents |-> [r \in Arms |-> "idle"]]
    /\ stop = {} /\ finalized = FALSE
    /\ shown = [a \in Agents |-> "none"] /\ terminal = 0

Goto(from, to) == pc = from /\ pc' = to /\ UNCHANGED <<raised, interrupts>>
ShowAll(S, state) == shown' = [a \in Agents |-> IF a \in S THEN state ELSE shown[a]]
Running == {a \in Agents : worker[a] = "running"}

(* _run_agent_pair with the budget n: the arms that may run at once, and the trials
   each may run at once when arm r is the ArmIndex[r]-th. *)
WorkerCount(n) == IF Cardinality(Arms) <= n THEN Cardinality(Arms) ELSE n

ArmIndex == CHOOSE f \in [Arms -> 0..Cardinality(Arms) - 1] : \A q, r \in Arms : f[q] = f[r] => q = r

(* Mutant: index <= extra_slots instead of index < extra_slots. *)
ExtraSlotsInclusive(n) == (n % Cardinality(Arms)) + 1
ExtraSlots(n) == n % Cardinality(Arms)

JobConcurrency(n, r) ==
    IF WorkerCount(n) = Cardinality(Arms)
    THEN (n \div Cardinality(Arms)) + (IF ArmIndex[r] < ExtraSlots(n) THEN 1 ELSE 0)
    ELSE 1

Active(a) == {r \in Arms : job[a][r] \in {"admitted", "running"}}

-----------------------------------------------------------------------------
(* The coordinating thread: submission and the waiting loop. *)

Submit(a) ==
    /\ pc = "submit" /\ worker[a] = "new"
    /\ worker' = [worker EXCEPT ![a] = "queued"]
    /\ queue' = Append(queue, a)
    /\ UNCHANGED <<pc, raised, interrupts, loop, result, job, started, stop, events, finalized>>

BindFutures ==
    /\ \A a \in Agents : worker[a] # "new"
    /\ Goto("submit", "emit")
    /\ futuresBound' = TRUE /\ pending' = Agents
    /\ UNCHANGED <<batch, unexpected, failed, pool, stop, events, finalized>>

(* _emit_started_agents, before and after wait(). *)
EmitStarted(from, to) ==
    /\ Goto(from, to)
    /\ ShowAll(started, "running") /\ started' = {}
    /\ UNCHANGED <<loop, queue, worker, result, job, stop, terminal, finalized>>

Wait ==
    /\ Goto("wait", "emitDone")
    /\ batch' = {a \in pending : worker[a] = "ended"}
    /\ pending' = pending \ batch'
    /\ UNCHANGED <<futuresBound, unexpected, failed, pool, stop, events, finalized>>

(* Mutant: started agents are reported before wait() only. *)
EmitDoneSkipped == Goto("emitDone", "harvest")
                   /\ UNCHANGED <<loop, pool, stop, events, finalized>>
EmitDone == EmitStarted("emitDone", "harvest")

(* Mutant: only a worker that raised counts as failed. *)
StateShownUnlessRaised(a) == IF result[a] = "crashed" THEN "failed" ELSE "complete"
StateShown(a) == IF result[a] = "ok" THEN "complete" ELSE "failed"

Harvest(a) ==
    /\ pc = "harvest" /\ a \in batch
    /\ batch' = batch \ {a}
    /\ unexpected' = (unexpected \/ result[a] = "crashed")
    /\ failed' = IF result[a] = "errors" THEN failed \cup {a} ELSE failed
    /\ shown' = [shown EXCEPT ![a] = StateShown(a)]
    /\ UNCHANGED <<pc, raised, interrupts, futuresBound, pending, pool, stop, terminal, finalized>>

LoopEnds ==
    /\ batch = {}
    /\ Goto("harvest", IF pending = {} THEN "poolExit" ELSE "emit")
    /\ UNCHANGED <<loop, pool, stop, events, finalized>>

-----------------------------------------------------------------------------
(* except BaseException: drop the queue, request the stop, join. *)

(* Mutant: the queue is not cancelled. *)
QueueKept == queue
QueueCancelled == <<>>

Shutdown ==
    /\ Goto("shutdown", "request")
    /\ queue' = QueueCancelled
    /\ worker' = [a \in Agents |-> IF worker[a] = "queued" /\ queue' = <<>> THEN "dropped" ELSE worker[a]]
    /\ UNCHANGED <<loop, result, job, started, stop, events, finalized>>

(* Mutant: the other event is set. *)
ForcedAfterRequest == stop \cup {"forced"}
StopAfterRequest == stop \cup {"requested"}

Request ==
    /\ Goto("request", "joinReport")
    /\ stop' = StopAfterRequest
    /\ UNCHANGED <<loop, pool, events, finalized>>

(* _join_interrupted_agents knows the futures of the dictionary only. *)
JoinReport ==
    /\ Goto("joinReport", "join")
    /\ ShowAll(IF futuresBound THEN Running ELSE {}, "running")
    /\ UNCHANGED <<loop, pool, stop, terminal, finalized>>

Joined == ~futuresBound \/ Running = {}

Join == Joined /\ Goto("join", "poolExit") /\ UNCHANGED <<loop, pool, stop, events, finalized>>

(* Executor.__exit__ waits for every worker.  Mutant: it does not. *)
PoolIdleUnchecked == TRUE
PoolIdle == Running = {} /\ queue = <<>>

PoolExit ==
    /\ PoolIdle
    /\ Goto("poolExit", IF raised # "none" THEN "finalize"
                        ELSE IF unexpected THEN "workerFailed" ELSE "collect")
    /\ UNCHANGED <<loop, pool, stop, events, finalized>>

-----------------------------------------------------------------------------
(* After the pool: failure of a worker, collection, reports and the wrapper. *)

(* _RunProgressLifecycle.emit drops a second run-finished. *)
(* A step that emits run-finished and raises. *)
FailRun(from) ==
    /\ pc = from /\ pc' = "finalize" /\ raised' = "failure"
    /\ terminal' = 1
    /\ UNCHANGED <<interrupts, loop, pool, stop, shown, finalized>>

WorkerFailed == FailRun("workerFailed")

Collect ==
    \/ FailRun("collect")
    \/ Goto("collect", "report") /\ UNCHANGED <<loop, pool, stop, events, finalized>>

(* Artifacts are finalized before the reports are written. *)
Report ==
    \/ FailRun("report")
    \/ /\ Goto("report", "return") /\ finalized' = TRUE
       /\ UNCHANGED <<loop, pool, stop, events>>

(* finish_result, then close in the finally block. *)
ReturnResult ==
    /\ Goto("return", "over") /\ terminal' = 1
    /\ UNCHANGED <<loop, pool, stop, shown, finalized>>

(* run_harbor_eval's except BaseException; finalization may raise in turn. *)
Finalize ==
    /\ \/ Goto("finalize", "terminalize") /\ finalized' = TRUE
       \/ Goto("finalize", "over") /\ UNCHANGED finalized
    /\ UNCHANGED <<loop, pool, stop, events>>

(* fail_unfinished *)
OpenStages == {a \in Agents : shown[a] = "running"}

Terminalize ==
    /\ Goto("terminalize", "over")
    /\ ShowAll(OpenStages, "failed")
    /\ terminal' = 1
    /\ UNCHANGED <<loop, pool, stop, finalized>>

-----------------------------------------------------------------------------
(* Where a KeyboardInterrupt takes the coordinating thread.  Inside the except
   block it leaves the block; in Executor.__exit__ it leaves the pool. *)
InterruptLeaves ==
    \/ pc \in {"submit", "emit", "wait", "emitDone", "harvest"} /\ pc' = "shutdown"
    \/ pc \in {"shutdown", "request"} /\ pc' = "poolExit"
    \/ pc \in {"joinReport", "join"} /\ pc' = IF "forced" \in stop THEN "poolExit" ELSE "join"
    \/ pc \in {"poolExit", "workerFailed", "collect", "report", "return"} /\ pc' = "finalize"
    \/ pc \in {"finalize", "terminalize"} /\ pc' = "over"

Interrupt ==
    /\ interrupts < MaxInterrupts
    /\ interrupts' = interrupts + 1
    /\ raised' = "interrupt"
    /\ InterruptLeaves
    /\ stop' = IF pc \in {"joinReport", "join"} THEN stop \cup {"forced"} ELSE stop
    /\ UNCHANGED <<loop, pool, events, finalized>>

-----------------------------------------------------------------------------
(* The agent workers and the jobs of their arms. *)

NotPool == UNCHANGED <<pc, raised, interrupts, loop, stop, events, finalized>>

StartAgent ==
    /\ queue # <<>>
    /\ Cardinality(Running) < MaxAgents
    /\ worker' = [worker EXCEPT ![Head(queue)] = "running"]
    /\ started' = started \cup {Head(queue)}
    /\ queue' = Tail(queue)
    /\ UNCHANGED <<result, job>> /\ NotPool

SetJob(a, r, state) ==
    /\ job' = [job EXCEPT ![a] = [@ EXCEPT ![r] = state]]
    /\ UNCHANGED <<queue, worker, result, started>> /\ NotPool

(* raise_if_requested.  Mutant: a job looks at the coordinating thread instead of the
   event. *)
CancelledOnInterrupt == raised = "interrupt"
Cancelled == "requested" \in stop

(* _run_harbor: checked before the credential refresh ... *)
Admit(a, r) ==
    /\ worker[a] = "running" /\ job[a][r] = "idle"
    /\ Cardinality(Active(a)) < WorkerCount(NConcurrent)
    /\ SetJob(a, r, IF Cancelled THEN "cancelled" ELSE "admitted")

(* ... and again before the launch; anything before it may fail. *)
Launch(a, r) ==
    /\ job[a][r] = "admitted"
    /\ \/ Cancelled /\ SetJob(a, r, "cancelled")
       \/ ~Cancelled /\ SetJob(a, r, "running")
       \/ \E s \in {"failed", "crashed"} : SetJob(a, r, s)

EndJob(a, r) ==
    /\ job[a][r] = "running"
    /\ \E s \in {"ok", "failed", "crashed"} : SetJob(a, r, s)

CancelJob(a, r) ==
    /\ job[a][r] = "running" /\ Cancelled
    /\ SetJob(a, r, "cancelled")

(* record_failure: an extra arm that fails or raises an Exception (a cancellation
   is none) never gates its agent.  Mutant: its failure does. *)
GatingArms == Arms
MainArms == Arms \ Extra

(* The pool of arms has exited: the first exception seen wins over errors. *)
EndAgent(a) ==
    /\ worker[a] = "running" /\ \A r \in Arms : job[a][r] \in Ended
    /\ worker' = [worker EXCEPT ![a] = "ended"]
    /\ \E s \in {"ok", "errors", "crashed", "cancelled"} :
         /\ s = "crashed" => \E r \in MainArms : job[a][r] = "crashed"
         /\ s = "cancelled" => \E r \in Arms : job[a][r] = "cancelled"
         /\ s \in {"ok", "errors"} =>
              /\ \A r \in Arms : job[a][r] # "cancelled"
              /\ \A r \in MainArms : job[a][r] # "crashed"
              /\ s = "ok" <=> \A r \in MainArms : job[a][r] = "ok"
         /\ result' = [result EXCEPT ![a] = s]
    /\ UNCHANGED <<queue, job, started>> /\ NotPool

Finished == pc = "over" /\ Running = {} /\ queue = <<>> /\ UNCHANGED vars

Coordinate ==
    \/ (\E a \in Agents : Submit(a) \/ Harvest(a))
    \/ BindFutures \/ EmitStarted("emit", "wait") \/ Wait \/ EmitDone \/ LoopEnds
    \/ Shutdown \/ Request \/ JoinReport \/ Join \/ PoolExit
    \/ WorkerFailed \/ Collect \/ Report \/ ReturnResult \/ Finalize \/ Terminalize

Arm(a, r) == Admit(a, r) \/ Launch(a, r) \/ CancelJob(a, r)

Next ==
    \/ Coordinate \/ Interrupt \/ StartAgent
    \/ \E a \in Agents : EndAgent(a) \/ \E r \in Arms : Arm(a, r) \/ EndJob(a, r)
    \/ Finished

(* Threads are scheduled and a cancelled job ends (HarborProcess!CallEnds);
   a job that nobody cancels need not end. *)
Fairness ==
    /\ WF_vars(Coordinate) /\ WF_vars(StartAgent)
    /\ \A a \in Agents : WF_vars(EndAgent(a)) /\ \A r \in Arms : WF_vars(Arm(a, r))

Spec == Init /\ [][Next]_vars /\ Fairness

-----------------------------------------------------------------------------
(* "Cancel the queue first so a worker that stops never picks up another agent":
   no agent starts once the stop has been requested. *)
NoAgentStartsAfterRequest ==
    [][\A a \in Agents : worker[a] = "queued" /\ worker'[a] = "running"
           => "requested" \notin stop]_vars

(* Artifact directories are finalized (removed) only when no Harbor job writes
   there any more, unless a further Ctrl+C left the pool before its workers. *)
ArtifactsQuiet ==
    finalized /\ interrupts < 2 =>
        \A a \in Agents : worker[a] # "running" /\ \A r \in Arms : job[a][r] # "running"

(* Results are collected for runs in which every agent has been harvested: each
   arm ran to its end, none was cancelled, and an agent is without an error entry
   exactly when all its ordinary arms succeeded and it is shown complete. *)
CollectsWholeRun ==
    pc \in {"collect", "report", "return"} /\ raised = "none" =>
        \A a \in Agents :
            /\ \A r \in Arms : job[a][r] \in {"ok", "failed"} \/ (r \in Extra /\ job[a][r] = "crashed")
            /\ a \notin failed <=> \A r \in Arms \ Extra : job[a][r] = "ok"
            /\ a \notin failed <=> shown[a] = "complete"

(* The trials that the arms S may run at once, with a budget n. *)
Trials(n, S) == UNION {{r} \X (1..JobConcurrency(n, r)) : r \in S}

(* A budget is divided so that every arm has a part of it. *)
FairShare(n) ==
    /\ \A r \in Arms : JobConcurrency(n, r) > 0
    /\ \A S \in SUBSET Arms : Cardinality(S) <= WorkerCount(n) => Cardinality(Trials(n, S)) <= n

(* "The advertised concurrency is one per-agent trial budget" (a comment of
   _run_agent_pair): the arms that run at once never have more trials than it,
   each has one at least, and the run keeps to max_agents such budgets; so for
   every budget, also one with fewer trials than there are arms. *)
BudgetKept ==
    /\ \A a \in Agents : Cardinality(Trials(NConcurrent, Active(a))) <= NConcurrent
    /\ Cardinality(UNION {{a} \X Trials(NConcurrent, Active(a)) : a \in Agents}) <= MaxAgents * NConcurrent
    /\ \A n \in 1..2 * Cardinality(Arms) + 1 : FairShare(n)

(* The progress of an agent starts with "running" and ends at most once, however
   the started queue, the futures and Ctrl+C interleave. *)
ProgressInOrder ==
    [][\A a \in Agents : shown'[a] # shown[a] =>
           \/ shown[a] = "none" /\ shown'[a] = "running"
           \/ shown[a] = "running" /\ shown'[a] \in {"failed", "complete"}]_vars

(* After its terminal event a run reports no open agent stage. *)
NothingOpenAtTheEnd ==
    pc = "over" /\ terminal = 1 => \A a \in Agents : shown[a] # "running"

(* What the run assumes of the job of an arm is what _run_bounded_harbor_process
   promises (HarborProcess!ImplementsHarborJob): it is launched at most once, ends
   once, and is cancelled only on request. *)
JobOf(a, r) == CASE job[a][r] \in {"idle", "admitted"} -> "idle"
                 [] job[a][r] = "running" -> "running"
                 [] OTHER -> "ended"
OutcomeOf(a, r) == CASE job[a][r] = "ok" -> "result"
                     [] job[a][r] \in {"failed", "crashed"} -> "error"
                     [] job[a][r] = "cancelled" -> "cancelled"
                     [] OTHER -> "none"
ArmJob(a, r) == INSTANCE HarborJob WITH
    HasDeadline <- TRUE, requested <- "requested" \in stop,
    job <- JobOf(a, r), outcome <- OutcomeOf(a, r)
ImplementsHarborJobs ==
    /\ \A a \in Agents, r \in Arms : ArmJob(a, r)!Init
    /\ [][\A a \in Agents, r \in Arms : [ArmJob(a, r)!Next]_(ArmJob(a, r)!vars)]_vars

(* The agents run in a pool: none is cancelled once it runs, and none runs again. *)
Future == [a \in Agents |-> CASE worker[a] = "ended" -> "done"
                              [] worker[a] = "dropped" -> "cancelled"
                              [] OTHER -> worker[a]]
Pool == INSTANCE Executor WITH Tasks <- Agents, Size <- MaxAgents, future <- Future
ImplementsExecutor == Pool!Spec

(* One Ctrl+C ends the run, even if its jobs would never end by themselves; a
   second one may keep the first from stopping them (SecondInterruptForces). *)
InterruptEndsRun == interrupts = 1 ~> pc = "over" \/ interrupts > 1

(* docs/tier3-live-evaluation.mdx: "a second Ctrl+C skips the wait". *)
SecondInterruptForces ==
    pc \in {"join", "poolExit", "finalize"} /\ interrupts >= 2 /\ Running # {} => "forced" \in stop

(* The docstring of _RunProgressLifecycle: it tracks stages "and guarantee[s] one
   terminal run event". *)
OneTerminalEvent == pc = "over" => terminal = 1
=============================================================================
