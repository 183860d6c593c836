--------------------------- MODULE HarborRun_proofs ---------------------------
(****************************************************************************)
(* Proofs about HarborRun, for every set of agents and arms, every pool     *)
(* size and trial budget, and any number of Ctrl+C.                         *)
(****************************************************************************)
EXTENDS HarborRun, Integers, FiniteSetTheorems, TLAPS

LoopStages == {"submit", "emit", "wait", "emitDone", "harvest"}
BeforeJoin == LoopStages \cup {"shutdown", "request", "joinReport"}
AfterPool == {"workerFailed", "collect", "report", "return"}

(* Where the coordinating thread can be, with what is propagating in it. *)
PhaseInv ==
    /\ pc \in LoopStages \cup AfterPool => raised = "none"
    /\ pc \in {"shutdown", "request", "joinReport", "join"} => raised = "interrupt"
    /\ raised = "failure" => pc \in {"finalize", "terminalize", "over"}
    /\ interrupts = 0 <=> raised # "interrupt"
    /\ raised # "interrupt" => stop = {}
    /\ pc \in {"submit", "emit", "wait"} => batch = {}
    /\ pc = "submit" <=> pc \in LoopStages /\ ~futuresBound
    /\ raised = "none" /\ pc \notin LoopStages => futuresBound /\ pending = {} /\ batch = {}
    /\ pc \in {"collect", "report", "return"} => ~unexpected
    /\ finalized => pc \in {"return", "finalize", "terminalize", "over"}

(* The queue holds each agent once, and nobody after the stop was requested. *)
QueueInv ==
    /\ \A i \in DOMAIN queue : worker[queue[i]] = "queued"
    /\ \A i, j \in DOMAIN queue : queue[i] = queue[j] => i = j
    /\ "requested" \in stop \/ pc = "request" => queue = <<>>

(* What the end of a worker says of the jobs of its arms. *)
JobInv ==
    \A a \in Agents :
        /\ worker[a] # "running" => \A r \in Arms : job[a][r] \in Ended \cup {"idle"}
        /\ worker[a] = "ended" => \A r \in Arms : job[a][r] \in Ended
        /\ worker[a] = "ended" <=> result[a] # "none"
        /\ result[a] \in {"ok", "errors"} => /\ \A r \in Arms : job[a][r] # "cancelled"
                                             /\ \A r \in MainArms : job[a][r] # "crashed"
        /\ result[a] = "ok" => \A r \in MainArms : job[a][r] = "ok"
        /\ result[a] = "errors" => \E r \in MainArms : job[a][r] # "ok"
        /\ result[a] = "cancelled" => \E r \in Arms : job[a][r] = "cancelled"
        /\ "requested" \notin stop => \A r \in Arms : job[a][r] # "cancelled"

Harvested(a) == futuresBound /\ a \notin pending /\ a \notin batch

(* While nothing propagates: what has been told of each agent. *)
ToldInv ==
    raised = "none" => \A a \in Agents :
        /\ Harvested(a) => /\ worker[a] = "ended" /\ a \notin started
                           /\ shown[a] = (IF result[a] = "ok" THEN "complete" ELSE "failed")
                           /\ a \in failed <=> result[a] = "errors"
                           /\ result[a] = "crashed" => unexpected
        /\ ~Harvested(a) => a \notin failed
        /\ a \in batch => worker[a] = "ended" /\ a \notin pending
        /\ a \in batch /\ pc = "harvest" => a \notin started

(* The progress of the agents whose end has not been told. *)
ShownInv ==
    \A a \in Agents :
        /\ a \in started => worker[a] \in {"running", "ended"}
        /\ pc \in LoopStages /\ a \in started => shown[a] = "none"
        /\ pc \in LoopStages /\ worker[a] \in {"running", "ended"} /\ a \notin started => shown[a] # "none"
        /\ pc \in BeforeJoin /\ worker[a] \in {"new", "queued"} => shown[a] = "none"
        /\ pc \in LoopStages /\ ~Harvested(a) => shown[a] \in {"none", "running"}
        /\ pc \in BeforeJoin /\ worker[a] = "running" => shown[a] \in {"none", "running"}
        /\ terminal = 1 => shown[a] # "running"

EndInv ==
    /\ terminal = 1 => pc \in {"finalize", "terminalize", "over"}
    /\ pc \in {"finalize", "terminalize", "over"} /\ interrupts < 2 => Running = {} /\ queue = <<>>

IInv == TypeOK /\ PhaseInv /\ QueueInv /\ JobInv /\ ToldInv /\ ShownInv /\ EndInv

-----------------------------------------------------------------------------
LEMMA InitInv == Init => IInv
<1> SUFFICES ASSUME Init PROVE IInv
  OBVIOUS
<1>1. TypeOK
  <2>1. interrupts \in 0..MaxInterrupts /\ terminal \in 0..1 /\ queue \in Seq(Agents)
    BY PoolAssumption DEF Init
  <2> QED
    BY <2>1 DEF Init, TypeOK, Stages, Ended
<1>2. PhaseInv /\ QueueInv
  BY DEF Init, PhaseInv, QueueInv, LoopStages, AfterPool
<1>3. JobInv
  BY DEF Init, JobInv, Ended
<1>4. ToldInv /\ ShownInv /\ EndInv
  BY DEF Init, ToldInv, ShownInv, EndInv, Harvested, LoopStages, BeforeJoin
<1> QED
  BY <1>1, <1>2, <1>3, <1>4 DEF IInv

LEMMA SetJobFacts ==
    ASSUME TypeOK, NEW a \in Agents, NEW r \in Arms,
           NEW state \in Ended \cup {"idle", "admitted", "running"}, SetJob(a, r, state)
    PROVE  /\ job' \in [Agents -> [Arms -> Ended \cup {"idle", "admitted", "running"}]]
           /\ \A b \in Agents : b # a => job'[b] = job[b]
           /\ \A q \in Arms : q # r => job'[a][q] = job[a][q]
           /\ job'[a][r] = state
           /\ UNCHANGED <<queue, worker, result, started>> /\ NotPool
BY DEF TypeOK, SetJob

(* The steps of the jobs, as one. *)
LEMMA JobSteps ==
    ASSUME TypeOK, NEW a \in Agents, NEW r \in Arms, Arm(a, r) \/ EndJob(a, r)
    PROVE  \E state \in Ended \cup {"admitted", "running"} :
              /\ SetJob(a, r, state)
              /\ state = "cancelled" => "requested" \in stop
              /\ \/ /\ job[a][r] = "idle" /\ worker[a] = "running" /\ state \in {"admitted", "cancelled"}
                    /\ Cardinality(Active(a)) < WorkerCount(NConcurrent)
                 \/ job[a][r] = "admitted" /\ state \in {"running", "failed", "crashed", "cancelled"}
                 \/ job[a][r] = "running" /\ state \in Ended
<1>1. CASE Admit(a, r)
  BY <1>1 DEF Admit, Cancelled, Ended
<1>2. CASE Launch(a, r)
  BY <1>2 DEF Launch, Cancelled, Ended
<1>3. CASE CancelJob(a, r)
  BY <1>3 DEF CancelJob, Cancelled, Ended
<1>4. CASE EndJob(a, r)
  BY <1>4 DEF EndJob, Ended
<1> QED
  BY <1>1, <1>2, <1>3, <1>4 DEF Arm

(* The steps after the pool that fail, and those that do not. *)
Failing == \E from \in {"workerFailed", "collect", "report"} : FailRun(from)
Collected == Goto("collect", "report") /\ UNCHANGED <<loop, pool, stop, events, finalized>>
Reported == Goto("report", "return") /\ finalized' = TRUE /\ UNCHANGED <<loop, pool, stop, events>>

LEMMA AfterPoolSteps == WorkerFailed \/ Collect \/ Report => Failing \/ Collected \/ Reported
BY Zenon DEF WorkerFailed, Collect, Report, Failing, Collected, Reported

LEMMA TypeStep == TypeOK /\ [Next]_vars => TypeOK'
<1> SUFFICES ASSUME TypeOK, [Next]_vars PROVE TypeOK'
  OBVIOUS
<1> USE DEF Goto, ShowAll, loop, pool, events, Stages
<1>1. CASE \E a \in Agents : Submit(a) \/ Harvest(a)
  <2>1. ASSUME NEW a \in Agents, Submit(a) PROVE TypeOK'
    <3>1. queue' \in Seq(Agents) /\ worker' \in [Agents -> {"new", "queued", "running", "ended", "dropped"}]
      BY <2>1 DEF Submit, TypeOK
    <3> QED BY <2>1, <3>1 DEF Submit, TypeOK
  <2>2. ASSUME NEW a \in Agents, Harvest(a) PROVE TypeOK'
    BY <2>2 DEF Harvest, StateShown, TypeOK
  <2> QED BY <1>1, <2>1, <2>2
<1>2. CASE BindFutures    BY <1>2 DEF BindFutures, TypeOK
<1>3. CASE EmitStarted("emit", "wait") \/ EmitDone
  BY <1>3 DEF EmitStarted, EmitDone, TypeOK
<1>4. CASE Wait           BY <1>4 DEF Wait, TypeOK
<1>5. CASE LoopEnds       BY <1>5 DEF LoopEnds, TypeOK
<1>6. CASE Shutdown       BY <1>6 DEF Shutdown, QueueCancelled, TypeOK
<1>7. CASE Request        BY <1>7 DEF Request, StopAfterRequest, TypeOK
<1>8. CASE JoinReport     BY <1>8 DEF JoinReport, TypeOK
<1>9. CASE Join           BY <1>9 DEF Join, TypeOK
<1>10. CASE PoolExit      BY <1>10 DEF PoolExit, TypeOK
<1>11. CASE Failing       BY <1>11 DEF Failing, FailRun, TypeOK
<1>12. CASE Collected     BY <1>12 DEF Collected, TypeOK
<1>13. CASE Reported      BY <1>13 DEF Reported, TypeOK
<1>14. CASE ReturnResult  BY <1>14 DEF ReturnResult, TypeOK
<1>15. CASE Finalize      BY <1>15 DEF Finalize, TypeOK
<1>16. CASE Terminalize   BY <1>16 DEF Terminalize, TypeOK
<1>17. CASE Interrupt
  <2>1. interrupts' \in 0..MaxInterrupts
    BY <1>17, PoolAssumption DEF Interrupt, TypeOK
  <2>2. pc' \in Stages /\ stop' \subseteq {"requested", "forced"}
    BY <1>17 DEF Interrupt, InterruptLeaves, TypeOK
  <2> QED BY <1>17, <2>1, <2>2 DEF Interrupt, TypeOK
<1>18. CASE StartAgent
  <2>1. queue # <<>> /\ Head(queue) \in Agents /\ queue' \in Seq(Agents)
    BY <1>18 DEF StartAgent, TypeOK
  <2> QED BY <1>18, <2>1 DEF StartAgent, NotPool, TypeOK
<1>19. ASSUME NEW a \in Agents, EndAgent(a) PROVE TypeOK'
  BY <1>19 DEF EndAgent, NotPool, TypeOK
<1>20. ASSUME NEW a \in Agents, NEW r \in Arms, Arm(a, r) \/ EndJob(a, r) PROVE TypeOK'
  <2>1. PICK state \in Ended \cup {"admitted", "running"} : SetJob(a, r, state)
    BY <1>20, JobSteps
  <2>2. job' \in [Agents -> [Arms -> Ended \cup {"idle", "admitted", "running"}]]
    BY <2>1, SetJobFacts
  <2> QED BY <2>1, <2>2 DEF SetJob, NotPool, TypeOK
<1>21. CASE Finished \/ UNCHANGED vars BY <1>21 DEF Finished, vars, TypeOK
<1> QED
  BY <1>1, <1>2, <1>3, <1>4, <1>5, <1>6, <1>7, <1>8, <1>9, <1>10, <1>11, <1>12, <1>13,
     <1>14, <1>15, <1>16, <1>17, <1>18, <1>19, <1>20, <1>21, AfterPoolSteps DEF Next, Coordinate
-----------------------------------------------------------------------------
(* Every step keeps the part about where the coordinating thread is, ... *)
LEMMA PhaseStep ==
    ASSUME TypeOK, PhaseInv, [Next]_vars
    PROVE  PhaseInv'
<1> USE DEF PhaseInv, TypeOK, Goto, LoopStages, AfterPool, loop, pool, events
<1>1. ASSUME NEW a \in Agents, Submit(a) PROVE PhaseInv'
  BY <1>1 DEF Submit
<1>2. ASSUME NEW a \in Agents, Harvest(a) PROVE PhaseInv'
  BY <1>2 DEF Harvest
<1>3. CASE BindFutures    BY <1>3 DEF BindFutures
<1>4. CASE EmitStarted("emit", "wait")
  BY <1>4 DEF EmitStarted
<1>5. CASE EmitDone       BY <1>5 DEF EmitDone, EmitStarted
<1>6. CASE Wait           BY <1>6 DEF Wait
<1>7. CASE LoopEnds       BY <1>7 DEF LoopEnds
<1>8. CASE Shutdown       BY <1>8 DEF Shutdown, QueueCancelled
<1>9. CASE Request        BY <1>9 DEF Request, StopAfterRequest
<1>10. CASE JoinReport    BY <1>10 DEF JoinReport
<1>11. CASE Join          BY <1>11 DEF Join
<1>12. CASE PoolExit      BY <1>12 DEF PoolExit
<1>13. CASE Failing       BY <1>13 DEF Failing, FailRun
<1>14. CASE Collected     BY <1>14 DEF Collected
<1>15. CASE Reported      BY <1>15 DEF Reported
<1>16. CASE ReturnResult  BY <1>16 DEF ReturnResult
<1>17. CASE Finalize      BY <1>17 DEF Finalize
<1>18. CASE Terminalize   BY <1>18 DEF Terminalize
<1>19. CASE Interrupt     BY <1>19 DEF Interrupt, InterruptLeaves
<1>20. CASE StartAgent    BY <1>20 DEF StartAgent, NotPool
<1>21. ASSUME NEW a \in Agents, EndAgent(a) PROVE PhaseInv'
  BY <1>21 DEF EndAgent, NotPool
<1>22. ASSUME NEW a \in Agents, NEW r \in Arms, Arm(a, r) \/ EndJob(a, r) PROVE PhaseInv'
  <2>1. PICK state \in Ended \cup {"admitted", "running"} : SetJob(a, r, state)
    BY <1>22, JobSteps
  <2> QED BY <2>1 DEF SetJob, NotPool
<1>23. CASE Finished \/ UNCHANGED vars
  <2>1. UNCHANGED vars
    BY <1>23 DEF Finished
  <2> QED BY <2>1 DEF vars
<1> QED
  BY <1>1, <1>2, <1>3, <1>4, <1>5, <1>6, <1>7, <1>8, <1>9, <1>10, <1>11, <1>12, <1>13,
     <1>14, <1>15, <1>16, <1>17, <1>18, <1>19, <1>20, <1>21, <1>22, <1>23, AfterPoolSteps
     DEF Next, Coordinate

(* ... the part about the queue, ... *)
LEMMA QueueStep ==
    ASSUME TypeOK, PhaseInv, QueueInv, [Next]_vars
    PROVE  QueueInv'
<1> USE DEF QueueInv, PhaseInv, LoopStages, TypeOK, Goto, loop, pool, events
<1>1. ASSUME NEW a \in Agents, Submit(a) PROVE QueueInv'
  <2>1. /\ pc = "submit" /\ worker[a] = "new" /\ queue' = Append(queue, a)
        /\ worker' = [worker EXCEPT ![a] = "queued"] /\ UNCHANGED <<pc, stop>>
    BY <1>1 DEF Submit
  <2>2. "requested" \notin stop'
    BY <2>1
  <2> QED BY <2>1, <2>2
<1>2. ASSUME NEW a \in Agents, Harvest(a) PROVE QueueInv'
  BY <1>2 DEF Harvest
<1>3. CASE BindFutures    BY <1>3 DEF BindFutures
<1>4. CASE EmitStarted("emit", "wait")
  BY <1>4 DEF EmitStarted
<1>5. CASE EmitDone       BY <1>5 DEF EmitDone, EmitStarted
<1>6. CASE Wait           BY <1>6 DEF Wait
<1>7. CASE LoopEnds       BY <1>7 DEF LoopEnds
<1>8. CASE Shutdown       BY <1>8 DEF Shutdown, QueueCancelled
<1>9. CASE Request        BY <1>9 DEF Request, StopAfterRequest
<1>10. CASE JoinReport    BY <1>10 DEF JoinReport
<1>11. CASE Join          BY <1>11 DEF Join
<1>12. CASE PoolExit      BY <1>12 DEF PoolExit
<1>13. CASE Failing       BY <1>13 DEF Failing, FailRun
<1>14. CASE Collected     BY <1>14 DEF Collected
<1>15. CASE Reported      BY <1>15 DEF Reported
<1>16. CASE ReturnResult  BY <1>16 DEF ReturnResult
<1>17. CASE Finalize      BY <1>17 DEF Finalize
<1>18. CASE Terminalize   BY <1>18 DEF Terminalize
<1>19. CASE Interrupt     BY <1>19 DEF Interrupt, InterruptLeaves
<1>20. CASE StartAgent
  <2>1. /\ queue # <<>> /\ queue' = Tail(queue) /\ worker' = [worker EXCEPT ![Head(queue)] = "running"]
        /\ UNCHANGED <<pc, stop>>
    BY <1>20 DEF StartAgent, NotPool
  <2>2. /\ Head(queue) = queue[1] /\ 1 \in DOMAIN queue
        /\ \A i \in DOMAIN queue' : i + 1 \in DOMAIN queue /\ queue'[i] = queue[i + 1] /\ i + 1 # 1
    BY <2>1
  <2>3. \A i \in DOMAIN queue' : queue'[i] # Head(queue) /\ queue'[i] \in Agents
    BY <2>2
  <2>4. \A i, j \in DOMAIN queue' : queue'[i] = queue'[j] => i = j
    <3> SUFFICES ASSUME NEW i \in DOMAIN queue', NEW j \in DOMAIN queue', queue'[i] = queue'[j]
                 PROVE  i = j
      OBVIOUS
    <3>1. i + 1 = j + 1 /\ i \in Nat /\ j \in Nat
      BY <2>1, <2>2
    <3> QED BY <3>1
  <2> QED BY <2>1, <2>2, <2>3, <2>4
<1>21. ASSUME NEW a \in Agents, EndAgent(a) PROVE QueueInv'
  BY <1>21 DEF EndAgent, NotPool
<1>22. ASSUME NEW a \in Agents, NEW r \in Arms, Arm(a, r) \/ EndJob(a, r) PROVE QueueInv'
  <2>1. PICK state \in Ended \cup {"admitted", "running"} : SetJob(a, r, state)
    BY <1>22, JobSteps
  <2> QED BY <2>1 DEF SetJob, NotPool
<1>23. CASE Finished \/ UNCHANGED vars
  <2>1. UNCHANGED vars
    BY <1>23 DEF Finished
  <2> QED BY <2>1 DEF vars
<1> QED
  BY <1>1, <1>2, <1>3, <1>4, <1>5, <1>6, <1>7, <1>8, <1>9, <1>10, <1>11, <1>12, <1>13,
     <1>14, <1>15, <1>16, <1>17, <1>18, <1>19, <1>20, <1>21, <1>22, <1>23, AfterPoolSteps
     DEF Next, Coordinate

(* ... about the jobs of an agent, ... *)
LEMMA JobStep ==
    ASSUME TypeOK, PhaseInv, QueueInv, JobInv, [Next]_vars
    PROVE  JobInv'
<1> USE DEF JobInv, PhaseInv, QueueInv, LoopStages, TypeOK, Goto, loop, pool, events
<1>1. ASSUME NEW a \in Agents, Submit(a) PROVE JobInv'
  BY <1>1 DEF Submit
<1>2. ASSUME NEW a \in Agents, Harvest(a) PROVE JobInv'
  BY <1>2 DEF Harvest
<1>3. CASE BindFutures    BY <1>3 DEF BindFutures
<1>4. CASE EmitStarted("emit", "wait")
  BY <1>4 DEF EmitStarted
<1>5. CASE EmitDone       BY <1>5 DEF EmitDone, EmitStarted
<1>6. CASE Wait           BY <1>6 DEF Wait
<1>7. CASE LoopEnds       BY <1>7 DEF LoopEnds
<1>8. CASE Shutdown       BY <1>8 DEF Shutdown, QueueCancelled
<1>9. CASE Request        BY <1>9 DEF Request, StopAfterRequest
<1>10. CASE JoinReport    BY <1>10 DEF JoinReport
<1>11. CASE Join          BY <1>11 DEF Join
<1>12. CASE PoolExit      BY <1>12 DEF PoolExit
<1>13. CASE Failing       BY <1>13 DEF Failing, FailRun
<1>14. CASE Collected     BY <1>14 DEF Collected
<1>15. CASE Reported      BY <1>15 DEF Reported
<1>16. CASE ReturnResult  BY <1>16 DEF ReturnResult
<1>17. CASE Finalize      BY <1>17 DEF Finalize
<1>18. CASE Terminalize   BY <1>18 DEF Terminalize
<1>19. CASE Interrupt     BY <1>19 DEF Interrupt, InterruptLeaves
<1>20. CASE StartAgent
  <2>1. /\ queue # <<>> /\ queue[1] \in Agents /\ worker[queue[1]] = "queued"
        /\ worker' = [worker EXCEPT ![queue[1]] = "running"]
        /\ UNCHANGED <<result, job, stop>>
    BY <1>20 DEF StartAgent, NotPool
  <2> QED BY <2>1
<1>21. ASSUME NEW a \in Agents, EndAgent(a) PROVE JobInv'
  <2>1. PICK s \in {"ok", "errors", "crashed", "cancelled"} :
         /\ s = "cancelled" => \E r \in Arms : job[a][r] = "cancelled"
         /\ s \in {"ok", "errors"} =>
              /\ \A r \in Arms : job[a][r] # "cancelled"
              /\ \A r \in MainArms : job[a][r] # "crashed"
              /\ s = "ok" <=> \A r \in MainArms : job[a][r] = "ok"
         /\ result' = [result EXCEPT ![a] = s]
    BY <1>21 DEF EndAgent
  <2>2. /\ worker' = [worker EXCEPT ![a] = "ended"] /\ UNCHANGED <<job, stop>>
        /\ \A r \in Arms : job[a][r] \in Ended
    BY <1>21 DEF EndAgent, NotPool
  <2>3. ASSUME NEW b \in Agents, b # a
        PROVE  worker'[b] = worker[b] /\ result'[b] = result[b] /\ job'[b] = job[b]
    BY <2>1, <2>2, <2>3
  <2>4. worker'[a] = "ended" /\ result'[a] = s /\ job'[a] = job[a]
    BY <2>1, <2>2
  <2> QED BY <2>1, <2>2, <2>3, <2>4
<1>22. ASSUME NEW a \in Agents, NEW r \in Arms, Arm(a, r) \/ EndJob(a, r) PROVE JobInv'
  <2>1. PICK state \in Ended \cup {"admitted", "running"} :
           /\ SetJob(a, r, state)
           /\ state = "cancelled" => "requested" \in stop
           /\ \/ job[a][r] = "idle" /\ worker[a] = "running"
              \/ job[a][r] \in {"admitted", "running"}
    BY <1>22, JobSteps
  <2>2. worker[a] = "running" /\ result[a] = "none"
    BY <2>1 DEF Ended
  <2>3. /\ \A b \in Agents : b # a => job'[b] = job[b]
        /\ \A q \in Arms : q # r => job'[a][q] = job[a][q]
        /\ job'[a][r] = state
        /\ UNCHANGED <<worker, result, stop>>
    BY <2>1, SetJobFacts DEF NotPool
  <2>4. UNCHANGED <<worker, result, stop>> /\ job'[a][r] \in Ended \cup {"admitted", "running"}
    BY <2>1, <2>3
  <2>5. ASSUME NEW b \in Agents, b # a PROVE job'[b] = job[b]
    BY <2>3, <2>5
  <2>6. \A q \in Arms : job'[a][q] = "cancelled" => "requested" \in stop
    BY <2>1, <2>3
  <2> QED BY <2>2, <2>4, <2>5, <2>6
<1>23. CASE Finished \/ UNCHANGED vars
  <2>1. UNCHANGED vars
    BY <1>23 DEF Finished
  <2> QED BY <2>1 DEF vars
<1> QED
  BY <1>1, <1>2, <1>3, <1>4, <1>5, <1>6, <1>7, <1>8, <1>9, <1>10, <1>11, <1>12, <1>13,
     <1>14, <1>15, <1>16, <1>17, <1>18, <1>19, <1>20, <1>21, <1>22, <1>23, AfterPoolSteps
     DEF Next, Coordinate

(* ... about what has been told of the agents, ... *)
LEMMA ToldStep ==
    ASSUME TypeOK, PhaseInv, QueueInv, JobInv, ToldInv, ShownInv, EndInv, [Next]_vars
    PROVE  ToldInv'
<1> USE DEF ToldInv, PhaseInv, JobInv, ShownInv, Harvested, LoopStages, AfterPool, TypeOK,
            Goto, ShowAll, loop, pool, events
<1>1. ASSUME NEW a \in Agents, Submit(a) PROVE ToldInv'
  BY <1>1 DEF Submit
<1>2. ASSUME NEW a \in Agents, Harvest(a) PROVE ToldInv'
  <2>1. /\ pc = "harvest" /\ a \in batch /\ batch' = batch \ {a}
        /\ unexpected' = (unexpected \/ result[a] = "crashed")
        /\ failed' = IF result[a] = "errors" THEN failed \cup {a} ELSE failed
        /\ UNCHANGED <<pc, raised, futuresBound, pending, worker, result, started>>
    BY <1>2 DEF Harvest
  <2>2. /\ shown'[a] = (IF result[a] = "ok" THEN "complete" ELSE "failed")
        /\ \A b \in Agents : b # a => shown'[b] = shown[b]
    BY <1>2 DEF Harvest, StateShown
  <2>3. /\ raised = "none" /\ futuresBound /\ worker[a] = "ended"
        /\ a \notin pending /\ a \notin started /\ a \notin failed
    BY <2>1
  <2>4. ASSUME NEW b \in Agents, b # a
        PROVE  /\ b \in batch' <=> b \in batch
               /\ b \in failed' <=> b \in failed
               /\ unexpected => unexpected'
    BY <2>1, <2>4
  <2>5. ASSUME NEW b \in Agents
        PROVE  /\ Harvested(b)' => /\ worker'[b] = "ended" /\ b \notin started'
                                   /\ shown'[b] = (IF result'[b] = "ok" THEN "complete" ELSE "failed")
                                   /\ b \in failed' <=> result'[b] = "errors"
                                   /\ result'[b] = "crashed" => unexpected'
               /\ ~Harvested(b)' => b \notin failed'
               /\ b \in batch' => worker'[b] = "ended" /\ b \notin pending'
               /\ b \in batch' => b \notin started'
    <3>1. CASE b = a
      BY <2>1, <2>2, <2>3, <3>1
    <3>2. CASE b # a
      BY <2>1, <2>2, <2>3, <2>4, <3>2
    <3> QED BY <3>1, <3>2
  <2> QED BY <2>5
<1>3. CASE BindFutures    BY <1>3 DEF BindFutures
<1>4. CASE EmitStarted("emit", "wait")
  BY <1>4 DEF EmitStarted
<1>5. CASE EmitDone       BY <1>5 DEF EmitDone, EmitStarted
<1>6. CASE Wait           BY <1>6 DEF Wait
<1>7. CASE LoopEnds       BY <1>7 DEF LoopEnds
<1>8. CASE Shutdown       BY <1>8 DEF Shutdown, QueueCancelled
<1>9. CASE Request        BY <1>9 DEF Request, StopAfterRequest
<1>10. CASE JoinReport    BY <1>10 DEF JoinReport
<1>11. CASE Join          BY <1>11 DEF Join
<1>12. CASE PoolExit      BY <1>12 DEF PoolExit, PoolIdle
<1>13. CASE Failing       BY <1>13 DEF Failing, FailRun
<1>14. CASE Collected     BY <1>14 DEF Collected
<1>15. CASE Reported      BY <1>15 DEF Reported
<1>16. CASE ReturnResult  BY <1>16 DEF ReturnResult
<1>17. CASE Finalize      BY <1>17 DEF Finalize
<1>18. CASE Terminalize   BY <1>18 DEF Terminalize, OpenStages
<1>19. CASE Interrupt     BY <1>19 DEF Interrupt, InterruptLeaves
<1>20. CASE StartAgent
  <2>1. queue # <<>> /\ queue[1] \in Agents /\ worker[queue[1]] = "queued"
    BY <1>20 DEF StartAgent, QueueInv
  <2>2. /\ worker' = [worker EXCEPT ![queue[1]] = "running"] /\ started' = started \cup {queue[1]}
        /\ UNCHANGED <<pc, raised, interrupts, loop, result, job, stop, events, finalized>>
    BY <1>20 DEF StartAgent, NotPool
  <2> QED BY <2>1, <2>2
<1>21. ASSUME NEW a \in Agents, EndAgent(a) PROVE ToldInv'
  BY <1>21 DEF EndAgent, NotPool
<1>22. ASSUME NEW a \in Agents, NEW r \in Arms, Arm(a, r) \/ EndJob(a, r) PROVE ToldInv'
  <2>1. UNCHANGED <<pc, raised, interrupts, loop, queue, worker, result, started, stop, events, finalized>>
    BY <1>22, JobSteps DEF SetJob, NotPool
  <2> QED BY <2>1
<1>23. CASE Finished \/ UNCHANGED vars
  <2>1. UNCHANGED vars
    BY <1>23 DEF Finished
  <2> QED BY <2>1 DEF vars
<1> QED
  BY <1>1, <1>2, <1>3, <1>4, <1>5, <1>6, <1>7, <1>8, <1>9, <1>10, <1>11, <1>12, <1>13,
     <1>14, <1>15, <1>16, <1>17, <1>18, <1>19, <1>20, <1>21, <1>22, <1>23, AfterPoolSteps
     DEF Next, Coordinate

(* ... about their progress, ... *)
LEMMA ShownStep ==
    ASSUME TypeOK, PhaseInv, QueueInv, JobInv, ToldInv, ShownInv, EndInv, [Next]_vars
    PROVE  ShownInv'
<1> USE DEF ShownInv, EndInv, ToldInv, PhaseInv, JobInv, Harvested, Running, LoopStages,
            AfterPool, BeforeJoin, TypeOK, Goto, ShowAll, loop, pool, events
<1>1. ASSUME NEW a \in Agents, Submit(a) PROVE ShownInv'
  BY <1>1 DEF Submit
<1>2. ASSUME NEW a \in Agents, Harvest(a) PROVE ShownInv'
  BY <1>2 DEF Harvest, StateShown
<1>3. CASE BindFutures    BY <1>3 DEF BindFutures
<1>4. CASE EmitStarted("emit", "wait")
  BY <1>4 DEF EmitStarted
<1>5. CASE EmitDone       BY <1>5 DEF EmitDone, EmitStarted
<1>6. CASE Wait           BY <1>6 DEF Wait
<1>7. CASE LoopEnds       BY <1>7 DEF LoopEnds
<1>8. CASE Shutdown       BY <1>8 DEF Shutdown, QueueCancelled
<1>9. CASE Request        BY <1>9 DEF Request, StopAfterRequest
<1>10. CASE JoinReport    BY <1>10 DEF JoinReport
<1>11. CASE Join          BY <1>11 DEF Join
<1>12. CASE PoolExit      BY <1>12 DEF PoolExit, PoolIdle
<1>13. CASE Failing       BY <1>13 DEF Failing, FailRun
<1>14. CASE Collected     BY <1>14 DEF Collected
<1>15. CASE Reported      BY <1>15 DEF Reported
<1>16. CASE ReturnResult  BY <1>16 DEF ReturnResult
<1>17. CASE Finalize      BY <1>17 DEF Finalize
<1>18. CASE Terminalize   BY <1>18 DEF Terminalize, OpenStages
<1>19. CASE Interrupt     BY <1>19 DEF Interrupt, InterruptLeaves
<1>20. CASE StartAgent
  <2>1. queue # <<>> /\ queue[1] \in Agents /\ worker[queue[1]] = "queued"
    BY <1>20 DEF StartAgent, QueueInv
  <2>2. /\ worker' = [worker EXCEPT ![queue[1]] = "running"] /\ started' = started \cup {queue[1]}
        /\ UNCHANGED <<pc, raised, interrupts, loop, result, job, stop, events, finalized>>
    BY <1>20 DEF StartAgent, NotPool
  <2> QED BY <2>1, <2>2
<1>21. ASSUME NEW a \in Agents, EndAgent(a) PROVE ShownInv'
  BY <1>21 DEF EndAgent, NotPool
<1>22. ASSUME NEW a \in Agents, NEW r \in Arms, Arm(a, r) \/ EndJob(a, r) PROVE ShownInv'
  <2>1. UNCHANGED <<pc, raised, interrupts, loop, queue, worker, result, started, stop, events, finalized>>
    BY <1>22, JobSteps DEF SetJob, NotPool
  <2> QED BY <2>1
<1>23. CASE Finished \/ UNCHANGED vars
  <2>1. UNCHANGED vars
    BY <1>23 DEF Finished
  <2> QED BY <2>1 DEF vars
<1> QED
  BY <1>1, <1>2, <1>3, <1>4, <1>5, <1>6, <1>7, <1>8, <1>9, <1>10, <1>11, <1>12, <1>13,
     <1>14, <1>15, <1>16, <1>17, <1>18, <1>19, <1>20, <1>21, <1>22, <1>23, AfterPoolSteps
     DEF Next, Coordinate

(* ... and about the way out of the run. *)
LEMMA EndStep ==
    ASSUME TypeOK, PhaseInv, QueueInv, JobInv, ToldInv, ShownInv, EndInv, [Next]_vars
    PROVE  EndInv'
<1> USE DEF EndInv, ToldInv, PhaseInv, JobInv, QueueInv, Harvested, Running, LoopStages,
            AfterPool, TypeOK, Goto, loop, pool, events
<1>1. ASSUME NEW a \in Agents, Submit(a) PROVE EndInv'
  BY <1>1 DEF Submit
<1>2. ASSUME NEW a \in Agents, Harvest(a) PROVE EndInv'
  BY <1>2 DEF Harvest, StateShown
<1>3. CASE BindFutures    BY <1>3 DEF BindFutures
<1>4. CASE EmitStarted("emit", "wait")
  BY <1>4 DEF EmitStarted
<1>5. CASE EmitDone       BY <1>5 DEF EmitDone, EmitStarted
<1>6. CASE Wait           BY <1>6 DEF Wait
<1>7. CASE LoopEnds       BY <1>7 DEF LoopEnds
<1>8. CASE Shutdown       BY <1>8 DEF Shutdown, QueueCancelled
<1>9. CASE Request        BY <1>9 DEF Request, StopAfterRequest
<1>10. CASE JoinReport    BY <1>10 DEF JoinReport
<1>11. CASE Join          BY <1>11 DEF Join
<1>12. CASE PoolExit      BY <1>12 DEF PoolExit, PoolIdle
<1>13. CASE Failing       BY <1>13 DEF Failing, FailRun
<1>14. CASE Collected     BY <1>14 DEF Collected
<1>15. CASE Reported      BY <1>15 DEF Reported
<1>16. CASE ReturnResult  BY <1>16 DEF ReturnResult
<1>17. CASE Finalize      BY <1>17 DEF Finalize
<1>18. CASE Terminalize   BY <1>18 DEF Terminalize, OpenStages
<1>19. CASE Interrupt     BY <1>19 DEF Interrupt, InterruptLeaves
<1>20. CASE StartAgent
  <2>1. queue # <<>> /\ queue[1] \in Agents /\ worker[queue[1]] = "queued"
    BY <1>20 DEF StartAgent, QueueInv
  <2>2. /\ worker' = [worker EXCEPT ![queue[1]] = "running"] /\ started' = started \cup {queue[1]}
        /\ UNCHANGED <<pc, raised, interrupts, loop, result, job, stop, events, finalized>>
    BY <1>20 DEF StartAgent, NotPool
  <2> QED BY <2>1, <2>2
<1>21. ASSUME NEW a \in Agents, EndAgent(a) PROVE EndInv'
  BY <1>21 DEF EndAgent, NotPool
<1>22. ASSUME NEW a \in Agents, NEW r \in Arms, Arm(a, r) \/ EndJob(a, r) PROVE EndInv'
  <2>1. UNCHANGED <<pc, raised, interrupts, loop, queue, worker, result, started, stop, events, finalized>>
    BY <1>22, JobSteps DEF SetJob, NotPool
  <2> QED BY <2>1
<1>23. CASE Finished \/ UNCHANGED vars
  <2>1. UNCHANGED vars
    BY <1>23 DEF Finished
  <2> QED BY <2>1 DEF vars
<1> QED
  BY <1>1, <1>2, <1>3, <1>4, <1>5, <1>6, <1>7, <1>8, <1>9, <1>10, <1>11, <1>12, <1>13,
     <1>14, <1>15, <1>16, <1>17, <1>18, <1>19, <1>20, <1>21, <1>22, <1>23, AfterPoolSteps
     DEF Next, Coordinate

LEMMA Invariant == Spec => []IInv
<1>1. IInv /\ [Next]_vars => IInv'
  BY TypeStep, PhaseStep, QueueStep, JobStep, ToldStep, ShownStep, EndStep DEF IInv
<1> QED
  BY <1>1, InitInv, PTL DEF Spec

-----------------------------------------------------------------------------
(* Every variable keeps its type; the run sends at most one terminal event. *)
THEOREM TypeCorrect == Spec => []TypeOK
<1>1. IInv => TypeOK
  BY DEF IInv
<1> QED
  BY <1>1, Invariant, PTL

(* Directories are removed only when no job writes there, unless a second Ctrl+C
   left the pool. *)
THEOREM ArtifactsQuietCorrect == Spec => []ArtifactsQuiet
<1>1. IInv => ArtifactsQuiet
  <2> SUFFICES ASSUME IInv, finalized, interrupts < 2, NEW a \in Agents
               PROVE  worker[a] # "running" /\ \A r \in Arms : job[a][r] # "running"
    BY DEF ArtifactsQuiet
  <2>1. worker[a] # "running"
    <3>1. CASE pc = "return"
      BY <3>1 DEF IInv, PhaseInv, ToldInv, Harvested, AfterPool, LoopStages
    <3>2. CASE pc \in {"finalize", "terminalize", "over"}
      BY <3>2 DEF IInv, EndInv, Running
    <3> QED
      BY <3>1, <3>2 DEF IInv, PhaseInv
  <2> QED
    BY <2>1 DEF IInv, JobInv, Ended
<1> QED
  BY <1>1, Invariant, PTL

(* Results are collected for whole agents, and the error entries, the progress and the
   jobs of their ordinary arms agree. *)
THEOREM CollectsWholeRunCorrect == Spec => []CollectsWholeRun
<1>1. IInv => CollectsWholeRun
  <2> SUFFICES ASSUME IInv, pc \in {"collect", "report", "return"}, raised = "none", NEW a \in Agents
               PROVE  /\ \A r \in Arms : job[a][r] \in {"ok", "failed"} \/ (r \in Extra /\ job[a][r] = "crashed")
                      /\ a \notin failed <=> \A r \in Arms \ Extra : job[a][r] = "ok"
                      /\ a \notin failed <=> shown[a] = "complete"
    BY DEF CollectsWholeRun
  <2>1. Harvested(a) /\ ~unexpected /\ stop = {}
    BY DEF IInv, PhaseInv, Harvested, LoopStages
  <2>2. /\ worker[a] = "ended"
        /\ shown[a] = (IF result[a] = "ok" THEN "complete" ELSE "failed")
        /\ a \in failed <=> result[a] = "errors"
        /\ result[a] # "crashed"
    BY <2>1 DEF IInv, ToldInv
  <2>3. \A r \in Arms : job[a][r] \in Ended /\ job[a][r] # "cancelled"
    BY <2>1, <2>2 DEF IInv, JobInv
  <2>4. result[a] \in {"ok", "errors"}
    BY <2>2, <2>3 DEF IInv, JobInv, TypeOK
  <2>5. /\ \A r \in MainArms : job[a][r] # "crashed"
        /\ result[a] = "ok" <=> \A r \in MainArms : job[a][r] = "ok"
    BY <2>4 DEF IInv, JobInv
  <2> QED
    BY <2>2, <2>3, <2>4, <2>5 DEF MainArms, Ended
<1> QED
  BY <1>1, Invariant, PTL

(* A run that has sent its terminal event shows no agent as running. *)
THEOREM NothingOpenCorrect == Spec => []NothingOpenAtTheEnd
<1>1. IInv => NothingOpenAtTheEnd
  BY DEF IInv, ShownInv, NothingOpenAtTheEnd
<1> QED
  BY <1>1, Invariant, PTL

(* No agent leaves the queue once the stop has been requested. *)
THEOREM NoStartCorrect == Spec => NoAgentStartsAfterRequest
<1> DEFINE Step == \A a \in Agents : worker[a] = "queued" /\ worker'[a] = "running" => "requested" \notin stop
<1>1. IInv /\ [Next]_vars => [Step]_vars
  <2> SUFFICES ASSUME IInv, Next, NEW a \in Agents, worker[a] = "queued", worker'[a] = "running"
               PROVE  "requested" \notin stop
    BY DEF IInv
  <2>1. CASE StartAgent
    BY <2>1 DEF StartAgent, IInv, QueueInv
  <2>2. CASE ~StartAgent
    <3>1. UNCHANGED worker \/ (\E b \in Agents : Submit(b) \/ EndAgent(b)) \/ Shutdown
      BY <2>2, AfterPoolSteps DEF Next, Coordinate, Harvest, BindFutures, EmitStarted, Wait, EmitDone,
         LoopEnds, Request, JoinReport, Join, PoolExit, Failing, FailRun, Collected, Reported,
         ReturnResult, Finalize, Terminalize, Interrupt, Arm, Admit, Launch, CancelJob, EndJob,
         SetJob, Finished, vars, pool
    <3>2. TypeOK
      BY DEF IInv
    <3> QED
      BY <3>1, <3>2 DEF Submit, EndAgent, Shutdown, TypeOK
  <2> QED
    BY <2>1, <2>2
<1> QED
  BY <1>1, Invariant, PTL DEF Spec, NoAgentStartsAfterRequest

(* The progress of an agent starts with "running" and ends at most once. *)
THEOREM ProgressCorrect == Spec => ProgressInOrder
<1> DEFINE Moves(a) == shown'[a] # shown[a] =>
              \/ shown[a] = "none" /\ shown'[a] = "running"
              \/ shown[a] = "running" /\ shown'[a] \in {"failed", "complete"}
<1> DEFINE Step == \A a \in Agents : Moves(a)
<1>1. IInv /\ [Next]_vars => [Step]_vars
  <2> SUFFICES ASSUME IInv, Next, NEW a \in Agents PROVE Moves(a)
    BY DEF IInv
  <2> USE DEF Goto, ShowAll
  <2>1. CASE EmitStarted("emit", "wait") \/ EmitDone
    BY <2>1 DEF EmitDone, EmitStarted, IInv, ShownInv, LoopStages
  <2>2. CASE JoinReport
    BY <2>2 DEF JoinReport, Running, IInv, ShownInv, BeforeJoin
  <2>3. CASE Terminalize
    BY <2>3 DEF Terminalize, OpenStages
  <2>4. ASSUME NEW b \in Agents, Harvest(b) PROVE Moves(a)
    <3>1. b \notin started /\ worker[b] = "ended" /\ ~Harvested(b) /\ pc \in LoopStages
      BY <2>4 DEF Harvest, IInv, PhaseInv, ToldInv, Harvested, LoopStages
    <3>2. shown[b] = "running"
      BY <3>1 DEF IInv, ShownInv
    <3>3. shown' = [shown EXCEPT ![b] = IF result[b] = "ok" THEN "complete" ELSE "failed"]
      BY <2>4 DEF Harvest, StateShown
    <3> QED
      BY <3>2, <3>3 DEF IInv, TypeOK
  <2>5. \/ EmitStarted("emit", "wait") \/ EmitDone \/ JoinReport \/ Terminalize
        \/ \E b \in Agents : Harvest(b)
        \/ UNCHANGED shown
    BY AfterPoolSteps DEF Next, Coordinate, Submit, BindFutures, Wait, LoopEnds, Shutdown, Request,
       Join, PoolExit, Failing, FailRun, Collected, Reported, ReturnResult, Finalize, Interrupt,
       StartAgent, EndAgent, Arm, Admit, Launch, CancelJob, EndJob, SetJob, NotPool, Finished,
       vars, events
  <2> QED
    BY <2>1, <2>2, <2>3, <2>4, <2>5
<1> QED
  BY <1>1, Invariant, PTL DEF Spec, ProgressInOrder
-----------------------------------------------------------------------------
(* What Euclid's division gives. *)
LEMMA Euclid == \A n, c \in Int : c > 0 => n = c * (n \div c) + (n % c)
OBVIOUS

LEMMA Division ==
    ASSUME NEW n \in Nat, NEW c \in Nat \ {0}
    PROVE  /\ n \div c \in Nat /\ n % c \in 0..(c - 1)
           /\ n = (n \div c) * c + (n % c)
<1>1. n \div c \in Nat
  OBVIOUS
<1>2. n % c \in 0..(c - 1)
  OBVIOUS
<1>3. n = c * (n \div c) + (n % c)
  BY Euclid
<1>4. (n \div c) * c = c * (n \div c)
  BY <1>1
<1> QED
  BY <1>1, <1>2, <1>3, <1>4

(* Two numbers with the same row and column are the same. *)
LEMMA RowAndColumn ==
    ASSUME NEW c \in Nat \ {0}, NEW x \in Nat, NEW y \in Nat, NEW i \in 0..(c - 1), NEW j \in 0..(c - 1),
           x * c + i = y * c + j
    PROVE  x = y /\ i = j
<1>1. ASSUME NEW u \in Nat, NEW v \in Nat, u < v PROVE u * c + c <= v * c
  <2>1. v * c = u * c + (v - u) * c /\ (v - u) \in Nat /\ v - u >= 1
    BY <1>1
  <2>2. (v - u) * c >= c
    BY <2>1
  <2>3. u * c \in Nat /\ (v - u) * c \in Nat
    BY <2>1
  <2> QED
    BY <2>1, <2>2, <2>3
<1>2. x * c \in Nat /\ y * c \in Nat
  OBVIOUS
<1>3. ~(x < y)
  BY <1>1, <1>2
<1>4. ~(y < x)
  BY <1>1, <1>2
<1> QED
  BY <1>3, <1>4

LEMMA ArmIndexFacts ==
    /\ Cardinality(Arms) \in Nat \ {0}
    /\ ArmIndex \in [Arms -> 0..(Cardinality(Arms) - 1)]
    /\ \A q, r \in Arms : ArmIndex[q] = ArmIndex[r] => q = r
<1> DEFINE c == Cardinality(Arms)
<1>1. c \in Nat \ {0}
  BY AgentsAssumption, FS_CardinalityType, FS_EmptySet
<1>2. PICK g \in [1..c -> Arms] : \A r \in Arms : \E i \in 1..c : g[i] = r
  BY AgentsAssumption, FS_CardinalityType DEF ExistsBijection, Bijection, Surjection, Injection
<1> DEFINE f == [r \in Arms |-> (CHOOSE i \in 1..c : g[i] = r) - 1]
<1>3. \A r \in Arms : f[r] \in 0..(c - 1) /\ g[f[r] + 1] = r
  <2> TAKE r \in Arms
  <2>1. (CHOOSE i \in 1..c : g[i] = r) \in 1..c /\ g[CHOOSE i \in 1..c : g[i] = r] = r
    BY <1>2
  <2> QED
    BY <1>1, <2>1
<1>4. f \in [Arms -> 0..(c - 1)] /\ \A q, r \in Arms : f[q] = f[r] => q = r
  BY <1>3
<1> HIDE DEF f
<1> QED
  BY <1>1, <1>4 DEF ArmIndex

(* A budget that reaches every arm: arm number i gets the trials i, i + c, i + 2c, ...
   below it, so the trials of all arms together can be numbered. *)
LEMMA SharesOfAll ==
    ASSUME NEW n \in Nat \ {0}, WorkerCount(n) = Cardinality(Arms)
    PROVE  /\ \A r \in Arms : JobConcurrency(n, r) \in Nat \ {0}
           /\ \A r \in Arms : \A k \in 1..JobConcurrency(n, r) :
                 (k - 1) * Cardinality(Arms) + ArmIndex[r] + 1 \in 1..n
<1> DEFINE c == Cardinality(Arms)
           q == n \div c
           m == n % c
<1>1. c \in Nat \ {0} /\ \A r \in Arms : ArmIndex[r] \in 0..(c - 1)
  BY ArmIndexFacts
<1>2. c <= n
  BY <1>1 DEF WorkerCount
<1>3. q \in Nat /\ m \in 0..(c - 1) /\ n = q * c + m
  BY <1>1, Division
<1>4. q >= 1
  <2>1. CASE q = 0
    <3>1. n = m
      BY <1>1, <1>3, <2>1
    <3> QED
      BY <1>1, <1>2, <1>3, <3>1
  <2> QED
    BY <1>3, <2>1
<1> HIDE DEF c, q, m
<1>5. ASSUME NEW r \in Arms
      PROVE  JobConcurrency(n, r) = q + (IF ArmIndex[r] < m THEN 1 ELSE 0)
  BY DEF JobConcurrency, ExtraSlots, c, q, m
<1>6. ASSUME NEW r \in Arms, NEW k \in 1..JobConcurrency(n, r)
      PROVE  (k - 1) * c + ArmIndex[r] + 1 \in 1..n
  <2> DEFINE i == ArmIndex[r]
  <2>1. i \in 0..(c - 1) /\ k - 1 \in Nat /\ k \in Nat
    BY <1>1, <1>3, <1>5
  <2> HIDE DEF i
  <2>2. CASE k <= q
    <3>1. q * c = (k - 1) * c + (q - k) * c + c /\ (q - k) * c \in Nat /\ (k - 1) * c \in Nat
      BY <1>1, <1>3, <2>1, <2>2
    <3> QED
      BY <1>1, <1>3, <2>1, <3>1 DEF i
  <2>3. CASE k = q + 1 /\ i < m
    <3>1. (k - 1) * c = q * c /\ q * c \in Nat
      BY <1>1, <1>3, <2>3
    <3> QED
      BY <1>1, <1>3, <2>1, <2>3, <3>1 DEF i
  <2> QED
    BY <1>3, <1>5, <2>1, <2>2, <2>3 DEF i
<1> QED
  BY <1>3, <1>4, <1>5, <1>6 DEF c

(* The trials that a set of arms of at most WorkerCount arms runs at once fit the budget. *)
LEMMA TrialsNumbered ==
    ASSUME NEW n \in Nat \ {0}, NEW S \in SUBSET Arms, Cardinality(S) <= WorkerCount(n)
    PROVE  \E h : h \in Injection(Trials(n, S), 1..n)
<1> DEFINE c == Cardinality(Arms)
<1>1. c \in Nat \ {0} /\ IsFiniteSet(S) /\ Cardinality(S) \in Nat
  BY ArmIndexFacts, AgentsAssumption, FS_Subset, FS_CardinalityType
<1>2. CASE WorkerCount(n) = c
  <2> DEFINE h == [t \in Trials(n, S) |-> (t[2] - 1) * c + ArmIndex[t[1]] + 1]
  <2>1. ASSUME NEW t \in Trials(n, S)
        PROVE  t[1] \in S /\ t[2] \in 1..JobConcurrency(n, t[1]) /\ t = <<t[1], t[2]>>
    BY DEF Trials
  <2>2. ASSUME NEW t \in Trials(n, S)
        PROVE  /\ h[t] \in 1..n /\ t[2] - 1 \in Nat /\ ArmIndex[t[1]] \in 0..(c - 1)
    BY <1>2, <2>1, SharesOfAll, ArmIndexFacts
  <2>3. ASSUME NEW t \in Trials(n, S), NEW u \in Trials(n, S), h[t] = h[u]
        PROVE  t = u
    <3>1. t[2] - 1 = u[2] - 1 /\ ArmIndex[t[1]] = ArmIndex[u[1]]
      <4>1. (t[2] - 1) * c + ArmIndex[t[1]] = (u[2] - 1) * c + ArmIndex[u[1]]
        <5>1. (t[2] - 1) * c \in Nat /\ (u[2] - 1) * c \in Nat
          BY <1>1, <2>2
        <5> QED
          BY <2>2, <2>3, <5>1
      <4> QED
        <5>1. PICK x \in Nat, y \in Nat, i \in 0..(c - 1), j \in 0..(c - 1) :
                /\ x = t[2] - 1 /\ y = u[2] - 1 /\ i = ArmIndex[t[1]] /\ j = ArmIndex[u[1]]
          BY <2>2
        <5>2. x * c + i = y * c + j
          BY <4>1, <5>1
        <5>3. x = y /\ i = j
          <6> HIDE DEF c
          <6> QED
            BY <1>1, <5>2, RowAndColumn
        <5> QED
          BY <5>1, <5>3
    <3>2. t[2] \in Int /\ u[2] \in Int
      BY <1>2, <2>1, SharesOfAll
    <3> QED
      BY <2>1, <3>1, <3>2, ArmIndexFacts
  <2> HIDE DEF h
  <2>4. h \in [Trials(n, S) -> 1..n]
    BY <2>2 DEF h
  <2> QED
    BY <2>3, <2>4 DEF Injection, IsInjective
<1>3. CASE WorkerCount(n) # c
  <2>1. WorkerCount(n) = n /\ \A r \in Arms : JobConcurrency(n, r) = 1
    BY <1>3 DEF WorkerCount, JobConcurrency
  <2>2. PICK g : g \in Bijection(1..Cardinality(S), S)
    BY <1>1, FS_CardinalityType DEF ExistsBijection
  <2> DEFINE h == [t \in Trials(n, S) |-> CHOOSE i \in 1..Cardinality(S) : g[i] = t[1]]
  <2>3. ASSUME NEW t \in Trials(n, S) PROVE t[1] \in S /\ t = <<t[1], 1>>
    BY <2>1 DEF Trials
  <2>4. ASSUME NEW t \in Trials(n, S) PROVE h[t] \in 1..n /\ g[h[t]] = t[1]
    <3>1. \E i \in 1..Cardinality(S) : g[i] = t[1]
      BY <2>2, <2>3 DEF Bijection, Surjection, Injection
    <3>2. h[t] \in 1..Cardinality(S) /\ g[h[t]] = t[1]
      BY <3>1
    <3> QED
      BY <1>1, <2>1, <3>2
  <2> HIDE DEF h
  <2>5. h \in [Trials(n, S) -> 1..n] /\ \A t, u \in Trials(n, S) : h[t] = h[u] => t = u
    <3>1. h = [t \in Trials(n, S) |-> h[t]]
      BY DEF h
    <3> QED
      BY <2>3, <2>4, <3>1
  <2> QED
    BY <2>5 DEF Injection, IsInjective
<1> QED
  BY <1>2, <1>3

-----------------------------------------------------------------------------
(* What can be numbered within 1..n has no more than n elements. *)
LEMMA NumberedWithin ==
    ASSUME NEW X, NEW n \in Nat, NEW h \in Injection(X, 1..n)
    PROVE  IsFiniteSet(X) /\ Cardinality(X) <= n
<1>1. IsFiniteSet(1..n) /\ Cardinality(1..n) = n
  BY FS_Interval
<1> QED
  BY <1>1, FS_Injection

LEMMA WorkerCountType == \A n \in Nat \ {0} : WorkerCount(n) \in Nat \ {0}
BY ArmIndexFacts DEF WorkerCount

(* Every budget is divided among the arms: each has a trial, and together they keep to it. *)
LEMMA FairShares ==
    ASSUME NEW n \in Nat \ {0}
    PROVE  FairShare(n)
<1>1. ASSUME NEW r \in Arms PROVE JobConcurrency(n, r) > 0
  <2>1. CASE WorkerCount(n) = Cardinality(Arms)
    BY <2>1, SharesOfAll
  <2> QED
    BY <2>1 DEF JobConcurrency
<1>2. ASSUME NEW S \in SUBSET Arms, Cardinality(S) <= WorkerCount(n)
      PROVE  Cardinality(Trials(n, S)) <= n
  BY <1>2, TrialsNumbered, NumberedWithin
<1> QED
  BY <1>1, <1>2 DEF FairShare

(* The agents and the arms that run at once. *)
BoundInv ==
    /\ IsFiniteSet(Running) /\ Cardinality(Running) <= MaxAgents
    /\ \A a \in Agents : Cardinality(Active(a)) <= WorkerCount(NConcurrent)

LEMMA ActiveType == \A a \in Agents : IsFiniteSet(Active(a)) /\ Cardinality(Active(a)) \in Nat
BY AgentsAssumption, FS_Subset, FS_CardinalityType DEF Active

LEMMA InitBound == Init => BoundInv
<1> SUFFICES ASSUME Init PROVE BoundInv
  OBVIOUS
<1>1. Running = {} /\ \A a \in Agents : Active(a) = {}
  BY DEF Init, Running, Active
<1> QED
  BY <1>1, FS_EmptySet, PoolAssumption, BudgetAssumption, WorkerCountType DEF BoundInv

(* The steps that the workers and the jobs take. *)
LEMMA PoolSteps ==
    ASSUME [Next]_vars
    PROVE  \/ \E a \in Agents : Submit(a) \/ EndAgent(a)
           \/ Shutdown \/ StartAgent
           \/ \E a \in Agents, r \in Arms : Arm(a, r) \/ EndJob(a, r)
           \/ UNCHANGED <<worker, job>> /\ stop' = stop
           \/ UNCHANGED <<worker, job>> /\ (Request \/ Interrupt)
BY AfterPoolSteps DEF Next, Coordinate, Harvest, BindFutures, EmitStarted, Wait, EmitDone,
   LoopEnds, Request, JoinReport, Join, PoolExit, Failing, FailRun, Collected, Reported,
   ReturnResult, Finalize, Terminalize, Interrupt, Finished, vars, pool

(* ... and what they do to the set of agents that run. *)
LEMMA RunningSteps ==
    ASSUME TypeOK, QueueInv, [Next]_vars
    PROVE  \/ Running' \subseteq Running
           \/ Cardinality(Running) < MaxAgents /\ \E a \in Agents : Running' = Running \cup {a}
<1> USE DEF Running, TypeOK
<1>1. ASSUME NEW a \in Agents, Submit(a) \/ EndAgent(a) PROVE Running' \subseteq Running
  BY <1>1 DEF Submit, EndAgent
<1>2. CASE Shutdown
  BY <1>2 DEF Shutdown
<1>3. CASE StartAgent
  <2>1. queue # <<>> /\ Head(queue) \in Agents
    BY <1>3 DEF StartAgent
  <2>2. Running' = Running \cup {Head(queue)}
    BY <1>3, <2>1 DEF StartAgent
  <2>3. Cardinality(Running) < MaxAgents
    BY <1>3 DEF StartAgent
  <2> QED
    BY <2>1, <2>2, <2>3
<1>4. CASE \E a \in Agents, r \in Arms : Arm(a, r) \/ EndJob(a, r)
  BY <1>4, JobSteps DEF SetJob
<1>5. CASE UNCHANGED <<worker, job>>
  BY <1>5
<1> QED
  BY <1>1, <1>2, <1>3, <1>4, <1>5, PoolSteps

LEMMA ActiveSteps ==
    ASSUME TypeOK, [Next]_vars, NEW a \in Agents
    PROVE  \/ Active(a)' \subseteq Active(a)
           \/ /\ Cardinality(Active(a)) < WorkerCount(NConcurrent)
              /\ \E r \in Arms : Active(a)' = Active(a) \cup {r}
<1>1. ASSUME NEW b \in Agents, NEW r \in Arms, Arm(b, r) \/ EndJob(b, r)
      PROVE  \/ Active(a)' \subseteq Active(a)
             \/ /\ Cardinality(Active(a)) < WorkerCount(NConcurrent)
                /\ \E q \in Arms : Active(a)' = Active(a) \cup {q}
  <2>1. PICK state \in Ended \cup {"admitted", "running"} :
           /\ SetJob(b, r, state)
           /\ \/ Cardinality(Active(b)) < WorkerCount(NConcurrent)
              \/ job[b][r] \in {"admitted", "running"}
    BY <1>1, JobSteps
  <2>2. /\ \A c \in Agents : c # b => job'[c] = job[c]
        /\ \A q \in Arms : q # r => job'[b][q] = job[b][q]
        /\ job'[b][r] = state
    BY <2>1, SetJobFacts
  <2>3. a # b => Active(a)' = Active(a)
    BY <2>2 DEF Active
  <2>4. Active(b)' \subseteq Active(b) \/ Active(b)' = Active(b) \cup {r}
    BY <2>2 DEF Active
  <2>5. job[b][r] \in {"admitted", "running"} => r \in Active(b)
    BY DEF Active
  <2> QED
    BY <2>1, <2>3, <2>4, <2>5
<1>2. UNCHANGED job => Active(a)' \subseteq Active(a)
  BY DEF Active
<1> QED
  BY <1>1, <1>2, PoolSteps DEF Submit, EndAgent, Shutdown, StartAgent

LEMMA BoundStep ==
    ASSUME TypeOK, QueueInv, BoundInv, [Next]_vars
    PROVE  BoundInv'
<1>1. IsFiniteSet(Running') /\ Cardinality(Running') <= MaxAgents
  <2>1. CASE Running' \subseteq Running
    BY <2>1, FS_Subset, FS_CardinalityType, PoolAssumption DEF BoundInv
  <2>2. ASSUME Cardinality(Running) < MaxAgents, NEW a \in Agents, Running' = Running \cup {a}
        PROVE  IsFiniteSet(Running') /\ Cardinality(Running') <= MaxAgents
    <3>1. IsFiniteSet(Running) /\ Cardinality(Running) \in Nat
      BY FS_CardinalityType DEF BoundInv
    <3>2. /\ IsFiniteSet(Running \cup {a})
          /\ Cardinality(Running \cup {a}) = IF a \in Running THEN Cardinality(Running) ELSE Cardinality(Running) + 1
      BY <3>1, FS_AddElement
    <3> QED
      BY <2>2, <3>1, <3>2, PoolAssumption
  <2> QED
    BY <2>1, <2>2, RunningSteps
<1>2. ASSUME NEW a \in Agents PROVE Cardinality(Active(a)') <= WorkerCount(NConcurrent)
  <2>1. IsFiniteSet(Active(a)) /\ Cardinality(Active(a)) \in Nat /\ WorkerCount(NConcurrent) \in Nat
    BY ActiveType, WorkerCountType, BudgetAssumption
  <2>2. Cardinality(Active(a)) <= WorkerCount(NConcurrent)
    BY DEF BoundInv
  <2>3. CASE Active(a)' \subseteq Active(a)
    BY <2>1, <2>2, <2>3, FS_Subset, FS_CardinalityType
  <2>4. ASSUME Cardinality(Active(a)) < WorkerCount(NConcurrent), NEW r \in Arms,
               Active(a)' = Active(a) \cup {r}
        PROVE  Cardinality(Active(a)') <= WorkerCount(NConcurrent)
    BY <2>1, <2>4, FS_AddElement
  <2> QED
    BY <2>3, <2>4, ActiveSteps
<1> QED
  BY <1>1, <1>2 DEF BoundInv

LEMMA BoundInvariant == Spec => []BoundInv
<1>1. IInv /\ BoundInv /\ [Next]_vars => BoundInv'
  BY BoundStep DEF IInv
<1> QED
  BY <1>1, InitBound, Invariant, PTL DEF Spec

(* The trials of all agents together: each is numbered within the budget of its agent, and
   only the agents in the pool have any. *)
LEMMA AllTrials ==
    ASSUME IInv, BoundInv
    PROVE  Cardinality(UNION {{a} \X Trials(NConcurrent, Active(a)) : a \in Agents}) <= MaxAgents * NConcurrent
<1> DEFINE N == 1..NConcurrent
           T(a) == Trials(NConcurrent, Active(a))
           all == UNION {{a} \X T(a) : a \in Agents}
           number(a) == CHOOSE h : h \in Injection(T(a), N)
           place == [t \in all |-> <<t[1], number(t[1])[t[2]]>>]
<1>1. ASSUME NEW a \in Agents
      PROVE  number(a) \in [T(a) -> N] /\ \A t, u \in T(a) : number(a)[t] = number(a)[u] => t = u
  <2>1. \E h : h \in Injection(T(a), N)
    <3>1. Active(a) \in SUBSET Arms /\ Cardinality(Active(a)) <= WorkerCount(NConcurrent)
      BY DEF Active, BoundInv
    <3> QED
      BY <3>1, TrialsNumbered, BudgetAssumption
  <2>2. number(a) \in Injection(T(a), N)
    BY <2>1
  <2> QED
    BY <2>2 DEF Injection, IsInjective
<1>2. ASSUME NEW t \in all PROVE t[1] \in Running /\ t[2] \in T(t[1]) /\ t = <<t[1], t[2]>>
  <2>1. PICK a \in Agents : t \in {a} \X T(a)
    OBVIOUS
  <2>2. Active(a) # {}
    BY <2>1 DEF Trials
  <2>3. worker[a] = "running"
    BY <2>2 DEF IInv, JobInv, Active, Ended
  <2> HIDE DEF T
  <2> QED
    BY <2>1, <2>3 DEF Running
<1> HIDE DEF T, number, all
<1>3. place \in [all -> Running \X N]
  BY <1>1, <1>2 DEF Running
<1>4. ASSUME NEW t \in all, NEW u \in all, place[t] = place[u] PROVE t = u
  BY <1>1, <1>2, <1>4 DEF Running
<1> HIDE DEF place
<1>5. place \in Injection(all, Running \X N)
  BY <1>3, <1>4 DEF Injection, IsInjective
<1>6. /\ IsFiniteSet(Running \X N) /\ Cardinality(Running \X N) = Cardinality(Running) * NConcurrent
      /\ Cardinality(Running) \in Nat
  <2>1. IsFiniteSet(N) /\ Cardinality(N) = NConcurrent
    BY BudgetAssumption, FS_Interval
  <2>2. IsFiniteSet(Running) /\ Cardinality(Running) \in Nat
    BY FS_CardinalityType DEF BoundInv
  <2> QED
    BY <2>1, <2>2, FS_Product
<1>7. IsFiniteSet(all) /\ Cardinality(all) <= Cardinality(Running) * NConcurrent
  BY <1>5, <1>6, FS_Injection
<1>8. Cardinality(all) \in Nat /\ Cardinality(Running) * NConcurrent <= MaxAgents * NConcurrent
  <2>1. \A x, y, z \in Nat : x <= y => x * z <= y * z
    OBVIOUS
  <2> QED
    BY <1>6, <1>7, <2>1, FS_CardinalityType, BudgetAssumption, PoolAssumption DEF BoundInv
<1>9. Cardinality(all) <= MaxAgents * NConcurrent
  BY <1>6, <1>7, <1>8, BudgetAssumption, PoolAssumption
<1> QED
  BY <1>9 DEF all, T

(* The arms that run at once keep to the trial budget of their agent, and the run to
   --max-agents such budgets, for every budget and every number of arms. *)
THEOREM BudgetCorrect == Spec => []BudgetKept
<1>1. IInv /\ BoundInv => BudgetKept
  <2> SUFFICES ASSUME IInv, BoundInv PROVE BudgetKept
    OBVIOUS
  <2>1. \A a \in Agents : Cardinality(Trials(NConcurrent, Active(a))) <= NConcurrent
    <3> TAKE a \in Agents
    <3>1. Active(a) \in SUBSET Arms /\ Cardinality(Active(a)) <= WorkerCount(NConcurrent)
      BY DEF Active, BoundInv
    <3> QED
      BY <3>1, TrialsNumbered, NumberedWithin, BudgetAssumption
  <2>2. \A n \in 1..2 * Cardinality(Arms) + 1 : FairShare(n)
    BY FairShares, ArmIndexFacts
  <2> QED
    BY <2>1, <2>2, AllTrials DEF BudgetKept
<1> QED
  BY <1>1, Invariant, BoundInvariant, PTL

-----------------------------------------------------------------------------
(* The pool of agents runs each of them at most once, never more than --max-agents at a
   time, and cancels only what has not begun: HarborRun implements Executor. *)
THEOREM RefinesExecutor == Spec => ImplementsExecutor
<1>1. Init => Pool!Init
  BY DEF Init, Pool!Init, Future
<1>2. ASSUME IInv, [Next]_vars PROVE [Pool!Next]_Future
  <2> USE DEF Future, Pool!Next, Pool!Submit, Pool!Begin, Pool!Complete, Pool!Becomes
  <2>0. worker \in [Agents -> {"new", "queued", "running", "ended", "dropped"}]
    BY <1>2 DEF IInv, TypeOK
  <2>1. ASSUME NEW a \in Agents, Submit(a) PROVE Pool!Submit(a)
    BY <2>0, <2>1 DEF Submit
  <2>2. ASSUME NEW a \in Agents, EndAgent(a) PROVE Pool!Complete(a)
    BY <2>0, <2>2 DEF EndAgent
  <2>3. CASE Shutdown
    <3>1. Pool!Queued = {a \in Agents : worker[a] = "queued"}
      BY <2>0 DEF Pool!Queued
    <3>2. Future' = [a \in Agents |-> IF a \in Pool!Queued THEN "cancelled" ELSE Future[a]]
      BY <2>0, <2>3, <3>1 DEF Shutdown, QueueCancelled
    <3> HIDE DEF Future, Pool!Queued
    <3> QED
      BY <3>2 DEF Pool!Cancel
  <2>4. CASE StartAgent
    <3>1. queue # <<>> /\ Head(queue) \in Agents /\ worker[Head(queue)] = "queued"
      BY <1>2, <2>4 DEF StartAgent, IInv, TypeOK, QueueInv
    <3>2. Pool!Busy = Running
      BY <2>0 DEF Pool!Busy, Running
    <3>3. Pool!Cardinality(Running) = Cardinality(Running)
      BY DEF Pool!Cardinality, Cardinality
    <3>4. Pool!Becomes(Head(queue), "queued", "running")
      BY <2>0, <2>4, <3>1 DEF StartAgent
    <3>5. Pool!Begin(Head(queue))
      BY <2>4, <3>2, <3>3, <3>4 DEF StartAgent
    <3> QED
      BY <3>1, <3>5
  <2>5. UNCHANGED worker => UNCHANGED Future
    OBVIOUS
  <2>6. ASSUME NEW a \in Agents, NEW r \in Arms, Arm(a, r) \/ EndJob(a, r) PROVE UNCHANGED worker
    BY <1>2, <2>6, JobSteps DEF SetJob, IInv
  <2> QED
    BY <1>2, <2>1, <2>2, <2>3, <2>4, <2>5, <2>6, PoolSteps
<1> QED
  BY <1>1, <1>2, Invariant, PTL DEF Spec, ImplementsExecutor, Pool!Spec

(* The steps of one arm, seen as those of the job it runs. *)
LEMMA ArmJobSteps ==
    ASSUME TypeOK, [Next]_vars, NEW a \in Agents, NEW r \in Arms
    PROVE  [ArmJob(a, r)!Next]_(ArmJob(a, r)!vars)
<1> USE DEF JobOf, OutcomeOf
<1>1. CASE UNCHANGED <<job[a][r], stop>>
  BY <1>1 DEF ArmJob!vars
<1>2. CASE UNCHANGED job /\ (Request \/ Interrupt)
  BY <1>2 DEF Request, StopAfterRequest, Interrupt, ArmJob!Next, ArmJob!Request, ArmJob!vars
<1>3. ASSUME NEW b \in Agents, NEW q \in Arms, Arm(b, q) \/ EndJob(b, q)
      PROVE  [ArmJob(a, r)!Next]_(ArmJob(a, r)!vars)
  <2>1. PICK state \in Ended \cup {"admitted", "running"} :
          /\ SetJob(b, q, state)
          /\ state = "cancelled" => "requested" \in stop
          /\ \/ job[b][q] = "idle" /\ state \in {"admitted", "cancelled"}
             \/ job[b][q] = "admitted" /\ state \in {"running", "failed", "crashed", "cancelled"}
             \/ job[b][q] = "running" /\ state \in Ended
    BY <1>3, JobSteps
  <2>2. /\ \A c \in Agents : c # b => job'[c] = job[c]
        /\ \A p \in Arms : p # q => job'[b][p] = job[b][p]
        /\ job'[b][q] = state /\ UNCHANGED stop
    BY <2>1, SetJobFacts DEF NotPool
  <2>3. CASE a # b \/ r # q
    <3>1. UNCHANGED <<job[a][r], stop>>
      BY <2>2, <2>3
    <3> QED
      BY <3>1, <1>1
  <2>4. CASE a = b /\ r = q
    <3> USE <2>1, <2>2, <2>4 DEF Ended, ArmJob!Next, ArmJob!vars
    <3>1. CASE job[a][r] = "idle" /\ state = "admitted"
      BY <3>1
    <3>2. CASE job[a][r] \in {"idle", "admitted"} /\ state = "cancelled"
      BY <3>2 DEF ArmJob!Refuse
    <3>3. CASE job[a][r] = "admitted" /\ state = "running"
      BY <3>3 DEF ArmJob!Launch
    <3>4. CASE job[a][r] = "admitted" /\ state \in {"failed", "crashed"}
      BY <3>4 DEF ArmJob!LaunchFails
    <3>5. CASE job[a][r] = "running" /\ state \in Ended
      BY <3>5 DEF ArmJob!Finish, ArmJob!End, ArmJob!Outcomes
    <3> QED
      BY <3>1, <3>2, <3>3, <3>4, <3>5
  <2> QED
    BY <2>3, <2>4
<1>4. CASE \/ \E b \in Agents : Submit(b) \/ EndAgent(b)
           \/ Shutdown \/ StartAgent \/ (UNCHANGED <<worker, job>> /\ stop' = stop)
  <2>1. UNCHANGED <<job, stop>>
    BY <1>4 DEF Submit, EndAgent, Shutdown, StartAgent, NotPool
  <2> QED
    BY <2>1, <1>1
<1> QED
  BY <1>2, <1>3, <1>4, PoolSteps

(* Each arm of each agent keeps the contract of _run_bounded_harbor_process. *)
THEOREM RefinesHarborJobs == Spec => ImplementsHarborJobs
<1> DEFINE Steps == \A a \in Agents, r \in Arms : [ArmJob(a, r)!Next]_(ArmJob(a, r)!vars)
<1>1. Init => \A a \in Agents, r \in Arms : ArmJob(a, r)!Init
  BY DEF Init, ArmJob!Init, JobOf, OutcomeOf
<1>2. TypeOK /\ [Next]_vars => [Steps]_vars
  BY ArmJobSteps
<1> QED
  BY <1>1, <1>2, TypeCorrect, PTL DEF Spec, ImplementsHarborJobs

-----------------------------------------------------------------------------
(* The way out of a run that was interrupted or failed: what is left of it for the
   coordinating thread, for each worker and for the job of each arm. *)
StagesLeft(stage) ==
    CASE stage = "shutdown" -> 7 [] stage = "request" -> 6 [] stage = "joinReport" -> 5
      [] stage = "join" -> 4 [] stage = "poolExit" -> 3 [] stage = "finalize" -> 2
      [] stage = "terminalize" -> 1 [] OTHER -> 0
RunLeft == StagesLeft(pc) + (MaxInterrupts - interrupts)
WorkerLeft(a) == CASE worker[a] \in {"new", "queued"} -> 2 [] worker[a] = "running" -> 1 [] OTHER -> 0
JobLeft(a, r) == CASE job[a][r] = "idle" -> 3 [] job[a][r] = "admitted" -> 2
                   [] job[a][r] = "running" -> 1 [] OTHER -> 0

NobodyBack ==
    /\ RunLeft' <= RunLeft
    /\ \A a \in Agents : WorkerLeft(a)' <= WorkerLeft(a)
    /\ \A a \in Agents, r \in Arms : JobLeft(a, r)' <= JobLeft(a, r)
SomebodyForward ==
    \/ RunLeft' < RunLeft
    \/ \E a \in Agents : WorkerLeft(a)' < WorkerLeft(a)
    \/ \E a \in Agents, r \in Arms : JobLeft(a, r)' < JobLeft(a, r)

(* The coordinating thread only goes on, whatever Ctrl+C adds. *)
LEMMA CoordinatorForward ==
    ASSUME IInv, raised # "none", Next
    PROVE  \/ RunLeft' < RunLeft
           \/ UNCHANGED RunLeft /\ (StartAgent \/ (\E a \in Agents : Submit(a) \/ EndAgent(a))
                                    \/ \E a \in Agents, r \in Arms : Arm(a, r) \/ EndJob(a, r))
           \/ UNCHANGED vars
<1>1. interrupts \in 0..MaxInterrupts /\ MaxInterrupts \in Nat
  BY PoolAssumption DEF IInv, TypeOK
<1>2. pc \notin LoopStages \cup AfterPool
  BY DEF IInv, PhaseInv
<1> USE <1>1, <1>2 DEF RunLeft, StagesLeft, LoopStages, AfterPool, Goto
<1>3. CASE Interrupt
  BY <1>3 DEF Interrupt, InterruptLeaves
<1>4. CASE Shutdown \/ Request \/ JoinReport \/ Join
  BY <1>4 DEF Shutdown, Request, JoinReport, Join
<1>5. CASE PoolExit
  BY <1>5 DEF PoolExit
<1>6. CASE Finalize \/ Terminalize
  BY <1>6 DEF Finalize, Terminalize
<1>7. ASSUME NEW a \in Agents, Submit(a) \/ EndAgent(a) PROVE UNCHANGED RunLeft
  BY <1>7 DEF Submit, EndAgent, NotPool
<1>8. StartAgent => UNCHANGED RunLeft
  BY DEF StartAgent, NotPool
<1>9. ASSUME NEW a \in Agents, NEW r \in Arms, Arm(a, r) \/ EndJob(a, r) PROVE UNCHANGED RunLeft
  BY <1>9, JobSteps DEF SetJob, NotPool, IInv
<1>10. /\ ~(\E a \in Agents : Harvest(a))
       /\ ~BindFutures /\ ~EmitStarted("emit", "wait") /\ ~Wait /\ ~EmitDone /\ ~LoopEnds
       /\ ~WorkerFailed /\ ~Collect /\ ~Report /\ ~ReturnResult
  BY DEF Harvest, BindFutures, EmitStarted, Wait, EmitDone, LoopEnds, WorkerFailed, Collect,
     Report, ReturnResult, FailRun
<1> HIDE DEF RunLeft, Goto
<1> QED
  BY <1>3, <1>4, <1>5, <1>6, <1>7, <1>8, <1>9, <1>10 DEF Next, Coordinate, Finished

(* A worker that starts or ends, and a job that takes a step, is nearer to its end. *)
LEMMA WorkerForward ==
    ASSUME IInv, StartAgent \/ \E a \in Agents : EndAgent(a)
    PROVE  \E a \in Agents : WorkerLeft(a)' < WorkerLeft(a)
<1>0. worker \in [Agents -> {"new", "queued", "running", "ended", "dropped"}]
  BY DEF IInv, TypeOK
<1>1. CASE StartAgent
  <2>1. PICK a \in Agents : worker[a] = "queued" /\ worker' = [worker EXCEPT ![a] = "running"]
    <3>1. queue # <<>> /\ Head(queue) \in Agents /\ worker[Head(queue)] = "queued"
      BY <1>1 DEF StartAgent, IInv, TypeOK, QueueInv
    <3> QED
      BY <1>1, <3>1 DEF StartAgent
  <2>2. WorkerLeft(a)' < WorkerLeft(a)
    BY <1>0, <2>1 DEF WorkerLeft
  <2> QED
    BY <2>2
<1>2. ASSUME NEW a \in Agents, EndAgent(a) PROVE WorkerLeft(a)' < WorkerLeft(a)
  BY <1>0, <1>2 DEF EndAgent, WorkerLeft
<1> QED
  BY <1>1, <1>2

LEMMA JobForward ==
    ASSUME TypeOK, NEW a \in Agents, NEW r \in Arms, Arm(a, r) \/ EndJob(a, r)
    PROVE  /\ JobLeft(a, r)' < JobLeft(a, r)
           /\ \A b \in Agents, q \in Arms : JobLeft(b, q)' <= JobLeft(b, q)
<1>1. PICK state \in Ended \cup {"admitted", "running"} :
         /\ SetJob(a, r, state)
         /\ \/ job[a][r] = "idle" /\ state \in {"admitted", "cancelled"}
            \/ job[a][r] = "admitted" /\ state \in {"running", "failed", "crashed", "cancelled"}
            \/ job[a][r] = "running" /\ state \in Ended
  BY JobSteps
<1>2. /\ \A b \in Agents : b # a => job'[b] = job[b]
      /\ \A q \in Arms : q # r => job'[a][q] = job[a][q]
      /\ job'[a][r] = state
  BY <1>1, SetJobFacts
<1>3. JobLeft(a, r)' < JobLeft(a, r)
  BY <1>1, <1>2 DEF JobLeft, Ended
<1>4. ASSUME NEW b \in Agents, NEW q \in Arms, b # a \/ q # r PROVE JobLeft(b, q)' = JobLeft(b, q)
  BY <1>2, <1>4 DEF JobLeft
<1>5. \A b \in Agents, q \in Arms : JobLeft(b, q) \in Nat
  BY DEF JobLeft
<1> QED
  BY <1>3, <1>4, <1>5 DEF JobLeft

(* No step sets a worker or a job back. *)
LEMMA WorkersNotBack ==
    ASSUME IInv, [Next]_vars
    PROVE  /\ \A a \in Agents : WorkerLeft(a)' <= WorkerLeft(a)
           /\ \A a \in Agents, r \in Arms : JobLeft(a, r)' <= JobLeft(a, r)
<1>0. worker \in [Agents -> {"new", "queued", "running", "ended", "dropped"}] /\ TypeOK
  BY DEF IInv, TypeOK
<1>1. \A a \in Agents : WorkerLeft(a)' <= WorkerLeft(a)
  <2>1. ASSUME NEW a \in Agents, Submit(a) \/ EndAgent(a)
        PROVE  \A b \in Agents : WorkerLeft(b)' <= WorkerLeft(b)
    BY <1>0, <2>1 DEF Submit, EndAgent, WorkerLeft
  <2>2. CASE Shutdown
    BY <1>0, <2>2 DEF Shutdown, WorkerLeft
  <2>3. CASE StartAgent
    <3>1. queue # <<>> /\ Head(queue) \in Agents /\ worker[Head(queue)] = "queued"
      BY <2>3 DEF StartAgent, IInv, TypeOK, QueueInv
    <3> QED
      BY <1>0, <2>3, <3>1 DEF StartAgent, WorkerLeft
  <2>4. CASE UNCHANGED worker
    BY <2>4 DEF WorkerLeft
  <2>5. ASSUME NEW a \in Agents, NEW r \in Arms, Arm(a, r) \/ EndJob(a, r) PROVE UNCHANGED worker
    BY <1>0, <2>5, JobSteps DEF SetJob
  <2> QED
    BY <2>1, <2>2, <2>3, <2>4, <2>5, PoolSteps
<1>2. \A a \in Agents, r \in Arms : JobLeft(a, r)' <= JobLeft(a, r)
  <2>1. UNCHANGED job => \A a \in Agents, r \in Arms : JobLeft(a, r)' <= JobLeft(a, r)
    BY DEF JobLeft
  <2> QED
    BY <1>0, <2>1, JobForward, PoolSteps DEF Submit, EndAgent, Shutdown, StartAgent
<1> QED
  BY <1>1, <1>2

(* Once Ctrl+C or a failure propagates in the run, every step takes somebody nearer to the
   end and nobody back: with finitely many agents and arms only finitely many steps are
   left, however often the user interrupts and whatever the jobs do. *)
THEOREM EveryStepForward ==
    Spec => /\ [](RunLeft \in Nat)
            /\ [][raised # "none" => NobodyBack /\ SomebodyForward]_vars
<1>1. TypeOK => RunLeft \in Nat
  BY PoolAssumption DEF TypeOK, RunLeft, StagesLeft
<1>2. IInv /\ [Next]_vars => [raised # "none" => NobodyBack /\ SomebodyForward]_vars
  <2> SUFFICES ASSUME IInv, Next, raised # "none", ~UNCHANGED vars PROVE NobodyBack /\ SomebodyForward
    OBVIOUS
  <2>1. RunLeft \in Nat /\ RunLeft' \in Nat
    <3>1. TypeOK'
      BY TypeStep DEF IInv
    <3>2. TypeOK' => RunLeft' \in Nat
      BY PoolAssumption DEF TypeOK, RunLeft, StagesLeft
    <3> QED
      BY <1>1, <3>1, <3>2 DEF IInv
  <2>2. ~(\E a \in Agents : Submit(a))
    BY DEF Submit, IInv, PhaseInv, LoopStages
  <2>3. NobodyBack
    BY <2>1, CoordinatorForward, WorkersNotBack DEF NobodyBack
  <2>4. SomebodyForward
    BY <2>2, CoordinatorForward, WorkerForward, JobForward DEF SomebodyForward, IInv
  <2> QED
    BY <2>3, <2>4
<1> QED
  BY <1>1, <1>2, TypeCorrect, Invariant, PTL DEF Spec
=============================================================================
