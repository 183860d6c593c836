----------------------- MODULE LocalEnvironment_proofs -----------------------
(****************************************************************************)
(* Proofs about LocalEnvironment, for every set of calls and every bound on *)
(* cancellations and on calls of stop().                                    *)
(****************************************************************************)
EXTENDS LocalEnvironment, Integers, TLAPS

LEMMA TypeInit == Init => TypeOK
<1> SUFFICES ASSUME Init PROVE TypeOK
  OBVIOUS
<1>1. cancels \in [Execs -> 0..MaxCancels] /\ stops \in 0..MaxStops
  BY BoundsAssumption DEF Init
<1> QED
  BY <1>1 DEF Init, TypeOK, Suspended, Waits

(* What _schedule_creation_cleanup leaves of the cleanups. *)
LEMMA ScheduledType ==
    ASSUME TypeOK, NEW S \in SUBSET Execs
    PROVE  /\ Scheduled(S) \in [Execs -> {"none", "waiting", "reaping", "ok", "failed", "retired"}]
           /\ \A x \in Execs : Scheduled(S)[x] = IF x \in S /\ cleanup[x] = "none" THEN "waiting" ELSE cleanup[x]
BY DEF Scheduled, TypeOK

(* A termination that returned, and one that raised, in the operating system. *)
LEMMA TerminatedType ==
    ASSUME TypeOK, NEW e \in Execs, Terminated(e) \/ NotTerminated(e)
    PROVE  /\ proc' \in [Execs -> {"none", "alive", "gone"}]
           /\ comm' \in [Execs -> {"none", "open", "done", "cancelled"}]
           /\ refused' \subseteq Execs /\ letGo' \subseteq Execs
BY DEF TypeOK, Terminated, NotTerminated, GroupGone, Put

(* Every step keeps the types. *)
LEMMA TypeStep == TypeOK /\ [Next]_vars => TypeOK'
<1> SUFFICES ASSUME TypeOK, [Next]_vars PROVE TypeOK'
  OBVIOUS
<1> USE DEF Suspended, Waits, Put, Move, calls, tasks, books, stopper
<1>1. ASSUME NEW e \in Execs, Exec(e) PROVE TypeOK'
  <2>1. CASE Block(e)         BY <2>1 DEF Block, TypeOK
  <2>2. CASE Create(e)        BY <2>2 DEF Create, TypeOK
  <2>3. CASE ResumeCreated(e)
    <3>1. CASE stopRequested
      BY <2>3, <3>1, ScheduledType DEF ResumeCreated, TypeOK
    <3>2. CASE ~stopRequested
      BY <2>3, <3>2 DEF ResumeCreated, TypeOK
    <3> QED BY <3>1, <3>2
  <2>4. CASE ResumeFailed(e)  BY <2>4 DEF ResumeFailed, TypeOK
  <2>5. CASE Resolve(e)       BY <2>5 DEF Resolve, TypeOK
  <2>6. CASE AwaitReaper(e)   BY <2>6 DEF AwaitReaper, TypeOK
  <2>7. CASE Wake(e)          BY <2>7 DEF Wake, Contained, TypeOK
  <2>8. CASE Contain(e)       BY <2>8, TerminatedType DEF Contain, Released, TypeOK
  <2>9. CASE ContainFails(e)  BY <2>9, TerminatedType DEF ContainFails, TypeOK
  <2>10. CASE Deliver(e)      BY <2>10 DEF Deliver, TypeOK
  <2> QED BY <1>1, <2>1, <2>2, <2>3, <2>4, <2>5, <2>6, <2>7, <2>8, <2>9, <2>10 DEF Exec
<1>2. ASSUME NEW e \in Execs, Cancel(e) PROVE TypeOK'
  <2>1. /\ cancels' \in [Execs -> 0..MaxCancels]
        /\ answer' \in [Execs -> {"none", "result", "error", "cancelled", "blocked"}]
    BY <1>2, BoundsAssumption DEF Cancel, CancelKept, TypeOK
  <2>2. /\ at' \in [Execs -> Suspended \cup {"idle", "ended"}]
        /\ cleanup' \in [Execs -> {"none", "waiting", "reaping", "ok", "failed", "retired"}]
    BY <1>2, ScheduledType DEF Cancel, TypeOK
  <2> QED
    BY <1>2, <2>1, <2>2 DEF Cancel, TypeOK
<1>3. ASSUME NEW e \in Execs, Cleanup(e) PROVE TypeOK'
  <2>1. CASE ReaperStarts(e)  BY <2>1 DEF ReaperStarts, TypeOK
  <2>2. CASE Reap(e)          BY <2>2, TerminatedType DEF Reap, Released, TypeOK
  <2>3. CASE FinishCleanup(e) BY <2>3 DEF FinishCleanup, TypeOK
  <2> QED BY <1>3, <2>1, <2>2, <2>3 DEF Cleanup
<1>4. ASSUME NEW e \in Execs, System(e) PROVE TypeOK'
  <2>1. CASE Fork(e)             BY <2>1 DEF Fork, NotTasks, TypeOK
  <2>2. CASE CreationResolves(e) BY <2>2 DEF CreationResolves, TypeOK
  <2>3. CASE GroupExits(e)       BY <2>3 DEF GroupExits, GroupGone, NotTasks, TypeOK
  <2>4. CASE CollectorEnds(e)    BY <2>4 DEF CollectorEnds, NotTasks, TypeOK
  <2> QED BY <1>4, <2>1, <2>2, <2>3, <2>4 DEF System
<1>5. CASE Stop
  <2>1. CASE StopWaited       BY <2>1 DEF StopWaited, StopsAt, Over, TypeOK
  <2>2. ASSUME NEW e \in Execs, StopTerminates(e) PROVE TypeOK'
    BY <2>2, TerminatedType DEF StopTerminates, StopsAt, Released, TypeOK
  <2>3. CASE StopLoopEnds     BY <2>3 DEF StopLoopEnds, StopsAt, TypeOK
  <2>4. CASE StopDecides      BY <2>4 DEF StopDecides, StopsAt, ErrorsLeft, TypeOK
  <2> QED BY <1>5, <2>1, <2>2, <2>3, <2>4 DEF Stop
<1>6. CASE StopCalled
  BY <1>6, ScheduledType, BoundsAssumption DEF StopCalled, TypeOK
<1>7. CASE CancelStop         BY <1>7 DEF CancelStop, TypeOK
<1>8. CASE Start              BY <1>8 DEF Start, TypeOK
<1>9. CASE UNCHANGED vars     BY <1>9 DEF vars, TypeOK
<1> QED
  BY <1>1, <1>2, <1>3, <1>4, <1>5, <1>6, <1>7, <1>8, <1>9 DEF Next

(* Every variable keeps its type, and the secrets of a creation are kept exactly as
   long as the creation is pending. *)
THEOREM TypeCorrect == Spec => []TypeOK
BY TypeInit, TypeStep, PTL DEF Spec

-----------------------------------------------------------------------------
(* What is known of one call: who still holds its process at each stage of its
   creation, its reaper and its own cleanup. *)
OwnedOne(e) ==
    /\ proc[e] = "alive" => e \in pending \cup active \cup letGo
    /\ creation[e] \in {"none", "failed"} => proc[e] # "alive"
    /\ creation[e] = "pending" => e \in pending
    /\ creation[e] = "pending" /\ at[e] # "creating" => cleanup[e] = "waiting"
    /\ creation[e] \in {"none", "pending"} => cleanup[e] \in {"none", "waiting"}
    /\ e \in pending => at[e] = "creating" \/ e \in InMap

StageOne(e) ==
    /\ at[e] = "idle" => creation[e] = "none" /\ cleanup[e] = "none"
    /\ at[e] = "creating" => cleanup[e] \in {"none", "waiting"}
    /\ at[e] = "delivering" /\ proc[e] = "alive" => e \in letGo
    /\ at[e] \in {"running", "containing", "delivering"} => creation[e] = "done"

ReapedOne(e) ==
    /\ cleanup[e] \in {"reaping", "failed"} /\ proc[e] = "alive" => e \in active \cup letGo
    /\ cleanup[e] = "ok" /\ proc[e] = "alive" => e \in letGo
    /\ cleanup[e] \in {"failed", "retired"} /\ proc[e] = "alive" => e \in refused \cup letGo
    /\ at[e] = "ended" /\ proc[e] = "alive" => e \in refused \cup letGo \/ cleanup[e] \in {"waiting", "reaping"}

One(e) == OwnedOne(e) /\ StageOne(e) /\ ReapedOne(e)

Owned == \A e \in Execs : One(e)

(* After a termination the group is gone, or alive and let go, or alive and refused. *)
LEMMA TerminationFacts ==
    ASSUME TypeOK, NEW e \in Execs
    PROVE  /\ Terminated(e) =>
                \/ /\ proc' = [proc EXCEPT ![e] = "gone"]
                   /\ refused' = refused \ {e} /\ letGo' = letGo \ {e}
                \/ proc' = proc /\ refused' = refused \ {e} /\ letGo' = letGo \cup {e}
           /\ NotTerminated(e) =>
                \/ proc[e] = "alive" /\ proc' = proc /\ refused' = refused \cup {e} /\ letGo' = letGo
                \/ /\ proc' = [proc EXCEPT ![e] = "gone"]
                   /\ refused' = refused \ {e} /\ letGo' = letGo \ {e}
BY DEF Terminated, NotTerminated, GroupGone, Put

LEMMA OwnedInit == Init => Owned
BY DEF Init, Owned, One, OwnedOne, StageOne, ReapedOne, InMap

LEMMA ExecOwned ==
    ASSUME TypeOK, Owned, NEW e \in Execs, Exec(e)
    PROVE  Owned'
<1> SUFFICES ASSUME NEW x \in Execs PROVE One(x)'
  BY DEF Owned
<1>0. One(x) /\ One(e)
  BY DEF Owned
<1> USE DEF Put, Move, calls, tasks, books, stopper, TypeOK, One, OwnedOne, StageOne,
            ReapedOne, InMap
<1>1. CASE Block(e)         BY <1>0, <1>1 DEF Block
<1>2. CASE Create(e)        BY <1>0, <1>2 DEF Create
<1>3. CASE ResumeCreated(e)
  <2>1. CASE stopRequested
    BY <1>0, <1>3, <2>1, ScheduledType DEF ResumeCreated
  <2>2. CASE ~stopRequested
    BY <1>0, <1>3, <2>2 DEF ResumeCreated
  <2> QED BY <2>1, <2>2
<1>4. CASE ResumeFailed(e)  BY <1>0, <1>4 DEF ResumeFailed
<1>5. CASE Resolve(e)       BY <1>0, <1>5 DEF Resolve
<1>6. CASE AwaitReaper(e)   BY <1>0, <1>6 DEF AwaitReaper
<1>7. CASE Wake(e)          BY <1>0, <1>7 DEF Wake, Contained
<1>8. CASE Contain(e)       BY <1>0, <1>8, TerminationFacts DEF Contain, Released
<1>9. CASE ContainFails(e)  BY <1>0, <1>9, TerminationFacts DEF ContainFails
<1>10. CASE Deliver(e)      BY <1>0, <1>10 DEF Deliver
<1> QED BY <1>1, <1>2, <1>3, <1>4, <1>5, <1>6, <1>7, <1>8, <1>9, <1>10 DEF Exec

LEMMA OtherOwned ==
    ASSUME TypeOK, Owned, [Next]_vars, ~\E e \in Execs : Exec(e)
    PROVE  Owned'
<1> SUFFICES ASSUME NEW x \in Execs PROVE One(x)'
  BY DEF Owned
<1>0. \A e \in Execs : One(e)
  BY DEF Owned
<1> USE DEF Put, calls, tasks, books, stopper, TypeOK, One, OwnedOne, StageOne, ReapedOne, InMap
<1>1. ASSUME NEW e \in Execs, Cancel(e) PROVE One(x)'
  <2>1. /\ at[e] \in Suspended
        /\ at' = [at EXCEPT ![e] = IF at[e] = "creating" THEN "resolving"
                                  ELSE IF at[e] = "running" THEN "containing"
                                  ELSE IF at[e] = "delivering" THEN "ended" ELSE at[e]]
        /\ cleanup' = IF at[e] = "creating" THEN Scheduled({e}) ELSE cleanup
        /\ UNCHANGED <<creation, proc, comm, refused, letGo, pending, secrets, active, errors>>
    BY <1>1 DEF Cancel
  <2>2. CASE at[e] = "creating"
    BY <1>0, <2>1, <2>2, ScheduledType
  <2>3. CASE at[e] # "creating"
    BY <1>0, <2>1, <2>3 DEF Suspended
  <2> QED BY <2>2, <2>3
<1>2. ASSUME NEW e \in Execs, Cleanup(e) PROVE One(x)'
  <2>1. CASE ReaperStarts(e)  BY <1>0, <2>1 DEF ReaperStarts
  <2>2. CASE Reap(e)          BY <1>0, <2>2, TerminationFacts DEF Reap, Released
  <2>3. CASE FinishCleanup(e) BY <1>0, <2>3 DEF FinishCleanup
  <2> QED BY <1>2, <2>1, <2>2, <2>3 DEF Cleanup
<1>3. ASSUME NEW e \in Execs, System(e) PROVE One(x)'
  <2>1. CASE Fork(e)             BY <1>0, <2>1 DEF Fork, NotTasks
  <2>2. CASE CreationResolves(e) BY <1>0, <2>2 DEF CreationResolves
  <2>3. CASE GroupExits(e)       BY <1>0, <2>3 DEF GroupExits, GroupGone, NotTasks
  <2>4. CASE CollectorEnds(e)    BY <1>0, <2>4 DEF CollectorEnds, NotTasks
  <2> QED BY <1>3, <2>1, <2>2, <2>3, <2>4 DEF System
<1>4. CASE Stop
  <2>1. CASE StopWaited       BY <1>0, <2>1 DEF StopWaited
  <2>2. ASSUME NEW e \in Execs, StopTerminates(e) PROVE One(x)'
    BY <1>0, <2>2, TerminationFacts DEF StopTerminates, StopsAt, Released
  <2>3. CASE StopLoopEnds     BY <1>0, <2>3 DEF StopLoopEnds
  <2>4. CASE StopDecides      BY <1>0, <2>4 DEF StopDecides
  <2> QED BY <1>4, <2>1, <2>2, <2>3, <2>4 DEF Stop
<1>5. CASE StopCalled
  BY <1>0, <1>5, ScheduledType DEF StopCalled
<1>6. CASE CancelStop         BY <1>0, <1>6 DEF CancelStop
<1>7. CASE Start              BY <1>0, <1>7 DEF Start
<1>8. CASE UNCHANGED vars     BY <1>0, <1>8 DEF vars
<1> QED
  BY <1>1, <1>2, <1>3, <1>4, <1>5, <1>6, <1>7, <1>8 DEF Next

-----------------------------------------------------------------------------
(* A shutdown stays requested until start() makes the directory again, and a
   cancelled call goes on only through its cleanup. *)
ShutdownInv == stopAt # "idle" \/ ~root => stopRequested

Quiet == ~root => \A e \in Execs : creation[e] # "pending" /\ (proc[e] = "alive" => e \in letGo)

CancelledInv ==
    \A e \in Execs : cancels[e] > 0 =>
        at[e] \in {"resolving", "reaping", "containing", "ended"} /\ answer[e] \notin {"none", "result"}

LEMMA ShutdownStep ==
    ASSUME TypeOK, Owned, ShutdownInv, Quiet, [Next]_vars
    PROVE  ShutdownInv' /\ Quiet'
<1> USE DEF ShutdownInv, Quiet, Put, Move, calls, tasks, books, stopper
<1>1. ASSUME NEW e \in Execs, Exec(e) \/ Cancel(e) \/ Cleanup(e) \/ System(e)
      PROVE  ShutdownInv' /\ Quiet'
  <2>1. UNCHANGED stopper
    BY <1>1, Zenon DEF Exec, Cancel, Cleanup, System, Block, Create, ResumeCreated, ResumeFailed,
       Resolve, AwaitReaper, Wake, Contain, ContainFails, Deliver, ReaperStarts, Reap,
       FinishCleanup, Fork, CreationResolves, GroupExits, CollectorEnds, NotTasks
  <2>2. ~root => ~Create(e) /\ ~Fork(e)
    BY DEF Create, Fork
  <2>3. \A x \in Execs : creation'[x] = "pending" => creation[x] = "pending" \/ Create(e)
    BY <1>1 DEF TypeOK, Exec, Cancel, Cleanup, System, Block, ResumeCreated, ResumeFailed,
       Resolve, AwaitReaper, Wake, Contain, ContainFails, Deliver, ReaperStarts, Reap,
       FinishCleanup, Fork, CreationResolves, GroupExits, CollectorEnds, NotTasks
  <2>4. \A x \in Execs : proc'[x] = "alive" =>
            \/ Fork(e)
            \/ proc[x] = "alive" /\ (x \in letGo => x \in letGo')
    BY <1>1, TerminationFacts DEF TypeOK, Exec, Cancel, Cleanup, System, Block, Create, ResumeCreated,
       ResumeFailed, Resolve, AwaitReaper, Wake, Contain, ContainFails, Deliver, ReaperStarts, Reap,
       FinishCleanup, CreationResolves, GroupExits, GroupGone, CollectorEnds, NotTasks
  <2> QED
    BY <2>1, <2>2, <2>3, <2>4
<1>2. CASE StopWaited     BY <1>2 DEF StopWaited, StopsAt
<1>3. ASSUME NEW e \in Execs, StopTerminates(e) PROVE ShutdownInv' /\ Quiet'
  BY <1>3, TerminationFacts DEF StopTerminates, StopsAt, TypeOK
<1>4. CASE StopLoopEnds   BY <1>4 DEF StopLoopEnds, StopsAt
<1>5. CASE StopDecides
  <2>1. Confirmed => \A e \in Execs : e \notin pending \cup active
    BY DEF Confirmed, TypeOK
  <2>2. Confirmed => \A e \in Execs : creation[e] # "pending" /\ (proc[e] = "alive" => e \in letGo)
    BY <2>1 DEF Owned, One, OwnedOne
  <2> QED
    BY <1>5, <2>2 DEF StopDecides, StopsAt
<1>6. CASE StopCalled     BY <1>6 DEF StopCalled
<1>7. CASE CancelStop     BY <1>7 DEF CancelStop
<1>8. CASE Start          BY <1>8 DEF Start
<1>9. CASE UNCHANGED vars BY <1>9 DEF vars
<1> QED
  BY <1>1, <1>2, <1>3, <1>4, <1>5, <1>6, <1>7, <1>8, <1>9 DEF Next, Stop

LEMMA CancelledStep ==
    ASSUME TypeOK, CancelledInv, [Next]_vars
    PROVE  CancelledInv'
<1> USE DEF CancelledInv, Put, Move, calls, tasks, books, stopper, TypeOK
<1>1. ASSUME NEW e \in Execs, Exec(e) PROVE CancelledInv'
  <2>1. CASE Block(e)         BY <2>1 DEF Block
  <2>2. CASE Create(e)        BY <2>2 DEF Create
  <2>3. CASE ResumeCreated(e) BY <2>3 DEF ResumeCreated
  <2>4. CASE ResumeFailed(e)  BY <2>4 DEF ResumeFailed
  <2>5. CASE Resolve(e)       BY <2>5 DEF Resolve
  <2>6. CASE AwaitReaper(e)   BY <2>6 DEF AwaitReaper
  <2>7. CASE Wake(e)          BY <2>7 DEF Wake
  <2>8. CASE Contain(e)       BY <2>8 DEF Contain
  <2>9. CASE ContainFails(e)  BY <2>9 DEF ContainFails
  <2>10. CASE Deliver(e)      BY <2>10 DEF Deliver
  <2> QED BY <1>1, <2>1, <2>2, <2>3, <2>4, <2>5, <2>6, <2>7, <2>8, <2>9, <2>10 DEF Exec
<1>2. ASSUME NEW e \in Execs, Cancel(e) PROVE CancelledInv'
  BY <1>2 DEF Cancel, CancelKept, Suspended
<1>3. ASSUME NEW e \in Execs, Cleanup(e) \/ System(e) PROVE CancelledInv'
  <2>1. UNCHANGED calls
    BY <1>3, Zenon DEF Cleanup, System, ReaperStarts, Reap, FinishCleanup, Fork, CreationResolves,
       GroupExits, CollectorEnds, NotTasks
  <2> QED BY <2>1
<1>4. CASE Stop \/ StopCalled \/ CancelStop \/ Start \/ UNCHANGED vars
  BY <1>4 DEF Stop, StopWaited, StopTerminates, StopLoopEnds, StopDecides, StopCalled,
     CancelStop, Start, vars
<1> QED
  BY <1>1, <1>2, <1>3, <1>4 DEF Next

LEMMA Invariant == Spec => [](TypeOK /\ Owned /\ ShutdownInv /\ Quiet /\ CancelledInv)
<1>1. Init => ShutdownInv /\ Quiet /\ CancelledInv
  BY DEF Init, ShutdownInv, Quiet, CancelledInv
<1>2. TypeOK /\ Owned /\ [Next]_vars => Owned'
  BY ExecOwned, OtherOwned
<1> QED
  BY <1>1, <1>2, TypeInit, OwnedInit, TypeStep, ShutdownStep, CancelledStep, PTL DEF Spec

(* No process is lost: each live one is still to be handed over by its creation, or is
   in the table stop() goes through, or outlived a termination that returned; and each entry of a creation has somebody
   who will remove it. *)
THEOREM OwnershipCorrect == Spec => []Ownership
<1>1. Owned => EveryProcessOwned
  BY DEF Owned, One, OwnedOne, EveryProcessOwned
<1>2. TypeOK /\ Owned => EntriesHaveOwners
  BY DEF TypeOK, Owned, One, OwnedOne, EntriesHaveOwners
<1> QED
  BY <1>1, <1>2, Invariant, PTL DEF Ownership

(* A call that is over leaves a process only to its reaper, or one whose termination
   raised, or returned with the group alive. *)
THEOREM EndedContainedCorrect == Spec => []EndedContained
<1>1. Owned => EndedContained
  BY DEF Owned, One, ReapedOne, EndedContained
<1> QED
  BY <1>1, Invariant, PTL

(* The directory is deleted only when nothing runs in it but what outlived a termination
   that returned, and nothing appears there until it is made again. *)
THEOREM RemovedWhenQuietCorrect == Spec => []RemovedWhenQuiet
<1>1. Quiet => RemovedWhenQuiet
  BY DEF Quiet, RemovedWhenQuiet
<1> QED
  BY <1>1, Invariant, PTL

(* A cancelled call never returns a result. *)
THEOREM CancelledNeverReturnsCorrect == Spec => []CancelledNeverReturns
<1>1. CancelledInv => CancelledNeverReturns
  BY DEF CancelledInv, CancelledNeverReturns
<1> QED
  BY <1>1, Invariant, PTL

-----------------------------------------------------------------------------
(* The awaits of exec() in the order it meets them, and the lives of a process group. *)
AwaitsLeft(place) ==
    CASE place = "idle" -> 6 [] place = "creating" -> 5 [] place = "resolving" -> 4
      [] place \in {"reaping", "running"} -> 3 [] place = "containing" -> 2
      [] place = "delivering" -> 1 [] OTHER -> 0
LivesLeft(life) == CASE life = "none" -> 2 [] life = "alive" -> 1 [] OTHER -> 0

Forward(e) ==
    /\ at'[e] # at[e] => AwaitsLeft(at'[e]) < AwaitsLeft(at[e])
    /\ proc'[e] # proc[e] => LivesLeft(proc'[e]) < LivesLeft(proc[e])
    /\ at[e] = "ended" => answer'[e] = answer[e]

(* No call meets an await twice, however often it is cancelled and the environment is
   stopped and started; what it has answered stays; and no call has a second process. *)
THEOREM CallsGoForward == Spec => [][\A e \in Execs : Forward(e)]_vars
<1>1. TypeOK /\ [Next]_vars => [\A e \in Execs : Forward(e)]_vars
  <2> SUFFICES ASSUME TypeOK, Next, NEW x \in Execs PROVE Forward(x)
    OBVIOUS
  <2> USE DEF TypeOK, Suspended, Put, Move, calls, tasks, books, stopper, Forward, AwaitsLeft
  <2>1. ASSUME NEW e \in Execs, Block(e) \/ Create(e) \/ ResumeCreated(e) \/ ResumeFailed(e) PROVE Forward(x)
    BY <2>1 DEF Block, Create, ResumeCreated, ResumeFailed
  <2>2. ASSUME NEW e \in Execs, Resolve(e) \/ AwaitReaper(e) \/ Wake(e) \/ Deliver(e) PROVE Forward(x)
    BY <2>2 DEF Resolve, AwaitReaper, Wake, Contained, Deliver
  <2>3. ASSUME NEW e \in Execs, Contain(e) PROVE Forward(x)
    BY <2>3, TerminationFacts DEF Contain, LivesLeft
  <2>4. ASSUME NEW e \in Execs, ContainFails(e) PROVE Forward(x)
    BY <2>4, TerminationFacts DEF ContainFails, LivesLeft
  <2>5. ASSUME NEW e \in Execs, Cancel(e) PROVE Forward(x)
    BY <2>5 DEF Cancel
  <2>6. ASSUME NEW e \in Execs, Cleanup(e) PROVE Forward(x)
    <3>1. UNCHANGED calls
      BY <2>6 DEF Cleanup, ReaperStarts, Reap, FinishCleanup
    <3>2. UNCHANGED proc \/ proc' = [proc EXCEPT ![e] = "gone"]
      BY <2>6, TerminationFacts DEF Cleanup, ReaperStarts, Reap, FinishCleanup
    <3> QED BY <3>1, <3>2 DEF LivesLeft
  <2>7. ASSUME NEW e \in Execs, System(e) PROVE Forward(x)
    BY <2>7 DEF System, Fork, CreationResolves, GroupExits, GroupGone, CollectorEnds, NotTasks, LivesLeft
  <2>8. CASE Stop
    <3>1. UNCHANGED calls
      BY <2>8 DEF Stop, StopWaited, StopTerminates, StopLoopEnds, StopDecides
    <3>2. UNCHANGED proc \/ \E e \in Execs : proc' = [proc EXCEPT ![e] = "gone"]
      BY <2>8, TerminationFacts DEF Stop, StopWaited, StopTerminates, StopLoopEnds, StopDecides
    <3> QED BY <3>1, <3>2 DEF LivesLeft
  <2>9. CASE StopCalled \/ CancelStop \/ Start
    BY <2>9 DEF StopCalled, CancelStop, Start
  <2> QED
    BY <2>1, <2>2, <2>3, <2>4, <2>5, <2>6, <2>7, <2>8, <2>9 DEF Next, Exec
<1> QED
  BY <1>1, TypeCorrect, PTL DEF Spec
=============================================================================
