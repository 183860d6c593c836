------------------------ MODULE HarborProcess_proofs ------------------------
(****************************************************************************)
(* Proofs about HarborProcess, for every set of descendants, every output   *)
(* budget and chunk size, with and without a deadline.  The arithmetic of   *)
(* the output budget is kept apart from the control state.                  *)
(****************************************************************************)
EXTENDS HarborProcess, Integers, TLAPS

LEMMA StatesInit == Init => StatesOK
BY DEF Init, StatesOK, Stages, Errors, InGroup, Holding

(* Every step keeps the control state well typed: one step per action. *)
LEMMA StatesStep == StatesOK /\ [Next]_vars => StatesOK'
<1> SUFFICES ASSUME StatesOK, [Next]_vars PROVE StatesOK'
  OBVIOUS
<1> USE DEF StatesOK, Stages, Errors, Proceed, Raise, Return, Goto, Polled,
            Elsewhere, ElsewhereButLeader, NotThreads, NotGroup,
            supervisor, group, threads, signals
<1>1. CASE Launching
  <2>1. CASE RefuseLaunch   BY <2>1 DEF RefuseLaunch
  <2>2. CASE PassCheck      BY <2>2 DEF PassCheck
  <2>3. CASE SpawnFails     BY <2>3 DEF SpawnFails
  <2>4. CASE Spawn          BY <2>4 DEF Spawn
  <2>5. CASE StartThreads   BY <2>5 DEF StartThreads
  <2> QED BY <1>1, <2>1, <2>2, <2>3, <2>4, <2>5 DEF Launching
<1>2. CASE Polling
  <2>1. CASE CheckStop      BY <2>1 DEF CheckStop
  <2>2. CASE CheckDone      BY <2>2 DEF CheckDone
  <2>3. CASE CheckCancel    BY <2>3 DEF CheckCancel
  <2>4. CASE CheckDeadline  BY <2>4 DEF CheckDeadline, DeadlineSeen
  <2>5. CASE AfterLoop      BY <2>5 DEF AfterLoop
  <2> QED BY <1>2, <2>1, <2>2, <2>3, <2>4, <2>5 DEF Polling
<1>3. CASE Stopping
  <2>1. CASE Terminate      BY <2>1 DEF Terminate
  <2>2. CASE EndGrace       BY <2>2 DEF EndGrace
  <2>3. CASE Kill           BY <2>3 DEF Kill, InGroup, Holding
  <2>4. CASE Reap           BY <2>4 DEF Reap
  <2>5. CASE ReapExpires
    <3>1. CASE ~InHandler   BY <2>5, <3>1 DEF ReapExpires, TerminationFails
    <3>2. CASE InHandler    BY <2>5, <3>2 DEF ReapExpires, TerminationFails
    <3> QED BY <3>1, <3>2
  <2>6. CASE TermRefused \/ KillRefused
    <3>1. ASSUME NEW from \in Stages, NEW to \in Stages, NEW s \in {"TERM", "KILL"},
                 SignalRefused(from, to, s), elapsed' \in {elapsed, elapsed \ {"grace"}}
          PROVE  StatesOK'
      <4>1. /\ pc' \in Stages /\ primary' \in Errors \cup {"none"} /\ cleanupFailed' \in BOOLEAN
            /\ UNCHANGED <<outcome, timedOut>>
        BY <3>1 DEF SignalRefused, TerminationFails
      <4>2. /\ leader' \in {leader, "reaped"} /\ refused' \subseteq {"TERM", "KILL"}
            /\ elapsed' \subseteq {"deadline", "grace"}
            /\ UNCHANGED <<sent, child, environments, stop, threads>>
        BY <3>1 DEF SignalRefused
      <4> HIDE DEF Proceed, Raise, Return, Goto, Polled
      <4> QED BY <4>1, <4>2
    <3> QED BY <2>6, <3>1 DEF TermRefused, KillRefused
  <2> QED BY <1>3, <2>1, <2>2, <2>3, <2>4, <2>5, <2>6 DEF Stopping
<1>4. CASE Ending
  <2>1. CASE Join           BY <2>1 DEF Join
  <2>2. CASE JoinExpires    BY <2>2 DEF JoinExpires
  <2>3. CASE Verdict        BY <2>3 DEF Verdict, VerdictError
  <2>4. CASE Handler        BY <2>4 DEF Handler
  <2>5. CASE HandlerJoin    BY <2>5 DEF HandlerJoin
  <2> QED BY <1>4, <2>1, <2>2, <2>3, <2>4, <2>5 DEF Ending
<1>5. CASE Reader
  <2>1. ASSUME NEW n \in 1..MaxChunk, ReadChunk(n) PROVE StatesOK'
    <3>1. exceeded' \in BOOLEAN /\ reader' \in {"closing", "reading"}
      BY <2>1 DEF ReadChunk
    <3> QED BY <2>1, <3>1 DEF ReadChunk
  <2>2. CASE ReadEOF        BY <2>2 DEF ReadEOF
  <2>3. CASE ReadFails      BY <2>3 DEF ReadFails
  <2>4. CASE ReaderCloses   BY <2>4 DEF ReaderCloses
  <2> QED BY <1>5, <2>1, <2>2, <2>3, <2>4 DEF Reader
<1>6. CASE WriteStdin       BY <1>6 DEF WriteStdin
<1>7. CASE Group
  <2>1. ASSUME NEW d \in Descendants, NEW s \in {"piped", "silent", "detached"},
               SpawnChild(d, s)
        PROVE  StatesOK'
    BY <2>1 DEF SpawnChild, InGroup, Holding
  <2>2. ASSUME NEW d \in Descendants, ChildExits(d) PROVE StatesOK'
    BY <2>2 DEF ChildExits, InGroup, Holding
  <2>3. CASE StartEnvironments BY <2>3 DEF StartEnvironments
  <2>4. CASE HandleTerm     BY <2>4 DEF HandleTerm
  <2>5. CASE LeaderExits
    <3>1. /\ leader' = "exited" /\ environments' = FALSE
          /\ UNCHANGED <<child, supervisor, stop, threads, elapsed, signals>>
      BY <2>5 DEF LeaderExits
    <3> HIDE DEF Stages, Errors, Proceed, Raise, Return, Goto, Polled, Elsewhere,
                 ElsewhereButLeader, NotThreads, NotGroup, group
    <3> QED BY <3>1
  <2> QED BY <1>7, <2>1, <2>2, <2>3, <2>4, <2>5 DEF Group
<1>8. CASE LeaderDies       BY <1>8 DEF LeaderDies
<1>9. CASE \E e \in {"requested", "forced"} : SetEvent(e)  BY <1>9 DEF SetEvent
<1>10. CASE \E t \in {"deadline", "grace"} : Pass(t)       BY <1>10 DEF Pass
<1>11. CASE UNCHANGED vars  BY <1>11 DEF vars
<1> QED
  BY <1>1, <1>2, <1>3, <1>4, <1>5, <1>6, <1>7, <1>8, <1>9, <1>10, <1>11
    DEF Next, Supervise, Terminated

(* The reader accepts no more than the output budget, whatever it reads. *)
LEMMA BudgetStep ==
    ASSUME consumed \in 0..OutputBudget, [Next]_vars
    PROVE  consumed' \in 0..OutputBudget
<1>1. ASSUME NEW n \in 1..MaxChunk, ReadChunk(n) PROVE consumed' \in 0..OutputBudget
  BY <1>1, BudgetAssumption DEF ReadChunk, ConsumedAfter
<1>2. ASSUME ~\E n \in 1..MaxChunk : ReadChunk(n) PROVE UNCHANGED consumed
  BY <1>2 DEF Next, vars, threads, Supervise, Launching, Polling, Stopping, Ending,
       RefuseLaunch, PassCheck, SpawnFails, Spawn, StartThreads, CheckStop, CheckDone,
       CheckCancel, CheckDeadline, AfterLoop, Terminate, TermRefused, EndGrace, Kill, KillRefused,
       SignalRefused, TerminationFails, Reap, ReapExpires, Join, JoinExpires, Verdict, Handler, HandlerJoin, Elsewhere,
       ElsewhereButLeader, Reader, ReadEOF, ReadFails, ReaderCloses, WriteStdin,
       Group, SpawnChild, ChildExits, StartEnvironments, HandleTerm, LeaderExits,
       LeaderDies, NotGroup, SetEvent, Pass, Terminated
<1> QED
  BY <1>1, <1>2

(* The typing invariant holds in every reachable state; with it, that the output
   accepted from Harbor never exceeds max_output_bytes. *)
THEOREM TypeCorrect == Spec => []TypeOK
<1>1. Init => TypeOK
  BY StatesInit, BudgetAssumption DEF TypeOK, Init
<1>2. TypeOK /\ [Next]_vars => TypeOK'
  BY StatesStep, BudgetStep DEF TypeOK
<1> QED
  BY <1>1, <1>2, PTL DEF Spec

-----------------------------------------------------------------------------
(* What the reader, the supervisor and the group know of each other: why a
   verdict can be trusted.  It is the inductive part of VerdictIsHarbors and of
   NothingRunsBehindACaller. *)
BeforeTermination == {"start", "spawn", "threads", "checkStop", "checkDone",
                      "checkCancel", "checkDeadline", "after"}
InBody == BeforeTermination \cup {"join", "verdict"}
Stopped == timedOut \/ MustStop
Asked == sent \cup refused
Noted == cleanupFailed /\ (refused # {} \/ "KILL" \in sent)

Trust ==
    /\ pc # "done" => outcome = "none"
    /\ pc \in {"start", "spawn"} => leader = "none"
    /\ pc \in {"start", "spawn", "threads"} => reader = "off"
    /\ reader \in {"off", "reading"} => ~exceeded
    /\ pc \in InBody => primary = "none"
    /\ pc \in {"handler", "handlerJoin"} => primary # "none"
    /\ pc \in BeforeTermination => Asked = {} /\ ~cleanupFailed
    /\ pc \in {"after", "join", "verdict"} => reader = "done" \/ Stopped
    /\ pc \in {"term", "grace", "kill", "reap"} /\ primary = "none" => Stopped
    /\ Asked # {} /\ primary = "none" => Stopped
    /\ pc = "reap" => "KILL" \in sent \/ ("KILL" \in refused /\ leader = "reaped")
    /\ pc = "handlerJoin" => Noted \/ (leader = "reaped" /\ (reader = "done" \/ "KILL" \in Asked))
    /\ cleanupFailed => Noted /\ pc \in {"handlerJoin", "done"}
    /\ reader \in {"closing", "done"} => sawEOF \/ MustStop
    /\ outcome = "result" => reader = "done" /\ sent = {} /\ sawEOF /\ ~exceeded

LEMMA TrustInit == Init => Trust
BY DEF Init, Trust, BeforeTermination, InBody, Stopped, Asked, Noted, MustStop

LEMMA TrustStep == StatesOK /\ Trust /\ [Next]_vars => Trust'
<1> SUFFICES ASSUME StatesOK, Trust, [Next]_vars PROVE Trust'
  OBVIOUS
<1> USE DEF Trust, BeforeTermination, InBody, Stopped, Asked, Noted, MustStop,
            Proceed, Raise, Return, Goto, Polled, LeaderGone,
            Elsewhere, ElsewhereButLeader, NotThreads, NotGroup,
            supervisor, group, threads, signals
<1>1. CASE Launching
  <2>1. CASE RefuseLaunch   BY <2>1 DEF RefuseLaunch
  <2>2. CASE PassCheck      BY <2>2 DEF PassCheck
  <2>3. CASE SpawnFails     BY <2>3 DEF SpawnFails
  <2>4. CASE Spawn          BY <2>4 DEF Spawn
  <2>5. CASE StartThreads   BY <2>5 DEF StartThreads
  <2> QED BY <1>1, <2>1, <2>2, <2>3, <2>4, <2>5 DEF Launching
<1>2. CASE Polling
  <2>1. CASE CheckStop      BY <2>1 DEF CheckStop
  <2>2. CASE CheckDone      BY <2>2 DEF CheckDone
  <2>3. CASE CheckCancel    BY <2>3 DEF CheckCancel
  <2>4. CASE CheckDeadline  BY <2>4 DEF CheckDeadline
  <2>5. CASE AfterLoop      BY <2>5 DEF AfterLoop, MustTerminate
  <2> QED BY <1>2, <2>1, <2>2, <2>3, <2>4, <2>5 DEF Polling
<1>3. CASE Stopping
  <2>1. CASE Terminate      BY <2>1 DEF Terminate
  <2>2. CASE EndGrace       BY <2>2 DEF EndGrace
  <2>3. CASE Kill           BY <2>3 DEF Kill
  <2>4. CASE Reap           BY <2>4 DEF Reap, InHandler
  <2>5. CASE ReapExpires    BY <2>5 DEF ReapExpires, TerminationFails, InHandler
  <2>6. CASE TermRefused    BY <2>6 DEF TermRefused, SignalRefused, TerminationFails, InHandler
  <2>7. CASE KillRefused    BY <2>7 DEF KillRefused, SignalRefused, TerminationFails, InHandler
  <2> QED BY <1>3, <2>1, <2>2, <2>3, <2>4, <2>5, <2>6, <2>7 DEF Stopping
<1>4. CASE Ending
  <2>1. CASE Join           BY <2>1 DEF Join
  <2>2. CASE JoinExpires    BY <2>2 DEF JoinExpires
  <2>3. CASE Verdict        BY <2>3 DEF Verdict, VerdictError
  <2>4. CASE Handler        BY <2>4 DEF Handler, NeedsCleanup
  <2>5. CASE HandlerJoin    BY <2>5 DEF HandlerJoin, StatesOK, Errors
  <2> QED BY <1>4, <2>1, <2>2, <2>3, <2>4, <2>5 DEF Ending
<1>5. CASE Reader
  <2>1. ASSUME NEW n \in 1..MaxChunk, ReadChunk(n) PROVE Trust'
    <3>1. /\ reader = "reading" /\ exceeded' \in BOOLEAN
          /\ reader' = IF exceeded' THEN "closing" ELSE "reading"
          /\ UNCHANGED <<sawEOF, writer, failures>> /\ NotThreads
      BY <2>1 DEF ReadChunk
    <3> QED BY <3>1
  <2>2. CASE ReadEOF        BY <2>2 DEF ReadEOF
  <2>3. CASE ReadFails      BY <2>3 DEF ReadFails
  <2>4. CASE ReaderCloses   BY <2>4 DEF ReaderCloses
  <2> QED BY <1>5, <2>1, <2>2, <2>3, <2>4 DEF Reader
<1>6. CASE WriteStdin       BY <1>6 DEF WriteStdin
<1>7. CASE Group
  <2>1. ASSUME NEW d \in Descendants, NEW s \in {"piped", "silent", "detached"},
               SpawnChild(d, s)
        PROVE  Trust'
    BY <2>1 DEF SpawnChild
  <2>2. ASSUME NEW d \in Descendants, ChildExits(d) PROVE Trust'
    BY <2>2 DEF ChildExits
  <2>3. CASE StartEnvironments BY <2>3 DEF StartEnvironments
  <2>4. CASE HandleTerm     BY <2>4 DEF HandleTerm
  <2>5. CASE LeaderExits    BY <2>5 DEF LeaderExits
  <2> QED BY <1>7, <2>1, <2>2, <2>3, <2>4, <2>5 DEF Group
<1>8. CASE LeaderDies       BY <1>8 DEF LeaderDies
<1>9. CASE \E e \in {"requested", "forced"} : SetEvent(e)  BY <1>9 DEF SetEvent
<1>10. CASE \E t \in {"deadline", "grace"} : Pass(t)       BY <1>10 DEF Pass
<1>11. CASE UNCHANGED vars  BY <1>11 DEF vars
<1> QED
  BY <1>1, <1>2, <1>3, <1>4, <1>5, <1>6, <1>7, <1>8, <1>9, <1>10, <1>11
    DEF Next, Supervise, Terminated

LEMMA Trusted == Spec => [](StatesOK /\ Trust)
<1>1. Init => StatesOK /\ Trust
  BY StatesInit, TrustInit
<1>2. StatesOK /\ Trust /\ [Next]_vars => (StatesOK /\ Trust)'
  BY StatesStep, TrustStep
<1> QED
  BY <1>1, <1>2, PTL DEF Spec

(* An exit code is reported as Harbor's own only when nobody signalled the group
   and the whole output was read. *)
THEOREM VerdictCorrect == Spec => []VerdictIsHarbors
<1>1. StatesOK /\ Trust => VerdictIsHarbors
  BY DEF StatesOK, Trust, VerdictIsHarbors
<1> QED
  BY <1>1, Trusted, PTL

(* The function raises only with Harbor reaped, and its output closed or its group
   sent SIGKILL, or with the note of a cleanup that failed for a reason. *)
THEOREM CallerCorrect == Spec => NothingRunsBehindACaller
<1> DEFINE Step == outcome = "none" /\ outcome' \in Errors /\ leader # "none" =>
                       \/ leader = "reaped" /\ (reader = "done" \/ "KILL" \in sent \cup refused)
                       \/ cleanupFailed /\ (refused # {} \/ "KILL" \in sent)
<1>1. Trust /\ [Next]_vars => [Step]_vars
  <2> SUFFICES ASSUME Trust, Next, outcome = "none", outcome' \in Errors, leader # "none"
               PROVE  Step
    OBVIOUS
  <2>1. CASE RefuseLaunch \/ SpawnFails
    BY <2>1 DEF RefuseLaunch, SpawnFails, Return, Goto, Trust
  <2>2. CASE Verdict
    BY <2>2 DEF Verdict, Raise, Return, Goto, Errors
  <2>3. CASE HandlerJoin
    BY <2>3 DEF HandlerJoin, Return, Goto, Trust, Asked, Noted
  <2>4. CASE UNCHANGED outcome
    BY <2>4 DEF Errors
  <2>5. RefuseLaunch \/ SpawnFails \/ Verdict \/ HandlerJoin \/ UNCHANGED outcome
    BY DEF Next, Supervise, Launching, Polling, Stopping, Ending, PassCheck, Spawn,
       StartThreads, CheckStop, CheckDone, CheckCancel, CheckDeadline, AfterLoop,
       Terminate, TermRefused, EndGrace, Kill, KillRefused, SignalRefused, TerminationFails, Reap,
       ReapExpires, Join, JoinExpires, Handler,
       Proceed, Raise, Reader, ReadChunk, ReadEOF, ReadFails, ReaderCloses, WriteStdin,
       NotThreads, Group, SpawnChild, ChildExits, StartEnvironments, HandleTerm,
       LeaderExits, LeaderDies, NotGroup, SetEvent, Pass, Terminated, supervisor, vars
  <2> QED
    BY <2>1, <2>2, <2>3, <2>4, <2>5
<1>2. Spec => [][Step]_vars
  BY <1>1, Trusted, PTL DEF Spec
<1> QED
  BY <1>2 DEF NothingRunsBehindACaller

-----------------------------------------------------------------------------
(* What SIGKILL and the end of the output leave of the group, and of Harbor's
   environments. *)
GroupInv ==
    /\ "KILL" \in sent => /\ leader \in {"killed", "exited", "reaped"}
                          /\ \A d \in Descendants : child[d] \notin InGroup
    /\ leader = "killed" => "KILL" \in sent
    /\ sawEOF => leader \in {"exited", "reaped"} /\ \A d \in Descendants : child[d] \notin Holding
    /\ leader = "none" \/ (leader \in {"exited", "reaped"} /\ "KILL" \notin sent) => ~environments

(* Where Harbor has been reaped, and what a verdict owes to the SIGKILL. *)
ReapInv ==
    /\ pc \in {"join", "verdict"} => leader = "reaped"
    /\ pc = "after" => leader = "reaped" \/ Stopped
    /\ pc \in {"handlerJoin", "done"} => leader \in {"none", "reaped"} \/ cleanupFailed
    /\ pc \notin {"start", "spawn", "done"} => leader # "none"
    /\ pc \in {"join", "verdict"} => "KILL" \in Asked \/ (~timedOut /\ ~exceeded /\ reader = "done")
    /\ primary = "timeout" \/ outcome \in {"timeout", "exceeded"} => "KILL" \in Asked

(* What is left of the environments when a cancelled call is on its way out. *)
EnvironmentsInv ==
    LET Cut == \/ "forced" \in stop \/ "grace" \in elapsed
               \/ cleanupFailed /\ "TERM" \in refused
        Down == ~environments /\ leader # "running" IN
    /\ primary = "cancelled" /\ pc \in {"handler", "term", "grace", "kill"} => "KILL" \notin sent
    /\ primary = "cancelled" /\ pc \in {"kill", "reap", "handlerJoin"} => Cut \/ Down
    /\ outcome = "cancelled" => Cut \/ Down

(* Every step keeps the part about the group, ... *)
LEMMA GroupStep ==
    ASSUME StatesOK, Trust, GroupInv, [Next]_vars
    PROVE  GroupInv'
<1> USE DEF GroupInv, StatesOK, Trust, BeforeTermination, InGroup, Holding,
            Proceed, Raise, Return, Goto, Polled, LeaderGone, Elsewhere, ElsewhereButLeader,
            NotThreads, NotGroup, supervisor, group, threads, signals
<1>1. CASE Launching
  <2>1. CASE RefuseLaunch   BY <2>1 DEF RefuseLaunch
  <2>2. CASE PassCheck      BY <2>2 DEF PassCheck
  <2>3. CASE SpawnFails     BY <2>3 DEF SpawnFails
  <2>4. CASE Spawn          BY <2>4 DEF Spawn
  <2>5. CASE StartThreads   BY <2>5 DEF StartThreads
  <2> QED BY <1>1, <2>1, <2>2, <2>3, <2>4, <2>5 DEF Launching
<1>2. CASE Polling
  <2>1. CASE CheckStop      BY <2>1 DEF CheckStop
  <2>2. CASE CheckDone      BY <2>2 DEF CheckDone
  <2>3. CASE CheckCancel    BY <2>3 DEF CheckCancel
  <2>4. CASE CheckDeadline  BY <2>4 DEF CheckDeadline
  <2>5. CASE AfterLoop      BY <2>5 DEF AfterLoop, MustTerminate
  <2> QED BY <1>2, <2>1, <2>2, <2>3, <2>4, <2>5 DEF Polling
<1>3. CASE Stopping
  <2>1. CASE Terminate      BY <2>1 DEF Terminate
  <2>2. CASE EndGrace       BY <2>2 DEF EndGrace, GraceEnded
  <2>3. CASE Kill           BY <2>3 DEF Kill
  <2>4. CASE Reap           BY <2>4 DEF Reap, InHandler
  <2>5. CASE ReapExpires    BY <2>5 DEF ReapExpires, TerminationFails, InHandler
  <2>6. CASE TermRefused    BY <2>6 DEF TermRefused, SignalRefused, TerminationFails, InHandler
  <2>7. CASE KillRefused    BY <2>7 DEF KillRefused, SignalRefused, TerminationFails, InHandler
  <2> QED BY <1>3, <2>1, <2>2, <2>3, <2>4, <2>5, <2>6, <2>7 DEF Stopping
<1>4. CASE Ending
  <2>1. CASE Join           BY <2>1 DEF Join
  <2>2. CASE JoinExpires    BY <2>2 DEF JoinExpires
  <2>3. CASE Verdict        BY <2>3 DEF Verdict, VerdictError
  <2>4. CASE Handler        BY <2>4 DEF Handler, NeedsCleanup
  <2>5. CASE HandlerJoin    BY <2>5 DEF HandlerJoin
  <2> QED BY <1>4, <2>1, <2>2, <2>3, <2>4, <2>5 DEF Ending
<1>5. CASE Reader
  <2>1. ASSUME NEW n \in 1..MaxChunk, ReadChunk(n) PROVE GroupInv'
    <3>1. /\ reader = "reading" /\ exceeded' \in BOOLEAN /\ reader' # "done"
          /\ UNCHANGED <<sawEOF, writer, failures>> /\ NotThreads
      BY <2>1 DEF ReadChunk
    <3> QED BY <3>1
  <2>2. CASE ReadEOF        BY <2>2 DEF ReadEOF, PipeClosed
  <2>3. CASE ReadFails      BY <2>3 DEF ReadFails
  <2>4. CASE ReaderCloses   BY <2>4 DEF ReaderCloses
  <2> QED BY <1>5, <2>1, <2>2, <2>3, <2>4 DEF Reader
<1>6. CASE WriteStdin       BY <1>6 DEF WriteStdin
<1>7. CASE Group
  <2>1. ASSUME NEW d \in Descendants, NEW s \in {"piped", "silent", "detached"},
               SpawnChild(d, s)
        PROVE  GroupInv'
    BY <2>1 DEF SpawnChild
  <2>2. ASSUME NEW d \in Descendants, ChildExits(d) PROVE GroupInv'
    BY <2>2 DEF ChildExits
  <2>3. CASE StartEnvironments BY <2>3 DEF StartEnvironments
  <2>4. CASE HandleTerm     BY <2>4 DEF HandleTerm
  <2>5. CASE LeaderExits    BY <2>5 DEF LeaderExits
  <2> QED BY <1>7, <2>1, <2>2, <2>3, <2>4, <2>5 DEF Group
<1>8. CASE LeaderDies       BY <1>8 DEF LeaderDies
<1>9. CASE \E e \in {"requested", "forced"} : SetEvent(e)  BY <1>9 DEF SetEvent
<1>10. CASE \E t \in {"deadline", "grace"} : Pass(t)       BY <1>10 DEF Pass
<1>11. CASE UNCHANGED vars  BY <1>11 DEF vars
<1> QED
  BY <1>1, <1>2, <1>3, <1>4, <1>5, <1>6, <1>7, <1>8, <1>9, <1>10, <1>11
    DEF Next, Supervise, Terminated

(* ... the part about the reaped leader, ... *)
LEMMA ReapStep ==
    ASSUME StatesOK, Trust, GroupInv, ReapInv, [Next]_vars
    PROVE  ReapInv'
<1> USE DEF ReapInv, Trust, StatesOK, Errors, BeforeTermination, InBody, Stopped, Asked, Noted, MustStop,
            Proceed, Raise, Return, Goto, Polled, LeaderGone, Elsewhere, ElsewhereButLeader,
            NotThreads, NotGroup, supervisor, group, threads, signals
<1>1. CASE Launching
  <2>1. CASE RefuseLaunch   BY <2>1 DEF RefuseLaunch
  <2>2. CASE PassCheck      BY <2>2 DEF PassCheck
  <2>3. CASE SpawnFails     BY <2>3 DEF SpawnFails
  <2>4. CASE Spawn          BY <2>4 DEF Spawn
  <2>5. CASE StartThreads   BY <2>5 DEF StartThreads
  <2> QED BY <1>1, <2>1, <2>2, <2>3, <2>4, <2>5 DEF Launching
<1>2. CASE Polling
  <2>1. CASE CheckStop      BY <2>1 DEF CheckStop
  <2>2. CASE CheckDone      BY <2>2 DEF CheckDone
  <2>3. CASE CheckCancel    BY <2>3 DEF CheckCancel
  <2>4. CASE CheckDeadline  BY <2>4 DEF CheckDeadline
  <2>5. CASE AfterLoop      BY <2>5 DEF AfterLoop, MustTerminate
  <2> QED BY <1>2, <2>1, <2>2, <2>3, <2>4, <2>5 DEF Polling
<1>3. CASE Stopping
  <2>1. CASE Terminate      BY <2>1 DEF Terminate
  <2>2. CASE EndGrace       BY <2>2 DEF EndGrace, GraceEnded
  <2>3. CASE Kill           BY <2>3 DEF Kill
  <2>4. CASE Reap           BY <2>4 DEF Reap, InHandler
  <2>5. CASE ReapExpires    BY <2>5 DEF ReapExpires, TerminationFails, InHandler, GroupInv
  <2>6. CASE TermRefused    BY <2>6 DEF TermRefused, SignalRefused, TerminationFails, InHandler, GroupInv
  <2>7. CASE KillRefused    BY <2>7 DEF KillRefused, SignalRefused, TerminationFails, InHandler, GroupInv
  <2> QED BY <1>3, <2>1, <2>2, <2>3, <2>4, <2>5, <2>6, <2>7 DEF Stopping
<1>4. CASE Ending
  <2>1. CASE Join           BY <2>1 DEF Join
  <2>2. CASE JoinExpires    BY <2>2 DEF JoinExpires
  <2>3. CASE Verdict        BY <2>3 DEF Verdict, VerdictError
  <2>4. CASE Handler        BY <2>4 DEF Handler, NeedsCleanup
  <2>5. CASE HandlerJoin    BY <2>5 DEF HandlerJoin
  <2> QED BY <1>4, <2>1, <2>2, <2>3, <2>4, <2>5 DEF Ending
<1>5. CASE Reader
  <2>1. ASSUME NEW n \in 1..MaxChunk, ReadChunk(n) PROVE ReapInv'
    <3>1. /\ reader = "reading" /\ exceeded' \in BOOLEAN /\ reader' # "done"
          /\ UNCHANGED <<sawEOF, writer, failures>> /\ NotThreads
      BY <2>1 DEF ReadChunk
    <3> QED BY <3>1
  <2>2. CASE ReadEOF        BY <2>2 DEF ReadEOF, PipeClosed
  <2>3. CASE ReadFails      BY <2>3 DEF ReadFails
  <2>4. CASE ReaderCloses   BY <2>4 DEF ReaderCloses
  <2> QED BY <1>5, <2>1, <2>2, <2>3, <2>4 DEF Reader
<1>6. CASE WriteStdin       BY <1>6 DEF WriteStdin
<1>7. CASE Group
  <2>1. ASSUME NEW d \in Descendants, NEW s \in {"piped", "silent", "detached"},
               SpawnChild(d, s)
        PROVE  ReapInv'
    BY <2>1 DEF SpawnChild
  <2>2. ASSUME NEW d \in Descendants, ChildExits(d) PROVE ReapInv'
    BY <2>2 DEF ChildExits
  <2>3. CASE StartEnvironments BY <2>3 DEF StartEnvironments
  <2>4. CASE HandleTerm     BY <2>4 DEF HandleTerm
  <2>5. CASE LeaderExits    BY <2>5 DEF LeaderExits
  <2> QED BY <1>7, <2>1, <2>2, <2>3, <2>4, <2>5 DEF Group
<1>8. CASE LeaderDies       BY <1>8 DEF LeaderDies
<1>9. CASE \E e \in {"requested", "forced"} : SetEvent(e)  BY <1>9 DEF SetEvent
<1>10. CASE \E t \in {"deadline", "grace"} : Pass(t)       BY <1>10 DEF Pass
<1>11. CASE UNCHANGED vars  BY <1>11 DEF vars
<1> QED
  BY <1>1, <1>2, <1>3, <1>4, <1>5, <1>6, <1>7, <1>8, <1>9, <1>10, <1>11
    DEF Next, Supervise, Terminated

(* ... and the part about the environments. *)
LEMMA EnvironmentsStep ==
    ASSUME StatesOK, Trust, GroupInv, EnvironmentsInv, [Next]_vars
    PROVE  EnvironmentsInv'
<1> USE DEF EnvironmentsInv, GroupInv, Trust, Asked, StatesOK, BeforeTermination, InBody,
            Proceed, Raise, Return, Goto, Polled, LeaderGone, Elsewhere, ElsewhereButLeader,
            NotThreads, NotGroup, supervisor, group, threads, signals
<1>1. CASE Launching
  <2>1. CASE RefuseLaunch   BY <2>1 DEF RefuseLaunch
  <2>2. CASE PassCheck      BY <2>2 DEF PassCheck
  <2>3. CASE SpawnFails     BY <2>3 DEF SpawnFails
  <2>4. CASE Spawn          BY <2>4 DEF Spawn
  <2>5. CASE StartThreads   BY <2>5 DEF StartThreads
  <2> QED BY <1>1, <2>1, <2>2, <2>3, <2>4, <2>5 DEF Launching
<1>2. CASE Polling
  <2>1. CASE CheckStop      BY <2>1 DEF CheckStop
  <2>2. CASE CheckDone      BY <2>2 DEF CheckDone
  <2>3. CASE CheckCancel    BY <2>3 DEF CheckCancel
  <2>4. CASE CheckDeadline  BY <2>4 DEF CheckDeadline
  <2>5. CASE AfterLoop      BY <2>5 DEF AfterLoop, MustTerminate
  <2> QED BY <1>2, <2>1, <2>2, <2>3, <2>4, <2>5 DEF Polling
<1>3. CASE Stopping
  <2>1. CASE Terminate      BY <2>1 DEF Terminate
  <2>2. CASE EndGrace       BY <2>2 DEF EndGrace, GraceEnded
  <2>3. CASE Kill           BY <2>3 DEF Kill
  <2>4. CASE Reap           BY <2>4 DEF Reap, InHandler
  <2>5. CASE ReapExpires    BY <2>5 DEF ReapExpires, TerminationFails, InHandler
  <2>6. CASE TermRefused    BY <2>6 DEF TermRefused, SignalRefused, TerminationFails, InHandler
  <2>7. CASE KillRefused    BY <2>7 DEF KillRefused, SignalRefused, TerminationFails, InHandler
  <2> QED BY <1>3, <2>1, <2>2, <2>3, <2>4, <2>5, <2>6, <2>7 DEF Stopping
<1>4. CASE Ending
  <2>1. CASE Join           BY <2>1 DEF Join
  <2>2. CASE JoinExpires    BY <2>2 DEF JoinExpires
  <2>3. CASE Verdict        BY <2>3 DEF Verdict, VerdictError
  <2>4. CASE Handler        BY <2>4 DEF Handler, NeedsCleanup
  <2>5. CASE HandlerJoin    BY <2>5 DEF HandlerJoin
  <2> QED BY <1>4, <2>1, <2>2, <2>3, <2>4, <2>5 DEF Ending
<1>5. CASE Reader
  <2>1. ASSUME NEW n \in 1..MaxChunk, ReadChunk(n) PROVE EnvironmentsInv'
    <3>1. /\ reader = "reading" /\ exceeded' \in BOOLEAN /\ reader' # "done"
          /\ UNCHANGED <<sawEOF, writer, failures>> /\ NotThreads
      BY <2>1 DEF ReadChunk
    <3> QED BY <3>1
  <2>2. CASE ReadEOF        BY <2>2 DEF ReadEOF, PipeClosed
  <2>3. CASE ReadFails      BY <2>3 DEF ReadFails
  <2>4. CASE ReaderCloses   BY <2>4 DEF ReaderCloses
  <2> QED BY <1>5, <2>1, <2>2, <2>3, <2>4 DEF Reader
<1>6. CASE WriteStdin       BY <1>6 DEF WriteStdin
<1>7. CASE Group
  <2>1. ASSUME NEW d \in Descendants, NEW s \in {"piped", "silent", "detached"},
               SpawnChild(d, s)
        PROVE  EnvironmentsInv'
    BY <2>1 DEF SpawnChild
  <2>2. ASSUME NEW d \in Descendants, ChildExits(d) PROVE EnvironmentsInv'
    BY <2>2 DEF ChildExits
  <2>3. CASE StartEnvironments BY <2>3 DEF StartEnvironments
  <2>4. CASE HandleTerm     BY <2>4 DEF HandleTerm
  <2>5. CASE LeaderExits    BY <2>5 DEF LeaderExits
  <2> QED BY <1>7, <2>1, <2>2, <2>3, <2>4, <2>5 DEF Group
<1>8. CASE LeaderDies       BY <1>8 DEF LeaderDies
<1>9. CASE \E e \in {"requested", "forced"} : SetEvent(e)  BY <1>9 DEF SetEvent
<1>10. CASE \E t \in {"deadline", "grace"} : Pass(t)       BY <1>10 DEF Pass
<1>11. CASE UNCHANGED vars  BY <1>11 DEF vars
<1> QED
  BY <1>1, <1>2, <1>3, <1>4, <1>5, <1>6, <1>7, <1>8, <1>9, <1>10, <1>11
    DEF Next, Supervise, Terminated

LEMMA Contains == Spec => [](StatesOK /\ Trust /\ GroupInv /\ ReapInv /\ EnvironmentsInv)
<1>1. Init => GroupInv /\ ReapInv /\ EnvironmentsInv
  BY DEF Init, GroupInv, ReapInv, EnvironmentsInv, InGroup, Holding
<1> QED
  BY <1>1, StatesInit, TrustInit, StatesStep, TrustStep, GroupStep, ReapStep, EnvironmentsStep,
     PTL DEF Spec

(* When the call is over without a note Harbor is reaped and, once it was killed or its output has
   ended, nothing of it is left that this can tell of. *)
THEOREM ContainedCorrect == Spec => []Contained
<1>1. StatesOK /\ GroupInv /\ ReapInv => Contained
  BY DEF StatesOK, GroupInv, ReapInv, Contained, Asked
<1> QED
  BY <1>1, Contains, PTL

(* A cancelled call leaves environments only when its grace period was cut short or its
   SIGTERM was refused, of which the exception then carries a note. *)
THEOREM InterruptedJobCorrect == Spec => []InterruptedJobCleansUp
<1>1. EnvironmentsInv => InterruptedJobCleansUp
  BY DEF EnvironmentsInv, InterruptedJobCleansUp
<1> QED
  BY <1>1, Contains, PTL

-----------------------------------------------------------------------------
(* Why the call ends as it does: it is cancelled only on request, it times out only
   when it has a deadline, and everything after the launch has a process. *)
Reasons ==
    /\ primary = "cancelled" => "requested" \in stop
    /\ "deadline" \in elapsed \/ timedOut => HasDeadline
    /\ primary = "timeout" => timedOut
    /\ pc \notin {"start", "spawn", "done"} => leader # "none"

LEMMA ReasonsStep ==
    ASSUME StatesOK, Trust, Reasons, [Next]_vars
    PROVE  Reasons'
<1> USE DEF Reasons, StatesOK, Trust, BeforeTermination, InBody, Proceed, Raise, Return, Goto,
            Polled, LeaderGone, Elsewhere, ElsewhereButLeader, NotThreads, NotGroup,
            supervisor, group, threads, signals
<1>1. CASE Launching
  BY <1>1 DEF Launching, RefuseLaunch, PassCheck, SpawnFails, Spawn, StartThreads
<1>2. CASE Polling
  BY <1>2 DEF Polling, CheckStop, CheckDone, CheckCancel, CancelSeen, CheckDeadline, DeadlineSeen,
              AfterLoop
<1>3. CASE Stopping
  BY <1>3 DEF Stopping, Terminate, TermRefused, EndGrace, Kill, KillRefused, SignalRefused,
              TerminationFails, Reap, ReapExpires, InHandler
<1>4. CASE Ending
  BY <1>4 DEF Ending, Join, JoinExpires, Verdict, VerdictError, Handler, HandlerJoin
<1>5. CASE Reader
  BY <1>5 DEF Reader, ReadChunk, ReadEOF, ReadFails, ReaderCloses
<1>6. CASE WriteStdin
  BY <1>6 DEF WriteStdin
<1>7. CASE Group \/ LeaderDies
  BY <1>7 DEF Group, SpawnChild, ChildExits, StartEnvironments, HandleTerm, LeaderExits, LeaderDies
<1>8. CASE \E e \in {"requested", "forced"} : SetEvent(e)
  BY <1>8 DEF SetEvent
<1>9. CASE \E t \in {"deadline", "grace"} : Pass(t)
  BY <1>9 DEF Pass
<1>10. CASE UNCHANGED vars
  BY <1>10 DEF vars
<1> QED
  BY <1>1, <1>2, <1>3, <1>4, <1>5, <1>6, <1>7, <1>8, <1>9, <1>10 DEF Next, Supervise, Terminated

LEMMA Reasoned == Spec => [](StatesOK /\ Trust /\ Reasons)
<1>1. Init => Reasons
  BY DEF Init, Reasons
<1> QED
  BY <1>1, StatesInit, TrustInit, StatesStep, TrustStep, ReasonsStep, PTL DEF Spec

(* Every step of the call is a step of the one-job contract or leaves it alone: the
   supervising thread ends the job with its last step, the launch starts it, and
   only the event that is set first is a request. *)
LEMMA StepRefines ==
    ASSUME StatesOK, Trust, Reasons, [Next]_vars
    PROVE  [Abstract!Next]_(Abstract!vars)
<1> DEFINE job == IF pc = "done" THEN "ended" ELSE IF leader = "none" THEN "idle" ELSE "running"
           requested == "requested" \in stop
<1> USE DEF Elsewhere, ElsewhereButLeader, NotThreads, NotGroup, supervisor, group, threads, signals
<1>1. CASE UNCHANGED <<job, outcome, requested>>
  BY <1>1 DEF Abstract!vars
<1>2. CASE RefuseLaunch
  <2>1. job = "idle" /\ requested /\ job' = "ended" /\ outcome' = "cancelled"
        /\ UNCHANGED requested
    BY <1>2 DEF RefuseLaunch, Return, Goto, Trust
  <2> QED
    BY <2>1 DEF Abstract!Next, Abstract!Refuse
<1>3. CASE SpawnFails
  <2>1. job = "idle" /\ job' = "ended" /\ outcome' = "error" /\ UNCHANGED requested
    BY <1>3 DEF SpawnFails, Return, Goto, Trust
  <2> QED
    BY <2>1 DEF Abstract!Next, Abstract!LaunchFails
<1>4. CASE Spawn
  <2>1. job = "idle" /\ job' = "running" /\ UNCHANGED <<outcome, requested>>
    BY <1>4 DEF Spawn, Proceed, Goto, Trust
  <2> QED
    BY <2>1 DEF Abstract!Next, Abstract!Launch
<1>5. CASE Verdict \/ HandlerJoin
  <2>1. CASE pc' # "done"
    <3>1. UNCHANGED <<job, outcome, requested>>
      BY <1>5, <2>1 DEF Verdict, HandlerJoin, Raise, Return, Goto
    <3> QED
      BY <3>1 DEF Abstract!vars
  <2>2. CASE pc' = "done"
    <3>1. /\ job = "running" /\ job' = "ended" /\ UNCHANGED requested
          /\ outcome' \in {"result", "exceeded"} \/ outcome' = primary
      BY <1>5, <2>2 DEF Verdict, HandlerJoin, Raise, Return, Goto, Reasons
    <3>2. /\ outcome' \in Abstract!Outcomes
          /\ outcome' = "cancelled" => requested
          /\ outcome' = "timeout" => HasDeadline
      BY <1>5, <2>2, <3>1
        DEF Verdict, HandlerJoin, Raise, Return, Goto, Reasons, Trust, StatesOK, Errors,
            Abstract!Outcomes
    <3> QED
      BY <3>1, <3>2 DEF Abstract!Next, Abstract!Finish, Abstract!End
  <2> QED
    BY <2>1, <2>2
<1>6. ASSUME NEW e \in {"requested", "forced"}, SetEvent(e)
      PROVE  [Abstract!Next]_(Abstract!vars)
  <2>1. UNCHANGED <<job, outcome>> /\ stop' = stop \cup {e} /\ e \notin stop
    BY <1>6 DEF SetEvent
  <2>2. CASE e = "requested"
    BY <2>1, <2>2 DEF Abstract!Next, Abstract!Request
  <2>3. CASE e = "forced"
    BY <2>1, <2>3 DEF Abstract!vars
  <2> QED
    BY <2>2, <2>3
<1>7. CASE Supervise /\ ~(RefuseLaunch \/ SpawnFails \/ Spawn \/ Verdict \/ HandlerJoin)
  <2>1. pc # "done" /\ pc' # "done" /\ UNCHANGED <<outcome, stop>>
    BY <1>7 DEF Supervise, Launching, Polling, Stopping, Ending, PassCheck, StartThreads, CheckStop,
       CheckDone, CheckCancel, CheckDeadline, AfterLoop, Terminate, TermRefused, EndGrace, Kill, KillRefused,
       SignalRefused, TerminationFails, Reap, ReapExpires, Join, JoinExpires, Handler, Proceed, Raise, Goto
  <2>2. (leader' = "none") = (leader = "none")
    BY <1>7 DEF Supervise, Launching, Polling, Stopping, Ending, PassCheck, StartThreads, CheckStop,
       CheckDone, CheckCancel, CheckDeadline, AfterLoop, Terminate, TermRefused, EndGrace, Kill, KillRefused,
       SignalRefused, TerminationFails, Reap, ReapExpires, Join, JoinExpires, Handler, Proceed, Raise, Goto, Polled, LeaderGone, Reasons
  <2> QED
    BY <1>1, <2>1, <2>2
<1>8. CASE Reader \/ WriteStdin \/ Group \/ LeaderDies
  <2>1. UNCHANGED <<pc, outcome, stop>> /\ (leader' = "none") = (leader = "none")
    BY <1>8 DEF Reader, ReadChunk, ReadEOF, ReadFails, ReaderCloses, WriteStdin, Group, SpawnChild,
       ChildExits, StartEnvironments, HandleTerm, LeaderExits, LeaderDies
  <2> QED
    BY <1>1, <2>1
<1>9. CASE (\E t \in {"deadline", "grace"} : Pass(t)) \/ UNCHANGED vars
  BY <1>1, <1>9 DEF Pass, vars
<1> QED
  BY <1>2, <1>3, <1>4, <1>5, <1>6, <1>7, <1>8, <1>9 DEF Next, Supervise, Terminated

(* The safety part of ImplementsHarborJob: the supervision of a process implements
   the one-job contract that the run composes. *)
THEOREM RefinesHarborJob == Spec => Abstract!Init /\ [][Abstract!Next]_(Abstract!vars)
<1>1. Init => Abstract!Init
  BY DEF Init, Abstract!Init
<1> QED
  BY <1>1, Reasoned, StepRefines, PTL DEF Spec
=============================================================================
