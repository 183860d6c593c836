-------------------------- MODULE StopOnPass_proofs --------------------------
(***************************************************************************)
(* For any number of cases, attempts and workers: what is merged is the    *)
(* whole condition, nothing follows a pass or a stop, and failures are     *)
(* reported.                                                               *)
(***************************************************************************)
EXTENDS StopOnPass, Integers, TLAPS

(* The attempts of a case, in order: those after n[c] have left nothing, the
   one that runs has left nothing yet, and a pass ends the case. *)
History(c) ==
    /\ future[c] = "queued" => at[c] = "top" /\ n[c] = 0
    /\ at[c] = "launch" => n[c] < Attempts
    /\ at[c] = "job" => n[c] \in 1 .. Attempts /\ verdict[c][n[c]] = "none"
    /\ \A a \in 1 .. Attempts : n[c] < a => verdict[c][a] = "none"
    /\ \A a \in 1 .. Attempts :
         verdict[c][a] = "pass" => a = n[c] /\ future[c] = "returned" /\ at[c] = "top"

Reported(c) ==
    \A a \in 1 .. Attempts :
        /\ verdict[c][a] = "error" => a \in reported[c]
        /\ verdict[c][a] = "timeout" /\ a \notin reported[c] =>
             \E b \in (a + 1) .. Attempts : verdict[c][b] \in {"pass", "low"}
        /\ a \in reported[c] => verdict[c][a] # "none"

HistoryInv == TypeOK /\ \A c \in Cases : History(c) /\ Reported(c)

Complete(c) == Passed(c) \/ n[c] = Attempts

(* How the futures, the event and the main thread agree. *)
Scheduled(c) ==
    /\ future[c] = "raised" => stop
    /\ future[c] = "returned" => Complete(c) \/ stop
    /\ c \in harvested => future[c] = "returned"
    /\ main = "merged" => future[c] = "returned" /\ Complete(c)
    /\ main = "raised" => future[c] \notin {"queued", "running"}

StopSurfaces == main = "waiting" /\ stop => \E c \in Cases : future[c] = "raised"

IInv == HistoryInv /\ StopSurfaces /\ \A c \in Cases : Scheduled(c)

-----------------------------------------------------------------------------
(* Nothing has run in the initial states. *)
LEMMA IInvInit == Init => IInv
<1> SUFFICES ASSUME Init PROVE IInv
  OBVIOUS
<1>1. Places
  BY DEF Init, Places
<1>2. Records
  BY CasesAssumption, BoundsAssumption DEF Init, Records, Verdicts
<1>3. \A c \in Cases : History(c) /\ Reported(c)
  BY CasesAssumption, BoundsAssumption DEF Init, History, Reported
<1>4. StopSurfaces /\ \A c \in Cases : Scheduled(c)
  BY DEF Init, StopSurfaces, Scheduled
<1> QED  BY <1>1, <1>2, <1>3, <1>4 DEF IInv, HistoryInv, TypeOK

(* The first queued case is queued. *)
LEMMA FirstIsQueued == \A c \in Cases : FirstQueued(c) => future[c] = "queued"
  BY DEF FirstQueued, Queued

(* Every step keeps the places of the threads. *)
LEMMA PlacesStep == Places /\ [Next]_vars => Places'
<1> SUFFICES ASSUME Places, [Next]_vars PROVE Places'
  OBVIOUS
<1> USE DEF Places
<1>1. ASSUME NEW c \in Cases, Start(c) PROVE Places'
  BY <1>1, FirstIsQueued DEF Start, Settle, caseVars, mainVars
<1>2. ASSUME NEW c \in Cases, Head(c) PROVE Places'
  BY <1>2 DEF Head, Settle, GoTo, mainVars
<1>3. ASSUME NEW c \in Cases, Launch(c) PROVE Places'
  BY <1>3 DEF Launch, Raise, Settle, GoTo, caseVars, mainVars
<1>4. ASSUME NEW c \in Cases, JobCancelled(c) PROVE Places'
  BY <1>4 DEF JobCancelled, Raise, Settle, caseVars, mainVars
<1>5. ASSUME NEW c \in Cases, CaseFails(c) PROVE Places'
  BY <1>5 DEF CaseFails, Raise, Settle, caseVars, mainVars
<1>6. ASSUME NEW c \in Cases, Harvest(c) PROVE Places'
  BY <1>6 DEF Harvest, caseVars
<1>7. ASSUME NEW c \in Cases, CancelQueued(c) PROVE Places'
  BY <1>7, FirstIsQueued DEF CancelQueued, Settle, caseVars, mainVars
<1>8. ASSUME NEW c \in Cases, NEW v \in Verdicts \ {"none"}, JobReturns(c, v) PROVE Places'
  BY <1>8 DEF JobReturns, Settle, GoTo, mainVars
<1>9. CASE LeaveFailed
  BY <1>9 DEF LeaveFailed, caseVars
<1>10. CASE Merge
  BY <1>10 DEF Merge, caseVars
<1>11. CASE Request
  BY <1>11 DEF Request, caseVars, mainVars
<1>12. CASE UNCHANGED vars
  BY <1>12 DEF vars
<1> QED
  BY <1>1, <1>2, <1>3, <1>4, <1>5, <1>6, <1>7, <1>8, <1>9, <1>10, <1>11, <1>12 DEF Next, CaseStep, MainStep

(* Every step keeps the types of the records. *)
LEMMA RecordsStep == HistoryInv /\ [Next]_vars => Records'
<1> SUFFICES ASSUME HistoryInv, [Next]_vars PROVE Records'
  OBVIOUS
<1> USE CasesAssumption, BoundsAssumption DEF HistoryInv, TypeOK, Records
<1>1. ASSUME NEW c \in Cases, Start(c) PROVE Records'
  BY <1>1, FirstIsQueued DEF Start, Settle, caseVars, mainVars
<1>2. ASSUME NEW c \in Cases, Head(c) PROVE Records'
  BY <1>2 DEF Head, Settle, GoTo, mainVars
<1>3. ASSUME NEW c \in Cases, Launch(c) PROVE Records'
  <2>1. CASE requested
    BY <1>3, <2>1 DEF Launch, Raise, Settle, caseVars, mainVars
  <2>2. CASE ~requested
    <3>1. n[c] < Attempts
      BY <1>3 DEF Launch, History
    <3>2. n' = [n EXCEPT ![c] = n[c] + 1] /\ UNCHANGED <<verdict, reported>>
      BY <1>3, <2>2 DEF Launch
    <3> QED  BY <3>1, <3>2
  <2> QED  BY <2>1, <2>2
<1>4. ASSUME NEW c \in Cases, JobCancelled(c) PROVE Records'
  BY <1>4 DEF JobCancelled, Raise, Settle, caseVars, mainVars
<1>5. ASSUME NEW c \in Cases, CaseFails(c) PROVE Records'
  BY <1>5 DEF CaseFails, Raise, Settle, caseVars, mainVars
<1>6. ASSUME NEW c \in Cases, Harvest(c) PROVE Records'
  BY <1>6 DEF Harvest, caseVars
<1>7. ASSUME NEW c \in Cases, CancelQueued(c) PROVE Records'
  BY <1>7, FirstIsQueued DEF CancelQueued, Settle, caseVars, mainVars
<1>8. ASSUME NEW c \in Cases, NEW v \in Verdicts \ {"none"}, JobReturns(c, v) PROVE Records'
  <2>1. n[c] \in 1 .. Attempts
    BY <1>8 DEF JobReturns, History
  <2>2. verdict' \in [Cases -> [1 .. Attempts -> Verdicts]]
    BY <1>8 DEF JobReturns
  <2>3. reported' \in [Cases -> SUBSET (1 .. Attempts)]
    <3>1. CASE v \in {"pass", "low"}
      <4>1. PICK R : reported' = [reported EXCEPT ![c] = reported[c] \ R]
        BY <1>8, <3>1 DEF JobReturns
      <4> QED  BY <4>1
    <3>2. CASE v \notin {"pass", "low"}
      <4>1. reported' = [reported EXCEPT ![c] = reported[c] \cup {n[c]}]
        BY <1>8, <3>2 DEF JobReturns
      <4> QED  BY <4>1, <2>1
    <3> QED  BY <3>1, <3>2
  <2> QED  BY <1>8, <2>2, <2>3 DEF JobReturns
<1>9. CASE LeaveFailed
  BY <1>9 DEF LeaveFailed, caseVars
<1>10. CASE Merge
  BY <1>10 DEF Merge, caseVars
<1>11. CASE Request
  BY <1>11 DEF Request, caseVars, mainVars
<1>12. CASE UNCHANGED vars
  BY <1>12 DEF vars
<1> QED
  BY <1>1, <1>2, <1>3, <1>4, <1>5, <1>6, <1>7, <1>8, <1>9, <1>10, <1>11, <1>12 DEF Next, CaseStep, MainStep

(* Every step keeps the histories of all cases. *)
LEMMA HistoryStep ==
  HistoryInv /\ [Next]_vars => \A d \in Cases : (History(d) /\ Reported(d))'
<1> SUFFICES ASSUME HistoryInv, [Next]_vars
             PROVE  \A d \in Cases : (History(d) /\ Reported(d))'
  OBVIOUS
<1> USE CasesAssumption, BoundsAssumption
        DEF HistoryInv, TypeOK, Places, Records, History, Reported, Verdicts
<1>1. ASSUME NEW c \in Cases, Start(c) PROVE \A d \in Cases : (History(d) /\ Reported(d))'
  BY <1>1, FirstIsQueued DEF Start, Settle, caseVars, mainVars
<1>2. ASSUME NEW c \in Cases, Head(c) PROVE \A d \in Cases : (History(d) /\ Reported(d))'
  BY <1>2 DEF Head, Settle, GoTo, mainVars, MoreAttempts
<1>3. ASSUME NEW c \in Cases, Launch(c) PROVE \A d \in Cases : (History(d) /\ Reported(d))'
  <2>1. CASE requested
    BY <1>3, <2>1 DEF Launch, Raise, Settle, caseVars, mainVars
  <2>2. CASE ~requested
    BY <1>3, <2>2 DEF Launch, GoTo, mainVars
  <2> QED
    BY <2>1, <2>2
<1>4. ASSUME NEW c \in Cases, JobCancelled(c) PROVE \A d \in Cases : (History(d) /\ Reported(d))'
  BY <1>4 DEF JobCancelled, Raise, Settle, caseVars, mainVars
<1>5. ASSUME NEW c \in Cases, CaseFails(c) PROVE \A d \in Cases : (History(d) /\ Reported(d))'
  BY <1>5 DEF CaseFails, Raise, Settle, caseVars, mainVars
<1>6. ASSUME NEW c \in Cases, Harvest(c) PROVE \A d \in Cases : (History(d) /\ Reported(d))'
  BY <1>6 DEF Harvest, caseVars
<1>7. ASSUME NEW c \in Cases, CancelQueued(c) PROVE \A d \in Cases : (History(d) /\ Reported(d))'
  BY <1>7, FirstIsQueued DEF CancelQueued, Settle, caseVars, mainVars
<1>8. ASSUME NEW c \in Cases, NEW v \in Verdicts \ {"none"}, JobReturns(c, v)
      PROVE  \A d \in Cases : (History(d) /\ Reported(d))'
  <2>1. ASSUME NEW d \in Cases PROVE History(d)'
    BY <1>8 DEF JobReturns, Settle, GoTo, mainVars
  <2>2. ASSUME NEW d \in Cases PROVE Reported(d)'
    <3>1. /\ verdict' = [verdict EXCEPT ![c] = [@ EXCEPT ![n[c]] = v]]
          /\ IF v \in {"pass", "low"}
               THEN \E R \in Recovers(c) : reported' = [reported EXCEPT ![c] = @ \ R]
               ELSE reported' = [reported EXCEPT ![c] = @ \cup {n[c]}]
          /\ at[c] = "job" /\ n' = n
      BY <1>8 DEF JobReturns
    <3> QED  BY <1>8, <3>1 DEF Recovers
  <2> QED  BY <2>1, <2>2
<1>9. CASE LeaveFailed
  BY <1>9 DEF LeaveFailed, caseVars
<1>10. CASE Merge
  BY <1>10 DEF Merge, caseVars
<1>11. CASE Request
  BY <1>11 DEF Request, caseVars, mainVars
<1>12. CASE UNCHANGED vars
  BY <1>12 DEF vars
<1> QED
  BY <1>1, <1>2, <1>3, <1>4, <1>5, <1>6, <1>7, <1>8, <1>9, <1>10, <1>11, <1>12 DEF Next, CaseStep, MainStep

(* A case changes its completeness only while it runs. *)
LEMMA CompleteStays ==
  ASSUME HistoryInv, [Next]_vars, NEW d \in Cases, Complete(d), future[d] # "running"
  PROVE  Complete(d)'
<1> USE DEF Complete, Passed, HistoryInv, TypeOK, Places, Records
<1>1. ASSUME NEW c \in Cases, Start(c) PROVE Complete(d)'
  BY <1>1, FirstIsQueued DEF Start, caseVars, mainVars
<1>2. ASSUME NEW c \in Cases, Head(c) PROVE Complete(d)'
  BY <1>2 DEF Head, GoTo, mainVars
<1>3. ASSUME NEW c \in Cases, Launch(c) PROVE Complete(d)'
  BY <1>3 DEF Launch, Raise, GoTo, caseVars, mainVars
<1>4. ASSUME NEW c \in Cases, JobCancelled(c) PROVE Complete(d)'
  BY <1>4 DEF JobCancelled, Raise, caseVars, mainVars
<1>5. ASSUME NEW c \in Cases, CaseFails(c) PROVE Complete(d)'
  BY <1>5 DEF CaseFails, Raise, caseVars, mainVars
<1>6. ASSUME NEW c \in Cases, Harvest(c) PROVE Complete(d)'
  BY <1>6 DEF Harvest, caseVars
<1>7. ASSUME NEW c \in Cases, CancelQueued(c) PROVE Complete(d)'
  BY <1>7, FirstIsQueued DEF CancelQueued, caseVars, mainVars
<1>8. ASSUME NEW c \in Cases, NEW v \in Verdicts \ {"none"}, JobReturns(c, v) PROVE Complete(d)'
  BY <1>8 DEF JobReturns
<1>9. CASE LeaveFailed
  BY <1>9 DEF LeaveFailed, caseVars
<1>10. CASE Merge
  BY <1>10 DEF Merge, caseVars
<1>11. CASE Request
  BY <1>11 DEF Request, caseVars, mainVars
<1>12. CASE UNCHANGED vars
  BY <1>12 DEF vars
<1> QED
  BY <1>1, <1>2, <1>3, <1>4, <1>5, <1>6, <1>7, <1>8, <1>9, <1>10, <1>11, <1>12 DEF Next, CaseStep, MainStep

(* A case returns only when it is complete, or launches have stopped. *)
LEMMA ReturnsComplete ==
  ASSUME HistoryInv, [Next]_vars, NEW d \in Cases,
         future[d] # "returned", future'[d] = "returned"
  PROVE  (Complete(d) \/ stop)'
<1> USE BoundsAssumption DEF Complete, Passed, HistoryInv, TypeOK, Places, Records, History
<1>1. ASSUME NEW c \in Cases, Start(c) PROVE (Complete(d) \/ stop)'
  BY <1>1, FirstIsQueued DEF Start, Settle, caseVars, mainVars
<1>2. ASSUME NEW c \in Cases, Head(c) PROVE (Complete(d) \/ stop)'
  BY <1>2 DEF Head, Settle, GoTo, mainVars, MoreAttempts
<1>3. ASSUME NEW c \in Cases, Launch(c) PROVE (Complete(d) \/ stop)'
  BY <1>3 DEF Launch, Raise, Settle, GoTo, caseVars, mainVars
<1>4. ASSUME NEW c \in Cases, JobCancelled(c) PROVE (Complete(d) \/ stop)'
  BY <1>4 DEF JobCancelled, Raise, Settle, caseVars, mainVars
<1>5. ASSUME NEW c \in Cases, CaseFails(c) PROVE (Complete(d) \/ stop)'
  BY <1>5 DEF CaseFails, Raise, Settle, caseVars, mainVars
<1>6. ASSUME NEW c \in Cases, Harvest(c) PROVE (Complete(d) \/ stop)'
  BY <1>6 DEF Harvest, caseVars
<1>7. ASSUME NEW c \in Cases, CancelQueued(c) PROVE (Complete(d) \/ stop)'
  BY <1>7, FirstIsQueued DEF CancelQueued, Settle, caseVars, mainVars
<1>8. ASSUME NEW c \in Cases, NEW v \in Verdicts \ {"none"}, JobReturns(c, v) PROVE (Complete(d) \/ stop)'
  <2>1. c = d /\ v = "pass" /\ n[c] \in 1 .. Attempts
    BY <1>8 DEF JobReturns, Settle
  <2>2. verdict'[d][n[d]] = "pass"
    BY <1>8, <2>1 DEF JobReturns
  <2> QED  BY <2>1, <2>2
<1>9. CASE LeaveFailed
  BY <1>9 DEF LeaveFailed, caseVars
<1>10. CASE Merge
  BY <1>10 DEF Merge, caseVars
<1>11. CASE Request
  BY <1>11 DEF Request, caseVars, mainVars
<1>12. CASE UNCHANGED vars
  BY <1>12 DEF vars
<1> QED
  BY <1>1, <1>2, <1>3, <1>4, <1>5, <1>6, <1>7, <1>8, <1>9, <1>10, <1>11, <1>12 DEF Next, CaseStep, MainStep

(* What one step does to the futures, the event and the main thread. *)
Moves(d) ==
    /\ stop => stop'
    /\ future[d] \notin {"queued", "running"} => future'[d] = future[d]
    /\ future'[d] = "raised" /\ future[d] # "raised" => stop'
    /\ d \in harvested' => d \in harvested \/ future[d] = "returned"
    /\ main' = "waiting" => main = "waiting"
    /\ main' = "merged" => main = "merged" \/ (main = "waiting" /\ harvested = Cases)
    /\ main' = "raised" => main = "raised" \/ future[d] \notin {"queued", "running"}
    /\ stop' /\ ~stop => main' = "cancelling" \/ \E c \in Cases : future'[c] = "raised"

(* Every step moves them so. *)
LEMMA StepMoves ==
  ASSUME Places, [Next]_vars, NEW d \in Cases
  PROVE  Moves(d)
<1> USE DEF Moves, Places
<1>1. ASSUME NEW c \in Cases, Start(c) PROVE Moves(d)
  BY <1>1, FirstIsQueued DEF Start, Settle, caseVars, mainVars
<1>2. ASSUME NEW c \in Cases, Head(c) PROVE Moves(d)
  BY <1>2 DEF Head, Settle, GoTo, mainVars
<1>3. ASSUME NEW c \in Cases, Launch(c) PROVE Moves(d)
  BY <1>3 DEF Launch, Raise, Settle, GoTo, caseVars, mainVars
<1>4. ASSUME NEW c \in Cases, JobCancelled(c) PROVE Moves(d)
  BY <1>4 DEF JobCancelled, Raise, Settle, caseVars, mainVars
<1>5. ASSUME NEW c \in Cases, CaseFails(c) PROVE Moves(d)
  BY <1>5 DEF CaseFails, Raise, Settle, caseVars, mainVars
<1>6. ASSUME NEW c \in Cases, Harvest(c) PROVE Moves(d)
  BY <1>6 DEF Harvest, caseVars, Surfaces
<1>7. ASSUME NEW c \in Cases, CancelQueued(c) PROVE Moves(d)
  BY <1>7, FirstIsQueued DEF CancelQueued, Settle, caseVars, mainVars
<1>8. ASSUME NEW c \in Cases, NEW v \in Verdicts \ {"none"}, JobReturns(c, v) PROVE Moves(d)
  BY <1>8 DEF JobReturns, Settle, GoTo, mainVars
<1>9. CASE LeaveFailed
  BY <1>9 DEF LeaveFailed, caseVars, PoolIdle, Running, Queued
<1>10. CASE Merge
  BY <1>10 DEF Merge, caseVars, PoolIdle, Running, Queued
<1>11. CASE Request
  BY <1>11 DEF Request, caseVars, mainVars
<1>12. CASE UNCHANGED vars
  BY <1>12 DEF vars
<1> QED
  BY <1>1, <1>2, <1>3, <1>4, <1>5, <1>6, <1>7, <1>8, <1>9, <1>10, <1>11, <1>12 DEF Next, CaseStep, MainStep

(* The futures, the event and the main thread keep agreeing. *)
LEMMA ScheduledStep ==
  IInv /\ [Next]_vars => StopSurfaces' /\ \A d \in Cases : Scheduled(d)'
<1> SUFFICES ASSUME IInv, [Next]_vars
             PROVE  StopSurfaces' /\ \A d \in Cases : Scheduled(d)'
  OBVIOUS
<1>1. HistoryInv /\ Places
  BY DEF IInv, HistoryInv, TypeOK
<1>2. \A d \in Cases : Moves(d)
  BY <1>1, StepMoves
<1>3. StopSurfaces'
  <2>1. SUFFICES ASSUME main' = "waiting", stop' PROVE \E c \in Cases : future'[c] = "raised"
    BY DEF StopSurfaces
  <2>2. CASE stop
    <3>1. 1 \in Cases
      BY CasesAssumption DEF Cases
    <3>2. main = "waiting"
      BY <1>2, <2>1, <3>1 DEF Moves
    <3>3. PICK c \in Cases : future[c] = "raised"
      BY <2>2, <3>2 DEF IInv, StopSurfaces
    <3> QED  BY <1>2, <3>3 DEF Moves
  <2>3. CASE ~stop
    <3>1. 1 \in Cases
      BY CasesAssumption DEF Cases
    <3> QED  BY <1>2, <2>1, <2>3, <3>1 DEF Moves
  <2> QED  BY <2>2, <2>3
<1>4. ASSUME NEW d \in Cases PROVE Scheduled(d)'
  <2> USE <1>1, <1>2
  <2>1. Scheduled(d) /\ Moves(d)
    BY DEF IInv
  <2>2. (future[d] = "raised" => stop)'
    BY <2>1 DEF Scheduled, Moves
  <2>3. (future[d] = "returned" => Complete(d) \/ stop)'
    <3>1. CASE future[d] = "returned"
      BY <2>1, <3>1, CompleteStays DEF Scheduled, Moves
    <3>2. CASE future[d] # "returned"
      BY <3>2, ReturnsComplete
    <3> QED  BY <3>1, <3>2
  <2>4. (d \in harvested => future[d] = "returned")'
    BY <2>1 DEF Scheduled, Moves
  <2>5. (main = "merged" => future[d] = "returned" /\ Complete(d))'
    <3>1. SUFFICES ASSUME main' = "merged" PROVE (future[d] = "returned" /\ Complete(d))'
      OBVIOUS
    <3>2. future[d] = "returned" /\ Complete(d)
      <4>1. CASE main = "merged"
        BY <2>1, <4>1 DEF Scheduled
      <4>2. CASE main = "waiting" /\ harvested = Cases
        <5>1. \A c \in Cases : future[c] = "returned"
          BY <4>2 DEF IInv, Scheduled
        <5>2. ~stop
          BY <4>2, <5>1 DEF IInv, StopSurfaces
        <5> QED  BY <2>1, <5>1, <5>2 DEF Scheduled
      <4> QED  BY <2>1, <3>1, <4>1, <4>2 DEF Moves
    <3> QED  BY <2>1, <3>2, CompleteStays DEF Moves
  <2>6. (main = "raised" => future[d] \notin {"queued", "running"})'
    BY <2>1 DEF Scheduled, Moves
  <2> QED  BY <2>2, <2>3, <2>4, <2>5, <2>6 DEF Scheduled
<1> QED  BY <1>3, <1>4

(* The invariant is inductive. *)
LEMMA IInvStep == IInv /\ [Next]_vars => IInv'
  BY PlacesStep, RecordsStep, HistoryStep, ScheduledStep DEF IInv, HistoryInv, TypeOK

(* Every reachable state satisfies the invariant. *)
THEOREM Invariant == Spec => []IInv
<1> QED  BY IInvInit, IInvStep, PTL DEF Spec

(* The state has its type. *)
THEOREM TypeCorrect == Spec => []TypeOK
<1>1. IInv => TypeOK  BY DEF IInv, HistoryInv
<1> QED  BY <1>1, Invariant, PTL

(* What is merged is the whole condition, for any cases, attempts and workers. *)
THEOREM MergeCorrect == Spec => []MergedIsComplete
<1>1. IInv => MergedIsComplete  BY DEF IInv, Scheduled, Complete, MergedIsComplete
<1> QED  BY <1>1, Invariant, PTL

(* Nothing is launched for a case after an attempt of it passed. *)
THEOREM PassCorrect == Spec => []NothingAfterPass
<1>1. IInv => NothingAfterPass
  BY DEF IInv, HistoryInv, TypeOK, Records, History, NothingAfterPass
<1> QED  BY <1>1, Invariant, PTL

(* Failed attempts are reported unless a later one of the case recovered them. *)
THEOREM ReportCorrect == Spec => []FailuresReported
<1>1. IInv => FailuresReported  BY DEF IInv, HistoryInv, Reported, FailuresReported
<1> QED  BY <1>1, Invariant, PTL

(* After the event a case that is not past the test of its loop launches nothing, and
   does not come past it. *)
Stopped(c, k) == stop /\ n[c] = k /\ ~Launching(c)

LEMMA StoppedStays ==
    ASSUME NEW c \in Cases, NEW k \in 0 .. Attempts, IInv, Stopped(c, k), [Next]_vars
    PROVE  Stopped(c, k)'
<1> USE DEF Stopped
<1>1. stop'
  BY StepMoves DEF IInv, HistoryInv, TypeOK, Moves
<1>2. n'[c] = k /\ ~Launching(c)'
  <2> USE DEF IInv, HistoryInv, TypeOK, Places, Records, History, Launching, Settle, GoTo,
              caseVars, mainVars
  <2>1. ASSUME NEW d \in Cases, Start(d) PROVE n'[c] = k /\ ~Launching(c)'
    BY <2>1, FirstIsQueued DEF Start
  <2>2. ASSUME NEW d \in Cases, Head(d) PROVE n'[c] = k /\ ~Launching(c)'
    BY <2>2 DEF Head, MoreAttempts
  <2>3. ASSUME NEW d \in Cases, Launch(d) PROVE n'[c] = k /\ ~Launching(c)'
    <3>1. d # c
      BY <2>3 DEF Launch
    <3>2. n'[c] = n[c] /\ (at'[c] = at[c]) /\ (future'[c] = future[c])
      <4>1. CASE requested
        BY <2>3, <3>1, <4>1 DEF Launch, Raise
      <4>2. CASE ~requested
        BY <2>3, <3>1, <4>2 DEF Launch
      <4> QED
        BY <4>1, <4>2
    <3> QED
      BY <3>2
  <2>4. ASSUME NEW d \in Cases, JobCancelled(d) \/ CaseFails(d)
        PROVE  n'[c] = k /\ ~Launching(c)'
    BY <2>4 DEF JobCancelled, CaseFails, Raise
  <2>5. ASSUME NEW d \in Cases, Harvest(d) PROVE n'[c] = k /\ ~Launching(c)'
    BY <2>5 DEF Harvest
  <2>6. ASSUME NEW d \in Cases, CancelQueued(d) PROVE n'[c] = k /\ ~Launching(c)'
    BY <2>6, FirstIsQueued DEF CancelQueued
  <2>7. ASSUME NEW d \in Cases, NEW v \in Verdicts \ {"none"}, JobReturns(d, v)
        PROVE  n'[c] = k /\ ~Launching(c)'
    BY <2>7 DEF JobReturns
  <2>8. CASE LeaveFailed \/ Merge \/ Request
    BY <2>8 DEF LeaveFailed, Merge, Request
  <2>9. CASE UNCHANGED vars
    BY <2>9 DEF vars
  <2> QED
    BY <2>1, <2>2, <2>3, <2>4, <2>5, <2>6, <2>7, <2>8, <2>9 DEF Next, CaseStep, MainStep
<1> QED
  BY <1>1, <1>2

(* So no case launches a job behind the event whose test it had not passed ... *)
THEOREM CurrentCorrect == Spec => CurrentAttemptOnly
<1> SUFFICES ASSUME NEW c \in Cases, NEW k \in 0 .. Attempts
             PROVE  Spec => [](stop /\ n[c] = k /\ ~Launching(c) => [](n[c] = k))
  BY DEF CurrentAttemptOnly
<1>1. IInv /\ Stopped(c, k) /\ [Next]_vars => Stopped(c, k)'
  BY StoppedStays
<1>2. /\ Stopped(c, k) => n[c] = k
      /\ stop /\ n[c] = k /\ ~Launching(c) => Stopped(c, k)
  BY DEF Stopped
<1> QED
  BY <1>1, <1>2, Invariant, PTL DEF Spec

(* ... and a case that was queued then launches not even its first. *)
THEOREM QueuedCorrect == Spec => QueuedNeverLaunch
<1> SUFFICES ASSUME NEW c \in Cases
             PROVE  Spec => [](stop /\ future[c] = "queued" => [](n[c] = 0))
  BY DEF QueuedNeverLaunch
<1>0. 0 \in 0 .. Attempts
  BY BoundsAssumption
<1>1. IInv /\ Stopped(c, 0) /\ [Next]_vars => Stopped(c, 0)'
  BY <1>0, StoppedStays
<1>2. IInv => (stop /\ future[c] = "queued" => Stopped(c, 0))
  BY DEF IInv, HistoryInv, History, Launching, Stopped
<1>3. Stopped(c, 0) => n[c] = 0
  BY DEF Stopped
<1> QED
  BY <1>1, <1>2, <1>3, Invariant, PTL DEF Spec

(* The cases run in a pool that runs each of them at most once, never more than Workers
   at a time, and cancels only what has not begun: StopOnPass implements Executor. *)
THEOREM RefinesExecutor == Spec => ImplementsExecutor
<1>1. Init => Pool!Init
  BY DEF Init, Pool!Init, PoolFuture, Done
<1>2. ASSUME Places, [Next]_vars PROVE [Pool!Next]_PoolFuture
  <2> USE DEF PoolFuture, Done, Settle, Pool!Next, Pool!Begin, Pool!Complete, Pool!Becomes
  <2>0. future \in [Cases -> {"queued", "running", "returned", "raised", "cancelled"}]
    BY <1>2 DEF Places
  <2>1. ASSUME NEW c \in Cases, Start(c) PROVE Pool!Begin(c)
    <3>1. Pool!Busy = Running /\ future[c] = "queued" /\ Cardinality(Running) < Workers
      BY <2>0, <2>1, FirstIsQueued DEF Start, Pool!Busy, Running
    <3>2. Pool!Cardinality(Running) = Cardinality(Running)
      BY DEF Pool!Cardinality, Cardinality
    <3>3. Pool!Becomes(c, "queued", "running")
      BY <2>0, <2>1, <3>1 DEF Start
    <3> QED  BY <3>1, <3>2, <3>3
  <2>2. ASSUME NEW c \in Cases, future[c] = "running", Settle(c, "returned") \/ Settle(c, "raised")
        PROVE  Pool!Complete(c)
    BY <2>0, <2>2
  <2>3. ASSUME NEW c \in Cases, CancelQueued(c) PROVE Pool!Next
    <3>1. c \in Pool!Queued
      BY <2>0, <2>3, FirstIsQueued DEF CancelQueued, Pool!Queued
    <3>2. {c} \in SUBSET Pool!Queued
      BY <3>1
    <3>3. PoolFuture' = [t \in Cases |-> IF t \in {c} THEN "cancelled" ELSE PoolFuture[t]]
      BY <2>0, <2>3 DEF CancelQueued
    <3> HIDE DEF PoolFuture, Pool!Queued
    <3> QED  BY <3>2, <3>3 DEF Pool!Cancel
  <2>4. UNCHANGED future => UNCHANGED PoolFuture
    OBVIOUS
  <2>5. \/ \E c \in Cases : Start(c) \/ CancelQueued(c)
        \/ \E c \in Cases : future[c] = "running" /\ (Settle(c, "returned") \/ Settle(c, "raised"))
        \/ UNCHANGED future
    <3> HIDE DEF Settle
    <3> QED
      BY <1>2 DEF Next, CaseStep, MainStep, Head, Launch, JobReturns, JobCancelled, CaseFails, Raise,
         Harvest, LeaveFailed, Merge, Request, vars
  <2> QED  BY <2>1, <2>2, <2>3, <2>4, <2>5
<1> QED
  BY <1>1, <1>2, TypeCorrect, PTL DEF TypeOK, Spec, ImplementsExecutor, Pool!Spec

-----------------------------------------------------------------------------
(* How far a case is from having been harvested: three steps for each attempt that is
   left, one to start, one to be harvested. *)
CaseLeft(c) ==
    (CASE future[c] = "queued" -> 3 * (Attempts - n[c]) + 3
       [] future[c] = "running" /\ at[c] = "job" -> 3 * (Attempts - n[c]) + 2
       [] future[c] = "running" /\ at[c] = "top" -> 3 * (Attempts - n[c]) + 1
       [] future[c] = "running" /\ at[c] = "launch" -> 3 * (Attempts - n[c])
       [] OTHER -> 0)
    + (IF c \in harvested THEN 0 ELSE 1)

(* ... and the calling thread from its return. *)
MainLeft ==
    (CASE main = "waiting" -> 2 [] main = "cancelling" -> 1 [] OTHER -> 0)
    + (IF requested THEN 0 ELSE 1)

Forward(c) ==
    /\ CaseLeft(c)' < CaseLeft(c) /\ UNCHANGED MainLeft
    /\ \A d \in Cases \ {c} : UNCHANGED CaseLeft(d)

MainForward == MainLeft' < MainLeft /\ \A d \in Cases : UNCHANGED CaseLeft(d)

(* Every step brings one case, or the calling thread, nearer to its end and nobody
   further from it: a condition whose jobs end returns after finitely many steps, however
   its cases, its pool and Ctrl+C are interleaved. *)
THEOREM EveryStepForward ==
    Spec => /\ [](MainLeft \in Nat /\ \A c \in Cases : CaseLeft(c) \in Nat)
            /\ [][MainForward \/ \E c \in Cases : Forward(c)]_vars
<1> USE CasesAssumption, BoundsAssumption
<1>1. IInv => MainLeft \in Nat /\ \A c \in Cases : CaseLeft(c) \in Nat
  BY DEF IInv, HistoryInv, TypeOK, Places, Records, MainLeft, CaseLeft
<1>2. IInv /\ [Next]_vars => [MainForward \/ \E c \in Cases : Forward(c)]_vars
  <2> SUFFICES ASSUME IInv, Next PROVE MainForward \/ \E c \in Cases : Forward(c)
    OBVIOUS
  <2>0. /\ Places /\ n \in [Cases -> 0 .. Attempts] /\ Attempts \in Nat
        /\ \A c \in Cases : at[c] = "launch" => n[c] < Attempts
    BY DEF IInv, HistoryInv, TypeOK, Records, History
  <2> USE DEF Places, Settle, GoTo, caseVars, mainVars
  <2>1. ASSUME NEW c \in Cases, Start(c) PROVE Forward(c)
    BY <2>0, <2>1, FirstIsQueued DEF Start, Forward, CaseLeft, MainLeft
  <2>2. ASSUME NEW c \in Cases, Head(c) PROVE Forward(c)
    BY <2>0, <2>2 DEF Head, Forward, CaseLeft, MainLeft
  <2>3. ASSUME NEW c \in Cases, Launch(c) PROVE Forward(c)
    BY <2>0, <2>3 DEF Launch, Raise, Forward, CaseLeft, MainLeft
  <2>4. ASSUME NEW c \in Cases, JobCancelled(c) \/ CaseFails(c) PROVE Forward(c)
    BY <2>0, <2>4 DEF JobCancelled, CaseFails, Raise, Forward, CaseLeft, MainLeft
  <2>5. ASSUME NEW c \in Cases, NEW v \in Verdicts \ {"none"}, JobReturns(c, v) PROVE Forward(c)
    BY <2>0, <2>5 DEF JobReturns, Forward, CaseLeft, MainLeft
  <2>6. ASSUME NEW c \in Cases, Harvest(c) PROVE MainForward \/ Forward(c)
    BY <2>0, <2>6 DEF Harvest, Forward, MainForward, CaseLeft, MainLeft
  <2>7. ASSUME NEW c \in Cases, CancelQueued(c) PROVE Forward(c)
    BY <2>0, <2>7, FirstIsQueued DEF CancelQueued, Forward, CaseLeft, MainLeft
  <2>8. CASE LeaveFailed \/ Merge
    BY <2>0, <2>8 DEF LeaveFailed, Merge, MainForward, CaseLeft, MainLeft
  <2>9. CASE Request
    BY <2>0, <2>9 DEF Request, MainForward, CaseLeft, MainLeft
  <2> QED
    BY <2>1, <2>2, <2>3, <2>4, <2>5, <2>6, <2>7, <2>8, <2>9 DEF Next, CaseStep, MainStep
<1> QED  BY <1>1, <1>2, Invariant, PTL DEF Spec
=============================================================================
