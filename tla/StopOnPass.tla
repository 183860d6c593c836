----------------------------- MODULE StopOnPass -----------------------------
(***************************************************************************)
(* One condition of an agent under --stop-on-pass                          *)
(* (_run_stop_on_pass_variant, tier3/harbor/runner.py): a pool runs the    *)
(* cases of the dataset, each case repeats single-attempt Harbor jobs      *)
(* until one passes, and the main thread collects the cases and merges     *)
(* the jobs of all of them.  The run may be interrupted meanwhile.         *)
(***************************************************************************)
EXTENDS Naturals, FiniteSets

CONSTANTS NCases,    \* the cases of the dataset, in its order
          Attempts,  \* n_attempts
          Workers    \* n_concurrent

ASSUME CasesAssumption == NCases \in Nat \ {0}
ASSUME BoundsAssumption == Attempts \in Nat \ {0} /\ Workers \in Nat \ {0}

Cases == 1 .. NCases

VARIABLES future,     \* the future of each case
          at,         \* where a running case is in its loop
          n,          \* attempts launched: the length of case_job_dirs
          verdict,    \* what each attempt's job left on disk
          reported,   \* attempts with an entry in case_errors
          stop,       \* stop_launching
          requested,  \* the run was interrupted
          main,       \* the thread that called _run_stop_on_pass_variant
          harvested   \* futures as_completed has yielded

vars == <<future, at, n, verdict, reported, stop, requested, main, harvested>>
caseVars == <<at, n, verdict, reported>>
mainVars == <<main, harvested>>

(* low: a reward under the threshold; timeout: one errored trial, which a
   later success may recover; error: any other failure of the job *)
Verdicts == {"none", "pass", "low", "timeout", "error"}

Running == {c \in Cases : future[c] = "running"}
Queued == {c \in Cases : future[c] = "queued"}
FirstQueued(c) == c \in Queued /\ \A d \in Queued : c <= d

Init ==
    /\ future = [c \in Cases |-> "queued"]
    /\ at = [c \in Cases |-> "top"]
    /\ n = [c \in Cases |-> 0]
    /\ verdict = [c \in Cases |-> [a \in 1 .. Attempts |-> "none"]]
    /\ reported = [c \in Cases |-> {}]
    /\ stop = FALSE /\ requested = FALSE
    /\ main = "waiting" /\ harvested = {}

Settle(c, f) == future' = [future EXCEPT ![c] = f]
GoTo(c, l) == at' = [at EXCEPT ![c] = l]

(* A free worker takes the oldest case. *)
Start(c) ==
    /\ FirstQueued(c)
    /\ Cardinality(Running) < Workers
    /\ Settle(c, "running")
    /\ UNCHANGED <<caseVars, stop, requested, mainVars>>

(* The loop goes on to another attempt.  Mutant: stop_launching is not tested. *)
MoreAttemptsAnyway(c) == n[c] < Attempts
MoreAttempts(c) == n[c] < Attempts /\ ~stop

(* The head of the loop of _run_case *)
Head(c) ==
    /\ future[c] = "running" /\ at[c] = "top"
    /\ IF MoreAttempts(c)
         THEN GoTo(c, "launch") /\ UNCHANGED future
         ELSE Settle(c, "returned") /\ UNCHANGED at
    /\ UNCHANGED <<n, verdict, reported, stop, requested, mainVars>>

(* _run_case_or_stop lets an exception out. *)
Raise(c) ==
    /\ Settle(c, "raised")
    /\ stop' = TRUE
    /\ UNCHANGED <<caseVars, requested, mainVars>>

(* _run_harbor refuses to launch in an interrupted run. *)
Launch(c) ==
    /\ future[c] = "running" /\ at[c] = "launch"
    /\ IF requested
         THEN Raise(c)
         ELSE /\ GoTo(c, "job")
              /\ n' = [n EXCEPT ![c] = @ + 1]
              /\ UNCHANGED <<future, verdict, reported, stop, requested, mainVars>>

(* Mutant of Recovers: the entries of all earlier timeouts and errors go. *)
RecoversAll(c) == {reported[c]}

(* The entries one success can remove: those of earlier timeouts, which the
   files of both jobs decide one by one. *)
Recovers(c) == SUBSET {a \in reported[c] : verdict[c][a] = "timeout"}

(* _run_harbor returns.  A job cancelled by the interrupt raises instead. *)
JobReturns(c, v) ==
    /\ future[c] = "running" /\ at[c] = "job"
    /\ verdict' = [verdict EXCEPT ![c] = [@ EXCEPT ![n[c]] = v]]
    /\ IF v \in {"pass", "low"}
         THEN \E R \in Recovers(c) : reported' = [reported EXCEPT ![c] = @ \ R]
         ELSE reported' = [reported EXCEPT ![c] = @ \cup {n[c]}]
    /\ GoTo(c, "top")
    /\ IF v = "pass" THEN Settle(c, "returned") ELSE UNCHANGED future
    /\ UNCHANGED <<n, stop, requested, mainVars>>

(* Mutant of Cancelled: jobs end on stop_launching instead. *)
CancelledByStop == stop

Cancelled == requested

JobCancelled(c) ==
    /\ future[c] = "running" /\ at[c] = "job" /\ Cancelled
    /\ Raise(c)

(* Any other exception in a case: an unreadable job, an error of the disk. *)
CaseFails(c) ==
    /\ future[c] = "running" /\ at[c] \in {"launch", "job"}
    /\ Raise(c)

(* Mutant of Surfaces: future.result() of a failed case is not called. *)
SurfacesNever(c) == FALSE

Surfaces(c) == future[c] = "raised"

(* as_completed yields a future; an exception reaches the main thread. *)
Harvest(c) ==
    /\ main = "waiting"
    /\ future[c] \in {"returned", "raised"} /\ c \notin harvested
    /\ IF Surfaces(c)
         THEN main' = "cancelling" /\ stop' = TRUE /\ UNCHANGED harvested
         ELSE harvested' = harvested \cup {c} /\ UNCHANGED <<main, stop>>
    /\ UNCHANGED <<future, caseVars, requested>>

(* future.cancel(), in the order of the futures *)
CancelQueued(c) ==
    /\ main = "cancelling"
    /\ FirstQueued(c)
    /\ Settle(c, "cancelled")
    /\ UNCHANGED <<caseVars, stop, requested, mainVars>>

PoolIdle == Queued = {} /\ Running = {}

(* The end of the pool waits for its workers, then the exception goes on. *)
LeaveFailed ==
    /\ main = "cancelling" /\ PoolIdle
    /\ main' = "raised"
    /\ UNCHANGED <<future, caseVars, stop, requested, harvested>>

(* All cases are in: the errors and the jobs of all cases are merged.
   _merge_attempt_jobs may refuse the job directories. *)
Merge ==
    /\ main = "waiting" /\ harvested = Cases /\ PoolIdle
    /\ main' \in {"merged", "raised"}
    /\ UNCHANGED <<future, caseVars, stop, requested, harvested>>

(* Ctrl+C in the coordinating thread of the run *)
Request ==
    /\ ~requested
    /\ requested' = TRUE
    /\ UNCHANGED <<future, caseVars, stop, mainVars>>

CaseStep(c) ==
    \/ Start(c) \/ Head(c) \/ Launch(c) \/ JobCancelled(c) \/ Harvest(c) \/ CancelQueued(c)

MainStep == LeaveFailed \/ Merge

Next ==
    \/ \E c \in Cases : CaseStep(c) \/ CaseFails(c)
                        \/ \E v \in Verdicts \ {"none"} : JobReturns(c, v)
    \/ MainStep
    \/ Request

Spec == Init /\ [][Next]_vars

(* The threads run.  A job need not end by itself, but an interrupted one
   does: the supervision of Harbor terminates it. *)
FairSpec == Spec /\ (\A c \in Cases : WF_vars(CaseStep(c))) /\ WF_vars(MainStep)

-----------------------------------------------------------------------------
(* Type invariant. *)
Places ==
    /\ future \in [Cases -> {"queued", "running", "returned", "raised", "cancelled"}]
    /\ at \in [Cases -> {"top", "launch", "job"}]
    /\ stop \in BOOLEAN /\ requested \in BOOLEAN
    /\ main \in {"waiting", "cancelling", "merged", "raised"}
    /\ harvested \subseteq Cases

Records ==
    /\ n \in [Cases -> 0 .. Attempts]
    /\ verdict \in [Cases -> [1 .. Attempts -> Verdicts]]
    /\ reported \in [Cases -> SUBSET (1 .. Attempts)]

TypeOK == Places /\ Records

Passed(c) == \E a \in 1 .. Attempts : verdict[c][a] = "pass"

(* What is merged is the whole condition: no case was cut short by
   stop_launching, by the interrupt or by the failure of another case. *)
MergedIsComplete ==
    main = "merged" => \A c \in Cases : Passed(c) \/ n[c] = Attempts

(* No attempt of a case follows one that passed. *)
NothingAfterPass ==
    \A c \in Cases : \A a, b \in 1 .. Attempts :
        a < b /\ verdict[c][a] = "pass" => verdict[c][b] = "none" /\ n[c] = a

(* A failed attempt is reported, unless it timed out and a later attempt of
   the same case ran to its end. *)
FailuresReported ==
    \A c \in Cases : \A a \in 1 .. Attempts :
        /\ verdict[c][a] = "error" => a \in reported[c]
        /\ verdict[c][a] = "timeout" /\ a \notin reported[c] =>
             \E b \in (a + 1) .. Attempts : verdict[c][b] \in {"pass", "low"}

(* A case that has not begun when stop_launching is set never launches a job, although a
   worker may pick it up between the event and future.cancel(). *)
QueuedNeverLaunch ==
    \A c \in Cases : [](stop /\ future[c] = "queued" => [](n[c] = 0))

(* Nor does a running one launch another, unless it had passed the test of its loop. *)
Launching(c) == future[c] = "running" /\ at[c] = "launch"

CurrentAttemptOnly ==
    \A c \in Cases : \A k \in 0 .. Attempts :
        [](stop /\ n[c] = k /\ ~Launching(c) => [](n[c] = k))

(* The cases run in a pool: none is cancelled once it runs, and none runs again. *)
Done(c) == future[c] \in {"returned", "raised"}
PoolFuture == [c \in Cases |-> IF Done(c) THEN "done" ELSE future[c]]
Pool == INSTANCE Executor WITH Tasks <- Cases, Size <- Workers, future <- PoolFuture
ImplementsExecutor == Pool!Spec

(* An interrupted condition ends, even if its jobs never would. *)
InterruptEndsCondition == requested ~> main \in {"merged", "raised"}
=============================================================================
