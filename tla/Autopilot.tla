----------------------------- MODULE Autopilot -----------------------------
(****************************************************************************)
(* `evaluate --autopilot` as its user sees it on one stream: the dataset is *)
(* generated by a call that may be retried (RetryCall) while a thread of    *)
(* dataset_generation_progress (tier3/dataset_progress.py) says that it is  *)
(* waited for, then the evaluation is reported (ProgressReporter).          *)
(****************************************************************************)
EXTENDS ProgressReporter, RetryCall

VARIABLES
    phase,          \* where the command is
    stopped,        \* the event of dataset_generation_progress
    waiter,         \* where its heartbeat thread is
    ready,          \* "evaluation source ready" has been printed
    late            \* "live evaluation has not started" lines printed after it

datasetVars == <<phase, stopped, waiter, ready, late>>
vars == <<datasetVars, reporterVars, retryVars>>

TypeOK ==
    /\ ReporterTypeOK /\ RetryTypeOK
    /\ phase \in {"choosing", "generating", "leaving", "joining", "announcing", "evaluating", "failed"}
    /\ waiter \in {"none", "waiting", "due", "writing", "dead"}
    /\ stopped \in BOOLEAN /\ ready \in BOOLEAN /\ late \in Nat

Init ==
    /\ ReporterInit /\ RetryInit
    /\ phase = "choosing" /\ stopped = FALSE /\ waiter = "none" /\ ready = FALSE /\ late = 0

Others == UNCHANGED <<reporterVars, retryVars>>
Phase(from, to) == phase = from /\ phase' = to

-----------------------------------------------------------------------------
(* The command *)

(* An evaluation source exists, or one is to be generated. *)
Reuse ==
    /\ Phase("choosing", "evaluating")
    /\ UNCHANGED <<stopped, waiter, ready, late>> /\ Others

EnterProgress ==
    /\ Phase("choosing", "generating") /\ waiter' = "waiting"
    /\ UNCHANGED <<stopped, ready, late>> /\ Others

Generate ==
    /\ phase = "generating" /\ RetryNext
    /\ UNCHANGED <<datasetVars, reporterVars>>

(* Without a provider, or after its last error, a deterministic case is written.
   The variables of the call are gone with it. *)
Generated ==
    /\ call \in {"idle", "returned", "raised"} /\ Phase("generating", "leaving")
    /\ call' = "idle" /\ attempt' = 0 /\ asked' = Nothing /\ pause' = 0 /\ waited' = 0
    /\ UNCHANGED <<stopped, waiter, ready, late, reporterVars>>

StopWaiter ==
    /\ Phase("leaving", "joining") /\ stopped' = TRUE
    /\ UNCHANGED <<waiter, ready, late>> /\ Others

(* The thread ended, or the join timed out; an exception goes on from here. *)
JoinWaiter ==
    /\ phase = "joining" /\ phase' \in {"announcing", "failed"}
    /\ UNCHANGED <<stopped, waiter, ready, late>> /\ Others

Announce ==
    /\ Phase("announcing", "evaluating") /\ ready' = TRUE
    /\ UNCHANGED <<stopped, waiter, late>> /\ Others

Evaluate ==
    /\ phase = "evaluating" /\ ReporterNext
    /\ UNCHANGED <<datasetVars, retryVars>>

-----------------------------------------------------------------------------
(* The heartbeat thread of the generation *)

Waiter(from, to) == waiter = from /\ waiter' = to

(* stopped.wait(HEARTBEAT_INTERVAL_SECONDS).  Mutant: a sleep. *)
WaitedOnly == FALSE
SeesStopped == stopped

WaiterWakes ==
    /\ \/ SeesStopped /\ Waiter("waiting", "dead")
       \/ ~SeesStopped /\ Waiter("waiting", "due")
    /\ UNCHANGED <<phase, stopped, ready, late>> /\ Others

WaiterBegins ==
    /\ Waiter("due", "writing")
    /\ UNCHANGED <<phase, stopped, ready, late>> /\ Others

(* The line is there, or the stream is closed and no other follows. *)
WaiterEnds ==
    /\ Waiter("writing", "waiting")
    /\ \/ late' = (IF ready THEN late + 1 ELSE late) /\ UNCHANGED stopped
       \/ stopped' = TRUE /\ UNCHANGED late
    /\ UNCHANGED <<phase, ready>> /\ Others

-----------------------------------------------------------------------------
Command ==
    \/ Reuse \/ EnterProgress \/ Generate \/ Generated \/ StopWaiter \/ JoinWaiter
    \/ Announce \/ Evaluate
WaiterNext == WaiterWakes \/ WaiterBegins \/ WaiterEnds

Next == Command \/ WaiterNext

(* Threads are scheduled and no write blocks for ever.  The provider need not
   answer, and the evaluation need not emit or close. *)
Fairness ==
    /\ WF_vars(WaiterNext)
    /\ WF_vars(phase = "evaluating" /\ Writer /\ UNCHANGED <<datasetVars, retryVars>>)
    /\ \A t \in Threads :
          WF_vars(phase = "evaluating" /\ Heartbeat(t) /\ UNCHANGED <<datasetVars, retryVars>>)

Spec == Init /\ [][Next]_vars /\ Fairness

-----------------------------------------------------------------------------
(* At most one line says that the evaluation has not started after the one that
   says it goes on: the one whose thread outlived the bounded join. *)
OneLateLine == late <= 1

(* That thread ends too. *)
WaiterEventuallyEnds == phase \in {"announcing", "evaluating", "failed"} ~> waiter \in {"none", "dead"}

(* No thread of the command outlives its use, and close() does not wait for one for
   ever. *)
EveryThreadEnds == ThreadsEnd /\ CloseReturns /\ WaiterEventuallyEnds
=============================================================================
