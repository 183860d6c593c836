------------------------------- MODULE Executor -------------------------------
(****************************************************************************)
(* The pool of threads that tier3/harbor/runner.py runs its agents and the  *)
(* cases of a condition in (concurrent.futures.ThreadPoolExecutor), as far  *)
(* as the runner relies on it: each submitted task runs once, in one of     *)
(* Size threads, or is cancelled before it has begun.  HarborRun and        *)
(* StopOnPass implement this module.                                        *)
(****************************************************************************)
EXTENDS Naturals, FiniteSets

CONSTANTS Tasks, Size

VARIABLE future     \* of each task: "new" | "queued" | "running" | "done" | "cancelled"

Queued == {t \in Tasks : future[t] = "queued"}
Busy == {t \in Tasks : future[t] = "running"}

Init == future \in [Tasks -> {"new", "queued"}]

Becomes(t, from, to) == future[t] = from /\ future' = [future EXCEPT ![t] = to]

Submit(t) == Becomes(t, "new", "queued")

Begin(t) == Cardinality(Busy) < Size /\ Becomes(t, "queued", "running")

Complete(t) == Becomes(t, "running", "done")

(* future.cancel() for some tasks, or shutdown(cancel_futures=True) for all: what
   runs goes on. *)
Cancel(S) == future' = [t \in Tasks |-> IF t \in S THEN "cancelled" ELSE future[t]]

Next ==
    \/ \E t \in Tasks : Submit(t) \/ Begin(t) \/ Complete(t)
    \/ \E S \in SUBSET Queued : Cancel(S)

Spec == Init /\ [][Next]_future
=============================================================================
