------------------------------ MODULE HarborJob ------------------------------
(****************************************************************************)
(* What _run_bounded_harbor_process (tier3/harbor/runner.py) promises the   *)
(* thread that calls it, without saying how: one Harbor job is refused,     *)
(* cannot be launched, or is launched and ends once, with one outcome.  The *)
(* job is cancelled only when a cancellation was requested, times out only  *)
(* when it has a deadline, and ends whenever it is cancelled.               *)
(* HarborProcess implements this module, and so does each arm of HarborRun.  *)
(****************************************************************************)
CONSTANT HasDeadline

VARIABLES
    job,        \* "idle" | "running" | "ended"
    outcome,    \* "none" until the job ends
    requested   \* _HarborRunCancellation.requested

vars == <<job, outcome, requested>>

(* Harbor's own exit code is the answer only for "result"; "exceeded" is the
   answer that says the output budget was spent; the rest are exceptions. *)
Outcomes == {"result", "exceeded", "timeout", "error", "cancelled"}

TypeOK ==
    /\ job \in {"idle", "running", "ended"}
    /\ outcome \in Outcomes \cup {"none"}
    /\ requested \in BOOLEAN

Init ==
    /\ job = "idle"
    /\ outcome = "none"
    /\ requested = FALSE

(* The coordinating thread asks every job of the run to stop. *)
Request ==
    /\ ~requested
    /\ requested' = TRUE
    /\ UNCHANGED <<job, outcome>>

(* raise_if_requested: a requested cancellation refuses the launch. *)
Refuse ==
    /\ job = "idle"
    /\ requested
    /\ job' = "ended"
    /\ outcome' = "cancelled"
    /\ UNCHANGED requested

(* Popen raises: nothing was launched. *)
LaunchFails ==
    /\ job = "idle"
    /\ job' = "ended"
    /\ outcome' = "error"
    /\ UNCHANGED requested

Launch ==
    /\ job = "idle"
    /\ job' = "running"
    /\ UNCHANGED <<outcome, requested>>

End(o) ==
    /\ job = "running"
    /\ o = "cancelled" => requested
    /\ o = "timeout" => HasDeadline
    /\ job' = "ended"
    /\ outcome' = o
    /\ UNCHANGED requested

Finish == \E o \in Outcomes : End(o)

Next == Request \/ Refuse \/ LaunchFails \/ Launch \/ Finish

(* A running job need not end by itself; a cancelled one must. *)
Fairness == WF_vars(requested /\ (Refuse \/ Finish))

Spec == Init /\ [][Next]_vars /\ Fairness
=============================================================================
