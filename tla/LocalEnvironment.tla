-------------------------- MODULE LocalEnvironment --------------------------
(****************************************************************************)
(* The host execution backend of Harbor's local mode                        *)
(* (tier3/harbor/local_environment.py): exec(), the reaper of a process     *)
(* whose creation was given up (_schedule_creation_cleanup), stop() and     *)
(* start(), as coroutines of one asyncio loop.  A step runs to the next     *)
(* await.  A timeout may end a bounded wait at any time; a cancellation may *)
(* reach exec() and stop() at any await, again and again.                   *)
(*   _terminate_process_tree is one step, at the end of its wait: before it *)
(* only the process itself can move.  It may return with the group alive:   *)
(* wait_for_process_group_exit gives up in silence, and a killpg that is    *)
(* refused counts as done once the launcher has exited.  It may also raise. *)
(****************************************************************************)
EXTENDS Naturals

CONSTANTS
    Execs,          \* calls of exec(); each creates at most one process
    Cancellable,    \* those that somebody may cancel
    Surviving,      \* those whose group may outlive a termination that returns
    MaxCancels,     \* bound on the cancellations of one call
    MaxStops        \* bound on the calls of stop()

ASSUME BoundsAssumption == MaxCancels \in Nat /\ MaxStops \in Nat
ASSUME CallsAssumption == Cancellable \subseteq Execs /\ Surviving \subseteq Execs

VARIABLES
    at,             \* where each exec() is suspended
    answer,         \* what it will return or raise
    cancels,        \* cancellations delivered to it
    creation,       \* task of create_subprocess_exec
    proc,           \* its process group (operating system)
    comm,           \* task that drains its pipes, while somebody waits for it
    cleanup,        \* task of reap_created_process, and its done-callback
    refused,        \* its group is alive after a termination that raised
    letGo,          \* its group is alive after a termination that returned
    pending,        \* _pending_creations
    secrets,        \* keys of _creation_secret_values
    active,         \* keys of _active_processes
    errors,         \* _creation_cleanup_errors
    stopRequested,  \* _stop_requested
    stopAt,         \* where stop() is suspended
    todo,           \* what its loop or wait has in front of it
    stopCancelled,  \* it is cancelled during a termination
    stops,          \* calls of stop() so far
    root            \* the directory of the environment exists

calls == <<at, answer, cancels>>
tasks == <<creation, proc, comm, cleanup, refused, letGo>>
books == <<pending, secrets, active, errors>>
stopper == <<stopRequested, stopAt, todo, stopCancelled, stops, root>>
vars == <<calls, tasks, books, stopper>>

Suspended == {"creating", "resolving", "reaping", "running", "containing", "delivering"}
Waits == {"cleanups", "settle", "terminating", "lastCleanups", "lastSettle"}

TypeOK ==
    /\ at \in [Execs -> Suspended \cup {"idle", "ended"}]
    /\ answer \in [Execs -> {"none", "result", "error", "cancelled", "blocked"}]
    /\ cancels \in [Execs -> 0..MaxCancels]
    /\ creation \in [Execs -> {"none", "pending", "done", "failed"}]
    /\ proc \in [Execs -> {"none", "alive", "gone"}]
    /\ comm \in [Execs -> {"none", "open", "done", "cancelled"}]
    /\ cleanup \in [Execs -> {"none", "waiting", "reaping", "ok", "failed", "retired"}]
    /\ refused \subseteq Execs /\ letGo \subseteq Execs
    /\ pending \subseteq Execs /\ secrets \subseteq Execs
    /\ active \subseteq Execs /\ errors \subseteq Execs
    /\ stopRequested \in BOOLEAN /\ stopCancelled \in BOOLEAN /\ root \in BOOLEAN
    /\ stopAt \in Waits \cup {"idle"}
    /\ todo \subseteq Execs
    /\ stops \in 0..MaxStops
    /\ secrets = pending /\ \A e \in pending : creation[e] # "none"

(* After the first start(). *)
Init ==
    /\ at = [e \in Execs |-> "idle"] /\ answer = [e \in Execs |-> "none"]
    /\ cancels = [e \in Execs |-> 0]
    /\ creation = [e \in Execs |-> "none"] /\ proc = [e \in Execs |-> "none"]
    /\ comm = [e \in Execs |-> "none"] /\ cleanup = [e \in Execs |-> "none"]
    /\ refused = {} /\ letGo = {} /\ pending = {} /\ secrets = {} /\ active = {} /\ errors = {}
    /\ stopRequested = FALSE /\ stopAt = "idle" /\ todo = {}
    /\ stopCancelled = FALSE /\ stops = 0 /\ root = TRUE

Put(f, e, v) == [f EXCEPT ![e] = v]

(* exec() goes on to another await, with what it is going to answer. *)
Move(e, from, to, with) ==
    /\ at[e] = from /\ at' = Put(at, e, to)
    /\ answer' = Put(answer, e, with)
    /\ UNCHANGED cancels

-----------------------------------------------------------------------------
(* _schedule_creation_cleanup returns the cleanup there is, or schedules one.
   Mutant: only stop() schedules any. *)
ScheduledByStop(S) ==
    [e \in Execs |-> IF e \in S /\ cleanup[e] = "none" /\ stopRequested THEN "waiting" ELSE cleanup[e]]
Scheduled(S) ==
    [e \in Execs |-> IF e \in S /\ cleanup[e] = "none" THEN "waiting" ELSE cleanup[e]]

(* The last process of the group is gone. *)
GroupGone(e) ==
    /\ proc' = Put(proc, e, "gone")
    /\ refused' = refused \ {e} /\ letGo' = letGo \ {e}

(* _terminate_process_tree, for its three callers, returned: the collector ended
   with the process, or is cancelled at the deadline. *)
Terminated(e) ==
    /\ \/ GroupGone(e)
       \/ /\ e \in Surviving /\ proc[e] = "alive" /\ UNCHANGED proc
          /\ refused' = refused \ {e} /\ letGo' = letGo \cup {e}
    /\ \E s \in IF at[e] # "running" THEN {"none"}
               ELSE IF comm[e] = "open" THEN {"done", "cancelled"} ELSE {comm[e]} :
          comm' = Put(comm, e, s)
(* It raised: killpg was refused, or the collector would not end. *)
NotTerminated(e) ==
    /\ \/ /\ proc[e] = "alive" /\ refused' = refused \cup {e}
          /\ UNCHANGED <<proc, letGo>>
       \/ comm[e] = "open" /\ GroupGone(e)
    /\ UNCHANGED comm

(* _release_active_process; the table keeps a process whose termination raised. *)
Released(e) == active \ {e}

-----------------------------------------------------------------------------
(* exec() *)

(* Refused by a guardrail, or because of the shutdown. *)
Block(e) ==
    /\ Move(e, "idle", "ended", "blocked")
    /\ UNCHANGED <<tasks, books, stopper>>

Create(e) ==
    /\ ~stopRequested
    /\ Move(e, "idle", "creating", "none")
    /\ creation' = Put(creation, e, "pending")
    /\ pending' = pending \cup {e} /\ secrets' = secrets \cup {e}
    /\ UNCHANGED <<proc, comm, cleanup, refused, letGo, active, errors, stopper>>

(* The shutdown is tested again once the process is there. *)
ResumeCreated(e) ==
    /\ creation[e] = "done"
    /\ \/ /\ stopRequested
          /\ Move(e, "creating", "reaping", "error")
          /\ cleanup' = Scheduled({e})
          /\ UNCHANGED <<comm, books>>
       \/ /\ ~stopRequested
          /\ Move(e, "creating", "running", "none")
          /\ comm' = Put(comm, e, "open")
          /\ pending' = pending \ {e} /\ secrets' = secrets \ {e}
          /\ active' = active \cup {e}
          /\ UNCHANGED <<cleanup, errors>>
    /\ UNCHANGED <<creation, proc, refused, letGo, stopper>>

ResumeFailed(e) ==
    /\ creation[e] = "failed"
    /\ Move(e, "creating", "ended", "error")
    /\ pending' = pending \ {e} /\ secrets' = secrets \ {e}
    /\ UNCHANGED <<tasks, active, errors, stopper>>

(* The creation a cancelled call waits for resolved, or _CREATION_CANCEL_SECONDS
   are over and its reaper stays behind.  Mutant: they are never over. *)
ResolvedInTime(e) == creation[e] # "pending"
Resolved(e) == TRUE

Resolve(e) ==
    /\ Resolved(e)
    /\ Move(e, "resolving", IF creation[e] # "pending" THEN "reaping" ELSE "ended", answer[e])
    /\ UNCHANGED <<tasks, books, stopper>>

AwaitReaper(e) ==
    /\ cleanup[e] \in {"ok", "failed", "retired"}
    /\ Move(e, "reaping", "ended", answer[e])
    /\ UNCHANGED <<tasks, books, stopper>>

(* The collector ended or raised, the command timed out, or a callback failed.  The
   launcher of a command that ended may have left others behind.  Mutant: they are
   not looked for. *)
ContainedIfOpen(e) == IF comm[e] = "done" THEN "delivering" ELSE "containing"
Contained(e) == "containing"

Wake(e) ==
    /\ \/ comm[e] \in {"done", "open"} /\ Move(e, "running", Contained(e), "result")
       \/ comm[e] \in {"done", "open"} /\ Move(e, "running", "containing", "error")
       \/ comm[e] = "cancelled" /\ Move(e, "running", "containing", "cancelled")
    /\ UNCHANGED <<tasks, books, stopper>>

Contain(e) ==
    /\ Move(e, "containing", IF answer[e] = "result" THEN "delivering" ELSE "ended", answer[e])
    /\ Terminated(e) /\ active' = Released(e)
    /\ UNCHANGED <<creation, cleanup, pending, secrets, errors, stopper>>

ContainFails(e) ==
    /\ Move(e, "containing", "ended", IF answer[e] = "result" THEN "error" ELSE answer[e])
    /\ NotTerminated(e) /\ UNCHANGED active
    /\ UNCHANGED <<creation, cleanup, pending, secrets, errors, stopper>>

(* The last callback; it may fail. *)
Deliver(e) ==
    /\ \E a \in {"result", "error"} : Move(e, "delivering", "ended", a)
    /\ UNCHANGED <<tasks, books, stopper>>

(* Where a cancellation takes exec(): it is absorbed while a cleanup runs, which
   it turns into the primary error of a call that had none.  Mutant: it is
   dropped there. *)
CancelAbsorbed(e) == answer[e]
CancelKept(e) == IF answer[e] \in {"none", "result"} THEN "cancelled" ELSE answer[e]

Cancel(e) ==
    /\ e \in Cancellable /\ at[e] \in Suspended /\ cancels[e] < MaxCancels
    /\ cancels' = Put(cancels, e, cancels[e] + 1)
    /\ answer' = Put(answer, e, CancelKept(e))
    /\ at' = Put(at, e, IF at[e] = "creating" THEN "resolving"
                       ELSE IF at[e] = "running" THEN "containing"
                       ELSE IF at[e] = "delivering" THEN "ended" ELSE at[e])
    /\ cleanup' = IF at[e] = "creating" THEN Scheduled({e}) ELSE cleanup
    /\ UNCHANGED <<creation, proc, comm, refused, letGo, books, stopper>>

-----------------------------------------------------------------------------
(* reap_created_process and its done-callback.  The loop is first-in first-out:
   exec() awaits the creation before its reaper does, and resumes before it. *)

ReaperStarts(e) ==
    /\ cleanup[e] = "waiting" /\ at[e] # "creating"
    /\ \/ /\ creation[e] = "done"
          /\ cleanup' = Put(cleanup, e, "reaping") /\ comm' = Put(comm, e, "open")
          /\ active' = active \cup {e}
       \/ /\ creation[e] = "failed"
          /\ cleanup' = Put(cleanup, e, "ok")
          /\ UNCHANGED <<comm, active>>
    /\ UNCHANGED <<creation, proc, refused, letGo, calls, pending, secrets, errors, stopper>>

Reap(e) ==
    /\ cleanup[e] = "reaping"
    /\ \/ Terminated(e) /\ active' = Released(e) /\ cleanup' = Put(cleanup, e, "ok")
       \/ NotTerminated(e) /\ UNCHANGED active /\ cleanup' = Put(cleanup, e, "failed")
    /\ UNCHANGED <<creation, calls, pending, secrets, errors, stopper>>

(* finish_cleanup *)
FinishCleanup(e) ==
    /\ cleanup[e] \in {"ok", "failed"}
    /\ cleanup' = Put(cleanup, e, "retired")
    /\ pending' = pending \ {e} /\ secrets' = secrets \ {e}
    /\ errors' = IF cleanup[e] = "failed" THEN errors \cup {e} ELSE errors
    /\ UNCHANGED <<creation, proc, comm, refused, letGo, active, calls, stopper>>

-----------------------------------------------------------------------------
(* stop(delete=True) and start() *)

StopsAt(from, to, rest) ==
    /\ stopAt = from /\ stopAt' = to /\ todo' = rest /\ stopCancelled' = FALSE
    /\ UNCHANGED <<stopRequested, stops>>

StopCalled ==
    /\ stopAt = "idle" /\ stops < MaxStops /\ stops' = stops + 1
    /\ stopRequested' = TRUE
    /\ cleanup' = Scheduled(pending)
    /\ stopAt' = "cleanups" /\ todo' = {}
    /\ UNCHANGED <<creation, proc, comm, refused, letGo, calls, books, stopCancelled, root>>

(* The bounded wait for the creations and the one for their cleanups are one; a
   turn of the loop follows, in which the callbacks of the cleanups that are over
   run. *)
InMap == {e \in Execs : cleanup[e] \in {"waiting", "reaping", "ok", "failed"}}
Over == {e \in Execs : cleanup[e] \in {"ok", "failed"}}

StopWaited ==
    /\ \/ StopsAt("cleanups", "settle", Over)
       \/ StopsAt("lastCleanups", "lastSettle", Over)
       \/ todo \cap Over = {} /\ StopsAt("settle", "terminating", active)
    /\ UNCHANGED <<root, calls, tasks, books>>

StopTerminates(e) ==
    /\ e \in todo /\ StopsAt("terminating", "terminating", todo \ {e})
    /\ \/ Terminated(e) /\ active' = IF stopCancelled THEN active ELSE Released(e)
       \/ NotTerminated(e) /\ UNCHANGED active
    /\ UNCHANGED <<creation, cleanup, calls, pending, secrets, errors, root>>

StopLoopEnds ==
    /\ todo = {} /\ StopsAt("terminating", "lastCleanups", {})
    /\ UNCHANGED <<root, calls, tasks, books>>

ErrorsLeft == IF pending \cup secrets \cup InMap \cup active = {} THEN {} ELSE errors

(* Mutant: the final check looks at the known processes only. *)
ConfirmedByActive == active = {}
Confirmed ==
    /\ \A e \in pending : creation[e] # "pending"
    /\ secrets = {} /\ InMap \subseteq Over /\ ErrorsLeft = {} /\ active = {}

(* The directory is deleted, or RuntimeError is raised. *)
StopDecides ==
    /\ todo \cap Over = {} /\ StopsAt("lastSettle", "idle", {})
    /\ errors' = ErrorsLeft
    /\ root' = (root /\ ~Confirmed)
    /\ UNCHANGED <<calls, tasks, pending, secrets, active>>

(* A termination absorbs the cancellation and raises it at its end, which the
   loop takes for a failure; any other wait raises it. *)
CancelStop ==
    /\ stopAt # "idle"
    /\ IF stopAt = "terminating"
         THEN todo # {} /\ stopCancelled' = TRUE /\ UNCHANGED <<stopAt, todo>>
         ELSE stopAt' = "idle" /\ todo' = {} /\ stopCancelled' = FALSE
    /\ UNCHANGED <<stopRequested, stops, root, calls, tasks, books>>

Start ==
    /\ stopAt = "idle" /\ stopRequested
    /\ pending \cup secrets \cup InMap \cup errors \cup active = {}
    /\ stopRequested' = FALSE /\ root' = TRUE
    /\ UNCHANGED <<stopAt, todo, stopCancelled, stops, calls, tasks, books>>

-----------------------------------------------------------------------------
(* The operating system and the other end of the pipes. *)

NotTasks == UNCHANGED <<creation, cleanup, calls, books, stopper>>

Fork(e) ==
    /\ creation[e] = "pending" /\ proc[e] = "none"
    /\ proc' = Put(proc, e, "alive") /\ UNCHANGED <<comm, refused, letGo>> /\ NotTasks

CreationResolves(e) ==
    /\ creation[e] = "pending"
    /\ creation' = Put(creation, e, IF proc[e] = "none" THEN "failed" ELSE "done")
    /\ UNCHANGED <<proc, comm, cleanup, refused, letGo, calls, books, stopper>>

(* The last process of the group exits; the launcher alone may be gone, and the
   pipes closed, before that. *)
GroupExits(e) ==
    /\ proc[e] = "alive" /\ GroupGone(e) /\ UNCHANGED comm /\ NotTasks

(* While a termination waits for the collector, its end is part of that step. *)
CollectorEnds(e) ==
    /\ at[e] = "running" /\ comm[e] = "open"
    /\ comm' = Put(comm, e, "done")
    /\ UNCHANGED <<proc, refused, letGo>> /\ NotTasks

-----------------------------------------------------------------------------
Exec(e) ==
    \/ Block(e) \/ Create(e) \/ ResumeCreated(e) \/ ResumeFailed(e) \/ Resolve(e)
    \/ AwaitReaper(e) \/ Wake(e) \/ Contain(e) \/ ContainFails(e) \/ Deliver(e)
Cleanup(e) == ReaperStarts(e) \/ Reap(e) \/ FinishCleanup(e)
Stop == StopWaited \/ (\E e \in Execs : StopTerminates(e)) \/ StopLoopEnds \/ StopDecides
System(e) == Fork(e) \/ CreationResolves(e) \/ GroupExits(e) \/ CollectorEnds(e)

Next ==
    \/ \E e \in Execs : Exec(e) \/ Cancel(e) \/ Cleanup(e) \/ System(e)
    \/ Stop \/ StopCalled \/ CancelStop \/ Start

(* The loop runs what is ready.  A command need not end and a creation need not
   resolve; what exec() awaits while its command runs need not either. *)
Loop == Stop \/ \E e \in Execs : Cleanup(e) \/ (at[e] \notin {"idle", "running"} /\ Exec(e))
Fairness == WF_vars(Loop)

Spec == Init /\ [][Next]_vars /\ Fairness

-----------------------------------------------------------------------------
(* Every live process has an owner: the creation that is still to hand it over,
   or the table stop() goes through, unless a termination of its group returned
   with it alive.  Nothing else a cancellation, a shutdown and a failed termination
   do together loses one. *)
EveryProcessOwned ==
    \A e \in Execs : proc[e] = "alive" => e \in pending \cup active \cup letGo

(* stop() deletes the directory only when every process that worked in it has been
   terminated, and none appears there later: not one that was being created, not one
   whose reaper failed after the loop over the known ones.  Only a group that outlived
   a termination which returned may still be there. *)
RemovedWhenQuiet ==
    ~root => \A e \in Execs : creation[e] # "pending" /\ (proc[e] = "alive" => e \in letGo)

(* A cancelled call never returns a result, however often it is cancelled and
   whatever its cleanup does. *)
CancelledNeverReturns ==
    \A e \in Execs : cancels[e] > 0 /\ at[e] = "ended" => answer[e] # "result"

(* A call that is over leaves a live process only when its termination has raised, or
   has returned with the group alive, or when its creation outlived the call: then its
   reaper, or stop(), still has it. *)
EndedContained ==
    \A e \in Execs : at[e] = "ended" /\ proc[e] = "alive" =>
        e \in refused \cup letGo \/ cleanup[e] \in {"waiting", "reaping"}

(* Somebody is still to remove each entry of a creation: the call that created it,
   or its reaper.  An entry nobody removes would make every later stop() raise and
   every later start() refuse. *)
EntriesHaveOwners ==
    \A e \in pending \cup secrets : at[e] = "creating" \/ e \in InMap

(* Nothing is forgotten: neither a process nor an entry of the tables. *)
Ownership == EveryProcessOwned /\ EntriesHaveOwners

(* A cancelled call ends: every wait of its cleanup is bounded.  So does stop(),
   although commands and creations need not. *)
CallsEnd ==
    /\ \A e \in Cancellable : cancels[e] > 0 ~> at[e] = "ended"
    /\ stopAt # "idle" ~> stopAt = "idle"
=============================================================================
