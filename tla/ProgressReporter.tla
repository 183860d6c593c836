-------------------------- MODULE ProgressReporter --------------------------
(****************************************************************************)
(* PlainProgressReporter (tier3/harbor/progress.py): the thread of the      *)
(* evaluation starts it, emits events and closes it, perhaps to start it    *)
(* again, next to the heartbeat thread of each start.  A write to the       *)
(* stream takes two steps, may block and may fail; _stop is set without the *)
(* lock, the join of close() may time out, and Ctrl+C may interrupt the     *)
(* thread of the evaluation inside emit() and close().                      *)
(****************************************************************************)
EXTENDS Naturals

CONSTANTS
    Stages,         \* stages of the evaluation
    MaxStarts,      \* bound on the calls of start_progress()
    MaxEvents       \* bound on the events of one stage

ASSUME ReporterAssumption == MaxStarts \in Nat /\ MaxEvents \in Nat

VARIABLES
    mAt,            \* where the thread of the evaluation is
    lock,           \* owner of _lock: 0 for that thread, a heartbeat thread, or Free
    active,         \* keys of _active
    stop,           \* _stop
    beat,           \* where each heartbeat thread is
    naming,         \* the stages its line names
    event,          \* the event that is being written
    shown,          \* the last line of each stage
    unwritten,      \* stages whose last event was interrupted before its line
    starts,         \* heartbeat threads so far
    events,         \* events of each stage
    cut             \* the stream has failed, or close() was interrupted

reporterVars == <<mAt, lock, active, stop, beat, naming, event, shown, unwritten, starts,
                  events, cut>>

Threads == 1..MaxStarts
Free == MaxStarts + 1
NoEvent == <<>>
Inside == {"open", "emitting", "sweeping", "stopping", "joining", "clearing"}

ReporterTypeOK ==
    /\ mAt \in Inside \cup {"closed"}
    /\ lock \in 0..Free
    /\ active \subseteq Stages /\ stop \in BOOLEAN /\ cut \in BOOLEAN
    /\ beat \in [Threads -> {"none", "measuring", "waiting", "due", "writing", "dead"}]
    /\ naming \in [Threads -> SUBSET Stages]
    /\ event \in {NoEvent} \cup (Stages \X {"running", "ended"})
    /\ shown \in [Stages -> {"none", "running", "ended"}] /\ unwritten \subseteq Stages
    /\ starts \in 0..MaxStarts /\ events \in [Stages -> 0..MaxEvents]
    /\ \A t \in Threads : lock = t <=> beat[t] = "writing"

ReporterInit ==
    /\ mAt = "closed" /\ lock = Free /\ active = {} /\ stop = FALSE
    /\ beat = [t \in Threads |-> "none"] /\ naming = [t \in Threads |-> {}]
    /\ event = NoEvent /\ shown = [s \in Stages |-> "none"] /\ unwritten = {}
    /\ starts = 0 /\ events = [s \in Stages |-> 0] /\ cut = FALSE

Threading == UNCHANGED <<beat, naming>>
Main(from, to) == mAt = from /\ mAt' = to

-----------------------------------------------------------------------------
(* The thread of the evaluation *)

(* start_progress() clears _stop, also for a thread that has not seen it yet. *)
Start ==
    /\ Main("closed", "open") /\ lock = Free /\ starts < MaxStarts
    /\ starts' = starts + 1 /\ stop' = FALSE
    /\ beat' = [beat EXCEPT ![starts + 1] = "measuring"]
    /\ shown' = [s \in Stages |-> "none"] /\ unwritten' = {}
    /\ events' = [s \in Stages |-> 0] /\ cut' = FALSE
    /\ UNCHANGED <<lock, active, naming, event>>

(* emit(), to the write of its line.  Mutant: the stage stays active. *)
ActiveKept(s, state) == active \cup {s}
ActiveAfter(s, state) == IF state = "running" THEN active \cup {s} ELSE active \ {s}

Emit(s, state) ==
    /\ Main("open", "emitting") /\ lock = Free /\ lock' = 0
    /\ events[s] < MaxEvents
    /\ events' = [events EXCEPT ![s] = @ + 1]
    /\ active' = ActiveAfter(s, state) /\ event' = <<s, state>>
    /\ UNCHANGED <<stop, shown, unwritten, starts, cut>> /\ Threading

(* _write_line: nothing once _stop is set, a line, or an error that sets it. *)
WriteLine ==
    \/ /\ stop /\ UNCHANGED <<shown, unwritten, stop, cut>>
    \/ /\ ~stop /\ shown' = [shown EXCEPT ![event[1]] = event[2]]
       /\ unwritten' = unwritten \ {event[1]}
       /\ UNCHANGED <<stop, cut>>
    \/ /\ ~stop /\ stop' = TRUE /\ cut' = TRUE /\ UNCHANGED <<shown, unwritten>>

Emitted ==
    /\ Main("emitting", "open") /\ WriteLine
    /\ lock' = Free /\ event' = NoEvent
    /\ UNCHANGED <<active, starts, events>> /\ Threading

(* Ctrl+C between the table of the active stages and the line: the lock is released,
   the table stays as it is, and no line follows. *)
EmitInterrupted ==
    /\ Main("emitting", "open") /\ lock' = Free
    /\ event' = NoEvent /\ unwritten' = unwritten \cup {event[1]}
    /\ UNCHANGED <<active, stop, shown, starts, events, cut>> /\ Threading

(* close() takes the lock and emits the end of each stage that is still active. *)
CloseBegins ==
    /\ Main("open", "sweeping") /\ lock = Free /\ lock' = 0
    /\ UNCHANGED <<active, stop, event, shown, unwritten, starts, events, cut>> /\ Threading

Sweep ==
    /\ mAt = "sweeping" /\ event = NoEvent
    /\ \E s \in active : event' = <<s, "ended">> /\ active' = active \ {s}
    /\ UNCHANGED <<mAt, lock, stop, shown, unwritten, starts, events, cut>> /\ Threading

Swept ==
    /\ mAt = "sweeping" /\ event # NoEvent /\ WriteLine
    /\ event' = NoEvent
    /\ UNCHANGED <<mAt, lock, active, starts, events>> /\ Threading

(* The lock is released before the join, which waits for a thread that may need it. *)
SweepEnds ==
    /\ event = NoEvent /\ active = {} /\ Main("sweeping", "stopping")
    /\ lock' = Free
    /\ UNCHANGED <<active, stop, event, shown, unwritten, starts, events, cut>> /\ Threading

(* The tables are cleared under the lock again.  Mutant: without it. *)
UnlockedNever == TRUE
Unlocked == lock = Free

(* Ctrl+C during the sweep: the finally block is left to run. *)
SweepInterrupted ==
    /\ Main("sweeping", "stopping") /\ lock' = Free
    /\ event' = NoEvent /\ cut' = TRUE
    /\ UNCHANGED <<active, stop, shown, unwritten, starts, events>> /\ Threading

SetStop ==
    /\ Main("stopping", "joining") /\ stop' = TRUE
    /\ UNCHANGED <<lock, active, event, shown, unwritten, starts, events, cut>> /\ Threading

(* The thread ended, or join() timed out. *)
Join ==
    /\ Main("joining", "clearing")
    /\ UNCHANGED <<lock, active, stop, event, shown, unwritten, starts, events, cut>> /\ Threading

Clear ==
    /\ Main("clearing", "closed") /\ Unlocked
    /\ active' = {}
    /\ UNCHANGED <<lock, stop, event, shown, unwritten, starts, events, cut>> /\ Threading

(* Ctrl+C behind the sweep: close() raises, and what it has not done yet is not done.
   The reporter is not closed, and may be closed again. *)
CloseInterrupted ==
    /\ mAt \in {"stopping", "joining", "clearing"} /\ mAt' = "open" /\ cut' = TRUE
    /\ UNCHANGED <<lock, active, stop, event, shown, unwritten, starts, events>> /\ Threading

-----------------------------------------------------------------------------
(* A heartbeat thread *)

Beat(t, from, to) == beat[t] = from /\ beat' = [beat EXCEPT ![t] = to]
Quietly == UNCHANGED <<mAt, active, event, shown, unwritten, starts, events>>

(* The delay is computed under the lock. *)
Measure(t) ==
    /\ Beat(t, "measuring", "waiting") /\ lock = Free
    /\ Quietly /\ UNCHANGED <<lock, stop, naming, cut>>

(* _stop.wait(delay).  Mutant: the flag is not tested. *)
StopSeenNever == FALSE
StopSeen == stop

WaitEnds(t) ==
    /\ \/ StopSeen /\ Beat(t, "waiting", "dead")
       \/ ~StopSeen /\ Beat(t, "waiting", "due")
    /\ Quietly /\ UNCHANGED <<lock, stop, naming, cut>>

(* heartbeat(): nothing is active, the reporter is closed, or an event has been
   emitted meanwhile; or the line is begun. *)
SkipBeat(t) ==
    /\ Beat(t, "due", "measuring") /\ lock = Free
    /\ Quietly /\ UNCHANGED <<lock, stop, naming, cut>>

BeginBeat(t) ==
    /\ Beat(t, "due", "writing") /\ lock = Free /\ lock' = t
    /\ active # {} /\ ~stop
    /\ naming' = [naming EXCEPT ![t] = active]
    /\ Quietly /\ UNCHANGED <<stop, cut>>

EndBeat(t) ==
    /\ Beat(t, "writing", "measuring") /\ lock' = Free
    /\ naming' = [naming EXCEPT ![t] = {}]
    /\ \/ UNCHANGED <<stop, cut>>
       \/ stop' = TRUE /\ cut' = TRUE
    /\ Quietly

-----------------------------------------------------------------------------
Evaluation ==
    \/ Start \/ EmitInterrupted \/ CloseBegins \/ SweepInterrupted \/ CloseInterrupted
    \/ \E s \in Stages, state \in {"running", "ended"} : Emit(s, state)
Writer ==
    Emitted \/ Sweep \/ Swept \/ SweepEnds \/ SetStop \/ Join \/ Clear
Heartbeat(t) == Measure(t) \/ WaitEnds(t) \/ SkipBeat(t) \/ BeginBeat(t) \/ EndBeat(t)

ReporterNext == Evaluation \/ Writer \/ \E t \in Threads : Heartbeat(t)

-----------------------------------------------------------------------------
(* Once close() has returned no line appears, not even one whose write had begun
   when _stop was set and outlived the join. *)
QuietWhenClosed == mAt = "closed" => \A t \in Threads : beat[t] # "writing"

(* A heartbeat never says that a stage is running whose end has been printed, or
   whose start has not, although it runs next to the events; but for a stage whose
   last event Ctrl+C interrupted before its line. *)
HeartbeatsAreTrue ==
    \A t \in Threads : \A s \in naming[t] \ unwritten : shown[s] = "running"

(* close() leaves no stage that was shown running without a line that ends it, unless
   the stream broke, close() was interrupted, or the event that ended it was. *)
NothingShownOpen ==
    mAt = "closed" /\ ~cut => \A s \in Stages \ unwritten : shown[s] # "running"

(* A reporter that stays closed leaves no thread behind. *)
ThreadsEnd ==
    <>[](mAt = "closed") => <>[](\A t \in Threads : beat[t] \in {"none", "dead"})

(* close() comes to an end, whatever the heartbeats are doing, as long as no write to
   the stream blocks for ever: the bound of its join bounds nothing else.  Only Ctrl+C
   ends it before the reporter is closed. *)
CloseReturns == mAt = "sweeping" ~> mAt \in {"closed", "open"}
=============================================================================
