--------------------------- MODULE Autopilot_proofs ---------------------------
(****************************************************************************)
(* Proofs about Autopilot, for every set of stages, any number of starts    *)
(* and events, and every choice of the retry parameters; first those about  *)
(* RetryCall alone.  A step of the whole is a step of one of its three      *)
(* parts, so each part has an invariant of its own; that of the provider    *)
(* call is RetryInv.                                                        *)
(****************************************************************************)
EXTENDS Autopilot, Integers, TLAPS

(* What one pause owes to the ceiling and to the provider, and what the pauses
   behind it add up to: the inductive part of the two properties. *)
PauseInv ==
    /\ call = "sleeping" => attempt < Retries /\ pause <= Ceiling
    /\ call = "sleeping" /\ asked # Nothing => pause >= asked

SumInv == waited <= attempt * Ceiling

RetryInv == RetryTypeOK /\ PauseInv /\ SumInv

(* Least returns one of its arguments, and neither is below it. *)
LEMMA LeastBound ==
    ASSUME NEW a \in Nat, NEW b \in Nat
    PROVE  Least(a, b) \in Nat /\ Least(a, b) <= b /\ Least(a, b) \in {a, b}
BY DEF Least

(* A backoff is a natural number, whatever the power of two has become. *)
LEMMA BackoffNat == Backoff \subseteq Nat
BY DEF Backoff

(* Adding one more pause keeps the sum below one more ceiling. *)
LEMMA OneMorePause ==
    ASSUME NEW w \in Nat, NEW p \in Nat, NEW n \in Nat, NEW c \in Nat,
           w <= n * c, p <= c
    PROVE  w + p <= (n + 1) * c
<1>1. (n + 1) * c = n * c + c /\ n * c \in Nat
  OBVIOUS
<1> QED
  BY <1>1

(* Fewer pauses wait less. *)
LEMMA FewerPauses ==
    ASSUME NEW m \in Nat, NEW n \in Nat, NEW c \in Nat, m <= n
    PROVE  m * c <= n * c
<1>1. n * c = m * c + (n - m) * c /\ (n - m) * c \in Nat /\ m * c \in Nat
  OBVIOUS
<1> QED
  BY <1>1

LEMMA RetryInitInv == RetryInit => RetryInv
<1>1. 0 * Ceiling = 0
  BY RetryAssumption
<1> QED
  BY <1>1, RetryAssumption DEF RetryInit, RetryInv, RetryTypeOK, PauseInv, SumInv

(* The pause a failure chooses is at most the ceiling, and at least what the
   provider asked for: what it asks for is compared with the ceiling before the
   jitter is added. *)
LEMMA PauseChosen ==
    ASSUME NEW a \in Nat \cup {Nothing}, ~TooLong(a), NEW p,
           \/ a = Nothing /\ \E d \in Backoff : p = Capped(d)
           \/ a # Nothing /\ \E j \in 1..Jitter : p = Capped(a + j)
    PROVE  p \in Nat /\ p <= Ceiling /\ (a # Nothing => p >= a)
<1>1. ASSUME a = Nothing, NEW d \in Backoff, p = Capped(d)
      PROVE  p \in Nat /\ p <= Ceiling
  <2>1. d \in Nat
    BY BackoffNat
  <2> QED
    BY <1>1, <2>1, LeastBound, RetryAssumption DEF Capped
<1>2. ASSUME a # Nothing, NEW j \in 1..Jitter, p = Capped(a + j)
      PROVE  p \in Nat /\ p <= Ceiling /\ p >= a
  <2>1. a \in Nat /\ a <= Ceiling /\ a + j \in Nat /\ a + j >= a
    BY <1>2, RetryAssumption DEF TooLong
  <2> QED
    BY <1>2, <2>1, LeastBound, RetryAssumption DEF Capped
<1> QED
  BY <1>1, <1>2

LEMMA RetryStepInv == RetryInv /\ [RetryNext]_retryVars => RetryInv'
<1> SUFFICES ASSUME RetryInv, [RetryNext]_retryVars PROVE RetryInv'
  OBVIOUS
<1> USE DEF RetryInv, RetryTypeOK, PauseInv, SumInv
<1>1. CASE BeginCall
  BY <1>1 DEF BeginCall
<1>2. CASE Succeed
  BY <1>2 DEF Succeed
<1>3. CASE Fail
  <2>1. PICK transient \in BOOLEAN, a \in RetryAfters \cup {Nothing, Initial} :
           /\ asked' = a
           /\ \/ /\ attempt >= Retries \/ ~transient \/ TooLong(a)
                 /\ call' = "raised" /\ UNCHANGED pause
              \/ /\ attempt < Retries /\ transient /\ ~TooLong(a)
                 /\ call' = "sleeping"
                 /\ \/ a = Nothing /\ \E d \in Backoff : pause' = Capped(d)
                    \/ a # Nothing /\ \E j \in 1..Jitter : pause' = Capped(a + j)
    BY <1>3 DEF Fail
  <2>2. a \in Nat \cup {Nothing} /\ UNCHANGED <<attempt, waited>>
    BY <1>3, LeastBound, RetryAssumption DEF Fail, Initial
  <2>3. CASE call' = "raised" /\ UNCHANGED pause
    BY <2>1, <2>2, <2>3
  <2>4. CASE call' = "sleeping"
    <3>1. pause' \in Nat /\ pause' <= Ceiling /\ (a # Nothing => pause' >= a)
      BY <2>1, <2>2, <2>4, PauseChosen
    <3> QED
      BY <2>1, <2>2, <2>4, <3>1
  <2> QED
    BY <2>1, <2>3, <2>4
<1>4. CASE Wake
  <2>1. /\ call' = "calling" /\ attempt' = attempt + 1 /\ waited' = waited + pause
        /\ UNCHANGED <<asked, pause>> /\ pause <= Ceiling /\ attempt < Retries
    BY <1>4 DEF Wake
  <2>2. waited' <= attempt' * Ceiling
    BY <2>1, OneMorePause, RetryAssumption
  <2> QED
    BY <2>1, <2>2, RetryAssumption
<1>5. CASE UNCHANGED retryVars
  BY <1>5 DEF retryVars
<1> QED
  BY <1>1, <1>2, <1>3, <1>4, <1>5 DEF RetryNext

LEMMA RetryInvariant == RetrySpec => []RetryInv
BY RetryInitInv, RetryStepInv, PTL DEF RetrySpec

(* The invariant gives both properties in every state. *)
LEMMA RetryInvKeepsWaits == RetryInv => RetryAfterHonoured /\ WaitBounded
<1> SUFFICES ASSUME RetryInv PROVE RetryAfterHonoured /\ WaitBounded
  OBVIOUS
<1>1. attempt \in Nat /\ waited \in Nat /\ attempt <= Retries /\ waited <= attempt * Ceiling
  BY RetryAssumption DEF RetryInv, RetryTypeOK, SumInv
<1>2. attempt * Ceiling <= Retries * Ceiling
  BY <1>1, FewerPauses, RetryAssumption
<1>3. attempt * Ceiling \in Nat /\ Retries * Ceiling \in Nat
  BY <1>1, RetryAssumption
<1>4. WaitBounded
  BY <1>1, <1>2, <1>3 DEF WaitBounded
<1>5. RetryAfterHonoured
  BY DEF RetryInv, PauseInv, RetryAfterHonoured
<1> QED
  BY <1>4, <1>5

(* The retries never pass their limit and every variable keeps its type. *)
THEOREM RetryTypeCorrect == RetrySpec => []RetryTypeOK
<1>1. RetryInv => RetryTypeOK
  BY DEF RetryInv
<1> QED
  BY <1>1, RetryInvariant, PTL

(* The provider is never called again before the time it asked for, and one call
   sleeps at most Retries times the ceiling, however it is answered. *)
THEOREM WaitsCorrect == RetrySpec => [](RetryAfterHonoured /\ WaitBounded)
BY RetryInvKeepsWaits, RetryInvariant, PTL

(* The steps a call can still take, while the provider fails as often as it may. *)
Left == 3 * (Retries - attempt)
        + (CASE call = "idle" -> 3 [] call = "calling" -> 2 [] call = "sleeping" -> 1 [] OTHER -> 0)

(* However a provider answers, every step of the call brings it nearer to its end: the
   provider is asked at most Retries + 1 times, and each error is waited for once. *)
THEOREM EveryRetryCounts == RetrySpec => [](Left \in Nat) /\ [][Left' < Left]_retryVars
<1>1. RetryInv => Left \in Nat
  BY RetryAssumption DEF RetryInv, RetryTypeOK, Left
<1>2. RetryInv /\ [RetryNext]_retryVars => [Left' < Left]_retryVars
  <2> SUFFICES ASSUME RetryInv, RetryNext PROVE Left' < Left
    OBVIOUS
  <2> USE RetryAssumption DEF RetryInv, RetryTypeOK, PauseInv, Left
  <2>1. CASE BeginCall
    BY <2>1 DEF BeginCall
  <2>2. CASE Succeed
    BY <2>2 DEF Succeed
  <2>3. CASE Fail
    <3>1. call = "calling" /\ call' \in {"raised", "sleeping"} /\ attempt' = attempt
      BY <2>3 DEF Fail
    <3> QED
      BY <3>1
  <2>4. CASE Wake
    BY <2>4 DEF Wake
  <2> QED
    BY <2>1, <2>2, <2>3, <2>4 DEF RetryNext
<1> QED
  BY <1>1, <1>2, RetryInvariant, PTL DEF RetrySpec

-----------------------------------------------------------------------------
Writing == {"emitting", "sweeping"}

(* The lock says who writes, and a closed reporter has nothing to write. *)
LockInv ==
    /\ lock = 0 <=> mAt \in Writing
    /\ mAt = "closed" => active = {} /\ lock = Free

(* The event in hand and the table of active stages agree. *)
EventInv ==
    /\ mAt = "emitting" =>
          /\ event \in Stages \X {"running", "ended"}
          /\ event[2] = "running" <=> event[1] \in active
    /\ mAt = "sweeping" /\ event # NoEvent => event[1] \notin active /\ event[2] = "ended"
    /\ mAt \notin Writing => event = NoEvent

(* While the stream is open the active stages are those shown running, but for the
   one whose line is in hand and those whose line was interrupted. *)
ShownInv ==
    /\ ~stop => \A s \in active \ unwritten : shown[s] = "running" \/ (mAt = "emitting" /\ event[1] = s)
    /\ ~cut => \A s \in Stages \ unwritten : shown[s] = "running" =>
                 s \in active \/ (mAt \in Writing /\ event # NoEvent /\ event[1] = s)
    /\ stop /\ mAt \in {"open", "emitting", "sweeping"} => cut
    /\ ~cut /\ mAt \in {"stopping", "joining", "clearing"} => active = {}

(* A line that is being written names stages that stay active until it is there, and
   whose start is shown unless its line was interrupted. *)
NamingInv ==
    \A t \in Threads : /\ naming[t] # {} => beat[t] = "writing"
                       /\ \A s \in naming[t] \ unwritten : shown[s] = "running"

ReporterInv == ReporterTypeOK /\ LockInv /\ EventInv /\ ShownInv /\ NamingInv

LEMMA ThreadNumbers ==
    Threads \subseteq 0..Free /\ Free \in 0..Free /\ 0 \notin Threads /\ Free \notin Threads /\ Free # 0
BY ReporterAssumption DEF Threads, Free

LEMMA ReporterInitInv == ReporterInit => ReporterInv
<1> SUFFICES ASSUME ReporterInit PROVE ReporterInv
  OBVIOUS
<1> USE ThreadNumbers, ReporterAssumption DEF ReporterInit
<1>1. ReporterTypeOK
  <2>1. /\ mAt \in Inside \cup {"closed"} /\ lock \in 0..Free
        /\ active \subseteq Stages /\ unwritten \subseteq Stages
        /\ stop \in BOOLEAN /\ cut \in BOOLEAN
        /\ event \in {NoEvent} \cup (Stages \X {"running", "ended"})
    OBVIOUS
  <2>2. /\ beat \in [Threads -> {"none", "measuring", "waiting", "due", "writing", "dead"}]
        /\ naming \in [Threads -> SUBSET Stages]
        /\ shown \in [Stages -> {"none", "running", "ended"}]
    OBVIOUS
  <2>3. starts \in 0..MaxStarts /\ events \in [Stages -> 0..MaxEvents]
    OBVIOUS
  <2>4. \A t \in Threads : lock = t <=> beat[t] = "writing"
    OBVIOUS
  <2> QED
    BY <2>1, <2>2, <2>3, <2>4 DEF ReporterTypeOK
<1>2. LockInv /\ EventInv
  BY DEF LockInv, EventInv, Writing
<1>3. ShownInv /\ NamingInv
  BY DEF ShownInv, NamingInv, Writing
<1> QED
  BY <1>1, <1>2, <1>3 DEF ReporterInv

(* Every step of the thread of the evaluation, then every step of a heartbeat,
   keeps the invariant. *)
LEMMA EvaluationStep == ReporterInv /\ (Evaluation \/ Writer) => ReporterInv'
<1> SUFFICES ASSUME ReporterInv, Evaluation \/ Writer PROVE ReporterInv'
  OBVIOUS
<1> USE ThreadNumbers, ReporterAssumption
    DEF ReporterInv, ReporterTypeOK, LockInv, EventInv, ShownInv, NamingInv,
        Writing, Inside, Main, Threading
<1>1. CASE Start
  <2>1. starts + 1 \in Threads
    BY <1>1 DEF Start, Threads
  <2>2. /\ mAt = "closed" /\ mAt' = "open" /\ lock = Free /\ active = {}
        /\ starts' = starts + 1 /\ stop' = FALSE /\ cut' = FALSE
        /\ beat' = [beat EXCEPT ![starts + 1] = "measuring"]
        /\ shown' = [s \in Stages |-> "none"] /\ unwritten' = {}
        /\ events' = [s \in Stages |-> 0]
        /\ UNCHANGED <<lock, active, naming, event>>
    BY <1>1 DEF Start
  <2>3. \A t \in Threads : beat[t] # "writing" /\ naming[t] = {} /\ beat'[t] # "writing"
    BY <2>1, <2>2
  <2>4. ReporterTypeOK'
    <3>1. starts' \in 0..MaxStarts /\ events' \in [Stages -> 0..MaxEvents]
      BY <1>1, <2>2 DEF Start
    <3>2. /\ beat' \in [Threads -> {"none", "measuring", "waiting", "due", "writing", "dead"}]
          /\ shown' \in [Stages -> {"none", "running", "ended"}]
      BY <2>1, <2>2
    <3> QED
      BY <2>2, <2>3, <3>1, <3>2
  <2>5. (LockInv /\ EventInv)' /\ ShownInv' /\ NamingInv'
    BY <2>2, <2>3
  <2> QED
    BY <2>4, <2>5
<1>2. CASE CloseBegins       BY <1>2 DEF CloseBegins
<1>3. CASE SweepInterrupted  BY <1>3 DEF SweepInterrupted
<1>4. ASSUME NEW s \in Stages, NEW state \in {"running", "ended"}, Emit(s, state)
      PROVE  ReporterInv'
  <2>1. /\ mAt = "open" /\ mAt' = "emitting" /\ lock = Free /\ lock' = 0
        /\ events' = [events EXCEPT ![s] = @ + 1] /\ events[s] < MaxEvents
        /\ active' = (IF state = "running" THEN active \cup {s} ELSE active \ {s})
        /\ event' = <<s, state>>
        /\ UNCHANGED <<stop, shown, unwritten, starts, cut, beat, naming>>
    BY <1>4 DEF Emit, ActiveAfter
  <2>2. event'[1] = s /\ event'[2] = state /\ event' # NoEvent
    BY <2>1 DEF NoEvent
  <2>3. events' \in [Stages -> 0..MaxEvents] /\ active' \subseteq Stages
    BY <2>1
  <2>4. ReporterTypeOK'
    BY <2>1, <2>3
  <2>5. LockInv' /\ EventInv' /\ NamingInv'
    BY <2>1, <2>2
  <2>6. ShownInv'
    BY <2>1, <2>2
  <2> QED
    BY <2>4, <2>5, <2>6
<1>5. CASE Emitted
  <2>1. /\ mAt = "emitting" /\ mAt' = "open" /\ lock' = Free /\ UNCHANGED <<active, starts, events, beat, naming>>
        /\ event' = NoEvent
    BY <1>5 DEF Emitted
  <2>2. event[1] \in Stages /\ event[2] \in {"running", "ended"}
    BY <2>1
  <2>3. \A t \in Threads : beat[t] # "writing" /\ naming[t] = {}
    BY <2>1
  <2>4. CASE stop /\ UNCHANGED <<shown, unwritten, stop, cut>>
    BY <2>1, <2>2, <2>3, <2>4
  <2>5. CASE ~stop /\ stop' = TRUE /\ cut' = TRUE /\ UNCHANGED <<shown, unwritten>>
    BY <2>1, <2>2, <2>3, <2>5
  <2>6. CASE ~stop /\ shown' = [shown EXCEPT ![event[1]] = event[2]]
                  /\ unwritten' = unwritten \ {event[1]} /\ UNCHANGED <<stop, cut>>
    <3>1. ReporterTypeOK' /\ LockInv' /\ EventInv' /\ NamingInv'
      BY <2>1, <2>2, <2>3, <2>6
    <3>2. ShownInv'
      BY <2>1, <2>2, <2>6
    <3> QED
      BY <3>1, <3>2
  <2> QED
    BY <1>5, <2>4, <2>5, <2>6 DEF Emitted, WriteLine
<1>6. CASE Sweep
  <2>1. PICK s \in active : event' = <<s, "ended">> /\ active' = active \ {s}
    BY <1>6 DEF Sweep
  <2>2. /\ mAt = "sweeping" /\ event = NoEvent
        /\ UNCHANGED <<mAt, lock, stop, shown, unwritten, starts, events, cut, beat, naming>>
    BY <1>6 DEF Sweep
  <2>3. event'[1] = s /\ event'[2] = "ended" /\ event' # NoEvent /\ s \in Stages
    BY <2>1 DEF NoEvent
  <2>4. ReporterTypeOK'
    BY <2>1, <2>2, <2>3
  <2>5. LockInv' /\ EventInv' /\ NamingInv' /\ ShownInv'
    BY <2>1, <2>2, <2>3
  <2> QED
    BY <2>4, <2>5
<1>7. CASE Swept
  <2>1. /\ mAt = "sweeping" /\ event # NoEvent /\ UNCHANGED <<mAt, lock, active, starts, events, beat, naming>>
        /\ event' = NoEvent
    BY <1>7 DEF Swept
  <2>2. event[1] \in Stages /\ event[2] \in {"running", "ended"}
    BY <2>1
  <2>3. \A t \in Threads : beat[t] # "writing" /\ naming[t] = {}
    BY <2>1
  <2>4. CASE stop /\ UNCHANGED <<shown, unwritten, stop, cut>>
    BY <2>1, <2>2, <2>3, <2>4
  <2>5. CASE ~stop /\ stop' = TRUE /\ cut' = TRUE /\ UNCHANGED <<shown, unwritten>>
    BY <2>1, <2>2, <2>3, <2>5
  <2>6. CASE ~stop /\ shown' = [shown EXCEPT ![event[1]] = event[2]]
                  /\ unwritten' = unwritten \ {event[1]} /\ UNCHANGED <<stop, cut>>
    <3>1. ReporterTypeOK' /\ LockInv' /\ EventInv' /\ NamingInv'
      BY <2>1, <2>2, <2>3, <2>6
    <3>2. ShownInv'
      BY <2>1, <2>2, <2>6
    <3> QED
      BY <3>1, <3>2
  <2> QED
    BY <1>7, <2>4, <2>5, <2>6 DEF Swept, WriteLine
<1>8. CASE SweepEnds         BY <1>8 DEF SweepEnds
<1>9. CASE SetStop           BY <1>9 DEF SetStop
<1>10. CASE Join             BY <1>10 DEF Join
<1>11. CASE Clear            BY <1>11 DEF Clear, Unlocked
<1>12. CASE EmitInterrupted
  <2>1. /\ mAt = "emitting" /\ mAt' = "open" /\ lock' = Free /\ event' = NoEvent
        /\ unwritten' = unwritten \cup {event[1]} /\ event[1] \in Stages
        /\ UNCHANGED <<active, stop, shown, starts, events, cut, beat, naming>>
    BY <1>12 DEF EmitInterrupted
  <2>2. \A t \in Threads : beat[t] # "writing" /\ naming[t] = {}
    BY <2>1
  <2>3. ReporterTypeOK'
    BY <2>1, <2>2
  <2>4. LockInv' /\ EventInv' /\ NamingInv'
    BY <2>1, <2>2
  <2>5. ShownInv'
    <3>1. (~stop => \A s \in active \ unwritten : shown[s] = "running")'
      BY <2>1
    <3>2. (~cut => \A s \in Stages \ unwritten : shown[s] = "running" => s \in active)'
      BY <2>1
    <3> QED
      BY <2>1, <3>1, <3>2
  <2> QED
    BY <2>3, <2>4, <2>5
<1>13. CASE CloseInterrupted BY <1>13 DEF CloseInterrupted
<1> QED
  BY <1>1, <1>2, <1>3, <1>4, <1>5, <1>6, <1>7, <1>8, <1>9, <1>10, <1>11, <1>12, <1>13
     DEF Evaluation, Writer

LEMMA HeartbeatStep ==
    ASSUME ReporterInv, NEW t \in Threads, Heartbeat(t)
    PROVE  ReporterInv'
<1> USE ThreadNumbers DEF ReporterInv, ReporterTypeOK, LockInv, EventInv, ShownInv,
        NamingInv, Writing, Inside, Beat, Quietly
<1>1. CASE Measure(t)    BY <1>1 DEF Measure
<1>2. CASE WaitEnds(t)   BY <1>2 DEF WaitEnds, StopSeen
<1>3. CASE SkipBeat(t)   BY <1>3 DEF SkipBeat
<1>4. CASE BeginBeat(t)
  <2>1. /\ beat[t] = "due" /\ beat' = [beat EXCEPT ![t] = "writing"]
        /\ lock = Free /\ lock' = t /\ ~stop
        /\ naming' = [naming EXCEPT ![t] = active]
        /\ UNCHANGED <<mAt, active, event, shown, unwritten, starts, events, stop, cut>>
        /\ mAt # "closed"
    BY <1>4 DEF BeginBeat
  <2>2. \A u \in Threads : beat[u] # "writing" /\ (u # t => beat'[u] = beat[u] /\ naming'[u] = naming[u])
    BY <2>1
  <2>3. beat'[t] = "writing" /\ naming'[t] = active
    BY <2>1
  <2>4. \A s \in active \ unwritten : shown[s] = "running"
    BY <2>1
  <2>5. ReporterTypeOK'
    BY <2>1, <2>2, <2>3
  <2>6. LockInv' /\ EventInv' /\ ShownInv'
    <3>1. LockInv' /\ EventInv'
      BY <2>1
    <3>2. ShownInv'
      BY <2>1
    <3> QED
      BY <3>1, <3>2
  <2>7. NamingInv'
    BY <2>1, <2>2, <2>3, <2>4
  <2> QED
    BY <2>5, <2>6, <2>7
<1>5. CASE EndBeat(t)
  <2>1. /\ beat[t] = "writing" /\ beat' = [beat EXCEPT ![t] = "measuring"]
        /\ lock = t /\ lock' = Free /\ mAt # "closed"
        /\ naming' = [naming EXCEPT ![t] = {}]
        /\ UNCHANGED <<mAt, active, event, shown, unwritten, starts, events>>
    BY <1>5 DEF EndBeat
  <2>2. \A u \in Threads : beat'[u] # "writing" /\ (u # t => naming'[u] = naming[u])
    BY <2>1
  <2>3. naming'[t] = {}
    BY <2>1
  <2>4. \/ UNCHANGED <<stop, cut>>
        \/ stop' = TRUE /\ cut' = TRUE
    BY <1>5 DEF EndBeat
  <2>5. ReporterTypeOK'
    BY <2>1, <2>2, <2>4
  <2>6. LockInv' /\ EventInv' /\ ShownInv'
    BY <2>1, <2>4
  <2>7. NamingInv'
    BY <2>1, <2>2, <2>3
  <2> QED
    BY <2>5, <2>6, <2>7
<1> QED
  BY <1>1, <1>2, <1>3, <1>4, <1>5 DEF Heartbeat

LEMMA ReporterStep == ReporterInv /\ [ReporterNext]_reporterVars => ReporterInv'
<1>1. ReporterInv /\ UNCHANGED reporterVars => ReporterInv'
  BY DEF reporterVars, ReporterInv, ReporterTypeOK, LockInv, EventInv, ShownInv, NamingInv
<1> QED
  BY <1>1, EvaluationStep, HeartbeatStep DEF ReporterNext

-----------------------------------------------------------------------------
(* The heartbeat of the generation: the command goes on only once its event is set,
   and a thread that sees the event writes no more. *)
DatasetInv ==
    /\ phase \in {"choosing", "generating", "leaving", "joining", "announcing", "evaluating", "failed"}
    /\ waiter \in {"none", "waiting", "due", "writing", "dead"}
    /\ stopped \in BOOLEAN /\ ready \in BOOLEAN /\ late \in Nat
    /\ phase \in {"joining", "announcing"} \/ ready => stopped
    /\ late <= 1
    /\ late = 1 => ready /\ waiter \in {"waiting", "dead"}

(* A step of Autopilot, seen from each of its parts. *)
LEMMA DatasetStep == DatasetInv /\ [Next]_vars => DatasetInv'
<1> SUFFICES ASSUME DatasetInv, [Next]_vars PROVE DatasetInv'
  OBVIOUS
<1> USE DEF DatasetInv, Others, Phase, Waiter, datasetVars
<1>1. CASE Reuse         BY <1>1 DEF Reuse
<1>2. CASE EnterProgress BY <1>2 DEF EnterProgress
<1>3. CASE Generate      BY <1>3 DEF Generate
<1>4. CASE Generated     BY <1>4 DEF Generated
<1>5. CASE StopWaiter    BY <1>5 DEF StopWaiter
<1>6. CASE JoinWaiter    BY <1>6 DEF JoinWaiter
<1>7. CASE Announce      BY <1>7 DEF Announce
<1>8. CASE Evaluate      BY <1>8 DEF Evaluate
<1>9. CASE WaiterWakes   BY <1>9 DEF WaiterWakes, SeesStopped
<1>10. CASE WaiterBegins BY <1>10 DEF WaiterBegins
<1>11. CASE WaiterEnds
  <2>1. late = 0 /\ late' \in {0, 1} /\ (late' = 1 => ready)
    BY <1>11 DEF WaiterEnds
  <2>2. /\ waiter' = "waiting" /\ UNCHANGED <<phase, ready>>
        /\ stopped' = stopped \/ stopped' = TRUE
    BY <1>11 DEF WaiterEnds
  <2>3. late' \in Nat /\ late' <= 1 /\ (late' = 1 => ready)
    BY <2>1
  <2> QED
    BY <2>2, <2>3, Zenon
<1>12. CASE UNCHANGED vars BY <1>12 DEF vars
<1> QED
  BY <1>1, <1>2, <1>3, <1>4, <1>5, <1>6, <1>7, <1>8, <1>9, <1>10, <1>11, <1>12
     DEF Next, Command, WaiterNext

LEMMA ReporterPart == [Next]_vars => [ReporterNext]_reporterVars
BY DEF Next, Command, WaiterNext, vars, Others, Reuse, EnterProgress, Generate, Generated,
       StopWaiter, JoinWaiter, Announce, Evaluate, WaiterWakes, WaiterBegins, WaiterEnds

LEMMA RetryPart == [Next]_vars => [RetryNext]_retryVars \/ RetryInit'
BY DEF Next, Command, WaiterNext, vars, Others, Reuse, EnterProgress, Generate, Generated,
       StopWaiter, JoinWaiter, Announce, Evaluate, WaiterWakes, WaiterBegins, WaiterEnds,
       retryVars, RetryInit

Inv == ReporterInv /\ RetryInv /\ DatasetInv

LEMMA Invariant == Spec => []Inv
<1>1. Init => Inv
  <2>1. Init => DatasetInv
    <3>1. 0 \in Nat /\ 0 <= 1 /\ 0 # 1
      OBVIOUS
    <3> QED
      BY <3>1, Zenon DEF Init, DatasetInv
  <2> QED
    BY <2>1, ReporterInitInv, RetryInitInv DEF Init, Inv
<1>2. Inv /\ [Next]_vars => Inv'
  <2> SUFFICES ASSUME Inv, [Next]_vars PROVE Inv'
    OBVIOUS
  <2>1. ReporterInv'
    BY ReporterPart, ReporterStep DEF Inv
  <2>2. RetryInv'
    <3>1. RetryInit' => RetryInv'
      <4>1. 0 * Ceiling = 0
        BY RetryAssumption
      <4> QED
        BY <4>1, RetryAssumption DEF RetryInit, RetryInv, RetryTypeOK, PauseInv, SumInv
    <3> QED
      BY <3>1, RetryPart, RetryStepInv DEF Inv
  <2>3. DatasetInv'
    BY DatasetStep DEF Inv
  <2> QED
    BY <2>1, <2>2, <2>3 DEF Inv
<1> QED
  BY <1>1, <1>2, PTL DEF Spec

-----------------------------------------------------------------------------
(* Every variable keeps its type, and a heartbeat holds the lock exactly while it
   writes. *)
THEOREM AutopilotTypeCorrect == Spec => []TypeOK
<1>1. Inv => TypeOK
  BY DEF Inv, ReporterInv, RetryInv, DatasetInv, TypeOK
<1> QED
  BY <1>1, Invariant, PTL

(* No heartbeat is being written once close() has returned, although its join may
   have timed out. *)
THEOREM QuietCorrect == Spec => []QuietWhenClosed
<1>1. Inv => QuietWhenClosed
  BY ThreadNumbers DEF Inv, ReporterInv, ReporterTypeOK, LockInv, QuietWhenClosed
<1> QED
  BY <1>1, Invariant, PTL

(* A heartbeat names only stages whose last line says that they run, or whose last
   event was interrupted before its line. *)
THEOREM HeartbeatsCorrect == Spec => []HeartbeatsAreTrue
<1>1. Inv => HeartbeatsAreTrue
  BY DEF Inv, ReporterInv, NamingInv, HeartbeatsAreTrue
<1> QED
  BY <1>1, Invariant, PTL

(* A closed reporter has ended every stage it has shown, unless the stream broke,
   close() was interrupted, or the event that ends the stage was. *)
THEOREM NothingOpenCorrect == Spec => []NothingShownOpen
<1>1. Inv => NothingShownOpen
  BY DEF Inv, ReporterInv, LockInv, ShownInv, Writing, NothingShownOpen
<1> QED
  BY <1>1, Invariant, PTL

(* At most one line of the generation comes after its end has been announced. *)
THEOREM OneLateLineCorrect == Spec => []OneLateLine
<1>1. Inv => OneLateLine
  BY DEF Inv, DatasetInv, OneLateLine
<1> QED
  BY <1>1, Invariant, PTL

(* What WaitsCorrect shows of one call holds for the call of the generation: the
   provider is not called again too early, ... *)
THEOREM GenerationHonours == Spec => []RetryAfterHonoured
<1>1. RetryInv => RetryAfterHonoured
  BY RetryInvKeepsWaits
<1> QED
  BY <1>1, Invariant, PTL DEF Inv

(* ... and the call does not sleep for longer than its retries and ceiling allow. *)
THEOREM GenerationBounded == Spec => []WaitBounded
<1>1. RetryInv => WaitBounded
  BY RetryInvKeepsWaits
<1> QED
  BY <1>1, Invariant, PTL DEF Inv
=============================================================================
