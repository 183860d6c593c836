# A TLA+ model of SkillEvaluator

SkillEvaluator checks agent skills in three tiers: Tier 1 runs static validators, Tier 2 looks for
duplicate skills with embeddings, Tier 3 runs live evaluations of a skill with and without it through the
Harbor CLI, in containers or on the host, and grades what the agents did. This directory models the parts
of it whose correctness depends on the order in which things happen, checks the models with TLC on small
instances, and proves the safety properties with TLAPS for all instances.

Paths below are relative to `src/src/skillevaluator/` unless they name another top-level directory.

## 1. Inventory

| Component | State it keeps | Operations | Interacts with |
|---|---|---|---|
| Harbor process supervision (`tier3/harbor/runner.py`, `_run_bounded_harbor_process`) | the child process and its group, an output budget, error lists, the cancellation events | launch, read output, write stdin, poll, deadline, SIGTERM / grace / SIGKILL, reap, join | called by every arm of every agent; told to stop by the coordinating thread through two events |
| Arms of an agent (`_run_agent_pair`, `_run_stop_on_pass_variant`) | futures, per-arm errors, attempt job directories, `stop_launching` | split the trial budget, run arms or cases in a pool, retry a case until it passes, merge attempts | the supervision below, the coordinating thread above |
| Run orchestration (`_run_harbor_eval_impl`, `run_harbor_eval`, `_RunProgressLifecycle`) | futures of the agents, the queue of started agents, errors, open progress stages, artifacts of the run | submit, wait, harvest, cancel on Ctrl+C, collect, report, publish, finalize | the arms, the progress reporters, results on disk |
| Progress reporters (`tier3/harbor/progress.py`) | plan, active stages, last events, heartbeat thread | start, emit, heartbeat, close; disabling wrapper | the orchestration and a terminal |
| Local environment (`tier3/harbor/local_environment.py`) | active processes, creation tasks, cleanup tasks, stop flag | start, exec, stop, process-tree termination | Harbor's asyncio loop |
| Docker, GKE and other environments (`secure_docker_environment.py`, `gke_environment.py`, ...) | container and exec bookkeeping | start, exec, upload, download, stop | Harbor, Docker, Kubernetes |
| Secure copy (`tier3/harbor/secure_copy.py`) | staged node, backup, reservation | copy a tree or a file, publish it by rename, roll back | job directories, downloads |
| Output provenance (`tier3/output_provenance.py`) | the per-user key, ownership markers | create the key without a race, recover an interrupted publication, mark and verify output roots | every process of the user |
| Latest results (`tier3/results_location.py`) | run directories, `latest` pointer | publish, resolve, order, fall back | concurrent runs, readers |
| Artifact retention (`tier3/harbor/artifact_retention.py`) | outcome | finalize once | the orchestration |
| Result collection (`tier3/harbor/collector.py`, `stats.py`, `metrics.py`) | none beyond a call | validate job results, aggregate trials, pass@k | job directories |
| Stream redaction (`tier3/harbor/stream_redaction.py`) | pending text, trie position | feed, finish | the output reader |
| Retry of inference calls (`inference/retry.py`, `inference/client.py`) | attempt counter, delay | call, classify, back off | providers |
| Embedding registry and catalog (`embedding/`) | cached vectors, catalog file | register, look up, extract | Tier 2 |
| Validators (`validators/`), plugin analysis (`plugin_*.py`), MCP checks | none beyond a call | scan and report | the CLI |
| Reporting (`reporting/`, `evaluation/`) | report files | render, write atomically, escape | the CLI |
| CI publication (`ci/`, `scripts/ci`) | release records, bundles | plan, verify, publish | the forge |
| CLI and workflows (`cli.py`, `tier_workflows.py`, `provider_config.py`) | options, exit code | parse, resolve, dispatch | everything above |

### What is hard here

* **Threads.** One run has a coordinating thread, a pool of agents, a pool of arms or cases per agent, and
  two service threads per Harbor process. Ctrl+C reaches the coordinating thread only, between any two of
  its steps.
* **Processes.** Harbor is the leader of a group whose members may outlive it and hold its output pipe.
* **Several processes of one user** create the provenance key, publish results and read them concurrently,
  and any of them may die between two file-system calls.
* **Asyncio.** Cleanup in the local environment must survive repeated cancellation of the task that does it.
* **Time.** Deadlines, grace periods and joins expire while the event they wait for arrives.

The properties that make each component correct, and the lines where they are at risk, are the "hazards"
of `PROJECT.json`.

## 2. Modules and how they compose

In order of what a failure would cost.

| Module | What it models | Abstract specification, composition |
|---|---|---|
| `HarborProcess` | supervision of one Harbor process | implements `HarborJob` |
| `HarborRun` | a whole run: coordinator, agents, ordinary and extra arms, trial budget, Ctrl+C, progress, finalization | implements `HarborJob` for each arm, and `Executor` |
| `StopOnPass` | one condition under `--stop-on-pass` | implements `Executor` |
| `LocalEnvironment` | `start`, `exec`, `stop` and the reaper of late processes on one asyncio loop | |
| `OutputProvenance` | the user's key and the marker of a root | implements `SharedKey` |
| `LatestResults` | the last writes of concurrent runs, the atomic writer of `result.json`, `latest` and its readers | |
| `SecurePublish` | transactional publication of a tree | |
| `Autopilot` | the generation of a dataset, then the evaluation, on one stream | composes `ProgressReporter` and `RetryCall` |

`MC...` modules and `.cfg` files give sizes; `..._proofs` modules hold theorems and extend the module they
are about.

What would come next: streaming redaction (`harbor/stream_redaction.py`), whose output should not depend on
how the text is cut, over bounded texts; the path-based backend of secure copy; pass@k and the
classification of trials as operators checked against a reference definition.

## 3. The modules in detail

All of the paths in this section are under `tier3/`, except `inference/retry.py`.

**`HarborJob`** is the contract of one call of `_run_bounded_harbor_process`: a job is refused, not
launched, or launched and ended once, with one outcome; it is cancelled only on request, and then ends.

**`Executor`** is what the runner relies on of the thread pool it runs its agents and cases in (an external
class): a task runs once, in one of `Size` threads, or is cancelled before it has begun. **`SharedKey`** is
what `output_provenance.py` promises, without files: the key is created once, each call that loads it gets
it, and it alone signs the marker.

**`HarborProcess`** (`harbor/runner.py`) is the call itself. `pc` follows the supervising thread: launch
check, `Popen`, start of the threads, the four tests of the polling loop as separate steps, termination
(SIGTERM, grace, SIGKILL, reap), join, verdict, and the exception handler with its own termination
(`primary` is the exception in flight). `killpg` may be refused (`TermRefused`, `KillRefused`): that is
suppressed when Harbor turns out to be gone, and otherwise leaves the termination at once, with a note when
it was the handler's (`cleanupFailed`); `refused` records the signals nobody got. The reader thread reads
chunks into a budget, the writer feeds stdin, and the operating system owns `leader`, `child` and
`environments`: descendants may leave the group or keep its output open, Harbor may exit, be killed or clean
up on SIGTERM. Signals, pipes and `waitpid` are modelled by what they do to the group; a signal that is
delivered reaches every member of it. Clocks are sets of deadlines that are past.

**`HarborRun`** (`harbor/runner.py`) has the coordinating thread (`pc`, one statement that touches shared
state per step), the executor (`queue`, `worker`), the jobs of each agent, the two cancellation events, the
`started` queue and the progress events. `Interrupt` raises Ctrl+C before any step of the coordinator, also
inside the handlers of an earlier one. Results, reports and `latest` are steps that may fail. The arms of an
agent run at once within `WorkerCount` slots and divide `NConcurrent` trials (`JobConcurrency`); an arm in
`Extra` may raise without failing its agent, an ordinary one may not.

**`StopOnPass`** (`harbor/runner.py`, `_run_stop_on_pass_variant`) has the pool of cases
(`future`, `at`), for each the attempts and what their jobs left (`verdict`: passed, scored low, timed out in
one trial, failed), the errors reported, `stop_launching`, and the thread that harvests, cancels the queue
and merges.

**`LocalEnvironment`** (`harbor/local_environment.py`): `at` says where each `exec()` is suspended, and each
step runs from one `await` to the next. The creation of a process, its group, the collector of its pipes and
the reaper of a creation that was given up are tasks of their own; `pending`, `active`, `secrets` and `errors`
are the tables that `exec()`, the reaper's callback, `stop()` and `start()` share. `Cancel` and `CancelStop`
deliver a cancellation at any await, also during the cleanup of an earlier one. `_terminate_process_tree`
is one step at the end of its wait: it kills the group, is refused by `killpg`, kills it and finds a
collector that will not end, or returns as if all were well with members of the group alive (a refused
`killpg` counts as done once the launcher has exited, and `wait_for_process_group_exit` gives up in
silence). `refused` holds the groups left by a termination that raised, `letGo` those left by one that
returned, which no table need name any more.

**`OutputProvenance`** (`output_provenance.py`): each call goes through lookup, `lstat`, read, creation of a
temporary name, write, `link`, unlink, and the recovery of an interrupted publication; the marker is opened,
signed and synced. An inode has two links between `link` and `unlink`, which is what readers reject and
recovery repairs. `Crash` stops a call between any two file-system calls. Any call of the file system may
also fail: a read or a recovery of the key (`ReadFails`, `RecoverFails`; `denied` has the calls that met
such an error), the creation of the key, the reading of a marker, its signature. The cleanup after a failure
may fail in its turn: the `unlink` of the finally clause raises, the withdrawal of a half marker is skipped
when its identity could not be read, or its error is swallowed (`stuck`).

**`LatestResults`** (`results_location.py`, with `write_output_file_atomically` of `output_provenance.py` and
the last statements of a run in `harbor/runner.py`): each run reserves a directory named by the second,
writes `run_config.json` in place and `result.json` through a temporary file that is synced, renamed and
whose directory is synced, then replaces the link `latest`. `files`, `whole` and `synced` say which entries
exist, which a reader accepts, and which survive a power loss. A reader resolves the link, examines the run
it names, and scans all directories when it distrusts it; the answer is the path of the link, resolved later
(`Follow`). `Crash`, `PowerLoss` and `Discard` (a user removes a run, file by file) may come between any two
steps. Nobody syncs the results root, so a power loss may take a run directory whole, marker, result and
all. A reader may meet an error, or a directory that changes under it: a candidate that is complete is then
distrusted or left out (`DistrustInError`, `ScanSkips`), or the whole listing is dropped (`ListFails`);
`rSkipped` has the runs a scan did not see for that reason. A writer may fail to remove its temporary file,
or its temporary link (`PublishLeavesLink`).

**`SecurePublish`** (`harbor/secure_copy.py`, descriptor backend) is `_publish_transactional` and the
finally clause of `copytree_secure` and `copy_file_secure`, one statement per step: `name` maps the four
names in the parent directory to nodes, `mode` says which nodes are hidden. `Fail` lets any operation fail,
`Interrupt` delivers one `KeyboardInterrupt` before any statement, `Unsupported` is the rename the file
system lacks. Taking the backup away may fail half-way (`partial`). A crash needs no action: it is a
behaviour that stops, so what it must not lose is an invariant of every state.

**`RetryCall`** (`inference/retry.py`) is `retry_call_with_backoff`: a call, the classification of its error
(a choice), the delay asked for or drawn, its cap, the sleep. Delays are counted in the smallest jitter.

**`ProgressReporter`** (`harbor/progress.py`) has the thread of the evaluation in `start_progress`, `emit` and
`close`, one heartbeat thread per start, the lock, and `_stop`, which is set without it. A write takes two
steps and may fail; a join may time out. Ctrl+C may come inside `emit`, after the table of stages has changed
and before the line is written (`EmitInterrupted`; `unwritten` has the stages whose table and lines differ
for that), in the sweep of `close` (`SweepInterrupted`) and behind it (`CloseInterrupted`): `close` then
raises, the reporter is not closed, and it may be closed again.

**`Autopilot`** (`cli.py`, `dataset_progress.py`) is `evaluate --autopilot` as its user sees it: an evaluation
source is reused or generated by a call that may be retried, under a heartbeat thread of its own with a
bounded join, then the evaluation is reported on the same stream.

## 4. What the runs show

| Run | Question | Bounds |
|---|---|---|
| `process` | Is the group contained, is a verdict Harbor's own, does an interrupted job clean up, is nothing left running behind the caller, do Ctrl+C and the deadline end the call, does it implement `HarborJob`? | 1 descendant, an output budget of 2 read in chunks of 1 or 2 (the last read may cross the budget), a deadline; any signal may be refused |
| `process_docstring` | Is the process tree always stopped on cancellation, as the docstring says? No: see below | 1 descendant |
| `run` | Who starts after a stop, what is collected, is finalization alone with the files, is the trial budget kept, is progress ordered, does each arm keep the contract of one job, does one Ctrl+C end the run? | 2 agents on 1 worker (one waits in the queue), an ordinary and an extra arm that divide 3 trials, up to 3 Ctrl+C (the third falls in the handler of the second) |
| `run_second_interrupt`, `run_terminal_event` | Two documented promises that do not hold | 2 agents, 1 arm, 2 Ctrl+C |
| `stop_on_pass` | Is what is merged complete and reported, does a case that was queued when launches stopped launch nothing, does an interrupt end the condition? | 3 cases on 2 workers (one is always queued), 2 attempts (a retry) |
| `local_environment` | Is every process and every entry of the tables owned, is the directory removed only when it is quiet, is a cancellation neither lost nor acted upon too early, do cancelled calls and `stop()` end? | 2 calls of `exec()`, one of which may be cancelled once and may leave a group that outlives a termination (`Surviving`), 2 calls of `stop()` with a `start()` between them |
| `provenance` | Is there one key, is every complete marker signed with it, does every call return, who may leave files behind? | 3 calls (a creator, one that meets its half-done publication, one that comes later), 2 reads |
| `results` | Is a run that a reader gets complete, and not older than what it could have seen; what is left of it after a power loss? | 2 runs (in the same second or not), 1 read, 2 faults (crashes, power losses, removals, errors of the reader, failed cleanups) |
| `publish` | What does the destination hold after any set of failures, and at every instant? | none: the module has no size, TLC sees all of it; one `KeyboardInterrupt` |
| `publish_interrupted_cleanup` | A documented promise under `KeyboardInterrupt` that does not hold | as above |
| `progress` | Is every line true when it is printed, is nothing printed after `close()`, is a `Retry-After` honoured, do all threads end? | 2 stages, 2 starts (a thread of the first may meet the second), 2 events per stage, Ctrl+C in `emit` and `close`, 3 retries, delays below, at and above a ceiling of 3 |

Every property of a passing run has a mutant (`PROJECT.json`): a definition changed the way a bug would
change it, kept in the module next to the definition it replaces and used by nothing else. Under it the run
finds the property violated. Type invariants, and a few invariants that matter only as parts of these
(`NothingAfterPass`, `NothingOpenAtTheEnd`, `NothingShownOpen`, `CurrentAttemptOnly`, `WaitBounded`),
are not repeated in the runs: section 6 proves them.

`CHECK_DEADLOCK FALSE` is set where the program ends: a condition that returned, calls that ended or died, a
publication that is over, threads that stopped, a reader that has its answer.

Bounds: two of everything that competes and one more where a queue must not be empty; the invariants proved
in section 6 hold for any size, and `MaxInterrupts = 3` covers each nesting of handlers the code has. One
descendant is enough for the liveness of `HarborProcess`, since the supervisor never tells descendants
apart; its invariants are proved for any set of them. One call whose group may survive, next to one whose
group does not, is enough: `LocalEnvironment_proofs` takes any set `Surviving`. Two runs and one read are
enough for a reader to find the link moving under it.

### Disagreements with the documentation

* **`process_docstring`** — `_run_bounded_harbor_process` says a cancellation "stops a running process
  tree". If Harbor exits by itself between the cancellation test and the handler, and its output is already
  closed, the handler finds nothing to terminate, and a descendant that closed the pipe survives.
* **`run_second_interrupt`** — the guide says "a second Ctrl+C skips the wait". It does while the
  coordinator is in `_join_interrupted_agents`; before that, or when the first Ctrl+C arrived before the
  futures were bound, it leaves the handler without setting `forced`.
* **`run_terminal_event`** — `_RunProgressLifecycle` says it guarantees one terminal event. A Ctrl+C or an
  error in the finalization of the artifacts, which precedes `fail_unfinished`, leaves none.
* **`publish_interrupted_cleanup`** — the comment in `_cleanup_backup_best_effort` says cleanup must not turn
  a success into a destructive rollback. A `KeyboardInterrupt` after the backup is gone and before
  `published = True` makes the finally clause remove the new tree, and then the copy.

### Behaviours worth knowing

States the models reach and which no line of the repository promises to exclude, or only in part:

* A `KeyboardInterrupt` between the first rename of a publication and `old_moved = True` leaves no destination;
  the tree is under its hidden backup name (`secure_copy.py`; `FailureRestores` is about failures only).
* `latest` names the last run to publish, not the newest one, while the fallback of a reader orders runs by
  name (`docs/reports.mdx` speaks of the newest). `ReadsArePublished` says what a reader can rely on.
* `run_config.json` is neither synced nor replaced atomically (`runner.py`), so after a power loss a published
  run may not count as completed although its result is whole (`LinkedIsFinal`, `ResultsAreDurable`). A
  publication that fails is ignored by the run, and an older link stays.
* A refused signal (`PermissionError`) while Harbor lives ends its termination before the grace period or
  SIGKILL. The caller gets an exception, with a note when the handler was terminating, and Harbor may still
  run (`runner.py`; the exemptions of `Contained`, `NothingRunsBehindACaller`, `InterruptedJobCleansUp`).
* In the local environment a termination may return with members of the group alive; the process is then
  released, and `stop()` may delete the directory under it (`local_environment.py`; `letGo` in `Ownership`,
  `EndedContained` and `RemovedWhenQuiet`).
* A failed write of a marker may leave it half written, which makes the root unusable; a failed creation of
  the key may leave its temporary name (`OnlyFaultsLeaveFiles`).
* A power loss may take a published run, directory and all, since nobody syncs the results root; if it
  leaves the directory, it leaves the result (`ResultsAreDurable`).
* A reader that meets an error answers with an older run, or with none, without a word (`ReadsArePublished`
  and `ScanIsNewest` exempt what `rSkipped` names).
* A Ctrl+C inside `emit` leaves a stage active that was never shown as running, or ended without a line; the
  next heartbeat may name the former (`HeartbeatsAreTrue`, `NothingShownOpen`).
* A cancellation of `stop()` during a termination is absorbed and turned into a "not confirmed" error; the
  process stays in the table for the next `stop()`.
* The bound of the join in `PlainProgressReporter.close()` does not bound `close()`, which still needs the
  lock that a blocked heartbeat holds; a heartbeat whose join timed out survives into the next start, and
  ends with it.
* One "live evaluation has not started" line may follow the line that says the source is ready
  (`OneLateLine`).
* A call that found the marker of another call complete may own a root that the other one then unmarks,
  because its sync failed (`output_provenance.py`).

## 5. Fairness

* `HarborProcess`: the supervisor runs; the reader sees an end of file that is there and closes when it must;
  SIGKILL takes effect; a grace period that has begun ends. The deadline need not come, nothing is asked of
  the writer, and Harbor and its descendants need not do anything: not exit, not read, not write, not close
  their output, not react to SIGTERM.
* `HarborRun`: the coordinator and the workers run. A job need not end; a cancelled one does, which is what
  `HarborProcess` shows of it (`CallEnds`). Nobody need press Ctrl+C.
* `StopOnPass`: the threads run; an interrupted job ends, for the same reason; a job otherwise need not.
* `LocalEnvironment`: one loop, which runs what is ready: the steps of `stop()`, of the reapers, and of an
  `exec()` that is not waiting for its command. A command need not end and a creation need not resolve.
* `OutputProvenance`: a process that has not died is scheduled; faults and crashes are never forced.
* `Autopilot`: the heartbeat threads and the writes of the reporter make progress, so no write to the stream
  blocks for ever. The provider need not answer, and the evaluation need neither emit nor close.
* `SecurePublish`, `LatestResults` and `RetryCall` end by running out of statements: no fairness, no liveness
  property.

## 6. What is proved

Eight modules hold proofs, for every value of the constants and from the named assumptions on them only
(positive bounds, finite sets of arms, a `None` outside its set). Each has an inductive invariant, one lemma
per part and one step per action; the temporal theorems follow from it by PTL.

* **`HarborProcess_proofs`** — `TypeCorrect`, with the arithmetic part kept apart: whatever is read, no more
  than the budget is accepted. `VerdictCorrect` and `CallerCorrect` rest on `Trust`: before any termination
  nothing has been signalled; a reader that closed without the end of the file set one of the flags that
  force a termination; past the loop either the reader is done or there is a reason to stop; a signal
  outside the exception handler means such a reason; the last join of the handler is reached with Harbor
  reaped and either the reader done or SIGKILL sent (or refused, with Harbor gone), or with a note of a
  cleanup that failed, which takes a refused signal or a Harbor that outlives SIGKILL. `ContainedCorrect`
  adds what is known of the group after SIGKILL and after the end of the file (`GroupInv`) and where Harbor
  has been reaped (`ReapInv`); `InterruptedJobCorrect` adds where trial environments can be left
  (`EnvironmentsInv`). `RefinesHarborJob` is the safety part of the refinement: initial states map to
  initial states, and every step, with the `Reasons` for which a call ends cancelled, to a step of
  `HarborJob` or a stutter.
* **`HarborRun_proofs`** — the invariant says what each place of the coordinator knows (`PhaseInv`), that
  the queue of the executor holds exactly the queued agents and its workers the rest (`QueueInv`), how the
  jobs of an agent relate to its worker (`JobInv`), what has been told to the coordinator (`ToldInv`) and
  shown to the user (`ShownInv`), and what holds at the end (`EndInv`). From it: `ArtifactsQuietCorrect`,
  `CollectsWholeRunCorrect`, `NothingOpenCorrect`, and the action properties `NoStartCorrect` and
  `ProgressCorrect`. `BudgetCorrect` is about every number of trials, arms and workers. What `divmod` shares
  out never exceeds the budget because no two trials have one number: trial `k` of the arm with index `i`
  has number `(k - 1) * arms + i + 1`, an injection into `1..NConcurrent` (`RowAndColumn`,
  `TrialsNumbered`), so no sum over a set is needed; with fewer trials than arms each active arm has one.
  `BoundInv` adds that no more arms and agents are active than there are workers. `RefinesHarborJobs` shows
  each arm to follow `HarborJob`, and `RefinesExecutor` the agents to follow `Executor`.
* **`StopOnPass_proofs`** — three layers: `History` and `Reported` (the attempts of each case, in order, and
  their errors), `Scheduled` (a raised future means `stop_launching`; a returned one is complete or launches
  have stopped; what is harvested returned), and `StopSurfaces` (while the main thread waits, a set event
  comes with a future that raised and has not been harvested), which is why cases cut short never reach the
  merge. From it: `MergeCorrect`, `PassCorrect`, `ReportCorrect`; and `RefinesExecutor`, the cases as
  tasks of the pool. `QueuedCorrect` and `CurrentCorrect` say what a set `stop_launching` stops: a case that
  has not begun launches nothing, even if a worker picks it up before `future.cancel()`, and a running one at
  most the attempt whose test it had passed. Both rest on the lemma `StoppedStays`.
* **`LocalEnvironment_proofs`** — `Owned` goes through the places of one `exec()` and of its creation, group
  and reaper; `ShutdownInv` says what `stop()` has in front of it, `Quiet` that a missing directory means
  nothing alive and nothing being created, `CancelledInv` that the answer of a cancelled call is settled.
  From it: `OwnershipCorrect`, `EndedContainedCorrect`, `RemovedWhenQuietCorrect`,
  `CancelledNeverReturnsCorrect`.
* **`OutputProvenance_proofs`** — `IInv` has a shared part (a named key is written; a complete marker is
  signed by a settled key, one with a single link for good; half a marker belongs to a call that is writing,
  died, or failed and could not withdraw it) and a part per call (what it holds and has read).
  `SettledStays` is the lemma that makes it inductive: once a key has lost its temporary name no step gives
  it a second link or replaces it. From it: `OneKeyCorrect`, `MarkerCorrect`, `NeverGivesUp` (for calls
  whose own reading and recovery of the key met no error), `LeftoversCorrect`, the action property
  `SettledForGood`, and `RefinesSharedKey`: neither a race of creators, nor a recovery, nor a crash shows to
  who only sees the key, what was loaded and who signed.
* **`LatestResults_proofs`** — `StoreInv` relates the entries of a run to its place, `ReaderInv` and `ScanInv`
  say what the reader has established of the run it examines and of those it accepted, `BaseInv` why it
  cannot go back behind what `latest` named when it began. The lemma `Greatest` gives a scan its newest
  candidate, by well-foundedness of the strict subsets of a finite set. From it: all properties of the run.
* **`SecurePublish_proofs`** — `PlacesOK` names every place; `NewInv` and
  `ReplaceInv` say where the trees are before every statement of the way forward, `UninterruptedInv` the same
  for the handlers and the finally clause when no `KeyboardInterrupt` came (what has been renamed is what the
  flags say), and `PublishedInv` and `ForwardInv` what the caller may conclude. From it: `TypeCorrect`,
  `FailureRestoresCorrect`, `FailureLosesNothingCorrect`, `EndsCleanCorrect`.
* **`Autopilot_proofs`**, with `RetryCall` — no pause is shorter than what was asked for and none
  exceeds the ceiling, so a call waits at most `Retries * Ceiling`; the composition inherits both
  (`GenerationHonours`, `GenerationBounded`) and adds `ReporterInv` (who holds the lock and what it is
  writing), from which `QuietCorrect`, `HeartbeatsCorrect`, `NothingOpenCorrect`, and `OneLateLineCorrect`.

Progress. Liveness needs ENABLED and stays with TLC, but half of its argument is a step property and is
proved: a rank in the natural numbers, or a finite order of places, that every step brings down. In
`HarborRun` each step after a Ctrl+C or a failure takes the coordinator, an agent or an arm nearer to its
end and none back (`EveryStepForward`, with `NobodyBack` and `SomebodyForward`); in `StopOnPass` each step
of a case or of the calling thread; in `OutputProvenance` a call has at most `3 * Retries + 13` steps of its
own; in `SecurePublish` no statement is met twice; in `LocalEnvironment` no `exec()` meets an await twice
(`CallsGoForward`); in `RetryCall` every step counts against the retries (`EveryRetryCounts`). So none of
these can retry, recover or roll back for ever. What is left to TLC is that a fair step is enabled until the
end, that is, that nobody waits for ever.

Only model-checked: liveness (`CallEnds`, the fairness of `HarborJob`, `InterruptEndsRun`,
`InterruptEndsCondition`, `CallsEnd`, `EveryCallReturns`, `EveryThreadEnds`). The four properties that the
code violates (section 4) are refuted, not proved.

## 7. What is not modelled

* Windows (`taskkill`, path-based publication, the fallback backend of secure copy).
* The content of data: prompts, results, scores, logs, reports. Where it decides control (a passing score, a
  timed-out trial, a complete result) it is a choice among its classes.
* Redaction of streams and of results: equalities of strings. The rich progress reporter, which draws with a
  library, and the wrapper that disables a reporter that failed.
* In the local environment, uploads, command rewriting, guardrails and the sandbox command lines.
* Roots of results other than the one a run writes to, and results without `result.json`.
* Hostile concurrent changes of paths: the code excludes them, and the models assume what its docstrings
  demand.
* Harbor, Docker, Kubernetes, providers: environments and jobs appear as processes that may do anything the
  supervision must survive.
* The sequential parts: validators, graders, deduplication, reporting, the command line. `PROJECT.json`
  lists each with its reason.
