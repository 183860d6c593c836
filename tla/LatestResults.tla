--------------------------- MODULE LatestResults ---------------------------
(****************************************************************************)
(* The last writes of the runs of one skill and the readers of the latest   *)
(* one: a run reserves its directory (_reserve_run_dir), writes             *)
(* run_config.json in place and result.json through a temporary file        *)
(* (write_output_file_atomically), and moves the symbolic link `latest`     *)
(* (publish_latest_results).  A reader (resolve_latest_results) trusts the  *)
(* link when it names a completed run and otherwise takes the newest        *)
(* completed directory.  Runs are processes that may crash; a power loss    *)
(* stops everything and keeps only what was synced; a user may remove the   *)
(* directory of a run that is over, file by file.                           *)
(****************************************************************************)
EXTENDS Naturals, SequencesExt

CONSTANTS
    Runs,           \* run directories
    MaxSecond,      \* bound on the clock that names them
    MaxReads,       \* bound on the calls of a reader
    MaxFaults,      \* bound on crashes, power losses, removals, errors of readers and of cleanups
    NoRun           \* no run

ASSUME NoRunAssumption == NoRun \notin Runs
ASSUME ClockAssumption == MaxSecond \in Nat /\ MaxReads \in Nat /\ MaxFaults \in Nat

VARIABLES
    at,             \* where each run is
    files,          \* entries of its directory
    whole,          \* those a reader accepts: complete content, matching identities
    synced,         \* those that survive a power loss
    second,         \* timestamp in its name
    written,        \* mtime of its result.json
    now,            \* the clock: seconds
    writes,         \* and files written
    published,      \* the runs `latest` has named, the current one at the end
    linking,        \* temporary links in the root
    removed,        \* runs that a user removes
    faults,         \* of those so far
    rAt,            \* where the reader is
    rRun,           \* the run it examines, and its answer
    rSeen,          \* entries of that directory when it began to
    rTodo,          \* candidates still to examine, while it scans
    rFound,         \* those it accepted
    rSkipped,       \* those it could have accepted, but for an error of its own
    rBase,          \* what `latest` named when it began
    rBefore,        \* the runs that were complete then
    reads           \* calls so far

store == <<files, whole, synced>>
names == <<second, written, now, writes>>
root == <<published, linking>>
reader == <<rAt, rRun, rSeen, rTodo, rFound, rSkipped, rBase, rBefore, reads>>
vars == <<at, store, names, root, removed, faults, reader>>

Entries == {"dir", "marker", "config", "temp", "result"}
InProgress == {"reserved", "running", "configuring", "reporting", "writing",
               "replacing", "replaced", "publishing", "linked", "failing"}

TypeOK ==
    /\ at \in [Runs -> InProgress \cup {"idle", "ended", "crashed"}]
    /\ files \in [Runs -> SUBSET Entries] /\ whole \in [Runs -> SUBSET Entries]
    /\ synced \in [Runs -> SUBSET Entries]
    /\ second \in [Runs -> 0..MaxSecond] /\ now \in 0..MaxSecond
    /\ writes \in Nat /\ written \in [Runs -> 0..writes]
    /\ published \in Seq(Runs) /\ IsInjective(published) /\ linking \subseteq Runs
    /\ removed \subseteq Runs /\ faults \in 0..MaxFaults
    /\ rAt \in {"idle", "resolving", "examining", "checking", "returned", "scanning",
               "confirming", "answered"}
    /\ rRun \in Runs \cup {NoRun} /\ rSeen \subseteq Entries
    /\ rTodo \subseteq Runs /\ rFound \subseteq Runs /\ rSkipped \subseteq Runs
    /\ rBase \in Runs \cup {NoRun} /\ rBefore \subseteq Runs /\ reads \in 0..MaxReads
    /\ \A r \in Runs : whole[r] \cup synced[r] \subseteq files[r]

None(S) == [r \in Runs |-> S]

Init ==
    /\ at = None("idle") /\ files = None({}) /\ whole = None({}) /\ synced = None({})
    /\ second = None(0) /\ written = None(0) /\ now = 0 /\ writes = 0
    /\ published = <<>> /\ linking = {} /\ removed = {} /\ faults = 0
    /\ rAt = "idle" /\ rRun = NoRun /\ rSeen = {} /\ rTodo = {} /\ rFound = {}
    /\ rSkipped = {} /\ rBase = NoRun /\ rBefore = {} /\ reads = 0

Link == IF published = <<>> THEN NoRun ELSE Last(published)
Put(f, r, v) == [f EXCEPT ![r] = v]
Goto(r, from, to) == at[r] = from /\ at' = Put(at, r, to)
Only(r) == UNCHANGED <<names, root, removed, faults, reader>>

(* A file of r appears, is filled and is synced. *)
Add(r, F) == files' = Put(files, r, files[r] \cup F)
Fill(r, F) == whole' = Put(whole, r, whole[r] \cup F)
Sync(r, F) == synced' = Put(synced, r, synced[r] \cup F)

(* What the bound counts. *)
Fault == faults < MaxFaults /\ faults' = faults + 1

-----------------------------------------------------------------------------
(* A run *)

(* The directory exists before its marker does; nobody syncs the results root, where
   its own entry is. *)
Reserve(r) ==
    /\ Goto(r, "idle", "reserved")
    /\ Add(r, {"dir"})
    /\ now' \in now..MaxSecond /\ second' = Put(second, r, now')
    /\ UNCHANGED <<whole, synced, written, writes, root, removed, faults, reader>>

Mark(r) ==
    /\ Goto(r, "reserved", "running")
    /\ Add(r, {"marker"}) /\ Fill(r, {"marker"}) /\ Sync(r, {"marker"})
    /\ Only(r)

(* run_config.json is truncated, then written; nothing syncs it. *)
OpenConfig(r) ==
    /\ Goto(r, "running", "configuring") /\ Add(r, {"config"})
    /\ UNCHANGED <<whole, synced>> /\ Only(r)

WriteConfig(r) ==
    /\ Goto(r, "configuring", "reporting") /\ Fill(r, {"config"})
    /\ UNCHANGED <<files, synced>> /\ Only(r)

CreateTemporary(r) ==
    /\ Goto(r, "reporting", "writing") /\ Add(r, {"temp"})
    /\ UNCHANGED <<whole, synced>> /\ Only(r)

WriteTemporary(r) ==
    /\ Goto(r, "writing", "replacing") /\ Fill(r, {"temp"}) /\ Sync(r, {"temp"})
    /\ writes' = writes + 1 /\ written' = Put(written, r, writes + 1)
    /\ UNCHANGED <<files, second, now, root, removed, faults, reader>>

(* os.replace; the entry itself is synced with the directory. *)
Replace(r) ==
    /\ Goto(r, "replacing", "replaced")
    /\ files' = Put(files, r, (files[r] \ {"temp"}) \cup {"result"})
    /\ whole' = Put(whole, r, (whole[r] \ {"temp"}) \cup {"result"})
    /\ synced' = Put(synced, r, synced[r] \ {"temp"})
    /\ Only(r)

(* _fsync_directory.  Mutant: it does nothing. *)
SyncedNothing == {}
SyncedEntries == {"result"}

SyncDirectory(r) ==
    /\ Goto(r, "replaced", "publishing") /\ Sync(r, SyncedEntries)
    /\ UNCHANGED <<files, whole>> /\ Only(r)

(* The temporary file of r is removed. *)
Unlinked(r) ==
    /\ files' = Put(files, r, files[r] \ {"temp"})
    /\ whole' = Put(whole, r, whole[r] \ {"temp"})
    /\ synced' = Put(synced, r, synced[r] \ {"temp"})

(* An error ends the run.  Before the replacement the temporary file goes, unless its
   identity is not known or its removal fails; after it the result stays, but the run
   is not published.  Mutant: the run goes on to publish. *)
AfterErrorPublish == "publishing"
AfterError == "ended"

WriteFails(r) ==
    /\ at[r] \in {"running", "configuring", "reporting", "writing", "replacing", "replaced", "failing"}
    /\ at' = Put(at, r, AfterError)
    /\ \/ Unlinked(r) /\ UNCHANGED faults
       \/ "temp" \in files[r] /\ UNCHANGED store /\ Fault
    /\ UNCHANGED <<names, root, removed, reader>>

(* A run that failed before its jobs keeps a result without agents, which no
   reader takes for a completed one. *)
FailConfig(r) ==
    /\ Goto(r, "running", "failing")
    /\ Add(r, {"config"}) /\ Fill(r, {"config"}) /\ Sync(r, {"config"}) /\ Only(r)

FailResult(r) ==
    /\ Goto(r, "failing", "ended")
    /\ Add(r, {"result"}) /\ Sync(r, {"result"}) /\ UNCHANGED whole /\ Only(r)

(* publish_latest_results *)
MakeLink(r) ==
    /\ Goto(r, "publishing", "linked") /\ linking' = linking \cup {r}
    /\ UNCHANGED <<store, names, published, removed, faults, reader>>

ReplaceLink(r) ==
    /\ Goto(r, "linked", "ended") /\ linking' = linking \ {r}
    /\ published' = Append(published, r)
    /\ UNCHANGED <<store, names, removed, faults, reader>>

(* OSError: the run is over, and nothing tells its readers.  The removal of the
   temporary link may fail too. *)
PublishFails(r) ==
    /\ \/ Goto(r, "publishing", "ended") /\ UNCHANGED linking
       \/ Goto(r, "linked", "ended") /\ linking' = linking \ {r}
    /\ UNCHANGED <<store, names, published, removed, faults, reader>>

PublishLeavesLink(r) ==
    /\ Goto(r, "linked", "ended") /\ Fault
    /\ UNCHANGED <<store, names, root, removed, reader>>

-----------------------------------------------------------------------------
(* resolve_latest_results, and what its callers do with the path it returns *)

Complete(r) == Entries \ {"temp"} \subseteq files[r] /\ {"config", "result"} \subseteq whole[r]

(* root.iterdir().  Mutant: what the link was seen to name is skipped. *)
CandidatesUnlinked == {r \in Runs : "dir" \in files[r] /\ r \notin {rRun, Link}}
Candidates == {r \in Runs : "dir" \in files[r]}

Reader(from, to) == rAt = from /\ rAt' = to
Stay == UNCHANGED <<rBase, rBefore, reads, at, store, names, root, removed>>
Keep == Stay /\ UNCHANGED <<rSkipped, faults>>

(* Any error of the reader, and any change of a directory it reads that is not one of
   the above (a report that is written again). *)
Errs == Stay /\ Fault

(* candidate.readlink(), or iterdir() at once when there is no link. *)
BeginRead ==
    /\ rAt \in {"idle", "answered"} /\ reads < MaxReads
    /\ reads' = reads + 1
    /\ rBase' = Link /\ rBefore' = {r \in Runs : Complete(r)}
    /\ rRun' = Link /\ rSeen' = {} /\ rFound' = {} /\ rSkipped' = {}
    /\ IF Link = NoRun
         THEN rAt' = "scanning" /\ rTodo' = Candidates
         ELSE rAt' = "resolving" /\ rTodo' = {}
    /\ UNCHANGED <<at, store, names, root, removed, faults>>

Scan ==
    /\ rTodo' = Candidates /\ rRun' = NoRun /\ rSeen' = {}
    /\ UNCHANGED rFound

(* candidate.resolve(): the link may have moved, or dangle. *)
ResolveLink ==
    /\ \/ /\ Reader("resolving", "examining")
          /\ Link = rRun /\ "dir" \in files[rRun]
          /\ UNCHANGED <<rRun, rSeen, rTodo, rFound>>
       \/ /\ Reader("resolving", "scanning")
          /\ Link # rRun \/ "dir" \notin files[rRun]
          /\ Scan
    /\ Keep

(* run_directory_sort_key.  Mutant: the content of run_config.json is not parsed. *)
ReadableIfThere(r) == {"marker", "config"} \subseteq files[r]
Readable(r) == {"marker", "config"} \subseteq files[r] /\ "config" \in whole[r]

ReadConfig ==
    /\ rAt = "examining" /\ Readable(rRun)
    /\ rAt' = "checking" /\ rSeen' = files[rRun]
    /\ UNCHANGED <<rRun, rTodo, rFound>> /\ Keep

(* The result is there, and no entry of the directory has changed meanwhile. *)
Accepted(r) == "result" \in files[r] \cap whole[r] /\ files[r] = rSeen

CheckResult ==
    /\ rAt = "checking" /\ Accepted(rRun)
    /\ rAt' = "returned"
    /\ UNCHANGED <<rRun, rSeen, rTodo, rFound>> /\ Keep

(* The link is not trusted: the run it names is not a completed one, ... *)
Distrust ==
    /\ \/ rAt = "examining" /\ ~Readable(rRun)
       \/ rAt = "checking" /\ ~Accepted(rRun)
    /\ rAt' = "scanning" /\ Scan
    /\ Keep

(* ... or following or reading it met an error, complete as it may be. *)
DistrustInError ==
    /\ rAt \in {"resolving", "examining", "checking"}
    /\ rAt' = "scanning" /\ Scan
    /\ UNCHANGED rSkipped /\ Errs

(* The caller is given the path of the link, and resolves it again. *)
Follow ==
    /\ Reader("returned", "answered")
    /\ rRun' = IF Link # NoRun /\ "dir" \in files[Link] THEN Link ELSE NoRun
    /\ UNCHANGED <<rSeen, rTodo, rFound>> /\ Keep

(* ordered_run_directories(completed_only=True) *)
ScanConfig(r) ==
    /\ rAt = "scanning" /\ r \in rTodo /\ rTodo' = rTodo \ {r}
    /\ IF Readable(r)
         THEN rAt' = "confirming" /\ rRun' = r /\ rSeen' = files[r]
         ELSE UNCHANGED <<rAt, rRun, rSeen>>
    /\ UNCHANGED rFound /\ Keep

ScanResult ==
    /\ Reader("confirming", "scanning")
    /\ rFound' = IF Accepted(rRun) THEN rFound \cup {rRun} ELSE rFound
    /\ rRun' = NoRun /\ rSeen' = {}
    /\ UNCHANGED rTodo /\ Keep

(* An error somewhere in run_directory_sort_key: the candidate is left out, without a
   word. *)
ScanSkips ==
    /\ Reader("confirming", "scanning")
    /\ rSkipped' = rSkipped \cup {rRun}
    /\ rRun' = NoRun /\ rSeen' = {}
    /\ UNCHANGED <<rTodo, rFound>> /\ Errs

(* An error of iterdir(): what was found is dropped. *)
ListFails ==
    /\ Reader("scanning", "answered")
    /\ rRun' = NoRun /\ rFound' = {} /\ rSkipped' = Runs
    /\ UNCHANGED <<rSeen, rTodo>> /\ Errs

(* Mutant: runs are ordered by the end of their writes alone. *)
BestByMtime(S) == CHOOSE r \in S : \A q \in S : written[q] <= written[r]
Best(S) ==
    CHOOSE r \in S : \A q \in S :
        second[q] < second[r] \/ (second[q] = second[r] /\ written[q] <= written[r])

ScanEnds ==
    /\ rTodo = {} /\ Reader("scanning", "answered")
    /\ rRun' = IF rFound = {} THEN NoRun ELSE Best(rFound)
    /\ UNCHANGED <<rSeen, rTodo, rFound>> /\ Keep

-----------------------------------------------------------------------------
(* Faults, and the user who cleans up. *)

Crash(r) ==
    /\ at[r] \in InProgress /\ at' = Put(at, r, "crashed") /\ Fault
    /\ UNCHANGED <<store, names, root, removed, reader>>

(* What is not synced may be lost: the entry of a run in the results root, the content
   of run_config.json, the entry of a result, the last moves of the link. *)
Unsynced(e) == {r \in Runs : e \in files[r] \ synced[r]}

Loses(lost, torn, gone) ==
    LET Out(r) == IF r \in lost THEN Entries ELSE IF r \in gone THEN {"result"} ELSE {}
    IN /\ files' = [r \in Runs |-> files[r] \ Out(r)]
       /\ whole' = [r \in Runs |-> whole[r] \ (Out(r) \cup IF r \in torn THEN {"config"} ELSE {})]
       /\ synced' = [r \in Runs |-> synced[r] \ Out(r)]

PowerLoss ==
    /\ Fault /\ \E r \in Runs : at[r] \in InProgress \cup {"ended"}
    /\ at' = [r \in Runs |-> IF at[r] = "idle" THEN "idle" ELSE "crashed"]
    /\ \E lost \in SUBSET Unsynced("dir"), torn \in SUBSET Unsynced("config"),
          gone \in SUBSET Unsynced("result") : Loses(lost, torn, gone)
    /\ \E n \in 0..Len(published) : published' = SubSeq(published, 1, n)
    /\ rAt' = "idle" /\ rRun' = NoRun /\ rSeen' = {} /\ rTodo' = {} /\ rFound' = {}
    /\ rSkipped' = {} /\ rBase' = NoRun /\ rBefore' = {}
    /\ UNCHANGED <<names, linking, removed, reads>>

(* The first step of a removal is a fault; the directory goes last. *)
Discard(r) ==
    /\ at[r] \in {"ended", "crashed"} /\ files[r] # {}
    /\ removed' = removed \cup {r}
    /\ IF r \in removed THEN UNCHANGED faults ELSE Fault
    /\ \E e \in files[r] :
          /\ e = "dir" => files[r] = {"dir"}
          /\ files' = Put(files, r, files[r] \ {e})
          /\ whole' = Put(whole, r, whole[r] \ {e})
          /\ synced' = Put(synced, r, synced[r] \ {e})
    /\ UNCHANGED <<at, names, root, reader>>

-----------------------------------------------------------------------------
Run(r) ==
    \/ Reserve(r) \/ Mark(r) \/ OpenConfig(r) \/ WriteConfig(r) \/ CreateTemporary(r)
    \/ WriteTemporary(r) \/ Replace(r) \/ SyncDirectory(r)
    \/ WriteFails(r) \/ FailConfig(r) \/ FailResult(r)
    \/ MakeLink(r) \/ ReplaceLink(r) \/ PublishFails(r) \/ PublishLeavesLink(r)

Read ==
    \/ BeginRead \/ ResolveLink \/ ReadConfig \/ CheckResult \/ Distrust \/ DistrustInError
    \/ Follow
    \/ (\E r \in Runs : ScanConfig(r)) \/ ScanResult \/ ScanSkips \/ ListFails \/ ScanEnds

Next ==
    \/ \E r \in Runs : Run(r) \/ Crash(r) \/ Discard(r)
    \/ Read \/ PowerLoss

Spec == Init /\ [][Next]_vars

-----------------------------------------------------------------------------
Position(r) == CHOOSE i \in DOMAIN published : published[i] = r
NewerName(a, b) ==
    second[a] > second[b] \/ (second[a] = second[b] /\ written[a] >= written[b])

(* A reader is never given a run that was not complete when it accepted it: one
   that is being written, was interrupted, failed, or whose configuration a power
   loss tore.  Only a user who removes it can make it less since. *)
AnswerIsComplete ==
    rAt = "answered" /\ rRun # NoRun /\ rRun \notin removed => Complete(rRun)

(* A reader whose scan, if any, met no error misses nothing that had been published
   when it began: it gets that run, one published after it (or nothing, when a user
   removed such a one) or one with a newer name.  So a reader that finds the link moving
   under it, or cannot follow it, and scans instead, does not go back in time.
   (docs/reports.mdx:432 calls the linked run the newest: it is the last published.) *)
PublishedAfter(r, base) == r \in Range(published) /\ Position(r) > Position(base)

ReadsArePublished ==
    rAt = "answered" /\ rBase # NoRun /\ rBase \notin rSkipped /\ Complete(rBase) =>
        \/ rRun = rBase \/ PublishedAfter(rRun, rBase)
        \/ rRun = NoRun /\ \E r \in removed : PublishedAfter(r, rBase)
        \/ rRun # NoRun /\ NewerName(rRun, rBase)

(* A scan returns the newest of the runs that were complete throughout it and that it
   read without an error, in the order of their names, whatever order they ended in. *)
ScanIsNewest ==
    rAt = "answered" /\ rFound # {} =>
        \A r \in rBefore \ rSkipped : Complete(r) => NewerName(rRun, r)

(* `latest` never names a run whose result is missing or torn, through crashes and power
   losses, unless a user removed it: a power loss may take the whole directory, whose
   entry nobody syncs, but nothing less. *)
LinkedIsFinal ==
    \A r \in Range(published) \ removed : files[r] = {} \/ "result" \in files[r] \cap whole[r]

(* From the moment a run goes on to publish itself, its result survives every crash and
   power loss that leaves its directory: no reader that was sent there can find the
   directory without it. *)
ResultsAreDurable ==
    [][\A r \in Runs \ removed' :
          /\ at[r] \in {"publishing", "linked"} \/ r \in Range(published)
          /\ "result" \in files[r] \cap whole[r]
          => files'[r] = {} \/ "result" \in files'[r] \cap whole'[r]]_vars
=============================================================================
