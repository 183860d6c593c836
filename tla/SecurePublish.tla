---------------------------- MODULE SecurePublish ----------------------------
(***************************************************************************)
(* copytree_secure and copy_file_secure from the moment their private      *)
(* stage and rollback copy are complete (tier3/harbor/secure_copy.py,      *)
(* descriptor backend): _publish_transactional and the finally clause that *)
(* cleans up.  Any operation may fail, and KeyboardInterrupt may arrive,   *)
(* once, before any statement.  A crash is a behaviour that stops: what must     *)
(* survive it is stated of every state.                                    *)
(*                                                                         *)
(* The paths are quiescent, as the docstring demands: nobody else changes  *)
(* them.  The contents of a node never change; its mode does.              *)
(***************************************************************************)
VARIABLES name,      \* the node each name in the parent directory stands for
          mode,      \* of each node: private (hidden), public (final), or partial (removed in part)
          pc,        \* the statement to run next
          loc,       \* the local variables
          existed,   \* the destination existed
          faulted,   \* the statements at which an operation failed
          interrupted

vars == <<name, mode, pc, loc, existed, faulted, interrupted>>
files == <<name, mode>>
ghosts == <<existed, faulted, interrupted>>

Nodes == {"old", "new", "copy"}     \* the destination, the stage, the rollback copy
Names == {"dest", "backup", "stage", "rollback"}
None == "none"

Final == {"published", "raised", "fallback"}

Init ==
    /\ existed \in BOOLEAN
    /\ name = [dest |-> IF existed THEN "old" ELSE None, backup |-> None, stage |-> "new",
               rollback |-> IF existed THEN "copy" ELSE None]
    /\ mode = [old |-> "public", new |-> "private", copy |-> "private"]
    /\ pc = "check"
    /\ loc = [staged |-> "stage", rollback |-> "rollback", oldMoved |-> FALSE, newMoved |-> FALSE,
              copyPublished |-> FALSE, result |-> "raised"]
    /\ faulted = {} /\ interrupted = FALSE

-----------------------------------------------------------------------------
(* One statement and the next one; the operations are verified by identity
   before and after, so a rename moves the node that is meant. *)
At(l, next) == pc = l /\ pc' = next

(* _rename_no_replace *)
Renamed(from, to) == [name EXCEPT ![to] = name[from], ![from] = None]

Rename(from, to) ==
    /\ name[from] # None /\ name[to] = None
    /\ name' = Renamed(from, to)

Local(field, value) == loc' = [loc EXCEPT ![field] = value]
Assign(l, next, field, value) == At(l, next) /\ Local(field, value) /\ UNCHANGED <<files, ghosts>>
Move(l, next, from, to) == At(l, next) /\ Rename(from, to) /\ UNCHANGED <<mode, loc, ghosts>>
SetMode(l, next, node, m) ==
    At(l, next) /\ mode' = [mode EXCEPT ![node] = m] /\ UNCHANGED <<name, loc, ghosts>>
Verify(l, next) == At(l, next) /\ UNCHANGED <<files, loc, ghosts>>

(* The staged node and the destination are what they were when staged. *)
Check == Verify("check", IF existed THEN "moveOld" ELSE "nameNew")

(* No destination: name the stage, expose it, or undo the name. *)
PublishNew ==
    \/ Move("nameNew", "setNamed", "stage", "dest")
    \/ Assign("setNamed", "exposeNamed", "staged", "dest")
    \/ SetMode("exposeNamed", "setPublished", "new", "public")

UndoNew ==
    \/ Move("undoNamed", "unsetNamed", "dest", "stage")
    \/ Assign("unsetNamed", "cleanStaged", "staged", "stage")

(* Mutant of Hidden: the original keeps its mode when it is moved aside. *)
AsItWas == mode.old

(* _prepare_moved_backup *)
Hidden == "private"

(* An existing destination: move it aside, hide it, name and expose the new. *)
Replace ==
    \/ Move("moveOld", "setOldMoved", "dest", "backup")
    \/ Assign("setOldMoved", "hideOld", "oldMoved", TRUE)
    \/ SetMode("hideOld", "recheck", "old", Hidden)
    \/ Verify("recheck", "moveNew")
    \/ Move("moveNew", "setStaged", "stage", "dest")
    \/ Assign("setStaged", "setNewMoved", "staged", "dest")
    \/ Assign("setNewMoved", "exposeNew", "newMoved", TRUE)
    \/ SetMode("exposeNew", "cleanBackup", "new", "public")

(* The handler: take the new one back, name and expose the copy. *)
AfterUndo == IF loc.oldMoved THEN "checkCopy" ELSE "cleanStaged"

RollBack ==
    \/ Move("undoNew", "unsetStaged", "dest", "stage")
    \/ Assign("unsetStaged", AfterUndo, "staged", "stage")
    \/ Verify("checkCopy", "moveCopy")
    \/ Move("moveCopy", "setRollback", "rollback", "dest")
    \/ Assign("setRollback", "setCopyPublished", "rollback", "dest")
    \/ Assign("setCopyPublished", "exposeCopy", "copyPublished", TRUE)
    \/ SetMode("exposeCopy", "dropBackup", "copy", "public")

(* The handler of the handler: hide the copy again, name and expose the
   original. *)
RestoreReserve ==
    \/ SetMode("hideCopy", "undoCopy", "copy", "private")
    \/ Move("undoCopy", "unsetRollback", "dest", "rollback")
    \/ Assign("unsetRollback", "checkReserve", "rollback", "rollback")
    \/ Verify("checkReserve", "moveReserve")
    \/ Move("moveReserve", "exposeReserve", "backup", "dest")
    \/ SetMode("exposeReserve", "cleanStaged", "old", "public")

(* _cleanup_backup_best_effort, after a publication or a rollback: the original
   goes, or stays, or stays in part. *)
CleanBackup ==
    /\ \/ At("cleanBackup", "setPublished")
       \/ At("dropBackup", "cleanStaged")
    /\ \/ name' = [name EXCEPT !.backup = None] /\ mode' = mode
       \/ name' = name /\ mode' \in {mode, [mode EXCEPT !.old = "partial"]}
    /\ UNCHANGED <<loc, ghosts>>

SetPublished == Assign("setPublished", "cleanStaged", "result", "published")

NotPublished == loc.result # "published"

(* Mutant of CopyPlaced: the copy goes even from the destination. *)
CopyNowhere == FALSE

CopyPlaced == loc.rollback = "dest"

(* The finally clause: what was not published goes, found by its name and
   identity (_remove_tree_at). *)
CleanStaged ==
    /\ At("cleanStaged", "cleanCopy")
    /\ name' = IF NotPublished /\ name[loc.staged] = "new"
                 THEN [name EXCEPT ![loc.staged] = None] ELSE name
    /\ UNCHANGED <<mode, loc, ghosts>>

CleanCopy ==
    /\ At("cleanCopy", loc.result)
    /\ name' = IF ~CopyPlaced /\ name[loc.rollback] = "copy"
                 THEN [name EXCEPT ![loc.rollback] = None] ELSE name
    /\ UNCHANGED <<mode, loc, ghosts>>

-----------------------------------------------------------------------------
(* Where an exception goes. *)
InReplace == {"moveOld", "setOldMoved", "hideOld", "recheck", "moveNew", "setStaged",
              "setNewMoved", "exposeNew"}
InRollBack == {"checkCopy", "moveCopy", "setRollback", "setCopyPublished", "exposeCopy"}
Cleaning == {"cleanStaged", "cleanCopy"}

Undo == IF loc.newMoved THEN "undoNew" ELSE AfterUndo

(* Mutant of Reserve: no second line of defence. *)
NoReserve == "cleanStaged"

Reserve == IF loc.copyPublished THEN "hideCopy" ELSE "checkReserve"

Unwind ==
    /\ pc' = IF pc = "exposeNamed" THEN "undoNamed"
             ELSE IF pc \in InReplace THEN Undo
             ELSE IF pc \in InRollBack THEN Reserve
             ELSE IF pc \in Cleaning THEN "raised"
             ELSE "cleanStaged"
    /\ UNCHANGED <<name, loc>>

(* The operations that may fail after they have changed the mode. *)
MayHaveSet ==
    CASE pc = "hideOld" -> {mode, [mode EXCEPT !.old = Hidden]}
      [] pc \in {"exposeNamed", "exposeNew"} -> {mode, [mode EXCEPT !.new = "public"]}
      [] pc = "exposeCopy" -> {mode, [mode EXCEPT !.copy = "public"]}
      [] pc = "exposeReserve" -> {mode, [mode EXCEPT !.old = "public"]}
      [] OTHER -> {mode}

Assignments == {"setNamed", "unsetNamed", "setOldMoved", "setStaged", "setNewMoved", "unsetStaged",
                "setRollback", "setCopyPublished", "unsetRollback", "setPublished"}
Suppressed == {"cleanBackup", "dropBackup"}

(* An operation fails.  In the finally clause an error is suppressed, unless
   the clause runs before the fallback. *)
Fail ==
    /\ pc \notin Final \cup Assignments \cup Suppressed
    /\ pc = "cleanStaged" => loc.result # "published"   \* else a bare close
    /\ pc = "cleanCopy" => loc.rollback # "dest"
    /\ faulted' = faulted \cup {pc}
    /\ mode' \in MayHaveSet
    /\ IF pc = "cleanStaged" /\ loc.result = "raised" THEN pc' = "cleanCopy" /\ UNCHANGED <<name, loc>>
       ELSE IF pc = "cleanCopy" THEN pc' = loc.result /\ UNCHANGED <<name, loc>>
       ELSE Unwind
    /\ UNCHANGED <<existed, interrupted>>

(* KeyboardInterrupt, before a statement or in the middle of a long one *)
Interrupt ==
    /\ ~interrupted /\ pc \notin Final
    /\ interrupted' = TRUE
    /\ Unwind
    /\ UNCHANGED <<mode, existed, faulted>>

(* The renames whose _AtomicRenameUnsupported leads to the other backend. *)
BeforeMutation == {"nameNew", "moveOld"}

Unsupported ==
    /\ pc \in BeforeMutation
    /\ pc' = "cleanStaged"
    /\ Local("result", "fallback")
    /\ UNCHANGED <<files, ghosts>>

Next == Check \/ PublishNew \/ UndoNew \/ Replace \/ RollBack \/ RestoreReserve
        \/ CleanBackup \/ SetPublished \/ CleanStaged \/ CleanCopy
        \/ Fail \/ Interrupt \/ Unsupported

Spec == Init /\ [][Next]_vars

-----------------------------------------------------------------------------
(* The state has its type, and no node has two names. *)
TypeOK ==
    /\ name \in [Names -> Nodes \cup {None}]
    /\ \A m, n \in Names : name[m] = name[n] => m = n \/ name[m] = None
    /\ mode \in [Nodes -> {"public", "private", "partial"}]
    /\ loc \in [staged : {"stage", "dest"}, rollback : {"rollback", "dest"}, result : Final,
                oldMoved : BOOLEAN, newMoved : BOOLEAN, copyPublished : BOOLEAN]
    /\ existed \in BOOLEAN /\ interrupted \in BOOLEAN

Untouched == name.dest = (IF existed THEN "old" ELSE None) /\ (existed => mode.old = "public")
Restored == name.dest = "copy" /\ mode.copy = "public"

(* "With quiescent scoped paths, the old tree is restored if publication
   fails": the original or its copy, exposed.  An operation of the rollback
   itself may fail too, as long as there is a second way back: the copy may not
   be published, or not be exposed. *)
LastResort == {"undoNew", "hideCopy", "undoCopy", "checkReserve", "moveReserve", "exposeReserve"}
RestoresOldTree ==
    pc = "raised" /\ existed /\ faulted \cap LastResort = {} => Untouched \/ Restored

(* The other backend starts from the destination as it was found: no rename
   after the first mutation enables the fallback. *)
FallbackUntouched == pc = "fallback" => Untouched

(* It is after a failure; and nothing is left where nothing was, unless the
   name cannot be undone. *)
FailureRestores ==
    /\ FallbackUntouched
    /\ ~interrupted =>
        /\ RestoresOldTree
        /\ pc = "raised" /\ ~existed /\ "undoNamed" \notin faulted => Untouched

(* The destination's tree, its copy or its successor is on the disk, whole and
   under some name, at every instant, whatever fails and wherever the process
   dies; cleanup never turns a success "into a destructive pseudo-rollback". *)
NothingLost ==
    existed => \/ \E n \in Names : name[n] = "copy" \/ (name[n] = "old" /\ mode.old # "partial")
               \/ name.dest = "new" /\ mode.new = "public"

(* It never does after a failure. *)
FailureLosesNothing == ~interrupted => NothingLost

(* A publication that is reported has happened, and left no stage; only a
   failed removal leaves the rollback copy behind. *)
PublishedIsNew ==
    pc = "published" =>
        /\ name.dest = "new" /\ mode.new = "public"
        /\ name.rollback = "copy" => "cleanCopy" \in faulted

(* An original that is left under its hidden name is private, unless hiding it
   is what failed or was interrupted. *)
ResidueIsPrivate ==
    pc \in Final /\ name.backup = "old" /\ "hideOld" \notin faulted /\ ~interrupted
        => mode.old # "public"

(* What a publication leaves behind when it is over. *)
EndsClean == PublishedIsNew /\ ResidueIsPrivate
=============================================================================
