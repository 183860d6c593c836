------------------------- MODULE SecurePublish_proofs -------------------------
(****************************************************************************)
(* Proofs about SecurePublish.  Its state has no parameter; what is proved  *)
(* is why the two ways back suffice, place by place.                        *)
(****************************************************************************)
EXTENDS SecurePublish, Integers, TLAPS

(* The four names, the modes and the local variables of a publication. *)
Tree(d, b, s, r) == name.dest = d /\ name.backup = b /\ name.stage = s /\ name.rollback = r
Modes(o, n, c) == mode.old \in o /\ mode.new \in n /\ mode.copy \in c
Locals(s, r, moved, renamed, copied) ==
    /\ loc.staged = s /\ loc.rollback = r
    /\ loc.oldMoved <=> moved
    /\ loc.newMoved <=> renamed
    /\ loc.copyPublished <=> copied

Hid == {"private"}
Seen == {"public"}
Either == {"public", "private"}

Forward == InReplace \cup {"check", "nameNew", "setNamed", "exposeNamed", "cleanBackup", "setPublished"}
Handlers == {"undoNamed", "unsetNamed", "undoNew", "unsetStaged", "dropBackup", "hideCopy", "undoCopy",
             "unsetRollback", "checkReserve", "moveReserve", "exposeReserve"} \cup InRollBack

(* Before anything has failed: the state at each statement. *)
NewInv ==
    ~existed =>
        /\ pc \notin InReplace \cup {"cleanBackup"}
        /\ pc \in {"check", "nameNew"} =>
              /\ Tree(None, None, "new", None) /\ Modes(Seen, Hid, Hid)
              /\ Locals("stage", "rollback", FALSE, FALSE, FALSE)
        /\ pc = "setNamed" =>
              /\ Tree("new", None, None, None) /\ Modes(Seen, Hid, Hid)
              /\ Locals("stage", "rollback", FALSE, FALSE, FALSE)
        /\ pc \in {"exposeNamed", "setPublished"} =>
              /\ Tree("new", None, None, None) /\ Modes(Seen, IF pc = "setPublished" THEN Seen ELSE Hid, Hid)
              /\ Locals("dest", "rollback", FALSE, FALSE, FALSE)

ReplaceInv ==
    existed =>
        /\ pc \notin {"nameNew", "setNamed", "exposeNamed"}
        /\ pc \in {"check", "moveOld"} =>
              /\ Tree("old", None, "new", "copy") /\ Modes(Seen, Hid, Hid)
              /\ Locals("stage", "rollback", FALSE, FALSE, FALSE)
        /\ pc \in {"setOldMoved", "hideOld"} =>
              /\ Tree(None, "old", "new", "copy") /\ Modes(Seen, Hid, Hid)
              /\ Locals("stage", "rollback", pc = "hideOld", FALSE, FALSE)
        /\ pc \in {"recheck", "moveNew"} =>
              /\ Tree(None, "old", "new", "copy") /\ Modes(Hid, Hid, Hid)
              /\ Locals("stage", "rollback", TRUE, FALSE, FALSE)
        /\ pc = "setStaged" =>
              /\ Tree("new", "old", None, "copy") /\ Modes(Hid, Hid, Hid)
              /\ Locals("stage", "rollback", TRUE, FALSE, FALSE)
        /\ pc \in {"setNewMoved", "exposeNew"} =>
              /\ Tree("new", "old", None, "copy") /\ Modes(Hid, Hid, Hid)
              /\ Locals("dest", "rollback", TRUE, pc = "exposeNew", FALSE)
        /\ pc = "cleanBackup" =>
              /\ Tree("new", "old", None, "copy") /\ Modes(Hid, Seen, Hid)
              /\ Locals("dest", "rollback", TRUE, TRUE, FALSE)
        /\ pc = "setPublished" =>
              /\ name.dest = "new" /\ name.stage = None /\ name.rollback = "copy"
              /\ name.backup \in {None, "old"} /\ Modes({"private", "partial"}, Seen, Hid)
              /\ Locals("dest", "rollback", TRUE, TRUE, FALSE)

(* Nothing has failed before, and nothing is over. *)
ForwardInv ==
    /\ pc \in Forward => faulted = {} /\ ~interrupted /\ loc.result = "raised"
    /\ pc \in Handlers => loc.result = "raised"
    /\ pc = "fallback" => loc.result = "fallback"
    /\ pc = "published" => loc.result = "published"
    /\ loc.result = "fallback" => Untouched
    /\ pc \in {"fallback", "published"} => pc = loc.result

(* A publication that counts as one cannot be undone. *)
PublishedInv ==
    loc.result = "published" =>
        /\ pc \in Cleaning \cup {"published", "raised"}
        /\ name.dest = "new" /\ mode.new = "public" /\ loc.rollback = "rollback"
        /\ pc = "published" /\ name.rollback = "copy" => "cleanCopy" \in faulted

(* In the handlers, without KeyboardInterrupt: undoing a new name, ... *)
UndoNewInv ==
    ~existed =>
        /\ pc \notin Handlers \ {"undoNamed", "unsetNamed"}
        /\ pc = "undoNamed" => Tree("new", None, None, None) /\ loc.staged = "dest"
        /\ pc = "unsetNamed" => Tree(None, None, "new", None) /\ loc.staged = "dest"

(* ... taking the new tree back and publishing the copy, ... *)
RollBackInv ==
    existed =>
        /\ pc \notin {"undoNamed", "unsetNamed"}
        /\ pc \in {"undoNew", "unsetStaged", "dropBackup"} \cup InRollBack =>
              mode.old \in Either /\ name.backup = "old" /\ loc.oldMoved
        /\ pc = "undoNew" =>
              /\ Tree("new", "old", None, "copy") /\ mode.copy = "private"
              /\ Locals("dest", "rollback", TRUE, TRUE, FALSE)
        /\ pc = "unsetStaged" =>
              /\ Tree(None, "old", "new", "copy") /\ mode.copy = "private"
              /\ Locals("dest", "rollback", TRUE, TRUE, FALSE)
        /\ pc \in {"checkCopy", "moveCopy"} =>
              /\ Tree(None, "old", "new", "copy") /\ mode.copy = "private"
              /\ loc.staged = "stage" /\ loc.rollback = "rollback" /\ ~loc.copyPublished
        /\ pc \in {"setRollback", "setCopyPublished", "exposeCopy", "dropBackup"} =>
              /\ Tree("copy", "old", "new", None) /\ loc.staged = "stage"
              /\ mode.copy = (IF pc = "dropBackup" THEN "public" ELSE "private")
              /\ loc.rollback = (IF pc = "setRollback" THEN "rollback" ELSE "dest")
              /\ loc.copyPublished <=> pc \in {"exposeCopy", "dropBackup"}

(* ... and taking the copy back and exposing the original. *)
ReserveInv ==
    existed =>
        /\ pc \in {"hideCopy", "undoCopy", "unsetRollback", "checkReserve", "moveReserve", "exposeReserve"} =>
              mode.old \in Either /\ loc.staged = "stage"
        /\ pc \in {"hideCopy", "undoCopy"} =>
              Tree("copy", "old", "new", None) /\ loc.rollback = "dest"
        /\ pc = "unsetRollback" =>
              Tree(None, "old", "new", "copy") /\ loc.rollback = "dest"
        /\ pc \in {"checkReserve", "moveReserve"} =>
              Tree(None, "old", "new", "copy") /\ loc.rollback = "rollback"
        /\ pc = "exposeReserve" =>
              Tree("old", None, "new", "copy") /\ loc.rollback = "rollback"

(* What the finally clause finds: it removes neither the way back that was taken nor
   the last tree that is left. *)
SafeName(n) == (name.backup = n \/ name.dest = n)
Kept ==
    \/ SafeName("old") /\ mode.old # "partial"
    \/ name.dest = "copy" /\ loc.rollback = "dest"
    \/ loc.result = "published"

CleaningInv ==
    /\ pc = "raised" => loc.result # "published"
    /\ pc \in Cleaning \cup {"raised"} /\ loc.result = "raised" =>
          /\ existed => Kept
          /\ existed /\ faulted \cap LastResort = {} =>
                Untouched \/ (Restored /\ loc.rollback = "dest")
          /\ ~existed /\ "undoNamed" \notin faulted => Untouched

(* An original under its hidden name is private once it was hidden. *)
ResidueInv ==
    name.backup = "old" /\ mode.old = "public" =>
        pc \in {"setOldMoved", "hideOld"} \/ "hideOld" \in faulted

UninterruptedInv ==
    ~interrupted => UndoNewInv /\ RollBackInv /\ ReserveInv /\ CleaningInv /\ ResidueInv

PlacesOK == pc \in Forward \cup Handlers \cup Cleaning \cup Final

IInv == TypeOK /\ PlacesOK /\ NewInv /\ ReplaceInv /\ ForwardInv /\ PublishedInv /\ UninterruptedInv
-----------------------------------------------------------------------------
(* The statements in an order in which every step goes forward. *)
Order == [check |-> 0, nameNew |-> 1, setNamed |-> 2, exposeNamed |-> 3, undoNamed |-> 4,
          unsetNamed |-> 5, moveOld |-> 6, setOldMoved |-> 7, hideOld |-> 8, recheck |-> 9,
          moveNew |-> 10, setStaged |-> 11, setNewMoved |-> 12, exposeNew |-> 13, undoNew |-> 14,
          unsetStaged |-> 15, checkCopy |-> 16, moveCopy |-> 17, setRollback |-> 18, setCopyPublished |-> 19,
          exposeCopy |-> 20, dropBackup |-> 21, hideCopy |-> 22, undoCopy |-> 23, unsetRollback |-> 24,
          checkReserve |-> 25, moveReserve |-> 26, exposeReserve |-> 27, cleanBackup |-> 28, setPublished |-> 29,
          cleanStaged |-> 30, cleanCopy |-> 31, published |-> 32, raised |-> 32, fallback |-> 32]

LEMMA InitInv == Init => IInv
<1> SUFFICES ASSUME Init PROVE IInv
  OBVIOUS
<1> USE DEF Init, Names, Nodes, None, Final
<1>1. TypeOK
  <2>1. name = [n \in Names |-> CASE n = "dest" -> IF existed THEN "old" ELSE None
                                [] n = "backup" -> None
                                [] n = "stage" -> "new"
                                [] n = "rollback" -> IF existed THEN "copy" ELSE None]
    OBVIOUS
  <2>2. mode = [n \in Nodes |-> IF n = "old" THEN "public" ELSE "private"]
    OBVIOUS
  <2>3. name \in [Names -> Nodes \cup {None}] /\ mode \in [Nodes -> {"public", "private", "partial"}]
    BY <2>1, <2>2
  <2>4. \A m, n \in Names : name[m] = name[n] => m = n \/ name[m] = None
    BY <2>1
  <2> QED
    BY <2>3, <2>4 DEF TypeOK
<1>2. PlacesOK /\ NewInv /\ ReplaceInv
  BY DEF PlacesOK, NewInv, ReplaceInv, Forward, InReplace, Tree, Modes, Locals, Seen, Hid
<1>3. ForwardInv /\ PublishedInv
  BY DEF ForwardInv, PublishedInv, Forward, InReplace, Handlers, InRollBack
<1>4. UninterruptedInv
  BY DEF UninterruptedInv, UndoNewInv, RollBackInv, ReserveInv, CleaningInv, ResidueInv, Handlers,
         InRollBack, Cleaning
<1> QED
  BY <1>1, <1>2, <1>3, <1>4 DEF IInv

(* Moving a node to a free name, or removing a name, leaves no node with two. *)
NamesOK ==
    /\ name \in [Names -> Nodes \cup {None}]
    /\ \A m, n \in Names : name[m] = name[n] => m = n \/ name[m] = None

LEMMA RenameKeeps ==
    ASSUME NamesOK, NEW from \in Names, NEW to \in Names, Rename(from, to)
    PROVE  NamesOK'
BY DEF NamesOK, Rename, Renamed

LEMMA RemoveKeeps ==
    ASSUME NamesOK, NEW at \in Names, name' = [name EXCEPT ![at] = None]
    PROVE  NamesOK'
BY DEF NamesOK

(* Every step is a rename, a removal, or leaves the names alone; and every step
   changes at most one local variable and the mode of one node. *)
LEMMA NamesStep == TypeOK /\ [Next]_vars => NamesOK'
<1> SUFFICES ASSUME TypeOK, [Next]_vars PROVE NamesOK'
  OBVIOUS
<1>1. NamesOK
  BY DEF TypeOK, NamesOK
<1>2. CASE \E from, to \in Names : Rename(from, to)
  BY <1>1, <1>2, RenameKeeps
<1>3. CASE \E at \in Names : name' = [name EXCEPT ![at] = None]
  BY <1>1, <1>3, RemoveKeeps
<1>4. CASE UNCHANGED name
  BY <1>1, <1>4 DEF NamesOK
<1>5. \/ \E from, to \in Names : Rename(from, to)
      \/ \E at \in Names : name' = [name EXCEPT ![at] = None]
      \/ UNCHANGED name
  <2> USE DEF Names, Move, Assign, SetMode, Verify, files, ghosts
  <2>1. CASE Check \/ PublishNew \/ UndoNew
    BY <2>1 DEF Check, PublishNew, UndoNew
  <2>2. CASE Replace
    BY <2>2 DEF Replace
  <2>3. CASE RollBack
    BY <2>3 DEF RollBack
  <2>4. CASE RestoreReserve
    BY <2>4 DEF RestoreReserve
  <2>5. CASE CleanBackup \/ SetPublished
    BY <2>5 DEF CleanBackup, SetPublished
  <2>6. CASE CleanStaged \/ CleanCopy
    BY <2>6 DEF CleanStaged, CleanCopy, TypeOK
  <2>7. CASE Fail \/ Interrupt \/ Unsupported \/ UNCHANGED vars
    BY <2>7 DEF Fail, Interrupt, Unsupported, Unwind, vars
  <2> QED
    BY <2>1, <2>2, <2>3, <2>4, <2>5, <2>6, <2>7 DEF Next
<1> QED
  BY <1>2, <1>3, <1>4, <1>5

RestOK ==
    /\ mode \in [Nodes -> {"public", "private", "partial"}]
    /\ loc \in [staged : {"stage", "dest"}, rollback : {"rollback", "dest"}, result : Final,
                oldMoved : BOOLEAN, newMoved : BOOLEAN, copyPublished : BOOLEAN]
    /\ existed \in BOOLEAN /\ interrupted \in BOOLEAN
    /\ PlacesOK

LEMMA RestStep == RestOK /\ [Next]_vars => RestOK'
<1> SUFFICES ASSUME RestOK, [Next]_vars PROVE RestOK'
  OBVIOUS
<1> USE DEF RestOK, PlacesOK, Forward, InReplace, Handlers, InRollBack, Cleaning, Final, Nodes, Move,
            Assign, Local, SetMode, Verify, At, files, ghosts
<1>3. CASE Check \/ PublishNew \/ UndoNew
  BY <1>3 DEF Check, PublishNew, UndoNew
<1>4. CASE Replace
  BY <1>4 DEF Replace, Undo, AfterUndo, Hidden
<1>5. CASE RollBack
  BY <1>5 DEF RollBack, AfterUndo
<1>6. CASE RestoreReserve
  BY <1>6 DEF RestoreReserve
<1>7. CASE CleanBackup \/ SetPublished
  BY <1>7 DEF CleanBackup, SetPublished
<1>8. CASE CleanStaged \/ CleanCopy
  BY <1>8 DEF CleanStaged, CleanCopy
<1>9. CASE Fail
  BY <1>9 DEF Fail, MayHaveSet, Unwind, Undo, AfterUndo, Reserve, Hidden
<1>10. CASE Interrupt \/ Unsupported \/ UNCHANGED vars
  BY <1>10 DEF Interrupt, Unsupported, Unwind, Undo, AfterUndo, Reserve, vars
<1> QED
  BY <1>3, <1>4, <1>5, <1>6, <1>7, <1>8, <1>9, <1>10 DEF Next

LEMMA TypeStep == TypeOK /\ PlacesOK /\ [Next]_vars => TypeOK' /\ PlacesOK'
BY NamesStep, RestStep DEF TypeOK, NamesOK, RestOK

(* The way forward without a destination, ... *)
LEMMA NewStep ==
    ASSUME TypeOK, PlacesOK, NewInv, ReplaceInv, ForwardInv, [Next]_vars
    PROVE  NewInv'
<1> USE DEF TypeOK, PlacesOK, Forward, InReplace, Handlers, InRollBack, Cleaning, Final, Names, Nodes, None,
            Move, Rename, Renamed, Assign, Local, SetMode, Verify, At, files, ghosts, Tree, Modes,
            Locals, Hid, Seen, Either, NewInv, ReplaceInv, ForwardInv
<1>1. CASE Check \/ PublishNew
  BY <1>1 DEF Check, PublishNew
<1>2. CASE UndoNew
  BY <1>2 DEF UndoNew
<1>3. CASE Replace
  BY <1>3 DEF Replace, Undo, AfterUndo, Hidden
<1>4. CASE RollBack
  BY <1>4 DEF RollBack, AfterUndo
<1>5. CASE RestoreReserve
  BY <1>5 DEF RestoreReserve
<1>6. CASE CleanBackup \/ SetPublished
  BY <1>6 DEF CleanBackup, SetPublished
<1>7. CASE CleanStaged \/ CleanCopy
  BY <1>7 DEF CleanStaged, CleanCopy, NotPublished, CopyPlaced
<1>8. CASE Fail
  BY <1>8 DEF Fail, MayHaveSet, Unwind, Undo, AfterUndo, Reserve, Hidden, Assignments, Suppressed
<1>9. CASE Interrupt
  BY <1>9 DEF Interrupt, Unwind, Undo, AfterUndo, Reserve
<1>10. CASE Unsupported
  BY <1>10 DEF Unsupported, BeforeMutation
<1>11. CASE UNCHANGED vars
  BY <1>11 DEF vars
<1> HIDE DEF TypeOK, PlacesOK, Forward, InReplace, Handlers, InRollBack, Cleaning, Final, Names, Nodes, None,
            Move, Rename, Renamed, Assign, Local, SetMode, Verify, At, files, ghosts, Tree, Modes,
            Locals, Hid, Seen, Either, NewInv, ReplaceInv, ForwardInv
<1> QED
  BY <1>1, <1>2, <1>3, <1>4, <1>5, <1>6, <1>7, <1>8, <1>9, <1>10, <1>11 DEF Next

(* ... with one, ... *)
LEMMA ReplaceStep ==
    ASSUME TypeOK, PlacesOK, NewInv, ReplaceInv, ForwardInv, [Next]_vars
    PROVE  ReplaceInv'
<1> USE DEF TypeOK, PlacesOK, Forward, InReplace, Handlers, InRollBack, Cleaning, Final, Names, Nodes, None,
            Move, Rename, Renamed, Assign, Local, SetMode, Verify, At, files, ghosts, Tree, Modes,
            Locals, Hid, Seen, Either, NewInv, ReplaceInv, ForwardInv
<1>1. CASE Check \/ PublishNew
  BY <1>1 DEF Check, PublishNew
<1>2. CASE UndoNew
  BY <1>2 DEF UndoNew
<1>3. CASE Move("moveOld", "setOldMoved", "dest", "backup")
  BY <1>3
<1>4. CASE Assign("setOldMoved", "hideOld", "oldMoved", TRUE)
  BY <1>4
<1>5. CASE SetMode("hideOld", "recheck", "old", Hidden)
  BY <1>5 DEF Hidden
<1>6. CASE Verify("recheck", "moveNew")
  BY <1>6
<1>7. CASE Move("moveNew", "setStaged", "stage", "dest")
  BY <1>7
<1>8. CASE Assign("setStaged", "setNewMoved", "staged", "dest")
  BY <1>8
<1>9. CASE Assign("setNewMoved", "exposeNew", "newMoved", TRUE)
  BY <1>9
<1>10. CASE SetMode("exposeNew", "cleanBackup", "new", "public")
  BY <1>10
<1>11. CASE RollBack
  BY <1>11 DEF RollBack, AfterUndo
<1>12. CASE RestoreReserve
  BY <1>12 DEF RestoreReserve
<1>13. CASE CleanBackup
  BY <1>13 DEF CleanBackup
<1>14. CASE SetPublished
  BY <1>14 DEF SetPublished
<1>15. CASE CleanStaged \/ CleanCopy
  BY <1>15 DEF CleanStaged, CleanCopy, NotPublished, CopyPlaced
<1>16. CASE Fail
  BY <1>16 DEF Fail, MayHaveSet, Unwind, Undo, AfterUndo, Reserve, Hidden, Assignments, Suppressed
<1>17. CASE Interrupt
  BY <1>17 DEF Interrupt, Unwind, Undo, AfterUndo, Reserve
<1>18. CASE Unsupported
  BY <1>18 DEF Unsupported, BeforeMutation
<1>19. CASE UNCHANGED vars
  BY <1>19 DEF vars
<1> HIDE DEF TypeOK, PlacesOK, Forward, InReplace, Handlers, InRollBack, Cleaning, Final, Names, Nodes, None,
            Move, Rename, Renamed, Assign, Local, SetMode, Verify, At, files, ghosts, Tree, Modes,
            Locals, Hid, Seen, Either, NewInv, ReplaceInv, ForwardInv
<1> QED
  BY <1>1, <1>2, <1>3, <1>4, <1>5, <1>6, <1>7, <1>8, <1>9, <1>10, <1>11, <1>12, <1>13, <1>14, <1>15,
     <1>16, <1>17, <1>18, <1>19 DEF Next, Replace

(* ... and what is over. *)
LEMMA ForwardStep ==
    ASSUME TypeOK, PlacesOK, NewInv, ReplaceInv, ForwardInv, PublishedInv, [Next]_vars
    PROVE  ForwardInv'
<1> USE DEF TypeOK, PlacesOK, Forward, InReplace, Handlers, InRollBack, Cleaning, Final, Names, Nodes, None,
            Move, Rename, Renamed, Assign, Local, SetMode, Verify, At, files, ghosts, Tree, Modes,
            Locals, Hid, Seen, Either, NewInv, ReplaceInv, ForwardInv, PublishedInv, Untouched
<1>1. CASE Check \/ PublishNew
  BY <1>1 DEF Check, PublishNew
<1>2. CASE UndoNew
  BY <1>2 DEF UndoNew
<1>3. CASE Replace
  BY <1>3 DEF Replace, Undo, AfterUndo, Hidden
<1>4. CASE RollBack
  BY <1>4 DEF RollBack, AfterUndo
<1>5. CASE RestoreReserve
  BY <1>5 DEF RestoreReserve
<1>6. CASE CleanBackup \/ SetPublished
  BY <1>6 DEF CleanBackup, SetPublished
<1>7. CASE CleanStaged \/ CleanCopy
  BY <1>7 DEF CleanStaged, CleanCopy, NotPublished, CopyPlaced
<1>8. CASE Fail
  BY <1>8 DEF Fail, MayHaveSet, Unwind, Undo, AfterUndo, Reserve, Hidden, Assignments, Suppressed
<1>9. CASE Interrupt
  BY <1>9 DEF Interrupt, Unwind, Undo, AfterUndo, Reserve
<1>10. CASE Unsupported
  BY <1>10 DEF Unsupported, BeforeMutation
<1>11. CASE UNCHANGED vars
  BY <1>11 DEF vars
<1> HIDE DEF TypeOK, PlacesOK, Forward, InReplace, Handlers, InRollBack, Cleaning, Final, Names, Nodes, None,
            Move, Rename, Renamed, Assign, Local, SetMode, Verify, At, files, ghosts, Tree, Modes,
            Locals, Hid, Seen, Either, NewInv, ReplaceInv, ForwardInv, PublishedInv, Untouched
<1> QED
  BY <1>1, <1>2, <1>3, <1>4, <1>5, <1>6, <1>7, <1>8, <1>9, <1>10, <1>11 DEF Next

(* A publication that counts stays. *)
LEMMA PublishedStep ==
    ASSUME TypeOK, PlacesOK, NewInv, ReplaceInv, ForwardInv, PublishedInv, [Next]_vars
    PROVE  PublishedInv'
<1> USE DEF TypeOK, PlacesOK, Forward, InReplace, Handlers, InRollBack, Cleaning, Final, Names, Nodes, None,
            Move, Rename, Renamed, Assign, Local, SetMode, Verify, At, files, ghosts, Tree, Modes,
            Locals, Hid, Seen, Either, NewInv, ReplaceInv, ForwardInv, PublishedInv
<1>1. CASE Check \/ PublishNew
  BY <1>1 DEF Check, PublishNew
<1>2. CASE UndoNew
  BY <1>2 DEF UndoNew
<1>3. CASE Replace
  BY <1>3 DEF Replace, Undo, AfterUndo, Hidden
<1>4. CASE RollBack
  BY <1>4 DEF RollBack, AfterUndo
<1>5. CASE RestoreReserve
  BY <1>5 DEF RestoreReserve
<1>6. CASE CleanBackup \/ SetPublished
  BY <1>6 DEF CleanBackup, SetPublished
<1>7. CASE CleanStaged \/ CleanCopy
  BY <1>7 DEF CleanStaged, CleanCopy, NotPublished, CopyPlaced
<1>8. CASE Fail
  BY <1>8 DEF Fail, MayHaveSet, Unwind, Undo, AfterUndo, Reserve, Hidden, Assignments, Suppressed
<1>9. CASE Interrupt
  BY <1>9 DEF Interrupt, Unwind, Undo, AfterUndo, Reserve
<1>10. CASE Unsupported
  BY <1>10 DEF Unsupported, BeforeMutation
<1>11. CASE UNCHANGED vars
  BY <1>11 DEF vars
<1> HIDE DEF TypeOK, PlacesOK, Forward, InReplace, Handlers, InRollBack, Cleaning, Final, Names, Nodes, None,
            Move, Rename, Renamed, Assign, Local, SetMode, Verify, At, files, ghosts, Tree, Modes,
            Locals, Hid, Seen, Either, NewInv, ReplaceInv, ForwardInv, PublishedInv
<1> QED
  BY <1>1, <1>2, <1>3, <1>4, <1>5, <1>6, <1>7, <1>8, <1>9, <1>10, <1>11 DEF Next

(* The way back without a destination, ... *)
LEMMA UndoNewStep ==
    ASSUME TypeOK, PlacesOK, NewInv, ReplaceInv, ForwardInv, UninterruptedInv, [Next]_vars
    PROVE  (~interrupted => UndoNewInv)'
<1> USE DEF TypeOK, PlacesOK, Forward, InReplace, Handlers, InRollBack, Cleaning, Final, Names, Nodes, None,
            Move, Rename, Renamed, Assign, Local, SetMode, Verify, At, files, ghosts, Tree, Modes,
            Locals, Hid, Seen, Either, NewInv, ReplaceInv, ForwardInv, PublishedInv, UninterruptedInv,
            UndoNewInv, RollBackInv, ReserveInv
<1>1. CASE Check \/ PublishNew
  BY <1>1 DEF Check, PublishNew
<1>2. CASE UndoNew
  BY <1>2 DEF UndoNew
<1>3. CASE Move("moveOld", "setOldMoved", "dest", "backup")
  BY <1>3
<1>4. CASE Assign("setOldMoved", "hideOld", "oldMoved", TRUE)
  BY <1>4
<1>5. CASE SetMode("hideOld", "recheck", "old", Hidden)
  BY <1>5 DEF Hidden
<1>6. CASE Verify("recheck", "moveNew")
  BY <1>6
<1>7. CASE Move("moveNew", "setStaged", "stage", "dest")
  BY <1>7
<1>8. CASE Assign("setStaged", "setNewMoved", "staged", "dest")
  BY <1>8
<1>9. CASE Assign("setNewMoved", "exposeNew", "newMoved", TRUE)
  BY <1>9
<1>10. CASE SetMode("exposeNew", "cleanBackup", "new", "public")
  BY <1>10
<1>11. CASE RollBack
  BY <1>11 DEF RollBack, AfterUndo
<1>12. CASE RestoreReserve
  BY <1>12 DEF RestoreReserve
<1>13. CASE CleanBackup
  BY <1>13 DEF CleanBackup
<1>14. CASE SetPublished
  BY <1>14 DEF SetPublished
<1>15. CASE CleanStaged \/ CleanCopy
  BY <1>15 DEF CleanStaged, CleanCopy, NotPublished, CopyPlaced
<1>16. CASE Fail
  BY <1>16 DEF Fail, MayHaveSet, Unwind, Undo, AfterUndo, Reserve, Hidden, Assignments, Suppressed
<1>17. CASE Interrupt
  BY <1>17 DEF Interrupt, Unwind, Undo, AfterUndo, Reserve
<1>18. CASE Unsupported
  BY <1>18 DEF Unsupported, BeforeMutation
<1>19. CASE UNCHANGED vars
  BY <1>19 DEF vars
<1> HIDE DEF TypeOK, PlacesOK, Forward, InReplace, Handlers, InRollBack, Cleaning, Final, Names, Nodes, None,
            Move, Rename, Renamed, Assign, Local, SetMode, Verify, At, files, ghosts, Tree, Modes,
            Locals, Hid, Seen, Either, NewInv, ReplaceInv, ForwardInv, PublishedInv, UninterruptedInv,
            UndoNewInv, RollBackInv, ReserveInv
<1> QED
  BY <1>1, <1>2, <1>3, <1>4, <1>5, <1>6, <1>7, <1>8, <1>9, <1>10, <1>11, <1>12, <1>13, <1>14, <1>15,
     <1>16, <1>17, <1>18, <1>19 DEF Next, Replace

(* ... the one that publishes the copy, ... *)
LEMMA RollBackStep ==
    ASSUME TypeOK, PlacesOK, NewInv, ReplaceInv, ForwardInv, UninterruptedInv, [Next]_vars
    PROVE  (~interrupted => RollBackInv)'
<1> USE DEF TypeOK, PlacesOK, Forward, InReplace, Handlers, InRollBack, Cleaning, Final, Names, Nodes, None,
            Move, Rename, Renamed, Assign, Local, SetMode, Verify, At, files, ghosts, Tree, Modes,
            Locals, Hid, Seen, Either, NewInv, ReplaceInv, ForwardInv, PublishedInv, UninterruptedInv,
            UndoNewInv, RollBackInv, ReserveInv
<1>1. CASE Check \/ PublishNew
  BY <1>1 DEF Check, PublishNew
<1>2. CASE UndoNew
  BY <1>2 DEF UndoNew
<1>3. CASE Replace
  BY <1>3 DEF Replace, Undo, AfterUndo, Hidden
<1>4. CASE Move("undoNew", "unsetStaged", "dest", "stage")
  BY <1>4
<1>5. CASE Assign("unsetStaged", AfterUndo, "staged", "stage")
  BY <1>5 DEF AfterUndo
<1>6. CASE Verify("checkCopy", "moveCopy")
  BY <1>6
<1>7. CASE Move("moveCopy", "setRollback", "rollback", "dest")
  BY <1>7
<1>8. CASE Assign("setRollback", "setCopyPublished", "rollback", "dest")
  BY <1>8
<1>9. CASE Assign("setCopyPublished", "exposeCopy", "copyPublished", TRUE)
  BY <1>9
<1>10. CASE SetMode("exposeCopy", "dropBackup", "copy", "public")
  BY <1>10
<1>11. CASE SetMode("hideCopy", "undoCopy", "copy", "private")
  BY <1>11
<1>12. CASE Move("undoCopy", "unsetRollback", "dest", "rollback")
  BY <1>12
<1>13. CASE Assign("unsetRollback", "checkReserve", "rollback", "rollback")
  BY <1>13
<1>14. CASE Verify("checkReserve", "moveReserve")
  BY <1>14
<1>15. CASE Move("moveReserve", "exposeReserve", "backup", "dest")
  BY <1>15
<1>16. CASE SetMode("exposeReserve", "cleanStaged", "old", "public")
  BY <1>16
<1>17. CASE CleanBackup \/ SetPublished
  BY <1>17 DEF CleanBackup, SetPublished
<1>18. CASE CleanStaged \/ CleanCopy
  BY <1>18 DEF CleanStaged, CleanCopy, NotPublished, CopyPlaced
<1>19. CASE Fail
  BY <1>19 DEF Fail, MayHaveSet, Unwind, Undo, AfterUndo, Reserve, Hidden, Assignments, Suppressed
<1>20. CASE Interrupt
  BY <1>20 DEF Interrupt, Unwind, Undo, AfterUndo, Reserve
<1>21. CASE Unsupported
  BY <1>21 DEF Unsupported, BeforeMutation
<1>22. CASE UNCHANGED vars
  BY <1>22 DEF vars
<1> HIDE DEF TypeOK, PlacesOK, Forward, InReplace, Handlers, InRollBack, Cleaning, Final, Names, Nodes, None,
            Move, Rename, Renamed, Assign, Local, SetMode, Verify, At, files, ghosts, Tree, Modes,
            Locals, Hid, Seen, Either, NewInv, ReplaceInv, ForwardInv, PublishedInv, UninterruptedInv,
            UndoNewInv, RollBackInv, ReserveInv
<1> QED
  BY <1>1, <1>2, <1>3, <1>4, <1>5, <1>6, <1>7, <1>8, <1>9, <1>10, <1>11, <1>12, <1>13, <1>14, <1>15,
     <1>16, <1>17, <1>18, <1>19, <1>20, <1>21, <1>22 DEF Next, RollBack, RestoreReserve

(* ... and the one that exposes the original. *)
LEMMA ReserveStep ==
    ASSUME TypeOK, PlacesOK, NewInv, ReplaceInv, ForwardInv, UninterruptedInv, [Next]_vars
    PROVE  (~interrupted => ReserveInv)'
<1> USE DEF TypeOK, PlacesOK, Forward, InReplace, Handlers, InRollBack, Cleaning, Final, Names, Nodes, None,
            Move, Rename, Renamed, Assign, Local, SetMode, Verify, At, files, ghosts, Tree, Modes,
            Locals, Hid, Seen, Either, NewInv, ReplaceInv, ForwardInv, PublishedInv, UninterruptedInv,
            UndoNewInv, RollBackInv, ReserveInv
<1>1. CASE Check \/ PublishNew
  BY <1>1 DEF Check, PublishNew
<1>2. CASE UndoNew
  BY <1>2 DEF UndoNew
<1>3. CASE Replace
  BY <1>3 DEF Replace, Undo, AfterUndo, Hidden
<1>4. CASE Move("undoNew", "unsetStaged", "dest", "stage")
  BY <1>4
<1>5. CASE Assign("unsetStaged", AfterUndo, "staged", "stage")
  BY <1>5 DEF AfterUndo
<1>6. CASE Verify("checkCopy", "moveCopy")
  BY <1>6
<1>7. CASE Move("moveCopy", "setRollback", "rollback", "dest")
  BY <1>7
<1>8. CASE Assign("setRollback", "setCopyPublished", "rollback", "dest")
  BY <1>8
<1>9. CASE Assign("setCopyPublished", "exposeCopy", "copyPublished", TRUE)
  BY <1>9
<1>10. CASE SetMode("exposeCopy", "dropBackup", "copy", "public")
  BY <1>10
<1>11. CASE SetMode("hideCopy", "undoCopy", "copy", "private")
  BY <1>11
<1>12. CASE Move("undoCopy", "unsetRollback", "dest", "rollback")
  BY <1>12
<1>13. CASE Assign("unsetRollback", "checkReserve", "rollback", "rollback")
  BY <1>13
<1>14. CASE Verify("checkReserve", "moveReserve")
  BY <1>14
<1>15. CASE Move("moveReserve", "exposeReserve", "backup", "dest")
  BY <1>15
<1>16. CASE SetMode("exposeReserve", "cleanStaged", "old", "public")
  BY <1>16
<1>17. CASE CleanBackup \/ SetPublished
  BY <1>17 DEF CleanBackup, SetPublished
<1>18. CASE CleanStaged \/ CleanCopy
  BY <1>18 DEF CleanStaged, CleanCopy, NotPublished, CopyPlaced
<1>19. CASE Fail
  BY <1>19 DEF Fail, MayHaveSet, Unwind, Undo, AfterUndo, Reserve, Hidden, Assignments, Suppressed
<1>20. CASE Interrupt
  BY <1>20 DEF Interrupt, Unwind, Undo, AfterUndo, Reserve
<1>21. CASE Unsupported
  BY <1>21 DEF Unsupported, BeforeMutation
<1>22. CASE UNCHANGED vars
  BY <1>22 DEF vars
<1> HIDE DEF TypeOK, PlacesOK, Forward, InReplace, Handlers, InRollBack, Cleaning, Final, Names, Nodes, None,
            Move, Rename, Renamed, Assign, Local, SetMode, Verify, At, files, ghosts, Tree, Modes,
            Locals, Hid, Seen, Either, NewInv, ReplaceInv, ForwardInv, PublishedInv, UninterruptedInv,
            UndoNewInv, RollBackInv, ReserveInv
<1> QED
  BY <1>1, <1>2, <1>3, <1>4, <1>5, <1>6, <1>7, <1>8, <1>9, <1>10, <1>11, <1>12, <1>13, <1>14, <1>15,
     <1>16, <1>17, <1>18, <1>19, <1>20, <1>21, <1>22 DEF Next, RollBack, RestoreReserve

(* What the finally clause finds in each case. *)
LEMMA CleaningStep ==
    ASSUME TypeOK, PlacesOK, NewInv, ReplaceInv, ForwardInv, UninterruptedInv, [Next]_vars
    PROVE  (~interrupted => CleaningInv)'
<1> USE DEF TypeOK, PlacesOK, Forward, InReplace, Handlers, InRollBack, Cleaning, Final, Names, Nodes, None,
            Move, Rename, Renamed, Assign, Local, SetMode, Verify, At, files, ghosts, Tree, Modes,
            Locals, Hid, Seen, Either, NewInv, ReplaceInv, ForwardInv, PublishedInv, UninterruptedInv,
            UndoNewInv, RollBackInv, ReserveInv, CleaningInv, Kept, SafeName, Untouched, Restored,
            LastResort
<1>1. CASE Check \/ PublishNew
  BY <1>1 DEF Check, PublishNew
<1>2. CASE UndoNew
  BY <1>2 DEF UndoNew
<1>3. CASE Replace
  BY <1>3 DEF Replace, Undo, AfterUndo, Hidden
<1>4. CASE Move("undoNew", "unsetStaged", "dest", "stage")
  BY <1>4
<1>5. CASE Assign("unsetStaged", AfterUndo, "staged", "stage")
  BY <1>5 DEF AfterUndo
<1>6. CASE Verify("checkCopy", "moveCopy")
  BY <1>6
<1>7. CASE Move("moveCopy", "setRollback", "rollback", "dest")
  BY <1>7
<1>8. CASE Assign("setRollback", "setCopyPublished", "rollback", "dest")
  BY <1>8
<1>9. CASE Assign("setCopyPublished", "exposeCopy", "copyPublished", TRUE)
  BY <1>9
<1>10. CASE SetMode("exposeCopy", "dropBackup", "copy", "public")
  BY <1>10
<1>11. CASE SetMode("hideCopy", "undoCopy", "copy", "private")
  BY <1>11
<1>12. CASE Move("undoCopy", "unsetRollback", "dest", "rollback")
  BY <1>12
<1>13. CASE Assign("unsetRollback", "checkReserve", "rollback", "rollback")
  BY <1>13
<1>14. CASE Verify("checkReserve", "moveReserve")
  BY <1>14
<1>15. CASE Move("moveReserve", "exposeReserve", "backup", "dest")
  BY <1>15
<1>16. CASE SetMode("exposeReserve", "cleanStaged", "old", "public")
  BY <1>16
<1>17. CASE CleanBackup \/ SetPublished
  BY <1>17 DEF CleanBackup, SetPublished
<1>18. CASE CleanStaged \/ CleanCopy
  BY <1>18 DEF CleanStaged, CleanCopy, NotPublished, CopyPlaced
<1>19. CASE Fail
  BY <1>19 DEF Fail, MayHaveSet, Unwind, Undo, AfterUndo, Reserve, Hidden, Assignments, Suppressed
<1>20. CASE Interrupt
  BY <1>20 DEF Interrupt, Unwind, Undo, AfterUndo, Reserve
<1>21. CASE Unsupported
  BY <1>21 DEF Unsupported, BeforeMutation
<1>22. CASE UNCHANGED vars
  BY <1>22 DEF vars
<1> HIDE DEF TypeOK, PlacesOK, Forward, InReplace, Handlers, InRollBack, Cleaning, Final, Names, Nodes, None,
            Move, Rename, Renamed, Assign, Local, SetMode, Verify, At, files, ghosts, Tree, Modes,
            Locals, Hid, Seen, Either, NewInv, ReplaceInv, ForwardInv, PublishedInv, UninterruptedInv,
            UndoNewInv, RollBackInv, ReserveInv, CleaningInv, Kept, SafeName, Untouched, Restored,
            LastResort
<1> QED
  BY <1>1, <1>2, <1>3, <1>4, <1>5, <1>6, <1>7, <1>8, <1>9, <1>10, <1>11, <1>12, <1>13, <1>14, <1>15,
     <1>16, <1>17, <1>18, <1>19, <1>20, <1>21, <1>22 DEF Next, Replace, RollBack, RestoreReserve

(* Hiding the original is what makes its residue private. *)
LEMMA ResidueStep ==
    ASSUME TypeOK, PlacesOK, NewInv, ReplaceInv, ForwardInv, UninterruptedInv, [Next]_vars
    PROVE  (~interrupted => ResidueInv)'
<1> USE DEF TypeOK, PlacesOK, Forward, InReplace, Handlers, InRollBack, Cleaning, Final, Names, Nodes, None,
            Move, Rename, Renamed, Assign, Local, SetMode, Verify, At, files, ghosts, Tree, Modes,
            Locals, Hid, Seen, Either, NewInv, ReplaceInv, ForwardInv, PublishedInv, UninterruptedInv,
            UndoNewInv, RollBackInv, ReserveInv, ResidueInv
<1>1. CASE Check \/ PublishNew
  BY <1>1 DEF Check, PublishNew
<1>2. CASE UndoNew
  BY <1>2 DEF UndoNew
<1>3. CASE Replace
  BY <1>3 DEF Replace, Undo, AfterUndo, Hidden
<1>4. CASE Move("undoNew", "unsetStaged", "dest", "stage")
  BY <1>4
<1>5. CASE Assign("unsetStaged", AfterUndo, "staged", "stage")
  BY <1>5 DEF AfterUndo
<1>6. CASE Verify("checkCopy", "moveCopy")
  BY <1>6
<1>7. CASE Move("moveCopy", "setRollback", "rollback", "dest")
  BY <1>7
<1>8. CASE Assign("setRollback", "setCopyPublished", "rollback", "dest")
  BY <1>8
<1>9. CASE Assign("setCopyPublished", "exposeCopy", "copyPublished", TRUE)
  BY <1>9
<1>10. CASE SetMode("exposeCopy", "dropBackup", "copy", "public")
  BY <1>10
<1>11. CASE SetMode("hideCopy", "undoCopy", "copy", "private")
  BY <1>11
<1>12. CASE Move("undoCopy", "unsetRollback", "dest", "rollback")
  BY <1>12
<1>13. CASE Assign("unsetRollback", "checkReserve", "rollback", "rollback")
  BY <1>13
<1>14. CASE Verify("checkReserve", "moveReserve")
  BY <1>14
<1>15. CASE Move("moveReserve", "exposeReserve", "backup", "dest")
  BY <1>15
<1>16. CASE SetMode("exposeReserve", "cleanStaged", "old", "public")
  BY <1>16
<1>17. CASE CleanBackup \/ SetPublished
  BY <1>17 DEF CleanBackup, SetPublished
<1>18. CASE CleanStaged \/ CleanCopy
  BY <1>18 DEF CleanStaged, CleanCopy, NotPublished, CopyPlaced
<1>19. CASE Fail
  BY <1>19 DEF Fail, MayHaveSet, Unwind, Undo, AfterUndo, Reserve, Hidden, Assignments, Suppressed
<1>20. CASE Interrupt
  BY <1>20 DEF Interrupt, Unwind, Undo, AfterUndo, Reserve
<1>21. CASE Unsupported
  BY <1>21 DEF Unsupported, BeforeMutation
<1>22. CASE UNCHANGED vars
  BY <1>22 DEF vars
<1> HIDE DEF TypeOK, PlacesOK, Forward, InReplace, Handlers, InRollBack, Cleaning, Final, Names, Nodes, None,
            Move, Rename, Renamed, Assign, Local, SetMode, Verify, At, files, ghosts, Tree, Modes,
            Locals, Hid, Seen, Either, NewInv, ReplaceInv, ForwardInv, PublishedInv, UninterruptedInv,
            UndoNewInv, RollBackInv, ReserveInv, ResidueInv
<1> QED
  BY <1>1, <1>2, <1>3, <1>4, <1>5, <1>6, <1>7, <1>8, <1>9, <1>10, <1>11, <1>12, <1>13, <1>14, <1>15,
     <1>16, <1>17, <1>18, <1>19, <1>20, <1>21, <1>22 DEF Next, Replace, RollBack, RestoreReserve

LEMMA Invariant == Spec => []IInv
<1>1. IInv /\ [Next]_vars => IInv'
  <2> SUFFICES ASSUME IInv, [Next]_vars PROVE IInv'
    OBVIOUS
  <2>1. (TypeOK /\ PlacesOK)'
    BY TypeStep DEF IInv
  <2>2. (NewInv /\ ReplaceInv /\ ForwardInv /\ PublishedInv)'
    BY NewStep, ReplaceStep, ForwardStep, PublishedStep DEF IInv
  <2>3. UninterruptedInv'
    BY UndoNewStep, RollBackStep, ReserveStep, CleaningStep, ResidueStep DEF IInv, UninterruptedInv
  <2> QED
    BY <2>1, <2>2, <2>3 DEF IInv
<1> QED
  BY <1>1, InitInv, PTL DEF Spec

-----------------------------------------------------------------------------
(* The state has its type, and no node ever has two names. *)
THEOREM TypeCorrect == Spec => []TypeOK
<1>1. IInv => TypeOK
  BY DEF IInv
<1> QED
  BY <1>1, Invariant, PTL

(* After any failures of a publication and of its first way back, the original or its
   copy is at the destination, exposed; the other backend starts from what was there. *)
THEOREM FailureRestoresCorrect == Spec => []FailureRestores
<1>1. IInv => FailureRestores
  <2> SUFFICES ASSUME IInv PROVE FailureRestores
    OBVIOUS
  <2>1. FallbackUntouched
    BY DEF IInv, ForwardInv, FallbackUntouched
  <2>2. ASSUME ~interrupted, pc = "raised"
        PROVE  RestoresOldTree /\ (~existed /\ "undoNamed" \notin faulted => Untouched)
    <3>1. CASE loc.result = "raised"
      BY <2>2, <3>1 DEF IInv, UninterruptedInv, CleaningInv, RestoresOldTree
    <3>2. CASE loc.result = "published"
      BY <2>2, <3>2 DEF IInv, UninterruptedInv, CleaningInv
    <3>3. CASE loc.result = "fallback"
      BY <2>2, <3>3 DEF IInv, ForwardInv, RestoresOldTree
    <3> QED
      BY <3>1, <3>2, <3>3 DEF IInv, TypeOK, Final
  <2> QED
    BY <2>1, <2>2 DEF FailureRestores, RestoresOldTree
<1> QED
  BY <1>1, Invariant, PTL

(* Without KeyboardInterrupt there is at every instant a whole tree of the destination on
   the disk: the original, its copy or its successor. *)
THEOREM FailureLosesNothingCorrect == Spec => []FailureLosesNothing
<1>1. IInv => FailureLosesNothing
  <2> SUFFICES ASSUME IInv, ~interrupted, existed PROVE NothingLost
    BY DEF FailureLosesNothing, NothingLost
  <2> DEFINE Original == SafeName("old") /\ mode.old # "partial"
             Copy == name.rollback = "copy" \/ name.dest = "copy"
             Successor == name.dest = "new" /\ mode.new = "public"
  <2>1. CASE pc \in Forward
    <3>1. Original \/ Copy
      BY <2>1 DEF IInv, ReplaceInv, Forward, InReplace, Tree, Modes, Seen, Hid, SafeName
    <3> QED
      BY <3>1 DEF NothingLost, SafeName, Names
  <2>2. CASE pc \in Handlers
    <3>1. Original \/ Copy
      BY <2>2 DEF IInv, UninterruptedInv, RollBackInv, ReserveInv, Handlers, InRollBack, Tree,
         Either, SafeName
    <3> QED
      BY <3>1 DEF NothingLost, SafeName, Names
  <2>3. CASE pc \in Cleaning \cup Final
    <3>1. loc.result \in Final
      BY DEF IInv, TypeOK
    <3>2. CASE loc.result = "published"
      BY <2>3, <3>2 DEF IInv, PublishedInv, NothingLost
    <3>3. CASE loc.result = "fallback"
      BY <2>3, <3>3 DEF IInv, ForwardInv, Untouched, NothingLost, Names
    <3>4. CASE loc.result = "raised"
      <4>1. Kept
        BY <2>3, <3>4 DEF IInv, UninterruptedInv, CleaningInv, ForwardInv, Final
      <4> QED
        BY <3>4, <4>1 DEF Kept, SafeName, NothingLost, Names
    <3> QED
      BY <3>1, <3>2, <3>3, <3>4 DEF Final
  <2> QED
    BY <2>1, <2>2, <2>3 DEF IInv, PlacesOK
<1> QED
  BY <1>1, Invariant, PTL

(* A reported publication has happened, only a failed removal leaves the rollback copy
   behind, and an original left under its hidden name is private. *)
THEOREM EndsCleanCorrect == Spec => []EndsClean
<1>1. IInv => EndsClean
  <2> SUFFICES ASSUME IInv PROVE EndsClean
    OBVIOUS
  <2>1. PublishedIsNew
    BY DEF IInv, ForwardInv, PublishedInv, PublishedIsNew
  <2>2. ResidueIsPrivate
    BY DEF IInv, UninterruptedInv, ResidueInv, ResidueIsPrivate, Final
  <2> QED
    BY <2>1, <2>2 DEF EndsClean
<1> QED
  BY <1>1, Invariant, PTL

(* No statement runs twice: whatever fails, and in whichever handler, a publication goes
   forward in one order of its statements, so it ends. *)
THEOREM EveryStepForward == Spec => [][Order[pc] < Order[pc']]_vars
<1> DEFINE Step == Order[pc] < Order[pc']
<1>1. IInv /\ [Next]_vars => [Step]_vars
  <2> SUFFICES ASSUME PlacesOK, TypeOK, Next PROVE Step
    BY DEF IInv
  <2>1. ASSUME Check \/ PublishNew \/ UndoNew \/ CleanBackup \/ SetPublished \/ CleanStaged \/ CleanCopy
        PROVE  Step
    BY <2>1 DEF Check, PublishNew, UndoNew, CleanBackup, SetPublished, CleanStaged, CleanCopy, Move,
       Assign, SetMode, Verify, At, Order, TypeOK, Final
  <2>2. CASE Replace
    <3>1. \/ pc = "moveOld" /\ pc' = "setOldMoved"
          \/ pc = "setOldMoved" /\ pc' = "hideOld"
          \/ pc = "hideOld" /\ pc' = "recheck"
          \/ pc = "recheck" /\ pc' = "moveNew"
          \/ pc = "moveNew" /\ pc' = "setStaged"
          \/ pc = "setStaged" /\ pc' = "setNewMoved"
          \/ pc = "setNewMoved" /\ pc' = "exposeNew"
          \/ pc = "exposeNew" /\ pc' = "cleanBackup"
      BY <2>2 DEF Replace, Move, Assign, SetMode, Verify, At
    <3> QED
      BY <3>1 DEF Order
  <2>3. CASE RollBack
    <3>1. \/ pc = "undoNew" /\ pc' = "unsetStaged"
          \/ pc = "unsetStaged" /\ pc' = "checkCopy"
          \/ pc = "unsetStaged" /\ pc' = "cleanStaged"
          \/ pc = "checkCopy" /\ pc' = "moveCopy"
          \/ pc = "moveCopy" /\ pc' = "setRollback"
          \/ pc = "setRollback" /\ pc' = "setCopyPublished"
          \/ pc = "setCopyPublished" /\ pc' = "exposeCopy"
          \/ pc = "exposeCopy" /\ pc' = "dropBackup"
      BY <2>3 DEF RollBack, Move, Assign, SetMode, Verify, At, AfterUndo
    <3> QED
      BY <3>1 DEF Order
  <2>4. CASE RestoreReserve
    <3>1. \/ pc = "hideCopy" /\ pc' = "undoCopy"
          \/ pc = "undoCopy" /\ pc' = "unsetRollback"
          \/ pc = "unsetRollback" /\ pc' = "checkReserve"
          \/ pc = "checkReserve" /\ pc' = "moveReserve"
          \/ pc = "moveReserve" /\ pc' = "exposeReserve"
          \/ pc = "exposeReserve" /\ pc' = "cleanStaged"
      BY <2>4 DEF RestoreReserve, Move, Assign, SetMode, Verify, At
    <3> QED
      BY <3>1 DEF Order
  <2>5. CASE Fail
    BY <2>5 DEF Fail, Unwind, Undo, AfterUndo, Reserve, PlacesOK, Forward, Handlers, Cleaning, Final,
       InReplace, InRollBack, Order, TypeOK, Assignments, Suppressed
  <2>6. CASE Interrupt \/ Unsupported
    BY <2>6 DEF Interrupt, Unsupported, BeforeMutation, Unwind, Undo, AfterUndo, Reserve, PlacesOK,
       Forward, Handlers, Cleaning, Final, InReplace, InRollBack, Order, TypeOK
  <2> QED
    BY <2>1, <2>2, <2>3, <2>4, <2>5, <2>6 DEF Next
<1> QED
  BY <1>1, Invariant, PTL DEF Spec
=============================================================================
