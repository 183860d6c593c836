-------------------------- MODULE OutputProvenance --------------------------
(***************************************************************************)
(* The per-user provenance key and the ownership marker of one output root *)
(* (tier3/output_provenance.py).  Several processes of one user claim the  *)
(* root (mark_generated_output_root) or ask who owns it                    *)
(* (is_generated_output_root), create the key if there is none, and may    *)
(* die between any two file-system calls.                                  *)
(*                                                                         *)
(* A process makes one call.  The key it may create is an inode that       *)
(* carries its name: the random temporary name makes it unique.  An inode  *)
(* has two links between os.link and the unlink of its temporary name.     *)
(***************************************************************************)
EXTENDS Naturals

CONSTANTS Procs,      \* the calls of the processes of one user
          None,       \* no inode
          Retries     \* the bound of the loop of _read_key_after_concurrent_publish (50)

ASSUME NoneAssumption == None \notin Procs

(* Two reads are enough for the loop to succeed; see GivesUpNever. *)
ASSUME RetriesAssumption == Retries \in Nat /\ Retries >= 2

VARIABLES key,     \* the inode named by the key path, or None
          temps,   \* the inodes that still have a temporary name
          whole,   \* the inodes whose bytes are written and synced
          marker,  \* the marker of the root: its state, its writer, the key that signed it
          seen,    \* the key that signed the marker a call has read
          pc,      \* where each call is, or how it ended
          caller,  \* on whose behalf _read_key runs
          snap,    \* the inode the lstat of _read_key saw
          tries,   \* failed reads of the retry loop
          got,     \* the key _load_or_create_key returned
          denied,  \* the calls whose reading, or recovery, of the key an error stopped
          stuck    \* the calls that could not remove a file of their own

vars == <<key, temps, whole, marker, seen, pc, caller, snap, tries, got, denied, stuck>>

Inodes == Procs \cup {None}

Running == {"validate", "verify", "lstat", "read", "temp", "write", "link",
            "unlink", "recover", "open", "sign", "sync"}
(* unread: the key could not be read; failed: another error of the file system *)
Ended == {"marked", "owned", "unowned", "refused", "unread", "failed", "crashed"}
Callers == {"existing", "claim", "first", "retry", "final"}
NoMarker == [state |-> "absent", by |-> None, signed |-> None]

Init ==
    /\ key = None
    /\ temps = {} /\ whole = {}
    /\ marker = NoMarker
    /\ seen = [p \in Procs |-> None]
    /\ pc \in [Procs -> {"validate", "verify"}]
    /\ caller = [p \in Procs |-> "first"]
    /\ snap = [p \in Procs |-> None]
    /\ tries = [p \in Procs |-> 0]
    /\ got = [p \in Procs |-> None]
    /\ denied = {} /\ stuck = {}

Goto(p, l) == pc' = [pc EXCEPT ![p] = l]
Call(p, c) == Goto(p, "lstat") /\ caller' = [caller EXCEPT ![p] = c]

keyVars == <<key, temps, whole>>
readVars == <<seen, caller, snap, tries, got>>
errors == <<denied, stuck>>

(* Mutant of SingleLink: st_nlink is not compared. *)
AnyLinks == TRUE

(* _validate_key_metadata of the inode the key path names: st_nlink, size *)
SingleLink == key \notin temps
ValidKey == SingleLink /\ key \in whole

(* Mutant of Finally: the finally clause is missing. *)
NoFinally(p) == temps

(* The finally clause of _load_or_create_key. *)
Finally(p) == temps \ {p}

(* A call leaves the try block of _load_or_create_key for l; names are the temporary
   names then.  The unlink of its own may fail, and its error is then the answer. *)
Leave(p, l, names) ==
    \/ Goto(p, l) /\ temps' = names \cap Finally(p) /\ UNCHANGED stuck
    \/ p \in names /\ Goto(p, "failed") /\ temps' = names /\ stuck' = stuck \cup {p}

(* What validate_generated_output_replacement finds before the root may be
   replaced: nothing, or a marker to authenticate. *)
Validate(p) ==
    /\ pc[p] = "validate"
    /\ seen' = [seen EXCEPT ![p] = marker.signed]
    /\ \/ marker.state = "absent" /\ Call(p, "first")
       \/ marker.state = "partial" /\ Goto(p, "refused") /\ UNCHANGED caller
       \/ marker.state = "whole" /\ Call(p, "claim")
    /\ UNCHANGED <<keyVars, marker, snap, tries, got, errors>>

(* is_generated_output_root reads the marker before it loads the key. *)
Verify(p) ==
    /\ pc[p] = "verify"
    /\ seen' = [seen EXCEPT ![p] = marker.signed]
    /\ IF marker.state = "whole"
         THEN Call(p, "existing")
         ELSE Goto(p, "unowned") /\ UNCHANGED caller
    /\ UNCHANGED <<keyVars, marker, snap, tries, got, errors>>

(* FileNotFoundError: only the first read of _load_or_create_key goes on to
   create a key. *)
KeyMissing(p) ==
    /\ \/ caller[p] = "existing" /\ Goto(p, "unowned")
       \/ caller[p] = "claim" /\ Goto(p, "refused")
       \/ caller[p] = "first" /\ Goto(p, "temp")
       \/ caller[p] = "retry" /\ Goto(p, "recover")
       \/ caller[p] = "final" /\ Goto(p, "unread")
    /\ UNCHANGED <<keyVars, marker, readVars, errors>>

(* Mutant of Recovering: _load_or_create_key lets the ValueError out. *)
RecoveringInLoop == {"retry"}

Recovering == {"first", "retry"}

(* ValueError: the first read falls into the retry loop, which recovers; the
   others let it out. *)
KeyInvalid(p) ==
    /\ IF caller[p] \notin Recovering THEN Goto(p, "unread") /\ UNCHANGED caller
       ELSE IF caller[p] = "retry" THEN Goto(p, "recover") /\ UNCHANGED caller
       ELSE Call(p, "retry")
    /\ UNCHANGED <<keyVars, marker, seen, snap, tries, got, errors>>

(* The bytes are returned: to the comparison with the marker, or as the key
   to sign with, after the finally clause of the creation. *)
KeyRead(p) ==
    /\ IF caller[p] \in {"existing", "claim"}
         THEN /\ \/ seen[p] = key /\ caller[p] = "claim" /\ Call(p, "first")
                 \/ seen[p] = key /\ caller[p] = "existing" /\ Goto(p, "owned") /\ UNCHANGED caller
                 \/ seen[p] # key /\ caller[p] = "claim" /\ Goto(p, "refused") /\ UNCHANGED caller
                 \/ seen[p] # key /\ caller[p] = "existing" /\ Goto(p, "unowned") /\ UNCHANGED caller
              /\ UNCHANGED <<temps, stuck, got>>
         ELSE /\ Leave(p, "open", temps)
              /\ got' = IF pc'[p] = "open" THEN [got EXCEPT ![p] = key] ELSE got
              /\ UNCHANGED caller
    /\ UNCHANGED <<key, whole, marker, seen, snap, tries, denied>>

(* _read_key, up to the first _validate_key_metadata *)
Lstat(p) ==
    /\ pc[p] = "lstat"
    /\ IF key = None THEN KeyMissing(p)
       ELSE IF ~ValidKey THEN KeyInvalid(p)
       ELSE /\ Goto(p, "read")
            /\ snap' = [snap EXCEPT ![p] = key]
            /\ UNCHANGED <<keyVars, marker, seen, caller, tries, got, errors>>

(* _read_key, the pinned read and the checks after it *)
Read(p) ==
    /\ pc[p] = "read"
    /\ IF key = snap[p] /\ ValidKey THEN KeyRead(p) ELSE KeyInvalid(p)

(* _read_key raises another OSError.  Only the retry loop treats it as a reason to
   recover; _load_or_create_key and _load_existing_key make it a ValueError. *)
ReadFails(p) ==
    /\ pc[p] \in {"lstat", "read"}
    /\ Goto(p, CASE caller[p] = "retry" -> "recover"
                 [] caller[p] = "final" -> "failed"
                 [] OTHER -> "unread")
    /\ denied' = denied \cup {p}
    /\ UNCHANGED <<keyVars, marker, readVars, stuck>>

(* One turn of the loop of _read_key_after_concurrent_publish after a failed
   read: the temporary name of the very inode the key path names goes. *)
Recover(p) ==
    /\ pc[p] = "recover"
    /\ tries' = [tries EXCEPT ![p] = @ + 1]
    /\ IF tries[p] + 1 < Retries
         THEN Goto(p, "lstat") /\ temps' = temps \ {key} /\ UNCHANGED stuck
         ELSE Leave(p, "unread", temps \ {key})
    /\ UNCHANGED <<key, whole, marker, seen, caller, snap, got, denied>>

(* The directory cannot be listed, which ends the loop, or the name cannot be
   removed, which is ignored. *)
RecoverFails(p) ==
    /\ pc[p] = "recover"
    /\ tries' = [tries EXCEPT ![p] = @ + 1]
    /\ denied' = denied \cup {p}
    /\ \/ Leave(p, "failed", temps)
       \/ IF tries[p] + 1 < Retries
            THEN Goto(p, "lstat") /\ UNCHANGED <<temps, stuck>>
            ELSE Leave(p, "unread", temps)
    /\ UNCHANGED <<key, whole, marker, seen, caller, snap, got>>

(* os.open of the temporary name, then its content; either may fail. *)
CreateTemp(p) ==
    /\ pc[p] = "temp"
    /\ temps' = temps \cup {p}
    /\ Goto(p, "write")
    /\ UNCHANGED <<key, whole, marker, readVars, errors>>

WriteTemp(p) ==
    /\ pc[p] = "write"
    /\ whole' = whole \cup {p}
    /\ Goto(p, "link")
    /\ UNCHANGED <<key, temps, marker, readVars, errors>>

(* An error of the file system, up to the sync of the directory after the
   unlink, runs the finally clause. *)
CreateFails(p) ==
    /\ pc[p] \in {"temp", "write", "link", "unlink"}
    /\ Leave(p, "failed", temps)
    /\ UNCHANGED <<key, whole, marker, readVars, denied>>

(* Mutant of MayLink: os.replace, or os.rename, instead of os.link. *)
MayReplace == TRUE

(* os.link never replaces *)
MayLink == key = None

(* Mutant of LostRace: the loser tries to link again. *)
LinkAgain(p) == Goto(p, "link") /\ UNCHANGED caller

(* FileExistsError: the loser reads what the winner published. *)
LostRace(p) == Call(p, "retry")

Link(p) ==
    /\ pc[p] = "link"
    /\ IF MayLink
         THEN key' = p /\ Goto(p, "unlink") /\ UNCHANGED caller
         ELSE LostRace(p) /\ UNCHANGED key
    /\ UNCHANGED <<temps, whole, marker, seen, snap, tries, got, errors>>

Unlink(p) ==
    /\ pc[p] = "unlink"
    /\ temps' = temps \ {p}
    /\ Call(p, "final")
    /\ UNCHANGED <<key, whole, marker, seen, snap, tries, got, errors>>

(* write_generated_output_marker, os.open with O_EXCL.  The loser reads at
   once: a marker withdrawn in between is refused as a partial one is. *)
OpenMarker(p) ==
    /\ pc[p] = "open"
    /\ IF marker.state = "absent"
         THEN /\ marker' = [state |-> "partial", by |-> p, signed |-> None]
              /\ Goto(p, "sign")
         ELSE /\ Goto(p, IF marker.state = "whole" /\ marker.signed = got[p]
                           THEN "marked" ELSE "refused")
              /\ UNCHANGED marker
    /\ UNCHANGED <<keyVars, readVars, errors>>

(* The marker, or its directory, cannot be read or opened: the root counts as not
   ours. *)
MarkerFails(p) ==
    /\ \/ pc[p] = "validate" /\ Goto(p, "refused")
       \/ pc[p] = "verify" /\ Goto(p, "unowned")
       \/ pc[p] = "open" /\ marker.state = "absent" /\ Goto(p, "failed")
       \/ pc[p] = "open" /\ marker.state # "absent" /\ Goto(p, "refused")
    /\ UNCHANGED <<keyVars, marker, readVars, errors>>

SignMarker(p) ==
    /\ pc[p] = "sign"
    /\ marker' = [state |-> "whole", by |-> p, signed |-> got[p]]
    /\ Goto(p, "sync")
    /\ UNCHANGED <<keyVars, readVars, errors>>

(* the checks after the write, and the sync of the directory *)
SyncMarker(p) ==
    /\ pc[p] = "sync"
    /\ Goto(p, "marked")
    /\ UNCHANGED <<keyVars, marker, readVars, errors>>

(* A failed write or sync withdraws the file, unless its identity could not be read
   (fstat or lstat after the creation) or its removal fails, which is ignored. *)
SignFails(p) ==
    /\ pc[p] \in {"sign", "sync"}
    /\ \/ marker' = NoMarker /\ UNCHANGED stuck
       \/ UNCHANGED marker /\ stuck' = stuck \cup {p}
    /\ Goto(p, "failed")
    /\ UNCHANGED <<keyVars, readVars, denied>>

(* The process dies between two calls of the file system: what it knew is gone. *)
Crash(p) ==
    /\ pc[p] \in Running
    /\ Goto(p, "crashed")
    /\ seen' = [seen EXCEPT ![p] = None]
    /\ snap' = [snap EXCEPT ![p] = None]
    /\ caller' = [caller EXCEPT ![p] = "first"]
    /\ tries' = [tries EXCEPT ![p] = 0]
    /\ denied' = denied \ {p}
    /\ UNCHANGED <<keyVars, marker, got, stuck>>

Step(p) ==
    \/ Validate(p) \/ Verify(p) \/ Lstat(p) \/ Read(p) \/ Recover(p)
    \/ CreateTemp(p) \/ WriteTemp(p) \/ Link(p) \/ Unlink(p)
    \/ OpenMarker(p) \/ SignMarker(p) \/ SyncMarker(p)

Fault(p) ==
    \/ ReadFails(p) \/ RecoverFails(p) \/ CreateFails(p)
    \/ MarkerFails(p) \/ SignFails(p) \/ Crash(p)

Next == \E p \in Procs : Step(p) \/ Fault(p)

Spec == Init /\ [][Next]_vars

(* A process that has not died is scheduled; nothing need ever fail. *)
FairSpec == Spec /\ \A p \in Procs : WF_vars(Step(p))

-----------------------------------------------------------------------------
(* Type invariant *)
TypeOK ==
    /\ key \in Inodes /\ temps \subseteq Procs /\ whole \subseteq Procs
    /\ marker \in [state : {"absent", "partial", "whole"}, by : Inodes, signed : Inodes]
    /\ seen \in [Procs -> Inodes]
    /\ pc \in [Procs -> Running \cup Ended]
    /\ caller \in [Procs -> Callers]
    /\ snap \in [Procs -> Inodes]
    /\ tries \in [Procs -> 0 .. Retries]
    /\ got \in [Procs -> Inodes]
    /\ denied \subseteq Procs /\ stuck \subseteq Procs

(* Whatever the race and whoever dies, every _load_or_create_key that returns
   returns the key the path names, so all markers are signed with one key. *)
OneKey == \A p \in Procs : got[p] # None => got[p] = key /\ key \in whole

(* A complete marker was signed with the published key, and by then the key
   has one link for good: is_generated_output_root, which reads the marker
   first, cannot meet a key that is still being published. *)
MarkerReadable ==
    marker.state = "whole" => marker.signed = key /\ key \in whole \ temps

(* A publication in progress, or abandoned by a process that died or failed, makes
   no other call fail on the key, which one recovery settles: only an error of the
   file system in the call's own reading, or recovery, of the key does. *)
GivesUpNever ==
    \A p \in Procs \ denied : pc[p] # "unread" /\ tries[p] <= 1

(* A temporary name outlives its call, and a root stays half claimed, only if the
   process died or its call failed and could not take its own file away: never
   behind a call that succeeded, and never for what another call did. *)
LeftByDeadOrStuck(p) == pc[p] = "crashed" \/ (pc[p] = "failed" /\ p \in stuck)

OnlyFaultsLeaveTemps == \A p \in temps : pc[p] \in Running \/ LeftByDeadOrStuck(p)

OnlyFaultsLeaveHalfMarkers ==
    marker.state = "partial" => pc[marker.by] = "sign" \/ LeftByDeadOrStuck(marker.by)

OnlyFaultsLeaveFiles == OnlyFaultsLeaveTemps /\ OnlyFaultsLeaveHalfMarkers

(* Every call returns unless its process dies. *)
EveryCallReturns == \A p \in Procs : <>(pc[p] \in Ended)

(* The calls share one key. *)
SignedBy == IF marker.state = "whole" THEN marker.signed ELSE None
Shared == INSTANCE SharedKey WITH Calls <- Procs, signed <- SignedBy
ImplementsSharedKey == Shared!Spec
=============================================================================
