----------------------- MODULE OutputProvenance_proofs -----------------------
(***************************************************************************)
(* For any number of processes and any Retries >= 2: one key, markers that *)
(* can be read, and no call that gives up without an error of its own.     *)
(* The argument: the state in which the key is settled (published,         *)
(* complete, with one link) is never left, and each place from which a     *)
(* call could fail or return a key is reached only once it is settled, or  *)
(* after an error of the file system in that call (denied).                *)
(***************************************************************************)
EXTENDS OutputProvenance, Integers, TLAPS

Settled == key \in whole \ temps

(* Where a call that may still hold a temporary name is. *)
Holding(p) ==
    \/ pc[p] \in {"write", "link", "unlink", "crashed"}
    \/ pc[p] \in {"lstat", "read", "recover"} /\ caller[p] = "retry"

Reading(p) == pc[p] \in {"lstat", "read"}

(* What each call may rely on, by where it is. *)
CallInv(p) ==
    /\ pc[p] \in {"temp", "write", "link"} => key # p
    /\ pc[p] = "link" => p \in whole
    /\ pc[p] = "unlink" => key = p
    /\ Reading(p) /\ caller[p] = "final" => Settled
    /\ Reading(p) /\ caller[p] \in {"existing", "claim"} => Settled
    /\ Reading(p) /\ caller[p] = "retry" => key # None
    /\ pc[p] = "read" => snap[p] = key /\ Settled
    /\ pc[p] = "recover" => key # None /\ caller[p] = "retry"
    /\ pc[p] \in {"lstat", "read", "recover"} => tries[p] < Retries
    /\ pc[p] \in {"validate", "verify", "temp", "write", "link", "unlink"} => caller[p] = "first"
    /\ caller[p] # "retry" => tries[p] = 0
    /\ tries[p] # 0 => Settled \/ p \in denied
    /\ p \notin denied => tries[p] <= 1 /\ pc[p] # "unread"
    /\ p \notin denied /\ pc[p] = "recover" => tries[p] = 0
    /\ got[p] # None => got[p] = key /\ Settled
    /\ pc[p] \in {"open", "sign"} => got[p] # None
    /\ pc[p] = "sign" => marker.state = "partial" /\ marker.by = p
    /\ pc[p] = "sync" => marker.state = "whole" /\ marker.by = p
    /\ p \in temps => Holding(p) \/ (pc[p] = "failed" /\ p \in stuck)

SharedInv ==
    /\ key # None => key \in whole
    /\ marker.state = "whole" => marker.signed = key /\ Settled
    /\ marker.state = "partial" =>
          /\ marker.by \in Procs
          /\ pc[marker.by] = "sign" \/ LeftByDeadOrStuck(marker.by)

IInv == TypeOK /\ SharedInv /\ \A p \in Procs : CallInv(p)

-----------------------------------------------------------------------------
(* The initial states satisfy the invariant: nothing is published yet. *)
LEMMA IInvInit == Init => IInv
  BY NoneAssumption, RetriesAssumption DEF Init, IInv, TypeOK, SharedInv, CallInv, Settled,
     LeftByDeadOrStuck, Holding, Reading, Inodes, Running, Callers, NoMarker

(* Once settled, the key stays settled: no step replaces it, and no call
   creates the temporary name of an inode that is already published. *)
LEMMA SettledStays ==
  ASSUME IInv, NEW p \in Procs, Step(p) \/ Fault(p), Settled
  PROVE  Settled' /\ key' = key
  BY NoneAssumption DEF IInv, TypeOK, CallInv, Settled, Step, Fault, Crash, Validate, Verify,
     Lstat, Read, KeyMissing, KeyInvalid, KeyRead, Recover, CreateTemp, WriteTemp,
     CreateFails, Link, Unlink, OpenMarker, SignMarker, SyncMarker, SignFails, ReadFails,
     RecoverFails, MarkerFails, Leave, Goto, Call, keyVars, readVars, Finally, MayLink, LostRace,
     Inodes

(* Every step of one call keeps the types, and what the calls share. *)
LEMMA TypeStep ==
  ASSUME IInv, NEW p \in Procs, Step(p) \/ Fault(p)
  PROVE  TypeOK'
<1> USE NoneAssumption, RetriesAssumption
        DEF IInv, TypeOK, CallInv, SharedInv, Inodes, Running, Ended, Callers, NoMarker,
            Goto, Call, keyVars, readVars, errors, LeftByDeadOrStuck
<1>1. CASE Validate(p)
  BY <1>1 DEF Validate
<1>2. CASE Verify(p)
  BY <1>2 DEF Verify
<1>3. CASE Lstat(p)
  BY <1>3 DEF Lstat, KeyMissing, KeyInvalid, ValidKey, SingleLink, Recovering
<1>4. CASE Read(p)
  BY <1>4 DEF Read, KeyInvalid, KeyRead, ValidKey, SingleLink, Recovering, Leave, Finally
<1>5. CASE Recover(p)
  BY <1>5 DEF Recover, Leave, Finally
<1>6. CASE CreateTemp(p)
  BY <1>6 DEF CreateTemp
<1>7. CASE WriteTemp(p)
  BY <1>7 DEF WriteTemp
<1>8. CASE CreateFails(p)
  BY <1>8 DEF CreateFails, Leave, Finally
<1>9. CASE Link(p)
  BY <1>9 DEF Link, MayLink, LostRace
<1>10. CASE Unlink(p)
  BY <1>10 DEF Unlink
<1>11. CASE OpenMarker(p)
  BY <1>11 DEF OpenMarker
<1>12. CASE SignMarker(p)
  BY <1>12 DEF SignMarker
<1>13. CASE SyncMarker(p)
  BY <1>13 DEF SyncMarker
<1>14. CASE SignFails(p)
  BY <1>14 DEF SignFails, NoMarker
<1>15. CASE Crash(p)
  BY <1>15 DEF Crash
<1>16. CASE ReadFails(p)
  BY <1>16 DEF ReadFails
<1>17. CASE RecoverFails(p)
  BY <1>17 DEF RecoverFails, Leave, Finally
<1>18. CASE MarkerFails(p)
  BY <1>18 DEF MarkerFails
<1> QED
  BY <1>1, <1>2, <1>3, <1>4, <1>5, <1>6, <1>7, <1>8, <1>9, <1>10, <1>11, <1>12, <1>13, <1>14, <1>15,
     <1>16, <1>17, <1>18 DEF Step, Fault

(* What each call relies on survives a step of any call. *)
LEMMA CallStep ==
  ASSUME IInv, NEW p \in Procs, Step(p) \/ Fault(p)
  PROVE  SharedInv' /\ \A q \in Procs : CallInv(q)'
<1> USE NoneAssumption, RetriesAssumption
        DEF IInv, TypeOK, CallInv, SharedInv, Settled, Holding, Reading, Inodes, Running,
            Ended, Callers, NoMarker, Goto, Call, keyVars, readVars, errors, LeftByDeadOrStuck
<1>1. CASE Validate(p)
  <2>1. SharedInv'
    BY <1>1 DEF Validate
  <2>2. ASSUME NEW q \in Procs PROVE CallInv(q)'
    BY <1>1 DEF Validate
  <2> QED  BY <2>1, <2>2
<1>2. CASE Verify(p)
  <2>1. SharedInv'
    BY <1>2 DEF Verify
  <2>2. ASSUME NEW q \in Procs PROVE CallInv(q)'
    BY <1>2 DEF Verify
  <2> QED  BY <2>1, <2>2
<1>3. CASE Lstat(p)
  <2>1. SharedInv'
    BY <1>3 DEF Lstat, KeyMissing, KeyInvalid, ValidKey, SingleLink, Recovering
  <2>2. ASSUME NEW q \in Procs PROVE CallInv(q)'
    BY <1>3 DEF Lstat, KeyMissing, KeyInvalid, ValidKey, SingleLink, Recovering
  <2> QED  BY <2>1, <2>2
<1>4. CASE Read(p)
  <2>1. SharedInv'
    BY <1>4 DEF Read, KeyInvalid, KeyRead, ValidKey, SingleLink, Recovering, Leave, Finally
  <2>2. ASSUME NEW q \in Procs PROVE CallInv(q)'
    BY <1>4 DEF Read, KeyInvalid, KeyRead, ValidKey, SingleLink, Recovering, Leave, Finally
  <2> QED  BY <2>1, <2>2
<1>5. CASE Recover(p)
  <2>1. SharedInv'
    BY <1>5 DEF Recover, Leave, Finally
  <2>2. ASSUME NEW q \in Procs PROVE CallInv(q)'
    BY <1>5 DEF Recover, Leave, Finally
  <2> QED  BY <2>1, <2>2
<1>6. CASE CreateTemp(p)
  <2>1. SharedInv'
    BY <1>6 DEF CreateTemp
  <2>2. ASSUME NEW q \in Procs PROVE CallInv(q)'
    BY <1>6 DEF CreateTemp
  <2> QED  BY <2>1, <2>2
<1>7. CASE WriteTemp(p)
  <2>1. SharedInv'
    BY <1>7 DEF WriteTemp
  <2>2. ASSUME NEW q \in Procs PROVE CallInv(q)'
    BY <1>7 DEF WriteTemp
  <2> QED  BY <2>1, <2>2
<1>8. CASE CreateFails(p)
  <2>1. SharedInv'
    BY <1>8 DEF CreateFails, Leave, Finally
  <2>2. ASSUME NEW q \in Procs PROVE CallInv(q)'
    BY <1>8 DEF CreateFails, Leave, Finally
  <2> QED  BY <2>1, <2>2
<1>9. CASE Link(p)
  <2>1. SharedInv'
    BY <1>9 DEF Link, MayLink, LostRace
  <2>2. ASSUME NEW q \in Procs PROVE CallInv(q)'
    BY <1>9 DEF Link, MayLink, LostRace
  <2> QED  BY <2>1, <2>2
<1>10. CASE Unlink(p)
  <2>1. SharedInv'
    BY <1>10 DEF Unlink
  <2>2. ASSUME NEW q \in Procs PROVE CallInv(q)'
    BY <1>10 DEF Unlink
  <2> QED  BY <2>1, <2>2
<1>11. CASE OpenMarker(p)
  <2>1. SharedInv'
    BY <1>11 DEF OpenMarker
  <2>2. ASSUME NEW q \in Procs PROVE CallInv(q)'
    BY <1>11 DEF OpenMarker
  <2> QED  BY <2>1, <2>2
<1>12. CASE SignMarker(p)
  <2>1. SharedInv'
    BY <1>12 DEF SignMarker
  <2>2. ASSUME NEW q \in Procs PROVE CallInv(q)'
    BY <1>12 DEF SignMarker
  <2> QED  BY <2>1, <2>2
<1>13. CASE SyncMarker(p)
  <2>1. SharedInv'
    BY <1>13 DEF SyncMarker
  <2>2. ASSUME NEW q \in Procs PROVE CallInv(q)'
    BY <1>13 DEF SyncMarker
  <2> QED  BY <2>1, <2>2
<1>14. CASE SignFails(p)
  <2>1. SharedInv'
    BY <1>14 DEF SignFails, NoMarker
  <2>2. ASSUME NEW q \in Procs PROVE CallInv(q)'
    BY <1>14 DEF SignFails, NoMarker
  <2> QED  BY <2>1, <2>2
<1>15. CASE Crash(p)
  <2>1. SharedInv'
    BY <1>15 DEF Crash
  <2>2. ASSUME NEW q \in Procs PROVE CallInv(q)'
    BY <1>15 DEF Crash
  <2> QED  BY <2>1, <2>2
<1>16. CASE ReadFails(p)
  <2>1. SharedInv'
    BY <1>16 DEF ReadFails
  <2>2. ASSUME NEW q \in Procs PROVE CallInv(q)'
    BY <1>16 DEF ReadFails
  <2> QED  BY <2>1, <2>2
<1>17. CASE RecoverFails(p)
  <2>1. SharedInv'
    BY <1>17 DEF RecoverFails, Leave, Finally
  <2>2. ASSUME NEW q \in Procs PROVE CallInv(q)'
    BY <1>17 DEF RecoverFails, Leave, Finally
  <2> QED  BY <2>1, <2>2
<1>18. CASE MarkerFails(p)
  <2>1. SharedInv'
    BY <1>18 DEF MarkerFails
  <2>2. ASSUME NEW q \in Procs PROVE CallInv(q)'
    BY <1>18 DEF MarkerFails
  <2> QED  BY <2>1, <2>2
<1> QED
  BY <1>1, <1>2, <1>3, <1>4, <1>5, <1>6, <1>7, <1>8, <1>9, <1>10, <1>11, <1>12, <1>13, <1>14, <1>15,
     <1>16, <1>17, <1>18 DEF Step, Fault

(* The invariant is inductive. *)
LEMMA IInvStep == IInv /\ [Next]_vars => IInv'
<1> SUFFICES ASSUME IInv, [Next]_vars PROVE IInv'
  OBVIOUS
<1>1. CASE Next
  <2>1. PICK p \in Procs : Step(p) \/ Fault(p)
    BY <1>1 DEF Next
  <2>2. TypeOK'
    BY <2>1, TypeStep
  <2>3. SharedInv' /\ \A q \in Procs : CallInv(q)'
    BY <2>1, CallStep
  <2> QED  BY <2>2, <2>3 DEF IInv
<1>2. CASE UNCHANGED vars
  BY <1>2 DEF vars, IInv, TypeOK, SharedInv, CallInv, Settled, Holding, Reading, LeftByDeadOrStuck
<1> QED  BY <1>1, <1>2

(* Every reachable state satisfies the invariant. *)
THEOREM Invariant == Spec => []IInv
<1> QED  BY IInvInit, IInvStep, PTL DEF Spec

(* The state has its type, and no call recovers the key more often than Retries. *)
THEOREM TypeCorrect == Spec => []TypeOK
<1>1. IInv => TypeOK  BY DEF IInv
<1> QED  BY <1>1, Invariant, PTL

(* All the calls that get a key get the one the path names. *)
THEOREM OneKeyCorrect == Spec => []OneKey
<1>1. IInv => OneKey  BY DEF IInv, CallInv, Settled, OneKey
<1> QED  BY <1>1, Invariant, PTL

(* A complete marker is signed with the settled key. *)
THEOREM MarkerCorrect == Spec => []MarkerReadable
<1>1. IInv => MarkerReadable
  BY NoneAssumption DEF IInv, TypeOK, SharedInv, Settled, MarkerReadable
<1> QED  BY <1>1, Invariant, PTL

(* No interleaving, no crash and no failure of another call makes a call fail to read
   the key. *)
THEOREM NeverGivesUp == Spec => []GivesUpNever
<1>1. IInv => GivesUpNever
  <2> SUFFICES ASSUME IInv, NEW p \in Procs, p \notin denied PROVE pc[p] # "unread" /\ tries[p] <= 1
    BY DEF GivesUpNever
  <2>1. CallInv(p) /\ tries[p] \in 0 .. Retries
    BY DEF IInv, TypeOK
  <2> QED  BY <2>1 DEF CallInv
<1> QED  BY <1>1, Invariant, PTL

(* Only a process that died, or a call that failed and could not take its own file away,
   leaves a temporary name of a key, or a root half claimed. *)
THEOREM LeftoversCorrect == Spec => []OnlyFaultsLeaveFiles
<1>1. IInv => OnlyFaultsLeaveTemps
  BY DEF IInv, TypeOK, CallInv, Holding, Running, OnlyFaultsLeaveTemps, LeftByDeadOrStuck
<1>2. IInv => OnlyFaultsLeaveHalfMarkers
  BY DEF IInv, SharedInv, OnlyFaultsLeaveHalfMarkers
<1> QED  BY <1>1, <1>2, Invariant, PTL DEF OnlyFaultsLeaveFiles

(* No step of any call replaces a settled key or gives it a second link. *)
THEOREM SettledForGood == Spec => [][Settled => Settled' /\ key' = key]_vars
<1>1. IInv /\ [Next]_vars => [Settled => Settled' /\ key' = key]_vars
  BY SettledStays DEF Next
<1> QED  BY <1>1, Invariant, PTL DEF Spec

-----------------------------------------------------------------------------
(* The processes of a user share one key, and it alone signs the marker, whatever the
   links, the temporary names and the crashes: OutputProvenance implements SharedKey. *)
THEOREM RefinesSharedKey == Spec => ImplementsSharedKey
<1> USE DEF SignedBy
<1>1. Init => Shared!Init
  BY DEF Init, NoMarker, Shared!Init
<1>2. ASSUME IInv, [Next]_vars PROVE [Shared!Next]_(Shared!vars)
  <2>1. CASE UNCHANGED vars
    BY <2>1 DEF vars, Shared!vars
  <2>2. ASSUME NEW p \in Procs, Link(p) PROVE [Shared!Next]_(Shared!vars)
    BY <2>2 DEF Link, MayLink, LostRace, Call, Goto, Shared!Next, Shared!Create, Shared!vars
  <2>3. ASSUME NEW p \in Procs, Read(p) PROVE [Shared!Next]_(Shared!vars)
    <3>1. UNCHANGED <<key, marker>> /\ (UNCHANGED got \/ got' = [got EXCEPT ![p] = key])
      BY <2>3 DEF Read, KeyRead, errors, KeyInvalid, Call, Goto, keyVars
    <3>2. key # None
      BY <1>2, <2>3, NoneAssumption DEF Read, IInv, CallInv, Settled, TypeOK
    <3> QED  BY <3>1, <3>2 DEF Shared!Next, Shared!Load, Shared!vars
  <2>4. ASSUME NEW p \in Procs, SignMarker(p) PROVE [Shared!Next]_(Shared!vars)
    <3>1. SignedBy = None /\ SignedBy' = key /\ got[p] = key /\ UNCHANGED <<key, got>>
      BY <1>2, <2>4 DEF SignMarker, IInv, CallInv, keyVars, readVars
    <3> QED  BY <3>1 DEF Shared!Next, Shared!Sign
  <2>5. ASSUME NEW p \in Procs, SignFails(p) PROVE [Shared!Next]_(Shared!vars)
    BY <2>5 DEF SignFails, NoMarker, keyVars, readVars, Shared!Next, Shared!Withdraw, Shared!vars
  <2>6. ASSUME NEW p \in Procs, OpenMarker(p) PROVE [Shared!Next]_(Shared!vars)
    BY <2>6 DEF OpenMarker, keyVars, readVars, Shared!vars
  <2>7. ASSUME NEW p \in Procs,
               \/ Validate(p) \/ Verify(p) \/ Lstat(p) \/ Recover(p) \/ CreateTemp(p)
               \/ WriteTemp(p) \/ Unlink(p) \/ SyncMarker(p) \/ CreateFails(p) \/ Crash(p)
               \/ ReadFails(p) \/ RecoverFails(p) \/ MarkerFails(p)
        PROVE  [Shared!Next]_(Shared!vars)
    <3>1. UNCHANGED <<key, got, marker>>
      BY <2>7 DEF Validate, Verify, Lstat, KeyMissing, KeyInvalid, Recover, CreateTemp, WriteTemp,
         Unlink, SyncMarker, CreateFails, Crash, ReadFails, RecoverFails, MarkerFails, keyVars,
         readVars
    <3> QED  BY <3>1 DEF Shared!vars
  <2> QED  BY <1>2, <2>1, <2>2, <2>3, <2>4, <2>5, <2>6, <2>7 DEF Next, Step, Fault
<1> QED  BY <1>1, <1>2, Invariant, PTL DEF Spec, ImplementsSharedKey, Shared!Spec

-----------------------------------------------------------------------------
(* How far a call is from its end: no place of _load_or_create_key is reached twice, but
   for the retry loop, each turn of which (lstat, read, recover) uses up one of Retries. *)
Turns(t) == 3 * (Retries - t) + 3
ReadsLeft(c, t) ==
    CASE c = "retry" -> Turns(t) + 1
      [] c = "final" -> 4
      [] c = "first" -> Turns(0) + 6
      [] OTHER       -> Turns(0) + 8
StepsLeft(l, c, t) ==
    CASE l \in {"validate", "verify"} -> Turns(0) + 10
      [] l = "lstat" -> ReadsLeft(c, t) + 1
      [] l = "read" -> ReadsLeft(c, t)
      [] l = "temp" -> Turns(0) + 6
      [] l = "write" -> Turns(0) + 5
      [] l = "link" -> Turns(0) + 4
      [] l = "unlink" -> 6
      [] l = "recover" -> Turns(t)
      [] l = "open" -> 3
      [] l = "sign" -> 2
      [] l = "sync" -> 1
      [] OTHER -> 0
Remaining(p) == StepsLeft(pc[p], caller[p], tries[p])

(* A step of one call leaves the others where they are. *)
LEMMA StepIsLocal ==
  ASSUME IInv, NEW p \in Procs, Step(p) \/ Fault(p), NEW q \in Procs \ {p}
  PROVE  pc'[q] = pc[q] /\ caller'[q] = caller[q] /\ tries'[q] = tries[q]
<1> USE DEF IInv, TypeOK, Goto, Call, readVars
<1>1. CASE Validate(p) \/ Verify(p) \/ Crash(p) \/ MarkerFails(p) \/ ReadFails(p)
  BY <1>1 DEF Validate, Verify, Crash, MarkerFails, ReadFails
<1>2. CASE Lstat(p) \/ Read(p)
  BY <1>2 DEF Lstat, Read, KeyMissing, KeyInvalid, KeyRead, Leave
<1>3. CASE Recover(p) \/ RecoverFails(p)
  BY <1>3 DEF Recover, RecoverFails, Leave
<1>4. CASE CreateTemp(p) \/ WriteTemp(p) \/ CreateFails(p) \/ Link(p) \/ Unlink(p)
  BY <1>4 DEF CreateTemp, WriteTemp, CreateFails, Link, LostRace, Unlink, Leave
<1>5. CASE OpenMarker(p) \/ SignMarker(p) \/ SyncMarker(p) \/ SignFails(p)
  BY <1>5 DEF OpenMarker, SignMarker, SyncMarker, SignFails
<1> QED  BY <1>1, <1>2, <1>3, <1>4, <1>5 DEF Step, Fault

(* Wherever a call is, its step brings it nearer to its end: the places it can go to are
   found first, and their distances compared after. *)
LEMMA StepForward ==
  ASSUME IInv, NEW p \in Procs, Step(p) \/ Fault(p)
  PROVE  Remaining(p)' < Remaining(p)
<1> USE RetriesAssumption
<1>a. /\ pc \in [Procs -> Running \cup Ended] /\ caller \in [Procs -> Callers]
      /\ tries \in [Procs -> 0 .. Retries] /\ CallInv(p)
  BY DEF IInv, TypeOK
<1>b. tries[p] \in 0 .. Retries /\ caller[p] \in Callers
  BY <1>a
<1> USE DEF Goto, Call, readVars
<1>1. CASE Validate(p) \/ Verify(p)
  <2>1. /\ pc[p] \in {"validate", "verify"} /\ tries'[p] = tries[p]
        /\ \/ pc'[p] = "lstat" /\ caller'[p] \in {"first", "claim", "existing"}
           \/ pc'[p] \in {"refused", "unowned"}
    BY <1>1, <1>a DEF Validate, Verify
  <2> QED  BY <2>1 DEF Remaining, StepsLeft, ReadsLeft, Turns
<1>2. CASE Lstat(p)
  <2>1. pc[p] = "lstat" /\ tries'[p] = tries[p] /\ tries[p] < Retries
    BY <1>2, <1>a DEF Lstat, KeyMissing, KeyInvalid, CallInv
  <2>2. \/ caller[p] = "first" /\ pc'[p] = "temp"
        \/ caller[p] = "retry" /\ pc'[p] = "recover"
        \/ caller[p] = "first" /\ pc'[p] = "lstat" /\ caller'[p] = "retry" /\ tries[p] = 0
        \/ pc'[p] = "read" /\ caller'[p] = caller[p]
        \/ pc'[p] \in {"unowned", "refused", "unread"}
    <3>1. CASE key = None
      BY <1>2, <1>a, <1>b, <3>1 DEF Lstat, KeyMissing
    <3>2. CASE key # None /\ ~ValidKey
      BY <1>2, <1>a, <1>b, <3>2 DEF Lstat, KeyInvalid, Recovering, CallInv
    <3>3. CASE key # None /\ ValidKey
      BY <1>2, <1>a, <1>b, <3>3 DEF Lstat
    <3> QED  BY <3>1, <3>2, <3>3
  <2> QED  BY <1>b, <2>1, <2>2 DEF Remaining, StepsLeft, ReadsLeft, Turns, Callers
<1>3. CASE Read(p)
  <2>1. pc[p] = "read" /\ KeyRead(p)
    BY <1>3, <1>a DEF Read, CallInv, Settled, ValidKey, SingleLink
  <2>2. tries'[p] = tries[p] /\ tries[p] < Retries
    BY <1>a, <2>1 DEF KeyRead, CallInv
  <2>3. \/ caller[p] = "claim" /\ pc'[p] = "lstat" /\ caller'[p] = "first"
        \/ pc'[p] \in {"owned", "refused", "unowned", "open", "failed"}
    BY <1>a, <2>1 DEF KeyRead, Leave
  <2> QED  BY <1>b, <2>1, <2>2, <2>3 DEF Remaining, StepsLeft, ReadsLeft, Turns, Callers
<1>4. CASE ReadFails(p)
  <2>1. /\ pc[p] \in {"lstat", "read"} /\ tries'[p] = tries[p] /\ tries[p] < Retries
        /\ \/ caller[p] = "retry" /\ pc'[p] = "recover"
           \/ pc'[p] \in {"failed", "unread"}
    BY <1>4, <1>a DEF ReadFails, CallInv
  <2> QED  BY <1>b, <2>1 DEF Remaining, StepsLeft, ReadsLeft, Turns, Callers
<1>5. CASE Recover(p) \/ RecoverFails(p)
  <2>1. /\ pc[p] = "recover" /\ caller[p] = "retry" /\ caller'[p] = "retry"
        /\ tries'[p] = tries[p] + 1 /\ tries[p] < Retries
    BY <1>5, <1>a DEF Recover, RecoverFails, CallInv
  <2>2. pc'[p] = "lstat" \/ pc'[p] \in {"unread", "failed"}
    BY <1>5, <1>a DEF Recover, RecoverFails, Leave
  <2> QED  BY <1>b, <2>1, <2>2 DEF Remaining, StepsLeft, ReadsLeft, Turns
<1>6. CASE CreateTemp(p) \/ WriteTemp(p) \/ CreateFails(p)
  <2>1. /\ tries'[p] = tries[p]
        /\ \/ pc[p] = "temp" /\ pc'[p] = "write"
           \/ pc[p] = "write" /\ pc'[p] = "link"
           \/ pc[p] \in {"temp", "write", "link", "unlink"} /\ pc'[p] = "failed"
    BY <1>6, <1>a DEF CreateTemp, WriteTemp, CreateFails, Leave
  <2> QED  BY <1>b, <2>1 DEF Remaining, StepsLeft, ReadsLeft, Turns
<1>7. CASE Link(p) \/ Unlink(p)
  <2>1. /\ tries'[p] = tries[p] /\ tries[p] = 0
        /\ \/ pc[p] = "link" /\ pc'[p] = "unlink"
           \/ pc[p] = "link" /\ pc'[p] = "lstat" /\ caller'[p] = "retry"
           \/ pc[p] = "unlink" /\ pc'[p] = "lstat" /\ caller'[p] = "final"
    BY <1>7, <1>a DEF Link, LostRace, Unlink, CallInv
  <2> QED  BY <1>b, <2>1 DEF Remaining, StepsLeft, ReadsLeft, Turns
<1>8. CASE OpenMarker(p) \/ SignMarker(p) \/ SyncMarker(p) \/ SignFails(p)
  <2>1. \/ pc[p] = "open" /\ pc'[p] \in {"sign", "marked", "refused"}
        \/ pc[p] = "sign" /\ pc'[p] \in {"sync", "failed"}
        \/ pc[p] = "sync" /\ pc'[p] \in {"marked", "failed"}
    BY <1>8, <1>a DEF OpenMarker, SignMarker, SyncMarker, SignFails
  <2> QED  BY <2>1 DEF Remaining, StepsLeft
<1>9. CASE MarkerFails(p) \/ Crash(p)
  <2>1. pc[p] \in Running /\ pc'[p] \in {"refused", "unowned", "failed", "crashed"}
    BY <1>9, <1>a DEF MarkerFails, Crash, Running
  <2>2. pc[p] \in {"lstat", "read", "recover"} => tries[p] < Retries
    BY <1>a DEF CallInv
  <2> QED  BY <1>b, <2>1, <2>2 DEF Remaining, StepsLeft, ReadsLeft, Turns, Running, Callers
<1> QED  BY <1>1, <1>2, <1>3, <1>4, <1>5, <1>6, <1>7, <1>8, <1>9 DEF Step, Fault

(* Every step brings its call nearer to the end and delays no other: a call that keeps
   being scheduled returns within 3 * Retries + 13 steps, whatever the other calls do or
   leave and whatever fails. *)
THEOREM EveryStepForward ==
    Spec => [][\E p \in Procs : /\ Remaining(p)' < Remaining(p)
                                /\ \A q \in Procs \ {p} : Remaining(q)' = Remaining(q)]_vars
<1> DEFINE Step1 == \E p \in Procs : /\ Remaining(p)' < Remaining(p)
                                     /\ \A q \in Procs \ {p} : Remaining(q)' = Remaining(q)
<1>1. IInv /\ [Next]_vars => [Step1]_vars
  <2> SUFFICES ASSUME IInv, NEW p \in Procs, Step(p) \/ Fault(p)
               PROVE  /\ Remaining(p)' < Remaining(p)
                      /\ \A q \in Procs \ {p} : Remaining(q)' = Remaining(q)
    BY DEF Next
  <2>1. \A q \in Procs \ {p} : pc'[q] = pc[q] /\ caller'[q] = caller[q] /\ tries'[q] = tries[q]
    BY StepIsLocal
  <2>2. \A q \in Procs \ {p} : Remaining(q)' = Remaining(q)
    BY <2>1 DEF Remaining
  <2>3. Remaining(p)' < Remaining(p)
    BY StepForward
  <2> QED  BY <2>2, <2>3
<1> QED  BY <1>1, Invariant, PTL DEF Spec
=============================================================================
