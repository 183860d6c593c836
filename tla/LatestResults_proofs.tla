------------------------- MODULE LatestResults_proofs -------------------------
(****************************************************************************)
(* Proofs about LatestResults, for any set of runs, any clock, any number   *)
(* of reads and of faults.                                                  *)
(****************************************************************************)
EXTENDS LatestResults, Integers, FiniteSetTheorems, TLAPS

(* Where the directory of a run has no configuration yet. *)
Early == {"idle", "reserved", "running"}

(* The entries of the directory of a run, by where the run is; a user who removes
   them does so once the run is over, and the directory last. *)
Entered(r) ==
    /\ at[r] = "idle" => files[r] = {}
    /\ at[r] = "reserved" => files[r] = {"dir"}
    /\ at[r] = "running" => files[r] = {"dir", "marker"}
    /\ at[r] \in {"configuring", "reporting", "failing"} =>
           files[r] = {"dir", "marker", "config"}
    /\ at[r] \in {"writing", "replacing"} => files[r] = {"dir", "marker", "config", "temp"}
    /\ at[r] \in {"replaced", "publishing", "linked"} =>
           files[r] = {"dir", "marker", "config", "result"}
    /\ files[r] # {} => "dir" \in files[r]
    /\ "temp" \in files[r] => "result" \notin files[r]

(* What of them has its content, and what is synced. *)
Filled(r) ==
    /\ at[r] \in {"reporting", "writing", "replacing", "replaced", "publishing", "linked",
                  "failing"} => "config" \in whole[r]
    /\ at[r] = "replacing" => "temp" \in whole[r]
    /\ at[r] \in {"replaced", "publishing", "linked"} => "result" \in whole[r]
    /\ at[r] \in {"publishing", "linked"} => "result" \in synced[r]

(* Only runs that are over are removed, published or left with a temporary link; and of
   what was published the directory is lost as a whole, or the result is on the disk
   for good. *)
Over(r) ==
    /\ r \in removed => at[r] \in {"ended", "crashed"}
    /\ r \in linking => at[r] \in {"linked", "ended", "crashed"}
    /\ r \in Range(published) =>
           /\ at[r] \in {"ended", "crashed"}
           /\ r \notin removed => files[r] = {} \/ "result" \in whole[r] \cap synced[r]

StoreInv == \A r \in Runs : Entered(r) /\ Filled(r) /\ Over(r)

-----------------------------------------------------------------------------
(* Sequences without repetition. *)

LEMMA AppendFacts ==
    ASSUME NEW S, NEW s \in Seq(S), IsInjective(s), NEW e \in S, e \notin Range(s)
    PROVE  /\ Append(s, e) \in Seq(S) /\ IsInjective(Append(s, e))
           /\ Range(Append(s, e)) = Range(s) \cup {e}
           /\ Append(s, e) # <<>> /\ Last(Append(s, e)) = e
<1> DEFINE t == Append(s, e)
<1>1. /\ t \in Seq(S) /\ Len(t) = Len(s) + 1 /\ Len(s) \in Nat
      /\ \A i \in 1..Len(s) : t[i] = s[i]
      /\ t[Len(s) + 1] = e
      /\ DOMAIN t = 1..(Len(s) + 1) /\ DOMAIN s = 1..Len(s)
  OBVIOUS
<1>2. \A i \in 1..Len(s) : s[i] # e
  BY <1>1 DEF Range
<1>3. IsInjective(t)
  <2> SUFFICES ASSUME NEW a \in 1..(Len(s) + 1), NEW b \in 1..(Len(s) + 1), t[a] = t[b]
               PROVE  a = b
    BY <1>1 DEF IsInjective
  <2>1. CASE a = Len(s) + 1 \/ b = Len(s) + 1
    BY <2>1, <1>1, <1>2
  <2>2. CASE a \in 1..Len(s) /\ b \in 1..Len(s)
    BY <2>2, <1>1 DEF IsInjective
  <2> QED
    BY <2>1, <2>2, <1>1
<1>4. Range(t) = Range(s) \cup {e}
  <2>1. ASSUME NEW x \in Range(t) PROVE x \in Range(s) \cup {e}
    <3>1. PICK i \in 1..(Len(s) + 1) : x = t[i]
      BY <1>1 DEF Range
    <3> QED
      BY <3>1, <1>1 DEF Range
  <2>2. ASSUME NEW x \in Range(s) \cup {e} PROVE x \in Range(t)
    <3>1. CASE x = e
      BY <3>1, <1>1 DEF Range
    <3>2. CASE x \in Range(s)
      <4>1. PICK i \in 1..Len(s) : x = s[i]
        BY <3>2, <1>1 DEF Range
      <4> QED
        BY <4>1, <1>1 DEF Range
    <3> QED
      BY <3>1, <3>2
  <2> QED
    BY <2>1, <2>2
<1>5. t # <<>> /\ Last(t) = e
  BY <1>1 DEF Last
<1> QED
  BY <1>1, <1>3, <1>4, <1>5

LEMMA PrefixFacts ==
    ASSUME NEW S, NEW s \in Seq(S), IsInjective(s), NEW n \in 0..Len(s)
    PROVE  /\ SubSeq(s, 1, n) \in Seq(S) /\ IsInjective(SubSeq(s, 1, n))
           /\ Range(SubSeq(s, 1, n)) \subseteq Range(s)
<1> DEFINE t == SubSeq(s, 1, n)
<1>1. /\ t \in Seq(S) /\ Len(t) = n /\ n \in Nat /\ Len(s) \in Nat
      /\ \A i \in 1..n : t[i] = s[i]
      /\ DOMAIN t = 1..n /\ DOMAIN s = 1..Len(s)
  OBVIOUS
<1>2. IsInjective(t)
  BY <1>1 DEF IsInjective
<1>3. Range(t) \subseteq Range(s)
  <2>1. ASSUME NEW x \in Range(t) PROVE x \in Range(s)
    <3>1. PICK i \in 1..n : x = t[i]
      BY <1>1 DEF Range
    <3> QED
      BY <3>1, <1>1 DEF Range
  <2> QED
    BY <2>1
<1> QED
  BY <1>1, <1>2, <1>3

(* The last element of a sequence is one of its elements. *)
LEMMA LastFact ==
    ASSUME NEW S, NEW s \in Seq(S), s # <<>>
    PROVE  Last(s) \in Range(s) /\ Last(s) \in S
<1>1. Len(s) \in Nat /\ Len(s) # 0 /\ DOMAIN s = 1..Len(s)
  OBVIOUS
<1> QED
  BY <1>1 DEF Last, Range

-----------------------------------------------------------------------------
(* A bounded function on a set that is not empty has a greatest value: of the
   intervals above its values, which are subsets of a finite set, one contains no
   other. *)
LEMMA Greatest ==
    ASSUME NEW S, S # {}, NEW f, NEW b \in Nat, \A q \in S : f[q] \in 0..b
    PROVE  \E r \in S : \A q \in S : f[q] <= f[r]
<1> DEFINE above(q) == (f[q] + 1)..b
           T == {above(q) : q \in S}
           R == StrictSubsetOrdering(1..b)
<1>1. IsFiniteSet(1..b)
  BY FS_Interval
<1>2. IsWellFoundedOn(R, SUBSET (1..b))
  BY <1>1, FS_StrictSubsetOrderingWellFounded, FS_FiniteSubsetsOfFinite
<1>3. T \subseteq SUBSET (1..b) /\ T # {}
  OBVIOUS
<1> HIDE DEF R
<1>4. PICK x \in T : \A y \in T : ~ (<<y, x>> \in R)
  <2> HIDE DEF T
  <2> QED  BY <1>2, <1>3, WFMin
<1>5. PICK r \in S : x = above(r)
  OBVIOUS
<1>6. ASSUME NEW q \in S, f[q] > f[r] PROVE FALSE
  <2>1. above(q) \subseteq above(r) /\ above(q) # above(r)
    <3>1. f[q] \in above(r) /\ f[q] \notin above(q)
      BY <1>6
    <3>2. above(q) \subseteq above(r)
      BY <1>6
    <3> QED
      BY <3>1, <3>2
  <2>2. above(q) \in T /\ above(q) \in SUBSET (1..b) /\ above(r) \in SUBSET (1..b)
    BY <1>3
  <2>3. <<above(q), above(r)>> \in R
    BY <2>1, <2>2 DEF R, StrictSubsetOrdering
  <2> QED
    BY <2>2, <2>3, <1>4, <1>5
<1> QED
  BY <1>6

(* So what a scan returns is one of the runs it accepted, and the newest. *)
LEMMA BestFact ==
    ASSUME TypeOK, NEW S, S \subseteq Runs, S # {}
    PROVE  Best(S) \in S /\ \A q \in S : NewerName(Best(S), q)
<1> USE ClockAssumption DEF TypeOK
<1> DEFINE Is(r) == \A q \in S : second[q] < second[r]
                                 \/ (second[q] = second[r] /\ written[q] <= written[r])
<1>1. PICK t \in S : \A q \in S : second[q] <= second[t]
  BY Greatest
<1> DEFINE latest == {q \in S : second[q] = second[t]}
<1>2. PICK r \in latest : \A q \in latest : written[q] <= written[r]
  <2>1. latest # {} /\ \A q \in latest : written[q] \in 0..writes
    BY <1>1
  <2> HIDE DEF latest
  <2> QED  BY <2>1, Greatest
<1>3. r \in S /\ Is(r)
  <2>1. ASSUME NEW q \in S
        PROVE  second[q] < second[r] \/ (second[q] = second[r] /\ written[q] <= written[r])
    <3>1. second[q] <= second[r] /\ second[q] \in Nat /\ second[r] \in Nat
      BY <1>1, <1>2
    <3>2. CASE second[q] = second[r]
      BY <3>2, <1>2
    <3> QED
      BY <3>1, <3>2
  <2> QED
    BY <2>1, <1>2
<1>4. Best(S) \in S /\ Is(Best(S))
  <2> HIDE DEF Is
  <2>1. Best(S) = CHOOSE q \in S : Is(q)
    BY DEF Best, Is
  <2> QED
    BY <1>3, <2>1
<1>5. ASSUME NEW q \in S PROVE NewerName(Best(S), q)
  BY <1>4 DEF NewerName
<1> QED
  BY <1>4, <1>5

-----------------------------------------------------------------------------
(* The state has its type. *)
LEMMA TypeInit == Init => TypeOK
<1> SUFFICES ASSUME Init PROVE TypeOK
  OBVIOUS
<1>1. <<>> \in Seq(Runs) /\ IsInjective(<<>>)
  BY DEF IsInjective
<1> QED
  BY <1>1, ClockAssumption DEF Init, TypeOK, None, InProgress

(* A read changes nothing but the reader, and the count of faults. *)
LEMMA ReadOnly ==
    ASSUME Read
    PROVE  UNCHANGED <<at, store, names, root, removed>>
BY DEF Read, BeginRead, ResolveLink, ReadConfig, CheckResult, Distrust, DistrustInError, Follow,
       ScanConfig, ScanResult, ScanSkips, ListFails, ScanEnds, Reader, Stay, Keep, Errs, Scan,
       store, names, root

(* The store keeps its shape. *)
LEMMA StoreStep ==
    ASSUME TypeOK, StoreInv, [Next]_vars
    PROVE  StoreInv'
<1> USE DEF TypeOK, StoreInv, Entered, Filled, Over, Put, Goto, Only, Add, Fill, Sync,
            store, names, root, reader, Reader, Stay, Fault, Unlinked
<1>1. ASSUME NEW r \in Runs, Run(r) PROVE StoreInv'
  <2>1. CASE Reserve(r)       BY <2>1 DEF Reserve
  <2>2. CASE Mark(r)          BY <2>2 DEF Mark
  <2>3. CASE OpenConfig(r)    BY <2>3 DEF OpenConfig
  <2>4. CASE WriteConfig(r)   BY <2>4 DEF WriteConfig
  <2>5. CASE CreateTemporary(r)
    <3>1. /\ at[r] = "reporting" /\ at' = [at EXCEPT ![r] = "writing"]
          /\ files[r] = {"dir", "marker", "config"} /\ r \notin removed
          /\ files' = [files EXCEPT ![r] = {"dir", "marker", "config"} \cup {"temp"}]
          /\ UNCHANGED <<whole, synced, removed, linking, published>>
      BY <2>5 DEF CreateTemporary
    <3>2. {"dir", "marker", "config"} \cup {"temp"} = {"dir", "marker", "config", "temp"}
      OBVIOUS
    <3> QED
      BY <3>1, <3>2
  <2>6. CASE WriteTemporary(r)  BY <2>6 DEF WriteTemporary
  <2>7. CASE Replace(r)       BY <2>7 DEF Replace
  <2>8. CASE SyncDirectory(r)  BY <2>8 DEF SyncDirectory, SyncedEntries
  <2>9. CASE WriteFails(r)    BY <2>9 DEF WriteFails, AfterError
  <2>10. CASE FailConfig(r)   BY <2>10 DEF FailConfig
  <2>11. CASE FailResult(r)
    <3>1. /\ at[r] = "failing" /\ at' = [at EXCEPT ![r] = "ended"]
          /\ files[r] = {"dir", "marker", "config"} /\ r \notin removed
          /\ files' = [files EXCEPT ![r] = {"dir", "marker", "config"} \cup {"result"}]
          /\ synced' = [synced EXCEPT ![r] = @ \cup {"result"}]
          /\ UNCHANGED <<whole, removed, linking, published>>
      BY <2>11 DEF FailResult
    <3>2. {"dir", "marker", "config"} \cup {"result"} = {"dir", "marker", "config", "result"}
      OBVIOUS
    <3> QED
      BY <3>1, <3>2
  <2>12. CASE MakeLink(r)     BY <2>12 DEF MakeLink
  <2>13. CASE ReplaceLink(r)
    <3>1. published' = Append(published, r) /\ r \notin Range(published)
      BY <2>13 DEF ReplaceLink
    <3>2. Range(published') = Range(published) \cup {r}
      BY <3>1, AppendFacts
    <3> QED
      BY <2>13, <3>2 DEF ReplaceLink
  <2>14. CASE PublishFails(r)
    <3>1. /\ at[r] \in {"publishing", "linked"} /\ at' = [at EXCEPT ![r] = "ended"]
          /\ linking' \subseteq linking /\ r \notin linking'
          /\ UNCHANGED <<files, whole, synced, removed, published>>
      BY <2>14 DEF PublishFails
    <3> QED
      BY <3>1
  <2>15. CASE PublishLeavesLink(r)  BY <2>15 DEF PublishLeavesLink
  <2> QED
    BY <1>1, <2>1, <2>2, <2>3, <2>4, <2>5, <2>6, <2>7,
       <2>8, <2>9, <2>10, <2>11, <2>12, <2>13, <2>14, <2>15 DEF Run
<1>2. ASSUME NEW r \in Runs, Crash(r) PROVE StoreInv'
  BY <1>2 DEF Crash, InProgress, Fault
<1>3. ASSUME NEW r \in Runs, Discard(r) PROVE StoreInv'
  BY <1>3 DEF Discard, Fault
<1>4. CASE PowerLoss
  <2>1. PICK n \in 0..Len(published) : published' = SubSeq(published, 1, n)
    BY <1>4 DEF PowerLoss
  <2>2. Range(published') \subseteq Range(published)
    BY <2>1, PrefixFacts
  <2>3. \A q \in Runs :
          /\ at'[q] = (IF at[q] = "idle" THEN "idle" ELSE "crashed")
          /\ files'[q] \subseteq files[q]
          /\ files'[q] # {} => "dir" \in files'[q]
          /\ files'[q] = {} \/ ("result" \in whole[q] \cap synced[q] => "result" \in whole'[q] \cap synced'[q])
    <3> SUFFICES ASSUME NEW q \in Runs
                 PROVE  /\ at'[q] = (IF at[q] = "idle" THEN "idle" ELSE "crashed")
                        /\ files'[q] \subseteq files[q]
                        /\ files'[q] # {} => "dir" \in files'[q]
                        /\ \/ files'[q] = {}
                           \/ "result" \in whole[q] \cap synced[q] => "result" \in whole'[q] \cap synced'[q]
      OBVIOUS
    <3>1. PICK lost \in SUBSET Unsynced("dir"), torn \in SUBSET Unsynced("config"),
               gone \in SUBSET Unsynced("result") :
            Loses(lost, torn, gone)
      BY <1>4 DEF PowerLoss
    <3>2. at'[q] = (IF at[q] = "idle" THEN "idle" ELSE "crashed")
      BY <1>4 DEF PowerLoss
    <3>3. CASE q \in lost
      BY <3>1, <3>2, <3>3 DEF Loses
    <3>4. CASE q \notin lost /\ q \in gone
      BY <3>1, <3>2, <3>4 DEF Loses, Unsynced
    <3>5. CASE q \notin lost /\ q \notin gone
      BY <3>1, <3>2, <3>5 DEF Loses
    <3> QED
      BY <3>3, <3>4, <3>5
  <2>4. UNCHANGED <<removed, linking>>
    BY <1>4 DEF PowerLoss, names
  <2>5. ASSUME NEW q \in Runs PROVE Entered(q)' /\ Filled(q)' /\ Over(q)'
    BY <2>2, <2>3, <2>4, <2>5
  <2> QED
    BY <2>5
<1>5. CASE Read
  BY <1>5, ReadOnly
<1>6. CASE UNCHANGED vars
  BY <1>6 DEF vars
<1> QED
  BY <1>1, <1>2, <1>3, <1>4, <1>5, <1>6 DEF Next

(* The reader examines runs, ... *)
ReadingRuns ==
    rAt \in {"resolving", "examining", "checking", "confirming", "returned"} => rRun \in Runs

(* ... and its part of the state has its type. *)
ReaderOK ==
    /\ rAt \in {"idle", "resolving", "examining", "checking", "returned", "scanning",
               "confirming", "answered"}
    /\ rRun \in Runs \cup {NoRun} /\ rSeen \subseteq Entries
    /\ rTodo \subseteq Runs /\ rFound \subseteq Runs /\ rSkipped \subseteq Runs
    /\ rBase \in Runs \cup {NoRun} /\ rBefore \subseteq Runs /\ reads \in 0..MaxReads

(* Every step keeps the types; that a run is published once is a fact about the
   store. *)
LEMMA TypeStep ==
    ASSUME TypeOK, StoreInv, ReadingRuns, [Next]_vars
    PROVE  TypeOK'
<1> USE ClockAssumption DEF TypeOK, StoreInv, Entered, Over, InProgress, Entries, ReaderOK,
                            Candidates, Fault, Unlinked, Keep, Errs,
        Put, Goto, Only, Add, Fill, Sync, store, names, root, reader, Reader, Stay
<1>1. ASSUME NEW r \in Runs, Run(r) PROVE TypeOK'
  <2>1. CASE Reserve(r)       BY <2>1 DEF Reserve
  <2>2. CASE Mark(r)          BY <2>2 DEF Mark
  <2>3. CASE OpenConfig(r)    BY <2>3 DEF OpenConfig
  <2>4. CASE WriteConfig(r)   BY <2>4 DEF WriteConfig
  <2>5. CASE CreateTemporary(r)  BY <2>5 DEF CreateTemporary
  <2>6. CASE WriteTemporary(r)  BY <2>6 DEF WriteTemporary
  <2>7. CASE Replace(r)       BY <2>7 DEF Replace
  <2>8. CASE SyncDirectory(r)  BY <2>8 DEF SyncDirectory, SyncedEntries
  <2>9. CASE WriteFails(r)
    <3>1. /\ at' = [at EXCEPT ![r] = "ended"] /\ faults' \in 0..MaxFaults
          /\ UNCHANGED <<second, written, now, writes, published, linking, removed, reader>>
      BY <2>9 DEF WriteFails, AfterError
    <3>2. Unlinked(r) \/ UNCHANGED store
      BY <2>9 DEF WriteFails
    <3>3. CASE Unlinked(r)
      BY <3>1, <3>3
    <3>4. CASE UNCHANGED store
      BY <3>1, <3>4
    <3> QED
      BY <3>2, <3>3, <3>4
  <2>10. CASE FailConfig(r)   BY <2>10 DEF FailConfig
  <2>11. CASE FailResult(r)   BY <2>11 DEF FailResult
  <2>12. CASE MakeLink(r)     BY <2>12 DEF MakeLink
  <2>13. CASE ReplaceLink(r)
    <3>1. published' = Append(published, r) /\ r \notin Range(published)
      BY <2>13 DEF ReplaceLink
    <3>2. published' \in Seq(Runs) /\ IsInjective(published')
      BY <3>1, AppendFacts
    <3> QED
      BY <2>13, <3>2 DEF ReplaceLink
  <2>14. CASE PublishFails(r)  BY <2>14 DEF PublishFails
  <2>15. CASE PublishLeavesLink(r)  BY <2>15 DEF PublishLeavesLink
  <2> QED
    BY <1>1, <2>1, <2>2, <2>3, <2>4, <2>5, <2>6, <2>7,
       <2>8, <2>9, <2>10, <2>11, <2>12, <2>13, <2>14, <2>15 DEF Run
<1>2. ASSUME NEW r \in Runs, Crash(r) PROVE TypeOK'
  BY <1>2 DEF Crash, InProgress, Fault
<1>3. ASSUME NEW r \in Runs, Discard(r) PROVE TypeOK'
  <2>1. PICK e \in files[r] :
          /\ files' = [files EXCEPT ![r] = files[r] \ {e}]
          /\ whole' = [whole EXCEPT ![r] = whole[r] \ {e}]
          /\ synced' = [synced EXCEPT ![r] = synced[r] \ {e}]
    BY <1>3 DEF Discard
  <2>2. /\ UNCHANGED <<at, second, written, now, writes, published, linking, reader>>
        /\ removed' = removed \cup {r} /\ faults' \in 0..MaxFaults
    BY <1>3 DEF Discard
  <2> QED
    BY <2>1, <2>2
<1>4. CASE PowerLoss
  <2>1. PICK n \in 0..Len(published) : published' = SubSeq(published, 1, n)
    BY <1>4 DEF PowerLoss
  <2>2. published' \in Seq(Runs) /\ IsInjective(published')
    BY <2>1, PrefixFacts
  <2> QED
    <3>1. /\ files' \in [Runs -> SUBSET Entries] /\ whole' \in [Runs -> SUBSET Entries]
          /\ synced' \in [Runs -> SUBSET Entries]
          /\ \A q \in Runs : whole'[q] \cup synced'[q] \subseteq files'[q]
      BY <1>4 DEF PowerLoss, Loses, Unsynced
    <3>2. /\ at' \in [Runs -> InProgress \cup {"idle", "ended", "crashed"}]
          /\ UNCHANGED <<second, written, now, writes, linking, removed, reads>>
          /\ faults' \in 0..MaxFaults
          /\ rAt' = "idle" /\ rRun' = NoRun /\ rSeen' = {} /\ rTodo' = {} /\ rFound' = {}
          /\ rSkipped' = {} /\ rBase' = NoRun /\ rBefore' = {}
      BY <1>4 DEF PowerLoss
    <3> QED
      BY <2>2, <3>1, <3>2
<1>5. CASE Read
  <2>1. Link \in Runs \cup {NoRun}
    BY LastFact DEF Link
  <2>2. UNCHANGED <<at, files, whole, synced, second, written, now, writes, published, linking,
                    removed>>
    BY <1>5, ReadOnly DEF store, names, root
  <2>0. faults' \in 0..MaxFaults
    <3>1. UNCHANGED faults \/ Fault
      BY <1>5 DEF Read, BeginRead, ResolveLink, ReadConfig, CheckResult, Distrust, DistrustInError,
                  Follow, ScanConfig, ScanResult, ScanSkips, ListFails, ScanEnds
    <3> QED
      BY <3>1
  <2>3. BeginRead => ReaderOK'
    BY <2>1 DEF BeginRead
  <2>4. ResolveLink \/ Distrust \/ DistrustInError => ReaderOK'
    BY DEF ResolveLink, Distrust, DistrustInError, Scan
  <2>5. ReadConfig => ReaderOK'
    <3> SUFFICES ASSUME ReadConfig PROVE ReaderOK'
      OBVIOUS
    <3>1. rRun \in Runs /\ files[rRun] \subseteq Entries
      BY DEF ReadConfig, ReadingRuns
    <3> QED
      BY <3>1 DEF ReadConfig
  <2>6. CheckResult => ReaderOK'
    BY DEF CheckResult
  <2>7. Follow => ReaderOK'
    BY <2>1 DEF Follow
  <2>8. ScanResult \/ ScanSkips \/ ListFails => ReaderOK'
    BY DEF ScanResult, ScanSkips, ListFails, ReadingRuns
  <2>9. ScanEnds => ReaderOK'
    <3>1. rFound # {} => Best(rFound) \in rFound
      BY BestFact
    <3> QED
      BY <3>1 DEF ScanEnds
  <2>10. ASSUME NEW r \in Runs, ScanConfig(r) PROVE ReaderOK'
    <3>1. files[r] \subseteq Entries
      OBVIOUS
    <3>2. CASE Readable(r)
      BY <2>10, <3>1, <3>2 DEF ScanConfig
    <3>3. CASE ~Readable(r)
      BY <2>10, <3>3 DEF ScanConfig
    <3> QED
      BY <3>2, <3>3
  <2>11. ReaderOK'
    BY <1>5, <2>3, <2>4, <2>5, <2>6, <2>7, <2>8, <2>9, <2>10 DEF Read
  <2> QED
    BY <2>0, <2>2, <2>11
<1>6. CASE UNCHANGED vars
  BY <1>6 DEF vars
<1> QED
  BY <1>1, <1>2, <1>3, <1>4, <1>5, <1>6 DEF Next

-----------------------------------------------------------------------------
(* What a reader may rely on while there is no power loss: a completed run stays
   complete until a user removes it, and keeps its result, its name and its place in
   the order; one that is over, or that was complete, does not become complete again; and the
   configuration is never rewritten. *)
Steady(q) ==
    /\ Complete(q) => Complete(q)' \/ q \in removed'
    /\ "result" \in files[q] \cap whole[q] =>
           "result" \in files'[q] \cap whole'[q] \/ q \in removed'
    /\ Complete(q) \/ at[q] \in {"ended", "crashed"} =>
           /\ Complete(q)' => Complete(q) /\ files'[q] = files[q]
           /\ second'[q] = second[q] /\ written'[q] = written[q]
    /\ at[q] \notin Early =>
           /\ at'[q] \notin Early
           /\ "config" \in files'[q] => "config" \in files[q]
           /\ "config" \in files'[q] /\ "config" \in whole[q] => "config" \in whole'[q]
    /\ q \in removed => q \in removed'

LEMMA StaysSteady ==
    ASSUME TypeOK, StoreInv, NEW q \in Runs, [Next]_vars, ~PowerLoss
    PROVE  Steady(q)
<1>0. Entered(q) /\ Filled(q) /\ (q \in removed => at[q] \in {"ended", "crashed"})
  BY DEF StoreInv, Over
<1> USE <1>0 DEF TypeOK, Entered, Filled, Steady, Complete, Entries, Early, Put, Goto, Only,
                 Add, Fill, Sync, store, names, root, reader, Reader, Stay, Fault, Unlinked
<1>1. ASSUME NEW r \in Runs, Run(r) PROVE Steady(q)
  <2>1. CASE Reserve(r)       BY <2>1 DEF Reserve
  <2>2. CASE Mark(r)          BY <2>2 DEF Mark
  <2>3. CASE OpenConfig(r)    BY <2>3 DEF OpenConfig
  <2>4. CASE WriteConfig(r)   BY <2>4 DEF WriteConfig
  <2>5. CASE CreateTemporary(r)  BY <2>5 DEF CreateTemporary
  <2>6. CASE WriteTemporary(r)  BY <2>6 DEF WriteTemporary
  <2>7. CASE Replace(r)       BY <2>7 DEF Replace
  <2>8. CASE SyncDirectory(r)  BY <2>8 DEF SyncDirectory, SyncedEntries
  <2>9. CASE WriteFails(r)
    <3>1. /\ at[r] \notin {"idle", "reserved", "ended", "crashed"}
          /\ at' = [at EXCEPT ![r] = "ended"] /\ UNCHANGED <<second, written, removed>>
      BY <2>9 DEF WriteFails, AfterError
    <3>2. Unlinked(r) \/ UNCHANGED store
      BY <2>9 DEF WriteFails
    <3>3. CASE Unlinked(r)
      <4>1. CASE r = q
        BY <3>1, <3>3, <4>1
      <4>2. CASE r # q
        BY <3>1, <3>3, <4>2
      <4> QED
        BY <4>1, <4>2
    <3>4. CASE UNCHANGED store
      BY <3>1, <3>4
    <3> QED
      BY <3>2, <3>3, <3>4
  <2>10. CASE FailConfig(r)   BY <2>10 DEF FailConfig
  <2>11. CASE FailResult(r)   BY <2>11 DEF FailResult
  <2>12. CASE MakeLink(r)     BY <2>12 DEF MakeLink
  <2>13. CASE ReplaceLink(r)  BY <2>13 DEF ReplaceLink
  <2>14. CASE PublishFails(r)  BY <2>14 DEF PublishFails
  <2>15. CASE PublishLeavesLink(r)  BY <2>15 DEF PublishLeavesLink
  <2> QED
    BY <1>1, <2>1, <2>2, <2>3, <2>4, <2>5, <2>6, <2>7,
       <2>8, <2>9, <2>10, <2>11, <2>12, <2>13, <2>14, <2>15 DEF Run
<1>2. ASSUME NEW r \in Runs, Crash(r) PROVE Steady(q)
  BY <1>2 DEF Crash, InProgress, Fault
<1>3. ASSUME NEW r \in Runs, Discard(r) PROVE Steady(q)
  <2>1. PICK e \in files[r] :
          /\ files' = [files EXCEPT ![r] = files[r] \ {e}]
          /\ whole' = [whole EXCEPT ![r] = whole[r] \ {e}]
    BY <1>3 DEF Discard
  <2>2. /\ UNCHANGED <<at, second, written>> /\ removed' = removed \cup {r}
        /\ at[r] \in {"ended", "crashed"}
    BY <1>3 DEF Discard
  <2>3. CASE q # r
    BY <2>1, <2>2, <2>3
  <2>4. CASE q = r
    <3>1. files'[q] = files[q] \ {e} /\ whole'[q] = whole[q] \ {e} /\ e \in files[q]
      BY <2>1, <2>4
    <3>2. Complete(q) => files[q] = {"dir", "marker", "config", "result"}
      OBVIOUS
    <3>3. ~Complete(q)'
      BY <3>1, <3>2
    <3> QED
      BY <3>1, <3>3, <2>2, <2>4
  <2> QED
    BY <2>3, <2>4
<1>5. CASE Read
  BY <1>5, ReadOnly
<1>6. CASE UNCHANGED vars
  BY <1>6 DEF vars
<1> QED
  BY <1>1, <1>2, <1>3, <1>5, <1>6 DEF Next

(* The link moves only to the run that publishes itself, which is complete. *)
LEMMA Publication ==
    ASSUME TypeOK, StoreInv, [Next]_vars, ~PowerLoss
    PROVE  \/ published' = published
           \/ \E r \in Runs : /\ published' = Append(published, r)
                             /\ r \notin Range(published) /\ Complete(r)'
<1> USE DEF Put, Goto, Only, Add, Fill, Sync, store, names, root, reader, Reader, Stay, Fault, Unlinked
<1>1. ASSUME NEW r \in Runs, Run(r), ~ReplaceLink(r) PROVE published' = published
  BY <1>1 DEF Run, Reserve, Mark, OpenConfig, WriteConfig, CreateTemporary, WriteTemporary,
     Replace, SyncDirectory, WriteFails, FailConfig, FailResult, MakeLink, PublishFails,
     PublishLeavesLink
<1>2. ASSUME NEW r \in Runs, ReplaceLink(r)
      PROVE  /\ published' = Append(published, r)
             /\ r \notin Range(published) /\ Complete(r)'
  <2>1. published' = Append(published, r) /\ at[r] = "linked" /\ UNCHANGED <<files, whole>>
    BY <1>2 DEF ReplaceLink
  <2>2. r \notin Range(published) /\ files[r] = {"dir", "marker", "config", "result"}
        /\ {"config", "result"} \subseteq whole[r]
    BY <2>1 DEF StoreInv, Entered, Filled, Over
  <2> QED
    BY <2>1, <2>2 DEF Complete, Entries
<1>3. ASSUME NEW r \in Runs, Crash(r) \/ Discard(r) PROVE published' = published
  BY <1>3 DEF Crash, Discard
<1>4. Read \/ UNCHANGED vars => published' = published
  BY ReadOnly DEF vars
<1> QED
  BY <1>1, <1>2, <1>3, <1>4 DEF Next

(* The place of a published run in the order of publication. *)
LEMMA Placed ==
    ASSUME TypeOK, NEW r \in Range(published)
    PROVE  Position(r) \in 1..Len(published) /\ published[Position(r)] = r
<1>1. DOMAIN published = 1..Len(published)
  BY DEF TypeOK
<1>2. \E i \in DOMAIN published : published[i] = r
  BY DEF Range
<1> QED
  BY <1>1, <1>2 DEF Position

LEMMA PlacesStay ==
    ASSUME TypeOK, NEW e \in Runs, published' = Append(published, e), e \notin Range(published),
           NEW r \in Range(published)
    PROVE  Position(r)' = Position(r) /\ Position(e)' > Position(r)
<1> DEFINE n == Len(published)
<1>1. /\ n \in Nat /\ DOMAIN published = 1..n /\ DOMAIN published' = 1..(n + 1)
      /\ \A i \in 1..n : published'[i] = published[i]
      /\ published'[n + 1] = e
  BY DEF TypeOK
<1>2. Position(r) \in 1..n /\ published[Position(r)] = r
  BY Placed
<1>3. \A i \in 1..n : published[i] # e
  BY <1>1 DEF Range
<1>4. \A i \in 1..(n + 1) : published'[i] = r => i = Position(r)
  <2>1. r # e /\ \A i \in 1..(n + 1) : i \in 1..n \/ i = n + 1
    BY <1>1
  <2>2. \A i, j \in 1..n : published[i] = published[j] => i = j
    BY <1>1 DEF TypeOK, IsInjective
  <2> QED
    BY <2>1, <2>2, <1>1, <1>2
<1>5. Position(r)' \in 1..(n + 1) /\ published'[Position(r)'] = r
  <2>1. \E i \in DOMAIN published' : published'[i] = r
    BY <1>1, <1>2
  <2> QED
    BY <2>1, <1>1 DEF Position
<1>6. Position(e)' \in 1..(n + 1) /\ published'[Position(e)'] = e
  <2>1. \E i \in DOMAIN published' : published'[i] = e
    BY <1>1
  <2> QED
    BY <2>1, <1>1 DEF Position
<1>7. Position(e)' = n + 1
  BY <1>1, <1>3, <1>6
<1> QED
  BY <1>1, <1>2, <1>4, <1>5, <1>7

-----------------------------------------------------------------------------
(* The steps, by who takes them. *)
LEMMA ByWhom == [Next]_vars => PowerLoss \/ Read \/ UNCHANGED reader
<1>1. ASSUME NEW r \in Runs, Run(r) PROVE UNCHANGED reader
  BY <1>1 DEF Run, Reserve, Mark, OpenConfig, WriteConfig, CreateTemporary, WriteTemporary, Replace,
     SyncDirectory, WriteFails, FailConfig, FailResult, MakeLink, ReplaceLink, PublishFails,
     PublishLeavesLink, Only, reader
<1> QED
  BY <1>1 DEF Next, Crash, Discard, reader, vars

(* What the link names, when it names anything. *)
LEMMA LinkFact ==
    ASSUME TypeOK
    PROVE  /\ published = <<>> => Link = NoRun
           /\ published # <<>> => Link \in Range(published) /\ Link \in Runs
BY LastFact DEF Link, TypeOK

(* A run that was complete is complete unless a user removes it. *)
Known(r) == r \in removed \/ Complete(r)

(* The reader: it has seen the configuration of the run it checks; the run that
   `latest` names is complete whenever it is about to trust the link; and so are
   those it has accepted. *)
ReaderInv ==
    /\ rBase # NoRun => rBase \in Range(published)
    /\ rAt \in {"resolving", "examining", "checking", "returned"} => rBase # NoRun /\ rFound = {}
    /\ rAt \in {"checking", "confirming"} =>
           /\ {"marker", "config"} \subseteq rSeen /\ at[rRun] \notin Early
           /\ "config" \in files[rRun] => "config" \in whole[rRun]
    /\ rAt \in {"examining", "checking"} => rRun = Link \/ Known(Link)
    /\ rAt = "returned" => Known(Link)
    /\ \A r \in rFound : Known(r)
    /\ rAt = "answered" /\ rRun # NoRun => Known(rRun)

LEMMA ReaderStep ==
    ASSUME TypeOK, TypeOK', StoreInv, ReadingRuns, ReaderInv, [Next]_vars
    PROVE  ReadingRuns' /\ ReaderInv'
<1> USE DEF ReadingRuns, ReaderInv
<1>1. CASE PowerLoss
  BY <1>1 DEF PowerLoss
<1>2. CASE Read
  <2>1. UNCHANGED <<at, files, whole, published, removed>>
    BY <1>2, ReadOnly DEF store, root
  <2>2. Link' = Link /\ \A r : Known(r)' = Known(r)
    BY <2>1 DEF Link, Known, Complete
  <2>3. BeginRead => ReadingRuns' /\ ReaderInv'
    BY <2>1, <2>2, LinkFact DEF BeginRead, TypeOK
  <2>4. ResolveLink => ReadingRuns' /\ ReaderInv'
    BY <2>1, <2>2 DEF ResolveLink, Scan, Reader, Stay, Keep
  <2>5. ReadConfig => ReadingRuns' /\ ReaderInv'
    <3> SUFFICES ASSUME ReadConfig PROVE ReadingRuns' /\ ReaderInv'
      OBVIOUS
    <3>1. rRun \in Runs /\ at[rRun] \notin Early
      BY DEF ReadConfig, Readable, StoreInv, Entered, Early
    <3> QED
      BY <3>1, <2>1, <2>2 DEF ReadConfig, Readable, Stay, Keep
  <2>6. CheckResult => ReadingRuns' /\ ReaderInv'
    <3> SUFFICES ASSUME CheckResult PROVE ReadingRuns' /\ ReaderInv'
      OBVIOUS
    <3>1. Known(rRun)
      BY DEF CheckResult, Accepted, Known, Complete, Entries, StoreInv, Entered
    <3> QED
      BY <3>1, <2>1, <2>2 DEF CheckResult, Stay, Keep
  <2>7. Distrust \/ DistrustInError => ReadingRuns' /\ ReaderInv'
    BY <2>1, <2>2 DEF Distrust, DistrustInError, Scan, Stay, Keep, Errs
  <2>8. Follow => ReadingRuns' /\ ReaderInv'
    BY <2>1, <2>2 DEF Follow, Reader, Stay, Keep
  <2>9. ASSUME NEW r \in Runs, ScanConfig(r) PROVE ReadingRuns' /\ ReaderInv'
    <3>1. CASE Readable(r)
      <4>1. at[r] \notin Early
        BY <3>1 DEF Readable, StoreInv, Entered, Early
      <4> QED
        BY <4>1, <3>1, <2>9, <2>1, <2>2 DEF ScanConfig, Readable, Stay, Keep
    <3>2. CASE ~Readable(r)
      BY <3>2, <2>9, <2>1, <2>2 DEF ScanConfig, Stay, Keep
    <3> QED
      BY <3>1, <3>2
  <2>10. ScanResult => ReadingRuns' /\ ReaderInv'
    <3> SUFFICES ASSUME ScanResult PROVE ReadingRuns' /\ ReaderInv'
      OBVIOUS
    <3>1. Accepted(rRun) => Known(rRun)
      BY DEF ScanResult, Reader, Accepted, Known, Complete, Entries, StoreInv, Entered
    <3> QED
      BY <3>1, <2>1, <2>2 DEF ScanResult, Reader, Stay, Keep
  <2>11. ScanEnds => ReadingRuns' /\ ReaderInv'
    <3>1. rFound # {} => Best(rFound) \in rFound
      BY BestFact DEF TypeOK
    <3> QED
      BY <3>1, <2>1, <2>2 DEF ScanEnds, Reader, Stay, Keep
  <2>12. ScanSkips \/ ListFails => ReadingRuns' /\ ReaderInv'
    BY <2>1, <2>2 DEF ScanSkips, ListFails, Reader, Stay, Errs
  <2> QED
    BY <1>2, <2>3, <2>4, <2>5, <2>6, <2>7, <2>8, <2>9, <2>10, <2>11, <2>12 DEF Read
<1>3. CASE ~PowerLoss /\ UNCHANGED reader
  <2>1. \A r \in Runs : Steady(r)
    BY <1>3, StaysSteady
  <2>2. \A r \in Runs : Known(r) => Known(r)'
    BY <2>1 DEF Known, Steady
  <2>3. /\ Range(published) \subseteq Range(published')
        /\ Link' = Link \/ Known(Link)'
    <3>1. CASE published' = published
      BY <3>1 DEF Link
    <3>2. ASSUME NEW r \in Runs, published' = Append(published, r), r \notin Range(published),
                 Complete(r)'
          PROVE  Range(published) \subseteq Range(published') /\ Link' = r
      <4>1. published \in Seq(Runs) /\ IsInjective(published)
        BY DEF TypeOK
      <4>2. /\ Range(published') = Range(published) \cup {r}
            /\ published' # <<>> /\ Last(published') = r
        BY <4>1, <3>2, AppendFacts
      <4> QED
        BY <4>2 DEF Link
    <3> QED
      BY <3>1, <3>2, <1>3, Publication DEF Known
  <2>4. rAt \in {"examining", "checking", "returned"} => Link \in Runs
    <3>1. Range(<<>>) = {}
      BY DEF Range
    <3> QED
      BY <3>1, LinkFact
  <2> QED
    BY <1>3, <2>1, <2>2, <2>3, <2>4 DEF reader, Steady, TypeOK
<1> QED
  BY <1>1, <1>2, <1>3, ByWhom

-----------------------------------------------------------------------------
(* The scan of a reader: the runs that were complete when it began, and still are,
   are among those it has accepted, has yet to examine or has skipped in an error; its
   answer is the newest of those it accepted. *)
Pending(r) ==
    \/ r \in rTodo \cup rFound
    \/ rAt = "confirming" /\ r = rRun /\ rSeen = files[r]

ScanInv ==
    /\ \A r \in rBefore : Known(r)
    /\ rAt \in {"scanning", "confirming"} => \A r \in rBefore \ rSkipped : Complete(r) => Pending(r)
    /\ rAt = "answered" /\ rFound # {} =>
           /\ rRun \in rFound
           /\ \A r \in rBefore \ rSkipped : Complete(r) => NewerName(rRun, r)

LEMMA ScanStep ==
    ASSUME TypeOK, StoreInv, ReadingRuns, ReaderInv, ScanInv, [Next]_vars
    PROVE  ScanInv'
<1> USE DEF ScanInv, Pending
<1>1. CASE PowerLoss
  BY <1>1 DEF PowerLoss
<1>2. CASE Read
  <2>1. UNCHANGED <<at, files, whole, second, written, published, removed>>
    BY <1>2, ReadOnly DEF store, root, names
  <2>2. \A r, q : /\ Known(r)' = Known(r) /\ Complete(r)' = Complete(r)
                  /\ NewerName(r, q)' = NewerName(r, q)
    BY <2>1 DEF Known, Complete, NewerName
  <2>3. \A r \in Runs : Complete(r) => "dir" \in files[r] /\ Readable(r)
                                      /\ "result" \in files[r] \cap whole[r]
    BY DEF Complete, Entries, Readable
  <2> USE DEF TypeOK
  <2>4. BeginRead => ScanInv'
    BY <2>1, <2>2, <2>3 DEF BeginRead, Candidates, Known
  <2>5. ResolveLink => ScanInv'
    BY <2>1, <2>2, <2>3 DEF ResolveLink, Scan, Candidates, Reader, Stay, Keep
  <2>6. ReadConfig \/ CheckResult => ScanInv'
    BY <2>1, <2>2 DEF ReadConfig, CheckResult, Stay, Keep
  <2>7. Distrust \/ DistrustInError => ScanInv'
    BY <2>1, <2>2, <2>3 DEF Distrust, DistrustInError, Scan, Candidates, Stay, Keep, Errs
  <2>8. Follow => ScanInv'
    BY <2>1, <2>2 DEF Follow, Reader, Stay, Keep, ReaderInv
  <2>9. ASSUME NEW r \in Runs, ScanConfig(r) PROVE ScanInv'
    <3>1. CASE Readable(r)
      BY <3>1, <2>9, <2>1, <2>2 DEF ScanConfig, Stay, Keep
    <3>2. CASE ~Readable(r)
      BY <3>2, <2>9, <2>1, <2>2, <2>3 DEF ScanConfig, Stay, Keep
    <3> QED
      BY <3>1, <3>2
  <2>10. ScanResult => ScanInv'
    BY <2>1, <2>2, <2>3 DEF ScanResult, Accepted, Reader, Stay, Keep
  <2>11. ScanEnds => ScanInv'
    <3>1. rFound # {} => Best(rFound) \in rFound /\ \A q \in rFound : NewerName(Best(rFound), q)
      BY BestFact
    <3> QED
      BY <3>1, <2>1, <2>2 DEF ScanEnds, Reader, Stay, Keep
  <2>12. ScanSkips \/ ListFails => ScanInv'
    BY <2>1, <2>2 DEF ScanSkips, ListFails, Reader, Stay, Errs
  <2> QED
    BY <1>2, <2>4, <2>5, <2>6, <2>7, <2>8, <2>9, <2>10, <2>11, <2>12 DEF Read
<1>3. CASE ~PowerLoss /\ UNCHANGED reader
  <2>1. \A r \in Runs : Steady(r)
    BY <1>3, StaysSteady
  <2>2. rBefore \subseteq Runs /\ rFound \subseteq Runs
    BY DEF TypeOK
  <2>3. \A r \in rBefore \cup rFound :
          /\ Known(r) => /\ Known(r)' /\ second'[r] = second[r] /\ written'[r] = written[r]
          /\ Known(r) /\ Complete(r)' => Complete(r) /\ files'[r] = files[r]
    BY <2>1, <2>2 DEF Known, Steady, StoreInv, Over
  <2>4. \A r \in rBefore : Known(r)' /\ (Complete(r)' => Complete(r) /\ files'[r] = files[r])
    BY <2>3
  <2>5. ASSUME rAt = "answered", rFound # {}, NEW r \in rBefore \ rSkipped, Complete(r)
        PROVE  NewerName(rRun, r)'
    <3>1. /\ second'[r] = second[r] /\ written'[r] = written[r]
          /\ second'[rRun] = second[rRun] /\ written'[rRun] = written[rRun]
      BY <2>3, <2>5 DEF ReaderInv
    <3> QED
      BY <3>1, <2>5, <1>3 DEF NewerName, reader
  <2> QED
    BY <1>3, <2>4, <2>5 DEF reader
<1> QED
  BY <1>1, <1>2, <1>3, ByWhom

(* What had been published when the reader began, and is complete, was complete
   then; and a reader that followed the link got it, or what was published after. *)
BaseInv ==
    /\ rBase # NoRun /\ Complete(rBase) => rBase \in rBefore
    /\ rAt = "answered" /\ rFound = {} /\ rBase # NoRun /\ rBase \notin rSkipped /\ Complete(rBase) =>
           \/ rRun = rBase \/ PublishedAfter(rRun, rBase)
           \/ rRun = NoRun /\ \E r \in removed : PublishedAfter(r, rBase)

(* The link names the last of the published runs. *)
LEMMA LinkIsLast ==
    ASSUME TypeOK, NEW r \in Range(published)
    PROVE  Link \in Range(published) /\ (r = Link \/ PublishedAfter(Link, r))
<1>1. /\ Len(published) \in Nat /\ DOMAIN published = 1..Len(published)
      /\ published # <<>> /\ Range(<<>>) = {}
  BY DEF TypeOK, Range
<1>2. Link \in Range(published) /\ Link = published[Len(published)]
  BY <1>1, LinkFact DEF Link, Last
<1>3. /\ Position(r) \in 1..Len(published) /\ published[Position(r)] = r
      /\ Position(Link) \in 1..Len(published) /\ published[Position(Link)] = Link
  BY <1>2, Placed
<1>4. Position(Link) = Len(published)
  <2>1. \A i, j \in 1..Len(published) : published[i] = published[j] => i = j
    BY <1>1 DEF TypeOK, IsInjective
  <2> QED
    BY <1>2, <1>3, <2>1
<1>5. Position(r) = Position(Link) => r = Link
  BY <1>3
<1> QED
  BY <1>1, <1>2, <1>3, <1>4, <1>5 DEF PublishedAfter

LEMMA BaseStep ==
    ASSUME TypeOK, StoreInv, ReaderInv, ScanInv, BaseInv, [Next]_vars
    PROVE  BaseInv'
<1> USE DEF BaseInv
<1>1. CASE PowerLoss
  BY <1>1 DEF PowerLoss
<1>2. CASE Read
  <2>1. UNCHANGED <<files, whole, published, removed>>
    BY <1>2, ReadOnly DEF store, root
  <2>2. \A r, q : /\ Complete(r)' = Complete(r)
                  /\ PublishedAfter(r, q)' = PublishedAfter(r, q)
    BY <2>1 DEF Complete, PublishedAfter, Position
  <2>3. BeginRead => BaseInv'
    BY <2>1, <2>2, LinkFact DEF BeginRead, Complete
  <2>4. \/ ResolveLink \/ ReadConfig \/ CheckResult \/ Distrust \/ DistrustInError
        \/ ScanResult \/ ScanSkips
        => BaseInv'
    BY <2>1, <2>2
      DEF ResolveLink, ReadConfig, CheckResult, Distrust, DistrustInError, ScanResult, ScanSkips,
          Reader, Stay, Keep, Errs
  <2>5. ASSUME NEW r \in Runs, ScanConfig(r) PROVE BaseInv'
    BY <2>5, <2>1, <2>2 DEF ScanConfig, Stay, Keep
  <2>6. Follow => BaseInv'
    <3> SUFFICES ASSUME Follow, Complete(rBase), rBase # NoRun
                 PROVE  \/ rRun' = rBase \/ PublishedAfter(rRun', rBase)
                        \/ rRun' = NoRun /\ \E r \in removed : PublishedAfter(r, rBase)
      BY <2>1, <2>2 DEF Follow, Reader, Stay, Keep
    <3>1. Link \in Range(published) /\ (rBase = Link \/ PublishedAfter(Link, rBase))
      BY LinkIsLast DEF ReaderInv
    <3>2. Link \in Runs
      BY <3>1 DEF TypeOK, Range
    <3>3. CASE "dir" \in files[Link]
      BY <3>1, <3>3, NoRunAssumption, <3>2 DEF Follow
    <3>4. CASE "dir" \notin files[Link]
      <4>1. Link \in removed
        BY <3>4 DEF ReaderInv, Follow, Reader, Known, Complete, Entries
      <4>2. Link # rBase
        BY <3>4 DEF Complete, Entries
      <4> QED
        BY <3>1, <3>4, <4>1, <4>2 DEF Follow
    <3> QED
      BY <3>3, <3>4
  <2>7. ScanEnds => BaseInv'
    BY <2>1, <2>2 DEF ScanEnds, Reader, Stay, Keep, ScanInv, Pending
  <2>8. ListFails => BaseInv'
    BY <2>1, <2>2 DEF ListFails, Reader, Stay, Errs, TypeOK
  <2> QED
    BY <1>2, <2>3, <2>4, <2>5, <2>6, <2>7, <2>8 DEF Read
<1>3. CASE ~PowerLoss /\ UNCHANGED reader
  <2>1. ASSUME rBase # NoRun, Complete(rBase)' PROVE Complete(rBase)
    <3>1. rBase \in Runs /\ at[rBase] \in {"ended", "crashed"}
      BY <2>1 DEF ReaderInv, StoreInv, Over, TypeOK
    <3> QED
      BY <3>1, <2>1, <1>3, StaysSteady DEF Steady, reader, Complete
  <2>2. removed \subseteq removed'
    BY <1>3, StaysSteady DEF Steady, TypeOK
  <2>3. ASSUME NEW r, rBase # NoRun, PublishedAfter(r, rBase) PROVE PublishedAfter(r, rBase)'
    <3>1. r \in Range(published) /\ rBase \in Range(published)
      BY <2>3 DEF PublishedAfter, ReaderInv
    <3>2. CASE published' = published
      BY <3>2, <2>3, <1>3 DEF PublishedAfter, Position, reader
    <3>3. ASSUME NEW e \in Runs, published' = Append(published, e), e \notin Range(published)
          PROVE  PublishedAfter(r, rBase)'
      <4>1. Position(r)' = Position(r) /\ Position(rBase)' = Position(rBase)
        BY <3>1, <3>3, <1>3, PlacesStay DEF reader
      <4>2. r \in Range(published')
        BY <3>1, <3>3, AppendFacts DEF TypeOK
      <4> QED
        BY <4>1, <4>2, <2>3, <1>3 DEF PublishedAfter, reader
    <3> QED
      BY <3>2, <3>3, <1>3, Publication
  <2> QED
    BY <1>3, <2>1, <2>2, <2>3 DEF reader
<1> QED
  BY <1>1, <1>2, <1>3, ByWhom

-----------------------------------------------------------------------------
(* The inductive invariant. *)
IInv == TypeOK /\ StoreInv /\ ReadingRuns /\ ReaderInv /\ ScanInv /\ BaseInv

LEMMA Invariant == Spec => []IInv
<1>1. Init => IInv
  <2>1. Init => Range(published) = {}
    BY DEF Init, Range
  <2>2. Init => StoreInv
    BY <2>1 DEF Init, None, StoreInv, Entered, Filled, Over
  <2>3. Init => ReadingRuns /\ ReaderInv /\ ScanInv /\ BaseInv
    BY DEF Init, ReadingRuns, ReaderInv, ScanInv, BaseInv
  <2> QED
    BY <2>2, <2>3, TypeInit DEF IInv
<1>2. IInv /\ [Next]_vars => IInv'
  BY StoreStep, TypeStep, ReaderStep, ScanStep, BaseStep DEF IInv
<1> QED
  BY <1>1, <1>2, PTL DEF Spec

(* The state has its type; no run is published twice. *)
THEOREM TypeCorrect == Spec => []TypeOK
<1>1. IInv => TypeOK
  BY DEF IInv
<1> QED
  BY <1>1, Invariant, PTL

(* A reader is given a completed run, or one a user removes. *)
THEOREM AnswersCorrect == Spec => []AnswerIsComplete
<1>1. IInv => AnswerIsComplete
  BY DEF IInv, ReaderInv, Known, AnswerIsComplete
<1> QED
  BY <1>1, Invariant, PTL

(* A reader does not go back behind what was published when it began, unless an error
   makes it skip that run. *)
THEOREM ReadsCorrect == Spec => []ReadsArePublished
<1>1. IInv => ReadsArePublished
  <2> SUFFICES ASSUME IInv, rAt = "answered", rBase # NoRun, rBase \notin rSkipped, Complete(rBase)
               PROVE  \/ rRun = rBase \/ PublishedAfter(rRun, rBase)
                      \/ rRun = NoRun /\ \E r \in removed : PublishedAfter(r, rBase)
                      \/ rRun # NoRun /\ NewerName(rRun, rBase)
    BY DEF ReadsArePublished
  <2>1. CASE rFound = {}
    BY <2>1 DEF IInv, BaseInv
  <2>2. CASE rFound # {}
    BY <2>2, NoRunAssumption DEF IInv, BaseInv, ScanInv, TypeOK
  <2> QED
    BY <2>1, <2>2
<1> QED
  BY <1>1, Invariant, PTL

(* A scan answers with the newest of the runs that were complete throughout it and that
   it could read. *)
THEOREM ScanCorrect == Spec => []ScanIsNewest
<1>1. IInv => ScanIsNewest
  BY DEF IInv, ScanInv, ScanIsNewest
<1> QED
  BY <1>1, Invariant, PTL

(* What `latest` has named keeps its result for as long as it keeps its directory. *)
THEOREM LinkedCorrect == Spec => []LinkedIsFinal
<1>1. IInv => LinkedIsFinal
  <2> SUFFICES ASSUME IInv, NEW r \in Range(published) \ removed
               PROVE  files[r] = {} \/ "result" \in files[r] \cap whole[r]
    BY DEF LinkedIsFinal
  <2>1. r \in Runs
    BY DEF IInv, TypeOK, Range
  <2> QED
    BY <2>1 DEF IInv, StoreInv, Over, TypeOK
<1> QED
  BY <1>1, Invariant, PTL

(* A result outlives every crash, and every power loss that leaves its directory, once
   its run publishes itself: the entry was synced before, and nothing takes an entry
   that is synced but its user. *)
THEOREM DurableCorrect == Spec => ResultsAreDurable
<1> DEFINE Kept ==
      \A r \in Runs \ removed' :
          /\ at[r] \in {"publishing", "linked"} \/ r \in Range(published)
          /\ "result" \in files[r] \cap whole[r]
          => files'[r] = {} \/ "result" \in files'[r] \cap whole'[r]
<1>1. IInv /\ [Next]_vars => [Kept]_vars
  <2> SUFFICES ASSUME IInv, [Next]_vars, NEW r \in Runs, r \notin removed',
                      at[r] \in {"publishing", "linked"} \/ r \in Range(published),
                      "result" \in files[r] \cap whole[r]
               PROVE  files'[r] = {} \/ "result" \in files'[r] \cap whole'[r]
    BY DEF IInv
  <2>1. CASE PowerLoss
    <3>1. r \notin removed
      BY <2>1 DEF PowerLoss
    <3>2. "result" \in synced[r]
      BY <3>1 DEF IInv, StoreInv, Filled, Over
    <3>3. PICK lost \in SUBSET Unsynced("dir"), torn \in SUBSET Unsynced("config"),
               gone \in SUBSET Unsynced("result") :
            Loses(lost, torn, gone)
      BY <2>1 DEF PowerLoss
    <3>4. r \notin gone /\ files[r] \subseteq Entries
      BY <3>2 DEF Unsynced, IInv, TypeOK
    <3>5. CASE r \in lost
      BY <3>3, <3>4, <3>5 DEF Loses
    <3>6. CASE r \notin lost
      BY <3>3, <3>4, <3>6 DEF Loses
    <3> QED
      BY <3>5, <3>6
  <2>2. CASE ~PowerLoss
    <3>1. Steady(r)
      BY <2>2, StaysSteady DEF IInv
    <3> QED
      BY <3>1 DEF Steady
  <2> QED
    BY <2>1, <2>2
<1> QED
  BY <1>1, Invariant, PTL DEF Spec, ResultsAreDurable
=============================================================================
