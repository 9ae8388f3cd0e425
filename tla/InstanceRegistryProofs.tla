---------------------- MODULE InstanceRegistryProofs ----------------------
(***************************************************************************)
(* Theorems about InstanceRegistry for every set of runs, readers,         *)
(* namespaces and names: its type invariant, the safety invariants its     *)
(* model-checking run checks, and that it implements NameClaims.           *)
(***************************************************************************)
EXTENDS InstanceRegistry, TLAPS

\* The directory a run works in is one of the paths.
LEMMA PathType == \A p \in Process : TypeOK => at[p] \in Path /\ at[p][1] \in Namespace
  BY DEF TypeOK, Path

\* The entries that readers see in the directories are records.
LEMMA RecordsInType == ASSUME NEW f PROVE RecordsIn(f) \subseteq Record
  BY DEF RecordsIn

\* What List accumulates has its type after a change of the directories.
LEMMA WatchType ==
  ASSUME TypeOK, NEW f, Watch(f)
  PROVE  scan' \in [Reader -> Scan]
<1>1. RecordsIn(f) \in SUBSET Record
  BY RecordsInType
<1>2. \A r \in Reader : scan[r] \in Scan
  BY DEF TypeOK
<1>3. \A r \in Reader :
        [scan[r] EXCEPT !.ever = @ \cup RecordsIn(f),
                        !.due = @ \cap RecordsIn(f)] \in Scan
  BY <1>1, <1>2 DEF Scan
<1> QED
  BY <1>2, <1>3 DEF Watch

\* The type invariant.
THEOREM TypeCorrect == Spec => []TypeOK
<1>1. Init => TypeOK
  BY DEF Init, TypeOK, Stage, Ended, Content, NoScan, Scan
<1>2. TypeOK /\ [Next]_vars => TypeOK'
  <2> SUFFICES ASSUME TypeOK, [Next]_vars
               PROVE  TypeOK'
    OBVIOUS
  <2> USE DEF Stage, Ended, Content, Goto
  <2>1. ASSUME NEW p \in Process, TakeGeneratedName(p) PROVE TypeOK'
    BY <2>1 DEF TypeOK, TakeGeneratedName
  <2>2. ASSUME NEW p \in Process, TakeGivenName(p) PROVE TypeOK'
    BY <2>2 DEF TypeOK, TakeGivenName
  <2>3. ASSUME NEW p \in Process, MakeDirectory(p) PROVE TypeOK'
    BY <2>3, PathType DEF TypeOK, MakeDirectory
  <2>4. ASSUME NEW p \in Process, StageTemp(p) PROVE TypeOK'
    BY <2>4 DEF TypeOK, StageTemp
  <2>5. ASSUME NEW p \in Process, WriteTemp(p) PROVE TypeOK'
    BY <2>5 DEF TypeOK, WriteTemp
  <2>6. ASSUME NEW p \in Process, CreateFails(p) PROVE TypeOK'
    BY <2>6 DEF TypeOK, CreateFails, RemoveTemp
  <2>7. ASSUME NEW p \in Process, LinkRecord(p) PROVE TypeOK'
    BY <2>7, WatchType DEF TypeOK, LinkRecord
  <2>8. ASSUME NEW p \in Process, ReportDuplicate(p) PROVE TypeOK'
    BY <2>8 DEF TypeOK, ReportDuplicate, RemoveTemp
  <2>9. ASSUME NEW p \in Process, DropTempName(p) PROVE TypeOK'
    BY <2>9 DEF TypeOK, DropTempName, RemoveTemp
  <2>10. ASSUME NEW p \in Process, Unregister(p) PROVE TypeOK'
    BY <2>10, WatchType DEF TypeOK, Unregister
  <2>11. ASSUME NEW p \in Process, UnregisterFails(p) PROVE TypeOK'
    BY <2>11 DEF TypeOK, UnregisterFails
  <2>12. ASSUME NEW p \in Process, Kill(p) PROVE TypeOK'
    BY <2>12 DEF TypeOK, Kill
  <2>13. ASSUME NEW k \in Path, OperatorCleans(k) PROVE TypeOK'
    BY <2>13, WatchType DEF TypeOK, OperatorCleans
  <2>14. ASSUME NEW r \in Reader, List(r) PROVE TypeOK'
    <3>1. scan' \in [Reader -> Scan]
      <4> SUFFICES ASSUME NEW s \in Scan, scan' = [scan EXCEPT ![r] = s]
                   PROVE  scan' \in [Reader -> Scan]
        <5>1. scan[r] \in Scan
          BY DEF TypeOK
        <5>2. CASE BeginList(r)
          BY <5>2, RecordsInType DEF BeginList, TypeOK, NoScan, Scan
        <5>3. CASE BeginListFails(r)
          <6>1. [scan[r] EXCEPT !.state = "failed"] \in Scan
            BY <5>1 DEF Scan
          <6> QED
            BY <5>3, <6>1 DEF BeginListFails, TypeOK
        <5>4. CASE ReadNamespace(r)
          <6>1. PICK ns \in scan[r].todo :
                  scan' = [scan EXCEPT ![r].todo = @ \ {ns},
                             ![r].entries = {k \in Path : k[1] = ns /\ file[k] # NoFile}]
            BY <5>4 DEF ReadNamespace
          <6>2. [scan[r] EXCEPT !.todo = @ \ {ns},
                   !.entries = {k \in Path : k[1] = ns /\ file[k] # NoFile}] \in Scan
            BY <5>1 DEF Scan
          <6> QED
            BY <6>1, <6>2 DEF TypeOK
        <5>5. CASE SkipNamespace(r)
          <6>1. PICK ns \in scan[r].todo :
                  scan' = [scan EXCEPT ![r].todo = @ \ {ns},
                             ![r].due = {rec \in @ : rec[1][1] # ns}]
            BY <5>5 DEF SkipNamespace
          <6>2. [scan[r] EXCEPT !.todo = @ \ {ns},
                   !.due = {rec \in @ : rec[1][1] # ns}] \in Scan
            BY <5>1 DEF Scan
          <6> QED
            BY <6>1, <6>2 DEF TypeOK
        <5>6. CASE LoadEntry(r)
          <6>1. PICK k \in scan[r].entries :
                  scan' = [scan EXCEPT ![r].entries = @ \ {k},
                             ![r].got = IF Readable(k) THEN @ \cup {<<k, file[k]>>} ELSE @]
            BY <5>6 DEF LoadEntry
          <6>2. Readable(k) => <<k, file[k]>> \in Record
            BY <5>1 DEF Readable, TypeOK, Scan, Record
          <6>3. [scan[r] EXCEPT !.entries = @ \ {k},
                   !.got = IF Readable(k) THEN @ \cup {<<k, file[k]>>} ELSE @] \in Scan
            BY <5>1, <6>2 DEF Scan
          <6> QED
            BY <6>1, <6>3 DEF TypeOK
        <5>7. CASE SkipEntry(r)
          <6>1. PICK k \in scan[r].entries :
                  scan' = [scan EXCEPT ![r].entries = @ \ {k},
                             ![r].due = {rec \in @ : rec[1] # k}]
            BY <5>7 DEF SkipEntry
          <6>2. [scan[r] EXCEPT !.entries = @ \ {k},
                   !.due = {rec \in @ : rec[1] # k}] \in Scan
            BY <5>1 DEF Scan
          <6> QED
            BY <6>1, <6>2 DEF TypeOK
        <5>8. CASE EndList(r)
          BY <5>8 DEF EndList, NoScan, Scan, TypeOK
        <5> QED
          BY <2>14, <5>2, <5>3, <5>4, <5>5, <5>6, <5>7, <5>8 DEF List
      <4> QED
        BY DEF TypeOK
    <3>2. UNCHANGED execVars
      BY <2>14 DEF List, BeginList, BeginListFails, ReadNamespace,
     SkipNamespace, LoadEntry, SkipEntry, EndList
    <3> QED
      BY <3>1, <3>2 DEF TypeOK, execVars
  <2>15. CASE UNCHANGED vars
    BY <2>15 DEF TypeOK, vars, execVars
  <2> QED
    BY <2>1, <2>2, <2>3, <2>4, <2>5, <2>6, <2>7, <2>8, <2>9, <2>10, <2>11, <2>12,
       <2>13, <2>14, <2>15 DEF Next, Run, Create
<1> QED
  BY <1>1, <1>2, PTL DEF Spec

-----------------------------------------------------------------------------
(* Records.  RecordsWhole and KeepsItsRecord are not inductive alone: a    *)
(* path must be known to name the run that was given it, and a run about   *)
(* to link must be known to have closed its file.                          *)

\* A path that names a run was given to it, and the run got as far as linking.
RecordsOwned ==
  \A k \in Path : file[k] # NoFile =>
    /\ at[file[k]] = k
    /\ pc[file[k]] \in {"linked", "registered"} \cup Ended

WrittenIsWhole == \A p \in Process : pc[p] = "written" => content[p] = "whole"

RecordInv ==
  /\ RecordsOwned
  /\ WrittenIsWhole
  /\ RecordsWhole
  /\ KeepsItsRecord

\* The strengthened invariant holds before any run has begun.
LEMMA RecordInvInit == Init => RecordInv
  BY DEF Init, RecordInv, RecordsOwned, WrittenIsWhole, RecordsWhole, KeepsItsRecord

\* Every step of Create, Remove, a kill or the operator keeps it.
LEMMA RecordInvNext == TypeOK /\ RecordInv /\ [Next]_vars => RecordInv'
<1> SUFFICES ASSUME TypeOK, RecordInv, [Next]_vars
             PROVE  RecordInv'
  OBVIOUS
<1> USE NoFileAssumption
<1> USE DEF RecordInv, RecordsOwned, WrittenIsWhole, RecordsWhole, KeepsItsRecord,
            TypeOK, Stage, Ended, Goto
<1>1. ASSUME NEW p \in Process, TakeGeneratedName(p) PROVE RecordInv'
  BY <1>1 DEF TakeGeneratedName
<1>2. ASSUME NEW p \in Process, TakeGivenName(p) PROVE RecordInv'
  BY <1>2 DEF TakeGivenName
<1>3. ASSUME NEW p \in Process, MakeDirectory(p) PROVE RecordInv'
  BY <1>3 DEF MakeDirectory
<1>4. ASSUME NEW p \in Process, StageTemp(p) PROVE RecordInv'
  BY <1>4 DEF StageTemp
<1>5. ASSUME NEW p \in Process, WriteTemp(p) PROVE RecordInv'
  BY <1>5 DEF WriteTemp
<1>6. ASSUME NEW p \in Process, CreateFails(p) PROVE RecordInv'
  BY <1>6 DEF CreateFails
<1>7. ASSUME NEW p \in Process, LinkRecord(p) PROVE RecordInv'
  BY <1>7 DEF LinkRecord
<1>8. ASSUME NEW p \in Process, ReportDuplicate(p) PROVE RecordInv'
  BY <1>8 DEF ReportDuplicate
<1>9. ASSUME NEW p \in Process, DropTempName(p) PROVE RecordInv'
  BY <1>9 DEF DropTempName
<1>10. ASSUME NEW p \in Process, Unregister(p) PROVE RecordInv'
  BY <1>10 DEF Unregister
<1>11. ASSUME NEW p \in Process, UnregisterFails(p) PROVE RecordInv'
  BY <1>11 DEF UnregisterFails
<1>12. ASSUME NEW p \in Process, Kill(p) PROVE RecordInv'
  BY <1>12 DEF Kill
<1>13. ASSUME NEW k \in Path, OperatorCleans(k) PROVE RecordInv'
  BY <1>13 DEF OperatorCleans
<1>14. ASSUME NEW r \in Reader, List(r) PROVE RecordInv'
  BY <1>14 DEF List, BeginList, BeginListFails, ReadNamespace,
     SkipNamespace, LoadEntry, SkipEntry, EndList, execVars
<1>15. CASE UNCHANGED vars
  BY <1>15 DEF vars, execVars
<1> QED
  BY <1>1, <1>2, <1>3, <1>4, <1>5, <1>6, <1>7, <1>8, <1>9, <1>10, <1>11, <1>12,
     <1>13, <1>14, <1>15 DEF Next, Run, Create

\* So it holds throughout: records have owners that still hold them.
LEMMA RecordInvAlways == Spec => []RecordInv
  BY RecordInvInit, RecordInvNext, TypeCorrect, PTL DEF Spec

\* Every file a reader can name was written to the end.
THEOREM RecordsWholeAlways == Spec => []RecordsWhole
  BY RecordInvAlways, PTL DEF RecordInv

\* A run that holds a Handle is found under its name until it gives it up.
THEOREM KeepsItsRecordAlways == Spec => []KeepsItsRecord
  BY RecordInvAlways, PTL DEF RecordInv

\* So two runs are never up under one name: the duplicate check of Create is
\* the one that cannot be raced.
UniqueNames ==
  \A p, q \in Process :
    /\ pc[p] = "registered"
    /\ pc[q] = "registered"
    /\ at[p] = at[q]
    => p = q

\* The names of the instances that are registered are unique, however many
\* runs compete for them: the duplicate check of Create is race-free.
THEOREM UniqueNamesAlways == Spec => []UniqueNames
<1>1. KeepsItsRecord => UniqueNames
  BY DEF KeepsItsRecord, UniqueNames
<1> QED
  BY <1>1, KeepsItsRecordAlways, PTL

-----------------------------------------------------------------------------
(* Temp files.                                                             *)

\* Each way out of Create tries to unlink its temp file.
LEMMA NoTempNext == TypeOK /\ NoTempLeftBehind /\ [Next]_vars => NoTempLeftBehind'
<1> SUFFICES ASSUME TypeOK, NoTempLeftBehind, [Next]_vars
             PROVE  NoTempLeftBehind'
  OBVIOUS
<1> USE DEF NoTempLeftBehind, TypeOK, Stage, Ended, Goto
<1>1. ASSUME NEW p \in Process, Run(p) PROVE NoTempLeftBehind'
  BY <1>1 DEF Run, Create, TakeGeneratedName, TakeGivenName, MakeDirectory, StageTemp,
     WriteTemp, CreateFails, LinkRecord, ReportDuplicate, DropTempName, Unregister,
     UnregisterFails, RemoveTemp
<1>2. ASSUME NEW p \in Process, Kill(p) PROVE NoTempLeftBehind'
  BY <1>2 DEF Kill
<1>3. ASSUME NEW k \in Path, OperatorCleans(k) PROVE NoTempLeftBehind'
  BY <1>3 DEF OperatorCleans
<1>4. ASSUME NEW r \in Reader, List(r) PROVE NoTempLeftBehind'
  BY <1>4 DEF List, BeginList, BeginListFails, ReadNamespace,
     SkipNamespace, LoadEntry, SkipEntry, EndList, execVars
<1>5. CASE UNCHANGED vars
  BY <1>5 DEF vars, execVars
<1> QED
  BY <1>1, <1>2, <1>3, <1>4, <1>5 DEF Next

\* A temp file stays only when Create is killed or the removal itself fails.
THEOREM NoTempLeftBehindAlways == Spec => []NoTempLeftBehind
<1>1. Init => NoTempLeftBehind
  BY DEF Init, NoTempLeftBehind
<1> QED
  BY <1>1, NoTempNext, TypeCorrect, PTL DEF Spec

-----------------------------------------------------------------------------
(* The refinement.                                                         *)

\* No record stands for no claim.
LEMMA ClaimsInit == Init => Claims!Init
  BY DEF Init, Claims!Init, ClaimStatus, Ended

\* Each step of the registry is a step of the claims, or changes none.
LEMMA ClaimsNext == TypeOK /\ RecordInv /\ [Next]_vars => [Claims!Next]_Claims!vars
<1> SUFFICES ASSUME TypeOK, RecordInv, [Next]_vars
             PROVE  Claims!Next \/ UNCHANGED Claims!vars
  OBVIOUS
<1> DEFINE status == [p \in Process |-> ClaimStatus(p)]
<1> USE NoFileAssumption
<1> USE DEF ClaimStatus, Stage, Ended, Goto
<1>1. ASSUME NEW p \in Process,
             \/ TakeGeneratedName(p) \/ MakeDirectory(p) \/ StageTemp(p)
             \/ WriteTemp(p) \/ DropTempName(p)
      PROVE  UNCHANGED Claims!vars
  <2>1. file' = file
    BY <1>1 DEF TakeGeneratedName, MakeDirectory, StageTemp, WriteTemp, DropTempName
  <2>2. \A q \in Process : ClaimStatus(q)' = ClaimStatus(q)
    BY <1>1 DEF TypeOK, TakeGeneratedName, MakeDirectory, StageTemp, WriteTemp,
       DropTempName
  <2> QED
    BY <2>1, <2>2 DEF Claims!vars
<1>2. ASSUME NEW p \in Process, NEW k \in Path, k = at[p], LinkRecord(p)
      PROVE  Claims!Claim(p, k)
  <2>1. pc[p] = "written" /\ file[k] = NoFile
    BY <1>2 DEF TypeOK, LinkRecord
  <2>2. status' = [status EXCEPT ![p] = "holding"]
    BY <1>2 DEF TypeOK, LinkRecord
  <2> QED
    BY <1>2, <2>1, <2>2 DEF Claims!Claim, LinkRecord
<1>3. ASSUME NEW p \in Process, NEW k \in Path, k = at[p], Unregister(p)
      PROVE  Claims!Release(p, k)
  <2>1. pc[p] = "registered" /\ file[k] = p
    BY <1>3 DEF Unregister, RecordInv, KeepsItsRecord
  <2>2. status' = [status EXCEPT ![p] = "gone"]
    BY <1>3 DEF TypeOK, Unregister
  <2> QED
    BY <1>3, <2>1, <2>2 DEF Claims!Release, Unregister
<1>4. ASSUME NEW p \in Process,
             \/ CreateFails(p) \/ ReportDuplicate(p) \/ UnregisterFails(p) \/ Kill(p)
             \/ TakeGivenName(p)
      PROVE  Claims!Abandon(p) \/ UNCHANGED Claims!vars
  <2>1. file' = file
    BY <1>4 DEF CreateFails, ReportDuplicate, UnregisterFails, Kill, TakeGivenName
  <2>2. status[p] # "gone"
    BY <1>4 DEF TypeOK, CreateFails, ReportDuplicate, UnregisterFails, Kill, TakeGivenName
  <2>3. \/ status' = [status EXCEPT ![p] = "gone"]
        \/ status' = status
    <3>1. pc' = [pc EXCEPT ![p] = "named"] \/ \E e \in Ended : pc' = [pc EXCEPT ![p] = e]
      BY <1>4 DEF CreateFails, ReportDuplicate, UnregisterFails, Kill, TakeGivenName
    <3>2. CASE pc' = [pc EXCEPT ![p] = "named"]
      <4>1. pc[p] = "idle"
        BY <1>4, <3>2 DEF TypeOK, CreateFails, ReportDuplicate, UnregisterFails, Kill,
           TakeGivenName
      <4> QED
        BY <3>2, <4>1 DEF TypeOK
    <3>3. CASE \E e \in Ended : pc' = [pc EXCEPT ![p] = e]
      BY <3>3 DEF TypeOK
    <3> QED
      BY <3>1, <3>2, <3>3
  <2> QED
    BY <2>1, <2>2, <2>3 DEF Claims!Abandon, Claims!vars
<1>5. ASSUME NEW k \in Path, OperatorCleans(k) PROVE Claims!Reclaim(k)
  <2>1. file[k] \in Process /\ status[file[k]] = "gone"
    BY <1>5 DEF TypeOK, OperatorCleans
  <2>2. status' = status
    BY <1>5 DEF OperatorCleans
  <2> QED
    BY <1>5, <2>1, <2>2 DEF Claims!Reclaim, OperatorCleans
<1>6. ASSUME NEW r \in Reader, List(r) PROVE UNCHANGED Claims!vars
  BY <1>6 DEF List, BeginList, BeginListFails, ReadNamespace,
     SkipNamespace, LoadEntry, SkipEntry, EndList, execVars, Claims!vars
<1>7. CASE UNCHANGED vars
  BY <1>7 DEF vars, execVars, Claims!vars
<1>8. \A p \in Process : at[p] \in Path
  BY DEF TypeOK
<1>9. ASSUME NEW p \in Process, Run(p) PROVE Claims!Next \/ UNCHANGED Claims!vars
  <2>1. \/ TakeGeneratedName(p) \/ MakeDirectory(p) \/ StageTemp(p)
        \/ WriteTemp(p) \/ DropTempName(p)
        \/ LinkRecord(p) \/ Unregister(p)
        \/ CreateFails(p) \/ ReportDuplicate(p) \/ UnregisterFails(p) \/ TakeGivenName(p)
    BY <1>9 DEF Run, Create
  <2>2. PICK k \in Path : k = at[p]
    BY <1>8
  <2>3. Claims!Claim(p, k) \/ Claims!Release(p, k) \/ Claims!Abandon(p) => Claims!Next
    BY DEF Claims!Next
  <2> QED
    BY <1>1, <1>2, <1>3, <1>4, <2>1, <2>2, <2>3
<1> QED
  BY <1>4, <1>5, <1>6, <1>7, <1>9 DEF Next, Claims!Next

\* The registry, with its failures, kills and readers, is an exclusive claim
\* on names.
THEOREM ImplementsNameClaims == Spec => ClaimsSpec
  BY ClaimsInit, ClaimsNext, TypeCorrect, RecordInvAlways, PTL
     DEF Spec, ClaimsSpec, Claims!Spec

-----------------------------------------------------------------------------
(* Listing.  A record that stays for the whole call, and that the call can *)
(* read, is either collected or still ahead.                               *)

DirsExist ==
  /\ \A k \in Path : file[k] # NoFile => k[1] \in dirs
  /\ \A p \in Process :
       pc[p] \in {"made", "staged", "written"} => at[p][1] \in dirs

\* Collected, in a namespace to read, or among the entries to load.
Ahead(s, rec) ==
  \/ rec \in s.got
  \/ rec[1][1] \in s.todo
  \/ rec[1] \in s.entries

ScanOK(s, f) ==
  s.state = "busy" =>
    /\ s.due \subseteq RecordsIn(f)
    /\ RecordsIn(f) \subseteq s.ever
    /\ s.got \subseteq s.ever
    /\ \A rec \in s.due : Ahead(s, rec)

ListInv == DirsExist /\ \A r \in Reader : ScanOK(scan[r], file)

\* A record is only ever in a directory that was made.
LEMMA DirsExistNext == TypeOK /\ DirsExist /\ [Next]_vars => DirsExist'
<1> SUFFICES ASSUME TypeOK, DirsExist, [Next]_vars
             PROVE  DirsExist'
  OBVIOUS
<1> USE DEF DirsExist, TypeOK, Stage, Ended, Goto
<1>1. ASSUME NEW p \in Process, LinkRecord(p) PROVE DirsExist'
  BY <1>1 DEF LinkRecord
<1>2. ASSUME NEW p \in Process, MakeDirectory(p) PROVE DirsExist'
  BY <1>2 DEF MakeDirectory
<1>3. ASSUME NEW p \in Process, Unregister(p) PROVE DirsExist'
  BY <1>3 DEF Unregister
<1>4. ASSUME NEW p \in Process,
             \/ TakeGeneratedName(p) \/ TakeGivenName(p) \/ StageTemp(p) \/ WriteTemp(p)
             \/ CreateFails(p) \/ ReportDuplicate(p) \/ DropTempName(p)
             \/ UnregisterFails(p) \/ Kill(p)
      PROVE  DirsExist'
  <2>1. dirs' = dirs /\ file' = file /\ at' = at
    BY <1>4 DEF TakeGeneratedName, TakeGivenName, StageTemp, WriteTemp, CreateFails,
       ReportDuplicate, DropTempName, UnregisterFails, Kill
  <2>2. \A q \in Process : pc'[q] \in {"made", "staged", "written"}
                              => pc[q] \in {"made", "staged", "written"}
    BY <1>4 DEF TakeGeneratedName, TakeGivenName, StageTemp, WriteTemp, CreateFails,
       ReportDuplicate, DropTempName, UnregisterFails, Kill
  <2> QED
    BY <2>1, <2>2
<1>5. ASSUME NEW k \in Path, OperatorCleans(k) PROVE DirsExist'
  BY <1>5 DEF OperatorCleans
<1>6. ASSUME NEW r \in Reader, List(r) PROVE DirsExist'
  BY <1>6 DEF List, BeginList, BeginListFails, ReadNamespace,
     SkipNamespace, LoadEntry, SkipEntry, EndList, execVars
<1>7. CASE UNCHANGED vars
  BY <1>7 DEF vars, execVars
<1> QED
  BY <1>1, <1>2, <1>3, <1>4, <1>5, <1>6, <1>7 DEF Next, Run, Create

\* A change of the directories that the calls in progress watch.
LEMMA WatchKeepsScan ==
  ASSUME TypeOK, NEW f, Watch(f), NEW r \in Reader, ScanOK(scan[r], file)
  PROVE  ScanOK(scan'[r], f)
<1>1. scan[r] \in Scan
  BY DEF TypeOK
<1>2. CASE scan[r].state = "busy"
  <2>1. scan'[r] = [scan[r] EXCEPT !.ever = @ \cup RecordsIn(f),
                                   !.due = @ \cap RecordsIn(f)]
    BY <1>2 DEF Watch
  <2> QED
    BY <1>1, <1>2, <2>1 DEF ScanOK, Ahead, Scan
<1>3. CASE scan[r].state # "busy"
  <2>1. scan'[r] = scan[r]
    BY <1>3 DEF Watch
  <2> QED
    BY <1>3, <2>1 DEF ScanOK
<1> QED
  BY <1>2, <1>3

\* A step of List itself keeps what it has collected between its two bounds.
LEMMA ListStep ==
  ASSUME TypeOK, RecordsWhole, DirsExist, NEW r \in Reader, List(r),
         ScanOK(scan[r], file)
  PROVE  ScanOK(scan'[r], file)
<1>1. scan[r] \in Scan
  BY DEF TypeOK
<1>2. CASE BeginList(r)
  <2>1. scan'[r] = [NoScan EXCEPT !.todo = dirs, !.state = "busy",
                      !.ever = RecordsIn(file), !.due = RecordsIn(file)]
    BY <1>2 DEF BeginList, TypeOK
  <2>2. \A rec \in RecordsIn(file) : rec[1][1] \in dirs
    BY NoFileAssumption DEF RecordsIn, Record, DirsExist
  <2> QED
    BY <2>1, <2>2 DEF NoScan, ScanOK, Ahead
<1>3. CASE BeginListFails(r)
  BY <1>1, <1>3 DEF BeginListFails, TypeOK, ScanOK, Scan
<1>4. CASE ReadNamespace(r)
  <2>1. PICK ns \in scan[r].todo :
          scan' = [scan EXCEPT ![r].todo = @ \ {ns},
                     ![r].entries = {k \in Path : k[1] = ns /\ file[k] # NoFile}]
    BY <1>4 DEF ReadNamespace
  <2> DEFINE found == {k \in Path : k[1] = ns /\ file[k] # NoFile}
  <2>2. scan'[r] = [scan[r] EXCEPT !.todo = @ \ {ns}, !.entries = found]
    BY <2>1 DEF TypeOK
  <2>3. scan[r].state = "busy" /\ scan[r].entries = {}
    BY <1>4 DEF ReadNamespace
  <2>4. \A rec \in RecordsIn(file) : rec[1][1] = ns => rec[1] \in found
    BY NoFileAssumption DEF RecordsIn, Record
  <2> HIDE DEF found
  <2> QED
    BY <1>1, <2>2, <2>3, <2>4 DEF ScanOK, Ahead, Scan
<1>5. CASE SkipNamespace(r)
  <2>1. PICK ns \in scan[r].todo :
          scan' = [scan EXCEPT ![r].todo = @ \ {ns},
                     ![r].due = {rec \in @ : rec[1][1] # ns}]
    BY <1>5 DEF SkipNamespace
  <2>2. scan'[r] = [scan[r] EXCEPT !.todo = @ \ {ns},
                      !.due = {rec \in @ : rec[1][1] # ns}]
    BY <2>1 DEF TypeOK
  <2> QED
    BY <1>1, <2>2 DEF ScanOK, Ahead, Scan
<1>6. CASE LoadEntry(r)
  <2>1. PICK k \in scan[r].entries :
          scan' = [scan EXCEPT ![r].entries = @ \ {k},
                     ![r].got = IF Readable(k) THEN @ \cup {<<k, file[k]>>} ELSE @]
    BY <1>6 DEF LoadEntry
  <2> DEFINE got == IF Readable(k) THEN scan[r].got \cup {<<k, file[k]>>} ELSE scan[r].got
  <2>2. scan'[r] = [scan[r] EXCEPT !.entries = @ \ {k}, !.got = got]
    BY <2>1 DEF TypeOK
  <2>3. scan[r].state = "busy" /\ k \in Path
    BY <1>1, <1>6 DEF LoadEntry, Scan
  <2>4. Readable(k) => <<k, file[k]>> \in RecordsIn(file)
    BY <2>3 DEF Readable, RecordsIn, Record, TypeOK
  <2>5. \A rec \in RecordsIn(file) : rec[1] = k => Readable(k) /\ rec = <<k, file[k]>>
    BY NoFileAssumption DEF RecordsIn, Record, RecordsWhole, Readable
  <2>6. got \subseteq scan[r].ever
    BY <2>3, <2>4 DEF ScanOK
  <2>7. \A rec \in RecordsIn(file) : rec[1] = k => rec \in got
    BY <2>5
  <2>8. scan[r].got \subseteq got
    OBVIOUS
  <2> HIDE DEF got
  <2> QED
    BY <1>1, <2>2, <2>3, <2>6, <2>7, <2>8 DEF ScanOK, Ahead, Scan
<1>7. CASE SkipEntry(r)
  <2>1. PICK k \in scan[r].entries :
          scan' = [scan EXCEPT ![r].entries = @ \ {k},
                     ![r].due = {rec \in @ : rec[1] # k}]
    BY <1>7 DEF SkipEntry
  <2>2. scan'[r] = [scan[r] EXCEPT !.entries = @ \ {k}, !.due = {rec \in @ : rec[1] # k}]
    BY <2>1 DEF TypeOK
  <2> QED
    BY <1>1, <2>2 DEF ScanOK, Ahead, Scan
<1>8. CASE EndList(r)
  BY <1>8 DEF EndList, TypeOK, ScanOK, NoScan
<1> QED
  BY <1>2, <1>3, <1>4, <1>5, <1>6, <1>7, <1>8 DEF List

\* Together: whatever happens, the calls of List stay within their bounds.
LEMMA ListInvNext ==
  TypeOK /\ RecordInv /\ ListInv /\ [Next]_vars => ListInv'
<1> SUFFICES ASSUME TypeOK, RecordInv, ListInv, [Next]_vars
             PROVE  ListInv'
  OBVIOUS
<1>1. DirsExist'
  BY DirsExistNext DEF ListInv
<1>2. ASSUME NEW q \in Reader PROVE ScanOK(scan'[q], file')
  <2>1. ScanOK(scan[q], file)
    BY DEF ListInv
  <2>2. CASE \E r \in Reader : List(r)
    <3>1. PICK r \in Reader : List(r)
      BY <2>2
    <3>2. file' = file /\ (q # r => scan'[q] = scan[q])
      BY <3>1 DEF List, BeginList, BeginListFails, ReadNamespace,
     SkipNamespace, LoadEntry, SkipEntry, EndList, execVars, TypeOK
    <3>3. CASE q = r
      BY <2>1, <3>1, <3>2, <3>3, ListStep DEF ListInv, RecordInv
    <3>4. CASE q # r
      BY <2>1, <3>2, <3>4
    <3> QED
      BY <3>3, <3>4
  <2>3. CASE Watch(file')
    BY <2>1, <2>3, WatchKeepsScan
  <2>4. CASE scan' = scan /\ file' = file
    BY <2>1, <2>4
  <2>5. ASSUME NEW p \in Process, Run(p) \/ Kill(p)
        PROVE  Watch(file') \/ (scan' = scan /\ file' = file)
    BY <2>5 DEF Run, Create, Kill, TakeGeneratedName, TakeGivenName, MakeDirectory,
       StageTemp, WriteTemp, CreateFails, LinkRecord, ReportDuplicate, DropTempName,
       Unregister, UnregisterFails
  <2>6. ASSUME NEW k \in Path, OperatorCleans(k) PROVE Watch(file')
    BY <2>6 DEF OperatorCleans
  <2>7. CASE UNCHANGED vars
    BY <2>1, <2>7 DEF vars, execVars
  <2> QED
    BY <2>2, <2>3, <2>4, <2>5, <2>6, <2>7 DEF Next
<1> QED
  BY <1>1, <1>2 DEF ListInv

\* List misses nothing that stayed and could be read, and invents nothing,
\* whatever the other processes do to the directories while it reads them:
\* what it cannot read hides no other record.
THEOREM ListAccurateAlways == Spec => []ListAccurate
<1>1. Init => ListInv
  BY DEF Init, ListInv, DirsExist, ScanOK, NoScan
<1>2. ListInv => ListAccurate
  BY DEF ListInv, ListAccurate, ScanOK, Ahead, Complete
<1>3. Spec => []ListInv
  BY <1>1, ListInvNext, TypeCorrect, RecordInvAlways, PTL DEF Spec
<1> QED
  BY <1>2, <1>3, PTL

=============================================================================
