-------------------------- MODULE InstanceRegistry --------------------------
(***************************************************************************)
(* The instance records of internal/instances: one <name>.json per running *)
(* `authbridge exec` in its namespace's directory, written by Create with a *)
(* temp file and a hard link, taken away by Handle.Remove, and read by      *)
(* List, which the API server and the instance listing call, while other    *)
(* processes create and remove records.                                     *)
(*                                                                         *)
(* A file is its inode: the process that wrote it names it, because a run   *)
(* writes one file.  A run may be killed between any two steps.  The        *)
(* operator who deletes the record of a run that is gone is external.       *)
(***************************************************************************)
EXTENDS FiniteSets

CONSTANTS
  Process,    \* runs of `authbridge exec`; a run that ends is not started again
  Reader,     \* callers of List
  Namespace,  \* namespace directories
  Name,       \* instance names
  NoFile      \* an absent directory entry

ASSUME NoFileAssumption == NoFile \notin Process

Path == Namespace \X Name

VARIABLES
  dirs,     \* the namespace directories that exist
  file,     \* the final paths: the inode each one names, or NoFile
  temp,     \* the inodes that have a temp name (".<name>.*.tmp")
  stuck,    \* history: the inodes whose temp name could not be removed
  content,  \* what each inode holds
  pc,       \* where each run is
  at,       \* the path a run was given
  scan      \* each reader's List call

execVars == <<dirs, file, temp, stuck, content, pc, at>>
vars == <<execVars, scan>>

-----------------------------------------------------------------------------

Content == {"none", "partial", "whole"}

\* "named" .. "linked" are inside Create; "registered" holds a Handle; "ended"
\* was refused its name, failed, or went through its deferred calls.
Stage == {"idle", "named", "made", "staged", "written", "linked", "registered"}
Ended == {"ended", "killed"}

\* A List call: the namespaces and the entries still to read, what it has
\* collected, and two history sets: the records that were there at some
\* moment of the call (ever), and those that were there at every moment of it
\* and whose own directory and file the call could read (due).
NoScan == [todo |-> {}, entries |-> {}, got |-> {}, ever |-> {}, due |-> {},
           state |-> "idle"]

Record == Path \X Process

Scan == [todo : SUBSET Namespace, entries : SUBSET Path, got : SUBSET Record,
         ever : SUBSET Record, due : SUBSET Record,
         state : {"idle", "busy", "failed"}]

\* A call that has read all it is going to read: EndList returns what it has.
Complete(s) == s.state = "busy" /\ s.todo = {} /\ s.entries = {}

TypeOK ==
  /\ dirs \subseteq Namespace
  /\ file \in [Path -> Process \cup {NoFile}]
  /\ temp \subseteq Process
  /\ stuck \subseteq Process
  /\ content \in [Process -> Content]
  /\ pc \in [Process -> Stage \cup Ended]
  /\ at \in [Process -> Path]
  /\ scan \in [Reader -> Scan]

\* The records in the directories f.
RecordsIn(f) == {r \in Record : f[r[1]] = r[2]}

\* What the calls in progress learn from a change of the directories to f.
Watch(f) ==
  scan' = [r \in Reader |->
             IF scan[r].state = "busy"
             THEN [scan[r] EXCEPT !.ever = @ \cup RecordsIn(f),
                                  !.due = @ \cap RecordsIn(f)]
             ELSE scan[r]]

Init ==
  /\ dirs = {}
  /\ file = [k \in Path |-> NoFile]
  /\ temp = {}
  /\ stuck = {}
  /\ content = [p \in Process |-> "none"]
  /\ pc = [p \in Process |-> "idle"]
  /\ at \in [Process -> Path]
  /\ scan = [r \in Reader |-> NoScan]

-----------------------------------------------------------------------------
(* One run of `authbridge exec`.                                           *)

Goto(p, from, to) ==
  /\ pc[p] = from
  /\ pc' = [pc EXCEPT ![p] = to]

\* os.Remove of the temp name, if there is one.  Its error is not looked at:
\* the name may stay, and Create answers as if it were gone.
RemoveTemp(p) ==
  \/ temp' = temp \ {p} /\ UNCHANGED stuck
  \/ p \in temp /\ stuck' = stuck \cup {p} /\ UNCHANGED temp

\* instanceName with a generated name: nothing is looked up.
TakeGeneratedName(p) ==
  /\ Goto(p, "idle", "named")
  /\ UNCHANGED <<dirs, file, temp, stuck, content, at, scan>>

\* instanceName with --instanceName: Exists is asked before anything starts.
\* The answer is advisory, it is not asked again; no answer ends the run.
TakeGivenName(p) ==
  /\ \/ Goto(p, "idle", IF file[at[p]] = NoFile THEN "named" ELSE "ended")
     \/ Goto(p, "idle", "ended")
  /\ UNCHANGED <<dirs, file, temp, stuck, content, at, scan>>

MakeDirectory(p) ==
  /\ Goto(p, "named", "made")
  /\ dirs' = dirs \cup {at[p][1]}
  /\ UNCHANGED <<file, temp, stuck, content, at, scan>>

StageTemp(p) ==
  /\ Goto(p, "made", "staged")
  /\ temp' = temp \cup {p}
  /\ content' = [content EXCEPT ![p] = "partial"]
  /\ UNCHANGED <<dirs, file, stuck, at, scan>>

\* Write and Close: only a closed file is linked.
WriteTemp(p) ==
  /\ Goto(p, "staged", "written")
  /\ content' = [content EXCEPT ![p] = "whole"]
  /\ UNCHANGED <<dirs, file, temp, stuck, at, scan>>

\* Altered: the error path forgets the temp file.
CreateFails_KeepsTemp(p) ==
  /\ pc[p] \in {"named", "made", "staged", "written"}
  /\ pc' = [pc EXCEPT ![p] = "ended"]
  /\ UNCHANGED <<dirs, file, temp, stuck, content, at, scan>>

\* MkdirAll, CreateTemp, Write, Close or Link fails for a reason of the file
\* system's own, and Create tries to remove the temp file, if there is one.
CreateFails(p) ==
  /\ pc[p] \in {"named", "made", "staged", "written"}
  /\ pc' = [pc EXCEPT ![p] = "ended"]
  /\ RemoveTemp(p)
  /\ UNCHANGED <<dirs, file, content, at, scan>>

\* Altered: rename(2), which replaces the record of a run that is up.
LinkRecord_Rename(p) ==
  /\ Goto(p, "written", "linked")
  /\ file' = [file EXCEPT ![at[p]] = p]
  /\ Watch(file')
  /\ UNCHANGED <<dirs, temp, stuck, content, at>>

\* Altered: the record is linked before it is written.
LinkRecord_Early(p) ==
  /\ file[at[p]] = NoFile
  /\ Goto(p, "staged", "linked")
  /\ file' = [file EXCEPT ![at[p]] = p]
  /\ Watch(file')
  /\ UNCHANGED <<dirs, temp, stuck, content, at>>

\* os.Link: the directory entry appears whole or not at all, and never
\* replaces another one.
LinkRecord(p) ==
  /\ file[at[p]] = NoFile
  /\ Goto(p, "written", "linked")
  /\ file' = [file EXCEPT ![at[p]] = p]
  /\ Watch(file')
  /\ UNCHANGED <<dirs, temp, stuck, content, at>>

\* Altered: the losing run "cleans up" the path too.
ReportDuplicate_Removes(p) ==
  /\ file[at[p]] # NoFile
  /\ Goto(p, "written", "ended")
  /\ RemoveTemp(p)
  /\ file' = [file EXCEPT ![at[p]] = NoFile]
  /\ Watch(file')
  /\ UNCHANGED <<dirs, content, at>>

\* os.Link reports ErrExist: DuplicateError, after the attempt to
\* remove the temp file.
ReportDuplicate(p) ==
  /\ file[at[p]] # NoFile
  /\ Goto(p, "written", "ended")
  /\ RemoveTemp(p)
  /\ UNCHANGED <<dirs, file, content, at, scan>>

DropTempName(p) ==
  /\ Goto(p, "linked", "registered")
  /\ RemoveTemp(p)
  /\ UNCHANGED <<dirs, file, content, at, scan>>

\* Altered: the path leaves the table with its record.
Unregister_DropsPath(p) ==
  /\ Goto(p, "registered", "ended")
  /\ file' = [k \in Path \ {at[p]} |-> file[k]]
  /\ UNCHANGED <<dirs, temp, stuck, content, at, scan>>

\* Handle.Remove: os.Remove of the path, whatever it names by now; an absent
\* file is not an error.
Unregister(p) ==
  /\ Goto(p, "registered", "ended")
  /\ file' = [file EXCEPT ![at[p]] = NoFile]
  /\ Watch(file')
  /\ UNCHANGED <<dirs, temp, stuck, content, at>>

\* The removal fails: a warning, and the record stays.
UnregisterFails(p) ==
  /\ Goto(p, "registered", "ended")
  /\ UNCHANGED <<dirs, file, temp, stuck, content, at, scan>>

\* SIGKILL, or the machine stops: none of the deferred calls runs.
Kill(p) ==
  /\ pc[p] \in Stage
  /\ pc' = [pc EXCEPT ![p] = "killed"]
  /\ UNCHANGED <<dirs, file, temp, stuck, content, at, scan>>

\* External: somebody deletes a record after finding that the process it
\* names is gone.
OperatorCleans(k) ==
  /\ file[k] # NoFile
  /\ pc[file[k]] \in Ended
  /\ file' = [file EXCEPT ![k] = NoFile]
  /\ Watch(file')
  /\ UNCHANGED <<dirs, temp, stuck, content, pc, at>>

-----------------------------------------------------------------------------
(* List, one directory and one file at a time.                             *)

\* Namespaces(): the directories there are now.
BeginList(r) ==
  /\ scan[r].state # "busy"
  /\ scan' = [scan EXCEPT ![r] =
                [NoScan EXCEPT !.todo = dirs, !.state = "busy",
                               !.ever = RecordsIn(file), !.due = RecordsIn(file)]]
  /\ UNCHANGED execVars

\* The base directory cannot be read: nothing can be listed, List says so.
BeginListFails(r) ==
  /\ scan[r].state # "busy"
  /\ scan' = [scan EXCEPT ![r].state = "failed"]
  /\ UNCHANGED execVars

\* ListNamespace's os.ReadDir.  Dotfiles and other suffixes are skipped, so
\* only final paths are entries.
ReadNamespace(r) ==
  /\ scan[r].state = "busy"
  /\ scan[r].entries = {}
  /\ \E ns \in scan[r].todo :
       scan' = [scan EXCEPT ![r].todo = @ \ {ns},
                            ![r].entries = {k \in Path : k[1] = ns /\ file[k] # NoFile}]
  /\ UNCHANGED execVars

\* A directory that cannot be read hides its own records.
SkipNamespace(r) ==
  /\ scan[r].state = "busy"
  /\ scan[r].entries = {}
  /\ \E ns \in scan[r].todo :
       scan' = [scan EXCEPT ![r].todo = @ \ {ns},
                            ![r].due = {rec \in @ : rec[1][1] # ns}]
  /\ UNCHANGED execVars

\* The file is there and parses.
Readable(k) == file[k] # NoFile /\ content[file[k]] = "whole"

\* Altered: an entry that cannot be loaded ends its namespace's listing.
LoadEntry_StopsAtGap(r) ==
  /\ scan[r].state = "busy"
  /\ \E k \in scan[r].entries :
       IF Readable(k)
       THEN scan' = [scan EXCEPT ![r].entries = @ \ {k},
                                 ![r].got = @ \cup {<<k, file[k]>>}]
       ELSE scan' = [scan EXCEPT ![r].entries = {}]
  /\ UNCHANGED execVars

\* Load of one entry.  One that is gone, or does not parse, is skipped and
\* the listing goes on.
LoadEntry(r) ==
  /\ scan[r].state = "busy"
  /\ \E k \in scan[r].entries :
       scan' = [scan EXCEPT ![r].entries = @ \ {k},
                            ![r].got = IF Readable(k) THEN @ \cup {<<k, file[k]>>} ELSE @]
  /\ UNCHANGED execVars

\* A file that cannot be read hides its own record.
SkipEntry(r) ==
  /\ scan[r].state = "busy"
  /\ \E k \in scan[r].entries :
       scan' = [scan EXCEPT ![r].entries = @ \ {k},
                            ![r].due = {rec \in @ : rec[1] # k}]
  /\ UNCHANGED execVars

\* The caller has its answer and may call again.
EndList(r) ==
  /\ Complete(scan[r])
  /\ scan' = [scan EXCEPT ![r] = NoScan]
  /\ UNCHANGED execVars

-----------------------------------------------------------------------------

Create(p) ==
  \/ MakeDirectory(p)
  \/ StageTemp(p)
  \/ WriteTemp(p)
  \/ CreateFails(p)
  \/ LinkRecord(p)
  \/ ReportDuplicate(p)
  \/ DropTempName(p)

Run(p) ==
  \/ TakeGeneratedName(p)
  \/ TakeGivenName(p)
  \/ Create(p)
  \/ Unregister(p)
  \/ UnregisterFails(p)

List(r) ==
  \/ BeginList(r) \/ BeginListFails(r)
  \/ ReadNamespace(r) \/ SkipNamespace(r)
  \/ LoadEntry(r) \/ SkipEntry(r)
  \/ EndList(r)

Next ==
  \/ \E p \in Process : Run(p) \/ Kill(p)
  \/ \E k \in Path : OperatorCleans(k)
  \/ \E r \in Reader : List(r)

Spec == Init /\ [][Next]_vars

-----------------------------------------------------------------------------
(* Properties.                                                             *)

\* A reader never sees a half-written record: what a final path names was
\* closed before it got that name (Create, and its doc comment).
RecordsWhole == \A k \in Path : file[k] # NoFile => content[file[k]] = "whole"

\* A run that holds a Handle is still the one its path names, so it can be
\* found, and the path Handle.Remove deletes is its own record: no other
\* run's Create, duplicate report, failure or exit, and no cleaning of the
\* records of ended runs, takes it away.
KeepsItsRecord ==
  \A p \in Process : pc[p] \in {"linked", "registered"} => file[at[p]] = p

\* "From here a failure must not leave the temp file behind": whichever of its
\* returns Create takes, it has tried to remove its temp file.  Only a run that
\* is still inside Create, that was killed there, or whose removal failed has
\* one left.
NoTempLeftBehind ==
  \A p \in temp \ stuck : pc[p] \in {"staged", "written", "linked", "killed"}

\* What List returns: each record that was there all through the call, unless
\* its own directory or its own file could not be read, and none that never
\* was there during it, whatever was created, removed, killed or cleaned
\* meanwhile: one unreadable namespace or record hides no other.
ListAccurate ==
  \A r \in Reader : Complete(scan[r]) =>
    /\ scan[r].due \subseteq scan[r].got
    /\ scan[r].got \subseteq scan[r].ever

-----------------------------------------------------------------------------
(* The registry implements NameClaims.                                     *)

ClaimStatus(p) ==
  IF pc[p] \in {"linked", "registered"} THEN "holding"
  ELSE IF pc[p] \in Ended THEN "gone" ELSE "idle"

Claims == INSTANCE NameClaims WITH
  NoOne <- NoFile, holder <- file,
  status <- [p \in Process |-> ClaimStatus(p)]

\* Linking claims the path, Handle.Remove releases it, and it releases the
\* path of its own run only: the file-level registry with all its failures
\* is an exclusive claim on a name.
ClaimsSpec == Claims!Spec

=============================================================================
