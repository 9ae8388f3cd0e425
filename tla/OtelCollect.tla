---------------------------- MODULE OtelCollect ----------------------------
(***************************************************************************)
(* `otel collect`: probe the OTLP ports, write a configuration named after *)
(* the second, start the collector on that file, and record it in the one  *)
(* otel-config.yaml.  Nothing is locked: several commands do this at once,  *)
(* and a collector outlives the command that started it.                   *)
(***************************************************************************)
EXTENDS HostedInstances, Naturals

ASSUME SecondAssumption == Second \subseteq Nat \ {0} /\ None \notin Second

VARIABLES
  stamp,       \* the second each command named its file and container after
  configFile,  \* whose configuration each second's file has
  otelRecord,  \* whose collector otel-config.yaml names, if it is there
  late,        \* history: collectors that stopped before they were recorded
  raced        \* history: who had already begun when a collector came up

collectVars == <<stamp, configFile, otelRecord, late, raced>>

-----------------------------------------------------------------------------

CollectTypeOK ==
  /\ \A c \in Command : job[c].kind = "collect" =>
       /\ pc[c] \in CollectStage \cup Over
       /\ pc[c] \in {"stamped", "written"} => stamp[c] # None
  /\ stamp \in [Command -> Second \cup {None}]
  /\ configFile \in [Second -> Command \cup {None}]
  /\ otelRecord \in Command \cup {"absent", "torn"}
  /\ late \subseteq Command
  /\ raced \in [Command -> SUBSET Command]

CollectInit ==
  /\ stamp = [c \in Command |-> None]
  /\ configFile = [s \in Second |-> None]
  /\ otelRecord = "absent"
  /\ late = {}
  /\ raced = [c \in Command |-> {}]

-----------------------------------------------------------------------------

CollectStep(c, from, to) ==
  /\ job[c].kind = "collect"
  /\ Goto(c, from, to)
  /\ UNCHANGED <<job, record, addr>>

OtelBinding == [Unbound EXCEPT !["otlp"] = Otlp]

\* The clock does not go back.
Now(s) == \A c \in Command : stamp[c] # None => stamp[c] <= s

\* Altered: the ports are not looked at.
Probe_Skips(c) ==
  /\ CollectStep(c, "idle", "probed")
  /\ UNCHANGED <<collectVars, runtimeVars>>

\* PortsInUse finds nobody.
Probe(c) ==
  /\ CollectStep(c, "idle", "probed")
  /\ Otlp \in Free
  /\ UNCHANGED <<collectVars, runtimeVars>>

ProbeRefuses(c) ==
  /\ CollectStep(c, "idle", "refused")
  /\ Otlp \notin Free
  /\ UNCHANGED <<collectVars, runtimeVars>>

\* timeNowOtel: one time for both names.
TakeTime(c) ==
  /\ CollectStep(c, "probed", "stamped")
  /\ \E s \in Second : Now(s) /\ stamp' = [stamp EXCEPT ![c] = s]
  /\ UNCHANGED <<configFile, otelRecord, late, raced, runtimeVars>>

\* os.WriteFile replaces what another command of that second wrote.
WriteConfig(c) ==
  /\ CollectStep(c, "stamped", "written")
  /\ configFile' = [configFile EXCEPT ![stamp[c]] = c]
  /\ UNCHANGED <<stamp, otelRecord, late, raced, runtimeVars>>

\* The directory, the file, or no runtime on PATH.
WriteConfigFails(c) ==
  /\ CollectStep(c, "stamped", "failed")
  /\ configFile' \in {configFile, [configFile EXCEPT ![stamp[c]] = c]}
  /\ UNCHANGED <<stamp, otelRecord, late, raced, runtimeVars>>

\* The ports are fixed, so it comes up only while nobody has them.
StartCollector(c) ==
  /\ CollectStep(c, "written", "started")
  /\ Otlp \in Free
  /\ Launch(c, <<"otelcol", stamp[c]>>, OtelBinding)
  /\ raced' = [raced EXCEPT ![c] = {d \in Command : pc[d] # "idle"}]
  /\ UNCHANGED <<stamp, configFile, otelRecord, late>>

\* Altered: the record is written before the container is started.
StartCollectorFails_Recorded(c) ==
  /\ CollectStep(c, "written", "failed")
  /\ otelRecord' = c
  /\ UNCHANGED <<stamp, configFile, late, raced, runtimeVars>>

StartCollectorFails(c) ==
  /\ CollectStep(c, "written", "failed")
  /\ UNCHANGED <<collectVars, runtimeVars>>

CollectorHalfStarts(c) ==
  /\ CollectStep(c, "written", "failed")
  /\ LaunchHalf(c, <<"otelcol", stamp[c]>>)
  /\ UNCHANGED collectVars

\* WriteRecord: os.WriteFile truncates, and then writes.
OpenRecord(c) ==
  /\ CollectStep(c, "started", "recording")
  /\ otelRecord' = "torn"
  /\ UNCHANGED <<stamp, configFile, late, raced, runtimeVars>>

WriteRecord(c) ==
  /\ CollectStep(c, "recording", "done")
  /\ otelRecord' = c
  /\ UNCHANGED <<stamp, configFile, late, raced, runtimeVars>>

\* The error is returned, and the collector goes on.
RecordFails(c) ==
  /\ CollectStep(c, "started", "failed") \/ CollectStep(c, "recording", "failed")
  /\ UNCHANGED <<collectVars, runtimeVars>>

KillCollect(c) ==
  /\ job[c].kind = "collect"
  /\ pc[c] \notin Over
  /\ pc' = [pc EXCEPT ![c] = "killed"]
  /\ UNCHANGED <<job, record, addr, collectVars, runtimeVars>>

\* `docker stop`, as the command's last line says, or a crash.
CollectorExits(c) ==
  /\ job[c].kind = "collect"
  /\ Runs(c)
  /\ Halt(c)
  /\ late' = IF pc[c] \in {"started", "recording"} THEN late \cup {c} ELSE late
  /\ UNCHANGED <<hostedVars, stamp, configFile, otelRecord, raced>>

CollectNext ==
  \E c \in Command :
    \/ Probe(c) \/ ProbeRefuses(c) \/ TakeTime(c)
    \/ WriteConfig(c) \/ WriteConfigFails(c)
    \/ StartCollector(c) \/ StartCollectorFails(c) \/ CollectorHalfStarts(c)
    \/ OpenRecord(c) \/ WriteRecord(c) \/ RecordFails(c)
    \/ KillCollect(c) \/ CollectorExits(c)

-----------------------------------------------------------------------------

Collector(c) == job[c].kind = "collect" /\ Runs(c)

\* The record names the running collector once its command is done, however
\* many commands write it, unless a collector was stopped so early that its own
\* command wrote the record afterwards.
RecordNamesRunning ==
  \A c \in Command :
    Collector(c) /\ pc[c] = "done" /\ otelRecord # c => late \ {c} # {}

\* The configuration a running collector has mounted is rewritten only by a
\* command that had begun before the collector came up: the port probe keeps
\* a later command from a file of the same second.
LaterCollectKeepsConfig ==
  [][\A c \in Command :
       Collector(c) /\ configFile'[stamp[c]] # configFile[stamp[c]]
         => configFile'[stamp[c]] \in raced[c]]_<<job, container, configFile, raced, stamp>>

=============================================================================
