-------------------------- MODULE HostedInstances --------------------------
(***************************************************************************)
(* Runs of `authbridge exec` side by side: what they share is the registry *)
(* of instance records, the names of containers, and the host's ports.     *)
(*                                                                         *)
(* AuthbridgeExec has one run in detail, and InstanceRegistry has Create   *)
(* and Remove in detail; here a run's host starts in one or two steps and   *)
(* a record is claimed and given up in one, as NameClaims has it.           *)
(***************************************************************************)
EXTENDS ContainerRuntime

CONSTANTS
  Namespace,  \* namespaces of instance records
  Name,       \* instance names
  Second      \* timestamps, which `otel collect` names things after

VARIABLES
  job,     \* what each command was asked to do
  pc,      \* where it is
  record,  \* the instance records: the command each one was written by
  addr     \* the addresses a command has for its record, and then in it

hostedVars == <<job, pc, record, addr>>

-----------------------------------------------------------------------------

Path == Namespace \X Name

\* execArgs: the instance's namespace and name, whether the pipeline is
\* hosted in a container, and the inbound protocol: a2a for an agent.
Exec == [kind : {"exec"}, path : Path, contained : BOOLEAN, agent : BOOLEAN]

Collect == [kind : {"collect"}]

Job == Exec \cup Collect

\* NewContainerName: an instance's container is named after the instance
\* alone, not after its namespace.
ContainerName == ({"authbridge"} \X Name) \cup ({"otelcol"} \X Second)

ASSUME NamesAssumption == None \notin ContainerName

ProxyName(c) == <<"authbridge", job[c].path[2]>>

ExecStage == {"idle", "named", "started", "hosted", "registered", "running",
              "unregistering", "stopping", "removing"}
CollectStage == {"idle", "probed", "stamped", "written", "started", "recording"}
Over == {"refused", "failed", "done", "killed"}

RuntimeTypeOK ==
  /\ container \in [Command -> {"absent", "created", "running", "exited"}]
  /\ label \in [Command -> ContainerName \cup {None}]
  /\ bound \in [Command -> Binding]
  /\ \A c \in Command : label[c] = None <=> container[c] = "absent"

HostedTypeOK ==
  /\ job \in [Command -> Job]
  /\ pc \in [Command -> ExecStage \cup CollectStage \cup Over]
  /\ \A c \in Command : job[c].kind = "exec" => pc[c] \in ExecStage \cup Over
  /\ record \in [Path -> Command \cup {None}]
  /\ addr \in [Command -> Binding]

HostedInit ==
  /\ pc = [c \in Command |-> "idle"]
  /\ record = [k \in Path |-> None]
  /\ addr = [c \in Command |-> Unbound]

-----------------------------------------------------------------------------
(* One run, from its name to its end.                                      *)

Goto(c, from, to) ==
  /\ pc[c] = from
  /\ pc' = [pc EXCEPT ![c] = to]

ExecStep(c, from, to) ==
  /\ job[c].kind = "exec"
  /\ Goto(c, from, to)
  /\ UNCHANGED job

\* instanceName with --instanceName, whose Exists is advisory.
TakeGivenName(c) ==
  /\ ExecStep(c, "idle", IF record[job[c].path] = None THEN "named" ELSE "refused")
  /\ UNCHANGED <<record, addr, runtimeVars>>

\* instanceName without it: a name nobody asks the registry about.
TakeGeneratedName(c) ==
  /\ ExecStep(c, "idle", "named")
  /\ UNCHANGED <<record, addr, runtimeVars>>

\* startAuthbridgeHost: the reverse proxy binds the configured port, if it has
\* one, and there is no admin server.
OpenListeners(c) ==
  /\ ExecStep(c, "named", "hosted")
  /\ ~job[c].contained
  /\ \E rs \in {{}, {"inbound"}} : \E b \in Bindings(rs, Free) :
       /\ Open(c, b)
       /\ addr' = [addr EXCEPT ![c] = b]
  /\ UNCHANGED record

\* The configuration, a plugin, a port that is taken, or the runtime, which
\* refuses a name that is taken.
HostFails(c) ==
  /\ ExecStep(c, "named", "failed")
  /\ UNCHANGED <<record, addr, runtimeVars>>

\* runProxyContainer: ephemeral ports for the listeners of the config.
StartContainer(c) ==
  /\ ExecStep(c, "named", "started")
  /\ job[c].contained
  /\ \E rs \in SUBSET {"inbound", "admin"} : \E b \in Bindings(rs, Free \ {Otlp}) :
       Launch(c, ProxyName(c), b)
  /\ UNCHANGED <<record, addr>>

\* Altered: a container that could not be started is removed by its name.
ContainerHalfStarts_RemovesByName(c) ==
  /\ ExecStep(c, "named", "failed")
  /\ job[c].contained
  /\ \E d \in Command : label[d] = ProxyName(c) /\ Erase(d)
  /\ UNCHANGED <<record, addr>>

\* Start returns an error and the caller has no id to stop.
ContainerHalfStarts(c) ==
  /\ ExecStep(c, "named", "failed")
  /\ job[c].contained
  /\ LaunchHalf(c, ProxyName(c))
  /\ UNCHANGED <<record, addr>>

\* Altered: the addresses are read from the container's configuration.
InspectContainer_ReadsConfig(c) ==
  /\ ExecStep(c, "started", "hosted")
  /\ Runs(c)
  /\ \E b \in Binding : addr' = [addr EXCEPT ![c] = b]
  /\ UNCHANGED <<record, runtimeVars>>

\* Inspect, and the addresses on this host for the record.
InspectContainer(c) ==
  /\ ExecStep(c, "started", "hosted")
  /\ Runs(c)
  /\ addr' = [addr EXCEPT ![c] = bound[c]]
  /\ UNCHANGED <<record, runtimeVars>>

\* Inspect fails, or a container that exited has no port for the forward proxy:
\* fail stops what was started.
InspectFails(c) ==
  /\ ExecStep(c, "started", "stopping")
  /\ UNCHANGED <<record, addr, runtimeVars>>

\* Altered: os.Rename in Create.
Register_Replaces(c) ==
  /\ ExecStep(c, "hosted", "registered")
  /\ record' = [record EXCEPT ![job[c].path] = c]
  /\ UNCHANGED <<addr, runtimeVars>>

\* instances.Create.
Register(c) ==
  /\ ExecStep(c, "hosted", "registered")
  /\ record[job[c].path] = None
  /\ record' = [record EXCEPT ![job[c].path] = c]
  /\ UNCHANGED <<addr, runtimeVars>>

\* The CA of a container never comes, and fail stops it; a DuplicateError, or a
\* directory that cannot be written.
RegisterFails(c) ==
  /\ ExecStep(c, "hosted", "stopping")
  /\ addr' = [addr EXCEPT ![c] = Unbound]
  /\ UNCHANGED <<record, runtimeVars>>

StartChild(c) ==
  /\ ExecStep(c, "registered", "running")
  /\ UNCHANGED <<record, addr, runtimeVars>>

\* The child cannot be started, or --with-claude-otel finds no whole record of a
\* collector.
ChildFails(c) ==
  /\ ExecStep(c, "registered", "unregistering")
  /\ UNCHANGED <<record, addr, runtimeVars>>

\* runPassthrough returns.
ChildExits(c) ==
  /\ ExecStep(c, "running", "unregistering")
  /\ UNCHANGED <<record, addr, runtimeVars>>

\* Handle.Remove deletes the file of the name.
Unregister(c) ==
  /\ ExecStep(c, "unregistering", "stopping")
  /\ record' = [record EXCEPT ![job[c].path] = None]
  /\ addr' = [addr EXCEPT ![c] = Unbound]
  /\ UNCHANGED runtimeVars

UnregisterFails(c) ==
  /\ ExecStep(c, "unregistering", "stopping")
  /\ UNCHANGED <<record, addr, runtimeVars>>

\* host.stop of a pipeline in this process.
CloseListeners(c) ==
  /\ ExecStep(c, "stopping", "done")
  /\ ~job[c].contained
  /\ Close(c)
  /\ UNCHANGED <<record, addr>>

\* Engine.Stop goes on to rm -f whether or not the stop succeeded, and ends
\* without it when there is no such container.
StopContainer(c) ==
  /\ ExecStep(c, "stopping", IF container[c] = "absent" THEN "done" ELSE "removing")
  /\ job[c].contained
  /\ Halt(c) \/ UNCHANGED runtimeVars
  /\ UNCHANGED <<record, addr>>

RemoveContainer(c) ==
  /\ ExecStep(c, "removing", "done")
  /\ Erase(c)
  /\ UNCHANGED <<record, addr>>

\* A warning: the command's exit status is the child's.
RemoveFails(c) ==
  /\ ExecStep(c, "removing", "done")
  /\ UNCHANGED <<record, addr, runtimeVars>>

\* A signal outside the loop, SIGKILL or a panic: the listeners of the
\* process go with it, a container stays.
KillExec(c) ==
  /\ job[c].kind = "exec"
  /\ pc[c] \notin Over
  /\ pc' = [pc EXCEPT ![c] = "killed"]
  /\ IF job[c].contained THEN UNCHANGED runtimeVars ELSE Close(c)
  /\ UNCHANGED <<job, record, addr>>

\* The proxy crashes, or somebody stops it by hand.  exec does not notice.
ProxyExits(c) ==
  /\ job[c].kind = "exec"
  /\ Runs(c)
  /\ Halt(c)
  /\ UNCHANGED hostedVars

\* A leftover record is deleted by hand.
OperatorCleans(k) ==
  /\ record[k] # None
  /\ pc[record[k]] \in Over
  /\ record' = [record EXCEPT ![k] = None]
  /\ addr' = [addr EXCEPT ![record[k]] = Unbound]
  /\ UNCHANGED <<job, pc, runtimeVars>>

HostedNext ==
  \/ \E c \in Command :
       \/ TakeGivenName(c) \/ TakeGeneratedName(c)
       \/ OpenListeners(c) \/ HostFails(c)
       \/ StartContainer(c) \/ ContainerHalfStarts(c)
       \/ InspectContainer(c) \/ InspectFails(c)
       \/ Register(c) \/ RegisterFails(c)
       \/ StartChild(c) \/ ChildFails(c) \/ ChildExits(c)
       \/ Unregister(c) \/ UnregisterFails(c)
       \/ CloseListeners(c)
       \/ StopContainer(c) \/ RemoveContainer(c) \/ RemoveFails(c)
       \/ KillExec(c) \/ ProxyExits(c)
  \/ \E k \in Path : OperatorCleans(k)

=============================================================================
