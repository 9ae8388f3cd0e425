-------------------------- MODULE LocalHostProofs --------------------------
(***************************************************************************)
(* Theorems about one machine, for any number of commands, ports, names    *)
(* and requests.                                                           *)
(***************************************************************************)
EXTENDS LocalHost, TLAPS

-----------------------------------------------------------------------------
(* The steps, by what they touch.                                          *)

\* The steps of a run that leave the containers, the ports and the records alone.
ExecWalks(c) ==
  \/ TakeGivenName(c) \/ TakeGeneratedName(c) \/ HostFails(c) \/ InspectFails(c)
  \/ StartChild(c) \/ ChildFails(c) \/ ChildExits(c)
  \/ UnregisterFails(c) \/ RemoveFails(c)

\* The steps of a collecting command that do.
CollectWalks(c) ==
  \/ Probe(c) \/ ProbeRefuses(c) \/ TakeTime(c) \/ WriteConfig(c) \/ WriteConfigFails(c)
  \/ StartCollectorFails(c) \/ OpenRecord(c) \/ WriteRecord(c) \/ RecordFails(c)
  \/ KillCollect(c)

\* The steps that touch them.
ExecActs(c) ==
  \/ OpenListeners(c) \/ StartContainer(c) \/ ContainerHalfStarts(c)
  \/ InspectContainer(c) \/ Register(c) \/ RegisterFails(c) \/ Unregister(c)
  \/ CloseListeners(c) \/ StopContainer(c) \/ RemoveContainer(c)
  \/ KillExec(c) \/ ProxyExits(c)

CollectActs(c) == StartCollector(c) \/ CollectorHalfStarts(c) \/ CollectorExits(c)

LookupStep(r, k) ==
  \/ LookupMisses(r, k) \/ LookupFails(r, k) \/ AnswerFromRecord(r, k)
  \/ \E role \in Fetched : NothingToFetchFrom(r, k, role)

ServedStep(r) ==
  \/ \E k \in Path : LookupStep(r, k)
  \/ \E k \in Path, role \in Fetched : BeginFetch(r, k, role)
  \/ FetchAnswered(r) \/ FetchFails(r)

\* A step of Next is one of these, and leaves the rest alone.
LEMMA StepCases ==
  Next =>
    \/ (\E c \in Command : ExecWalks(c) \/ ExecActs(c)) /\ UNCHANGED <<collectVars, servedVars>>
    \/ (\E k \in Path : OperatorCleans(k)) /\ UNCHANGED <<collectVars, servedVars>>
    \/ (\E c \in Command : CollectWalks(c) \/ CollectActs(c)) /\ UNCHANGED servedVars
    \/ (\E r \in Client : ServedStep(r)) /\ UNCHANGED <<runtimeVars, hostedVars, collectVars>>
    \/ (\E c \in Command : Prune(c)) /\ UNCHANGED <<collectVars, servedVars>>
<1>1. HostedNext => (\E c \in Command : ExecWalks(c) \/ ExecActs(c)) \/ \E k \in Path : OperatorCleans(k)
  BY DEF HostedNext, ExecWalks, ExecActs
<1>2. CollectNext => \E c \in Command : CollectWalks(c) \/ CollectActs(c)
  BY DEF CollectNext, CollectWalks, CollectActs
<1>3. ServedNext => \E r \in Client : ServedStep(r)
  BY DEF ServedNext, ServedStep, LookupStep
<1>4. \A r \in Client : ServedStep(r) => UNCHANGED <<runtimeVars, hostedVars>>
  BY DEF ServedStep, LookupStep, LookupMisses, LookupFails, AnswerFromRecord,
         NothingToFetchFrom, BeginFetch, EndFetch, FetchAnswered, FetchFails, Respond
<1> QED  BY <1>1, <1>2, <1>3, <1>4 DEF Next

\* What the walking steps do to the command that takes them.
LEMMA WalksMove ==
  ASSUME TypeOK, NEW c \in Command, ExecWalks(c) \/ CollectWalks(c)
  PROVE  /\ UNCHANGED <<job, record, addr, container, label, bound>>
         /\ \E to : pc' = [pc EXCEPT ![c] = to]
         /\ CollectWalks(c) =>
              /\ job[c].kind = "collect"
              /\ pc'[c] \in {"idle", "probed", "stamped", "written"} =>
                   pc[c] \in {"idle", "probed", "stamped"}
         /\ ExecWalks(c) =>
              /\ job[c].kind = "exec"
              /\ <<pc[c], pc'[c]>> \in
                   {<<"idle", "named">>, <<"idle", "refused">>, <<"named", "failed">>,
                    <<"started", "stopping">>, <<"registered", "running">>,
                    <<"registered", "unregistering">>, <<"running", "unregistering">>,
                    <<"unregistering", "stopping">>, <<"removing", "done">>}
BY DEF TypeOK, HostedTypeOK, ExecWalks, CollectWalks, TakeGivenName, TakeGeneratedName,
       HostFails, InspectFails, StartChild, ChildFails, ChildExits, UnregisterFails,
       RemoveFails, Probe, ProbeRefuses, TakeTime, WriteConfig, WriteConfigFails, StartCollectorFails,
       OpenRecord, WriteRecord, RecordFails, KillCollect, ExecStep, CollectStep, Goto,
       runtimeVars, hostedVars, collectVars

-----------------------------------------------------------------------------
(* Type correctness.                                                       *)

LEMMA UnboundType == Unbound \in Binding
BY DEF Unbound, Binding

LEMMA OtelBindingType == OtelBinding \in Binding
BY PortAssumption DEF OtelBinding, Unbound, Binding, Role

LEMMA LaunchType ==
  ASSUME RuntimeTypeOK, NEW c \in Command, NEW n \in ContainerName, NEW b \in Binding,
         Launch(c, n, b)
  PROVE  RuntimeTypeOK'
BY NamesAssumption DEF RuntimeTypeOK, Launch

LEMMA LaunchHalfType ==
  ASSUME RuntimeTypeOK, NEW c \in Command, NEW n \in ContainerName, LaunchHalf(c, n)
  PROVE  RuntimeTypeOK'
BY NamesAssumption DEF RuntimeTypeOK, LaunchHalf

LEMMA NamesType ==
  ASSUME TypeOK, NEW c \in Command
  PROVE  /\ job[c].kind = "exec" =>
              /\ job[c].path \in Path
              /\ ProxyName(c) \in ContainerName
         /\ job[c].kind = "collect" /\ pc[c] = "written" =>
              <<"otelcol", stamp[c]>> \in ContainerName
BY DEF TypeOK, HostedTypeOK, CollectTypeOK, Job, Exec, Collect, Path, ProxyName, ContainerName

LEMMA ExecWalksType ==
  ASSUME TypeOK, NEW c \in Command, ExecWalks(c), UNCHANGED <<collectVars, servedVars>>
  PROVE  TypeOK'
<1> USE DEF TypeOK, HostedTypeOK, CollectTypeOK, ServedTypeOK, collectVars, servedVars
<1>1. /\ UNCHANGED <<job, record, addr, container, label, bound>>
      /\ job[c].kind = "exec"
      /\ pc'[c] \in ExecStage \cup Over
  BY WalksMove DEF ExecStage, Over
<1>2. PICK to : pc' = [pc EXCEPT ![c] = to]
  BY WalksMove
<1>3. RuntimeTypeOK' /\ CollectTypeOK' /\ ServedTypeOK'
  BY <1>1, <1>2 DEF RuntimeTypeOK
<1>4. HostedTypeOK'
  BY <1>1, <1>2
<1> QED  BY <1>3, <1>4

LEMMA ExecActsType ==
  ASSUME TypeOK, NEW c \in Command, ExecActs(c), UNCHANGED <<collectVars, servedVars>>
  PROVE  TypeOK'
<1> USE DEF TypeOK, HostedTypeOK, CollectTypeOK, ServedTypeOK, ExecStage, CollectStage, Over,
            ExecStep, CollectStep, Goto, runtimeVars, hostedVars, collectVars, servedVars
<1>1. CASE OpenListeners(c)
  <2>1. PICK b \in Binding : Open(c, b) /\ addr' = [addr EXCEPT ![c] = b]
    BY <1>1 DEF OpenListeners, Bindings
  <2> QED  BY <1>1, <2>1 DEF OpenListeners, Open, RuntimeTypeOK
<1>2. CASE StartContainer(c)
  <2>1. PICK b \in Binding : Launch(c, ProxyName(c), b)
    BY <1>2 DEF StartContainer, Bindings
  <2>2. RuntimeTypeOK'
    BY <1>2, <2>1, NamesType, LaunchType DEF StartContainer
  <2> QED  BY <1>2, <2>2 DEF StartContainer
<1>3. CASE ContainerHalfStarts(c)
  <2>1. RuntimeTypeOK'
    BY <1>3, NamesType, LaunchHalfType DEF ContainerHalfStarts
  <2> QED  BY <1>3, <2>1 DEF ContainerHalfStarts
<1>4. CASE InspectContainer(c)
  BY <1>4 DEF InspectContainer, RuntimeTypeOK
<1>5. CASE Register(c)
  BY <1>5, NamesType DEF Register, RuntimeTypeOK
<1>6. CASE RegisterFails(c)
  BY <1>6, UnboundType DEF RegisterFails, RuntimeTypeOK
<1>7. CASE Unregister(c)
  BY <1>7, NamesType, UnboundType DEF Unregister, RuntimeTypeOK
<1>8. CASE CloseListeners(c)
  BY <1>8, UnboundType DEF CloseListeners, RuntimeTypeOK, Close
<1>9. CASE StopContainer(c)
  BY <1>9, UnboundType DEF StopContainer, RuntimeTypeOK, Halt, Runs
<1>10. CASE RemoveContainer(c)
  BY <1>10, UnboundType DEF RemoveContainer, RuntimeTypeOK, Erase
<1>11. CASE KillExec(c)
  BY <1>11, UnboundType DEF KillExec, RuntimeTypeOK, Close
<1>12. CASE ProxyExits(c)
  BY <1>12, UnboundType DEF ProxyExits, RuntimeTypeOK, Halt, Runs
<1> QED  BY <1>1, <1>2, <1>3, <1>4, <1>5, <1>6, <1>7, <1>8, <1>9, <1>10, <1>11, <1>12 DEF ExecActs

LEMMA CollectType ==
  ASSUME TypeOK, NEW c \in Command, CollectWalks(c) \/ CollectActs(c), UNCHANGED servedVars
  PROVE  TypeOK'
<1> USE DEF TypeOK, HostedTypeOK, CollectTypeOK, ServedTypeOK, ExecStage, CollectStage, Over,
            ExecStep, CollectStep, Goto, runtimeVars, hostedVars, collectVars, servedVars
<1>1. CASE Probe(c)
  BY <1>1 DEF Probe, RuntimeTypeOK
<1>2. CASE ProbeRefuses(c) \/ TakeTime(c)
  BY <1>2, SecondAssumption DEF ProbeRefuses, TakeTime, RuntimeTypeOK
<1>3. CASE WriteConfig(c)
  BY <1>3 DEF WriteConfig, RuntimeTypeOK
<1>4. CASE WriteConfigFails(c)
  BY <1>4 DEF WriteConfigFails, RuntimeTypeOK
<1>5. CASE StartCollector(c)
  <2>1. RuntimeTypeOK'
    BY <1>5, NamesType, LaunchType, OtelBindingType DEF StartCollector
  <2> QED  BY <1>5, <2>1 DEF StartCollector
<1>6. CASE StartCollectorFails(c)
  BY <1>6 DEF StartCollectorFails, RuntimeTypeOK
<1>7. CASE CollectorHalfStarts(c)
  <2>1. RuntimeTypeOK'
    BY <1>7, NamesType, LaunchHalfType DEF CollectorHalfStarts
  <2> QED  BY <1>7, <2>1 DEF CollectorHalfStarts
<1>8. CASE OpenRecord(c)
  BY <1>8 DEF OpenRecord, RuntimeTypeOK
<1>9. CASE WriteRecord(c)
  BY <1>9 DEF WriteRecord, RuntimeTypeOK
<1>10. CASE RecordFails(c)
  <2>1. pc' = [pc EXCEPT ![c] = "failed"] /\ UNCHANGED <<job, record, addr, collectVars, runtimeVars>>
    BY <1>10 DEF RecordFails
  <2> QED  BY <2>1 DEF RuntimeTypeOK
<1>11. CASE KillCollect(c)
  BY <1>11 DEF KillCollect, RuntimeTypeOK
<1>12. CASE CollectorExits(c)
  BY <1>12, UnboundType DEF CollectorExits, RuntimeTypeOK, Halt, Runs
<1> QED  BY <1>1, <1>2, <1>3, <1>4, <1>5, <1>6, <1>7, <1>8, <1>9, <1>10, <1>11, <1>12 DEF CollectWalks, CollectActs

LEMMA ServedType ==
  ASSUME TypeOK, NEW r \in Client, ServedStep(r), UNCHANGED <<runtimeVars, hostedVars, collectVars>>
  PROVE  TypeOK'
<1> USE DEF ServedStep, LookupStep, LookupMisses, LookupFails, AnswerFromRecord,
            NothingToFetchFrom, BeginFetch, EndFetch, FetchAnswered, FetchFails, Respond, Finds
<1>1. RuntimeTypeOK' /\ HostedTypeOK' /\ CollectTypeOK'
  BY DEF TypeOK, RuntimeTypeOK, HostedTypeOK, CollectTypeOK, runtimeVars, hostedVars, collectVars
<1>2. PICK response \in {"idle", "fetching"} \cup Response : request' = [request EXCEPT ![r] = response]
  BY DEF Response
<1>3. found' \in [Client -> Command \cup {None}] /\ relayed' \in [Client -> Command \cup {None}]
  BY DEF TypeOK, HostedTypeOK, ServedTypeOK
<1>4. target' \in [Client -> (Port \X Fetched) \cup {None}]
  <2>1. ASSUME NEW k \in Path, NEW role \in Fetched, BeginFetch(r, k, role)
        PROVE  target' \in [Client -> (Port \X Fetched) \cup {None}]
    <3>1. addr[record[k]][role] \in Port
      BY <2>1 DEF TypeOK, HostedTypeOK, Fetched, Binding, Role
    <3> QED  BY <2>1, <3>1 DEF TypeOK, ServedTypeOK
  <2>2. \/ target' = target \/ target' = [target EXCEPT ![r] = None]
        \/ \E k \in Path, role \in Fetched : BeginFetch(r, k, role)
    OBVIOUS
  <2> QED  BY <2>1, <2>2 DEF TypeOK, ServedTypeOK
<1> QED  BY <1>1, <1>2, <1>3, <1>4 DEF TypeOK, ServedTypeOK

LEMMA OthersType ==
  ASSUME TypeOK, UNCHANGED <<collectVars, servedVars>>,
         (\E k \in Path : OperatorCleans(k)) \/ (\E c \in Command : Prune(c)) \/ UNCHANGED vars
  PROVE  TypeOK'
<1> USE DEF TypeOK, HostedTypeOK, CollectTypeOK, ServedTypeOK,
            runtimeVars, hostedVars, collectVars, servedVars
<1>1. ASSUME NEW k \in Path, OperatorCleans(k) PROVE TypeOK'
  BY <1>1, UnboundType DEF OperatorCleans, RuntimeTypeOK
<1>2. ASSUME NEW c \in Command, Prune(c) PROVE TypeOK'
  BY <1>2, UnboundType DEF Prune, UserRemoves, Erase, RuntimeTypeOK
<1>3. CASE UNCHANGED vars
  BY <1>3 DEF vars, RuntimeTypeOK
<1> QED  BY <1>1, <1>2, <1>3

LEMMA TypeStep == TypeOK /\ [Next]_vars => TypeOK'
<1> SUFFICES ASSUME TypeOK, [Next]_vars PROVE TypeOK'
  OBVIOUS
<1>1. CASE Next
  BY <1>1, StepCases, ExecWalksType, ExecActsType, CollectType, ServedType, OthersType
<1>2. CASE UNCHANGED vars
  BY <1>2, OthersType DEF vars
<1> QED  BY <1>1, <1>2

LEMMA InitType == Init => TypeOK
<1> SUFFICES ASSUME Init PROVE TypeOK
  OBVIOUS
<1> USE DEF Init, RuntimeInit, HostedInit, CollectInit, ServedInit
<1>1. RuntimeTypeOK
  BY UnboundType DEF RuntimeTypeOK
<1>2. HostedTypeOK
  BY UnboundType, JobsAssumption DEF HostedTypeOK, ExecStage
<1>3. CollectTypeOK
  BY DEF CollectTypeOK, CollectStage
<1>4. ServedTypeOK
  BY DEF ServedTypeOK
<1> QED  BY <1>1, <1>2, <1>3, <1>4 DEF TypeOK

-----------------------------------------------------------------------------
(* What the hosts of instances have, and what the records say of them.     *)

\* A record's addresses are its host's, while the host is up; before it is
\* started a command has none.
OwnAddresses ==
  \A c \in Command : addr[c] # Unbound =>
    /\ job[c].kind = "exec"
    /\ pc[c] \notin {"idle", "named", "started"}
    /\ HostUp(c) => addr[c] = bound[c]

\* Only a command that is told to has a container, and only once it started it.
OwnContainer ==
  \A c \in Command : container[c] # "absent" =>
    /\ job[c].kind = "exec" => job[c].contained /\ pc[c] \notin {"idle", "named"}
    /\ job[c].kind = "collect" => pc[c] \notin {"idle", "probed", "stamped", "written"}

Holding == {"registered", "running", "unregistering"}

\* A record is the one of a run of that name, and a run that has not
\* unregistered has it.
OwnRecord ==
  /\ \A k \in Path : record[k] # None =>
       /\ job[record[k]].kind = "exec"
       /\ job[record[k]].path = k
       /\ pc[record[k]] \in Holding \cup {"stopping", "removing", "done", "killed"}
  /\ \A c \in Command : job[c].kind = "exec" /\ pc[c] \in Holding =>
       record[job[c].path] = c

\* Nobody has a port that somebody else has.
OwnPorts ==
  \A c, d \in Command : c # d =>
    \A r, s \in Role : bound[c][r] # None => bound[c][r] # bound[d][s]

Hosting == OwnAddresses /\ OwnContainer /\ OwnRecord /\ OwnPorts

LEMMA UnboundPorts ==
  ASSUME TypeOK, OwnPorts, NEW c \in Command, bound' = [bound EXCEPT ![c] = Unbound]
  PROVE  OwnPorts'
BY DEF TypeOK, RuntimeTypeOK, OwnPorts, Unbound, Binding

LEMMA FreePorts ==
  ASSUME TypeOK, OwnPorts, NEW c \in Command, NEW b \in Binding,
         \A r \in Role : b[r] # None => b[r] \in Free,
         bound' = [bound EXCEPT ![c] = b]
  PROVE  OwnPorts'
<1>1. \A d \in Command, r, s \in Role : b[r] # None => b[r] # bound[d][s]
  BY DEF Free, Held
<1> QED  BY <1>1 DEF TypeOK, RuntimeTypeOK, OwnPorts

LEMMA WalksHosting ==
  ASSUME TypeOK, Hosting, NEW c \in Command, ExecWalks(c) \/ CollectWalks(c)
  PROVE  Hosting'
<1> USE WalksMove DEF TypeOK, HostedTypeOK, ExecStage, CollectStage, Over, Hosting
<1>1. OwnAddresses'
  <2>1. CASE ExecWalks(c)
    BY <2>1 DEF OwnAddresses, HostUp, Runs
  <2>2. CASE CollectWalks(c)
    BY <2>2 DEF OwnAddresses, HostUp, Runs
  <2> QED  BY <2>1, <2>2
<1>2. OwnContainer'
  BY DEF OwnContainer
<1>3. OwnRecord'
  BY DEF OwnRecord, Holding
<1>4. OwnPorts'
  BY DEF OwnPorts
<1> QED  BY <1>1, <1>2, <1>3, <1>4

LEMMA ActsHosting ==
  ASSUME TypeOK, Hosting, NEW c \in Command, ExecActs(c) \/ CollectActs(c)
  PROVE  Hosting'
<1> USE DEF TypeOK, RuntimeTypeOK, HostedTypeOK, ExecStep, CollectStep, Goto,
            runtimeVars, hostedVars, Hosting
<1>1. CASE OpenListeners(c)
  <2>1. OwnAddresses'
    BY <1>1 DEF OpenListeners, Open, OwnAddresses, HostUp, Runs, Over
  <2>2. OwnContainer'
    BY <1>1 DEF OpenListeners, Open, OwnContainer, Runs, Over
  <2>3. OwnRecord'
    BY <1>1, NamesType DEF OpenListeners, Open, OwnRecord, Holding, Over
  <2>4. OwnPorts'
    <3>1. PICK b \in Binding : (\A r \in Role : b[r] # None => b[r] \in Free)
                             /\ bound' = [bound EXCEPT ![c] = b]
      BY <1>1 DEF OpenListeners, Open, Bindings
    <3> QED  BY <3>1, FreePorts
  <2> QED  BY <2>1, <2>2, <2>3, <2>4
<1>2. CASE StartContainer(c)
  <2>1. OwnAddresses'
    BY <1>2 DEF StartContainer, Launch, OwnAddresses, HostUp, Runs, Over
  <2>2. OwnContainer'
    BY <1>2 DEF StartContainer, Launch, OwnContainer, Runs, Over
  <2>3. OwnRecord'
    BY <1>2, NamesType DEF StartContainer, Launch, OwnRecord, Holding, Over
  <2>4. OwnPorts'
    <3>1. PICK b \in Binding : (\A r \in Role : b[r] # None => b[r] \in Free)
                             /\ bound' = [bound EXCEPT ![c] = b]
      BY <1>2 DEF StartContainer, Launch, Bindings
    <3> QED  BY <3>1, FreePorts
  <2> QED  BY <2>1, <2>2, <2>3, <2>4
<1>3. CASE ContainerHalfStarts(c)
  <2>1. OwnAddresses'
    BY <1>3 DEF ContainerHalfStarts, LaunchHalf, OwnAddresses, HostUp, Runs, Over
  <2>2. OwnContainer'
    BY <1>3 DEF ContainerHalfStarts, LaunchHalf, OwnContainer, Runs, Over
  <2>3. OwnRecord'
    BY <1>3, NamesType DEF ContainerHalfStarts, LaunchHalf, OwnRecord, Holding, Over
  <2>4. OwnPorts'
    BY <1>3 DEF ContainerHalfStarts, LaunchHalf, OwnPorts
  <2> QED  BY <2>1, <2>2, <2>3, <2>4
<1>4. CASE InspectContainer(c)
  <2>1. OwnAddresses'
    BY <1>4 DEF InspectContainer, OwnAddresses, HostUp, Runs, Over
  <2>2. OwnContainer'
    BY <1>4 DEF InspectContainer, OwnContainer, Runs, Over
  <2>3. OwnRecord'
    BY <1>4, NamesType DEF InspectContainer, OwnRecord, Holding, Over
  <2>4. OwnPorts'
    BY <1>4 DEF InspectContainer, OwnPorts
  <2> QED  BY <2>1, <2>2, <2>3, <2>4
<1>5. CASE Register(c)
  <2>1. OwnAddresses'
    BY <1>5 DEF Register, OwnAddresses, HostUp, Runs, Over
  <2>2. OwnContainer'
    BY <1>5 DEF Register, OwnContainer, Runs, Over
  <2>3. OwnRecord'
    <3> DEFINE p == job[c].path
    <3>1. p \in Path /\ record' = [record EXCEPT ![p] = c] /\ c # None
      BY <1>5, NamesType, PortAssumption DEF Register
    <3>2. ASSUME NEW k \in Path, record'[k] # None
          PROVE  /\ job'[record'[k]].kind = "exec"
                 /\ job'[record'[k]].path = k
                 /\ pc'[record'[k]] \in Holding \cup {"stopping", "removing", "done", "killed"}
      BY <1>5, <3>1, <3>2 DEF Register, OwnRecord, Holding
    <3>3. ASSUME NEW d \in Command, job'[d].kind = "exec", pc'[d] \in Holding
          PROVE  record'[job'[d].path] = d
      BY <1>5, <3>1, <3>3, PortAssumption DEF Register, OwnRecord, Holding
    <3> QED  BY <3>2, <3>3 DEF OwnRecord
  <2>4. OwnPorts'
    BY <1>5 DEF Register, OwnPorts
  <2> QED  BY <2>1, <2>2, <2>3, <2>4
<1>6. CASE RegisterFails(c)
  <2>1. OwnAddresses'
    BY <1>6 DEF RegisterFails, OwnAddresses, HostUp, Runs, Over
  <2>2. OwnContainer'
    BY <1>6 DEF RegisterFails, OwnContainer, Runs, Over
  <2>3. OwnRecord'
    BY <1>6, NamesType DEF RegisterFails, OwnRecord, Holding, Over
  <2>4. OwnPorts'
    BY <1>6 DEF RegisterFails, OwnPorts
  <2> QED  BY <2>1, <2>2, <2>3, <2>4
<1>7. CASE Unregister(c)
  <2>1. OwnAddresses'
    BY <1>7 DEF Unregister, OwnAddresses, HostUp, Runs, Over
  <2>2. OwnContainer'
    BY <1>7 DEF Unregister, OwnContainer, Runs, Over
  <2>3. OwnRecord'
    BY <1>7, NamesType DEF Unregister, OwnRecord, Holding, Over
  <2>4. OwnPorts'
    BY <1>7 DEF Unregister, OwnPorts
  <2> QED  BY <2>1, <2>2, <2>3, <2>4
<1>8. CASE CloseListeners(c)
  <2>1. OwnAddresses'
    BY <1>8 DEF CloseListeners, Close, OwnAddresses, HostUp, Runs, Over
  <2>2. OwnContainer'
    BY <1>8 DEF CloseListeners, Close, OwnContainer, Runs, Over
  <2>3. OwnRecord'
    BY <1>8, NamesType DEF CloseListeners, Close, OwnRecord, Holding, Over
  <2>4. OwnPorts'
    <3>1. bound' = bound \/ bound' = [bound EXCEPT ![c] = Unbound]
      BY <1>8 DEF CloseListeners, Close
    <3> QED  BY <3>1, UnboundPorts DEF OwnPorts
  <2> QED  BY <2>1, <2>2, <2>3, <2>4
<1>9. CASE StopContainer(c)
  <2>1. OwnAddresses'
    BY <1>9 DEF StopContainer, Halt, OwnAddresses, HostUp, Runs, Over
  <2>2. OwnContainer'
    BY <1>9 DEF StopContainer, Halt, OwnContainer, Runs, Over
  <2>3. OwnRecord'
    BY <1>9, NamesType DEF StopContainer, Halt, OwnRecord, Holding, Over
  <2>4. OwnPorts'
    <3>1. bound' = bound \/ bound' = [bound EXCEPT ![c] = Unbound]
      BY <1>9 DEF StopContainer, Halt
    <3> QED  BY <3>1, UnboundPorts DEF OwnPorts
  <2> QED  BY <2>1, <2>2, <2>3, <2>4
<1>10. CASE RemoveContainer(c)
  <2>1. OwnAddresses'
    BY <1>10 DEF RemoveContainer, Erase, OwnAddresses, HostUp, Runs, Over
  <2>2. OwnContainer'
    BY <1>10 DEF RemoveContainer, Erase, OwnContainer, Runs, Over
  <2>3. OwnRecord'
    BY <1>10, NamesType DEF RemoveContainer, Erase, OwnRecord, Holding, Over
  <2>4. OwnPorts'
    <3>1. bound' = bound \/ bound' = [bound EXCEPT ![c] = Unbound]
      BY <1>10 DEF RemoveContainer, Erase
    <3> QED  BY <3>1, UnboundPorts DEF OwnPorts
  <2> QED  BY <2>1, <2>2, <2>3, <2>4
<1>11. CASE KillExec(c)
  <2>1. OwnAddresses'
    BY <1>11 DEF KillExec, Close, OwnAddresses, HostUp, Runs, Over
  <2>2. OwnContainer'
    BY <1>11 DEF KillExec, Close, OwnContainer, Runs, Over
  <2>3. OwnRecord'
    BY <1>11, NamesType DEF KillExec, Close, OwnRecord, Holding, Over
  <2>4. OwnPorts'
    <3>1. bound' = bound \/ bound' = [bound EXCEPT ![c] = Unbound]
      BY <1>11 DEF KillExec, Close
    <3> QED  BY <3>1, UnboundPorts DEF OwnPorts
  <2> QED  BY <2>1, <2>2, <2>3, <2>4
<1>12. CASE ProxyExits(c)
  <2>1. OwnAddresses'
    BY <1>12 DEF ProxyExits, Halt, OwnAddresses, HostUp, Runs, Over, OwnContainer
  <2>2. OwnContainer'
    BY <1>12 DEF ProxyExits, Halt, OwnContainer, Runs, Over
  <2>3. OwnRecord'
    BY <1>12, NamesType DEF ProxyExits, Halt, OwnRecord, Holding, Over
  <2>4. OwnPorts'
    <3>1. bound' = bound \/ bound' = [bound EXCEPT ![c] = Unbound]
      BY <1>12 DEF ProxyExits, Halt
    <3> QED  BY <3>1, UnboundPorts DEF OwnPorts
  <2> QED  BY <2>1, <2>2, <2>3, <2>4
<1>13. CASE StartCollector(c)
  <2>1. OwnAddresses'
    BY <1>13 DEF StartCollector, Launch, OwnAddresses, HostUp, Runs, Over
  <2>2. OwnContainer'
    BY <1>13 DEF StartCollector, Launch, OwnContainer, Runs, Over
  <2>3. OwnRecord'
    BY <1>13, NamesType DEF StartCollector, Launch, OwnRecord, Holding, Over
  <2>4. OwnPorts'
    <3>1. bound' = [bound EXCEPT ![c] = OtelBinding] /\ Otlp \in Free
      BY <1>13 DEF StartCollector, Launch
    <3>2. \A r \in Role : OtelBinding[r] # None => OtelBinding[r] \in Free
      BY <3>1 DEF OtelBinding, Unbound
    <3> QED  BY <3>1, <3>2, FreePorts, OtelBindingType
  <2> QED  BY <2>1, <2>2, <2>3, <2>4
<1>14. CASE CollectorHalfStarts(c)
  <2>1. OwnAddresses'
    BY <1>14 DEF CollectorHalfStarts, LaunchHalf, OwnAddresses, HostUp, Runs, Over
  <2>2. OwnContainer'
    BY <1>14 DEF CollectorHalfStarts, LaunchHalf, OwnContainer, Runs, Over
  <2>3. OwnRecord'
    BY <1>14, NamesType DEF CollectorHalfStarts, LaunchHalf, OwnRecord, Holding, Over
  <2>4. OwnPorts'
    BY <1>14 DEF CollectorHalfStarts, LaunchHalf, OwnPorts
  <2> QED  BY <2>1, <2>2, <2>3, <2>4
<1>15. CASE CollectorExits(c)
  <2>1. OwnAddresses'
    BY <1>15 DEF CollectorExits, Halt, OwnAddresses, HostUp, Runs, Over
  <2>2. OwnContainer'
    BY <1>15 DEF CollectorExits, Halt, OwnContainer, Runs, Over
  <2>3. OwnRecord'
    BY <1>15, NamesType DEF CollectorExits, Halt, OwnRecord, Holding, Over
  <2>4. OwnPorts'
    <3>1. bound' = bound \/ bound' = [bound EXCEPT ![c] = Unbound]
      BY <1>15 DEF CollectorExits, Halt
    <3> QED  BY <3>1, UnboundPorts DEF OwnPorts
  <2> QED  BY <2>1, <2>2, <2>3, <2>4
<1> QED  BY <1>1, <1>2, <1>3, <1>4, <1>5, <1>6, <1>7, <1>8, <1>9, <1>10, <1>11, <1>12, <1>13, <1>14, <1>15 DEF ExecActs, CollectActs

LEMMA HostingStep == TypeOK /\ Hosting /\ [Next]_vars => Hosting'
<1> SUFFICES ASSUME TypeOK, Hosting, [Next]_vars PROVE Hosting'
  OBVIOUS
<1>1. ASSUME NEW k \in Path, OperatorCleans(k) PROVE Hosting'
  <2> USE <1>1 DEF OperatorCleans, TypeOK, HostedTypeOK, runtimeVars, Hosting
  <2>1. OwnAddresses' /\ OwnContainer'
    BY DEF OwnAddresses, OwnContainer, HostUp, Runs
  <2>2. OwnRecord' /\ OwnPorts'
    BY DEF OwnRecord, OwnPorts, Holding, Over
  <2> QED  BY <2>1, <2>2
<1>2. ASSUME NEW c \in Command, Prune(c) PROVE Hosting'
  <2> USE <1>2 DEF Prune, UserRemoves, Erase, TypeOK, RuntimeTypeOK, HostedTypeOK, hostedVars, Hosting
  <2>1. OwnAddresses' /\ OwnContainer'
    BY DEF OwnAddresses, OwnContainer, HostUp, Runs
  <2>2. OwnRecord' /\ OwnPorts'
    BY UnboundPorts DEF OwnRecord
  <2> QED  BY <2>1, <2>2
<1>3. CASE UNCHANGED <<runtimeVars, hostedVars>>
  BY <1>3 DEF runtimeVars, hostedVars, Hosting, OwnAddresses, OwnContainer, OwnRecord, OwnPorts, HostUp, Runs
<1>4. CASE Next
  BY <1>1, <1>2, <1>3, <1>4, StepCases, WalksHosting, ActsHosting
<1> QED  BY <1>3, <1>4 DEF vars

LEMMA InitHosting == Init => Hosting
BY DEF Init, RuntimeInit, HostedInit, Hosting, OwnAddresses, OwnContainer, OwnRecord, OwnPorts,
       Unbound, Holding

LEMMA HostingIsTrue == TypeOK /\ Hosting => RecordIsTrue
<1> SUFFICES ASSUME TypeOK, Hosting, NEW k \in Path, record[k] # None, HostUp(record[k]),
                    NEW role \in Role
             PROVE  /\ job[record[k]].path = k
                    /\ addr[record[k]][role] # None =>
                         /\ bound[record[k]][role] = addr[record[k]][role]
                         /\ \A d \in Command \ {record[k]} : addr[record[k]][role] \notin Held(d)
  BY DEF RecordIsTrue, Role
<1> DEFINE c == record[k]
<1>1. c \in Command /\ job[c].path = k
  BY DEF TypeOK, HostedTypeOK, Hosting, OwnRecord
<1>2. ASSUME addr[c][role] # None PROVE bound[c][role] = addr[c][role]
  BY <1>1, <1>2 DEF Hosting, OwnAddresses, Unbound
<1>3. ASSUME addr[c][role] # None, NEW d \in Command \ {c} PROVE addr[c][role] \notin Held(d)
  BY <1>1, <1>2, <1>3 DEF Hosting, OwnPorts, Held
<1> QED  BY <1>1, <1>2, <1>3

-----------------------------------------------------------------------------
(* What the server relays.                                                 *)

\* The run got as far as having a host, or it is over.
Past(c) == job[c].kind = "exec" /\ pc[c] \notin {"idle", "named", "started"}

\* From then on its host does not come up again, and has the ports it had.
Stays(c) == Past(c)' /\ (HostUp(c)' => HostUp(c) /\ bound'[c] = bound[c])

\* A fetch goes to the address its instance's host has, while that is up.
Serving ==
  \A r \in Client :
    /\ found[r] # None => Past(found[r])
    /\ relayed[r] # None =>
         /\ request[r] \notin {"idle", "fetching"}
         /\ found[r] # None
         /\ relayed[r] # found[r] => ~HostUp(found[r])
    /\ request[r] = "fetching" =>
         /\ found[r] # None /\ target[r] \in Port \X Fetched
         /\ HostUp(found[r]) => bound[found[r]][target[r][2]] = target[r][1]

LEMMA ActsStay ==
  ASSUME TypeOK, Hosting, NEW d \in Command, Past(d),
         NEW c \in Command, ExecActs(c) \/ CollectActs(c)
  PROVE  Stays(d)
<1> USE DEF TypeOK, RuntimeTypeOK, HostedTypeOK, ExecStep, CollectStep, Goto, Past, Stays,
            HostUp, Runs, Over, ExecStage, runtimeVars, hostedVars
<1>1. CASE OpenListeners(c)
  BY <1>1 DEF OpenListeners, Open
<1>2. CASE StartContainer(c)
  BY <1>2 DEF StartContainer, Launch
<1>3. CASE ContainerHalfStarts(c)
  BY <1>3 DEF ContainerHalfStarts, LaunchHalf
<1>4. CASE InspectContainer(c)
  BY <1>4 DEF InspectContainer
<1>5. CASE Register(c)
  BY <1>5 DEF Register
<1>6. CASE RegisterFails(c)
  BY <1>6 DEF RegisterFails
<1>7. CASE Unregister(c)
  BY <1>7 DEF Unregister
<1>8. CASE CloseListeners(c)
  BY <1>8 DEF CloseListeners, Close, Hosting, OwnContainer
<1>9. CASE StopContainer(c)
  BY <1>9 DEF StopContainer, Halt
<1>10. CASE RemoveContainer(c)
  BY <1>10 DEF RemoveContainer, Erase
<1>11. CASE KillExec(c)
  BY <1>11 DEF KillExec, Close, Hosting, OwnContainer
<1>12. CASE ProxyExits(c)
  BY <1>12 DEF ProxyExits, Halt, Hosting, OwnContainer
<1>13. CASE StartCollector(c)
  BY <1>13 DEF StartCollector, Launch
<1>14. CASE CollectorHalfStarts(c)
  BY <1>14 DEF CollectorHalfStarts, LaunchHalf
<1>15. CASE CollectorExits(c)
  BY <1>15 DEF CollectorExits, Halt
<1> QED  BY <1>1, <1>2, <1>3, <1>4, <1>5, <1>6, <1>7, <1>8, <1>9, <1>10, <1>11, <1>12, <1>13, <1>14, <1>15 DEF ExecActs, CollectActs

LEMMA WalksStay ==
  ASSUME TypeOK, NEW d \in Command, Past(d), NEW c \in Command, ExecWalks(c) \/ CollectWalks(c)
  PROVE  Stays(d)
<1> USE WalksMove DEF TypeOK, HostedTypeOK, Past, Stays, HostUp, Runs
<1>1. CASE ExecWalks(c)
  BY <1>1
<1>2. CASE CollectWalks(c)
  BY <1>2
<1> QED  BY <1>1, <1>2

LEMMA HostStays ==
  ASSUME TypeOK, Hosting, [Next]_vars, NEW c \in Command, Past(c)
  PROVE  Stays(c)
<1>1. ASSUME NEW k \in Path, OperatorCleans(k) PROVE Stays(c)
  BY <1>1 DEF OperatorCleans, Past, Stays, HostUp, Runs, runtimeVars
<1>2. ASSUME NEW d \in Command, Prune(d) PROVE Stays(c)
  BY <1>2 DEF Prune, UserRemoves, Erase, Past, Stays, HostUp, Runs, hostedVars,
              TypeOK, RuntimeTypeOK, Hosting, OwnContainer
<1>3. CASE UNCHANGED <<runtimeVars, hostedVars>>
  BY <1>3 DEF runtimeVars, hostedVars, Past, Stays, HostUp, Runs
<1>4. CASE Next
  BY <1>1, <1>2, <1>3, <1>4, StepCases, WalksStay, ActsStay
<1> QED  BY <1>3, <1>4 DEF vars

LEMMA ServedServing ==
  ASSUME TypeOK, Hosting, Serving, NEW r \in Client, ServedStep(r),
         UNCHANGED <<runtimeVars, hostedVars, collectVars>>
  PROVE  Serving'
<1> USE DEF TypeOK, HostedTypeOK, ServedTypeOK, runtimeVars, hostedVars, Respond, Finds, Serving,
            Past, HostUp, Runs
<1>1. ASSUME NEW k \in Path, record[k] # None
      PROVE  record[k] \in Command /\ Past(record[k])
  BY <1>1 DEF Hosting, OwnRecord, Holding
<1>2. ASSUME NEW k \in Path, LookupStep(r, k) PROVE Serving'
  BY <1>1, <1>2 DEF LookupStep, LookupMisses, LookupFails, AnswerFromRecord, NothingToFetchFrom
<1>3. ASSUME NEW k \in Path, NEW role \in Fetched, BeginFetch(r, k, role) PROVE Serving'
  <2> DEFINE c == record[k]
  <2>1. c \in Command /\ c # None /\ Past(c) /\ addr[c][role] # None
    BY <1>1, <1>3 DEF BeginFetch
  <2>2. HostUp(c) => bound[c][role] = addr[c][role]
    BY <2>1 DEF Hosting, OwnAddresses, Unbound, Fetched, Role
  <2>3. /\ found' = [found EXCEPT ![r] = c]
        /\ target' = [target EXCEPT ![r] = <<addr[c][role], role>>]
        /\ request' = [request EXCEPT ![r] = "fetching"]
        /\ request[r] = "idle" /\ relayed' = relayed
    BY <1>3 DEF BeginFetch
  <2>4. addr[c][role] \in Port
    BY <2>1 DEF Fetched, Role, Binding
  <2> QED  BY <2>1, <2>2, <2>3, <2>4
<1>4. CASE FetchAnswered(r)
  <2>1. CASE relayed' = relayed
    BY <1>4, <2>1 DEF FetchAnswered, EndFetch
  <2>2. ASSUME NEW c \in Command, NEW role \in {target[r][2], "inbound"},
               bound[c][role] = target[r][1],
               request[r] = "fetching", request' = [request EXCEPT ![r] = "ok"],
               target' = [target EXCEPT ![r] = None], UNCHANGED found,
               relayed' = [relayed EXCEPT ![r] = c]
        PROVE  Serving'
    <3>1. target[r] \in Port \X Fetched /\ found[r] \in Command /\ target[r][1] # None
      BY <2>2, PortAssumption
    <3>2. c # found[r] => ~HostUp(found[r])
      BY <2>2, <3>1 DEF Hosting, OwnPorts, Fetched, Role
    <3> QED  BY <2>2, <3>1, <3>2
  <2> QED  BY <1>4, <2>1, <2>2 DEF FetchAnswered, EndFetch
<1>5. CASE FetchFails(r)
  BY <1>5 DEF FetchFails, EndFetch
<1> QED  BY <1>2, <1>3, <1>4, <1>5 DEF ServedStep

LEMMA ServingStep == TypeOK /\ Hosting /\ Serving /\ [Next]_vars => Serving'
<1> SUFFICES ASSUME TypeOK, Hosting, Serving, [Next]_vars PROVE Serving'
  OBVIOUS
<1>1. CASE UNCHANGED servedVars
  BY <1>1, HostStays DEF servedVars, Serving, Stays, TypeOK, ServedTypeOK
<1>2. CASE UNCHANGED vars
  BY <1>1, <1>2 DEF vars
<1>3. CASE Next
  BY <1>1, <1>3, StepCases, ServedServing
<1> QED  BY <1>2, <1>3

LEMMA InitServing == Init => Serving
BY DEF Init, ServedInit, Serving

LEMMA ServingRelaysItsOwn == Serving => RelayedIsItsOwn
BY DEF Serving, RelayedIsItsOwn

-----------------------------------------------------------------------------
(* The collectors.                                                         *)

\* A running collector has the OTLP ports, so nobody has probed them since it
\* came up; and a command that has yet to record its collector has it running,
\* or it stopped early.
Collecting ==
  /\ \A c \in Command : Collector(c) =>
       /\ stamp[c] \in Second
       /\ bound[c] = OtelBinding
       /\ \A d \in Command :
            job[d].kind = "collect" /\ pc[d] \in {"probed", "stamped"} => d \in raced[c]
  /\ \A c \in Command : job[c].kind = "collect" /\ pc[c] \in {"started", "recording"} =>
       Runs(c) \/ c \in late
  /\ RecordNamesRunning

LEMMA OneCollector ==
  ASSUME TypeOK, Hosting, Collecting, NEW c \in Command, NEW d \in Command,
         Collector(c), Collector(d)
  PROVE  c = d
<1>1. bound[c]["otlp"] = Otlp /\ bound[d]["otlp"] = Otlp
  BY DEF Collecting, OtelBinding, Unbound, Role
<1> QED  BY <1>1, PortAssumption DEF Hosting, OwnPorts, Role

LEMMA CollectorHoldsPort ==
  ASSUME TypeOK, Collecting, NEW c \in Command, Collector(c)
  PROVE  Otlp \notin Free
<1>1. bound[c]["otlp"] = Otlp
  BY DEF Collecting, OtelBinding, Unbound, Role
<1> QED  BY <1>1, PortAssumption DEF Free, Held, Role

\* A run's steps leave everybody else's container alone.
LEMMA ExecFrame ==
  ASSUME TypeOK, NEW c \in Command, ExecActs(c) \/ ExecWalks(c), NEW d \in Command, d # c
  PROVE  /\ job[c].kind = "exec"
         /\ job'[d] = job[d] /\ job'[c] = job[c]
         /\ pc'[d] = pc[d] /\ container'[d] = container[d] /\ bound'[d] = bound[d]
<1>1. CASE ExecWalks(c)
  BY <1>1, WalksMove DEF TypeOK, HostedTypeOK
<1>2. CASE ExecActs(c)
  BY <1>2 DEF TypeOK, RuntimeTypeOK, HostedTypeOK, ExecActs, OpenListeners, StartContainer, ContainerHalfStarts, InspectContainer, Register, RegisterFails, Unregister, CloseListeners, StopContainer, RemoveContainer, KillExec, ProxyExits,
    Open, Launch, LaunchHalf, Close, Halt, Erase, ExecStep, Goto, runtimeVars, hostedVars
<1> QED  BY <1>1, <1>2

LEMMA ExecKind ==
  ASSUME NEW c \in Command, ExecActs(c)
  PROVE  job[c].kind = "exec" /\ job' = job
BY DEF ExecActs, OpenListeners, StartContainer, ContainerHalfStarts, InspectContainer, Register, RegisterFails, Unregister, CloseListeners, StopContainer, RemoveContainer, KillExec, ProxyExits, ExecStep, Goto, hostedVars

LEMMA ExecCollecting ==
  ASSUME TypeOK, Collecting, NEW c \in Command, ExecActs(c) \/ ExecWalks(c),
         UNCHANGED collectVars
  PROVE  Collecting'
<1>1. job[c].kind = "exec" /\ job'[c] = job[c]
  BY WalksMove, ExecKind
<1>2. \A d \in Command \ {c} :
        job'[d] = job[d] /\ pc'[d] = pc[d] /\ container'[d] = container[d] /\ bound'[d] = bound[d]
  BY ExecFrame
<1> QED  BY <1>1, <1>2 DEF Collecting, RecordNamesRunning, Collector, Runs, collectVars

LEMMA OthersCollecting ==
  ASSUME TypeOK, Collecting, UNCHANGED collectVars,
         \/ \E k \in Path : OperatorCleans(k)
         \/ \E c \in Command : Prune(c)
         \/ UNCHANGED <<runtimeVars, hostedVars>>
  PROVE  Collecting'
<1> USE DEF Collecting, RecordNamesRunning, Collector, Runs, collectVars, runtimeVars, hostedVars
<1>1. ASSUME NEW k \in Path, OperatorCleans(k) PROVE Collecting'
  BY <1>1 DEF OperatorCleans
<1>2. ASSUME NEW c \in Command, Prune(c) PROVE Collecting'
  <2>1. container[c] \in {"created", "exited"} /\ UNCHANGED <<job, pc>>
        /\ container' = [container EXCEPT ![c] = "absent"]
        /\ bound' = [bound EXCEPT ![c] = Unbound]
    BY <1>2 DEF Prune, UserRemoves, Erase
  <2>2. \A d \in Command : Runs(d)' => Runs(d) /\ bound'[d] = bound[d]
    BY <2>1 DEF TypeOK, RuntimeTypeOK
  <2>3. \A d \in Command : Runs(d) => Runs(d)'
    BY <2>1 DEF TypeOK, RuntimeTypeOK
  <2> QED  BY <2>1, <2>2, <2>3
<1>3. CASE UNCHANGED <<runtimeVars, hostedVars>>
  BY <1>3
<1> QED  BY <1>1, <1>2, <1>3

LEMMA CollectCollecting ==
  ASSUME TypeOK, Hosting, Collecting, NEW c \in Command, CollectWalks(c) \/ CollectActs(c)
  PROVE  Collecting'
<1> USE DEF TypeOK, RuntimeTypeOK, HostedTypeOK, CollectTypeOK, CollectStep, Goto,
            RecordNamesRunning, Collector, Runs, collectVars, runtimeVars, hostedVars
<1>1. CASE Probe(c)
  <2>1. \A d \in Command : ~Collector(d)
    BY <1>1, CollectorHoldsPort DEF Probe
  <2> QED  BY <1>1, <2>1 DEF Probe, Collecting
<1>2. CASE ProbeRefuses(c) \/ TakeTime(c) \/ StartCollectorFails(c) \/ RecordFails(c)
  <2>1. CASE TakeTime(c)
    <3>1. \A d \in Command : Collector(d) => d # c
      BY <2>1 DEF TakeTime, Hosting, OwnContainer
    <3> QED  BY <2>1, <3>1 DEF TakeTime, Collecting
  <2>2. CASE ~TakeTime(c)
    BY <1>2, <2>2 DEF ProbeRefuses, StartCollectorFails, RecordFails, Collecting
  <2> QED  BY <2>1, <2>2
<1>3. CASE WriteConfig(c) \/ WriteConfigFails(c)
  BY <1>3 DEF WriteConfig, WriteConfigFails, Collecting
<1>4. CASE KillCollect(c)
  BY <1>4 DEF KillCollect, Collecting
<1>5. CASE OpenRecord(c) \/ WriteRecord(c)
  <2>1. \A d \in Command : Collector(d) => d = c \/ c \in late
    BY <1>5, OneCollector DEF OpenRecord, WriteRecord, Collecting
  <2> QED  BY <1>5, <2>1 DEF OpenRecord, WriteRecord, Collecting
<1>6. CASE StartCollector(c)
  <2>1. \A d \in Command : ~Collector(d)
    BY <1>6, CollectorHoldsPort DEF StartCollector
  <2>2. /\ stamp[c] \in Second
        /\ UNCHANGED <<job, stamp, otelRecord, late>>
        /\ pc' = [pc EXCEPT ![c] = "started"]
        /\ container' = [container EXCEPT ![c] = "running"]
        /\ bound' = [bound EXCEPT ![c] = OtelBinding]
        /\ raced' = [raced EXCEPT ![c] = {d \in Command : pc[d] # "idle"}]
    BY <1>6 DEF StartCollector, Launch
  <2> QED  BY <2>1, <2>2, OtelBindingType DEF Collecting
<1>7. CASE CollectorHalfStarts(c)
  <2>1. container[c] = "absent"
    BY <1>7 DEF CollectorHalfStarts, Hosting, OwnContainer
  <2> QED  BY <1>7, <2>1 DEF CollectorHalfStarts, LaunchHalf, Collecting
<1>8. CASE CollectorExits(c)
  BY <1>8 DEF CollectorExits, Halt, Collecting
<1> QED  BY <1>1, <1>2, <1>3, <1>4, <1>5, <1>6, <1>7, <1>8 DEF CollectWalks, CollectActs

LEMMA CollectingStep == TypeOK /\ Hosting /\ Collecting /\ [Next]_vars => Collecting'
<1> SUFFICES ASSUME TypeOK, Hosting, Collecting, [Next]_vars PROVE Collecting'
  OBVIOUS
<1>1. CASE UNCHANGED vars
  BY <1>1, OthersCollecting DEF vars
<1>2. CASE Next
  BY <1>2, StepCases, ExecCollecting, OthersCollecting, CollectCollecting
<1> QED  BY <1>1, <1>2

LEMMA InitCollecting == Init => Collecting
BY DEF Init, RuntimeInit, HostedInit, CollectInit, Collecting, RecordNamesRunning, Collector, Runs

\* The steps that write a configuration.
LEMMA ConfigStep ==
  ASSUME TypeOK, Collecting, [Next]_vars, NEW c \in Command, Collector(c),
         configFile'[stamp[c]] # configFile[stamp[c]]
  PROVE  configFile'[stamp[c]] \in raced[c]
<1>1. ASSUME NEW d \in Command, CollectWalks(d) \/ CollectActs(d)
      PROVE  \/ configFile' = configFile
             \/ /\ job[d].kind = "collect" /\ pc[d] = "stamped"
                /\ configFile' = [configFile EXCEPT ![stamp[d]] = d]
  BY <1>1 DEF CollectWalks, CollectActs, Probe, ProbeRefuses, TakeTime, WriteConfig, WriteConfigFails,
    StartCollectorFails, OpenRecord, WriteRecord, RecordFails, KillCollect, StartCollector,
    CollectorHalfStarts, CollectorExits, CollectStep, Goto, collectVars
<1>2. configFile' = configFile
      \/ \E d \in Command : /\ job[d].kind = "collect" /\ pc[d] = "stamped"
                           /\ configFile' = [configFile EXCEPT ![stamp[d]] = d]
  BY <1>1, StepCases DEF vars, collectVars
<1> QED  BY <1>2 DEF Collecting, TypeOK, CollectTypeOK

-----------------------------------------------------------------------------
(* Removals of containers.                                                 *)

LEMMA RemovalStep ==
  ASSUME TypeOK, [Next]_vars, NEW d \in Command, Runs(d), container'[d] = "absent"
  PROVE  pc[d] = "removing"
<1> USE DEF TypeOK, RuntimeTypeOK, Runs
<1>1. ASSUME NEW c \in Command, ExecActs(c) PROVE pc[d] = "removing"
  <2>1. CASE RemoveContainer(c)
    BY <2>1 DEF RemoveContainer, Erase, ExecStep, Goto
  <2>2. CASE ~RemoveContainer(c)
    BY <1>1, <2>2 DEF ExecActs, OpenListeners, StartContainer, ContainerHalfStarts, InspectContainer, Register, RegisterFails, Unregister, CloseListeners, StopContainer, RemoveContainer, KillExec, ProxyExits,
      Open, Launch, LaunchHalf, Close, Halt, Erase, hostedVars, runtimeVars
  <2> QED  BY <2>1, <2>2
<1>2. ASSUME NEW c \in Command, CollectActs(c) PROVE pc[d] = "removing"
  BY <1>2 DEF CollectActs, StartCollector, CollectorHalfStarts, CollectorExits, Launch, LaunchHalf, Halt
<1>3. ASSUME NEW c \in Command, Prune(c) PROVE pc[d] = "removing"
  BY <1>3 DEF Prune, UserRemoves, Erase
<1>4. ASSUME container' = container PROVE pc[d] = "removing"
  BY <1>4
<1>5. CASE Next
  <2>1. ASSUME NEW k \in Path, OperatorCleans(k) PROVE container' = container
    BY <2>1 DEF OperatorCleans, runtimeVars
  <2> QED  BY <1>1, <1>2, <1>3, <1>4, <1>5, <2>1, StepCases, WalksMove DEF runtimeVars
<1> QED  BY <1>4, <1>5 DEF vars, runtimeVars

-----------------------------------------------------------------------------
(* Claims of names.                                                        *)

Status(c) ==
  CASE pc[c] \in {"registered", "running", "unregistering"} -> "holding"
    [] pc[c] \in {"stopping", "removing"} \cup Over -> "gone"
    [] OTHER -> "idle"

LEMMA ClaimsInit == Init => Claims!Init
BY DEF Init, HostedInit, Claims!Init, Over

\* A step that leaves the records alone claims nothing: at most its command
\* goes.
LEMMA Abandons ==
  ASSUME TypeOK, NEW c \in Command, UNCHANGED record, UNCHANGED pc \/ \E to : pc' = [pc EXCEPT ![c] = to],
         Status(c)' = Status(c) \/ (Status(c) # "gone" /\ Status(c)' = "gone")
  PROVE  Claims!Next \/ UNCHANGED Claims!vars
<1>1. \A d \in Command : d # c => Status(d)' = Status(d)
  BY DEF TypeOK, HostedTypeOK, Status
<1>2. CASE Status(c)' = Status(c)
  BY <1>1, <1>2 DEF Claims!vars, Status
<1>3. CASE Status(c) # "gone" /\ Status(c)' = "gone"
  <2>1. Claims!Abandon(c)
    BY <1>1, <1>3 DEF Claims!Abandon, Status
  <2> QED  BY <2>1 DEF Claims!Next
<1> QED  BY <1>2, <1>3

LEMMA WalksClaim ==
  ASSUME TypeOK, NEW c \in Command, ExecWalks(c) \/ CollectWalks(c) \/ CollectActs(c)
  PROVE  Claims!Next \/ UNCHANGED Claims!vars
<1>1. CASE ExecWalks(c)
  <2>1. Status(c)' = Status(c) \/ (Status(c) # "gone" /\ Status(c)' = "gone")
    BY <1>1, WalksMove DEF Status, Over
  <2> QED  BY <1>1, <2>1, WalksMove, Abandons
<1>2. CASE CollectWalks(c) \/ CollectActs(c)
  <2> USE DEF CollectWalks, CollectActs, Probe, ProbeRefuses, TakeTime, WriteConfig, WriteConfigFails,
        StartCollectorFails, OpenRecord, WriteRecord, RecordFails, KillCollect, StartCollector,
        CollectorHalfStarts, CollectorExits, CollectStep, Goto, hostedVars
  <2>1. UNCHANGED record /\ (UNCHANGED pc \/ \E to : pc' = [pc EXCEPT ![c] = to])
    BY <1>2
  <2>2. \/ pc'[c] = pc[c]
        \/ /\ pc[c] \in {"idle", "probed", "stamped", "written", "started", "recording"}
           /\ pc'[c] \in {"probed", "stamped", "written", "started", "recording"} \cup Over
    BY <1>2 DEF TypeOK, HostedTypeOK, CollectTypeOK, CollectStage, Over
  <2>3. Status(c)' = Status(c) \/ (Status(c) # "gone" /\ Status(c)' = "gone")
    BY <2>2 DEF Status, Over
  <2> QED  BY <2>1, <2>3, Abandons
<1> QED  BY <1>1, <1>2

LEMMA ActsClaim ==
  ASSUME TypeOK, Hosting, NEW c \in Command, ExecActs(c)
  PROVE  Claims!Next \/ UNCHANGED Claims!vars
<1> USE DEF ExecStep, Goto
<1>1. CASE Register(c)
  <2>1. PICK k \in Path : k = job[c].path
    BY <1>1, NamesType DEF Register
  <2>2. \A d \in Command : d # c => Status(d)' = Status(d)
    BY <1>1 DEF Register, TypeOK, HostedTypeOK, Status
  <2>3. Status(c) = "idle" /\ Status(c)' = "holding"
    BY <1>1 DEF Register, TypeOK, HostedTypeOK, Status, Over
  <2>4. Claims!Claim(c, k)
    BY <1>1, <2>1, <2>2, <2>3 DEF Register, Claims!Claim, Status
  <2> QED  BY <2>4 DEF Claims!Next
<1>2. CASE Unregister(c)
  <2>1. PICK k \in Path : k = job[c].path
    BY <1>2, NamesType DEF Unregister
  <2>2. \A d \in Command : d # c => Status(d)' = Status(d)
    BY <1>2 DEF Unregister, TypeOK, HostedTypeOK, Status
  <2>3. Status(c) = "holding" /\ Status(c)' = "gone"
    BY <1>2 DEF Unregister, TypeOK, HostedTypeOK, Status, Over
  <2>4. record[k] = c
    BY <1>2, <2>1 DEF Unregister, Hosting, OwnRecord, Holding
  <2>5. Claims!Release(c, k)
    BY <1>2, <2>1, <2>2, <2>3, <2>4 DEF Unregister, Claims!Release, Status
  <2> QED  BY <2>5 DEF Claims!Next
<1>3. CASE ~Register(c) /\ ~Unregister(c)
  <2> USE DEF ExecActs, OpenListeners, StartContainer, ContainerHalfStarts, InspectContainer, Register, RegisterFails, Unregister, CloseListeners, StopContainer, RemoveContainer, KillExec, ProxyExits, hostedVars
  <2>1. UNCHANGED record /\ (UNCHANGED pc \/ \E to : pc' = [pc EXCEPT ![c] = to])
    BY <1>3
  <2>2. \/ pc'[c] = pc[c]
        \/ pc[c] \in {"idle", "named", "started"} /\ pc'[c] \in {"started", "hosted"} \cup Over
        \/ pc[c] = "hosted" /\ pc'[c] = "stopping"
        \/ pc[c] \in {"stopping", "removing"} /\ pc'[c] \in {"removing", "done"}
        \/ pc'[c] = "killed"
    BY <1>3 DEF TypeOK, HostedTypeOK, Over
  <2>3. Status(c)' = Status(c) \/ (Status(c) # "gone" /\ Status(c)' = "gone")
    BY <2>2 DEF Status, Over
  <2> QED  BY <2>1, <2>3, Abandons
<1> QED  BY <1>1, <1>2, <1>3

LEMMA ClaimsStep == TypeOK /\ Hosting /\ [Next]_vars => [Claims!Next]_Claims!vars
<1> SUFFICES ASSUME TypeOK, Hosting, [Next]_vars
             PROVE  Claims!Next \/ UNCHANGED Claims!vars
  OBVIOUS
<1>1. ASSUME NEW k \in Path, OperatorCleans(k) PROVE Claims!Next
  <2>1. Claims!Reclaim(k)
    BY <1>1 DEF OperatorCleans, Claims!Reclaim, TypeOK, HostedTypeOK
  <2> QED  BY <2>1 DEF Claims!Next
<1>2. ASSUME UNCHANGED <<record, pc>> PROVE UNCHANGED Claims!vars
  BY <1>2 DEF Claims!vars
<1>3. ASSUME NEW c \in Command, Prune(c) PROVE UNCHANGED <<record, pc>>
  BY <1>3 DEF Prune, hostedVars
<1>4. CASE Next
  <2>1. UNCHANGED hostedVars => UNCHANGED <<record, pc>>
    BY DEF hostedVars
  <2> QED  BY <1>1, <1>2, <1>3, <1>4, <2>1, StepCases, WalksClaim, ActsClaim
<1> QED  BY <1>2, <1>4 DEF vars, hostedVars

-----------------------------------------------------------------------------
(* The theorems.                                                           *)

IInv == TypeOK /\ Hosting /\ Serving /\ Collecting

LEMMA Inductive == Spec => []IInv
<1>1. Init => IInv
  BY InitType, InitHosting, InitServing, InitCollecting DEF IInv
<1>2. IInv /\ [Next]_vars => IInv'
  BY TypeStep, HostingStep, ServingStep, CollectingStep DEF IInv
<1> QED  BY <1>1, <1>2, PTL DEF Spec

\* Every variable of the machine keeps its type.
THEOREM TypeCorrect == Spec => []TypeOK
<1>1. IInv => TypeOK
  BY DEF IInv
<1> QED  BY <1>1, Inductive, PTL

\* However many runs, containers and collectors share the ports, a record says
\* the truth about its host until that goes down.
THEOREM RecordIsAlwaysTrue == Spec => []RecordIsTrue
<1>1. IInv => RecordIsTrue
  BY HostingIsTrue DEF IInv
<1> QED  BY <1>1, Inductive, PTL

\* `cortex serve` relays another instance's answer only for an instance whose
\* host is down.
THEOREM AlwaysRelaysItsOwn == Spec => []RelayedIsItsOwn
<1>1. IInv => RelayedIsItsOwn
  BY ServingRelaysItsOwn DEF IInv
<1> QED  BY <1>1, Inductive, PTL

\* However many commands collect at once, the record ends up naming the
\* collector that runs.
THEOREM RecordAlwaysNamesRunning == Spec => []RecordNamesRunning
<1>1. IInv => RecordNamesRunning
  BY DEF IInv, Collecting
<1> QED  BY <1>1, Inductive, PTL

\* A running collector's configuration is safe from the commands that begin
\* after it came up.
THEOREM LaterCollectAlwaysKeepsConfig == Spec => LaterCollectKeepsConfig
<1> DEFINE Keeps == \A c \in Command :
                      Collector(c) /\ configFile'[stamp[c]] # configFile[stamp[c]]
                        => configFile'[stamp[c]] \in raced[c]
<1>1. IInv /\ [Next]_vars => [Keeps]_<<job, container, configFile, raced, stamp>>
  BY ConfigStep DEF IInv
<1> QED  BY <1>1, Inductive, PTL DEF Spec, LaterCollectKeepsConfig

\* No run removes a container that another one has running.
THEOREM AlwaysRemovedByOwner == Spec => RemovedByOwner
<1> DEFINE Removed == \A c \in Command :
                        Runs(c) /\ container'[c] = "absent" => pc[c] = "removing"
<1>1. IInv /\ [Next]_vars => [Removed]_vars
  BY RemovalStep DEF IInv
<1> QED  BY <1>1, Inductive, PTL DEF Spec, RemovedByOwner

\* Runs side by side claim their names exclusively.
THEOREM HostedImplementsClaims == Spec => HostedClaims
<1>1. IInv /\ [Next]_vars => [Claims!Next]_Claims!vars
  BY ClaimsStep DEF IInv
<1> QED  BY <1>1, ClaimsInit, Inductive, PTL DEF Spec, HostedClaims, Claims!Spec

=============================================================================
