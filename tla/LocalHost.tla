----------------------------- MODULE LocalHost -----------------------------
(***************************************************************************)
(* One machine: runs of `authbridge exec` and `otel collect` side by side, *)
(* and `cortex serve` answering about the instances.                       *)
(***************************************************************************)
EXTENDS ServedInstances, OtelCollect

CONSTANT Jobs  \* what the commands of this machine are asked to do

ASSUME JobsAssumption == Jobs \subseteq [Command -> Job]

vars == <<runtimeVars, hostedVars, collectVars, servedVars>>

TypeOK == RuntimeTypeOK /\ HostedTypeOK /\ CollectTypeOK /\ ServedTypeOK

Init ==
  /\ RuntimeInit
  /\ job \in Jobs
  /\ HostedInit
  /\ CollectInit
  /\ ServedInit

\* Somebody prunes the containers that do not run.
Prune(c) ==
  /\ UserRemoves(c)
  /\ UNCHANGED hostedVars

Next ==
  \/ HostedNext /\ UNCHANGED <<collectVars, servedVars>>
  \/ CollectNext /\ UNCHANGED servedVars
  \/ ServedNext /\ UNCHANGED collectVars
  \/ (\E c \in Command : Prune(c)) /\ UNCHANGED <<collectVars, servedVars>>

Spec == Init /\ [][Next]_vars

-----------------------------------------------------------------------------

\* A container that runs is removed only by the run that started it, in its own
\* teardown: a run that fails to start one, because the name is taken by a run
\* of the same name in another namespace, does not touch that run's.
RemovedByOwner ==
  [][\A c \in Command :
       Runs(c) /\ container'[c] = "absent" => pc[c] = "removing"]_vars

\* The runs side by side implement the exclusive claim on instance names, for
\* whatever containers, ports, collectors and requests do in between.
Claims ==
  INSTANCE NameClaims WITH
    Process <- Command,
    NoOne <- None,
    holder <- record,
    status <- [c \in Command |->
                 CASE pc[c] \in {"registered", "running", "unregistering"} -> "holding"
                   [] pc[c] \in {"stopping", "removing"} \cup Over -> "gone"
                   [] OTHER -> "idle"]

HostedClaims == Claims!Spec

=============================================================================
