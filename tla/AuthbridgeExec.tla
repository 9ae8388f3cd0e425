--------------------------- MODULE AuthbridgeExec ---------------------------
(***************************************************************************)
(* One run of `authbridge exec`: what it brings up around the child        *)
(* command, in this process or in a container, the loop that waits for the *)
(* child while signals and the session API's death arrive, and the         *)
(* teardown.                                                               *)
(*                                                                         *)
(* The code keeps its teardown in deferred calls, with the host's own stack *)
(* of stops as one of them.  Nested that way they run in the reverse of the *)
(* order they were registered in, so they are one stack here: undo.        *)
(***************************************************************************)
EXTENDS Naturals, Sequences, SequencesExt, FiniteSets

CONSTANTS
  Signal,     \* SIGINT and SIGTERM
  MaxSignals  \* bound: signals sent to one run

ASSUME MaxSignalsAssumption == MaxSignals \in Nat

VARIABLES
  opts,      \* the configuration and flags of the run
  pc,        \* where rossoctl is
  next,      \* the startup step it is at
  undo,      \* the teardown still to run
  left,      \* what exists: processes' resources, files, the container
  orphans,   \* what no teardown will take away any more
  child,     \* the child command
  told,      \* the signals delivered to the child
  sigCh,     \* the channel signal.Notify feeds
  serveErr,  \* the channel the session API's goroutine feeds
  sent       \* signals sent so far

vars == <<opts, pc, next, undo, left, orphans, child, told, sigCh, serveErr, sent>>

-----------------------------------------------------------------------------
(* What a run starts, and in which order.                                  *)

\* The config is a URL; the pipeline is hosted in a container; the active
\* roles with an address; session.enabled; a non-empty session API address;
\* --sessionServer; a bridge that generates its CA.
Options ==
  [remote : BOOLEAN, container : BOOLEAN, forward : BOOLEAN, reverse : BOOLEAN,
   sessions : BOOLEAN, apiAddr : BOOLEAN, flag : {"unset", "empty", "address"},
   generateCA : BOOLEAN]

\* applySessionServerOverride.
SessionsOn(o) ==
  \/ o.flag = "address"
  \/ o.flag = "unset" /\ o.sessions

\* startSessionAPI: it serves the store, so without one there is no API.
ApiOn(o) == SessionsOn(o) /\ (o.flag = "address" \/ o.apiAddr)

\* Altered: the forward proxy is opened before the store it shares.
InProcess_ProxyFirst ==
  <<"config", "load", "outbound", "inbound", "sessions", "bridge", "forward",
    "shared", "reverse", "api", "serveCheck",
    "record", "env", "child", "notify">>

\* execWithPipeline around startAuthbridgeHost.
InProcess ==
  <<"config", "load", "outbound", "inbound", "sessions", "shared", "bridge",
    "forward", "reverse", "api", "serveCheck",
    "record", "env", "child", "notify">>

\* execWithPipeline around startAuthbridgeContainer.
InContainer ==
  <<"config", "load", "engine", "caDir", "hosts", "container", "ports", "caCert",
    "record", "env", "child", "notify">>

Steps == IF opts.container THEN InContainer ELSE InProcess

\* What outlives the process, and what goes with it.
External == {"config", "caDir", "container", "record"}
Internal == {"outbound", "inbound", "sessions", "shared", "forward", "reverse",
             "api", "notify"}
Component == External \cup Internal

\* The components this run has; a step for one it does not have does nothing.
Wanted ==
  {c \in Component :
     /\ c = "config" => opts.remote
     /\ c = "caDir" => opts.generateCA
     /\ c = "sessions" => SessionsOn(opts)
     /\ c = "forward" => opts.forward
     /\ c = "reverse" => opts.reverse
     /\ c = "api" => ApiOn(opts)}

\* The steps with an error return of their own.  A local config may be
\* missing, so "config" can fail even when it makes nothing.
ConfigErrors == {"config", "load"}

HostErrors == {"outbound", "inbound", "bridge"} \cup (Wanted \cap {"forward", "reverse", "api"})

\* "hosts": a name in the config does not resolve.
ContainerErrors == {"engine", "hosts", "container", "ports"} \cup (Wanted \cap {"caDir"})

\* The container may never mint its CA.
CaErrors == IF opts.generateCA THEN {"caCert"} ELSE {}

ChildErrors == {"record", "env", "child"}

MayFail == ConfigErrors \cup HostErrors \cup ContainerErrors \cup CaErrors \cup ChildErrors

\* The pipeline host proper.
Host == Wanted \cap
  (IF opts.container THEN {"container", "caDir", "config"}
   ELSE {"config", "outbound", "inbound", "sessions", "shared", "forward",
         "reverse", "api"})

\* What a component calls, reads or writes while it is up: the child dials
\* the host, the record names its addresses, the container mounts the config
\* and the CA directory, the proxies run the pipelines and hold the stores,
\* a reverse-proxied request goes out through the forward proxy, and an
\* inbound plugin's through the outbound pipeline.
Needs(c) == Wanted \cap
  CASE c = "inbound"   -> {"outbound"}
    [] c = "forward"   -> {"outbound", "sessions", "shared"}
    [] c = "reverse"   -> {"inbound", "outbound", "sessions", "shared", "forward"}
    [] c = "api"       -> {"inbound", "outbound", "sessions"}
    [] c = "container" -> {"config", "caDir"}
    [] c = "record"    -> Host
    [] c = "notify"    -> Host \cup {"record"}
    [] OTHER           -> {}

-----------------------------------------------------------------------------

Over == {"exited", "killed", "crashed"}

TypeOK ==
  /\ opts \in Options
  /\ pc \in {"starting", "waiting", "draining", "unwinding"} \cup Over
  /\ next \in 1 .. Len(Steps) + 1
  /\ undo \in Seq(Component)
  /\ left \subseteq Component
  /\ orphans \subseteq External
  /\ child \in {"none", "running", "exited"}
  /\ told \subseteq Signal
  /\ sigCh \subseteq Signal
  /\ Cardinality(sigCh) <= 1
  /\ serveErr \in {"empty", "failed", "taken"}
  /\ sent \in 0 .. MaxSignals

\* containerPortsFromConfig refuses a config with no forward proxy, and
\* --sessionServer is not read on the container's path.
Init ==
  /\ opts \in {o \in Options : o.container => o.forward /\ o.flag = "unset"}
  /\ pc = "starting"
  /\ next = 1
  /\ undo = <<>>
  /\ left = {}
  /\ orphans = {}
  /\ child = "none"
  /\ told = {}
  /\ sigCh = {}
  /\ serveErr = "empty"
  /\ sent = 0

-----------------------------------------------------------------------------
(* Startup.                                                                *)

Advance ==
  /\ pc = "starting"
  /\ next' = next + 1

\* A step that makes something registers how to take it away.
Acquire ==
  /\ Advance
  /\ Steps[next] \in Wanted
  /\ left' = left \cup {Steps[next]}
  /\ undo' = Append(undo, Steps[next])
  /\ pc' = IF Steps[next] = "notify" THEN "waiting" ELSE pc
  /\ UNCHANGED <<opts, orphans, child, told, sigCh, serveErr, sent>>

\* Checks, and steps for components this run does not have.
Pass ==
  /\ Advance
  /\ Steps[next] \notin Wanted \cup {"child"}
  /\ Steps[next] = "serveCheck" => serveErr = "empty"
  /\ UNCHANGED <<opts, pc, undo, left, orphans, child, told, sigCh, serveErr, sent>>

StartChild ==
  /\ Advance
  /\ Steps[next] = "child"
  /\ child' = "running"
  /\ UNCHANGED <<opts, pc, undo, left, orphans, told, sigCh, serveErr, sent>>

\* Altered: the error is returned without the accumulated teardown.
Fail_Returns ==
  /\ pc = "starting"
  /\ Steps[next] \in MayFail
  /\ pc' = "exited"
  /\ UNCHANGED <<opts, next, undo, left, orphans, child, told, sigCh, serveErr, sent>>

\* A step's error: everything registered so far is torn down.
Fail ==
  /\ pc = "starting"
  /\ Steps[next] \in MayFail
  /\ pc' = "unwinding"
  /\ UNCHANGED <<opts, next, undo, left, orphans, child, told, sigCh, serveErr, sent>>

\* The select at the end of startAuthbridgeHost finds the API already dead.
ServeCheckFails ==
  /\ pc = "starting"
  /\ Steps[next] = "serveCheck"
  /\ serveErr = "failed"
  /\ serveErr' = "taken"
  /\ pc' = "unwinding"
  /\ UNCHANGED <<opts, next, undo, left, orphans, child, told, sigCh, sent>>

\* `run -d` creates the container and then fails to start it, or runs out of
\* its time: Engine.Start returns an error and no id, so nobody stops it.
ContainerHalfStarts ==
  /\ pc = "starting"
  /\ Steps[next] = "container"
  /\ left' = left \cup {"container"}
  /\ orphans' = orphans \cup {"container"}
  /\ pc' = "unwinding"
  /\ UNCHANGED <<opts, next, undo, child, told, sigCh, serveErr, sent>>

-----------------------------------------------------------------------------
(* The loop of runPassthrough.                                             *)

\* Altered: the signal is taken and not passed on.
ForwardSignal_Swallows ==
  /\ pc = "waiting"
  /\ sigCh # {}
  /\ sigCh' = {}
  /\ UNCHANGED <<opts, pc, next, undo, left, orphans, child, told, serveErr, sent>>

\* A signal to a child that is already gone is an ignored error.
ForwardSignal ==
  /\ pc = "waiting"
  /\ sigCh # {}
  /\ sigCh' = {}
  /\ told' = IF child = "running" THEN told \cup sigCh ELSE told
  /\ UNCHANGED <<opts, pc, next, undo, left, orphans, child, serveErr, sent>>

Reap ==
  /\ pc = "waiting"
  /\ child = "exited"
  /\ pc' = "unwinding"
  /\ UNCHANGED <<opts, next, undo, left, orphans, child, told, sigCh, serveErr, sent>>

\* Altered: the API's death ends the run.
TakeServeError_Returns ==
  /\ pc = "waiting"
  /\ serveErr = "failed"
  /\ serveErr' = "taken"
  /\ pc' = "unwinding"
  /\ UNCHANGED <<opts, next, undo, left, orphans, child, told, sigCh, sent>>

\* The API's death is reported, and the run leaves the select for good: from
\* here it receives from waitErr alone.
TakeServeError ==
  /\ pc = "waiting"
  /\ serveErr = "failed"
  /\ serveErr' = "taken"
  /\ pc' = "draining"
  /\ UNCHANGED <<opts, next, undo, left, orphans, child, told, sigCh, sent>>

\* Altered: it waits for the API's goroutine, which has nothing more to send.
Drain_AwaitsServer ==
  /\ pc = "draining"
  /\ child = "exited"
  /\ serveErr = "failed"
  /\ pc' = "unwinding"
  /\ UNCHANGED <<opts, next, undo, left, orphans, child, told, sigCh, serveErr, sent>>

Drain ==
  /\ pc = "draining"
  /\ child = "exited"
  /\ pc' = "unwinding"
  /\ UNCHANGED <<opts, next, undo, left, orphans, child, told, sigCh, serveErr, sent>>

-----------------------------------------------------------------------------
(* Teardown.                                                               *)

\* Altered: in construction order.
UndoLast_Fifo ==
  /\ pc = "unwinding"
  /\ undo # <<>>
  /\ undo' = Tail(undo)
  /\ left' = left \ {Head(undo)}
  /\ UNCHANGED <<opts, pc, next, orphans, child, told, sigCh, serveErr, sent>>

UndoLast ==
  /\ pc = "unwinding"
  /\ undo # <<>>
  /\ undo' = Front(undo)
  /\ left' = left \ {Last(undo)}
  /\ UNCHANGED <<opts, pc, next, orphans, child, told, sigCh, serveErr, sent>>

\* A file or the container cannot be removed: a warning, and the teardown
\* goes on.
UndoFails ==
  /\ pc = "unwinding"
  /\ undo # <<>>
  /\ Last(undo) \in External
  /\ undo' = Front(undo)
  /\ orphans' = orphans \cup {Last(undo)}
  /\ UNCHANGED <<opts, pc, next, left, child, told, sigCh, serveErr, sent>>

Exit ==
  /\ pc = "unwinding"
  /\ undo = <<>>
  /\ pc' = "exited"
  /\ UNCHANGED <<opts, next, undo, left, orphans, child, told, sigCh, serveErr, sent>>

-----------------------------------------------------------------------------
(* What happens to a run.                                                  *)

ChildExits ==
  /\ child = "running"
  /\ child' = "exited"
  /\ UNCHANGED <<opts, pc, next, undo, left, orphans, told, sigCh, serveErr, sent>>

\* The session API's Serve returns an error.  A proxy's goes to the log only
\* and changes nothing here.
SessionApiDies ==
  /\ pc \notin Over
  /\ "api" \in left
  /\ serveErr = "empty"
  /\ serveErr' = "failed"
  /\ UNCHANGED <<opts, pc, next, undo, left, orphans, child, told, sigCh, sent>>

\* A signal to rossoctl, and from a terminal to the child too.  While Notify
\* holds it is put in the channel, which has room for one: another is
\* dropped.  Otherwise it has its default effect.
Deliver(s, toChild) ==
  /\ pc \notin Over
  /\ sent < MaxSignals
  /\ sent' = sent + 1
  /\ told' = IF toChild /\ child = "running" THEN told \cup {s} ELSE told
  /\ UNCHANGED <<opts, next, undo, orphans, child, serveErr>>

\* Altered: an unbounded channel.
Observed_Unbounded(s, toChild) ==
  /\ Deliver(s, toChild)
  /\ "notify" \in left
  /\ sigCh' = sigCh \cup {s}
  /\ UNCHANGED <<pc, left>>

Observed(s, toChild) ==
  /\ Deliver(s, toChild)
  /\ "notify" \in left
  /\ sigCh' = IF sigCh = {} THEN {s} ELSE sigCh
  /\ UNCHANGED <<pc, left>>

Deadly(s, toChild) ==
  /\ Deliver(s, toChild)
  /\ "notify" \notin left
  /\ pc' = "killed"
  /\ left' = left \cap External
  /\ UNCHANGED sigCh

\* SIGKILL, a panic, the machine's end as far as this run is concerned.
Crash ==
  /\ pc \notin Over
  /\ pc' = "crashed"
  /\ left' = left \cap External
  /\ UNCHANGED <<opts, next, undo, orphans, child, told, sigCh, serveErr, sent>>

-----------------------------------------------------------------------------

Startup ==
  \/ Acquire
  \/ Pass
  \/ StartChild
  \/ Fail
  \/ ServeCheckFails
  \/ ContainerHalfStarts

Loop ==
  \/ ForwardSignal
  \/ Reap
  \/ TakeServeError
  \/ Drain

Teardown ==
  \/ UndoLast
  \/ UndoFails
  \/ Exit

Next ==
  \/ Startup
  \/ Loop
  \/ Teardown
  \/ ChildExits
  \/ SessionApiDies
  \/ \E s \in Signal, toChild \in BOOLEAN : Observed(s, toChild) \/ Deadly(s, toChild)
  \/ Crash

Spec == Init /\ [][Next]_vars

\* rossoctl itself keeps running: every startup step has its time limit or
\* returns, the select takes what is ready, every teardown step has a
\* shutdown timeout.  A child that got a signal ends; one that got none may
\* run for ever.
Fairness ==
  /\ WF_vars(Startup)
  /\ WF_vars(Loop)
  /\ WF_vars(Teardown)
  /\ WF_vars(told # {} /\ ChildExits)

LiveSpec == Spec /\ Fairness

-----------------------------------------------------------------------------
(* Properties.                                                             *)

\* While rossoctl is there, nothing is up without what it needs: startup
\* brings the outbound pipeline and the stores up before the proxies and the
\* record after all of them, teardown goes the other way, and so does the
\* unwinding of a startup that failed anywhere.  What could not be removed
\* is beyond this.
DependenciesUp ==
  pc \notin {"killed", "crashed"} =>
    \A c \in left \ orphans : Needs(c) \subseteq left

\* "A half-built host never escapes", and a finished run leaves nothing but
\* what it failed to remove and a container that only half started, which
\* runProxyContainer's comment does not know of.
NothingLeftBehind == pc = "exited" => left \subseteq orphans

\* The command is hosted for as long as it runs: no signal, and no death of
\* the session API, takes the host or the instance record away from under a
\* running child, and rossoctl does not end before it.
ChildIsServed ==
  child = "running" /\ pc \notin {"killed", "crashed"} =>
    /\ pc # "exited"
    /\ Host \cup {"record"} \subseteq left

\* The child's exit ends the run, whatever the session API and the failing
\* removals do meanwhile.
ChildExitEndsRun == child = "exited" ~> pc \in Over

\* A signal the loop observed reaches the child, unless the child or the run
\* is over, or the loop was left because the session API died.
SignalReachesChild ==
  \A s \in Signal :
    s \in sigCh /\ pc = "waiting" ~>
      s \in told \/ child = "exited" \/ pc \in {"draining"} \cup Over

-----------------------------------------------------------------------------
(* What the comments and the help text say, and the code does not do.      *)

\* runPassthrough: a SIGINT or SIGTERM aimed at rossoctl alone "still leads
\* to an orderly teardown rather than leaving the pipeline and session API
\* running".
ObservedSignalEndsRun == sigCh # {} ~> pc \in Over

\* The help text: "Everything is shut down gracefully when the command exits
\* or when rossoctl receives SIGINT or SIGTERM."
SignalledRunLeavesNothing == pc = "killed" => left \subseteq orphans

=============================================================================
