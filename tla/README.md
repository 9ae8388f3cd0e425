# Verification of rossoctl-cli

TLA+ models of the parts of `rossoctl` that keep state or share it with other
processes, model-checked with TLC, and theorems about all seven of them proved
with TLAPS.  Everything is translated from the Go sources under `src/`;
`PROJECT.json` maps each definition to its lines.

## The system

`rossoctl` is a command-line program: a command is a process, and it is short
unless it hosts something (`authbridge exec`, `cortex exec`), serves something
(`cortex serve`) or waits (`agents wait`, `authbridge set --wait`, `login`).  No
process talks to another one.  They meet in the file system, in the container
runtime, in a Keycloak realm and in the API server, none of which they lock.
That is where the hard behaviour is: two commands at a time, one of them
stopped half-way, a reply that was lost, a clock that ran out.

| Part | State it keeps | Operations | Meets others through | What is hard | What makes it correct |
|---|---|---|---|---|---|
| Instance registry, `internal/instances` | one JSON file per hosted command, in a directory per namespace | `Create`, `Handle.Remove`, `List`, `Get`, name choice | the directories; `cortex serve` reads what `exec` writes | duplicate names, half-written files, kills, listing while files come and go | records are whole, names unique, a live run is listed, nothing else is |
| exec, `cmd/authbridge_exec.go`, `cmd/authbridge_container.go`, `internal/containers` | temporary config, CA directory, container or listeners, instance record, child | start-up in a dozen steps, the loop over child, signals and listener errors, teardown | child by signals and environment, registry, container runtime | failure at each step, order of teardown, signals at any time, a listener that dies | nothing is left behind, nothing is used after it is gone, the child is served to its end |
| Keycloak registration, `internal/keycloakadmin` | none of its own: client, scope, mapper and links in the realm | `Register`, `Unregister` | the realm, which the operator and other runs change too | interruption between calls, lost replies, 404 and 409, a shared client | what succeeded is there, repeating converges, no dangling links |
| Contexts and login, `internal/config`, `cmd/config.go`, `login.go`, `cortex.go`, `root.go` | `config.yaml` | the config commands, the logins, seeding, `ensureCortexContext`, `resolveContext` | the file, read and rewritten as a whole | lost updates, a truncated file, overlapping writes, a flow of minutes between load and save | a current context that exists, tokens with their servers, no other context touched |
| Rollouts, `cmd/wait.go`, `agents_authbridge_set.go` | deadline, baseline | `wait`, `authbridge set [--wait]` | the API server, the pods | deadlines, errors while polling, restarts, other writers | no false success, no expiry in the gap, an end |
| Device flow, `internal/deviceflow` | interval, device code | request a code, poll for the token | Keycloak, and the user behind it | slow_down, expiry, denial, lost requests and replies, consent while it sleeps | polls keep their distance, a failure has a reason, a grant is collected, an end |
| OpenTelemetry collector, `internal/otelcollect`, `cmd/otel_collect.go` | config files, one record, containers | `otel collect` | ports, container runtime, files; `exec --with-claude-otel` reads the record | ports checked and then used, names by the second, record after start | the record names the running collector, and its config is not rewritten |
| `cortex serve`, `internal/serve`, `internal/inprocess` | none | list and detail of instances, relays of the agent card and the identity config | registry, sidecars | records that vanish between two reads, ports that change hands | a listing is a registry listing, a live instance's answer is its own |
| Container runtime and ports, `internal/containers` | containers, their names, host ports | `Start`, `Stop`, `Inspect` | everybody who hosts something on the machine | half starts, names without a namespace, stops that fail | nobody removes somebody else's container |
| The rest (API client, A2A, resource commands, parsing) | none | one request and its answer | the API server | little | conversions |

## The modules

| Module | Models | Extends or uses |
|---|---|---|
| `NameClaims` | what the registry promises: exclusive claims on names | |
| `InstanceRegistry` | the registry at the level of files and links | implements `NameClaims` |
| `InstanceRegistryProofs` | theorems about it | `InstanceRegistry`, TLAPS |
| `AuthbridgeExec` | one run of exec with its child | |
| `AuthbridgeExecProofs` | theorems about it | `AuthbridgeExec`, TLAPS |
| `KeycloakRegistration` | register and unregister runs on a realm | |
| `KeycloakRegistrationProofs` | theorems about it | `KeycloakRegistration`, TLAPS |
| `ContextConfig` | commands on one configuration file | |
| `ContextConfigProofs` | theorems about it | `ContextConfig`, TLAPS |
| `AgentRollout` | wait and set --wait, with time and the cluster | |
| `AgentRolloutProofs` | theorems about it | `AgentRollout`, TLAPS |
| `DeviceFlow` | one device login, with time, the server and the user | |
| `DeviceFlowProofs` | theorems about it | `DeviceFlow`, TLAPS |
| `ContainerRuntime` | containers, their names and the host's ports | |
| `HostedInstances` | runs of exec side by side: registry, runtime, ports | `ContainerRuntime` |
| `ServedInstances` | `cortex serve` answering about an instance | `HostedInstances` |
| `OtelCollect` | `otel collect` commands side by side | `HostedInstances` |
| `LocalHost` | one machine: the three together | `ServedInstances`, `OtelCollect`; implements `NameClaims` |
| `LocalHostProofs` | theorems about it | `LocalHost`, TLAPS |
| `MC...` | constants and symmetry for TLC | the module of the name |

Operators named `X_Y` with a comment that begins "Altered:" are variants of `X`
with a plausible mistake.  Nothing uses them in the checked specifications;
`PROJECT.json` ("mutants") says which property each of them breaks.

### InstanceRegistry

A run goes through `Create` (`pc`: named, made, staged, written, linked), holds
a `Handle` (registered), and removes it.  `file` maps each (namespace, name) to
the run whose record it names, `content` says how much of a run's temp file has
been written (the final path is a second link to that file, so it is per run
and not per path), `temp` is the set of temp names.  `CreateFails` is the error
return of each step; `ReportDuplicate` the `EEXIST` of `os.Link`.  Each of them,
and `DropTempName` after a link, tries to remove the temp name (`RemoveTemp`).
The code does not look at the error of that `os.Remove`
(`instances.go:358, 362, 368, 375`), so the name may stay behind a run that was
refused, failed or holds its `Handle`; `stuck` is the history of those.
`NoTempLeftBehind` says that no path forgets to try, and no more.

A `List` call is a loop of single reads: the namespaces, the entries of each,
each record; between any two of them everything else may happen.  A base
directory that cannot be read fails the call (`BeginListFails`), a namespace
directory is skipped (`SkipNamespace`), and so is a record (`SkipEntry`).  `ever`
and `due` are history: the records present at some moment of the call, and those
present at every moment of it whose own directory and own file were not skipped
as unreadable.  `ListAccurate` is about calls that do not fail: they return all
that is `due`, so that what is unreadable hides itself and nothing else.

`Kill` ends a run anywhere.  `OperatorCleans` removes the record of a run that
is over; nobody is assumed to remove a live run's record by hand.

### AuthbridgeExec

`Steps` is the sequence of steps of `execWithPipeline` around
`startAuthbridgeHost` or `startAuthbridgeContainer`; `Acquire`, `Pass` and
`StartChild` take the next one, `Fail` is its error return, if it has one
(`MayFail`).  What was acquired is in `left` until it is undone, and in `undo`,
which stands for the `stops` slice, the deferred calls and the closures of the
container: they all unwind in reverse.  `orphans` are the things the code
reported it could not remove, and a container that `run -d` created without
returning an id.  `opts` are the flags and the configuration, chosen once;
components that this run does not have are skipped, as in the code.

The loop of `runPassthrough` has three receivers: the child's end (`Reap`), the
signal channel (`ForwardSignal`) and the session API's error
(`TakeServeError`), after which only `Drain` is left.  A signal is delivered to
rossoctl and possibly (a terminal) to the child; while Notify holds it enters a
channel with room for one, otherwise it kills the process.

### KeycloakRegistration

One action for each admin call; a reply may be lost after the call took effect,
and a run may stop between any two calls.  The realm has one client, shared by
the workloads (they run under one service account), one scope for each
workload, a platform client that may not be deployed, mappers, realm defaults
and attachments.  The code loops over a list of platform clients, looking each
one up (`FindPlatform`) and then linking or unlinking it; the list of the model
has one member.  A creation is answered with the new id, without one (a 201
whose `Location` is missing), or by a 409; the last two lead to a lookup
(`RequireClient`, `RequireScope`), before which another run may have deleted
the object.  Ids are never reused, so a run that holds the id of a deleted
scope gets a 404, as in Keycloak.  Deleting a scope cascades to its mapper and
links.  `disturbed` is history: a run of the opposite command changed the same
object since this run began.  The properties about success are for runs that
were not disturbed: what two opposite commands do to each other is up to their
order.  `RepeatChangesNothing` and `SiblingsUntouched` are for every step of every
run, disturbed or not.

### ContextConfig

A command is a load, its work on the copy, and a save; a save truncates the
file and then writes it.  `file` is absent, whole, torn or garbled.  A torn file
reads as an empty configuration, which is what the YAML decoder makes of an
empty file.  Two commands that truncate and then write one after the other write
over each other: a file that is shorter than what was there keeps the end of the
longer one, so its contexts may follow (`WithTail`), or the whole may not parse
(garbled), and every load fails.  The end of a longer file that begins in the
middle of a context, so that the last context of the shorter one gets a field of
it, is not modelled: a file of the model is contexts, and this needs its text.
A command that needs a context seeds an empty configuration, with a save of its
own.  A login keeps its copy during the device flow, whose server is resolved
from the file again (`Authorize`); if that is empty by then it is seeded once
more, and the login goes on with the configuration it seeded there
(`ReloadSeeds`).  `login --token` asks no server, and takes its context from
`--server`, from `--context`, or from the current one.  A new context may get a
token and a namespace.  Servers and names are model values; two URIs of
one host share a context name, as `ContextNameForServer` has it.  `issuer` and
`disturbed` are history: whose token a login got, and whether another command
wrote since this one loaded.

### AgentRollout

`wait` probes, looks at its deadline and sleeps; `set --wait` reads a baseline,
writes, sleeps and polls.  `left` and `nap` are the time until the deadline and
until the end of the sleep, and `Tick` counts them down between any two steps,
so a request may take any time.  The server stores a policy, the sidecar serves
one, and in between it loads, restarts and is written to by others.  A policy
is a model value; the answer of a server that reached no pod is a value of its
own, which differs from each policy in mode and pipeline.

### DeviceFlow

`client` is where the login is: it asks for a code, and then naps, polls and
naps again.  One request is under way at a time (`flight`, the request or the
answer on its way, with its `age`).  The server's side is the code with what
the user decided, the `life` it has left, the `pace` the server insists on, and
`asked`, the interval it told the client to keep; it may insist on more than
it tells.  `Tick` is the clock.  `Heed` is the switch of `PollToken` on the
answer, and `RequestFails` its error returns: a connection that breaks before
or after the server did its part, the 30 seconds of the HTTP client, a body
that is none.  The command's context is never cancelled, so the `ctx.Err` after
the sleep has no action.  The server's issue of a code and its receipt are one
step (`IssueCode`): a code whose answer is lost is one that nobody uses, and the
login ends as by any request for one that fails.  `left` and `fault` are history.

`ContextConfig` uses the whole flow as one step of a login.

### One machine: ContainerRuntime, HostedInstances, ServedInstances, OtelCollect

`LocalHost` composes what runs beside each other on one machine, and each
module adds its variables and actions to those of the one it extends.

`ContainerRuntime` is external except for `internal/containers`: a command
starts at most one container, so it is named by the command.  `label` is the
container's name, taken from its creation until it is removed, and `bound` the
host port of each of its listeners, taken only while it runs; a pipeline in the
command's own process has its listeners in the same table.  A container that
was not removed stays, `exited` or only `created`.

`HostedInstances` has the runs of exec.  `AuthbridgeExec` has one run in detail,
and `InstanceRegistry` the files; here a host starts in one step, or in two
(`StartContainer`, `InspectContainer`), and a record is claimed and given up in
one, which is what `ClaimsSpec` of the registry shows to be enough.
`TakeGivenName` is the early look at the registry, which decides nothing:
`Register` does.  `addr` is what the command knows of its addresses, and what
its record has.  Of a container that runs, the wait for its CA comes after its
addresses are known, and fails like a registration (`RegisterFails`); the
failures before that are `InspectFails`.  The child and its signals are one step.

`ServedInstances` has a request for one instance: the record is looked up once
(`found`), and the address in it is fetched from afterwards (`target`), by when
somebody else may have the port.  Whatever listens there may answer with JSON,
an inbound listener too, for it forwards to an application behind it.  `relayed`
is whose answer went out.

`OtelCollect` goes call by call: the probe of the ports, the time (`stamp`), the
config file of that second, the container, and the record, which is truncated and
written.  `late` and `raced` are history.

## What the runs check

Bounds are in the `.cfg` files.  All passing runs are complete explorations.

| Run | Instance | States | Shows |
|---|---|---|---|
| registry | 3 runs, 2 namespaces, 2 names, 1 reader; symmetric | 1.12 million | `RecordsWhole`, `KeepsItsRecord`, `NoTempLeftBehind`, `ListAccurate`, and `ClaimsSpec`: the file-level registry implements `NameClaims` |
| exec | all configurations, 2 signals | 423 thousand | `DependenciesUp`, `NothingLeftBehind`, `ChildIsServed`; `ChildExitEndsRun` and `SignalReachesChild` under fairness |
| keycloak | 3 runs, 2 workloads, 2 authenticator types; symmetric | 2.43 million | `RegisteredIsAttached`, `UnregisterConverges`, `UnlinkedBeforeDrop`, `RepeatNeverRefused`; in each step `RepeatChangesNothing`, `SiblingsUntouched` |
| contexts | 2 commands of 15 kinds, 3 names, 3 servers, 10 initial files; symmetric | 3.15 million | `CurrentExists`, `TokenOnItsServer`, `SavesAreLocal` |
| localhost | 2 commands (a container agent and any other, or two collectors), 3 ports, 2 namespaces, 1 name, 2 seconds, 1 request; symmetric | 563 thousand | `RecordIsTrue`, `RelayedIsItsOwn`, `RecordNamesRunning`, `LaterCollectKeepsConfig`, `RemovedByOwner`, and `HostedClaims`: the runs side by side implement `NameClaims` |
| device | default interval 2, back-off 2, request time limit 3, server interval up to 3, pace up to 4 more, code life up to 16 | 173 thousand | `NeverTooSoon`, `BackoffSettles`, `FailsForAReason`, `GrantedInTime`; `LoginEnds` under fairness |
| rollout | 1 command, 3 policies, sleep 2, deadline 3 | 33 thousand | `SeenIfSteady`, `ConfirmedWhenAlone`, `BoundedWaitEnds` |

Why this is enough.  *registry*: two runs that compete for a name, a third that
takes it after one of them, and two namespaces so that the outer loop of `List`
has a second round.  *exec*: one run is all there is, and two signals are one
more than the channel holds.  *keycloak*: two runs race and a third repeats one
of them, with a sibling workload; `MaxObject` is the number of objects that
three runs can create, counting from the platform client.  *contexts*: any interference between two commands
is one between a load and a save, and the initial files are what earlier
commands leave, so longer histories begin there; two servers of one host and
one of another tell the tokens apart.  *rollout*: the deadline is longer than
one sleep and shorter than two, so it passes in a sleep, at its end and during
a request; a third policy is the one somebody else writes.  *localhost*: each property is
about two commands that meet, in a name, a port or a file; two namespaces for
one name make container names collide, one port for collectors and two for
everything else let a port change hands, and two seconds let two collectors
share one or not.  Three commands are too many for TLC; the theorems below are
for any number.  *device*: requests may take longer than the interval, the code
outlives several polls or none, and the server's pace needs up to two
back-offs.

`CHECK_DEADLOCK FALSE` everywhere: the commands end and nothing happens after.

### Where the code does not do what it says

Five runs check what a comment or the help text says, and TLC finds it
violated.  `PROJECT.json` ("findings") quotes the lines.

| Run | Property | What happens |
|---|---|---|
| exec_swallowed | `ObservedSignalEndsRun` | the session API dies, then a signal comes: it stays in the channel, and the run goes on |
| exec_killed | `SignalledRunLeavesNothing` | a signal during start-up or teardown kills the process and leaves container, record and files |
| keycloak_unfinished | `RegisterFinishes` | interrupted between scope and mapper, repeated with success, still no mapper |
| contexts_token | `TokenNeverMisplaced` | another command between load and device flow: a token on another server's context |
| rollout_restart | `ConfirmedIsLoaded` | an answer without a sidecar, while the pods restart, counts as the new configuration |

Four more are of the same kind, and the models have the behaviour, but no run
of their own:

- `createClient` answers a 409 with a lookup (`register.go:294-295`), and
  `Register` then reports a creation and skips `clientDrift`: a registration that
  races another one with a different authenticator type reports no drift,
  against the comment at `register.go:133-136` (`CreateClientConflict`,
  `RequireClient`).
- After `delete-context` of the current context there are contexts and no current
  one, which `root.go:97-98` and `login.go:100` rule out (`Delete`, and the `pc`
  value "noCurrent").
- `WriteConfig` names the file after the second so that a second `otel collect`
  does not rewrite a running collector's file (`otelcollect.go:380-385`); two
  that begin within one second do (`WriteConfig`, with `raced`).
- A stale admin address "lands here rather than yielding a stale configuration"
  (`identityconfig.go:80-81`): when the port of a dead instance went to another
  one, that one's configuration is relayed (`FetchAnswered`).

### Fairness

*exec*: weak fairness of the start-up, of the loop and of the teardown, for
rossoctl goes on by itself and its waits have time limits (`pipelineStartTimeout`,
`caWaitTimeout`, `runTimeout`, `StopTimeout`, `shutdownTimeout`), and of the exit of a child that was
told to end.  A child that was told nothing may run for ever, and whoever sends
signals owes nothing.  That a child obeys is an assumption about the child; it
makes `ObservedSignalEndsRun` fail for the one reason that is rossoctl's own.
*rollout*: weak fairness of a command that has begun, since requests return or
fail, and of time.  The cluster has none.  *device*: weak fairness of the
client's own steps, of time, and of the failure of a request whose time is up,
which is what `http.Client.Timeout` does.  Nothing is assumed of the user and
nothing of the server, which need not answer.  The other modules state safety
only.

## What is proved

For any number of processes, names and so on, with the constants' assumptions
as in the modules and nothing else.

`InstanceRegistryProofs`:

- `TypeCorrect`.
- `RecordsWholeAlways`, `KeepsItsRecordAlways`, `UniqueNamesAlways` from the
  inductive `RecordInv`.  "Every record is whole" alone is not inductive: that a
  link makes a whole record needs that a run which is to link has written and
  closed its file, and that a removal takes nobody else's record needs that a
  path names the run which is to remove it.
- `NoTempLeftBehindAlways`, which is inductive with the types: whoever has a temp
  name is inside `Create`, was killed there, or could not remove it.
- `ImplementsNameClaims`: each step is a step of `NameClaims` or leaves `file`
  and the status alone, by `RecordInv`.
- `ListAccurateAlways` from `ListInv`, which says what a call in the middle of
  its loops has: of the records that are due, it has got those of the namespaces
  and entries it is done with, and will find the others in what is left to read.
  A skipped directory or file takes its own records out of what is due, and
  leaves the rest of that sum as it was.

`AuthbridgeExecProofs`, for every configuration and any number of signals:

- `TypeCorrect`.
- `DependenciesAlwaysUp`, `NothingLeft`, `ChildAlwaysServed` from the inductive
  `Inv`, whose centre is the stack of teardowns.  None of the three is inductive
  alone: that a teardown step leaves nothing up without what it needs follows
  from the order of the stack (`StackInOrder`) and from the stack being what is
  up (`StackIsLeft`), that a start-up keeps that order from its having made what
  its steps so far make (`StartedSoFar`) and from the two step sequences
  themselves (`NeedsAreBefore`), and that the child is served from nobody
  unwinding under it (`ChildHosted`).
- `NeverWaitsInVain` and `EveryStepAlwaysCounts`, the safety half of
  `ChildExitEndsRun`: rossoctl waits only for a child it has started, takes the
  session API's error at most once, and each of its steps lowers `WayOut`, a
  natural number that no signal, exit or death raises.  What is left to liveness
  is that an enabled step is taken, and that the child ends.

`ContextConfigProofs`:

- `TypeCorrect`, `CurrentExistsAlways` from the conjunction of the two
  properties with `TargetHeld` (a login that has chosen its context has it in its
  copy).  The proof needs for each operation of `config.go` that it
  keeps a configuration consistent; these lemmas come first.
- `TokenOnItsServerAlways`, `SavesAreAlwaysLocal`, from `Undisturbed` on top of
  that.  Both are about commands nobody came in between, and what makes them
  provable is what such a command's copy has to do with the file at each of its
  places: it is the file, or differs from it in the command's own context only
  (`Local`); a login's copy still has the context and the server that the device
  flow resolves again from the file (`Held`, `LoginHeld`).

`KeycloakRegistrationProofs`, for any number of runs and workloads, whatever
calls fail and whatever replies are lost:

- `TypeCorrect`; `RegisteredIsAlwaysAttached`, `UnregisterAlwaysConverges`,
  `AlwaysUnlinkedBeforeDrop` and `RepeatIsNeverRefused` from `IInv`.  What a run
  has achieved holds at its end only because it held at each call since, so
  `Progress` says at each place what an undisturbed run has so far; `Stages`, that
  each command makes its own calls; and `Ids`, that ids are given once and that
  the id of a scope is known to runs for its workload only.  A step of the run
  itself leads from one stage to the next (`OwnRegistering`, `OwnUnregistering`);
  a step of another run that does not disturb it takes nothing back (`ByOthers`),
  for which `Ids` is needed: an unregistration of a sibling holds another id,
  however old.
- `RepeatAlwaysChangesNothing` and `SiblingsAlwaysUntouched`, for every step,
  from `Ids` and `Stages`: a registration's scope id, if it still names anything,
  names its own workload's scope, and a client id never names the platform
  client.

`AgentRolloutProofs`, for all intervals and deadlines, any policies, and any
number of commands on one workload:

- `TypeCorrect`, `SeenIfSteadyAlways` and `ConfirmedWhenAloneAlways` from `IInv`.
  `Steadiness` relates the history to the cluster: a command for which the goal
  has held since its sleep began sees it now, and a probe that missed it got no
  answer.  `Ownership` says what a command that is alone may rely on: the stored
  policy is the baseline before its PUT and its own afterwards, and the sidecar
  serves one of the two or does not answer.  A restart or a reload keeps this,
  another writer ends it.
- `NeverSetBackAlways`, the safety half of `BoundedWaitEnds`: each step of a
  command with a deadline lowers the pair of `Rounds` (the time left for sleeps)
  and `Stage` (the way to the next sleep or the end), lexicographically, and the
  clocks, the cluster and the other commands never raise it.

`LocalHostProofs`, for any number of commands, ports, names and requests:

- `TypeCorrect`, `RecordIsAlwaysTrue`, `AlwaysRelaysItsOwn`,
  `RecordAlwaysNamesRunning`, `LaterCollectAlwaysKeepsConfig`,
  `AlwaysRemovedByOwner`, and `HostedImplementsClaims`, all from `IInv`.  It has
  a part for each of the three modules.  `Hosting`: ports are held by one command
  each, and what a command knows of its addresses is what its container or its
  process has, from the moment it asked until its host goes down.  That a record
  is true needs this of every command that has not registered yet as well.
  `Serving`: an address that is being fetched from was in the record of the
  instance that was found, so that as long as that host is up nobody else can
  answer.  `Collecting`: a collector that runs holds the OTLP port, so there is
  one at a time, a command that has probed and not yet written had begun before
  it came up, and a command that is about to write the record has its collector
  running or was late.

`DeviceFlowProofs`, for all intervals, time limits and lifetimes:

- `TypeCorrect`, `BackoffAlwaysSettles`, `AlwaysFailsForAReason`,
  `AlwaysKeepsItsDistance`, `AlwaysGrantedInTime`, from `IInv`, which adds what
  relates the client to the server while they wait for each other: an answer
  under way says the truth about the code (`AnswersHold`), the client's interval
  is the one it was asked to keep, a slow_down under way apart, and the sleep
  that is left and the time since the last poll make it up (`KeepsInterval`), and
  what a granted code has lost of its life is in the sleep and the requests since
  (`Spent`).
- `EveryStepAlwaysCounts`, the safety half of `LoginEnds`: every step, of the
  clock, the client or the server, lowers a pair of natural numbers, and the
  user's decision leaves it as it is.

The three measures, `NeverInVain`, and `UniqueNames` are defined next to their
proofs and have no run of their own; TLC agreed with each on the instance of the
component's run before it was proved, as it did with each inductive invariant.

Only model-checked: `ChildExitEndsRun`, `SignalReachesChild`, `LoginEnds` and
`BoundedWaitEnds`, for the prover has no rule for fairness or ENABLED.  Every
other property of a passing run is a theorem.  The properties of the runs that
expect a violation are false.

## What is not modelled

- Request encoding and output: the API client beyond what `AgentRollout` and
  `ServedInstances` need, the resource commands, A2A messages.  Each sends a
  request and prints the answer.
- The merging of parameters and environment variables, JWT decoding, address and
  duration parsing: conversions without state.
- The generated collector configuration, the mock trace, and the rewriting of
  an agent card's URL.
- The plugins and proxies that exec hosts, which are another project's.
- `config.yaml` is one value: its format, and fields no command relates to
  another one, are left out.
- Scope names: a workload of `KeycloakRegistration` stands for the scope name
  that `AudienceScopeName` derives.  Two workloads that share one, which the
  comment at `keycloakadmin.go:92-97` accepts, are one workload to it.
- How many times a signal reaches a child that gets it from the terminal and
  from rossoctl.

Not modelled within the modules: a realm or a cluster that loses data, a file
system that reorders writes on a power failure, a clock that goes backwards, a
user who removes a live run's record or its running container by hand (stopping
it is modelled).

## Plan

1. *Done*: registry, exec, registration, contexts, rollouts; device flow; the
   machine with its container runtime, instances, collectors and server.
2. *Done*: every property of a passing run that is not liveness is a theorem,
   and each liveness property of commands that end by themselves has its measure.
3. An abstract run (hosting, serving a child, tearing down) that both
   `AuthbridgeExec` and the runs of `HostedInstances` implement, so that what is
   one step on the machine is justified by the detailed run, with proofs.
4. A login that uses `DeviceFlow` in place of its one step.
5. Operators checked against a reference definition: host names and context
   names, merging of parameters and environment variables.
