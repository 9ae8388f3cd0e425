-------------------------- MODULE ContainerRuntime --------------------------
(***************************************************************************)
(* The container runtime and the ports of this host, as internal/containers *)
(* uses them: Start, Stop and Inspect, which call `run -d`, `stop`, `rm -f` *)
(* and `inspect`.  A command starts at most one container, so the command   *)
(* stands for the id the runtime gave it.  A pipeline hosted by a command's *)
(* own process holds its ports in the same table, without a container.     *)
(*                                                                         *)
(* A container's name is taken from its creation to its removal, its host  *)
(* ports only while it runs.                                               *)
(***************************************************************************)
EXTENDS FiniteSets

CONSTANTS
  Command,  \* commands that host something on this machine
  Port,     \* ports of this host
  Otlp,     \* the port the collector is published on
  None      \* no port, no name, no command

ASSUME PortAssumption == Otlp \in Port /\ None \notin Port /\ None \notin Command

VARIABLES
  container,  \* the container of each command
  label,      \* its name
  bound       \* the host port of each listener of a command

runtimeVars == <<container, label, bound>>

-----------------------------------------------------------------------------

\* What listens: the reverse proxy, the stats and config endpoint, the OTLP
\* receiver (4317 and 4318 are published together).
Role == {"inbound", "admin", "otlp"}

Binding == [Role -> Port \cup {None}]

Unbound == [r \in Role |-> None]

Held(c) == {bound[c][r] : r \in Role} \ {None}

Free == Port \ UNION {Held(c) : c \in Command}

\* The ways to give the listeners rs a port of P each.
Bindings(rs, P) ==
  {b \in Binding :
     /\ \A r \in Role : IF r \in rs THEN b[r] \in P ELSE b[r] = None
     /\ \A r, s \in rs : b[r] = b[s] => r = s}

RuntimeInit ==
  /\ container = [c \in Command |-> "absent"]
  /\ label = [c \in Command |-> None]
  /\ bound = [c \in Command |-> Unbound]

Runs(c) == container[c] = "running"

NameTaken(n) == \E c \in Command : label[c] = n

-----------------------------------------------------------------------------
(* Engine.Start.                                                           *)

\* `run -d` prints the id: the container runs and has its ports.
Launch(c, n, b) ==
  /\ ~NameTaken(n)
  /\ container' = [container EXCEPT ![c] = "running"]
  /\ label' = [label EXCEPT ![c] = n]
  /\ bound' = [bound EXCEPT ![c] = b]

\* The container is created and does not start, because a port is taken,
\* the image does not run, or the time is up: no id, and the name is taken.
LaunchHalf(c, n) ==
  /\ ~NameTaken(n)
  /\ container' = [container EXCEPT ![c] = "created"]
  /\ label' = [label EXCEPT ![c] = n]
  /\ UNCHANGED bound

(* Engine.Stop: stop and then rm -f, by id.                                *)

Halt(c) ==
  /\ container' = [container EXCEPT ![c] = IF Runs(c) THEN "exited" ELSE @]
  /\ bound' = [bound EXCEPT ![c] = Unbound]
  /\ UNCHANGED label

\* Altered: the name of a container that was removed stays taken.
Erase_KeepsName(c) ==
  /\ container' = [container EXCEPT ![c] = "absent"]
  /\ bound' = [bound EXCEPT ![c] = Unbound]
  /\ UNCHANGED label

Erase(c) ==
  /\ container' = [container EXCEPT ![c] = "absent"]
  /\ label' = [label EXCEPT ![c] = None]
  /\ bound' = [bound EXCEPT ![c] = Unbound]

(* The listeners of a pipeline in the command's own process.               *)

Open(c, b) ==
  /\ bound' = [bound EXCEPT ![c] = b]
  /\ UNCHANGED <<container, label>>

Close(c) ==
  /\ bound' = [bound EXCEPT ![c] = Unbound]
  /\ UNCHANGED <<container, label>>

\* Somebody cleans up with `docker rm` or `docker container prune`.
UserRemoves(c) ==
  /\ container[c] \in {"created", "exited"}
  /\ Erase(c)

=============================================================================
