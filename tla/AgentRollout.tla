---------------------------- MODULE AgentRollout ----------------------------
(***************************************************************************)
(* Commands that wait for an agent (or tool) on the server: `wait`, which   *)
(* polls its readiness, and `authbridge set`, which stores a policy and,    *)
(* with --wait, polls the configuration that the agent's sidecar serves     *)
(* until it differs from the one read before the write.                    *)
(*                                                                         *)
(* The server, the pods and the sidecar are external.  Time passes between *)
(* any two steps; a deadline is the time left until it.                     *)
(***************************************************************************)
EXTENDS Integers

CONSTANTS
  Command,    \* invocations of rossoctl
  Kind,       \* which of the commands are run
  Policy,     \* AuthBridge configurations
  NoSidecar,  \* the answer {"AuthBridge": false}: no pod answered the server
  Failure,    \* no answer: a network error or a 5xx
  Interval,   \* waitPollInterval, authbridgeWaitInterval
  Timeout     \* --timeout, authbridgeWaitTimeout

ASSUME TimesAssumption ==
  /\ Interval \in Nat \ {0}
  /\ Timeout \in Nat \ {0}

ASSUME AnswersAssumption ==
  /\ Kind \subseteq {"wait", "set", "setWait"}
  /\ NoSidecar # Failure
  /\ {NoSidecar, Failure} \cap Policy = {}

VARIABLES
  status,    \* the workload's readiness
  stored,    \* the policy in the ConfigMap
  served,    \* what the sidecar runs from
  job,       \* what each command was asked to do
  pc,        \* where each command is
  left,      \* the time left until its deadline, -1 once that has passed
  nap,       \* the time left of its sleep
  baseline,  \* the configuration a set --wait compares with
  seen,      \* the last answer to a poll
  steady,    \* history: what a command waits for holds since it last slept
  alone      \* history: since the baseline, only this command's own policy
             \* is on its way to the sidecar

world == <<status, stored, served>>
vars == <<world, job, pc, left, nap, baseline, seen, steady, alone>>

-----------------------------------------------------------------------------

\* classifyReadyStatus, and 404 for a workload the server does not know.
Status == {"pending", "ready", "failed", "notFound"}
Served == Policy \cup {NoSidecar}
Answer == Served \cup Status \cup {Failure}

Job == [kind : Kind, policy : Policy, limited : BOOLEAN]

Over == {"done", "failed", "notFound", "timedOut"}
Waiting == {"napping", "probing", "checking"}

TypeOK ==
  /\ status \in Status
  /\ stored \in Policy
  /\ served \in Served
  /\ job \in [Command -> Job]
  /\ pc \in [Command -> {"idle", "baseline", "put"} \cup Waiting \cup Over]
  /\ left \in [Command -> -1 .. Timeout]
  /\ nap \in [Command -> 0 .. Interval]
  /\ baseline \in [Command -> Served]
  /\ seen \in [Command -> Answer]
  /\ steady \in [Command -> BOOLEAN]
  /\ alone \in [Command -> BOOLEAN]

\* --timeout 0 waits without a deadline; the set's is not a flag.  A wait has
\* no policy of its own.
Init ==
  /\ status \in Status
  /\ stored \in Policy
  /\ served \in Served
  /\ job \in [Command -> {j \in Job : IF j.kind = "wait" THEN j.policy = stored
                                                        ELSE j.limited}]
  /\ pc = [c \in Command |-> "idle"]
  /\ left = [c \in Command |-> Timeout]
  /\ nap = [c \in Command |-> 0]
  /\ baseline = [c \in Command |-> NoSidecar]
  /\ seen = [c \in Command |-> Failure]
  /\ steady = [c \in Command |-> FALSE]
  /\ alone = [c \in Command |-> FALSE]

Goto(c, from, to) ==
  /\ pc[c] = from
  /\ pc' = [pc EXCEPT ![c] = to]

Is(c, kind) == job[c].kind = kind

\* The deadline is exclusive: After.
Expired(c) == job[c].limited /\ left[c] = -1

-----------------------------------------------------------------------------
(* The beginnings of the commands.                                         *)

\* waitForReady probes before it sleeps.
BeginWait(c) ==
  /\ Is(c, "wait")
  /\ Goto(c, "idle", "probing")
  /\ left' = [left EXCEPT ![c] = Timeout]
  /\ UNCHANGED <<world, job, nap, baseline, seen, alone>>

\* The policy file is read first, and may not be there.
BeginSet(c) ==
  /\ ~Is(c, "wait")
  /\ \/ Goto(c, "idle", IF Is(c, "setWait") THEN "baseline" ELSE "put")
     \/ Goto(c, "idle", "failed")
  /\ UNCHANGED <<world, job, left, nap, baseline, seen, alone>>

\* No baseline, no write.  One without a sidecar is a baseline.
ReadBaseline(c) ==
  /\ \/ /\ Goto(c, "baseline", "put")
        /\ baseline' = [baseline EXCEPT ![c] = served]
        /\ alone' = [alone EXCEPT ![c] = (served = stored)]
     \/ Goto(c, "baseline", "failed") /\ UNCHANGED <<baseline, alone>>
  /\ UNCHANGED <<world, job, left, nap, seen>>

\* The PUT takes effect, and its answer may still be lost.
Put(c) ==
  /\ \/ Goto(c, "put", IF Is(c, "setWait") THEN "napping" ELSE "done")
     \/ Goto(c, "put", "failed")
  /\ stored' = job[c].policy
  /\ left' = [left EXCEPT ![c] = Timeout]
  /\ nap' = [nap EXCEPT ![c] = Interval]
  /\ alone' = [d \in Command |-> alone[d] /\ d = c]
  /\ UNCHANGED <<status, served, job, baseline, seen>>

PutFails(c) ==
  /\ Goto(c, "put", "failed")
  /\ UNCHANGED <<world, job, left, nap, baseline, seen, alone>>

-----------------------------------------------------------------------------
(* The polling loops.                                                      *)

\* Altered: the deadline is looked at when the sleep is over.
Wake_ChecksDeadline(c) ==
  /\ nap[c] = 0
  /\ Goto(c, "napping", IF Expired(c) THEN "timedOut" ELSE "probing")
  /\ UNCHANGED <<world, job, left, nap, baseline, seen, alone>>

Wake(c) ==
  /\ nap[c] = 0
  /\ Goto(c, "napping", "probing")
  /\ UNCHANGED <<world, job, left, nap, baseline, seen, alone>>

\* The answers a GET can have now.
Answers(c) == {IF Is(c, "wait") THEN status ELSE served, Failure}

\* What a wait does about an answer.  Only 404 and the failed statuses end it
\* early; an error is retried.
AfterStatus(a) ==
  CASE a = "ready"    -> "done"
    [] a = "failed"   -> "failed"
    [] a = "notFound" -> "notFound"
    [] OTHER          -> "checking"

\* Altered: an answer that did not come is compared too.
AfterConfig_AnyError(a, base) == IF a # base THEN "done" ELSE "checking"

\* identityConfigChanged.  With no sidecar there is no mode and no pipeline
\* in the answer, so that is a configuration that differs from any other; the
\* AuthBridge key alone makes no difference.
AfterConfig(a, base) == IF a \notin {Failure, base} THEN "done" ELSE "checking"

Probe(c) ==
  /\ \E a \in Answers(c) :
       /\ seen' = [seen EXCEPT ![c] = a]
       /\ Goto(c, "probing",
               IF Is(c, "wait") THEN AfterStatus(a) ELSE AfterConfig(a, baseline[c]))
  /\ UNCHANGED <<world, job, left, nap, baseline, alone>>

GiveUp(c) ==
  /\ Expired(c)
  /\ Goto(c, "checking", "timedOut")
  /\ UNCHANGED <<world, job, left, nap, baseline, seen, alone>>

\* Altered: each round has a deadline of its own.
Sleep_Anew(c) ==
  /\ ~Expired(c)
  /\ Goto(c, "checking", "napping")
  /\ left' = [left EXCEPT ![c] = Timeout]
  /\ nap' = [nap EXCEPT ![c] = Interval]
  /\ UNCHANGED <<world, job, baseline, seen, alone>>

\* Altered: the interval is added to what is left of the time.
Sleep_Adds(c) ==
  /\ ~Expired(c)
  /\ Goto(c, "checking", "napping")
  /\ nap' = [nap EXCEPT ![c] = Interval + left[c]]
  /\ UNCHANGED <<world, job, left, baseline, seen, alone>>

Sleep(c) ==
  /\ ~Expired(c)
  /\ Goto(c, "checking", "napping")
  /\ nap' = [nap EXCEPT ![c] = Interval]
  /\ UNCHANGED <<world, job, left, baseline, seen, alone>>

-----------------------------------------------------------------------------
(* Time, and the cluster (external).                                       *)

\* Clocks run for the commands that are waiting.
Tick ==
  /\ left' = [c \in Command |->
       IF pc[c] \in Waiting /\ job[c].limited /\ left[c] >= 0 THEN left[c] - 1 ELSE left[c]]
  /\ nap' = [c \in Command |->
       IF pc[c] = "napping" /\ nap[c] > 0 THEN nap[c] - 1 ELSE nap[c]]
  /\ UNCHANGED <<world, job, pc, baseline, seen, alone>>

StatusChanges ==
  /\ status' \in Status
  /\ UNCHANGED <<stored, served, job, pc, left, nap, baseline, seen, alone>>

\* The sidecar, of a new pod perhaps, loads what is stored.
Load ==
  /\ served' = stored
  /\ UNCHANGED <<status, stored, job, pc, left, nap, baseline, seen, alone>>

\* The pods restart: for a while nobody answers the server.
PodsRestart ==
  /\ served' = NoSidecar
  /\ UNCHANGED <<status, stored, job, pc, left, nap, baseline, seen, alone>>

\* Somebody else stores a policy.
OtherWrites ==
  /\ stored' \in Policy
  /\ alone' = [c \in Command |-> FALSE]
  /\ UNCHANGED <<status, served, job, pc, left, nap, baseline, seen>>

-----------------------------------------------------------------------------

Step(c) ==
  \/ BeginWait(c)
  \/ BeginSet(c)
  \/ ReadBaseline(c)
  \/ Put(c)
  \/ PutFails(c)
  \/ Wake(c)
  \/ Probe(c)
  \/ GiveUp(c)
  \/ Sleep(c)

\* It is of interest until the last command is over.
Cluster ==
  /\ \E c \in Command : pc[c] \notin Over
  /\ \/ StatusChanges
     \/ Load
     \/ PodsRestart
     \/ OtherWrites

\* What a command waits for: the workload is ready, or the sidecar serves a
\* configuration that is not the baseline.
Goal(c) ==
  IF Is(c, "wait") THEN status = "ready" ELSE served \notin {NoSidecar, baseline[c]}

Observe ==
  steady' = [c \in Command |->
    /\ pc'[c] \in Waiting \cup {"timedOut"}
    /\ Goal(c)'
    /\ steady[c] \/ pc'[c] = "napping"]

Next ==
  /\ \/ \E c \in Command : Step(c)
     \/ Tick
     \/ Cluster
  /\ Observe

Spec == Init /\ [][Next]_vars

\* Requests have a time limit, sleeps end, and the clock goes on.  The cluster
\* owes nothing.
Fairness ==
  /\ \A c \in Command : WF_vars(pc[c] # "idle" /\ Step(c) /\ Observe)
  /\ WF_vars(Tick /\ Observe)

LiveSpec == Spec /\ Fairness

-----------------------------------------------------------------------------
(* Properties.                                                             *)

\* "The last sleep is always followed by one more attempt instead of expiring
\* in the gap": what became true while the command slept, and stayed true, is
\* not reported as a timeout, unless the last attempt got no answer.
SeenIfSteady ==
  \A c \in Command :
    pc[c] = "timedOut" /\ steady[c] => seen[c] = Failure

\* When `set --wait` reports the new configuration it is the one it wrote, if
\* the sidecar had loaded the stored policy when the baseline was read, nobody
\* else has written since, and the server reached the sidecar both times.
ConfirmedWhenAlone ==
  \A c \in Command :
    /\ pc[c] = "done"
    /\ Is(c, "setWait")
    /\ alone[c]
    /\ NoSidecar \notin {baseline[c], seen[c]}
    => seen[c] = job[c].policy

\* A command with a deadline ends, whatever the cluster does or does not do.
BoundedWaitEnds ==
  \A c \in Command : pc[c] # "idle" /\ job[c].limited ~> pc[c] \in Over

-----------------------------------------------------------------------------
(* What the comments say, and the code does not do.                        *)

\* `set --wait`: "a change relative to the baseline is the signal that the
\* new configuration was loaded", and a pod that restarts does not "look like
\* the configuration change we are waiting for".
ConfirmedIsLoaded ==
  \A c \in Command :
    pc[c] = "done" /\ Is(c, "setWait") => seen[c] = job[c].policy

=============================================================================
