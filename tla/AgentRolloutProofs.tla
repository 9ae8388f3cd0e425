-------------------------- MODULE AgentRolloutProofs --------------------------
(* Theorems about AgentRollout, for any commands, policies and times, and   *)
(* whatever the cluster does.                                              *)
EXTENDS AgentRollout, TLAPS

\* A command that has seen what it waits for ever since it last slept, sees it
\* now; and its last probe can only have missed it for want of an answer.
Steadiness ==
  \A c \in Command : steady[c] =>
    /\ Goal(c)
    /\ pc[c] \in {"checking", "timedOut"} => seen[c] = Failure

\* While a set --wait is alone, what is stored is the baseline before its PUT
\* and its own policy after it, and the sidecar runs from one of the two or
\* does not answer.
Owned(c) ==
  /\ pc[c] \notin {"idle", "baseline"}
  /\ pc[c] = "put" => stored = baseline[c] /\ served \in {stored, NoSidecar}
  /\ pc[c] \in Waiting =>
       stored = job[c].policy /\ served \in {stored, baseline[c], NoSidecar}
  /\ pc[c] = "done" => seen[c] \in {job[c].policy, NoSidecar}

Ownership == \A c \in Command : Is(c, "setWait") /\ alone[c] => Owned(c)

IInv == TypeOK /\ Steadiness /\ Ownership

-----------------------------------------------------------------------------
(* The kinds of step.                                                      *)

\* A step is one of a command, of the clocks or of the cluster.
LEMMA StepCases ==
  Next => Observe /\ ((\E c \in Command : Step(c)) \/ Tick \/ Cluster)
BY DEF Next

\* Putting a time into its clock.
LEMMA Clocks == Interval \in 0 .. Interval /\ Timeout \in -1 .. Timeout
BY TimesAssumption

\* What the history of a waiting command says.
LEMMA Observed ==
  ASSUME Observe
  PROVE  /\ steady' \in [Command -> BOOLEAN]
         /\ \A c \in Command : steady'[c] => Goal(c)' /\ (steady[c] \/ pc'[c] = "napping")
<1>1. \A c \in Command : (/\ pc'[c] \in Waiting \cup {"timedOut"}
                          /\ Goal(c)'
                          /\ steady[c] \/ pc'[c] = "napping") \in BOOLEAN
  OBVIOUS
<1> QED  BY <1>1 DEF Observe

-----------------------------------------------------------------------------
(* Types.                                                                  *)

\* What the steps of a command do to the types.
LEMMA CommandTypes ==
  ASSUME TypeOK, NEW c \in Command, Step(c), steady' \in [Command -> BOOLEAN]
  PROVE  TypeOK'
<1> USE DEF TypeOK, Goto, world
<1>1. CASE BeginWait(c)
  BY <1>1, Clocks DEF BeginWait, Waiting
<1>2. CASE BeginSet(c)
  BY <1>2 DEF BeginSet, Over
<1>3. CASE ReadBaseline(c)
  <2>1. alone' \in [Command -> BOOLEAN]
    <3>1. (served = stored) \in BOOLEAN
      OBVIOUS
    <3>2. \A b \in BOOLEAN : [alone EXCEPT ![c] = b] \in [Command -> BOOLEAN]
      OBVIOUS
    <3> QED  BY <1>3, <3>1, <3>2 DEF ReadBaseline
  <2>2. baseline' \in [Command -> Served]
    BY <1>3 DEF ReadBaseline
  <2>3. pc' \in [Command -> {"idle", "baseline", "put"} \cup Waiting \cup Over]
    BY <1>3 DEF ReadBaseline, Over
  <2> QED  BY <1>3, <2>1, <2>2, <2>3 DEF ReadBaseline
<1>4. CASE Put(c)
  <2>1. job[c].policy \in Policy
    BY DEF Job
  <2>2. \A d \in Command : (alone[d] /\ d = c) \in BOOLEAN
    OBVIOUS
  <2>3. alone' \in [Command -> BOOLEAN]
    BY <1>4, <2>2 DEF Put
  <2> QED  BY <1>4, <2>1, <2>3, Clocks DEF Put, Waiting, Over
<1>5. CASE PutFails(c)
  BY <1>5 DEF PutFails, Over
<1>6. CASE Wake(c)
  BY <1>6 DEF Wake, Waiting
<1>7. CASE Probe(c)
  <2>1. PICK a \in Answers(c) :
          /\ seen' = [seen EXCEPT ![c] = a]
          /\ Goto(c, "probing",
                  IF Is(c, "wait") THEN AfterStatus(a) ELSE AfterConfig(a, baseline[c]))
    BY <1>7 DEF Probe
  <2>2. a \in Answer
    BY DEF Answers, Answer
  <2>3. /\ AfterStatus(a) \in {"done", "failed", "notFound", "checking"}
        /\ AfterConfig(a, baseline[c]) \in {"done", "checking"}
    BY DEF AfterStatus, AfterConfig
  <2> QED  BY <1>7, <2>1, <2>2, <2>3 DEF Probe, Waiting, Over
<1>8. CASE GiveUp(c)
  BY <1>8 DEF GiveUp, Over
<1>9. CASE Sleep(c)
  BY <1>9, Clocks DEF Sleep, Waiting
<1> QED  BY <1>1, <1>2, <1>3, <1>4, <1>5, <1>6, <1>7, <1>8, <1>9 DEF Step

\* And every other step.
LEMMA TypeStep ==
  ASSUME TypeOK, Next
  PROVE  TypeOK'
<1>1. steady' \in [Command -> BOOLEAN]
  BY StepCases, Observed
<1>2. CASE \E c \in Command : Step(c)
  BY <1>1, <1>2, CommandTypes
<1>3. CASE Tick
  <2>1. left' \in [Command -> -1 .. Timeout] /\ nap' \in [Command -> 0 .. Interval]
    BY <1>3, TimesAssumption DEF Tick, TypeOK
  <2> QED  BY <1>1, <1>3, <2>1 DEF Tick, TypeOK, world
<1>4. CASE Cluster
  BY <1>1, <1>4 DEF Cluster, StatusChanges, Load, PodsRestart, OtherWrites, TypeOK, Served
<1> QED  BY <1>2, <1>3, <1>4, StepCases

-----------------------------------------------------------------------------
(* What a command can rely on while the others, the clocks or the cluster   *)
(* take a step.                                                            *)

Untouched(c) ==
  /\ pc'[c] = pc[c]
  /\ seen'[c] = seen[c]
  /\ baseline'[c] = baseline[c]
  /\ alone'[c] => /\ alone[c]
                  /\ stored' = stored
                  /\ served' \in {served, stored, NoSidecar}

\* Nobody but the command itself moves it, and whoever else writes a policy
\* ends its being alone.
LEMMA Rely ==
  ASSUME TypeOK, Next, NEW c \in Command
  PROVE  job' = job /\ (Step(c) \/ Untouched(c))
<1> USE DEF TypeOK, world, Untouched
<1>1. CASE Tick
  BY <1>1 DEF Tick
<1>2. CASE Cluster
  BY <1>2 DEF Cluster, StatusChanges, Load, PodsRestart, OtherWrites
<1>3. ASSUME NEW d \in Command, Step(d) PROVE job' = job /\ (d # c => Untouched(c))
  BY <1>3 DEF Step, BeginWait, BeginSet, ReadBaseline, Put, PutFails, Wake, Probe, GiveUp,
              Sleep, Goto
<1> QED  BY <1>1, <1>2, <1>3, StepCases

-----------------------------------------------------------------------------
(* Steadiness.                                                             *)

\* A probe of what a command waits for ends the wait, unless the answer is
\* lost.
LEMMA ProbeMisses ==
  ASSUME TypeOK, NEW c \in Command, Probe(c), Goal(c), pc'[c] = "checking"
  PROVE  seen'[c] = Failure
<1>1. PICK a \in Answers(c) :
        /\ seen' = [seen EXCEPT ![c] = a]
        /\ pc' = [pc EXCEPT ![c] = IF Is(c, "wait") THEN AfterStatus(a)
                                                    ELSE AfterConfig(a, baseline[c])]
  BY DEF Probe, Goto
<1>2. seen'[c] = a
  BY <1>1 DEF TypeOK
<1>3. CASE Is(c, "wait")
  <2>1. AfterStatus(a) = "checking"
    BY <1>1, <1>3 DEF TypeOK
  <2>2. a # "ready"
    BY <2>1 DEF AfterStatus
  <2> QED  BY <1>2, <1>3, <2>2 DEF Answers, Goal
<1>4. CASE ~Is(c, "wait")
  <2>1. AfterConfig(a, baseline[c]) = "checking"
    BY <1>1, <1>4 DEF TypeOK
  <2>2. a \in {Failure, baseline[c]}
    BY <2>1 DEF AfterConfig
  <2> QED  BY <1>2, <1>4, <2>2 DEF Answers, Goal
<1> QED  BY <1>3, <1>4

\* A step leaves a steady command with an answer that did not come, if any.
LEMMA SteadinessStep ==
  ASSUME TypeOK, Steadiness, Next
  PROVE  Steadiness'
<1> SUFFICES ASSUME NEW c \in Command, steady'[c], pc'[c] \in {"checking", "timedOut"}
             PROVE  seen'[c] = Failure
  BY StepCases, Observed DEF Steadiness
<1>1. steady[c] /\ Goal(c)
  BY StepCases, Observed DEF Steadiness
<1>2. CASE Untouched(c)
  BY <1>1, <1>2 DEF Untouched, Steadiness
<1>3. CASE Probe(c)
  <2>1. pc'[c] # "timedOut"
    BY <1>3 DEF Probe, Goto, TypeOK, AfterStatus, AfterConfig
  <2> QED  BY <1>1, <1>3, <2>1, ProbeMisses
<1>4. CASE GiveUp(c)
  BY <1>1, <1>4 DEF GiveUp, Goto, Steadiness
<1>5. CASE Step(c) /\ ~Probe(c) /\ ~GiveUp(c)
  BY <1>5 DEF Step, BeginWait, BeginSet, ReadBaseline, Put, PutFails, Wake, Sleep, Goto, TypeOK
<1> QED  BY <1>2, <1>3, <1>4, <1>5, Rely

-----------------------------------------------------------------------------
(* Ownership.                                                              *)

\* A command that is alone after a step was so before it, unless the step is
\* its reading of the baseline; either way it is where it should be.
LEMMA OwnershipStep ==
  ASSUME TypeOK, Ownership, Next
  PROVE  Ownership'
<1> SUFFICES ASSUME NEW c \in Command, Is(c, "setWait"), alone'[c]
             PROVE  Owned(c)'
  BY Rely DEF Ownership, Is
<1>1. job' = job
  BY Rely
<1>2. alone[c] => Owned(c)
  BY DEF Ownership
<1>3. CASE Untouched(c)
  BY <1>1, <1>2, <1>3 DEF Untouched, Owned
<1>4. CASE BeginWait(c) \/ BeginSet(c)
  BY <1>2, <1>4 DEF BeginWait, BeginSet, Goto, Owned
<1>5. CASE ReadBaseline(c)
  BY <1>2, <1>5 DEF ReadBaseline, Goto, Owned, TypeOK, Waiting, world
<1>6. CASE Put(c)
  BY <1>1, <1>2, <1>6 DEF Put, Goto, Owned, TypeOK, Waiting, Is
<1>7. CASE PutFails(c)
  BY <1>7 DEF PutFails, Goto, Owned, TypeOK, Waiting
<1>8. CASE Probe(c)
  <2>1. PICK a \in Answers(c) :
          /\ seen' = [seen EXCEPT ![c] = a]
          /\ pc[c] = "probing"
          /\ pc' = [pc EXCEPT ![c] = AfterConfig(a, baseline[c])]
    BY <1>8 DEF Probe, Goto, Is
  <2>2. seen'[c] = a /\ pc'[c] = AfterConfig(a, baseline[c])
    BY <2>1 DEF TypeOK
  <2>3. /\ stored = job[c].policy
        /\ served \in {stored, baseline[c], NoSidecar}
        /\ UNCHANGED <<stored, served, baseline>>
    BY <1>2, <1>8, <2>1 DEF Probe, Owned, Waiting, world
  <2>4. CASE a \in {Failure, baseline[c]}
    BY <1>1, <2>2, <2>3, <2>4 DEF AfterConfig, Owned, Waiting
  <2>5. CASE a \notin {Failure, baseline[c]}
    BY <1>1, <2>2, <2>3, <2>5 DEF AfterConfig, Owned, Waiting, Answers, Is
  <2> QED  BY <2>4, <2>5
<1>9. CASE Wake(c) \/ Sleep(c) \/ GiveUp(c)
  BY <1>1, <1>2, <1>9 DEF Wake, Sleep, GiveUp, Goto, Owned, TypeOK, Waiting, world
<1> QED  BY <1>3, <1>4, <1>5, <1>6, <1>7, <1>8, <1>9, Rely DEF Step

-----------------------------------------------------------------------------
(* The inductive invariant and the theorems.                               *)

\* The invariant holds at the start, ...
LEMMA InitInv == Init => IInv
<1> SUFFICES ASSUME Init PROVE IInv
  OBVIOUS
<1>1. TypeOK
  BY Clocks, TimesAssumption DEF Init, TypeOK, Served, Answer
<1> QED  BY <1>1 DEF Init, IInv, Steadiness, Ownership

\* ... every step keeps it, ...
LEMMA StepInv == IInv /\ [Next]_vars => IInv'
<1>1. IInv /\ Next => IInv'
  BY TypeStep, SteadinessStep, OwnershipStep DEF IInv
<1>2. IInv /\ UNCHANGED vars => IInv'
  BY DEF IInv, TypeOK, Steadiness, Goal, Ownership, Owned, Is, vars, world
<1> QED  BY <1>1, <1>2

\* ... and so it holds throughout.
LEMMA Inductive == Spec => []IInv
<1> QED  BY InitInv, StepInv, PTL DEF Spec

\* Every variable of the rollout model keeps its type: the clocks in
\* particular never leave their ranges.
THEOREM TypeCorrect == Spec => []TypeOK
<1>1. IInv => TypeOK
  BY DEF IInv
<1> QED  BY <1>1, Inductive, PTL

\* What became true while a command slept, and stayed true, is reported as a
\* timeout only when the last attempt got no answer: no deadline, and no
\* length of the sleep, makes a command give up without one more look.
THEOREM SeenIfSteadyAlways == Spec => []SeenIfSteady
<1>1. IInv => SeenIfSteady
  BY DEF IInv, Steadiness, SeenIfSteady
<1> QED  BY <1>1, Inductive, PTL

\* A set --wait that is alone, and whose server reached the sidecar both
\* times, reports its own policy, however often the pods restart and the
\* sidecar reloads meanwhile.
THEOREM ConfirmedWhenAloneAlways == Spec => []ConfirmedWhenAlone
<1>1. IInv => ConfirmedWhenAlone
  BY DEF IInv, Ownership, Owned, ConfirmedWhenAlone
<1> QED  BY <1>1, Inductive, PTL

-----------------------------------------------------------------------------
(* The way to the end.                                                     *)

\* How often a command with a deadline may still sleep: the time that will be
\* left when it wakes.
Rounds(c) ==
  CASE pc[c] \in {"idle", "baseline", "put"} -> Timeout + 2
    [] pc[c] = "napping" -> IF left[c] >= nap[c] THEN left[c] - nap[c] + 1 ELSE 0
    [] pc[c] \in {"probing", "checking"} -> left[c] + 1
    [] OTHER -> 0

\* How far it is from its next sleep, or its end.
Stage(c) ==
  CASE pc[c] = "idle" -> 3
    [] pc[c] = "baseline" -> 2
    [] pc[c] = "put" -> 1
    [] pc[c] = "napping" -> nap[c] + 3
    [] pc[c] = "probing" -> 2
    [] pc[c] = "checking" -> 1
    [] OTHER -> 0

Nearer(c) == Rounds(c)' < Rounds(c) \/ (Rounds(c)' = Rounds(c) /\ Stage(c)' < Stage(c))

\* Every step of a command with a deadline takes it nearer to its end, which is
\* a number of steps away that only the times determine, and nothing that
\* happens meanwhile sets it back.
NeverSetBack ==
  [][\A c \in Command : job[c].limited =>
       \/ Nearer(c)
       \/ ~Step(c) /\ Rounds(c)' = Rounds(c) /\ Stage(c)' = Stage(c)]_vars

\* How far a command is at each place it can be.
LEMMA Places ==
  ASSUME TypeOK, NEW c \in Command
  PROVE  /\ pc[c] \in {"idle", "baseline", "put"} => Rounds(c) = Timeout + 2
         /\ pc[c] = "napping" =>
              /\ Rounds(c) = IF left[c] >= nap[c] THEN left[c] - nap[c] + 1 ELSE 0
              /\ Stage(c) = nap[c] + 3
         /\ pc[c] \in {"probing", "checking"} => Rounds(c) = left[c] + 1
         /\ pc[c] \in Over => Rounds(c) = 0 /\ Stage(c) = 0
         /\ pc[c] = "idle" => Stage(c) = 3
         /\ pc[c] = "baseline" => Stage(c) = 2
         /\ pc[c] = "put" => Stage(c) = 1
         /\ pc[c] = "probing" => Stage(c) = 2
         /\ pc[c] = "checking" => Stage(c) = 1
BY DEF Rounds, Stage, Over

\* The distance is a pair of natural numbers, so that it cannot fall for ever.
LEMMA Distances ==
  ASSUME TypeOK, NEW c \in Command
  PROVE  Rounds(c) \in Nat /\ Stage(c) \in Nat
BY Places, TimesAssumption DEF TypeOK, Waiting, Over

\* A command's own step takes it nearer to its end: a sleep takes an interval
\* of what is left.
LEMMA OwnNearer ==
  ASSUME TypeOK, TypeOK', NEW c \in Command, job[c].limited, Step(c)
  PROVE  Nearer(c)
<1> USE TimesAssumption DEF Goto, TypeOK
<1>1. Rounds(c) \in Nat /\ Stage(c) \in Nat /\ left[c] \in -1 .. Timeout
  BY Distances
<1>2. ASSUME NEW to \in Over, pc' = [pc EXCEPT ![c] = to], pc[c] \notin Over
      PROVE  Nearer(c)
  <2>1. Rounds(c)' = 0 /\ Stage(c)' = 0
    BY <1>2, Places DEF Over, Rounds, Stage
  <2>2. Stage(c) > 0
    BY <1>1, <1>2, Places DEF Waiting
  <2> QED  BY <1>1, <2>1, <2>2 DEF Nearer
<1>3. CASE BeginWait(c) \/ BeginSet(c) \/ ReadBaseline(c) \/ Put(c) \/ PutFails(c)
  <2>1. CASE pc'[c] = "failed" \/ pc'[c] = "done"
    BY <1>2, <1>3, <2>1 DEF BeginWait, BeginSet, ReadBaseline, Put, PutFails, Over
  <2>2. CASE ~(pc'[c] = "failed" \/ pc'[c] = "done")
    BY <1>3, <2>2 DEF BeginWait, BeginSet, ReadBaseline, Put, PutFails, Nearer, Rounds, Stage
  <2> QED  BY <2>1, <2>2
<1>4. CASE Wake(c)
  BY <1>4 DEF Wake, Nearer, Rounds, Stage
<1>5. CASE Probe(c)
  <2>1. PICK to \in {"done", "failed", "notFound", "checking"} :
          pc[c] = "probing" /\ pc' = [pc EXCEPT ![c] = to] /\ left' = left
    BY <1>5 DEF Probe, AfterStatus, AfterConfig
  <2>2. CASE to = "checking"
    BY <2>1, <2>2 DEF Nearer, Rounds, Stage
  <2> QED  BY <1>2, <2>1, <2>2 DEF Over
<1>6. CASE GiveUp(c)
  BY <1>2, <1>6 DEF GiveUp, Over
<1>7. CASE Sleep(c)
  <2>1. left[c] >= 0 /\ left' = left
    BY <1>7 DEF Sleep, Expired
  <2>2. pc[c] = "checking" /\ pc'[c] = "napping" /\ nap'[c] = Interval
    BY <1>7 DEF Sleep
  <2> QED  BY <2>1, <2>2 DEF Nearer, Rounds, Stage
<1> QED  BY <1>3, <1>4, <1>5, <1>6, <1>7 DEF Step

\* Nothing else takes it further away: while it sleeps the clock takes as much
\* from the sleep as from the deadline.
LEMMA OthersNearer ==
  ASSUME TypeOK, Next, NEW c \in Command, job[c].limited, ~Step(c)
  PROVE  Nearer(c) \/ (Rounds(c)' = Rounds(c) /\ Stage(c)' = Stage(c))
<1> USE TimesAssumption DEF TypeOK
<1>1. CASE Tick
  <2>1. /\ pc' = pc
        /\ left'[c] = IF pc[c] \in Waiting /\ left[c] >= 0 THEN left[c] - 1 ELSE left[c]
        /\ nap'[c] = IF pc[c] = "napping" /\ nap[c] > 0 THEN nap[c] - 1 ELSE nap[c]
        /\ left[c] \in -1 .. Timeout /\ nap[c] \in Nat
    BY <1>1 DEF Tick
  <2>2. CASE pc[c] = "napping"
    BY <2>1, <2>2 DEF Waiting, Nearer, Rounds, Stage
  <2>3. CASE pc[c] \in {"probing", "checking"}
    BY <2>1, <2>3 DEF Waiting, Nearer, Rounds, Stage
  <2>4. CASE pc[c] \notin Waiting
    BY <2>1, <2>4 DEF Waiting, Rounds, Stage
  <2> QED  BY <2>2, <2>3, <2>4 DEF Waiting
<1>2. CASE Cluster
  BY <1>2 DEF Cluster, StatusChanges, Load, PodsRestart, OtherWrites, Rounds, Stage
<1>3. ASSUME NEW d \in Command, Step(d)
      PROVE  pc'[c] = pc[c] /\ (pc[c] \in Waiting => left'[c] = left[c] /\ nap'[c] = nap[c])
  BY <1>3 DEF Step, BeginWait, BeginSet, ReadBaseline, Put, PutFails, Wake, Probe, GiveUp,
              Sleep, Goto
<1>4. CASE \E d \in Command : Step(d)
  BY <1>3, <1>4 DEF Rounds, Stage, Waiting
<1> QED  BY <1>1, <1>2, <1>4, StepCases

\* A command with a deadline is never set back on the way to its end: it makes
\* a number of steps that the times bound, whatever the cluster and the other
\* commands do.
THEOREM NeverSetBackAlways == Spec => NeverSetBack
<1> DEFINE Ahead ==
      \A c \in Command : job[c].limited =>
        \/ Nearer(c)
        \/ ~Step(c) /\ Rounds(c)' = Rounds(c) /\ Stage(c)' = Stage(c)
<1>1. IInv /\ IInv' /\ [Next]_vars => [Ahead]_vars
  BY OwnNearer, OthersNearer DEF IInv
<1> QED  BY <1>1, Inductive, PTL DEF Spec, NeverSetBack

=============================================================================
