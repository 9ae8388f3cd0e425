------------------------ MODULE AuthbridgeExecProofs ------------------------
(***************************************************************************)
(* Theorems about AuthbridgeExec for any number of signals, under every    *)
(* configuration: its type invariant, the order of setup and teardown,     *)
(* that a finished run leaves nothing behind, and that the child is served *)
(* for as long as it runs.                                                 *)
(***************************************************************************)
EXTENDS AuthbridgeExec, FiniteSetTheorems, SequenceTheorems, TLAPS

\* What is on the stack of teardowns.
OnStack == {undo[i] : i \in 1 .. Len(undo)}

\* The steps a startup has behind it.
StepsBefore(k) == {Steps[i] : i \in 1 .. k - 1}

-----------------------------------------------------------------------------
(* The two startup sequences.                                              *)

\* In this process: where the steps are that the proofs speak of.
LEMMA InProcessLayout ==
  /\ Len(InProcess) = 15
  /\ \A i \in 1 .. 15 : /\ InProcess[i] = "child" <=> i = 14
                        /\ InProcess[i] = "notify" <=> i = 15
  /\ \A i, j \in 1 .. 15 : InProcess[i] = InProcess[j] => i = j
BY DEF InProcess

\* In a container.
LEMMA InContainerLayout ==
  /\ Len(InContainer) = 12
  /\ \A i \in 1 .. 12 : /\ InContainer[i] = "child" <=> i = 11
                        /\ InContainer[i] = "notify" <=> i = 12
  /\ \A i, j \in 1 .. 12 : InContainer[i] = InContainer[j] => i = j
BY DEF InContainer

\* No step occurs twice, and the child is started last but one, before Notify.
LEMMA StepsLayout ==
  /\ Len(Steps) \in Nat /\ Len(Steps) > 2
  /\ \A i \in 1 .. Len(Steps) : /\ Steps[i] = "child" <=> i = Len(Steps) - 1
                                /\ Steps[i] = "notify" <=> i = Len(Steps)
  /\ \A i, j \in 1 .. Len(Steps) : Steps[i] = Steps[j] => i = j
<1>1. CASE opts.container
  <2>1. Steps = InContainer
    BY <1>1 DEF Steps
  <2> QED  BY <2>1, InContainerLayout
<1>2. CASE ~opts.container
  <2>1. Steps = InProcess
    BY <1>2 DEF Steps
  <2> QED  BY <2>1, InProcessLayout
<1> QED  BY <1>1, <1>2

\* Each step comes after the steps for what it needs.
LEMMA NeedsAreBefore ==
  ASSUME NEW k \in 1 .. Len(Steps), Steps[k] \in Component
  PROVE  Needs(Steps[k]) \subseteq StepsBefore(k)
<1>1. CASE opts.container
  <2>1. Steps = InContainer /\ Len(Steps) = 12
    BY <1>1, InContainerLayout DEF Steps
  <2>2. Host \subseteq {"container", "caDir", "config"}
    BY <1>1 DEF Host
  <2>3. k \in 1 .. 12
    BY <2>1
  <2>4. StepsBefore(k) = {InContainer[i] : i \in 1 .. k - 1}
    BY <2>1 DEF StepsBefore
  <2> QED
    BY <2>1, <2>2, <2>3, <2>4 DEF InContainer, Needs, Component, External, Internal
<1>2. CASE ~opts.container
  <2>1. Steps = InProcess /\ Len(Steps) = 15
    BY <1>2, InProcessLayout DEF Steps
  <2>2. Host \subseteq {"config", "outbound", "inbound", "sessions", "shared",
                        "forward", "reverse", "api"}
    BY <1>2 DEF Host
  <2>3. k \in 1 .. 15
    BY <2>1
  <2>4. StepsBefore(k) = {InProcess[i] : i \in 1 .. k - 1}
    BY <2>1 DEF StepsBefore
  <2> QED
    BY <2>1, <2>2, <2>3, <2>4 DEF InProcess, Needs, Component, External, Internal
<1> QED  BY <1>1, <1>2

\* The host and the record come before the child.
LEMMA HostIsBeforeChild ==
  Host \cup {"record"} \subseteq StepsBefore(Len(Steps) - 1) \cap Wanted
BY InContainerLayout, InProcessLayout
   DEF Host, Steps, StepsBefore, Wanted, InContainer, InProcess, Component, External, Internal

-----------------------------------------------------------------------------
(* The type invariant.                                                     *)

\* The configuration is chosen once, and so is what follows from it.
LEMMA Frame ==
  ASSUME opts' = opts
  PROVE  /\ Steps' = Steps
         /\ Wanted' = Wanted
         /\ Host' = Host
         /\ \A c \in Component : Needs(c)' = Needs(c)
<1>1. Steps' = Steps
  BY DEF Steps
<1>2. Wanted' = Wanted
  BY DEF Wanted, SessionsOn, ApiOn
<1>3. Host' = Host
  BY <1>2 DEF Host
<1>4. ASSUME NEW c \in Component PROVE Needs(c)' = Needs(c)
  BY <1>2, <1>3 DEF Needs
<1> QED  BY <1>1, <1>2, <1>3, <1>4

\* Pushing a component, and taking the last one off.
LEMMA PushType ==
  ASSUME NEW s \in Seq(Component), NEW c \in Component
  PROVE  /\ Append(s, c) \in Seq(Component)
         /\ Len(Append(s, c)) = Len(s) + 1
         /\ \A i \in 1 .. Len(s) : Append(s, c)[i] = s[i]
         /\ Append(s, c)[Len(s) + 1] = c
OBVIOUS

LEMMA PopType ==
  ASSUME NEW s \in Seq(Component), s # <<>>
  PROVE  /\ Front(s) \in Seq(Component)
         /\ Len(s) \in Nat \ {0}
         /\ Len(Front(s)) = Len(s) - 1
         /\ \A i \in 1 .. Len(s) - 1 : Front(s)[i] = s[i]
         /\ Last(s) = s[Len(s)]
         /\ Last(s) \in Component
<1>1. Len(s) \in Nat \ {0} /\ s \in [1 .. Len(s) -> Component]
  BY EmptySeq, LenProperties
<1>2. \A i \in 1 .. Len(s) - 1 : s[i] \in Component
  BY <1>1
<1>3. 1 \in Int /\ Len(s) - 1 \in Int
  BY <1>1
<1>4. /\ Front(s) \in Seq(Component)
      /\ Len(Front(s)) = IF 1 <= Len(s) - 1 THEN (Len(s) - 1) - 1 + 1 ELSE 0
      /\ \A i \in 1 .. (Len(s) - 1) - 1 + 1 : Front(s)[i] = s[1 + i - 1]
  BY <1>2, <1>3, SubSeqProperties DEF Front
<1>5. Len(Front(s)) = Len(s) - 1
  <2>1. ASSUME NEW n \in Nat \ {0}
        PROVE  n - 1 = IF 1 <= n - 1 THEN (n - 1) - 1 + 1 ELSE 0
    OBVIOUS
  <2> QED  BY <1>1, <1>4, <2>1, Zenon
<1>6. ASSUME NEW i \in 1 .. Len(s) - 1 PROVE Front(s)[i] = s[i]
  <2>1. i \in 1 .. (Len(s) - 1) - 1 + 1 /\ 1 + i - 1 = i
    BY <1>1
  <2> QED  BY <1>4, <2>1
<1>7. Last(s) = s[Len(s)] /\ Last(s) \in Component
  BY <1>1 DEF Last
<1> QED
  BY <1>1, <1>4, <1>5, <1>6, <1>7

\* A channel with room for one signal.
LEMMA OneSignal == \A s : Cardinality({s}) = 1 /\ Cardinality({}) = 0
BY FS_Singleton, FS_EmptySet

\* A step that starts up is at one of the steps there are.
AtAStep == pc = "starting" => next <= Len(Steps)

LEMMA TypeInit == Init => TypeOK /\ AtAStep
<1> SUFFICES ASSUME Init PROVE TypeOK /\ AtAStep
  OBVIOUS
<1>1. next \in 1 .. Len(Steps) + 1 /\ next <= Len(Steps)
  BY StepsLayout DEF Init
<1>2. undo \in Seq(Component)
  BY DEF Init
<1>3. sigCh \subseteq Signal /\ Cardinality(sigCh) <= 1
  BY OneSignal DEF Init
<1>4. sent \in 0 .. MaxSignals
  BY MaxSignalsAssumption DEF Init
<1> QED
  BY <1>1, <1>2, <1>3, <1>4 DEF Init, TypeOK, AtAStep

\* Startup ends with the step that registers for signals.
LEMMA StartupEnds ==
  ASSUME TypeOK, AtAStep, Advance
  PROVE  /\ next \in 1 .. Len(Steps)
         /\ next' \in 1 .. Len(Steps) + 1
         /\ Steps[next] # "notify" => next' <= Len(Steps)
BY StepsLayout DEF TypeOK, AtAStep, Advance

\* No step changes the configuration.
LEMMA SameOptions == [Next]_vars => opts' = opts
BY DEF Next, vars, Startup, Loop, Teardown, Advance, Acquire, Pass, StartChild, Fail,
       ServeCheckFails, ContainerHalfStarts, ForwardSignal, Reap, TakeServeError, Drain,
       UndoLast, UndoFails, Exit, ChildExits, SessionApiDies, Deliver, Observed, Deadly, Crash

LEMMA TypeNext == TypeOK /\ AtAStep /\ [Next]_vars => TypeOK' /\ AtAStep'
<1> SUFFICES ASSUME TypeOK, AtAStep, [Next]_vars PROVE TypeOK' /\ AtAStep'
  OBVIOUS
<1>1. opts' = opts /\ Steps' = Steps /\ "notify" \in Wanted
  BY SameOptions, Frame DEF Wanted, Component, Internal
<1>2. CASE Acquire
  <2>1. Steps[next] \in Component
    BY <1>2 DEF Acquire, Wanted
  <2>2. undo' \in Seq(Component) /\ left' \subseteq Component
    BY <1>2, <2>1, PushType DEF Acquire, TypeOK
  <2>3. pc' \in {"starting", "waiting"}
    BY <1>2 DEF Acquire, Advance
  <2> QED
    BY <1>1, <1>2, <2>2, <2>3, StartupEnds DEF Acquire, TypeOK, AtAStep
<1>3. CASE Pass
  BY <1>1, <1>3, StartupEnds DEF Pass, TypeOK, AtAStep
<1>4. CASE StartChild
  BY <1>1, <1>4, StartupEnds DEF StartChild, TypeOK, AtAStep
<1>5. CASE Fail
  BY <1>1, <1>5 DEF Fail, TypeOK, AtAStep
<1>6. CASE ServeCheckFails
  BY <1>1, <1>6 DEF ServeCheckFails, TypeOK, AtAStep
<1>7. CASE ContainerHalfStarts
  BY <1>1, <1>7 DEF ContainerHalfStarts, TypeOK, AtAStep, Component, External
<1>8. CASE ForwardSignal
  BY <1>1, <1>8, OneSignal DEF ForwardSignal, TypeOK, AtAStep
<1>9. CASE Reap
  BY <1>1, <1>9 DEF Reap, TypeOK, AtAStep
<1>10. CASE TakeServeError
  BY <1>1, <1>10 DEF TakeServeError, TypeOK, AtAStep
<1>11. CASE Drain
  BY <1>1, <1>11 DEF Drain, TypeOK, AtAStep
<1>12. CASE UndoLast
  BY <1>1, <1>12, PopType DEF UndoLast, TypeOK, AtAStep
<1>13. CASE UndoFails
  BY <1>1, <1>13, PopType DEF UndoFails, TypeOK, AtAStep
<1>14. CASE Exit
  BY <1>1, <1>14 DEF Exit, TypeOK, AtAStep, Over
<1>15. CASE ChildExits
  BY <1>1, <1>15 DEF ChildExits, TypeOK, AtAStep
<1>16. CASE SessionApiDies
  BY <1>1, <1>16 DEF SessionApiDies, TypeOK, AtAStep
<1>17. ASSUME NEW s \in Signal, NEW toChild \in BOOLEAN, Deliver(s, toChild)
       PROVE  told' \subseteq Signal /\ sent' \in 0 .. MaxSignals
  BY <1>17, MaxSignalsAssumption DEF Deliver, TypeOK
<1>18. ASSUME NEW s \in Signal, NEW toChild \in BOOLEAN, Observed(s, toChild)
       PROVE  TypeOK' /\ AtAStep'
  <2>1. sigCh' = {s} \/ sigCh' = sigCh
    BY <1>18 DEF Observed
  <2>2. sigCh' = {s} => Cardinality(sigCh') = 1
    BY OneSignal, Zenon
  <2>3. sigCh' \subseteq Signal /\ Cardinality(sigCh') <= 1
    BY <2>1, <2>2 DEF TypeOK
  <2> QED
    BY <1>1, <1>17, <1>18, <2>3 DEF Observed, Deliver, TypeOK, AtAStep
<1>19. ASSUME NEW s \in Signal, NEW toChild \in BOOLEAN, Deadly(s, toChild)
       PROVE  TypeOK' /\ AtAStep'
  BY <1>1, <1>17, <1>19 DEF Deadly, Deliver, TypeOK, AtAStep, Over
<1>20. CASE Crash
  BY <1>1, <1>20 DEF Crash, TypeOK, AtAStep, Over
<1>21. CASE UNCHANGED vars
  BY <1>1, <1>21 DEF vars, TypeOK, AtAStep
<1> QED
  BY <1>2, <1>3, <1>4, <1>5, <1>6, <1>7, <1>8, <1>9, <1>10, <1>11, <1>12, <1>13,
     <1>14, <1>15, <1>16, <1>18, <1>19, <1>20, <1>21
     DEF Next, Startup, Loop, Teardown

\* TypeOK holds in every reachable state.
THEOREM TypeCorrect == Spec => []TypeOK
<1>1. Init => TypeOK /\ AtAStep
  BY TypeInit
<1>2. TypeOK /\ AtAStep /\ [Next]_vars => (TypeOK /\ AtAStep)'
  BY TypeNext
<1> QED
  BY <1>1, <1>2, PTL DEF Spec

-----------------------------------------------------------------------------
(* The inductive invariant: the stack of teardowns is what is up, in an    *)
(* order in which it can be taken down.                                    *)

Alive == pc \notin {"killed", "crashed"}

\* What is registered is there, and what is there is registered or given up.
StackIsLeft == Alive => OnStack \subseteq left /\ left \ orphans \subseteq OnStack

\* What a component needs was pushed before it.
StackInOrder ==
  \A c \in Component, i \in 1 .. Len(undo) :
    c = undo[i] => Needs(c) \subseteq {undo[j] : j \in 1 .. i - 1}

NoRepeat == \A i, j \in 1 .. Len(undo) : undo[i] = undo[j] => i = j

\* A startup that did not fail has made what its steps so far make.
StartedSoFar ==
  pc = "starting" =>
    /\ OnStack = StepsBefore(next) \cap Wanted
    /\ child = "none" <=> next # Len(Steps)

\* A running child is waited for, and what it uses is registered.
ChildHosted ==
  child = "running" /\ Alive =>
    /\ pc \in {"starting", "waiting", "draining"}
    /\ Host \cup {"record"} \subseteq OnStack

ExitedEmpty == pc = "exited" => undo = <<>>

Inv ==
  /\ TypeOK
  /\ AtAStep
  /\ StackIsLeft
  /\ StackInOrder
  /\ NoRepeat
  /\ StartedSoFar
  /\ ChildHosted
  /\ ExitedEmpty

\* A step that leaves the stack alone, and of what is up takes nothing away
\* and adds only what is given up at once.
LEMMA StackStays ==
  ASSUME Inv, opts' = opts, undo' = undo,
         Alive' => Alive /\ left \subseteq left' /\ left' \ orphans' \subseteq left \ orphans
  PROVE  StackIsLeft' /\ StackInOrder' /\ NoRepeat' /\ OnStack' = OnStack
<1>1. OnStack' = OnStack
  BY DEF OnStack
<1>2. StackIsLeft'
  BY <1>1 DEF Inv, StackIsLeft
<1>3. ASSUME NEW c \in Component, NEW i \in 1 .. Len(undo'), c = undo'[i]
      PROVE  Needs(c)' \subseteq {undo'[j] : j \in 1 .. i - 1}
  <2>1. Needs(c) \subseteq {undo[j] : j \in 1 .. i - 1}
    BY <1>3 DEF Inv, StackInOrder
  <2>2. Needs(c)' = Needs(c)
    BY Frame
  <2> QED  BY <2>1, <2>2
<1>4. StackInOrder'
  BY <1>3 DEF StackInOrder
<1> QED
  BY <1>1, <1>2, <1>4 DEF Inv, NoRepeat

\* A startup step that makes something.
LEMMA StackGrows ==
  ASSUME Inv, Acquire
  PROVE  /\ StackIsLeft' /\ StackInOrder' /\ NoRepeat'
         /\ OnStack' = OnStack \cup {Steps[next]}
<1> DEFINE c == Steps[next]
<1>1. c \in Component /\ undo \in Seq(Component) /\ opts' = opts /\ undo' = Append(undo, c)
  BY DEF Inv, TypeOK, Acquire, Wanted
<1>2. /\ Len(undo) \in Nat
      /\ Len(undo') = Len(undo) + 1
      /\ \A i \in 1 .. Len(undo) : undo'[i] = undo[i]
      /\ undo'[Len(undo) + 1] = c
  BY <1>1, PushType
<1>3. next \in 1 .. Len(Steps) /\ pc = "starting"
  BY StartupEnds DEF Inv, Acquire, Advance
<1>4. OnStack = StepsBefore(next) \cap Wanted
  BY <1>3 DEF Inv, StartedSoFar
<1>5. OnStack' = OnStack \cup {c}
  BY <1>2 DEF OnStack
<1>6. Alive /\ StackIsLeft'
  BY <1>3, <1>5 DEF Inv, StackIsLeft, Alive, Acquire
<1>7. c \notin OnStack
  BY <1>3, <1>4, StepsLayout DEF StepsBefore
<1>8. NoRepeat'
  BY <1>2, <1>7 DEF Inv, NoRepeat, OnStack
<1>9. Needs(c) \subseteq OnStack
  BY <1>1, <1>3, <1>4, NeedsAreBefore DEF Needs
<1>10. ASSUME NEW d \in Component, NEW i \in 1 .. Len(undo'), d = undo'[i]
       PROVE  Needs(d)' \subseteq {undo'[j] : j \in 1 .. i - 1}
  <2>1. Needs(d)' = Needs(d)
    BY <1>1, Frame
  <2>2. CASE i = Len(undo) + 1
    <3>1. OnStack = {undo'[j] : j \in 1 .. i - 1}
      BY <1>2, <2>2 DEF OnStack
    <3>2. d = c
      BY <1>2, <1>10, <2>2
    <3> QED  BY <1>9, <2>1, <3>1, <3>2
  <2>3. CASE i \in 1 .. Len(undo)
    <3>1. {undo[j] : j \in 1 .. i - 1} = {undo'[j] : j \in 1 .. i - 1}
      BY <1>2, <2>3
    <3>2. Needs(d) \subseteq {undo[j] : j \in 1 .. i - 1}
      BY <1>2, <1>10, <2>3 DEF Inv, StackInOrder
    <3> QED  BY <2>1, <3>1, <3>2
  <2> QED  BY <1>2, <2>2, <2>3
<1>11. StackInOrder'
  BY <1>10 DEF StackInOrder
<1> QED  BY <1>5, <1>6, <1>8, <1>11

\* A teardown step takes the last one off, or gives it up.
LEMMA StackShrinks ==
  ASSUME Inv, UndoLast \/ UndoFails
  PROVE  StackIsLeft' /\ StackInOrder' /\ NoRepeat'
<1> DEFINE c == Last(undo)
<1>1. undo \in Seq(Component) /\ undo # <<>> /\ opts' = opts /\ undo' = Front(undo) /\ Alive
  BY DEF Inv, TypeOK, UndoLast, UndoFails, Alive
<1>2. /\ Len(undo) \in Nat \ {0}
      /\ Len(undo') = Len(undo) - 1
      /\ \A i \in 1 .. Len(undo) - 1 : undo'[i] = undo[i]
      /\ c = undo[Len(undo)]
  BY <1>1, PopType
<1>3. OnStack' = OnStack \ {c}
  BY <1>2 DEF Inv, NoRepeat, OnStack
<1>4. StackIsLeft'
  BY <1>1, <1>3 DEF Inv, StackIsLeft, UndoLast, UndoFails
<1>5. NoRepeat'
  BY <1>2 DEF Inv, NoRepeat
<1>6. ASSUME NEW d \in Component, NEW i \in 1 .. Len(undo'), d = undo'[i]
      PROVE  Needs(d)' \subseteq {undo'[j] : j \in 1 .. i - 1}
  <2>1. Needs(d)' = Needs(d)
    BY <1>1, Frame
  <2>2. i \in 1 .. Len(undo) - 1 /\ i \in 1 .. Len(undo) /\ d = undo[i]
    BY <1>2, <1>6
  <2>3. Needs(d) \subseteq {undo[j] : j \in 1 .. i - 1}
    BY <2>2 DEF Inv, StackInOrder
  <2>4. \A j \in 1 .. i - 1 : j \in 1 .. Len(undo) - 1 /\ undo[j] = undo'[j]
    BY <1>2, <2>2
  <2> QED  BY <2>1, <2>3, <2>4
<1>7. StackInOrder'
  BY <1>6 DEF StackInOrder
<1> QED  BY <1>4, <1>5, <1>7

LEMMA InvInit == Init => Inv
<1> SUFFICES ASSUME Init PROVE Inv
  OBVIOUS
<1>1. TypeOK /\ AtAStep
  BY TypeInit
<1>2. OnStack = {} /\ StepsBefore(next) = {} /\ next # Len(Steps)
  BY StepsLayout DEF Init, OnStack, StepsBefore
<1> QED
  BY <1>1, <1>2
     DEF Init, Inv, StackIsLeft, StackInOrder, NoRepeat, StartedSoFar, ChildHosted, ExitedEmpty

\* A step of startup that goes on: what has been made is what it should be.
LEMMA StartupGoesOn ==
  ASSUME Inv, Advance, opts' = opts, pc' = pc,
         OnStack' = OnStack \cup ({Steps[next]} \cap Wanted)
  PROVE  OnStack' = (StepsBefore(next) \cap Wanted)'
<1>1. next \in 1 .. Len(Steps) /\ next' = next + 1 /\ Steps' = Steps /\ Wanted' = Wanted
  BY StartupEnds, Frame DEF Inv, Advance
<1>2. OnStack = StepsBefore(next) \cap Wanted
  BY DEF Inv, StartedSoFar, Advance
<1>3. StepsBefore(next)' = StepsBefore(next) \cup {Steps[next]}
  BY <1>1, StepsLayout DEF StepsBefore
<1> QED  BY <1>1, <1>2, <1>3

LEMMA InvNext == Inv /\ [Next]_vars => Inv'
<1> SUFFICES ASSUME Inv, [Next]_vars PROVE Inv'
  OBVIOUS
<1>1. TypeOK' /\ AtAStep'
  BY TypeNext DEF Inv
<1>2. opts' = opts /\ Steps' = Steps /\ Wanted' = Wanted /\ Host' = Host
  BY SameOptions, Frame
<1>3. "notify" \in Wanted /\ "child" \notin Wanted
  BY DEF Wanted, Component, External, Internal
\* What the rest of the invariant comes to when startup is over or given up.
<1>4. ASSUME pc' # "starting", pc' # "exited", child' = "running" => ~Alive' \/ ChildHosted',
             StackIsLeft', StackInOrder', NoRepeat'
      PROVE  Inv'
  BY <1>1, <1>4 DEF Inv, StartedSoFar, ChildHosted, ExitedEmpty
\* A step that fails is none of the last: there is no child yet.
<1>5. ASSUME pc = "starting", Steps[next] # "notify" PROVE child # "running"
  BY <1>5, StepsLayout DEF Inv, TypeOK, AtAStep, StartedSoFar, ChildHosted
<1>6. CASE Acquire
  <2>1. /\ StackIsLeft' /\ StackInOrder' /\ NoRepeat'
        /\ OnStack' = OnStack \cup {Steps[next]}
    BY <1>6, StackGrows
  <2>2. ChildHosted'
    BY <1>2, <1>6, <2>1 DEF Inv, ChildHosted, Alive, Acquire, Advance
  <2>3. CASE Steps[next] = "notify"
    BY <1>4, <1>6, <2>1, <2>2, <2>3 DEF Acquire
  <2>4. CASE Steps[next] # "notify"
    <3>1. OnStack' = (StepsBefore(next) \cap Wanted)'
      BY <1>2, <1>6, <2>1, <2>4, StartupGoesOn DEF Acquire
    <3>2. child' = "none" <=> next' # Len(Steps')
      BY <1>2, <1>3, <1>6, <2>4, StartupEnds, StepsLayout
         DEF Inv, StartedSoFar, Acquire, Advance
    <3> QED
      BY <1>1, <1>6, <2>1, <2>2, <2>4, <3>1, <3>2 DEF Inv, StartedSoFar, ExitedEmpty, Acquire, Advance
  <2> QED  BY <2>3, <2>4
<1>7. CASE Pass
  <2>1. StackIsLeft' /\ StackInOrder' /\ NoRepeat' /\ OnStack' = OnStack
    BY <1>7, StackStays DEF Pass, Alive
  <2>2. OnStack' = (StepsBefore(next) \cap Wanted)'
    BY <1>7, <2>1, StartupGoesOn DEF Pass
  <2>3. child' = "none" <=> next' # Len(Steps')
    BY <1>2, <1>3, <1>7, StartupEnds, StepsLayout DEF Inv, StartedSoFar, Pass, Advance
  <2> QED
    BY <1>1, <1>2, <1>7, <2>1, <2>2, <2>3
       DEF Inv, StartedSoFar, ChildHosted, ExitedEmpty, Alive, Pass, Advance
<1>8. CASE StartChild
  <2>1. StackIsLeft' /\ StackInOrder' /\ NoRepeat' /\ OnStack' = OnStack
    BY <1>8, StackStays DEF StartChild, Alive
  <2>2. OnStack' = (StepsBefore(next) \cap Wanted)'
    BY <1>3, <1>8, <2>1, StartupGoesOn DEF StartChild
  <2>3. next = Len(Steps) - 1 /\ next' = Len(Steps)
    BY <1>8, StartupEnds, StepsLayout DEF Inv, StartChild, Advance
  <2>4. Host \cup {"record"} \subseteq OnStack
    BY <1>8, <2>3, HostIsBeforeChild DEF Inv, StartedSoFar, StartChild, Advance
  <2> QED
    BY <1>1, <1>2, <1>8, <2>1, <2>2, <2>3, <2>4
       DEF Inv, StartedSoFar, ChildHosted, ExitedEmpty, StartChild, Advance
<1>9. CASE Fail
  <2>1. StackIsLeft' /\ StackInOrder' /\ NoRepeat' /\ OnStack' = OnStack
    BY <1>9, StackStays DEF Fail, Alive
  <2>2. Steps[next] # "notify"
    BY <1>9 DEF Fail, MayFail, ConfigErrors, HostErrors, ContainerErrors, CaErrors, ChildErrors
  <2> QED  BY <1>4, <1>5, <1>9, <2>1, <2>2 DEF Fail
<1>10. CASE ServeCheckFails
  <2>1. StackIsLeft' /\ StackInOrder' /\ NoRepeat' /\ OnStack' = OnStack
    BY <1>10, StackStays DEF ServeCheckFails, Alive
  <2> QED  BY <1>4, <1>5, <1>10, <2>1 DEF ServeCheckFails
<1>11. CASE ContainerHalfStarts
  <2>1. StackIsLeft' /\ StackInOrder' /\ NoRepeat' /\ OnStack' = OnStack
    BY <1>11, StackStays DEF ContainerHalfStarts, Alive
  <2> QED  BY <1>4, <1>5, <1>11, <2>1 DEF ContainerHalfStarts
<1>12. CASE ForwardSignal
  <2>1. StackIsLeft' /\ StackInOrder' /\ NoRepeat' /\ OnStack' = OnStack
    BY <1>12, StackStays DEF ForwardSignal, Alive
  <2> QED  BY <1>2, <1>4, <1>12, <2>1 DEF ForwardSignal, Inv, ChildHosted, Alive
<1>13. CASE Reap
  <2>1. StackIsLeft' /\ StackInOrder' /\ NoRepeat' /\ OnStack' = OnStack
    BY <1>13, StackStays DEF Reap, Alive
  <2> QED  BY <1>4, <1>13, <2>1 DEF Reap
<1>14. CASE TakeServeError
  <2>1. StackIsLeft' /\ StackInOrder' /\ NoRepeat' /\ OnStack' = OnStack
    BY <1>14, StackStays DEF TakeServeError, Alive
  <2> QED  BY <1>2, <1>4, <1>14, <2>1 DEF TakeServeError, Inv, ChildHosted, Alive
<1>15. CASE Drain
  <2>1. StackIsLeft' /\ StackInOrder' /\ NoRepeat' /\ OnStack' = OnStack
    BY <1>15, StackStays DEF Drain, Alive
  <2> QED  BY <1>4, <1>15, <2>1 DEF Drain
\* Nobody tears down under a running child.
<1>16. pc = "unwinding" => child # "running"
  BY DEF Inv, ChildHosted, Alive
<1>17. CASE UndoLast \/ UndoFails
  BY <1>4, <1>16, <1>17, StackShrinks DEF UndoLast, UndoFails
<1>18. CASE Exit
  <2>1. StackIsLeft' /\ StackInOrder' /\ NoRepeat' /\ OnStack' = OnStack
    BY <1>18, StackStays DEF Exit, Alive
  <2> QED
    BY <1>1, <1>16, <1>18, <2>1 DEF Exit, Inv, StartedSoFar, ChildHosted, ExitedEmpty
<1>19. CASE ChildExits
  <2>1. StackIsLeft' /\ StackInOrder' /\ NoRepeat' /\ OnStack' = OnStack
    BY <1>2, <1>19, StackStays DEF ChildExits, Alive
  <2>2. StartedSoFar'
    BY <1>2, <1>19, <2>1 DEF ChildExits, Inv, StartedSoFar, StepsBefore
  <2> QED
    BY <1>1, <1>19, <2>1, <2>2 DEF ChildExits, Inv, ChildHosted, ExitedEmpty
<1>20. CASE SessionApiDies
  <2>1. StackIsLeft' /\ StackInOrder' /\ NoRepeat' /\ OnStack' = OnStack
    BY <1>20, StackStays DEF SessionApiDies, Alive
  <2>2. StartedSoFar'
    BY <1>2, <1>20, <2>1 DEF SessionApiDies, Inv, StartedSoFar, StepsBefore
  <2> QED
    BY <1>1, <1>2, <1>20, <2>1, <2>2
       DEF SessionApiDies, Inv, ChildHosted, ExitedEmpty, Alive
<1>21. ASSUME NEW s \in Signal, NEW toChild \in BOOLEAN, Observed(s, toChild)
       PROVE  Inv'
  <2>1. StackIsLeft' /\ StackInOrder' /\ NoRepeat' /\ OnStack' = OnStack
    BY <1>21, StackStays DEF Observed, Deliver, Alive
  <2>2. StartedSoFar'
    BY <1>2, <1>21, <2>1 DEF Observed, Deliver, Inv, StartedSoFar, StepsBefore
  <2> QED
    BY <1>1, <1>2, <1>21, <2>1, <2>2
       DEF Observed, Deliver, Inv, ChildHosted, ExitedEmpty, Alive
<1>22. ASSUME NEW s \in Signal, NEW toChild \in BOOLEAN, Deadly(s, toChild)
       PROVE  Inv'
  <2>1. StackIsLeft' /\ StackInOrder' /\ NoRepeat' /\ OnStack' = OnStack
    BY <1>22, StackStays DEF Deadly, Deliver, Alive
  <2> QED  BY <1>4, <1>22, <2>1 DEF Deadly, Alive
<1>23. CASE Crash
  <2>1. StackIsLeft' /\ StackInOrder' /\ NoRepeat' /\ OnStack' = OnStack
    BY <1>23, StackStays DEF Crash, Alive
  <2> QED  BY <1>4, <1>23, <2>1 DEF Crash, Alive
<1>24. CASE UNCHANGED vars
  <2>1. StackIsLeft' /\ StackInOrder' /\ NoRepeat' /\ OnStack' = OnStack
    BY <1>24, StackStays DEF vars, Alive
  <2>2. StartedSoFar'
    BY <1>2, <1>24, <2>1 DEF vars, Inv, StartedSoFar, StepsBefore
  <2> QED
    BY <1>1, <1>2, <1>24, <2>1, <2>2 DEF vars, Inv, ChildHosted, ExitedEmpty, Alive
<1> QED
  BY <1>6, <1>7, <1>8, <1>9, <1>10, <1>11, <1>12, <1>13, <1>14, <1>15, <1>17, <1>18,
     <1>19, <1>20, <1>21, <1>22, <1>23, <1>24
     DEF Next, Startup, Loop, Teardown

\* The conjunction above holds in every reachable state.
THEOREM InvAlways == Spec => []Inv
BY InvInit, InvNext, PTL DEF Spec

-----------------------------------------------------------------------------
(* What follows.                                                           *)

\* While rossoctl is there, nothing that was not given up is up without what
\* it needs, in a startup, a teardown or the unwinding of a failed startup.
THEOREM DependenciesAlwaysUp == Spec => []DependenciesUp
<1>1. Inv => DependenciesUp
  <2> SUFFICES ASSUME Inv, Alive, NEW c \in left \ orphans
               PROVE  Needs(c) \subseteq left
    BY DEF DependenciesUp, Alive
  <2>1. c \in OnStack /\ OnStack \subseteq left
    BY DEF Inv, StackIsLeft
  <2>2. PICK i \in 1 .. Len(undo) : c = undo[i]
    BY <2>1 DEF OnStack
  <2>3. c \in Component /\ Len(undo) \in Nat
    BY <2>2 DEF Inv, TypeOK
  <2>4. Needs(c) \subseteq {undo[j] : j \in 1 .. i - 1}
    BY <2>2, <2>3 DEF Inv, StackInOrder
  <2>5. {undo[j] : j \in 1 .. i - 1} \subseteq OnStack
    BY <2>2, <2>3 DEF OnStack
  <2> QED  BY <2>1, <2>4, <2>5
<1> QED  BY <1>1, InvAlways, PTL

\* A run that came to its end leaves nothing but what it failed to remove and
\* the container it never learned the name of.
THEOREM NothingLeft == Spec => []NothingLeftBehind
<1>1. Inv => NothingLeftBehind
  BY DEF Inv, ExitedEmpty, StackIsLeft, OnStack, Alive, NothingLeftBehind
<1> QED  BY <1>1, InvAlways, PTL

\* The command has its host and its instance record for as long as it runs.
THEOREM ChildAlwaysServed == Spec => []ChildIsServed
<1>1. Inv => ChildIsServed
  BY DEF Inv, ChildHosted, StackIsLeft, Alive, ChildIsServed
<1> QED  BY <1>1, InvAlways, PTL

-----------------------------------------------------------------------------
(* The way to the end.                                                     *)

\* Rossoctl waits for nothing that cannot come: once it waits for the child
\* there is one, and the session API's end, which is told only once, was not
\* taken by a check before the loop that looks for it.
NeverInVain ==
  /\ pc \in {"waiting", "draining"} => child # "none"
  /\ pc \in {"starting", "waiting"} => serveErr # "taken"

\* How many steps rossoctl has still to make at most: two for every startup step
\* ahead, that step and its teardown, and what is registered to be torn down.
WayOut ==
  CASE pc = "starting"  -> 2 * (Len(Steps) + 1 - next) + Len(undo) + 3
    [] pc = "waiting"   -> Len(undo) + 3
    [] pc = "draining"  -> Len(undo) + 2
    [] pc = "unwinding" -> Len(undo) + 1
    [] OTHER            -> 0

\* Steps that are not rossoctl's own, and the passing on of a signal.
Meanwhile ==
  \/ ForwardSignal
  \/ ChildExits
  \/ SessionApiDies
  \/ \E s \in Signal, toChild \in BOOLEAN : Observed(s, toChild)

\* Every step of rossoctl takes it nearer to its end, also one that fails, and
\* what happens meanwhile never sets it back.  So signals, however many, cannot
\* keep a run going whose child is gone, and no teardown goes on for ever.
EveryStepCounts == [][WayOut' < WayOut \/ (Meanwhile /\ WayOut' = WayOut)]_vars

\* A run in the loop started its child, and took nothing from the session API.
LEMMA NeverInVainNext == Inv /\ NeverInVain /\ [Next]_vars => NeverInVain'
<1> SUFFICES ASSUME Inv, NeverInVain, [Next]_vars PROVE NeverInVain'
  OBVIOUS
<1>1. CASE Acquire
  <2>1. Steps[next] = "notify" => child # "none"
    BY <1>1, StartupEnds, StepsLayout DEF Inv, StartedSoFar, Acquire, Advance
  <2> QED  BY <1>1, <2>1 DEF NeverInVain, Acquire, Advance
<1>2. CASE Startup /\ ~Acquire
  BY <1>2 DEF NeverInVain, Startup, Advance, Pass, StartChild, Fail, ServeCheckFails,
              ContainerHalfStarts
<1>3. CASE Loop
  BY <1>3 DEF NeverInVain, Loop, ForwardSignal, Reap, TakeServeError, Drain
<1>4. CASE Teardown
  BY <1>4 DEF NeverInVain, Teardown, UndoLast, UndoFails, Exit
<1>5. CASE ChildExits \/ SessionApiDies \/ Crash \/ UNCHANGED vars
  BY <1>5 DEF NeverInVain, ChildExits, SessionApiDies, Crash, vars
<1>6. ASSUME NEW s \in Signal, NEW toChild \in BOOLEAN,
             Observed(s, toChild) \/ Deadly(s, toChild)
      PROVE  NeverInVain'
  BY <1>6 DEF NeverInVain, Deliver, Observed, Deadly
<1> QED  BY <1>1, <1>2, <1>3, <1>4, <1>5, <1>6 DEF Next

\* Rossoctl never waits for a child it did not start, or for an error that
\* somebody else has taken: only the child can keep a run from its end.
THEOREM NeverWaitsInVain == Spec => []NeverInVain
<1>1. Init => NeverInVain
  BY DEF Init, NeverInVain
<1> QED  BY <1>1, InvAlways, NeverInVainNext, PTL DEF Spec

\* What is left to do at each place, in numbers.
LEMMA Ahead ==
  ASSUME Inv
  PROVE  /\ Len(Steps) \in Nat /\ next \in Nat /\ Len(undo) \in Nat
         /\ pc = "starting" => next <= Len(Steps)
         /\ pc = "starting"  => WayOut = 2 * (Len(Steps) + 1 - next) + Len(undo) + 3
         /\ pc = "waiting"   => WayOut = Len(undo) + 3
         /\ pc = "draining"  => WayOut = Len(undo) + 2
         /\ pc = "unwinding" => WayOut = Len(undo) + 1
         /\ pc \in Over      => WayOut = 0
         /\ pc \notin Over   => WayOut > 0
<1>1. Len(Steps) \in Nat /\ next \in Nat /\ Len(undo) \in Nat
  BY StepsLayout DEF Inv, TypeOK
<1>2. pc = "starting" => next <= Len(Steps)
  BY DEF Inv, AtAStep
<1>3. pc \in {"starting", "waiting", "draining", "unwinding"} \cup Over
  BY DEF Inv, TypeOK
<1> QED  BY <1>1, <1>2, <1>3 DEF WayOut, Over

\* A step that leaves the way as it is.
LEMMA SameWay ==
  ASSUME opts' = opts, pc' = pc, next' = next, undo' = undo
  PROVE  WayOut' = WayOut
<1>1. Steps' = Steps
  BY Frame
<1> QED  BY ONLY <1>1, pc' = pc, next' = next, undo' = undo DEF WayOut

\* Every step of rossoctl lowers the number, and no other raises it.
LEMMA StepCounts ==
  ASSUME Inv, Inv', Next
  PROVE  WayOut' < WayOut \/ (Meanwhile /\ WayOut' = WayOut)
<1>1. opts' = opts /\ Steps' = Steps
  BY SameOptions, Frame
<1>2. /\ Len(Steps) \in Nat /\ next \in Nat /\ Len(undo) \in Nat
      /\ next' \in Nat /\ Len(undo') \in Nat
      /\ pc \notin Over => WayOut > 0
      /\ pc' \in Over => WayOut' = 0
  <2>1. next' \in Nat /\ Len(undo') \in Nat
    BY <1>1, StepsLayout DEF Inv, TypeOK
  <2>2. pc' \in Over => WayOut' = 0
    BY DEF WayOut, Over
  <2> QED  BY <2>1, <2>2, Ahead
<1>3. CASE Acquire
  <2>1. Len(undo') = Len(undo) + 1 /\ next' = next + 1
    BY <1>3, PushType DEF Inv, TypeOK, Acquire, Advance, Wanted
  <2>2. pc = "starting" /\ pc' \in {"starting", "waiting"} /\ next <= Len(Steps)
    BY <1>3, Ahead DEF Acquire, Advance
  <2> QED  BY <1>1, <1>2, <2>1, <2>2, Ahead DEF WayOut
<1>4. CASE Pass \/ StartChild
  <2>1. undo' = undo /\ next' = next + 1 /\ pc = "starting" /\ pc' = pc
    BY <1>4 DEF Pass, StartChild, Advance
  <2> QED  BY <1>1, <1>2, <2>1 DEF WayOut
<1>5. CASE Fail \/ ServeCheckFails \/ ContainerHalfStarts \/ Reap \/ TakeServeError \/ Drain
  <2>1. undo' = undo
    BY <1>5 DEF Fail, ServeCheckFails, ContainerHalfStarts, Reap, TakeServeError, Drain
  <2>2. \/ pc = "starting" /\ pc' = "unwinding"
        \/ pc = "waiting" /\ pc' \in {"draining", "unwinding"}
        \/ pc = "draining" /\ pc' = "unwinding"
    BY <1>5 DEF Fail, ServeCheckFails, ContainerHalfStarts, Reap, TakeServeError, Drain
  <2>3. pc = "starting" => next <= Len(Steps)
    BY Ahead
  <2> QED  BY <1>2, <2>1, <2>2, <2>3 DEF WayOut
<1>6. CASE UndoLast \/ UndoFails
  <2>1. Len(undo') = Len(undo) - 1 /\ pc = "unwinding" /\ pc' = pc
    BY <1>6, PopType DEF Inv, TypeOK, UndoLast, UndoFails
  <2> QED  BY <1>2, <2>1 DEF WayOut
<1>7. CASE Exit \/ Crash \/ \E s \in Signal, toChild \in BOOLEAN : Deadly(s, toChild)
  <2>1. pc \notin Over /\ pc' \in Over
    BY <1>7 DEF Exit, Crash, Deadly, Deliver, Over
  <2> QED  BY <1>2, <2>1
<1>8. CASE Meanwhile
  <2>1. pc' = pc /\ next' = next /\ undo' = undo
    BY <1>8 DEF Meanwhile, ForwardSignal, ChildExits, SessionApiDies, Observed, Deliver
  <2> QED  BY <1>1, <1>8, <2>1, SameWay
<1> QED
  BY <1>3, <1>4, <1>5, <1>6, <1>7, <1>8 DEF Next, Startup, Loop, Teardown, Meanwhile

\* No step is wasted and none is undone: from any point of a run its end is a
\* bounded number of rossoctl's own steps away.
THEOREM EveryStepAlwaysCounts == Spec => EveryStepCounts
<1>1. Inv /\ Inv' /\ [Next]_vars =>
        [WayOut' < WayOut \/ (Meanwhile /\ WayOut' = WayOut)]_vars
  BY StepCounts
<1> QED  BY <1>1, InvAlways, PTL DEF Spec, EveryStepCounts

=============================================================================
