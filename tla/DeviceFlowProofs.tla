-------------------------- MODULE DeviceFlowProofs --------------------------
(***************************************************************************)
(* Theorems about the device login, for every interval, back-off, time     *)
(* limit and life of a code.                                               *)
(***************************************************************************)
EXTENDS DeviceFlow, TLAPS

\* A request or an answer is on its way while the client waits for it, and
\* never otherwise.
OneRequest ==
  /\ client \in {"start", "napping"} \cup Over => flight = "none"
  /\ client = "asking" => flight = "codeRequest"
  /\ client = "polling" => flight \in Answer \cup {"poll"}

\* What an answer on its way says of the code.
AnswersHold ==
  /\ client \in {"start", "asking"} => code = "none"
  /\ client \in {"napping", "polling"} => code # "none"
  /\ code = "none" /\ client = "failed" => fault
  /\ client = "loggedIn" => code = "used"
  /\ code = "used" => flight = "token" \/ client \in Over
  /\ flight = "token" => code = "used"
  /\ flight = "expired_token" => life = 0
  /\ flight = "access_denied" => code = "denied"
  /\ flight # "other"

\* The client keeps the interval it was told to keep, a slow_down on its way
\* apart, and its sleep makes up for what is missing of the gap.
KeepsInterval ==
  /\ client = "napping" => interval = asked /\ nap <= interval /\ gap + nap >= interval
  /\ flight = "poll" => interval = asked /\ gap >= asked
  /\ flight \in Answer => asked = IF flight = "slow_down" THEN interval + Backoff
                                                          ELSE interval

\* The time a granted code has lost since `left`, by where the login is.
Spent ==
  code = "granted" /\ ~fault =>
    /\ flight \in {"authorization_pending", "slow_down"} => left <= life + age
    /\ client = "napping" => left <= life + Timeout + interval - nap
    /\ flight \in {"poll", "expired_token"} => left <= life + Timeout + interval + age
    /\ client = "failed" => left <= life + 2 * Timeout + interval

IInv ==
  /\ TypeOK
  /\ OneRequest
  /\ AnswersHold
  /\ KeepsInterval
  /\ BackoffSettles
  /\ FailsForAReason
  /\ Spent

USE DEF Code, Decision, Answer, Over

\* The assumption, one constant at a time.
LEMMA Times ==
  /\ DefaultInterval \in Nat /\ Backoff \in Nat /\ Timeout \in Nat
  /\ DefaultInterval > 0 /\ Backoff > 0 /\ Timeout > 0
  /\ MaxInterval \in Nat /\ MaxPace \in Nat /\ MaxLife \in Nat
BY TimesAssumption DEF TimesAssumption

LEMMA InitInv == Init => IInv
<1> SUFFICES ASSUME Init PROVE IInv
  OBVIOUS
<1>1. TypeOK /\ BackoffSettles
  <2>1. fault \in BOOLEAN
    BY DEF Init
  <2>2. TypeOK
    BY <2>1, Times DEF Init, TypeOK
  <2>3. BackoffSettles
    BY Times DEF Init, BackoffSettles
  <2> QED  BY <2>2, <2>3
<1>2. OneRequest /\ AnswersHold
  BY DEF Init, OneRequest, AnswersHold
<1>3. KeepsInterval /\ FailsForAReason /\ Spent
  BY DEF Init, KeepsInterval, FailsForAReason, Spent
<1> QED  BY <1>1, <1>2, <1>3 DEF IInv

LEMMA StepInv == IInv /\ [Next]_vars => IInv'
<1> SUFFICES ASSUME IInv, [Next]_vars PROVE IInv'
  OBVIOUS
<1> USE Times
    DEF IInv, TypeOK, OneRequest, AnswersHold, KeepsInterval, BackoffSettles,
        FailsForAReason, Spent
<1>1. CASE AskForCode
  BY <1>1 DEF AskForCode, Send, serverVars
<1>2. CASE IssueCode
  <2>1. PICK i \in Nat, k \in Nat :
          /\ 0 < i /\ i <= k
          /\ asked' = i /\ interval' = i /\ nap' = i /\ pace' = k
    <3>1. PICK j \in 0 .. MaxInterval :
            LET kept == IF j > 0 THEN j ELSE DefaultInterval
            IN asked' = kept /\ Sleep(kept) /\ pace' \in kept .. (kept + MaxPace)
      BY <1>2 DEF IssueCode
    <3> QED  BY <3>1 DEF Sleep
  <2>2. /\ client' = "napping" /\ flight' = "none" /\ code' = "pending"
        /\ gap' = 0 /\ life' \in 0 .. MaxLife
        /\ UNCHANGED <<age, left, fault>>
    BY <1>2 DEF IssueCode, Sleep
  <2> QED  BY <2>1, <2>2
<1>3. CASE Decide
  BY <1>3 DEF Decide, clientVars
<1>4. CASE ServePoll
  BY <1>4 DEF ServePoll, Verdict, clientVars
<1>5. CASE Poll
  BY <1>5 DEF Poll, Send, serverVars
<1>6. CASE TakeAnswer
  BY <1>6 DEF TakeAnswer, Heed, Sleep, Finish, serverVars
<1>7. CASE RequestFails
  BY <1>7 DEF RequestFails, Finish, serverVars
<1>8. CASE Tick
  BY <1>8 DEF Tick, Due
<1>9. CASE UNCHANGED vars
  BY <1>9 DEF vars, clientVars, serverVars
<1> QED
  BY <1>1, <1>2, <1>3, <1>4, <1>5, <1>6, <1>7, <1>8, <1>9 DEF Next

LEMMA Inductive == Spec => []IInv
<1> QED  BY InitInv, StepInv, PTL DEF Spec

\* Every variable keeps its type: in particular the interval is never zero,
\* whatever the server names.
THEOREM TypeCorrect == Spec => []TypeOK
<1>1. IInv => TypeOK
  BY DEF IInv
<1> QED  BY <1>1, Inductive, PTL

\* The interval PollToken is told to keep settles within one back-off of what
\* the server insists on.
THEOREM BackoffAlwaysSettles == Spec => []BackoffSettles
<1>1. IInv => BackoffSettles
  BY DEF IInv
<1> QED  BY <1>1, Inductive, PTL

\* PollToken gives up only over a failed request, a denial or an expired code.
THEOREM AlwaysFailsForAReason == Spec => []FailsForAReason
<1>1. IInv => FailsForAReason
  BY DEF IInv
<1> QED  BY <1>1, Inductive, PTL

\* PollToken's polls reach the server at least the interval asked for apart.
THEOREM AlwaysKeepsItsDistance == Spec => NeverTooSoon
<1>1. IInv /\ [Next]_vars => [flight = "poll" /\ flight' \in Answer => gap >= asked]_vars
  BY DEF IInv, KeepsInterval
<1> QED  BY <1>1, Inductive, PTL DEF Spec, NeverTooSoon

\* A granted code expires unused only when it had less than one sleep and two
\* requests of its life left.
THEOREM AlwaysGrantedInTime == Spec => []GrantedInTime
<1>1. IInv => GrantedInTime
  <2> SUFFICES ASSUME IInv, code = "granted", life = 0, ~fault
               PROVE  left <= interval + 2 * Timeout
    BY DEF GrantedInTime
  <2>1. client \in {"napping", "polling", "failed"}
    BY DEF IInv, TypeOK, AnswersHold
  <2>2. flight \in {"authorization_pending", "slow_down", "poll", "expired_token", "none"}
    BY <2>1 DEF IInv, TypeOK, AnswersHold, OneRequest
  <2> QED
    BY <2>1, <2>2, Times DEF IInv, TypeOK, OneRequest, Spent
<1> QED  BY <1>1, Inductive, PTL

-----------------------------------------------------------------------------
(* The way to the end.                                                     *)

\* How much of the code's life there is for a login to sleep through: from its
\* next poll on, and one round more while it does not know yet that the life is
\* over.
Rounds ==
  CASE client \in {"start", "asking"} -> MaxLife + 2
    [] client = "napping" -> IF life > nap THEN life - nap + 1 ELSE 1
    [] client = "polling" /\ flight = "poll" -> life + 1
    [] client = "polling" /\ flight \in {"authorization_pending", "slow_down"} ->
         IF life > 0 THEN life + 1 ELSE 2
    [] OTHER -> 0

\* How far it is from its next sleep, or its end.
Stage ==
  CASE client = "start" -> Timeout + 2
    [] client = "asking" -> Timeout - age + 1
    [] client = "napping" -> nap + Timeout + 3
    [] client = "polling" -> Timeout - age + (IF flight = "poll" THEN 2 ELSE 1)
    [] OTHER -> 0

Nearer == Rounds' < Rounds \/ (Rounds' = Rounds /\ Stage' < Stage)

\* Whatever happens, but for the user's decision, takes a login nearer to its
\* end, the passing of time included; so it cannot be kept from it by any
\* sequence of answers, slow_downs and delays, and cannot poll for ever.
EveryStepCounts ==
  [][Nearer \/ (Decide /\ Rounds' = Rounds /\ Stage' = Stage)]_vars

\* The distance is a pair of natural numbers, so that it cannot fall for ever.
LEMMA Distances == IInv => Rounds \in Nat /\ Stage \in Nat
BY Times DEF IInv, TypeOK, Rounds, Stage

\* Every step but the user's takes the login nearer to its end: an answer
\* that lets it sleep again came while the code was alive, and the sleep
\* takes at least one unit of that life.
LEMMA StepNearer ==
  ASSUME IInv, IInv', Next
  PROVE  Nearer \/ (Decide /\ Rounds' = Rounds /\ Stage' = Stage)
<1> USE Times DEF IInv, TypeOK, OneRequest, Nearer, Rounds, Stage
<1>1. CASE AskForCode
  BY <1>1 DEF AskForCode, Send, serverVars
<1>2. CASE IssueCode
  <2>1. client' = "napping" /\ life' \in 0 .. MaxLife /\ nap' \in Nat
    BY <1>2 DEF IssueCode, Sleep
  <2>2. client = "asking"
    BY <1>2 DEF IssueCode
  <2>3. Rounds = MaxLife + 2
    BY <2>2
  <2>4. Rounds' < MaxLife + 2
    BY <2>1
  <2> QED  BY <2>3, <2>4
<1>3. CASE Decide
  BY <1>3 DEF Decide, clientVars
<1>4. CASE ServePoll
  BY <1>4 DEF ServePoll, Verdict, clientVars
<1>5. CASE Poll
  BY <1>5 DEF Poll, Send, serverVars
<1>6. CASE TakeAnswer
  <2>1. client = "polling" /\ life' = life /\ age' = age
    BY <1>6 DEF TakeAnswer, serverVars
  <2>2. CASE flight \in {"authorization_pending", "slow_down"}
    <3>1. client' = "napping" /\ nap' \in Nat /\ nap' > 0
      BY <1>6, <2>2 DEF TakeAnswer, Heed, Sleep
    <3> QED  BY <2>1, <2>2, <3>1
  <2>3. CASE flight \notin {"authorization_pending", "slow_down"}
    <3>1. client' \in Over
      BY <1>6, <2>3 DEF TakeAnswer, Heed, Finish
    <3> QED  BY <1>6, <2>1, <2>3, <3>1 DEF TakeAnswer
  <2> QED  BY <2>2, <2>3
<1>7. CASE RequestFails
  BY <1>7, Distances DEF RequestFails, Finish, serverVars
<1>8. CASE Tick
  <2>1. client' = client /\ flight' = flight /\ client \notin {"start"} \cup Over
    BY <1>8 DEF Tick, Due
  <2>2. life' = IF life > 0 THEN life - 1 ELSE 0
    BY <1>8 DEF Tick
  <2>3. CASE client = "napping"
    <3>1. nap > 0 /\ nap' = nap - 1
      BY <1>8, <2>3 DEF Tick, Due
    <3> QED  BY <2>1, <2>2, <2>3, <3>1
  <2>4. CASE client # "napping"
    <3>1. age < Timeout /\ age' = age + 1
      BY <1>8, <2>1, <2>4 DEF Tick, Due
    <3> QED  BY <2>1, <2>2, <2>4, <3>1
  <2> QED  BY <2>3, <2>4
<1> QED
  BY <1>1, <1>2, <1>3, <1>4, <1>5, <1>6, <1>7, <1>8 DEF Next

\* A login has only so many steps before it, for every lifetime, interval and
\* time limit, whatever the server answers and whether or not anybody decides.
THEOREM EveryStepAlwaysCounts == Spec => EveryStepCounts
<1>1. IInv /\ IInv' /\ [Next]_vars =>
        [Nearer \/ (Decide /\ Rounds' = Rounds /\ Stage' = Stage)]_vars
  BY StepNearer
<1> QED  BY <1>1, Inductive, PTL DEF Spec, EveryStepCounts

=============================================================================
