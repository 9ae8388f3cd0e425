----------------------------- MODULE DeviceFlow -----------------------------
(***************************************************************************)
(* The device login: internal/deviceflow asks Keycloak for a device code   *)
(* and then polls the token endpoint while the user decides in a browser.  *)
(* The context of the command is never cancelled, so what ends the loop is *)
(* an answer, or a request that fails.                                     *)
(*                                                                         *)
(* Keycloak and the user are external.  Time passes in units; a sleep that *)
(* is over and a request whose time is up are attended to at once.         *)
(***************************************************************************)
EXTENDS Integers

CONSTANTS
  DefaultInterval,  \* the interval for a server that names none
  Backoff,          \* what slow_down adds to it
  Timeout,          \* http.Client.Timeout
  MaxInterval,      \* bound on what the server names
  MaxPace,          \* bound on what the server insists on
  MaxLife           \* bound on the life of a device code

ASSUME TimesAssumption ==
  /\ {DefaultInterval, Backoff, Timeout} \subseteq Nat \ {0}
  /\ {MaxInterval, MaxPace, MaxLife} \subseteq Nat

VARIABLES
  client,    \* where the login is
  interval,  \* the client's interval
  nap,       \* the time left of its sleep
  flight,    \* the request or the answer on its way
  age,       \* the time since the request was sent
  code,      \* the device code, as the server sees it
  life,      \* the time left until the code expires
  pace,      \* the least time between two polls the server accepts
  asked,     \* the interval the client was told to keep
  gap,       \* the time since the last poll reached the server
  left,      \* history: life when the code was granted, or last refused early
  fault      \* history: a request failed

clientVars == <<client, interval, nap>>
serverVars == <<code, life, pace, asked, gap, left>>
vars == <<clientVars, flight, age, serverVars, fault>>

-----------------------------------------------------------------------------

Decision == {"pending", "granted", "denied"}
Code == Decision \cup {"none", "used"}

Answer == {"authorization_pending", "slow_down", "access_denied", "expired_token",
           "token", "other"}

Over == {"loggedIn", "failed"}

TypeOK ==
  /\ client \in {"start", "asking", "napping", "polling"} \cup Over
  /\ interval \in Nat \ {0}
  /\ nap \in Nat
  /\ flight \in Answer \cup {"none", "codeRequest", "poll"}
  /\ age \in 0 .. Timeout
  /\ code \in Code
  /\ life \in 0 .. MaxLife
  /\ pace \in Nat \ {0}
  /\ asked \in Nat \ {0}
  /\ gap \in Nat
  /\ left \in 0 .. MaxLife
  /\ fault \in BOOLEAN

Init ==
  /\ client = "start"
  /\ interval = DefaultInterval
  /\ nap = 0
  /\ flight = "none"
  /\ age = 0
  /\ code = "none"
  /\ life = 0
  /\ pace = DefaultInterval
  /\ asked = DefaultInterval
  /\ gap = 0
  /\ left = 0
  /\ fault = FALSE

-----------------------------------------------------------------------------
(* RequestDeviceCode.                                                      *)

Send(request) ==
  /\ flight' = request
  /\ age' = 0

AskForCode ==
  /\ client = "start"
  /\ client' = "asking"
  /\ Send("codeRequest")
  /\ UNCHANGED <<interval, nap, serverVars, fault>>

Sleep(i) ==
  /\ client' = "napping"
  /\ interval' = i
  /\ nap' = i

\* Altered: an interval that is missing is taken for none.
IssueCode_NoDefault ==
  /\ flight = "codeRequest"
  /\ flight' = "none"
  /\ code' = "pending"
  /\ gap' = 0
  /\ \E i \in 0 .. MaxInterval :
       /\ asked' = IF i > 0 THEN i ELSE DefaultInterval
       /\ Sleep(i)
       /\ pace' \in asked' .. (asked' + MaxPace)
  /\ life' \in 0 .. MaxLife
  /\ UNCHANGED <<age, left, fault>>

\* A device code that lives for a while, with an interval or, as 0, without
\* one.  What the server insists on may be more than it says.  (A code whose
\* answer is lost is nobody's, since only the answer says it: the client gives
\* up, as it does on any lost answer.)
IssueCode ==
  /\ flight = "codeRequest"
  /\ flight' = "none"
  /\ code' = "pending"
  /\ gap' = 0
  /\ \E i \in 0 .. MaxInterval :
       LET kept == IF i > 0 THEN i ELSE DefaultInterval
       IN /\ asked' = kept
          /\ Sleep(kept)
          /\ pace' \in kept .. (kept + MaxPace)
  /\ life' \in 0 .. MaxLife
  /\ UNCHANGED <<age, left, fault>>

-----------------------------------------------------------------------------
(* The user, and the token endpoint.                                       *)

Decide ==
  /\ code = "pending"
  /\ life > 0
  /\ code' \in {"granted", "denied"}
  /\ left' = IF code' = "granted" THEN life ELSE left
  /\ UNCHANGED <<clientVars, flight, age, life, pace, asked, gap, fault>>

\* What a poll that arrives now is answered.
Verdict ==
  IF life = 0 THEN "expired_token"
  ELSE IF gap < pace THEN "slow_down"
  ELSE CASE code = "pending" -> "authorization_pending"
         [] code = "denied" -> "access_denied"
         [] code = "granted" -> "token"
         [] OTHER -> "other"

ServePoll ==
  /\ flight = "poll"
  /\ flight' = Verdict
  /\ gap' = 0
  /\ asked' = IF Verdict = "slow_down" THEN asked + Backoff ELSE asked
  /\ code' = IF Verdict = "token" THEN "used" ELSE code
  /\ left' = IF Verdict = "slow_down" /\ code = "granted" THEN life ELSE left
  /\ UNCHANGED <<clientVars, age, life, pace, fault>>

-----------------------------------------------------------------------------
(* PollToken.                                                              *)

\* The sleep comes before the first poll, too.
Poll ==
  /\ client = "napping"
  /\ nap = 0
  /\ client' = "polling"
  /\ Send("poll")
  /\ UNCHANGED <<interval, nap, serverVars, fault>>

Finish(outcome) ==
  /\ client' = outcome
  /\ UNCHANGED <<interval, nap>>

\* Altered: the loop sleeps for the old interval once more.
Heed_Late ==
  CASE flight = "token" -> Finish("loggedIn")
    [] flight = "authorization_pending" -> Sleep(interval)
    [] flight = "slow_down" ->
         /\ client' = "napping"
         /\ nap' = interval
         /\ interval' = interval + Backoff
    [] OTHER -> Finish("failed")

\* Altered: slow_down is an error like any other.
Heed_SlowDownFails ==
  CASE flight = "token" -> Finish("loggedIn")
    [] flight = "authorization_pending" -> Sleep(interval)
    [] OTHER -> Finish("failed")

\* Altered: a code that expired is polled on.
Heed_Insists ==
  CASE flight = "token" -> Finish("loggedIn")
    [] flight \in {"authorization_pending", "expired_token"} -> Sleep(interval)
    [] flight = "slow_down" -> Sleep(interval + Backoff)
    [] OTHER -> Finish("failed")

\* Altered: the wait grows with every answer.
Heed_AlwaysBacksOff ==
  CASE flight = "token" -> Finish("loggedIn")
    [] flight = "authorization_pending" ->
         /\ client' = "napping"
         /\ nap' = interval + Backoff
         /\ UNCHANGED interval
    [] flight = "slow_down" -> Sleep(interval + Backoff)
    [] OTHER -> Finish("failed")

\* What the answer to a poll does to the loop.
Heed ==
  CASE flight = "token" -> Finish("loggedIn")
    [] flight = "authorization_pending" -> Sleep(interval)
    [] flight = "slow_down" -> Sleep(interval + Backoff)
    [] OTHER -> Finish("failed")

TakeAnswer ==
  /\ flight \in Answer
  /\ flight' = "none"
  /\ Heed
  /\ UNCHANGED <<age, serverVars, fault>>

\* The connection breaks, before or after the server did its part, the time
\* is up, or an answer is none: another status, a body that does not parse,
\* no device code in it.  Either function returns the error.
RequestFails ==
  /\ flight # "none"
  /\ flight' = "none"
  /\ fault' = TRUE
  /\ Finish("failed")
  /\ UNCHANGED <<age, serverVars>>

-----------------------------------------------------------------------------

Due == client \in {"start"} \cup Over \/ (client = "napping" /\ nap = 0)
         \/ (flight # "none" /\ age = Timeout)

Tick ==
  /\ ~Due
  /\ nap' = IF nap > 0 THEN nap - 1 ELSE 0
  /\ age' = IF flight = "none" THEN age ELSE age + 1
  /\ life' = IF life > 0 THEN life - 1 ELSE 0
  /\ gap' = gap + 1
  /\ UNCHANGED <<client, interval, flight, code, pace, asked, left, fault>>

Next ==
  \/ AskForCode \/ IssueCode
  \/ Decide \/ ServePoll
  \/ Poll \/ TakeAnswer \/ RequestFails
  \/ Tick

Spec == Init /\ [][Next]_vars

\* rossoctl runs, time passes, and an answer that came is taken.  Nothing is
\* assumed of the user or the server: a request that is not answered fails.
Fairness ==
  /\ WF_vars(AskForCode)
  /\ WF_vars(Poll)
  /\ WF_vars(TakeAnswer)
  /\ WF_vars(RequestFails /\ age = Timeout)
  /\ WF_vars(Tick)

LiveSpec == Spec /\ Fairness

-----------------------------------------------------------------------------

\* Two polls never reach the server closer together than it asked for: the
\* interval it named, or the default, and the back-off of every slow_down it
\* has answered, however long the requests between them took.
NeverTooSoon ==
  [][flight = "poll" /\ flight' \in Answer => gap >= asked]_vars

\* slow_down is heeded once and is then enough: what the client was told to
\* keep stays below what the server insists on and one step more, so the
\* interval, which the code never caps, does not run away.
BackoffSettles == asked < pace + Backoff

\* A login that ends without a token has a reason that is not the client's: a
\* request failed, the user declined, or the code expired.
FailsForAReason ==
  client = "failed" => fault \/ code = "denied" \/ life = 0

\* The user's consent is not lost to waiting: a code that was granted and then
\* expired unused was granted, or put off by a slow_down, so late that one
\* sleep and the requests around it used up its life.
GrantedInTime ==
  (code = "granted" /\ life = 0 /\ ~fault) => left <= interval + 2 * Timeout

\* The login ends: nobody has to decide, and the server need not answer.
LoginEnds == <>(client \in Over)

=============================================================================
