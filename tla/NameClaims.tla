---------------------------- MODULE NameClaims ----------------------------
(***************************************************************************)
(* What the instance registry promises, without files, links or readers:   *)
(* an instance path (a namespace and a name in it) is held by at most one   *)
(* instance at a time, only its holder gives it up, and a holder that went  *)
(* away without giving it up keeps everybody else out until somebody        *)
(* reclaims the path.                                                       *)
(***************************************************************************)
CONSTANTS
  Process,  \* the runs of `authbridge exec`, one element per run
  Path,     \* the (namespace, name) pairs an instance may be recorded under
  NoOne     \* the holder of a free path

VARIABLES
  holder,   \* who holds each path
  status    \* where each run is: it has not claimed, it holds, it is gone

vars == <<holder, status>>

Init ==
  /\ holder = [k \in Path |-> NoOne]
  /\ status = [p \in Process |-> "idle"]

Claim(p, k) ==
  /\ status[p] = "idle"
  /\ holder[k] = NoOne
  /\ holder' = [holder EXCEPT ![k] = p]
  /\ status' = [status EXCEPT ![p] = "holding"]

Release(p, k) ==
  /\ status[p] = "holding"
  /\ holder[k] = p
  /\ holder' = [holder EXCEPT ![k] = NoOne]
  /\ status' = [status EXCEPT ![p] = "gone"]

\* The run ends and whatever it holds stays held: it never claimed, it was
\* killed, or its attempt to give the path up failed.
Abandon(p) ==
  /\ status[p] # "gone"
  /\ status' = [status EXCEPT ![p] = "gone"]
  /\ UNCHANGED holder

Reclaim(k) ==
  /\ holder[k] # NoOne
  /\ status[holder[k]] = "gone"
  /\ holder' = [holder EXCEPT ![k] = NoOne]
  /\ UNCHANGED status

Next ==
  \/ \E p \in Process, k \in Path : Claim(p, k) \/ Release(p, k)
  \/ \E p \in Process : Abandon(p)
  \/ \E k \in Path : Reclaim(k)

Spec == Init /\ [][Next]_vars

=============================================================================
