-------------------------- MODULE ServedInstances --------------------------
(***************************************************************************)
(* `cortex serve` answering requests about one instance.  The server keeps *)
(* no state: each request looks its instance's record up once, and the     *)
(* agent card and the identity configuration are then fetched from the      *)
(* address the record has, by when the instance may be gone and its port    *)
(* somebody else's.  List requests are InstanceRegistry's readers.         *)
(***************************************************************************)
EXTENDS HostedInstances

CONSTANT Client  \* requests to the server

VARIABLES
  request,  \* "idle", "fetching" or the status of the response
  found,    \* the instance whose record the lookup read
  target,   \* while fetching: the port, and the listener that had it
  relayed   \* whose answer the response has

servedVars == <<request, found, target, relayed>>

-----------------------------------------------------------------------------

\* The listener a fetch wants: the agent card is fetched from the inbound one,
\* the identity configuration from the admin one.
Fetched == {"inbound", "admin"}

\* 200, 404, 500, 502, 503; "theirs" is the other side's own refusal.
Response == {"ok", "notFound", "error", "badGateway", "unavailable", "theirs"}

ServedTypeOK ==
  /\ request \in [Client -> {"idle", "fetching"} \cup Response]
  /\ found \in [Client -> Command \cup {None}]
  /\ target \in [Client -> (Port \X Fetched) \cup {None}]
  /\ relayed \in [Client -> Command \cup {None}]

ServedInit ==
  /\ request = [r \in Client |-> "idle"]
  /\ found = [r \in Client |-> None]
  /\ target = [r \in Client |-> None]
  /\ relayed = [r \in Client |-> None]

-----------------------------------------------------------------------------

Respond(r, from, response) ==
  /\ request[r] = from
  /\ request' = [request EXCEPT ![r] = response]
  /\ UNCHANGED <<hostedVars, runtimeVars>>

\* lookupInstance: no record, or an instance that is not an agent.
LookupMisses(r, k) ==
  /\ ~ \E c \in Command : record[k] = c /\ job[c].agent
  /\ Respond(r, "idle", "notFound")
  /\ UNCHANGED <<found, target, relayed>>

\* A record that cannot be read.
LookupFails(r, k) ==
  /\ record[k] # None
  /\ Respond(r, "idle", "error")
  /\ UNCHANGED <<found, target, relayed>>

Finds(r, k) ==
  /\ record[k] # None
  /\ job[record[k]].agent
  /\ found' = [found EXCEPT ![r] = record[k]]

\* The detail endpoint and the route status answer from the record.
AnswerFromRecord(r, k) ==
  /\ Finds(r, k)
  /\ Respond(r, "idle", "ok")
  /\ UNCHANGED <<target, relayed>>

\* The record has no address of that kind.
NothingToFetchFrom(r, k, role) ==
  /\ Finds(r, k)
  /\ addr[record[k]][role] = None
  /\ Respond(r, "idle", "unavailable")
  /\ UNCHANGED <<target, relayed>>

BeginFetch(r, k, role) ==
  /\ Finds(r, k)
  /\ addr[record[k]][role] # None
  /\ target' = [target EXCEPT ![r] = <<addr[record[k]][role], role>>]
  /\ Respond(r, "idle", "fetching")
  /\ UNCHANGED relayed

EndFetch(r, response) ==
  /\ Respond(r, "fetching", response)
  /\ target' = [target EXCEPT ![r] = None]
  /\ UNCHANGED found

\* Whoever has the port now answers: what was asked for, or what a reverse proxy
\* passes on from the program behind it, a status of its own (a collector or an
\* admin listener has no such path), or something unreadable.
FetchAnswered(r) ==
  /\ request[r] = "fetching"
  /\ \E c \in Command, role \in Role :
       /\ bound[c][role] = target[r][1]
       /\ \/ /\ role \in {target[r][2], "inbound"}
             /\ EndFetch(r, "ok")
             /\ relayed' = [relayed EXCEPT ![r] = c]
          \/ /\ EndFetch(r, "theirs") \/ EndFetch(r, "badGateway")
             /\ UNCHANGED relayed

\* Nobody is there, or ten seconds are over.
FetchFails(r) ==
  /\ EndFetch(r, "unavailable")
  /\ UNCHANGED relayed

ServedNext ==
  \E r \in Client :
    \/ \E k \in Path :
         \/ LookupMisses(r, k) \/ LookupFails(r, k) \/ AnswerFromRecord(r, k)
         \/ \E role \in Fetched :
              NothingToFetchFrom(r, k, role) \/ BeginFetch(r, k, role)
    \/ FetchAnswered(r) \/ FetchFails(r)

-----------------------------------------------------------------------------

\* The pipeline of a run is up: its container runs, or its process has its
\* listeners.
HostUp(c) ==
  IF job[c].contained THEN Runs(c)
  ELSE pc[c] \in {"hosted", "registered", "running", "unregistering", "stopping"}

\* A record is true for as long as its host is up: the addresses in it are
\* that host's own, and nobody else has them.  So whatever the server fetches
\* from a live instance's record comes from that instance.
RecordIsTrue ==
  \A k \in Path : record[k] # None /\ HostUp(record[k]) =>
    LET c == record[k]
    IN /\ job[c].path = k
       /\ \A role \in Role : addr[c][role] # None =>
            /\ bound[c][role] = addr[c][role]
            /\ \A d \in Command \ {c} : addr[c][role] \notin Held(d)

\* A card or a configuration that is served for an instance and is not its
\* own is served only when the instance's host went down, between the lookup
\* and the fetch or before, with its record left behind.
RelayedIsItsOwn ==
  \A r \in Client :
    relayed[r] \notin {None, found[r]} => ~HostUp(found[r])

=============================================================================
