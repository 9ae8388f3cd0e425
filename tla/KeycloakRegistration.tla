------------------------ MODULE KeycloakRegistration ------------------------
(***************************************************************************)
(* `keycloak register` and `keycloak unregister`: each run makes one admin *)
(* call after another against a realm that other runs change in between.   *)
(* A call can fail, its reply can be lost after it took effect, and a run  *)
(* that ended in an error is repeated by starting another one.             *)
(*                                                                         *)
(* The realm is external.  It names objects by the caller's names and       *)
(* hands out an id for each; a scope that goes takes its mappers and its    *)
(* links along, and a new client inherits the realm's default scopes.       *)
(***************************************************************************)
EXTENDS Naturals, FiniteSets

CONSTANTS
  Run,          \* invocations of the two commands
  Workload,     \* the workloads they name; all run under one ServiceAccount
  ClientSecret, FederatedJwt,  \* the client authenticator types
  MaxObject     \* bound: objects the realm ever creates

ASSUME MaxObjectAssumption == MaxObject \in Nat \ {0}

VARIABLES
  job,        \* what each run was asked to do
  pc,         \* the call each run makes next
  held,       \* what each run has learnt: ids, and what it will report
  client,     \* the ServiceAccount's client in the realm: its id and type
  platform,   \* the platform client's id, 0 when it is not deployed
  scope,      \* the id of each workload's audience scope
  mapped,     \* the scopes that have their audience mapper
  defaults,   \* the scopes the realm gives to new clients
  attached,   \* the (client, scope) links
  created,    \* objects created so far: ids are numbered
  disturbed   \* history: an opposite run changed this run's own objects

realm == <<client, platform, scope, mapped, defaults, attached, created>>
vars == <<job, pc, held, realm, disturbed>>

-----------------------------------------------------------------------------

AuthType == {ClientSecret, FederatedJwt}
ObjectId == 0 .. MaxObject
Absent == [id |-> 0, auth |-> ClientSecret]

\* --force is a flag of unregister, the authenticator type one of register.
Job ==
  [kind : {"register"}, workload : Workload, auth : AuthType, force : {FALSE}]
  \cup
  [kind : {"unregister"}, workload : Workload, auth : {ClientSecret}, force : BOOLEAN]

Call == {"findClient", "createClient", "requireClient", "readDrift", "readSecret",
         "findScope", "createScope", "requireScope", "addMapper",
         "linkRealm", "linkClient", "findPlatform", "linkPlatform",
         "unlinkRealm", "unlinkPlatform", "dropScope", "dropClient"}

\* A run ends "failed" when a call failed or its reply was lost, and
\* "refused" when the realm's answer is one the code reports as an error.
Ended == {"done", "failed", "refused"}

\* "existed": the client was found by the first lookup, and not created.
Held == [client : ObjectId, scope : ObjectId, existed : BOOLEAN, drift : BOOLEAN]

TypeOK ==
  /\ job \in [Run -> Job]
  /\ pc \in [Run -> {"idle"} \cup Call \cup Ended]
  /\ held \in [Run -> Held]
  /\ client \in [id : ObjectId, auth : AuthType]
  /\ platform \in ObjectId
  /\ scope \in [Workload -> ObjectId]
  /\ mapped \subseteq 1 .. MaxObject
  /\ defaults \subseteq 1 .. MaxObject
  /\ attached \subseteq (1 .. MaxObject) \X (1 .. MaxObject)
  /\ created \in ObjectId
  /\ disturbed \in [Run -> BOOLEAN]

Init ==
  /\ job \in [Run -> Job]
  /\ pc = [r \in Run |-> "idle"]
  /\ held = [r \in Run |-> [client |-> 0, scope |-> 0, existed |-> FALSE, drift |-> FALSE]]
  /\ client = Absent
  /\ platform \in {0, 1}
  /\ scope = [w \in Workload |-> 0]
  /\ mapped = {}
  /\ defaults = {}
  /\ attached = {}
  /\ created = 1
  /\ disturbed = [r \in Run |-> FALSE]

-----------------------------------------------------------------------------
(* What every call has in common.                                          *)

Registers(r) == job[r].kind = "register"
Scope(r) == scope[job[r].workload]

At(r, call) == pc[r] = call

\* The reply may be lost, which ends the run like a failed call.
Answer(r, after) == \E lost \in BOOLEAN :
  pc' = [pc EXCEPT ![r] = IF lost THEN "failed" ELSE after]

Refuse(r) == pc' = [pc EXCEPT ![r] = "refused"]

\* A change r made undoes the work of the started runs of the other command
\* on the same object.
Disturb(r, same(_)) ==
  disturbed' = [q \in Run |-> disturbed[q] \/
    (pc[q] # "idle" /\ job[q].kind # job[r].kind /\ same(q))]

SameWorkload(r, q) == job[q].workload = job[r].workload

HeldScopeLives(r) == held[r].scope \in {scope[w] : w \in Workload} \ {0}
HeldClientLives(r) == held[r].client = client.id /\ client.id # 0

Begin(r) ==
  /\ At(r, "idle")
  /\ pc' = [pc EXCEPT ![r] = IF Registers(r) THEN "findClient" ELSE "findScope"]
  /\ UNCHANGED <<job, held, realm, disturbed>>

\* The call does not reach the realm, or the run is interrupted.
CallFails(r) ==
  /\ pc[r] \in Call
  /\ pc' = [pc EXCEPT ![r] = "failed"]
  /\ UNCHANGED <<job, held, realm, disturbed>>

-----------------------------------------------------------------------------
(* Lookups.                                                                *)

AfterFindClient(r) ==
  CASE Registers(r) /\ client.id = 0 -> "createClient"
    [] Registers(r) /\ client.id # 0 -> "readDrift"
    [] ~Registers(r) /\ client.id # 0 /\ job[r].force -> "dropClient"
    [] OTHER -> "done"

FindClient(r) ==
  /\ At(r, "findClient")
  /\ held' = [held EXCEPT ![r].client = client.id, ![r].existed = client.id # 0]
  /\ Answer(r, AfterFindClient(r))
  /\ UNCHANGED <<job, realm, disturbed>>

\* Altered: an absent scope ends the cleanup.
AfterFindScope_Returns(r) ==
  CASE Registers(r) /\ Scope(r) = 0 -> "createScope"
    [] Registers(r) /\ Scope(r) # 0 -> "linkRealm"
    [] ~Registers(r) /\ Scope(r) # 0 -> "unlinkRealm"
    [] OTHER -> "done"

\* Unregister goes on to the client when the scope is gone; Register takes an
\* existing scope as it is, without its mapper.
AfterFindScope(r) ==
  CASE Registers(r) /\ Scope(r) = 0 -> "createScope"
    [] Registers(r) /\ Scope(r) # 0 -> "linkRealm"
    [] ~Registers(r) /\ Scope(r) # 0 -> "unlinkRealm"
    [] OTHER -> "findClient"

FindScope(r) ==
  /\ At(r, "findScope")
  /\ held' = [held EXCEPT ![r].scope = Scope(r)]
  /\ Answer(r, AfterFindScope(r))
  /\ UNCHANGED <<job, realm, disturbed>>

AfterFindPlatform(r) ==
  CASE Registers(r) /\ platform # 0 -> "linkPlatform"
    [] Registers(r) /\ platform = 0 -> "done"
    [] ~Registers(r) /\ platform # 0 -> "unlinkPlatform"
    [] OTHER -> "dropScope"

\* A platform client that is not deployed is skipped.
FindPlatform(r) ==
  /\ At(r, "findPlatform")
  /\ Answer(r, AfterFindPlatform(r))
  /\ UNCHANGED <<job, held, realm, disturbed>>

-----------------------------------------------------------------------------
(* Register.                                                               *)

\* Only a client-secret client has a secret to read.
AfterClient(r) == IF job[r].auth = ClientSecret THEN "readSecret" ELSE "findScope"

\* 201 with the id in its Location header, or without one.
CreateClient(r) ==
  /\ At(r, "createClient")
  /\ client.id = 0
  /\ created < MaxObject
  /\ created' = created + 1
  /\ client' = [id |-> created', auth |-> job[r].auth]
  /\ attached' = attached \cup ({created'} \X defaults)
  /\ \/ /\ held' = [held EXCEPT ![r].client = created']
        /\ Answer(r, AfterClient(r))
     \/ Answer(r, "requireClient") /\ UNCHANGED held
  /\ Disturb(r, LAMBDA q : TRUE)
  /\ UNCHANGED <<job, platform, scope, mapped, defaults>>

\* 409: another run created the client since the lookup.
CreateClientConflict(r) ==
  /\ At(r, "createClient")
  /\ client.id # 0
  /\ Answer(r, "requireClient")
  /\ UNCHANGED <<job, held, realm, disturbed>>

\* requireClientUUID: only the id is read, not how the client differs.
RequireClient(r) ==
  /\ At(r, "requireClient")
  /\ held' = [held EXCEPT ![r].client = client.id]
  /\ IF client.id = 0 THEN Refuse(r) ELSE Answer(r, AfterClient(r))
  /\ UNCHANGED <<job, realm, disturbed>>

\* Altered: a drift is repaired and not reported.
ReadDrift_Repairs(r) ==
  /\ At(r, "readDrift")
  /\ IF HeldClientLives(r)
     THEN client' = [client EXCEPT !.auth = job[r].auth] /\ Answer(r, AfterClient(r))
     ELSE Refuse(r) /\ UNCHANGED client
  /\ UNCHANGED <<job, held, platform, scope, mapped, defaults, attached, created,
                 disturbed>>

ReadDrift(r) ==
  /\ At(r, "readDrift")
  /\ IF HeldClientLives(r)
     THEN /\ held' = [held EXCEPT ![r].drift = client.auth # job[r].auth]
          /\ Answer(r, AfterClient(r))
     ELSE Refuse(r) /\ UNCHANGED held
  /\ UNCHANGED <<job, realm, disturbed>>

ReadSecret(r) ==
  /\ At(r, "readSecret")
  /\ IF HeldClientLives(r) THEN Answer(r, "findScope") ELSE Refuse(r)
  /\ UNCHANGED <<job, held, realm, disturbed>>

CreateScope(r) ==
  /\ At(r, "createScope")
  /\ Scope(r) = 0
  /\ created < MaxObject
  /\ created' = created + 1
  /\ scope' = [scope EXCEPT ![job[r].workload] = created']
  /\ \/ /\ held' = [held EXCEPT ![r].scope = created']
        /\ Answer(r, "addMapper")
     \/ Answer(r, "requireScope") /\ UNCHANGED held
  /\ Disturb(r, LAMBDA q : SameWorkload(r, q))
  /\ UNCHANGED <<job, client, platform, mapped, defaults, attached>>

CreateScopeConflict(r) ==
  /\ At(r, "createScope")
  /\ Scope(r) # 0
  /\ Answer(r, "requireScope")
  /\ UNCHANGED <<job, held, realm, disturbed>>

RequireScope(r) ==
  /\ At(r, "requireScope")
  /\ held' = [held EXCEPT ![r].scope = Scope(r)]
  /\ IF Scope(r) = 0 THEN Refuse(r) ELSE Answer(r, "addMapper")
  /\ UNCHANGED <<job, realm, disturbed>>

\* A mapper of this name that is there already is success.
AddMapper(r) ==
  /\ At(r, "addMapper")
  /\ IF HeldScopeLives(r)
     THEN /\ mapped' = mapped \cup {held[r].scope}
          /\ Answer(r, "linkRealm")
     ELSE Refuse(r) /\ UNCHANGED mapped
  /\ UNCHANGED <<job, held, client, platform, scope, defaults, attached, created,
                 disturbed>>

LinkRealm(r) ==
  /\ At(r, "linkRealm")
  /\ IF HeldScopeLives(r)
     THEN /\ defaults' = defaults \cup {held[r].scope}
          /\ Answer(r, "linkClient")
          /\ Disturb(r, LAMBDA q : SameWorkload(r, q))
     ELSE Refuse(r) /\ UNCHANGED <<defaults, disturbed>>
  /\ UNCHANGED <<job, held, client, platform, scope, mapped, attached, created>>

\* Altered: a client this run created is left to the realm's defaults.
LinkClient_ExistingOnly(r) ==
  /\ At(r, "linkClient")
  /\ IF held[r].existed /\ HeldScopeLives(r) /\ HeldClientLives(r)
     THEN attached' = attached \cup {<<held[r].client, held[r].scope>>}
     ELSE UNCHANGED attached
  /\ Answer(r, "findPlatform")
  /\ UNCHANGED <<job, held, client, platform, scope, mapped, defaults, created,
                 disturbed>>

LinkClient(r) ==
  /\ At(r, "linkClient")
  /\ IF HeldScopeLives(r) /\ HeldClientLives(r)
     THEN /\ attached' = attached \cup {<<held[r].client, held[r].scope>>}
          /\ Answer(r, "findPlatform")
     ELSE Refuse(r) /\ UNCHANGED attached
  /\ UNCHANGED <<job, held, client, platform, scope, mapped, defaults, created,
                 disturbed>>

LinkPlatform(r) ==
  /\ At(r, "linkPlatform")
  /\ IF HeldScopeLives(r)
     THEN /\ attached' = attached \cup {<<platform, held[r].scope>>}
          /\ Answer(r, "done")
          /\ Disturb(r, LAMBDA q : SameWorkload(r, q))
     ELSE Refuse(r) /\ UNCHANGED <<attached, disturbed>>
  /\ UNCHANGED <<job, held, client, platform, scope, mapped, defaults, created>>

-----------------------------------------------------------------------------
(* Unregister.  404 is success for every one of its deletions.             *)

\* Altered: straight to the scope, whose links the realm will drop.
UnlinkRealm_Skips(r) ==
  /\ At(r, "unlinkRealm")
  /\ defaults' = defaults \ {held[r].scope}
  /\ Answer(r, "dropScope")
  /\ Disturb(r, LAMBDA q : SameWorkload(r, q))
  /\ UNCHANGED <<job, held, client, platform, scope, mapped, attached, created>>

UnlinkRealm(r) ==
  /\ At(r, "unlinkRealm")
  /\ defaults' = defaults \ {held[r].scope}
  /\ Answer(r, "findPlatform")
  /\ Disturb(r, LAMBDA q : SameWorkload(r, q))
  /\ UNCHANGED <<job, held, client, platform, scope, mapped, attached, created>>

\* Altered: every scope is taken off the platform client.
UnlinkPlatform_All(r) ==
  /\ At(r, "unlinkPlatform")
  /\ attached' = {l \in attached : l[1] # platform}
  /\ Answer(r, "dropScope")
  /\ Disturb(r, LAMBDA q : SameWorkload(r, q))
  /\ UNCHANGED <<job, held, client, platform, scope, mapped, defaults, created>>

UnlinkPlatform(r) ==
  /\ At(r, "unlinkPlatform")
  /\ attached' = attached \ {<<platform, held[r].scope>>}
  /\ Answer(r, "dropScope")
  /\ Disturb(r, LAMBDA q : SameWorkload(r, q))
  /\ UNCHANGED <<job, held, client, platform, scope, mapped, defaults, created>>

\* Altered: 404 is an error.
DropScope_Strict(r) ==
  /\ At(r, "dropScope")
  /\ scope' = [w \in Workload |-> IF scope[w] = held[r].scope THEN 0 ELSE scope[w]]
  /\ mapped' = mapped \ {held[r].scope}
  /\ defaults' = defaults \ {held[r].scope}
  /\ attached' = {l \in attached : l[2] # held[r].scope}
  /\ IF HeldScopeLives(r) THEN Answer(r, "findClient") ELSE Refuse(r)
  /\ Disturb(r, LAMBDA q : SameWorkload(r, q))
  /\ UNCHANGED <<job, held, client, platform, created>>

DropScope(r) ==
  /\ At(r, "dropScope")
  /\ scope' = [w \in Workload |-> IF scope[w] = held[r].scope THEN 0 ELSE scope[w]]
  /\ mapped' = mapped \ {held[r].scope}
  /\ defaults' = defaults \ {held[r].scope}
  /\ attached' = {l \in attached : l[2] # held[r].scope}
  /\ Answer(r, "findClient")
  /\ Disturb(r, LAMBDA q : SameWorkload(r, q))
  /\ UNCHANGED <<job, held, client, platform, created>>

\* Altered: the id is forgotten together with the client's record.
DropClient_Forgets(r) ==
  /\ At(r, "dropClient")
  /\ client' = [auth |-> client.auth]
  /\ Answer(r, "done")
  /\ UNCHANGED <<job, held, platform, scope, mapped, defaults, attached, created,
                 disturbed>>

DropClient(r) ==
  /\ At(r, "dropClient")
  /\ client' = IF HeldClientLives(r) THEN Absent ELSE client
  /\ attached' = {l \in attached : l[1] # held[r].client}
  /\ Answer(r, "done")
  /\ Disturb(r, LAMBDA q : TRUE)
  /\ UNCHANGED <<job, held, platform, scope, mapped, defaults, created>>

-----------------------------------------------------------------------------

Register(r) ==
  \/ CreateClient(r)
  \/ CreateClientConflict(r)
  \/ RequireClient(r)
  \/ ReadDrift(r)
  \/ ReadSecret(r)
  \/ CreateScope(r)
  \/ CreateScopeConflict(r)
  \/ RequireScope(r)
  \/ AddMapper(r)
  \/ LinkRealm(r)
  \/ LinkClient(r)
  \/ LinkPlatform(r)

Unregister(r) ==
  \/ UnlinkRealm(r)
  \/ UnlinkPlatform(r)
  \/ DropScope(r)
  \/ DropClient(r)

Next ==
  \E r \in Run :
    \/ Begin(r)
    \/ CallFails(r)
    \/ FindClient(r)
    \/ FindScope(r)
    \/ FindPlatform(r)
    \/ Register(r)
    \/ Unregister(r)

Spec == Init /\ [][Next]_vars

-----------------------------------------------------------------------------
(* Properties.                                                             *)

Finished(r, kind) == At(r, "done") /\ job[r].kind = kind /\ ~disturbed[r]

\* A registration that succeeded, and that no unregistration of its own
\* workload or forced removal of its client has undone, is in the realm with
\* the ids it reports: client and scope, linked to the realm, to the client
\* and to the platform client.  Neither earlier failures, a registration
\* running beside it, nor what is done to a sibling's scope changes that.
RegisteredIsAttached ==
  \A r \in Run : Finished(r, "register") =>
    /\ HeldClientLives(r)
    /\ Scope(r) = held[r].scope /\ Scope(r) \in defaults
    /\ {client.id, platform} \ {0} \subseteq {l[1] : l \in {k \in attached : k[2] = Scope(r)}}
    /\ held[r].existed /\ client.auth # job[r].auth => held[r].drift

\* An unregistration that succeeded leaves no scope and, when it was told to
\* delete it, no client, whatever earlier runs left undone.
UnregisterConverges ==
  \A r \in Run : Finished(r, "unregister") =>
    /\ Scope(r) = 0
    /\ job[r].force => client.id = 0

\* Unregister's order: when the scope is deleted, nothing the command unlinks
\* points at it any more, so an interruption leaves no dangling link even in
\* a realm that would not cascade.
UnlinkedBeforeDrop ==
  \A r \in Run : At(r, "dropScope") /\ ~disturbed[r] =>
    /\ held[r].scope \notin defaults
    /\ <<platform, held[r].scope>> \notin attached

\* Repeating a command, or running it twice at once, never ends in an error
\* because of what the other run did: only the opposite command can make the
\* realm refuse.
RepeatNeverRefused == \A r \in Run : At(r, "refused") => disturbed[r]

-----------------------------------------------------------------------------
(* What a step may never do.                                               *)

\* Every answer takes its run further.
Acts(r) == pc'[r] # pc[r]

\* All that a registration ever adds for a workload is there.
Complete(w) ==
  /\ client.id # 0 /\ scope[w] # 0
  /\ scope[w] \in mapped \cap defaults
  /\ <<client.id, scope[w]>> \in attached
  /\ platform # 0 => <<platform, scope[w]>> \in attached

\* "Idempotent": where everything is in place the steps of a registration
\* change nothing, not even those of one that began when it was not, and holds
\* ids from then.
RepeatChangesNothing ==
  [][\A r \in Run : Acts(r) /\ Registers(r) /\ Complete(job[r].workload)
       => UNCHANGED realm]_vars

\* Neither command, however stale what it knows, reaches a sibling's scope: not
\* the scope, its mapper or its place among the defaults, and not its links to
\* the clients that stay.
SiblingsUntouched ==
  [][\A r \in Run : Acts(r) => \A w \in Workload \ {job[r].workload} :
       /\ scope'[w] = scope[w]
       /\ scope[w] # 0 =>
            /\ scope[w] \in mapped' <=> scope[w] \in mapped
            /\ scope[w] \in defaults' <=> scope[w] \in defaults
            /\ \A i \in {client.id, platform} \cap {client'.id, platform'} :
                 <<i, scope[w]>> \in attached' <=> <<i, scope[w]>> \in attached]_vars

-----------------------------------------------------------------------------
(* What the comments say, and the code does not do.                        *)

\* Register's doc comment: "a partially completed registration is finished by
\* running this again"; no other run is under way.
RegisterFinishes ==
  (\A r \in Run : pc[r] \in {"idle"} \cup Ended) =>
    \A r \in Run : Finished(r, "register") => held[r].scope \in mapped

=============================================================================
