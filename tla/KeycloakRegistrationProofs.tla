--------------------- MODULE KeycloakRegistrationProofs ---------------------
(***************************************************************************)
(* Theorems about registration and unregistration, for any number of runs   *)
(* and workloads, and whatever calls fail or lose their replies.           *)
(*                                                                         *)
(* The argument is one of rely and guarantee: what a step of another run   *)
(* can do to the objects of a run that is not disturbed by it (ByOthers),  *)
(* and what the run's own steps make of them.                               *)
(***************************************************************************)
EXTENDS KeycloakRegistration, TLAPS

RegisterCall == {"createClient", "requireClient", "readDrift", "readSecret",
                 "createScope", "requireScope", "addMapper",
                 "linkRealm", "linkClient", "linkPlatform"}

UnregisterCall == {"unlinkRealm", "unlinkPlatform", "dropScope", "dropClient"}

\* Ids are numbered, the platform client's is the first, and the id of a scope
\* is known only to runs for its workload.
Ids ==
  /\ platform \in {0, 1}
  /\ created >= 1
  /\ client.id # 0 => client.id > 1
  /\ \A w \in Workload : scope[w] <= created
  /\ \A r \in Run : held[r].scope <= created
  /\ \A r \in Run : held[r].client # 1
  /\ \A w, v \in Workload : scope[w] # 0 /\ scope[w] = scope[v] => w = v
  /\ \A r \in Run, w \in Workload :
       scope[w] # 0 /\ scope[w] = held[r].scope => w = job[r].workload

\* Each command makes its own calls.
Stages ==
  \A r \in Run :
    /\ pc[r] \in RegisterCall => Registers(r)
    /\ pc[r] \in UnregisterCall => ~Registers(r)
    /\ pc[r] \in {"linkPlatform", "unlinkPlatform"} => platform # 0

\* The calls before which a registration has its client, and its scope.
HasClient == {"readDrift", "readSecret", "findScope", "createScope", "requireScope",
              "addMapper", "linkRealm", "linkClient", "findPlatform", "linkPlatform", "done"}
HasScope == {"addMapper", "linkRealm", "linkClient", "findPlatform", "linkPlatform", "done"}

\* What a registration that nobody disturbed has achieved so far.
Registering(r) ==
  /\ pc[r] # "refused"
  /\ pc[r] \in {"createClient", "requireClient"} => ~held[r].existed
  /\ At(r, "requireClient") => client.id # 0
  /\ pc[r] \in HasClient => HeldClientLives(r)
  /\ pc[r] \in HasClient \ {"readDrift"} =>
       (held[r].existed /\ client.auth # job[r].auth => held[r].drift)
  /\ At(r, "requireScope") => Scope(r) # 0
  /\ pc[r] \in HasScope => Scope(r) = held[r].scope /\ Scope(r) # 0
  /\ pc[r] \in {"linkClient", "findPlatform", "linkPlatform", "done"} => Scope(r) \in defaults
  /\ pc[r] \in {"findPlatform", "linkPlatform", "done"} => <<client.id, Scope(r)>> \in attached
  /\ At(r, "done") /\ platform # 0 => <<platform, Scope(r)>> \in attached

\* What an unregistration that nobody disturbed has achieved so far.
Unregistering(r) ==
  /\ pc[r] # "refused"
  /\ pc[r] \in {"unlinkRealm", "findPlatform", "unlinkPlatform", "dropScope"} =>
       Scope(r) \in {0, held[r].scope}
  /\ pc[r] \in {"findPlatform", "unlinkPlatform", "dropScope"} => held[r].scope \notin defaults
  /\ At(r, "dropScope") => <<platform, held[r].scope>> \notin attached
  /\ pc[r] \in {"findClient", "dropClient", "done"} => Scope(r) = 0
  /\ At(r, "dropClient") => client.id \in {0, held[r].client}
  /\ At(r, "done") /\ job[r].force => client.id = 0

Progress ==
  \A r \in Run : ~disturbed[r] =>
    IF Registers(r) THEN Registering(r) ELSE Unregistering(r)

IInv == TypeOK /\ Ids /\ Stages /\ Progress

-----------------------------------------------------------------------------
(* What a step of one run leaves alone.                                    *)

Step(r) ==
  \/ Begin(r) \/ CallFails(r) \/ FindClient(r) \/ FindScope(r) \/ FindPlatform(r)
  \/ Register(r) \/ Unregister(r)

\* A step is one of some run.
LEMMA StepCases == Next => \E r \in Run : Step(r)
BY DEF Next, Step

\* The realm answers a call, or its reply is lost.
LEMMA Answered ==
  ASSUME TypeOK, NEW r \in Run, NEW after, Answer(r, after)
  PROVE  /\ pc' = [pc EXCEPT ![r] = pc'[r]]
         /\ pc'[r] \in {"failed", after}
BY DEF TypeOK, Answer

\* Nobody but the run itself changes what it does and knows, and a run does
\* not disturb itself.
LEMMA Alone ==
  ASSUME TypeOK, NEW r \in Run, Step(r)
  PROVE  /\ job' = job
         /\ platform' = platform
         /\ disturbed' \in [Run -> BOOLEAN]
         /\ \A q \in Run : disturbed[q] => disturbed'[q]
         /\ disturbed'[r] = disturbed[r]
         /\ \A q \in Run \ {r} : pc'[q] = pc[q] /\ held'[q] = held[q]
<1> USE DEF TypeOK, realm
<1>1. CASE Begin(r)
  BY <1>1 DEF Begin
<1>2. CASE CallFails(r)
  BY <1>2 DEF CallFails
<1>3. CASE FindClient(r)
  BY <1>3 DEF FindClient, Answer
<1>4. CASE FindScope(r)
  BY <1>4 DEF FindScope, Answer
<1>5. CASE Register(r)
  BY <1>5 DEF Register, CreateClient, CreateClientConflict, RequireClient, ReadDrift,
              ReadSecret, CreateScope, CreateScopeConflict, RequireScope, AddMapper,
              LinkRealm, LinkClient, LinkPlatform, Answer, Refuse, Disturb
<1>6. CASE Unregister(r)
  BY <1>6 DEF Unregister, UnlinkRealm, UnlinkPlatform, DropScope, DropClient, Answer,
              Refuse, Disturb
<1>7. CASE FindPlatform(r)
  BY <1>7 DEF FindPlatform, Answer
<1> QED  BY <1>1, <1>2, <1>3, <1>4, <1>5, <1>6, <1>7 DEF Step

-----------------------------------------------------------------------------
(* Types and ids.                                                          *)

USE DEF AuthType, ObjectId, Absent, Registers, Scope, At, HeldScopeLives, HeldClientLives

\* The parts of what a run was asked to do ...
LEMMA JobType ==
  ASSUME TypeOK, NEW r \in Run
  PROVE  /\ job[r].workload \in Workload
         /\ job[r].auth \in AuthType
         /\ job[r].force \in BOOLEAN
         /\ job[r].kind \in {"register", "unregister"}
BY DEF TypeOK, Job

\* ... and of what it knows.
LEMMA HeldType ==
  ASSUME TypeOK, NEW r \in Run
  PROVE  /\ held[r].client \in ObjectId
         /\ held[r].scope \in ObjectId
         /\ held[r].existed \in BOOLEAN
         /\ held[r].drift \in BOOLEAN
         /\ held[r].scope # 0 => held[r].scope \in 1 .. MaxObject
         /\ held[r].client # 0 => held[r].client \in 1 .. MaxObject
BY MaxObjectAssumption DEF TypeOK, Held

\* What a run learns at its lookups.
LEMMA Learns ==
  ASSUME NEW h \in Held, NEW b \in BOOLEAN, NEW c \in ObjectId
  PROVE  /\ [h EXCEPT !.drift = b] \in Held
         /\ [h EXCEPT !.client = c, !.existed = b] \in Held
BY DEF Held

\* Every step keeps the types.
LEMMA TypeStep ==
  ASSUME TypeOK, Ids, Stages, NEW r \in Run, Step(r)
  PROVE  TypeOK'
<1>1. job' = job /\ platform' = platform /\ disturbed' \in [Run -> BOOLEAN]
  BY Alone
<1>2. pc' \in [Run -> {"idle"} \cup Call \cup Ended]
  <2> USE DEF TypeOK, Call, Ended
  <2>1. CASE Begin(r)
    BY <2>1 DEF Begin
  <2>2. CASE CallFails(r)
    BY <2>2 DEF CallFails
  <2>3. CASE FindClient(r)
    BY <2>3 DEF FindClient, AfterFindClient, Answer
  <2>4. CASE FindScope(r)
    BY <2>4 DEF FindScope, AfterFindScope, Answer
  <2>5. CASE Register(r)
    BY <2>5 DEF Register, CreateClient, CreateClientConflict, RequireClient, ReadDrift,
                ReadSecret, CreateScope, CreateScopeConflict, RequireScope, AddMapper,
                LinkRealm, LinkClient, LinkPlatform, AfterClient, Answer, Refuse
  <2>6. CASE Unregister(r)
    BY <2>6 DEF Unregister, UnlinkRealm, UnlinkPlatform, DropScope, DropClient, Answer, Refuse
  <2>7. CASE FindPlatform(r)
    BY <2>7 DEF FindPlatform, AfterFindPlatform, Answer
  <2> QED  BY <2>1, <2>2, <2>3, <2>4, <2>5, <2>6, <2>7 DEF Step
<1>3. held' \in [Run -> Held]
  <2> USE MaxObjectAssumption DEF TypeOK
  <2>1. CASE FindClient(r)
    <3> DEFINE h == [held[r] EXCEPT !.client = client.id, !.existed = client.id # 0]
    <3>1. (client.id # 0) \in BOOLEAN
      OBVIOUS
    <3>2. held[r] \in Held /\ client.id \in ObjectId
      OBVIOUS
    <3>3. h \in Held
      BY <3>1, <3>2, Learns
    <3>4. held' = [held EXCEPT ![r] = h]
      BY <2>1 DEF FindClient
    <3> QED  BY <3>3, <3>4
  <2>2. CASE FindScope(r)
    BY <2>2, JobType DEF FindScope, Held
  <2>3. CASE CreateClient(r)
    BY <2>3 DEF CreateClient, Held
  <2>4. CASE RequireClient(r)
    BY <2>4 DEF RequireClient, Held
  <2>5. CASE ReadDrift(r)
    <3> DEFINE h == [held[r] EXCEPT !.drift = client.auth # job[r].auth]
    <3>1. (client.auth # job[r].auth) \in BOOLEAN
      OBVIOUS
    <3>2. held[r] \in Held /\ client.id \in ObjectId
      OBVIOUS
    <3>3. h \in Held
      BY <3>1, <3>2, Learns
    <3>4. held' = [held EXCEPT ![r] = h] \/ UNCHANGED held
      BY <2>5 DEF ReadDrift
    <3> QED  BY <3>3, <3>4
  <2>6. CASE CreateScope(r)
    BY <2>6 DEF CreateScope, Held
  <2>7. CASE RequireScope(r)
    BY <2>7, JobType DEF RequireScope, Held
  <2>8. CASE UNCHANGED held
    BY <2>8
  <2>9. \/ FindClient(r) \/ FindScope(r) \/ CreateClient(r) \/ RequireClient(r) \/ ReadDrift(r)
        \/ CreateScope(r) \/ RequireScope(r) \/ UNCHANGED held
    BY DEF Step, FindPlatform, Register, Unregister, Begin, CallFails, CreateClientConflict, ReadSecret,
           CreateScopeConflict, AddMapper, LinkRealm, LinkClient, LinkPlatform,
           UnlinkRealm, UnlinkPlatform, DropScope, DropClient
  <2> QED  BY <2>1, <2>2, <2>3, <2>4, <2>5, <2>6, <2>7, <2>8, <2>9
<1>4. /\ client' \in [id : ObjectId, auth : AuthType]
      /\ scope' \in [Workload -> ObjectId]
      /\ created' \in ObjectId
  <2> USE MaxObjectAssumption DEF TypeOK
  <2>1. CASE CreateClient(r)
    BY <2>1, JobType DEF CreateClient
  <2>2. CASE CreateScope(r)
    BY <2>2, JobType DEF CreateScope
  <2>3. CASE DropScope(r)
    BY <2>3 DEF DropScope
  <2>4. CASE DropClient(r)
    BY <2>4 DEF DropClient
  <2>5. CASE UNCHANGED <<client, scope, created>>
    BY <2>5
  <2>6. \/ CreateClient(r) \/ CreateScope(r) \/ DropScope(r) \/ DropClient(r)
        \/ UNCHANGED <<client, scope, created>>
    BY DEF Step, FindPlatform, Register, Unregister, Begin, CallFails, FindClient, FindScope,
           CreateClientConflict, RequireClient, ReadDrift, ReadSecret, CreateScopeConflict,
           RequireScope, AddMapper, LinkRealm, LinkClient, LinkPlatform, UnlinkRealm,
           UnlinkPlatform, realm
  <2> QED  BY <2>1, <2>2, <2>3, <2>4, <2>5, <2>6
<1>5. /\ mapped' \subseteq 1 .. MaxObject
      /\ defaults' \subseteq 1 .. MaxObject
  <2> USE MaxObjectAssumption DEF TypeOK
  <2>1. CASE AddMapper(r)
    BY <2>1, HeldType DEF AddMapper
  <2>2. CASE LinkRealm(r)
    BY <2>2, HeldType DEF LinkRealm
  <2>3. CASE mapped' \subseteq mapped /\ defaults' \subseteq defaults
    BY <2>3
  <2>4. \/ AddMapper(r) \/ LinkRealm(r)
        \/ mapped' \subseteq mapped /\ defaults' \subseteq defaults
    BY DEF Step, FindPlatform, Register, Unregister, Begin, CallFails, FindClient, FindScope,
           CreateClient, CreateClientConflict, RequireClient, ReadDrift, ReadSecret,
           CreateScope, CreateScopeConflict, RequireScope, LinkClient, LinkPlatform,
           UnlinkRealm, UnlinkPlatform, DropScope, DropClient, realm
  <2> QED  BY <2>1, <2>2, <2>3, <2>4
<1>6. attached' \subseteq (1 .. MaxObject) \X (1 .. MaxObject)
  <2> USE MaxObjectAssumption DEF TypeOK
  <2>1. CASE CreateClient(r)
    BY <2>1 DEF CreateClient
  <2>2. CASE LinkClient(r)
    BY <2>2, HeldType DEF LinkClient
  <2>3. CASE LinkPlatform(r)
    BY <2>3, HeldType DEF LinkPlatform, Stages
  <2>4. CASE attached' \subseteq attached
    BY <2>4
  <2>5. CreateClient(r) \/ LinkClient(r) \/ LinkPlatform(r) \/ attached' \subseteq attached
    BY DEF Step, FindPlatform, Register, Unregister, Begin, CallFails, FindClient, FindScope,
           CreateClientConflict, RequireClient, ReadDrift, ReadSecret, CreateScope,
           CreateScopeConflict, RequireScope, AddMapper, LinkRealm, UnlinkRealm,
           UnlinkPlatform, DropScope, DropClient, realm
  <2> QED  BY <2>1, <2>2, <2>3, <2>4, <2>5
<1> QED  BY <1>1, <1>2, <1>3, <1>4, <1>5, <1>6 DEF TypeOK

\* The calls that change the scopes, or what a run knows of them.
LEMMA ScopeCalls ==
  ASSUME NEW r \in Run, Step(r)
  PROVE  \/ CreateScope(r) \/ FindScope(r) \/ RequireScope(r) \/ DropScope(r)
         \/ /\ scope' = scope
            /\ held' # held => CreateClient(r) \/ FindClient(r) \/ RequireClient(r) \/ ReadDrift(r)
BY DEF Step, FindPlatform, Register, Unregister, Begin, CallFails, CreateClientConflict, CreateClient,
       FindClient, RequireClient, ReadDrift, ReadSecret, CreateScopeConflict, AddMapper,
       LinkRealm, LinkClient, LinkPlatform, UnlinkRealm, UnlinkPlatform, DropClient, realm

\* The calls that change the client, or number something new.
LEMMA ClientCalls ==
  ASSUME NEW r \in Run, Step(r)
  PROVE  \/ CreateClient(r) \/ DropClient(r)
         \/ /\ client' = client
            /\ created' # created => CreateScope(r)
BY DEF Step, FindPlatform, Register, Unregister, Begin, CallFails, CreateClientConflict, CreateScope,
       FindClient, FindScope, RequireClient, ReadDrift, ReadSecret, CreateScopeConflict,
       RequireScope, AddMapper, LinkRealm, LinkClient, LinkPlatform, UnlinkRealm,
       UnlinkPlatform, DropScope, realm

\* The lookups of the client leave alone what the runs know of the scopes.
LEMMA ScopeKept ==
  ASSUME TypeOK, NEW r \in Run, Step(r),
         CreateClient(r) \/ FindClient(r) \/ RequireClient(r) \/ ReadDrift(r)
  PROVE  \A q \in Run : held'[q].scope = held[q].scope
BY DEF TypeOK, Held, CreateClient, FindClient, RequireClient, ReadDrift

\* No other call changes what the runs know of the client.
LEMMA ClientKept ==
  ASSUME TypeOK, NEW r \in Run, Step(r),
         ~FindClient(r), ~CreateClient(r), ~RequireClient(r)
  PROVE  \A q \in Run : held'[q].client = held[q].client
<1> USE DEF TypeOK, Held
<1>1. CASE FindScope(r)
  BY <1>1 DEF FindScope
<1>2. CASE ReadDrift(r)
  BY <1>2 DEF ReadDrift
<1>3. CASE CreateScope(r)
  BY <1>3 DEF CreateScope
<1>4. CASE RequireScope(r)
  BY <1>4 DEF RequireScope
<1>5. CASE UNCHANGED held
  BY <1>5
<1>6. FindScope(r) \/ ReadDrift(r) \/ CreateScope(r) \/ RequireScope(r) \/ UNCHANGED held
  BY DEF Step, FindPlatform, Register, Unregister, Begin, CallFails, CreateClientConflict, ReadSecret,
         CreateScopeConflict, AddMapper, LinkRealm, LinkClient, LinkPlatform, UnlinkRealm,
         UnlinkPlatform, DropScope, DropClient
<1> QED  BY <1>1, <1>2, <1>3, <1>4, <1>5, <1>6

\* No step gives an id twice, or lets a run know the scope of a workload that
\* is not its own.
LEMMA IdsStep ==
  ASSUME TypeOK, Ids, Stages, NEW r \in Run, Step(r)
  PROVE  Ids'
<1> USE JobType, HeldType, Alone
<1>3. created \in Nat /\ created' \in Nat
  BY TypeStep DEF TypeOK
<1>1. created' >= created /\ (client'.id # 0 => client'.id > 1)
  <2> USE DEF TypeOK, Ids
  <2>1. CASE CreateClient(r)
    BY <2>1 DEF CreateClient
  <2>2. CASE DropClient(r)
    BY <2>2 DEF DropClient
  <2>3. CASE client' = client /\ (created' # created => CreateScope(r))
    BY <2>3 DEF CreateScope
  <2> QED  BY <2>1, <2>2, <2>3, ClientCalls
<1>2. /\ \A w \in Workload : scope'[w] <= created'
      /\ \A q \in Run : held'[q].scope <= created'
      /\ \A w, v \in Workload : scope'[w] # 0 /\ scope'[w] = scope'[v] => w = v
      /\ \A q \in Run, w \in Workload :
           scope'[w] # 0 /\ scope'[w] = held'[q].scope => w = job[q].workload
  <2> USE DEF Ids
  <2>1. CASE CreateScope(r)
    BY <2>1 DEF CreateScope, TypeOK, Held
  <2>2. CASE FindScope(r)
    BY <2>2, <1>1 DEF FindScope, TypeOK, Held, realm
  <2>3. CASE RequireScope(r)
    BY <2>3, <1>1 DEF RequireScope, TypeOK, Held, realm
  <2>4. CASE DropScope(r)
    BY <2>4 DEF DropScope, TypeOK
  <2>5. CASE /\ scope' = scope
             /\ held' # held => CreateClient(r) \/ FindClient(r) \/ RequireClient(r) \/ ReadDrift(r)
    <3>1. \A q \in Run : held'[q].scope = held[q].scope
      BY <2>5, ScopeKept
    <3> QED  BY <2>5, <3>1, <1>1, <1>3 DEF TypeOK
  <2> QED  BY <2>1, <2>2, <2>3, <2>4, <2>5, ScopeCalls
<1>4. \A q \in Run : held'[q].client # 1
  <2> USE DEF TypeOK, Held, Ids
  <2>1. CASE FindClient(r)
    BY <2>1 DEF FindClient
  <2>2. CASE CreateClient(r)
    BY <2>2 DEF CreateClient
  <2>3. CASE RequireClient(r)
    BY <2>3 DEF RequireClient
  <2>4. CASE ~FindClient(r) /\ ~CreateClient(r) /\ ~RequireClient(r)
    BY <2>4, ClientKept
  <2> QED  BY <2>1, <2>2, <2>3, <2>4
<1> QED  BY <1>1, <1>2, <1>3, <1>4 DEF Ids

\* What follows a lookup, case by case.
LEMMA AfterLookups ==
  ASSUME NEW r \in Run
  PROVE  /\ Registers(r) /\ client.id = 0 => AfterFindClient(r) = "createClient"
         /\ Registers(r) /\ client.id # 0 => AfterFindClient(r) = "readDrift"
         /\ Registers(r) /\ Scope(r) = 0 => AfterFindScope(r) = "createScope"
         /\ Registers(r) /\ Scope(r) # 0 => AfterFindScope(r) = "linkRealm"
         /\ ~Registers(r) /\ client.id # 0 /\ job[r].force => AfterFindClient(r) = "dropClient"
         /\ ~Registers(r) /\ ~(client.id # 0 /\ job[r].force) => AfterFindClient(r) = "done"
         /\ ~Registers(r) /\ Scope(r) # 0 => AfterFindScope(r) = "unlinkRealm"
         /\ ~Registers(r) /\ Scope(r) = 0 => AfterFindScope(r) = "findClient"
         /\ Registers(r) /\ platform # 0 => AfterFindPlatform(r) = "linkPlatform"
         /\ Registers(r) /\ platform = 0 => AfterFindPlatform(r) = "done"
         /\ ~Registers(r) /\ platform # 0 => AfterFindPlatform(r) = "unlinkPlatform"
         /\ ~Registers(r) /\ platform = 0 => AfterFindPlatform(r) = "dropScope"
<1>1. ASSUME Registers(r), client.id = 0 PROVE AfterFindClient(r) = "createClient"
  BY <1>1 DEF AfterFindClient
<1>2. ASSUME Registers(r), client.id # 0 PROVE AfterFindClient(r) = "readDrift"
  BY <1>2 DEF AfterFindClient
<1>3. ASSUME Registers(r), Scope(r) = 0 PROVE AfterFindScope(r) = "createScope"
  BY <1>3 DEF AfterFindScope
<1>4. ASSUME Registers(r), Scope(r) # 0 PROVE AfterFindScope(r) = "linkRealm"
  BY <1>4 DEF AfterFindScope
<1>5. ASSUME ~Registers(r), client.id # 0, job[r].force PROVE AfterFindClient(r) = "dropClient"
  BY <1>5 DEF AfterFindClient
<1>6. ASSUME ~Registers(r), ~(client.id # 0 /\ job[r].force) PROVE AfterFindClient(r) = "done"
  BY <1>6 DEF AfterFindClient
<1>7. ASSUME ~Registers(r), Scope(r) # 0 PROVE AfterFindScope(r) = "unlinkRealm"
  BY <1>7 DEF AfterFindScope
<1>8. ASSUME ~Registers(r), Scope(r) = 0 PROVE AfterFindScope(r) = "findClient"
  BY <1>8 DEF AfterFindScope
<1>9. ASSUME Registers(r), platform # 0 PROVE AfterFindPlatform(r) = "linkPlatform"
  BY <1>9 DEF AfterFindPlatform
<1>10. ASSUME Registers(r), platform = 0 PROVE AfterFindPlatform(r) = "done"
  BY <1>10 DEF AfterFindPlatform
<1>11. ASSUME ~Registers(r), platform # 0 PROVE AfterFindPlatform(r) = "unlinkPlatform"
  BY <1>11 DEF AfterFindPlatform
<1>12. ASSUME ~Registers(r), platform = 0 PROVE AfterFindPlatform(r) = "dropScope"
  BY <1>12 DEF AfterFindPlatform
<1> QED
  BY <1>1, <1>2, <1>3, <1>4, <1>5, <1>6, <1>7, <1>8, <1>9, <1>10, <1>11, <1>12

\* No command comes to a call that is not its own.
LEMMA StagesStep ==
  ASSUME TypeOK, Stages, NEW r \in Run, Step(r)
  PROVE  Stages'
<1> USE DEF TypeOK, Stages, RegisterCall, UnregisterCall
<1>1. /\ pc'[r] \in RegisterCall => Registers(r)
      /\ pc'[r] \in UnregisterCall => ~Registers(r)
      /\ pc'[r] \in {"linkPlatform", "unlinkPlatform"} => platform # 0
  <2>1. CASE Begin(r)
    BY <2>1 DEF Begin
  <2>2. CASE CallFails(r)
    BY <2>2 DEF CallFails
  <2>3. CASE FindClient(r)
    BY <2>3, AfterLookups, Answered DEF FindClient
  <2>4. CASE FindScope(r)
    BY <2>4, AfterLookups, Answered DEF FindScope
  <2>5. CASE Register(r)
    BY <2>5 DEF Register, CreateClient, CreateClientConflict, RequireClient, ReadDrift,
                ReadSecret, CreateScope, CreateScopeConflict, RequireScope, AddMapper,
                LinkRealm, LinkClient, LinkPlatform, AfterClient, Answer, Refuse
  <2>6. CASE Unregister(r)
    BY <2>6 DEF Unregister, UnlinkRealm, UnlinkPlatform, DropScope, DropClient, Answer, Refuse
  <2>7. CASE FindPlatform(r)
    BY <2>7, AfterLookups, Answered DEF FindPlatform
  <2> QED  BY <2>1, <2>2, <2>3, <2>4, <2>5, <2>6, <2>7 DEF Step
<1> QED  BY <1>1, Alone

-----------------------------------------------------------------------------
(* What others can do.                                                     *)

\* A registration that another run's step does not disturb keeps its client,
\* its scope, and its links; an unregistration never gets back what is gone.
LEMMA ByOthers ==
  ASSUME TypeOK, Ids, Stages, NEW r \in Run, NEW q \in Run \ {r}, Step(q),
         pc[r] # "idle", ~disturbed'[r]
  PROVE  /\ Registers(r) =>
              /\ client.id # 0 => client' = client
              /\ Scope(r) # 0 =>
                   /\ scope'[job[r].workload] = Scope(r)
                   /\ Scope(r) \in defaults => Scope(r) \in defaults'
                   /\ \A i : <<i, Scope(r)>> \in attached /\ client' = client
                               => <<i, Scope(r)>> \in attached'
         /\ ~Registers(r) =>
              /\ client'.id \in {client.id, 0}
              /\ scope'[job[r].workload] \in {Scope(r), 0}
              /\ held[r].scope \notin defaults => held[r].scope \notin defaults'
              /\ <<platform, held[r].scope>> \notin attached
                   => <<platform, held[r].scope>> \notin attached'
<1> USE Alone, JobType, HeldType
<1>1. CASE CreateClient(q)
  BY <1>1 DEF CreateClient, Disturb, TypeOK, Ids, Stages, RegisterCall
<1>2. CASE CreateScope(q)
  BY <1>2 DEF CreateScope, Disturb, SameWorkload, TypeOK, Stages, RegisterCall
<1>3. CASE LinkRealm(q)
  BY <1>3 DEF LinkRealm, Disturb, SameWorkload, TypeOK, Ids, Stages, RegisterCall
<1>4. CASE LinkClient(q)
  BY <1>4 DEF LinkClient, TypeOK, Ids, Stages, RegisterCall
<1>5. CASE LinkPlatform(q)
  BY <1>5 DEF LinkPlatform, Disturb, SameWorkload, TypeOK, Ids, Stages, RegisterCall
<1>6. CASE UnlinkRealm(q)
  <2>1. CASE Registers(r)
    <3>1. job[q].workload # job[r].workload
      BY <1>6, <2>1 DEF UnlinkRealm, Disturb, SameWorkload, TypeOK, Stages, UnregisterCall
    <3>2. Scope(r) # 0 => Scope(r) # held[q].scope
      BY <3>1 DEF Ids
    <3> QED  BY <1>6, <2>1, <3>2 DEF UnlinkRealm, TypeOK
  <2>2. CASE ~Registers(r)
    BY <1>6, <2>2 DEF UnlinkRealm, TypeOK
  <2> QED  BY <2>1, <2>2
<1>7. CASE UnlinkPlatform(q)
  <2>1. CASE Registers(r)
    <3>1. job[q].workload # job[r].workload
      BY <1>7, <2>1 DEF UnlinkPlatform, Disturb, SameWorkload, TypeOK, Stages, UnregisterCall
    <3>2. Scope(r) # 0 => Scope(r) # held[q].scope
      BY <3>1 DEF Ids
    <3> QED  BY <1>7, <2>1, <3>2 DEF UnlinkPlatform, TypeOK
  <2>2. CASE ~Registers(r)
    BY <1>7, <2>2 DEF UnlinkPlatform, TypeOK
  <2> QED  BY <2>1, <2>2
<1>8. CASE DropScope(q)
  <2>1. CASE Registers(r)
    <3>1. job[q].workload # job[r].workload
      BY <1>8, <2>1 DEF DropScope, Disturb, SameWorkload, TypeOK, Stages, UnregisterCall
    <3>2. Scope(r) # 0 => Scope(r) # held[q].scope
      BY <3>1 DEF Ids
    <3> QED  BY <1>8, <2>1, <3>2 DEF DropScope, TypeOK
  <2>2. CASE ~Registers(r)
    BY <1>8, <2>2 DEF DropScope, TypeOK
  <2> QED  BY <2>1, <2>2
<1>9. CASE DropClient(q)
  BY <1>9 DEF DropClient, Disturb, TypeOK, Stages, UnregisterCall
<1>10. CASE UNCHANGED <<client, scope, defaults, attached>>
  BY <1>10
<1>11. \/ CreateClient(q) \/ CreateScope(q) \/ LinkRealm(q) \/ LinkClient(q) \/ LinkPlatform(q)
       \/ UnlinkRealm(q) \/ UnlinkPlatform(q) \/ DropScope(q) \/ DropClient(q)
       \/ UNCHANGED <<client, scope, defaults, attached>>
  BY DEF Step, FindPlatform, Register, Unregister, Begin, CallFails, FindClient, FindScope,
         CreateClientConflict, RequireClient, ReadDrift, ReadSecret, CreateScopeConflict,
         RequireScope, AddMapper, realm
<1> QED
  BY <1>1, <1>2, <1>3, <1>4, <1>5, <1>6, <1>7, <1>8, <1>9, <1>10, <1>11

\* A run that another run's step does not disturb has achieved no less after it.
LEMMA OthersProgress ==
  ASSUME IInv, NEW r \in Run, NEW q \in Run \ {r}, Step(q), ~disturbed'[r]
  PROVE  IF Registers(r) THEN Registering(r)' ELSE Unregistering(r)'
<1>1. /\ pc'[r] = pc[r] /\ held'[r] = held[r] /\ job' = job /\ platform' = platform
      /\ ~disturbed[r]
  BY Alone DEF IInv
<1>2. CASE pc[r] = "idle"
  BY <1>1, <1>2 DEF Registering, Unregistering, HasClient, HasScope
<1>3. CASE pc[r] # "idle"
  <2>1. CASE Registers(r)
    <3>1. /\ client.id # 0 => client' = client
          /\ Scope(r) # 0 =>
               /\ scope'[job[r].workload] = Scope(r)
               /\ Scope(r) \in defaults => Scope(r) \in defaults'
               /\ \A i : <<i, Scope(r)>> \in attached /\ client' = client
                           => <<i, Scope(r)>> \in attached'
      BY <1>1, <1>3, <2>1, ByOthers DEF IInv
    <3>2. Registering(r)
      BY <1>1, <2>1 DEF IInv, Progress
    <3> QED
      BY <1>1, <2>1, <3>1, <3>2 DEF Registering, HasClient, HasScope
  <2>2. CASE ~Registers(r)
    <3>1. /\ client'.id \in {client.id, 0}
          /\ scope'[job[r].workload] \in {Scope(r), 0}
          /\ held[r].scope \notin defaults => held[r].scope \notin defaults'
          /\ <<platform, held[r].scope>> \notin attached
               => <<platform, held[r].scope>> \notin attached'
      BY <1>1, <1>3, <2>2, ByOthers DEF IInv
    <3>2. Unregistering(r)
      BY <1>1, <2>2 DEF IInv, Progress
    <3> QED
      BY <1>1, <2>2, <3>1, <3>2 DEF Unregistering
  <2> QED  BY <2>1, <2>2
<1> QED  BY <1>2, <1>3

-----------------------------------------------------------------------------
(* What a run does for itself.                                             *)

\* A registration's own step takes it from one stage to the next.
LEMMA OwnRegistering ==
  ASSUME IInv, NEW r \in Run, Step(r), Registers(r), ~disturbed[r]
  PROVE  Registering(r)'
<1>1. TypeOK /\ Stages /\ Registering(r) /\ job' = job /\ platform' = platform
  BY Alone DEF IInv, Progress
<1> USE <1>1, JobType, HeldType, Answered DEF HasClient, HasScope
<1>2. CASE Begin(r)
  BY <1>2 DEF Begin, Registering, TypeOK, realm
<1>3. CASE CallFails(r)
  BY <1>3 DEF CallFails, Registering, TypeOK, realm
<1>4. CASE FindClient(r)
  <2>1. pc'[r] \in {"failed", "createClient", "readDrift"} /\ (client.id = 0 => pc'[r] # "readDrift")
        /\ (client.id # 0 => pc'[r] # "createClient")
    BY <1>4, AfterLookups DEF FindClient
  <2>2. held'[r].client = client.id /\ (held'[r].existed <=> client.id # 0)
    BY <1>4 DEF FindClient, TypeOK, Held
  <2> QED  BY <1>4, <2>1, <2>2 DEF FindClient, Registering, realm
<1>5. CASE FindScope(r)
  <2>1. pc'[r] \in {"failed", "createScope", "linkRealm"} /\ (Scope(r) = 0 => pc'[r] # "linkRealm")
    BY <1>5, AfterLookups DEF FindScope
  <2>2. held'[r] = [held[r] EXCEPT !.scope = Scope(r)]
    BY <1>5 DEF FindScope, TypeOK
  <2> QED  BY <1>5, <2>1, <2>2 DEF FindScope, Registering, TypeOK, Held, realm
<1>6. CASE CreateClient(r)
  BY <1>6 DEF CreateClient, AfterClient, Registering, TypeOK, Held, AuthType
<1>7. CASE CreateClientConflict(r)
  BY <1>7 DEF CreateClientConflict, Registering, TypeOK, realm
<1>8. CASE RequireClient(r)
  BY <1>8 DEF RequireClient, AfterClient, Refuse, Registering, TypeOK, Held, realm
<1>9. CASE ReadDrift(r)
  BY <1>9 DEF ReadDrift, AfterClient, Refuse, Registering, TypeOK, Held, realm
<1>10. CASE ReadSecret(r)
  BY <1>10 DEF ReadSecret, Refuse, Registering, TypeOK, realm
<1>11. CASE CreateScope(r)
  <2>1. /\ Scope(r)' = created' /\ created' # 0 /\ client' = client
        /\ At(r, "createScope")
    BY <1>11 DEF CreateScope, TypeOK
  <2>2. \/ held' = [held EXCEPT ![r].scope = created'] /\ Answer(r, "addMapper")
        \/ held' = held /\ Answer(r, "requireScope")
    BY <1>11 DEF CreateScope
  <2>3. held[r] \in Held
    BY DEF TypeOK
  <2>4. CASE held' = [held EXCEPT ![r].scope = created'] /\ Answer(r, "addMapper")
    <3>1. /\ held'[r].client = held[r].client /\ held'[r].existed = held[r].existed
          /\ held'[r].drift = held[r].drift /\ held'[r].scope = created'
      BY <2>3, <2>4 DEF TypeOK, Held
    <3> QED  BY <2>1, <2>4, <3>1 DEF Registering
  <2>5. CASE held' = held /\ Answer(r, "requireScope")
    BY <2>1, <2>5 DEF Registering
  <2> QED  BY <2>2, <2>4, <2>5
<1>12. CASE CreateScopeConflict(r)
  BY <1>12 DEF CreateScopeConflict, Registering, TypeOK, realm
<1>13. CASE RequireScope(r)
  BY <1>13 DEF RequireScope, Refuse, Registering, TypeOK, Held, realm
<1>14. CASE AddMapper(r)
  BY <1>14 DEF AddMapper, Refuse, Registering, TypeOK
<1>15. CASE LinkRealm(r)
  BY <1>15 DEF LinkRealm, Refuse, Registering, TypeOK
<1>16. CASE LinkClient(r)
  BY <1>16 DEF LinkClient, Refuse, Registering, TypeOK
<1>17. CASE LinkPlatform(r)
  BY <1>17 DEF LinkPlatform, Refuse, Registering, TypeOK
<1>18. CASE Unregister(r)
  BY <1>18 DEF Unregister, UnlinkRealm, UnlinkPlatform, DropScope, DropClient, Stages, UnregisterCall
<1>19. CASE FindPlatform(r)
  <2>1. pc'[r] \in {"failed", "linkPlatform", "done"} /\ (platform # 0 => pc'[r] # "done")
    BY <1>19, AfterLookups DEF FindPlatform
  <2> QED  BY <1>19, <2>1 DEF FindPlatform, Registering, realm
<1> QED
  BY <1>2, <1>3, <1>4, <1>5, <1>6, <1>7, <1>8, <1>9, <1>10, <1>11, <1>12, <1>13, <1>14,
     <1>15, <1>16, <1>17, <1>18, <1>19 DEF Step, Register

\* An unregistration's own step takes it from one stage to the next.
LEMMA OwnUnregistering ==
  ASSUME IInv, NEW r \in Run, Step(r), ~Registers(r), ~disturbed[r]
  PROVE  Unregistering(r)'
<1>1. TypeOK /\ Stages /\ Unregistering(r) /\ job' = job /\ platform' = platform
  BY Alone DEF IInv, Progress
<1> USE <1>1, JobType, HeldType, Answered
<1>2. CASE Begin(r)
  BY <1>2 DEF Begin, Unregistering, TypeOK, realm
<1>3. CASE CallFails(r)
  BY <1>3 DEF CallFails, Unregistering, TypeOK, realm
<1>4. CASE FindClient(r)
  <2>1. /\ pc'[r] \in {"failed", "dropClient", "done"}
        /\ pc'[r] = "done" /\ job[r].force => client.id = 0
    BY <1>4, AfterLookups DEF FindClient
  <2>2. held'[r].client = client.id
    BY <1>4 DEF FindClient, TypeOK, Held
  <2> QED  BY <1>4, <2>1, <2>2 DEF FindClient, Unregistering, realm
<1>5. CASE FindScope(r)
  <2>1. pc'[r] \in {"failed", "unlinkRealm", "findClient"} /\ (Scope(r) # 0 => pc'[r] # "findClient")
    BY <1>5, AfterLookups DEF FindScope
  <2>2. held'[r].scope = Scope(r)
    BY <1>5 DEF FindScope, TypeOK, Held
  <2> QED  BY <1>5, <2>1, <2>2 DEF FindScope, Unregistering, realm
<1>6. CASE Register(r)
  BY <1>6 DEF Register, CreateClient, CreateClientConflict, RequireClient, ReadDrift,
              ReadSecret, CreateScope, CreateScopeConflict, RequireScope, AddMapper,
              LinkRealm, LinkClient, LinkPlatform, Stages, RegisterCall
<1>7. CASE UnlinkRealm(r)
  BY <1>7 DEF UnlinkRealm, Unregistering, TypeOK
<1>8. CASE UnlinkPlatform(r)
  BY <1>8 DEF UnlinkPlatform, Unregistering, TypeOK
<1>9. CASE DropScope(r)
  BY <1>9 DEF DropScope, Unregistering, TypeOK
<1>10. CASE DropClient(r)
  BY <1>10 DEF DropClient, Unregistering, TypeOK
<1>11. CASE FindPlatform(r)
  <2>1. pc'[r] \in {"failed", "unlinkPlatform", "dropScope"} /\ (platform # 0 => pc'[r] # "dropScope")
    BY <1>11, AfterLookups DEF FindPlatform
  <2>2. <<0, held[r].scope>> \notin attached
    BY DEF TypeOK
  <2> QED  BY <1>11, <2>1, <2>2 DEF FindPlatform, Unregistering, realm
<1> QED
  BY <1>2, <1>3, <1>4, <1>5, <1>6, <1>7, <1>8, <1>9, <1>10, <1>11 DEF Step, Unregister

-----------------------------------------------------------------------------
(* The inductive invariant and the theorems.                               *)

\* The invariant holds at the start, ...
LEMMA InitInv == Init => IInv
<1> SUFFICES ASSUME Init PROVE IInv
  OBVIOUS
<1>1. TypeOK
  BY MaxObjectAssumption DEF Init, TypeOK, Held
<1>2. Ids /\ Stages /\ Progress
  BY MaxObjectAssumption
     DEF Init, Ids, Stages, Progress, Registering, Unregistering, HasClient, HasScope,
         RegisterCall, UnregisterCall
<1> QED  BY <1>1, <1>2 DEF IInv

\* ... every step keeps it, the run's own and everybody else's, ...
LEMMA StepInv == IInv /\ [Next]_vars => IInv'
<1>1. ASSUME IInv, NEW q \in Run, Step(q) PROVE IInv'
  <2>1. TypeOK' /\ Ids' /\ Stages'
    BY <1>1, TypeStep, IdsStep, StagesStep DEF IInv
  <2>2. Progress'
    <3> SUFFICES ASSUME NEW r \in Run, ~disturbed'[r]
                 PROVE  IF Registers(r) THEN Registering(r)' ELSE Unregistering(r)'
      BY <1>1, Alone DEF IInv, Progress
    <3>1. CASE r = q
      BY <1>1, <3>1, Alone, OwnRegistering, OwnUnregistering DEF IInv
    <3>2. CASE r # q
      BY <1>1, <3>2, OthersProgress
    <3> QED  BY <3>1, <3>2
  <2> QED  BY <2>1, <2>2 DEF IInv
<1>2. IInv /\ UNCHANGED vars => IInv'
  BY DEF IInv, TypeOK, Ids, Stages, Progress, Registering, Unregistering, vars, realm
<1> QED  BY <1>1, <1>2, StepCases

\* ... and so it holds throughout.
LEMMA Inductive == Spec => []IInv
<1> QED  BY InitInv, StepInv, PTL DEF Spec

\* Every variable of the registration model keeps its type.
THEOREM TypeCorrect == Spec => []TypeOK
<1>1. IInv => TypeOK
  BY DEF IInv
<1> QED  BY <1>1, Inductive, PTL

\* A registration that succeeded and was not undone is in the realm with the
\* ids it reports, whatever failed before and whoever registered beside it.
THEOREM RegisteredIsAlwaysAttached == Spec => []RegisteredIsAttached
<1>1. ASSUME IInv PROVE RegisteredIsAttached
  <2> SUFFICES ASSUME NEW r \in Run, At(r, "done"), Registers(r), ~disturbed[r]
               PROVE  /\ HeldClientLives(r)
                      /\ Scope(r) = held[r].scope /\ Scope(r) \in defaults
                      /\ {client.id, platform} \ {0}
                           \subseteq {l[1] : l \in {k \in attached : k[2] = Scope(r)}}
                      /\ held[r].existed /\ client.auth # job[r].auth => held[r].drift
    BY DEF RegisteredIsAttached, Finished, Registers
  <2>1. Registering(r)
    BY <1>1 DEF IInv, Progress
  <2>2. /\ HeldClientLives(r)
        /\ Scope(r) = held[r].scope /\ Scope(r) \in defaults
        /\ held[r].existed /\ client.auth # job[r].auth => held[r].drift
    BY <2>1 DEF Registering, HasClient, HasScope, At
  <2>3. \A o \in {client.id, platform} \ {0} : <<o, Scope(r)>> \in attached
    BY <2>1 DEF Registering, HasClient, HasScope, At
  <2>4. \A o : <<o, Scope(r)>> \in attached =>
               o \in {l[1] : l \in {k \in attached : k[2] = Scope(r)}}
    <3> TAKE o
    <3> HAVE <<o, Scope(r)>> \in attached
    <3> DEFINE l == <<o, Scope(r)>>
    <3>1. l \in {k \in attached : k[2] = Scope(r)} /\ l[1] = o
      OBVIOUS
    <3> HIDE DEF l
    <3> QED  BY <3>1
  <2> QED  BY <2>2, <2>3, <2>4
<1> QED  BY <1>1, Inductive, PTL

\* An unregistration that succeeded leaves no scope, and no client when it was
\* told to delete it, from whatever state it began in.
THEOREM UnregisterAlwaysConverges == Spec => []UnregisterConverges
<1>1. IInv => UnregisterConverges
  BY JobType DEF IInv, Progress, Unregistering, UnregisterConverges, Finished
<1> QED  BY <1>1, Inductive, PTL

\* Nothing that Unregister unlinks points at the scope it is about to delete.
THEOREM AlwaysUnlinkedBeforeDrop == Spec => []UnlinkedBeforeDrop
<1>1. IInv => UnlinkedBeforeDrop
  BY DEF IInv, Stages, UnregisterCall, Progress, Unregistering, UnlinkedBeforeDrop
<1> QED  BY <1>1, Inductive, PTL

\* No command is refused for what runs of the same command did, or what it
\* left undone itself.
THEOREM RepeatIsNeverRefused == Spec => []RepeatNeverRefused
<1>1. IInv => RepeatNeverRefused
  BY DEF IInv, Progress, Registering, Unregistering, RepeatNeverRefused
<1> QED  BY <1>1, Inductive, PTL

-----------------------------------------------------------------------------
(* What a step may never do.                                               *)

\* The run that acts is the one that takes the step.
LEMMA Actor ==
  ASSUME TypeOK, NEW r \in Run, Acts(r), Next
  PROVE  Step(r)
BY StepCases, Alone DEF Acts

\* Where a workload is completely registered, a registration's call changes
\* nothing: what it could create is there, and what it links is linked.
LEMMA NothingLeftToDo ==
  ASSUME TypeOK, Ids, Stages, NEW r \in Run, Step(r), Registers(r),
         Complete(job[r].workload)
  PROVE  UNCHANGED realm
<1> USE Alone, JobType, HeldType DEF TypeOK, Complete
<1>1. ASSUME HeldScopeLives(r)
      PROVE  /\ held[r].scope \in mapped
             /\ held[r].scope \in defaults
             /\ <<client.id, held[r].scope>> \in attached
             /\ platform # 0 => <<platform, held[r].scope>> \in attached
  <2>1. PICK w \in Workload : scope[w] # 0 /\ held[r].scope = scope[w]
    BY <1>1
  <2>2. w = job[r].workload
    BY <2>1 DEF Ids
  <2> QED  BY ONLY <2>1, <2>2, Complete(job[r].workload) DEF Complete
<1>2. CASE AddMapper(r)
  <2>1. \/ mapped' = mapped
        \/ mapped' = mapped \cup {held[r].scope} /\ HeldScopeLives(r)
    BY <1>2 DEF AddMapper
  <2>2. mapped' = mapped
    BY ONLY <1>1, <2>1
  <2> QED  BY <1>2, <2>2 DEF AddMapper, realm
<1>3. CASE LinkRealm(r)
  <2>1. \/ defaults' = defaults
        \/ defaults' = defaults \cup {held[r].scope} /\ HeldScopeLives(r)
    BY <1>3 DEF LinkRealm
  <2>2. defaults' = defaults
    BY ONLY <1>1, <2>1
  <2> QED  BY <1>3, <2>2 DEF LinkRealm, realm
<1>4. CASE LinkClient(r)
  <2>1. \/ attached' = attached
        \/ /\ attached' = attached \cup {<<held[r].client, held[r].scope>>}
           /\ HeldScopeLives(r) /\ held[r].client = client.id
    BY <1>4 DEF LinkClient
  <2>2. attached' = attached
    BY ONLY <1>1, <2>1
  <2> QED  BY <1>4, <2>2 DEF LinkClient, realm
<1>5. CASE LinkPlatform(r)
  <2>1. \/ attached' = attached
        \/ attached' = attached \cup {<<platform, held[r].scope>>} /\ HeldScopeLives(r)
    BY <1>5 DEF LinkPlatform
  <2>2. platform # 0
    BY <1>5 DEF LinkPlatform, Stages
  <2>3. attached' = attached
    BY ONLY <1>1, <2>1, <2>2
  <2> QED  BY <1>5, <2>3 DEF LinkPlatform, realm
<1>6. CASE Unregister(r)
  BY <1>6 DEF Unregister, UnlinkRealm, UnlinkPlatform, DropScope, DropClient, Stages, UnregisterCall
<1>7. CASE CreateClient(r) \/ CreateScope(r)
  BY <1>7 DEF CreateClient, CreateScope
<1>8. \/ AddMapper(r) \/ LinkRealm(r) \/ LinkClient(r) \/ LinkPlatform(r) \/ Unregister(r)
      \/ CreateClient(r) \/ CreateScope(r) \/ UNCHANGED realm
  BY DEF Step, FindPlatform, Register, Begin, CallFails, FindClient, FindScope, CreateClientConflict,
         RequireClient, ReadDrift, ReadSecret, CreateScopeConflict, RequireScope
<1> QED  BY <1>2, <1>3, <1>4, <1>5, <1>6, <1>7, <1>8

\* What a step leaves of a scope that is not the run's own.
LEMMA NotItsOwn ==
  ASSUME TypeOK, Ids, Stages, NEW r \in Run, Step(r),
         NEW w \in Workload \ {job[r].workload}
  PROVE  /\ scope'[w] = scope[w]
         /\ scope[w] # 0 =>
              /\ scope[w] \in mapped' <=> scope[w] \in mapped
              /\ scope[w] \in defaults' <=> scope[w] \in defaults
              /\ \A i \in {client.id, platform} \cap {client'.id, platform'} :
                   <<i, scope[w]>> \in attached' <=> <<i, scope[w]>> \in attached
<1> USE Alone, JobType, HeldType
<1>1. scope[w] # 0 => held[r].scope # scope[w]
  BY DEF Ids
<1>2. CASE CreateClient(r)
  BY <1>2 DEF CreateClient, TypeOK, Ids
<1>3. CASE CreateScope(r)
  BY <1>3 DEF CreateScope, TypeOK
<1>4. CASE AddMapper(r)
  BY <1>1, <1>4 DEF AddMapper
<1>5. CASE LinkRealm(r)
  BY <1>1, <1>5 DEF LinkRealm
<1>6. CASE LinkClient(r)
  BY <1>1, <1>6 DEF LinkClient
<1>7. CASE LinkPlatform(r)
  BY <1>1, <1>7 DEF LinkPlatform
<1>8. CASE UnlinkRealm(r)
  BY <1>1, <1>8 DEF UnlinkRealm
<1>9. CASE UnlinkPlatform(r)
  BY <1>1, <1>9 DEF UnlinkPlatform
<1>10. CASE DropScope(r)
  BY <1>1, <1>10 DEF DropScope, TypeOK
<1>11. CASE DropClient(r)
  <2>1. held[r].client # platform \/ platform = 0
    BY DEF Ids
  <2>2. \A i \in {client.id, platform} \cap {client'.id, platform'} :
          i # 0 => i # held[r].client
    BY <1>11, <2>1 DEF DropClient
  <2>3. \A i : <<i, scope[w]>> \in attached' <=> <<i, scope[w]>> \in attached /\ i # held[r].client
    BY <1>11 DEF DropClient
  <2>4. <<0, scope[w]>> \notin attached
    BY DEF TypeOK
  <2> QED  BY <1>11, <2>2, <2>3, <2>4 DEF DropClient
<1>12. CASE UNCHANGED realm
  BY <1>12 DEF realm
<1>13. \/ CreateClient(r) \/ CreateScope(r) \/ AddMapper(r) \/ LinkRealm(r) \/ LinkClient(r)
       \/ LinkPlatform(r) \/ UnlinkRealm(r) \/ UnlinkPlatform(r) \/ DropScope(r)
       \/ DropClient(r) \/ UNCHANGED realm
  BY DEF Step, FindPlatform, Register, Unregister, Begin, CallFails, FindClient, FindScope,
         CreateClientConflict, RequireClient, ReadDrift, ReadSecret, CreateScopeConflict,
         RequireScope
<1> QED
  BY <1>2, <1>3, <1>4, <1>5, <1>6, <1>7, <1>8, <1>9, <1>10, <1>11, <1>12, <1>13

\* Repeating a registration where everything is in place changes nothing,
\* whatever other runs do between its calls.
THEOREM RepeatAlwaysChangesNothing == Spec => RepeatChangesNothing
<1> DEFINE Nothing ==
      \A r \in Run : Acts(r) /\ Registers(r) /\ Complete(job[r].workload) => UNCHANGED realm
<1>1. IInv /\ [Next]_vars => [Nothing]_vars
  BY Actor, NothingLeftToDo DEF IInv
<1> QED  BY <1>1, Inductive, PTL DEF Spec, RepeatChangesNothing

\* A run never reaches the scope of a workload that is not its own, though all
\* of them share the client and some hold ids of objects long gone.
THEOREM SiblingsAlwaysUntouched == Spec => SiblingsUntouched
<1> DEFINE Untouched ==
      \A r \in Run : Acts(r) => \A w \in Workload \ {job[r].workload} :
        /\ scope'[w] = scope[w]
        /\ scope[w] # 0 =>
             /\ scope[w] \in mapped' <=> scope[w] \in mapped
             /\ scope[w] \in defaults' <=> scope[w] \in defaults
             /\ \A i \in {client.id, platform} \cap {client'.id, platform'} :
                  <<i, scope[w]>> \in attached' <=> <<i, scope[w]>> \in attached
<1>1. IInv /\ [Next]_vars => [Untouched]_vars
  <2> SUFFICES ASSUME IInv, Next PROVE Untouched
    OBVIOUS
  <2> TAKE r \in Run
  <2> HAVE Acts(r)
  <2>1. Step(r)
    BY Actor DEF IInv
  <2> TAKE w \in Workload \ {job[r].workload}
  <2> QED  BY ONLY <2>1, NotItsOwn, IInv, r \in Run, w \in Workload \ {job[r].workload} DEF IInv
<1> QED  BY <1>1, Inductive, PTL DEF Spec, SiblingsUntouched

=============================================================================
