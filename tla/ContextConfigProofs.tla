------------------------- MODULE ContextConfigProofs -------------------------
(* Theorems about ContextConfig, for any commands, names and servers.      *)
EXTENDS ContextConfig, TLAPS

\* What every copy of the config is, and what every operator on it keeps.
Sound(cfg) == cfg \in Config /\ Consistent(cfg)

\* A fresh context is a context.
LEMMA NewContextType == ASSUME NEW s \in Server PROVE NewContext(s) \in Context
BY DEF NewContext, Context

\* Upsert keeps a config sound and has the context it was given.
LEMMA UpsertSound ==
  ASSUME NEW cfg, Sound(cfg), NEW n \in Name, NEW ctx \in Context
  PROVE  /\ Sound(Upsert(cfg, n, ctx))
         /\ Has(Upsert(cfg, n, ctx), n)
         /\ \A m \in Name : Has(cfg, m) => Has(Upsert(cfg, n, ctx), m)
BY NoneAssumption, NameAssumption DEF Sound, Upsert, Config, Consistent, Has

\* SetCurrent keeps a config sound when it has the context.
LEMMA SetCurrentSound ==
  ASSUME NEW cfg, Sound(cfg), NEW n \in Name, Has(cfg, n)
  PROVE  /\ Sound(SetCurrent(cfg, n))
         /\ \A m \in Name : Has(cfg, m) => Has(SetCurrent(cfg, n), m)
BY NoneAssumption, NameAssumption DEF Sound, SetCurrent, Config, Consistent, Has

\* Deleting a context clears the reference to it.
LEMMA DeleteSound ==
  ASSUME NEW cfg, Sound(cfg), NEW n \in Name
  PROVE  Sound(Delete(cfg, n))
BY NoneAssumption, NameAssumption DEF Sound, Delete, Config, Consistent, Has

\* Renaming the current context takes the reference along.
LEMMA RenameSound ==
  ASSUME NEW cfg, Sound(cfg), NEW n \in Name, cfg.current # None
  PROVE  Sound(RenameCurrent(cfg, n))
<1>1. /\ cfg.current \in Name
      /\ cfg.contexts \in [Name -> Context \cup {None}]
      /\ cfg.contexts[cfg.current] \in Context
  BY DEF Sound, Config, Consistent, Has
<1>2. RenameCurrent(cfg, n).current = n
  BY DEF RenameCurrent, Sound, Config
<1>3. RenameCurrent(cfg, n).contexts =
        [cfg.contexts EXCEPT ![cfg.current] = None, ![n] = cfg.contexts[cfg.current]]
  BY DEF RenameCurrent, Sound, Config
<1>4. RenameCurrent(cfg, n) \in Config
  BY <1>1 DEF RenameCurrent, Sound, Config
<1>5. RenameCurrent(cfg, n).contexts[n] # None
  BY <1>1, <1>3, NoneAssumption
<1> QED  BY <1>2, <1>4, <1>5 DEF Sound, Consistent, Has

\* A seeded config is sound.
LEMMA SeededSound ==
  ASSUME NEW cfg, Sound(cfg), NEW s \in Server
  PROVE  Sound(Seeded(cfg, s))
<1> DEFINE one == Upsert(cfg, HostOf[s], NewContext(s))
           two == Upsert(one, Cortex, NewContext(CortexServer))
<1>1. HostOf[s] \in Name /\ Cortex \in Name /\ CortexServer \in Server
  BY NameAssumption
<1>2. Sound(one) /\ Has(one, HostOf[s])
  BY <1>1, NewContextType, UpsertSound
<1>3. Sound(two) /\ Has(two, HostOf[s])
  BY <1>1, <1>2, NewContextType, UpsertSound
<1> QED  BY <1>1, <1>3, SetCurrentSound DEF Seeded

\* Filling a namespace keeps a config sound.
LEMMA FilledSound ==
  ASSUME NEW cfg, Sound(cfg), NEW n \in Name, Has(cfg, n), NEW f \in Filled(cfg, n)
  PROVE  Sound(f)
<1>1. cfg.contexts[n] \in Context /\ cfg \in Config
  BY DEF Sound, Config, Has
<1>2. CASE f = cfg  BY <1>2
<1>3. CASE f = [cfg EXCEPT !.contexts[n].namespace = TRUE]
  <2>1. [cfg.contexts[n] EXCEPT !.namespace = TRUE] \in Context
    BY <1>1 DEF Context
  <2>2. f = Upsert(cfg, n, [cfg.contexts[n] EXCEPT !.namespace = TRUE])
    BY <1>1, <1>3 DEF Upsert, Config
  <2> QED  BY <2>1, <2>2, UpsertSound
<1> QED  BY <1>2, <1>3 DEF Filled

\* The cortex context is there once it is asked for.
LEMMA WithCortexSound ==
  ASSUME NEW cfg, Sound(cfg)
  PROVE  Sound(WithCortex(cfg)) /\ Has(WithCortex(cfg), Cortex)
BY NameAssumption, NewContextType, UpsertSound DEF WithCortex

\* A config that keeps the end of a longer one is sound.
LEMMA TailSound ==
  ASSUME NEW cfg, Sound(cfg), NEW old, Sound(old), NEW f \in WithTail(cfg, old)
  PROVE  Sound(f)
<1>1. PICK tail \in SUBSET {n \in Name : ~Has(cfg, n)} :
        f = [cfg EXCEPT !.contexts =
               [n \in Name |-> IF n \in tail THEN old.contexts[n] ELSE cfg.contexts[n]]]
  BY DEF WithTail
<1> DEFINE contexts == [n \in Name |-> IF n \in tail THEN old.contexts[n] ELSE cfg.contexts[n]]
<1>2. contexts \in [Name -> Context \cup {None}]
  BY DEF Sound, Config
<1>3. \A n \in Name : Has(cfg, n) => contexts[n] = cfg.contexts[n]
  BY <1>1
<1>4. cfg.current # None => cfg.current \in Name
  BY DEF Sound, Config
<1> HIDE DEF contexts
<1>5. f = [cfg EXCEPT !.contexts = contexts]
  BY <1>1 DEF contexts
<1>6. f \in Config /\ f.contexts = contexts /\ f.current = cfg.current
  BY <1>2, <1>5 DEF Sound, Config
<1> QED  BY <1>3, <1>4, <1>6 DEF Sound, Consistent, Has

\* What Load returns is sound: an empty config is, and the file is.
LEMMA ReadSound == ASSUME Sound(file.cfg) PROVE Sound(Read)
BY DEF Read, Sound, Empty, Config, Consistent

-----------------------------------------------------------------------------

\* A login that has chosen its context has it in its copy.
TargetHeld ==
  \A c \in Command : pc[c] \in {"authorize", "authOpen", "authWrite", "authSeeded", "store"} =>
    target[c] \in Name /\ Has(mem[c], target[c])

\* The inductive invariant.
Inv == TypeOK /\ CurrentExists /\ TargetHeld

\* Every copy and the file are sound.
LEMMA InvSound ==
  ASSUME Inv
  PROVE  Sound(file.cfg) /\ \A c \in Command : Sound(mem[c])
BY DEF Inv, TypeOK, CurrentExists, Sound

\* It holds at the start.
LEMMA InvInit == Init => Inv
<1> SUFFICES ASSUME Init PROVE Inv
  OBVIOUS
<1>1. Empty \in Config /\ Consistent(Empty)
  BY DEF Empty, Config, Consistent
<1>2. file \in [state : {"absent", "whole", "torn", "garbled"}, cfg : Config] /\ Consistent(file.cfg)
  BY <1>1, StartsAssumption DEF Init
<1>3. TypeOK
  BY <1>1, <1>2 DEF Init, TypeOK
<1>4. CurrentExists
  BY <1>1, <1>2 DEF Init, CurrentExists
<1>5. TargetHeld
  BY DEF Init, TargetHeld
<1> QED  BY <1>3, <1>4, <1>5 DEF Inv

\* Handing a sound config to Save keeps the invariant.
LEMMA SaveStep ==
  ASSUME Inv, NEW c \in Command, NEW cfg, Sound(cfg), Save(c, cfg)
  PROVE  Inv'
<1>1. TypeOK'
  BY DEF Inv, TypeOK, Save, Goto, Active, Sound
<1>2. CurrentExists'
  BY DEF Inv, TypeOK, CurrentExists, Save, Goto, Sound, Consistent, Has
<1>3. TargetHeld'
  BY DEF Inv, TypeOK, TargetHeld, Save, Goto, Has
<1> QED  BY <1>1, <1>2, <1>3 DEF Inv

\* So does stopping.
LEMMA StopStep ==
  ASSUME Inv, NEW c \in Command, NEW how \in Over, Stop(c, how)
  PROVE  Inv'
<1>1. TypeOK'
  BY DEF Inv, TypeOK, Stop, Goto, Over
<1>2. CurrentExists'
  BY DEF Inv, CurrentExists, Stop, Consistent, Has
<1>3. TargetHeld'
  BY DEF Inv, TypeOK, TargetHeld, Stop, Goto, Has, Over
<1> QED  BY <1>1, <1>2, <1>3 DEF Inv

\* And choosing a context the copy has.
LEMMA ChooseStep ==
  ASSUME Inv, NEW c \in Command, NEW cfg, Sound(cfg), NEW n \in Name, Has(cfg, n),
         Choose(c, cfg, n)
  PROVE  Inv'
<1>1. TypeOK'
  BY DEF Inv, TypeOK, Choose, Goto, Active, Sound
<1>2. CurrentExists'
  BY DEF Inv, TypeOK, CurrentExists, Choose, Goto, Sound, Consistent, Has
<1>3. TargetHeld'
  BY DEF Inv, TypeOK, TargetHeld, Choose, Goto, Has
<1> QED  BY <1>1, <1>2, <1>3 DEF Inv

\* The server a command seeds with is a server.
LEMMA SeedServerType == ASSUME Inv, NEW c \in Command PROVE SeedServer(c) \in Server
BY NameAssumption DEF Inv, TypeOK, Job, SeedServer

\* Load keeps the invariant.
LEMMA LoadStep ==
  ASSUME Inv, NEW c \in Command, Load(c)
  PROVE  Inv'
<1>1. Sound(Read) /\ Sound(Seeded(Read, SeedServer(c)))
  BY InvSound, ReadSound, SeedServerType, SeededSound
<1>2. PICK m : Sound(m) /\ mem' = [mem EXCEPT ![c] = m]
  <2>1. Sound(mem[c]) /\ mem = [mem EXCEPT ![c] = mem[c]]
    BY InvSound DEF Inv, TypeOK
  <2> QED  BY <1>1, <2>1 DEF Load
<1>3. PICK to \in {"seedOpen", "work", "failed"} : Goto(c, "idle", to)
  BY DEF Load
<1>4. /\ UNCHANGED <<file, job, target, issuer>>
      /\ disturbed' = [disturbed EXCEPT ![c] = (file.state = "torn")]
  BY DEF Load
<1>5. TypeOK'
  BY <1>2, <1>3, <1>4 DEF Inv, TypeOK, Goto, Active, Over, Sound
<1>6. CurrentExists'
  BY <1>2, <1>4 DEF Inv, TypeOK, CurrentExists, Sound, Consistent, Has
<1>7. TargetHeld'
  BY <1>2, <1>3, <1>4 DEF Inv, TypeOK, TargetHeld, Goto, Has
<1> QED  BY <1>5, <1>6, <1>7 DEF Inv

\* Truncating leaves every config as it is.
LEMMA TruncateStep ==
  ASSUME Inv, NEW c \in Command, Truncate(c)
  PROVE  Inv'
<1>1. PICK from \in {"seedOpen", "authOpen", "saveOpen"},
           to \in {"seedWrite", "authWrite", "saveWrite"} :
        Goto(c, from, to) /\ (to = "authWrite" => from = "authOpen")
  BY DEF Truncate
<1>2. /\ file' = [file EXCEPT !.state = "torn"]
      /\ disturbed' \in [Command -> BOOLEAN]
      /\ UNCHANGED <<job, mem, target, issuer>>
  BY DEF Truncate, DisturbOthers, Inv, TypeOK
<1>3. TypeOK'
  BY <1>1, <1>2 DEF Inv, TypeOK, Goto, Active
<1>4. CurrentExists'
  BY <1>2 DEF Inv, TypeOK, CurrentExists, Consistent, Has
<1>5. TargetHeld'
  BY <1>1, <1>2 DEF Inv, TypeOK, TargetHeld, Goto, Has
<1> QED  BY <1>3, <1>4, <1>5 DEF Inv

\* What is written is sound, whatever it is written over.
LEMMA WriteStep ==
  ASSUME Inv, NEW c \in Command, Write(c)
  PROVE  Inv'
<1>1. PICK from \in {"seedWrite", "authWrite", "saveWrite"},
           to \in {"work", "authSeeded", "done"} :
        Goto(c, from, to) /\ (to = "authSeeded" => from = "authWrite")
  BY DEF Write
<1>2. Sound(Empty)
  BY DEF Sound, Empty, Config, Consistent
<1>3. Sound(Content(c))
  BY <1>2, InvSound, SeedServerType, SeededSound DEF Content
<1>4. /\ disturbed' \in [Command -> BOOLEAN]
      /\ UNCHANGED <<job, mem, target, issuer>>
  BY DEF Write, DisturbOthers, Inv, TypeOK
<1>5. PICK cfg, state : /\ Sound(cfg) /\ state \in {"whole", "garbled"}
                        /\ file' = [state |-> state, cfg |-> cfg]
  <2>1. \A cfg \in WithTail(Content(c), file.cfg) : Sound(cfg)
    BY <1>3, InvSound, TailSound
  <2> QED  BY <1>3, <2>1 DEF Write
<1>6. TypeOK'
  <2>1. file' \in [state : {"absent", "whole", "torn", "garbled"}, cfg : Config]
    BY <1>5 DEF Sound
  <2> QED  BY <1>1, <1>4, <2>1 DEF Inv, TypeOK, Goto, Active, Over
<1>7. CurrentExists'
  BY <1>4, <1>5 DEF Inv, TypeOK, CurrentExists, Sound, Consistent, Has
<1>8. TargetHeld'
  BY <1>1, <1>4 DEF Inv, TypeOK, TargetHeld, Goto, Has
<1> QED  BY <1>6, <1>7, <1>8 DEF Inv

-----------------------------------------------------------------------------

\* What a command knows of its arguments and of its copy.
LEMMA WorkFacts ==
  ASSUME Inv, NEW c \in Command
  PROVE  /\ Sound(mem[c])
         /\ job[c].name \in Name
         /\ job[c].server \in Server
         /\ mem[c].current # None =>
              mem[c].current \in Name /\ Has(mem[c], mem[c].current)
BY InvSound DEF Inv, TypeOK, Job, Sound, Config, Consistent

\* Each config command saves a sound config.
LEMMA ConfigCommandStep ==
  ASSUME Inv, NEW c \in Command,
         \/ UseContext(c)
         \/ DeleteContext(c)
         \/ CreateContext(c)
         \/ RenameContext(c)
         \/ SetServer(c)
  PROVE  Inv'
<1> USE WorkFacts
<1>1. CASE UseContext(c)
  BY <1>1, SetCurrentSound, SaveStep, StopStep DEF UseContext, Over
<1>2. CASE DeleteContext(c)
  BY <1>2, DeleteSound, SaveStep, StopStep DEF DeleteContext, Over
<1>3. CASE CreateContext(c)
  <2>1. PICK ctx \in Context : Save(c, SetCurrent(Upsert(mem[c], job[c].name, ctx), job[c].name))
    BY <1>3 DEF CreateContext, Context
  <2> DEFINE cfg == Upsert(mem[c], job[c].name, ctx)
  <2>2. Sound(cfg) /\ Has(cfg, job[c].name)
    BY UpsertSound
  <2>3. Sound(SetCurrent(cfg, job[c].name))
    BY <2>2, SetCurrentSound
  <2> QED  BY <2>1, <2>3, SaveStep
<1>4. CASE RenameContext(c)
  <2>1. CASE NoCurrent(c)
    BY <1>4, <2>1, StopStep DEF RenameContext, Over
  <2>2. CASE ~NoCurrent(c) /\ job[c].name # mem[c].current /\ Has(mem[c], job[c].name)
    BY <1>4, <2>2, StopStep DEF RenameContext, Over
  <2>3. CASE ~NoCurrent(c) /\ ~(job[c].name # mem[c].current /\ Has(mem[c], job[c].name))
    <3>1. Save(c, RenameCurrent(mem[c], job[c].name))
      BY <1>4, <2>3 DEF RenameContext
    <3>2. Sound(RenameCurrent(mem[c], job[c].name))
      BY <2>3, RenameSound DEF NoCurrent
    <3> QED  BY <3>1, <3>2, SaveStep
  <2> QED  BY <2>1, <2>2, <2>3
<1>5. CASE SetServer(c)
  <2>1. CASE NoCurrent(c)
    BY <1>5, <2>1, StopStep DEF SetServer, Over
  <2>2. CASE ~NoCurrent(c)
    <3> DEFINE cur == mem[c].current
               ctx == [mem[c].contexts[cur] EXCEPT !.server = job[c].server]
               cfg == [mem[c] EXCEPT !.contexts[cur].server = job[c].server]
    <3>1. mem[c] \in Config /\ cur \in Name /\ mem[c].contexts[cur] \in Context
      BY <2>2 DEF NoCurrent, Sound, Config, Has
    <3>2. ctx \in Context
      BY <3>1 DEF Context
    <3>3. cfg = Upsert(mem[c], cur, ctx)
      BY <3>1 DEF Upsert, Config
    <3>4. Sound(cfg)
      BY <3>1, <3>2, <3>3, UpsertSound
    <3> QED  BY <1>5, <2>2, <3>4, SaveStep DEF SetServer
  <2> QED  BY <2>1, <2>2
<1> QED  BY <1>1, <1>2, <1>3, <1>4, <1>5

\* A token is put on a context the copy has.
LEMMA TokenSound ==
  ASSUME NEW cfg, Sound(cfg), NEW n \in Name, Has(cfg, n),
         NEW t \in Server \cup {None, Given},
         NEW f \in Filled(Upsert(cfg, n, [cfg.contexts[n] EXCEPT !.token = t]), n)
  PROVE  Sound(f)
<1>1. cfg.contexts[n] \in Context
  BY DEF Sound, Config, Has
<1>2. [cfg.contexts[n] EXCEPT !.token = t] \in Context
  BY <1>1 DEF Context
<1> QED  BY <1>2, UpsertSound, FilledSound

\* What login --server chooses is in the copy it makes.
LEMMA ServerChoiceSound ==
  ASSUME Inv, NEW c \in Command
  PROVE  /\ HostOf[job[c].server] \in Name
         /\ Sound(ServerChoice(c))
         /\ Has(ServerChoice(c), HostOf[job[c].server])
<1> USE WorkFacts
<1> DEFINE n == HostOf[job[c].server]
           new == Upsert(mem[c], n, NewContext(job[c].server))
           cfg == IF Has(mem[c], n) THEN mem[c] ELSE new
<1>1. n \in Name
  BY NameAssumption
<1>2. Sound(new) /\ Has(new, n)
  BY <1>1, NewContextType, UpsertSound
<1>3. Sound(cfg) /\ Has(cfg, n)
  BY <1>2
<1>4. Sound(SetCurrent(cfg, n)) /\ Has(SetCurrent(cfg, n), n)
  BY <1>1, <1>3, SetCurrentSound
<1> QED  BY <1>1, <1>4 DEF ServerChoice

\* A token that is given keeps the invariant.
LEMMA GivenTokenStep ==
  ASSUME Inv, NEW c \in Command, NEW cfg, Sound(cfg), NEW n \in Name, Has(cfg, n),
         GivenToken(c, cfg, n)
  PROVE  Inv'
<1>1. PICK f \in Filled(Upsert(cfg, n, [cfg.contexts[n] EXCEPT !.token = Given]), n) :
        Save(c, f)
  BY DEF GivenToken
<1>2. Sound(f)
  BY <1>1, TokenSound
<1> QED  BY <1>1, <1>2, SaveStep

\* So do the logins that need no server, and ensureCortexContext.
LEMMA LocalLoginStep ==
  ASSUME Inv, NEW c \in Command,
         \/ LoginWithToken(c)
         \/ LoginCortex(c)
         \/ EnsureCortex(c)
         \/ ResolveContext(c)
  PROVE  Inv'
<1> USE WorkFacts
<1> DEFINE with == WithCortex(mem[c])
<1>1. Sound(with) /\ Has(with, Cortex) /\ Cortex \in Name
  BY WithCortexSound, NameAssumption
<1>2. Sound(SetCurrent(with, Cortex)) /\ Has(SetCurrent(with, Cortex), Cortex)
  BY <1>1, SetCurrentSound
<1>3. \A cfg \in Filled(SetCurrent(with, Cortex), Cortex) \cup Filled(with, Cortex) : Sound(cfg)
  BY <1>1, <1>2, FilledSound
<1>4. CASE LoginWithToken(c)
  <2>1. CASE job[c].kind = "loginToken"
    BY <1>4, <2>1, GivenTokenStep, StopStep DEF LoginWithToken, NoCurrent, Over
  <2>2. CASE job[c].kind = "tokenServer"
    BY <1>4, <2>2, GivenTokenStep, ServerChoiceSound DEF LoginWithToken
  <2>3. CASE job[c].kind = "tokenContext"
    BY <1>4, <2>3, GivenTokenStep, StopStep DEF LoginWithToken, Over
  <2> QED  BY <1>4, <2>1, <2>2, <2>3 DEF LoginWithToken
<1>5. CASE LoginCortex(c)
  BY <1>3, <1>5, SaveStep DEF LoginCortex
<1>6. CASE EnsureCortex(c)
  BY <1>3, <1>6, SaveStep, StopStep DEF EnsureCortex, Over
<1>7. CASE ResolveContext(c)
  BY <1>7, StopStep DEF ResolveContext, Over
<1> QED  BY <1>4, <1>5, <1>6, <1>7

\* A login chooses a context its copy has.
LEMMA LoginChoiceStep ==
  ASSUME Inv, NEW c \in Command,
         LoginServer(c) \/ LoginContext(c) \/ LoginCurrent(c)
  PROVE  Inv'
<1> USE WorkFacts
<1>1. CASE LoginServer(c)
  BY <1>1, ServerChoiceSound, ChooseStep DEF LoginServer
<1>2. CASE LoginContext(c)
  BY <1>2, ChooseStep, StopStep DEF LoginContext, Over
<1>3. CASE LoginCurrent(c)
  BY <1>3, ChooseStep, StopStep DEF LoginCurrent, NoCurrent, Over
<1> QED  BY <1>1, <1>2, <1>3

\* The server the flow talks to comes from the file, from a flag, or from
\* the config that was just seeded.
LEMMA AuthorizeStep ==
  ASSUME Inv, NEW c \in Command, ReloadSeeds(c) \/ Authorize(c)
  PROVE  Inv'
<1>1. ASSUME NEW cfg, Sound(cfg) PROVE ResolvedServer(c, cfg) \in Server \cup {None}
  <2>1. \A n \in Name \cup {None} : ContextServer(cfg, n) \in Server \cup {None}
    BY <1>1 DEF ContextServer, Sound, Config, Context, Has
  <2> QED  BY <1>1, <2>1, WorkFacts DEF ResolvedServer, Sound, Config
<1>2. Sound(Read) /\ Sound(Seeded(Empty, SeedServer(c)))
  <2>1. Sound(Empty)
    BY DEF Sound, Empty, Config, Consistent
  <2> QED  BY <2>1, InvSound, ReadSound, SeedServerType, SeededSound
<1>3. PICK from \in {"authorize", "authSeeded"}, to \in {"authOpen", "store", "failed"} :
        Goto(c, from, to)
  BY DEF ReloadSeeds, Authorize, Ask
<1>4. issuer' \in [Command -> Server \cup {None}]
  BY <1>1, <1>2 DEF ReloadSeeds, Authorize, Ask, Inv, TypeOK
<1>5. UNCHANGED <<file, job, mem, target, disturbed>>
  BY DEF ReloadSeeds, Authorize
<1>6. TypeOK'
  BY <1>3, <1>4, <1>5 DEF Inv, TypeOK, Goto, Active, Over
<1>7. CurrentExists'
  BY <1>5 DEF Inv, CurrentExists, Consistent, Has
<1>8. TargetHeld'
  BY <1>3, <1>5 DEF Inv, TypeOK, TargetHeld, Goto, Has
<1> QED  BY <1>6, <1>7, <1>8 DEF Inv

\* Storing the token keeps the invariant.
LEMMA StoreTokenStep ==
  ASSUME Inv, NEW c \in Command, StoreToken(c)
  PROVE  Inv'
<1>1. target[c] \in Name /\ Has(mem[c], target[c]) /\ issuer[c] \in Server \cup {None, Given}
  BY DEF StoreToken, Goto, Inv, TargetHeld, TypeOK
<1>2. PICK cfg \in Filled(Upsert(mem[c], target[c],
                 [mem[c].contexts[target[c]] EXCEPT !.token = issuer[c]]), target[c]) :
        mem' = [mem EXCEPT ![c] = cfg]
  BY DEF StoreToken
<1>3. Sound(cfg)
  BY <1>1, InvSound, TokenSound
<1>4. Goto(c, "store", "saveOpen") /\ UNCHANGED <<file, job, target, issuer, disturbed>>
  BY DEF StoreToken
<1>5. TypeOK'
  BY <1>2, <1>3, <1>4 DEF Inv, TypeOK, Goto, Active, Sound
<1>6. CurrentExists'
  BY <1>2, <1>3, <1>4 DEF Inv, TypeOK, CurrentExists, Sound, Consistent, Has
<1>7. TargetHeld'
  BY <1>2, <1>4 DEF Inv, TypeOK, TargetHeld, Goto, Has
<1> QED  BY <1>5, <1>6, <1>7 DEF Inv

\* A failing command keeps it.
LEMMA FailsStep ==
  ASSUME Inv, NEW c \in Command, Fails(c)
  PROVE  Inv'
<1>1. TypeOK'
  BY DEF Inv, TypeOK, Fails, Over
<1>2. CurrentExists'
  BY DEF Inv, CurrentExists, Fails, Consistent, Has
<1>3. TargetHeld'
  BY DEF Inv, TypeOK, TargetHeld, Fails, Has
<1> QED  BY <1>1, <1>2, <1>3 DEF Inv

\* Every step keeps the invariant.
LEMMA InvNext == Inv /\ [Next]_vars => Inv'
<1> SUFFICES ASSUME Inv, [Next]_vars PROVE Inv'
  OBVIOUS
<1>1. CASE Next
  <2>1. PICK c \in Command :
          Load(c) \/ Truncate(c) \/ Write(c) \/ Work(c) \/ ReloadSeeds(c)
          \/ Authorize(c) \/ StoreToken(c) \/ Fails(c)
    BY <1>1 DEF Next
  <2>2. CASE Work(c)
    BY <2>2, ConfigCommandStep, LocalLoginStep, LoginChoiceStep DEF Work
  <2> QED  BY <2>1, <2>2, LoadStep, TruncateStep, WriteStep, AuthorizeStep,
              StoreTokenStep, FailsStep
<1>2. CASE UNCHANGED vars
  <2>1. UNCHANGED <<file, job, pc, mem, target, issuer, disturbed>>
    BY <1>2 DEF vars
  <2> QED  BY <2>1 DEF Inv, TypeOK, CurrentExists, TargetHeld, Consistent, Has
<1> QED  BY <1>1, <1>2

\* The invariant holds throughout.
LEMMA InvAlways == Spec => []Inv
BY InvInit, InvNext, PTL DEF Spec

-----------------------------------------------------------------------------

\* Every variable keeps its type, whatever the commands do to each other.
THEOREM TypeCorrect == Spec => []TypeOK
<1>1. Inv => TypeOK
  BY DEF Inv
<1> QED  BY <1>1, InvAlways, PTL

\* The current context is one of the contexts, or there is none, in the file
\* and in every copy: for any number of commands that overwrite, truncate and
\* abandon each other's work, any names and any servers.
THEOREM CurrentExistsAlways == Spec => []CurrentExists
<1>1. Inv => CurrentExists
  BY DEF Inv
<1> QED  BY <1>1, InvAlways, PTL

-----------------------------------------------------------------------------
(* What a command that nobody disturbs can count on.                       *)

\* Two configs differ in the contexts N at most.
Within(new, old, N) == \A n \in Name \ N : new.contexts[n] = old.contexts[n]

\* What a command has in its copy differs from the file only where it may.
Local(c) ==
  /\ Within(mem[c], file.cfg, About(c))
  /\ Switches(c) \/ mem[c].current = file.cfg.current

\* The file is there as someone wrote it, or not at all.
Settled == file.state \in {"absent", "whole"}

\* A login holds the copy it chose its context from, and then its server.
LoginHeld(c) ==
  /\ job[c].kind \in Logins
  /\ Settled
  /\ pc[c] = "authorize" /\ job[c].kind # "loginServer" =>
       /\ mem[c] = file.cfg
       /\ target[c] = IF job[c].kind = "login" THEN mem[c].current ELSE job[c].name
  /\ pc[c] = "store" /\ job[c].kind # "loginServer" =>
       mem[c].contexts[target[c]].server = issuer[c]

\* From the load to the save the copy of a command that is not disturbed
\* tells what the file has, or had before the command itself truncated it.
Held(c) ==
  /\ pc[c] \in {"seedOpen", "seedWrite"} => IsEmpty(file.cfg)
  /\ pc[c] \in {"seedWrite", "saveWrite"} => file.state = "torn"
  /\ pc[c] = "work" => Settled /\ mem[c] = file.cfg
  /\ pc[c] \notin {"authOpen", "authWrite", "authSeeded"}
  /\ pc[c] \in {"authorize", "store"} => LoginHeld(c)
  /\ pc[c] \in {"authorize", "store", "saveOpen", "saveWrite"} => Local(c)
  /\ job[c].kind # "loginServer" => TokenFits(c)

Undisturbed ==
  /\ file.state = "absent" => file.cfg = Empty
  /\ \A c \in Command : ~disturbed[c] => Held(c)

-----------------------------------------------------------------------------
(* Where the operators on configs change one.                              *)

\* Upsert changes the context it is given.
LEMMA UpsertWithin ==
  ASSUME NEW cfg \in Config, NEW n \in Name, NEW ctx
  PROVE  /\ Within(Upsert(cfg, n, ctx), cfg, {n})
         /\ Upsert(cfg, n, ctx).current = cfg.current
         /\ Upsert(cfg, n, ctx).contexts[n] = ctx
BY DEF Config, Upsert, Within

\* SetCurrent changes none.
LEMMA SetCurrentWithin ==
  ASSUME NEW cfg \in Config, NEW n
  PROVE  SetCurrent(cfg, n).contexts = cfg.contexts
BY DEF Config, SetCurrent

\* Delete changes the context it deletes, and the current one if it is that.
LEMMA DeleteWithin ==
  ASSUME NEW cfg \in Config, NEW n \in Name
  PROVE  /\ Within(Delete(cfg, n), cfg, {n})
         /\ cfg.current # n => Delete(cfg, n).current = cfg.current
BY DEF Config, Delete, Within

\* A rename changes the two names.
LEMMA RenameWithin ==
  ASSUME NEW cfg \in Config, NEW n \in Name
  PROVE  Within(RenameCurrent(cfg, n), cfg, {cfg.current, n})
<1>1. RenameCurrent(cfg, n).contexts =
        [cfg.contexts EXCEPT ![cfg.current] = None, ![n] = cfg.contexts[cfg.current]]
  BY DEF Config, RenameCurrent
<1> QED  BY <1>1 DEF Config, Within

\* Filling in a namespace leaves the server as it is.
LEMMA FilledWithin ==
  ASSUME NEW cfg \in Config, NEW n \in Name, Has(cfg, n), NEW f \in Filled(cfg, n)
  PROVE  /\ Within(f, cfg, {n})
         /\ f.current = cfg.current
         /\ f.contexts[n].server = cfg.contexts[n].server
<1>1. CASE f = cfg
  BY <1>1 DEF Within
<1>2. CASE f = [cfg EXCEPT !.contexts[n].namespace = TRUE]
  <2> DEFINE ctx == [cfg.contexts[n] EXCEPT !.namespace = TRUE]
  <2>1. f = Upsert(cfg, n, ctx)
    BY <1>2 DEF Upsert, Config
  <2>2. ctx.server = cfg.contexts[n].server
    BY DEF Config, Context, Has
  <2> HIDE DEF ctx
  <2>3. Within(f, cfg, {n}) /\ f.current = cfg.current /\ f.contexts[n] = ctx
    BY <2>1, UpsertWithin
  <2> QED  BY <2>2, <2>3
<1> QED  BY <1>1, <1>2 DEF Filled

\* The cortex context is the only one that is added for cortex.
LEMMA WithCortexWithin ==
  ASSUME NEW cfg \in Config
  PROVE  Within(WithCortex(cfg), cfg, {Cortex}) /\ WithCortex(cfg).current = cfg.current
BY NameAssumption, UpsertWithin DEF WithCortex, Within

\* Putting a token on a context leaves the others, and its server.
LEMMA TokenWithin ==
  ASSUME NEW cfg, Sound(cfg), NEW n \in Name, Has(cfg, n),
         NEW t \in Server \cup {None, Given},
         NEW f \in Filled(Upsert(cfg, n, [cfg.contexts[n] EXCEPT !.token = t]), n)
  PROVE  /\ Within(f, cfg, {n})
         /\ f.current = cfg.current
         /\ f.contexts[n].server = cfg.contexts[n].server
<1> DEFINE ctx == [cfg.contexts[n] EXCEPT !.token = t]
           up == Upsert(cfg, n, ctx)
<1>1. cfg \in Config /\ cfg.contexts[n] \in Context
  BY DEF Sound, Config, Has
<1>2. ctx \in Context /\ ctx.server = cfg.contexts[n].server
  BY <1>1 DEF Context
<1> HIDE DEF ctx
<1>3. /\ up \in Config /\ Has(up, n)
      /\ Within(up, cfg, {n}) /\ up.current = cfg.current /\ up.contexts[n] = ctx
  <2>1. up \in Config /\ Has(up, n)
    BY <1>2, UpsertSound DEF Sound
  <2>2. Within(up, cfg, {n}) /\ up.current = cfg.current /\ up.contexts[n] = ctx
    BY <1>1, UpsertWithin
  <2> QED  BY <2>1, <2>2
<1>4. /\ Within(f, up, {n}) /\ f.current = up.current
      /\ f.contexts[n].server = up.contexts[n].server
  <2>1. f \in Filled(up, n)
    BY DEF ctx
  <2> HIDE DEF up
  <2> QED  BY <1>3, <2>1, FilledWithin
<1> QED  BY <1>2, <1>3, <1>4 DEF Within

-----------------------------------------------------------------------------
(* Steps of the others, and of the command itself.                         *)

Step(c) ==
  \/ Load(c) \/ Truncate(c) \/ Write(c) \/ Work(c)
  \/ ReloadSeeds(c) \/ Authorize(c) \/ StoreToken(c) \/ Fails(c)

\* What a command's step can touch.
LEMMA StepFrame ==
  ASSUME TypeOK, NEW c \in Command, Step(c)
  PROVE  /\ job' = job
         /\ file' = file \/ Truncate(c) \/ Write(c)
         /\ disturbed' = disturbed \/ Load(c) \/ Truncate(c) \/ Write(c)
         /\ \A d \in Command \ {c} :
              /\ pc'[d] = pc[d]
              /\ mem'[d] = mem[d]
              /\ target'[d] = target[d]
              /\ issuer'[d] = issuer[d]
<1> USE DEF TypeOK, Goto
<1>1. CASE Load(c) \/ ReloadSeeds(c) \/ Authorize(c) \/ StoreToken(c) \/ Fails(c)
  BY <1>1 DEF Load, ReloadSeeds, Authorize, Ask, StoreToken, Fails
<1>2. CASE Truncate(c) \/ Write(c)
  BY <1>2 DEF Truncate, Write
<1>3. CASE Work(c)
  BY <1>3 DEF Work, UseContext, DeleteContext, CreateContext, RenameContext, SetServer,
              LoginWithToken, LoginCortex, EnsureCortex, ResolveContext, LoginServer,
              LoginContext, LoginCurrent, GivenToken, Save, Stop, Choose
<1> QED  BY <1>1, <1>2, <1>3 DEF Step

\* Whoever writes disturbs the others, so a command that is not disturbed
\* finds everything as it was.
LEMMA ByOthers ==
  ASSUME TypeOK, NEW c \in Command, Step(c), NEW d \in Command \ {c},
         ~disturbed'[d], ~disturbed[d] => Held(d)
  PROVE  Held(d)'
<1> USE StepFrame
<1>1. /\ ~disturbed[d]
      /\ file' = file \/ pc[d] \notin Active
  BY DEF TypeOK, Load, Truncate, Write, DisturbOthers
<1>2. CASE file' = file
  BY <1>1, <1>2 DEF Held, LoginHeld, Settled, Local, Within, About, Switches, TokenFits,
                    IsEmpty, Has
<1>3. CASE pc[d] \notin Active
  BY <1>3 DEF Held, TokenFits, Active
<1> QED  BY <1>1, <1>2, <1>3

\* What a load finds in a settled file.
LEMMA ReadWhole ==
  ASSUME TypeOK, Undisturbed, Settled
  PROVE  Read = file.cfg
BY DEF TypeOK, Undisturbed, Settled, Read

\* A command that is about to save has changed its copy where it may.
LEMMA SaveHeld ==
  ASSUME TypeOK, NEW c \in Command, Held(c), NEW cfg, Save(c, cfg),
         job[c].kind \notin Logins,
         Within(cfg, mem[c], About(c)),
         Switches(c) \/ cfg.current = mem[c].current
  PROVE  Held(c)'
<1>1. /\ mem[c] = file.cfg /\ mem'[c] = cfg /\ pc'[c] = "saveOpen"
      /\ UNCHANGED <<file, job, target, issuer, disturbed>>
  BY DEF Save, Goto, Held, TypeOK
<1> QED  BY <1>1 DEF Held, Local, Within, About, Switches, TokenFits

\* A command that stops holds on to nothing.
LEMMA StopHeld ==
  ASSUME TypeOK, NEW c \in Command, NEW how \in Over, Stop(c, how)
  PROVE  Held(c)'
BY DEF Stop, Goto, TypeOK, Held, TokenFits, Over

\* The config commands are local.
LEMMA ConfigCommandHeld ==
  ASSUME Inv, NEW c \in Command, Held(c),
         \/ UseContext(c)
         \/ DeleteContext(c)
         \/ CreateContext(c)
         \/ RenameContext(c)
         \/ SetServer(c)
  PROVE  Held(c)'
<1> USE WorkFacts
<1>1. TypeOK /\ mem[c] \in Config
  BY DEF Inv, Sound
<1>2. pc[c] = "work" => mem[c] = file.cfg
  BY DEF Held
<1>3. CASE UseContext(c)
  <2>1. CASE Has(mem[c], job[c].name)
    BY <1>1, <1>3, <2>1, SaveHeld, SetCurrentWithin DEF UseContext, Logins, Within, Switches
  <2> QED  BY <1>1, <1>3, <2>1, StopHeld DEF UseContext, Over
<1>4. CASE DeleteContext(c)
  <2>1. CASE Has(mem[c], job[c].name)
    <3>1. Save(c, Delete(mem[c], job[c].name)) /\ mem[c] = file.cfg
      BY <1>2, <1>4, <2>1 DEF DeleteContext, Save, Goto
    <3>2. About(c) = {job[c].name} /\ job[c].kind \notin Logins
      BY <1>4 DEF DeleteContext, About, Logins
    <3>3. Switches(c) \/ mem[c].current # job[c].name
      BY <1>4, <3>1 DEF DeleteContext, Switches
    <3> QED  BY <1>1, <3>1, <3>2, <3>3, DeleteWithin, SaveHeld
  <2> QED  BY <1>1, <1>4, <2>1, StopHeld DEF DeleteContext, Over
<1>5. CASE CreateContext(c)
  <2>0. PICK ctx \in Context : Save(c, SetCurrent(Upsert(mem[c], job[c].name, ctx), job[c].name))
    BY <1>5 DEF CreateContext, Context
  <2> DEFINE cfg == Upsert(mem[c], job[c].name, ctx)
  <2>1. cfg \in Config
    BY UpsertSound DEF Sound
  <2>2. Within(SetCurrent(cfg, job[c].name), mem[c], {job[c].name})
    BY <1>1, <2>1, UpsertWithin, SetCurrentWithin DEF Within
  <2>3. About(c) = {job[c].name} /\ job[c].kind \notin Logins /\ Switches(c)
    BY <1>5 DEF CreateContext, About, Logins, Switches
  <2> QED  BY <1>1, <2>0, <2>2, <2>3, SaveHeld
<1>6. CASE RenameContext(c)
  <2>1. CASE Save(c, RenameCurrent(mem[c], job[c].name))
    <3>1. mem[c] = file.cfg
      BY <1>2, <2>1 DEF Save, Goto
    <3>2. About(c) = {mem[c].current, job[c].name} /\ job[c].kind \notin Logins /\ Switches(c)
      BY <1>6, <3>1 DEF RenameContext, About, Logins, Switches
    <3> QED  BY <1>1, <2>1, <3>2, RenameWithin, SaveHeld
  <2>2. CASE \E how \in Over : Stop(c, how)
    BY <1>1, <2>2, StopHeld
  <2> QED  BY <1>6, <2>1, <2>2 DEF RenameContext, Over
<1>7. CASE SetServer(c)
  <2> DEFINE cur == mem[c].current
             ctx == [mem[c].contexts[cur] EXCEPT !.server = job[c].server]
             cfg == [mem[c] EXCEPT !.contexts[cur].server = job[c].server]
  <2>1. CASE NoCurrent(c)
    BY <1>1, <1>7, <2>1, StopHeld DEF SetServer, Over
  <2>2. CASE ~NoCurrent(c)
    <3>1. Save(c, cfg) /\ cur \in Name /\ mem[c] = file.cfg
      BY <1>2, <1>7, <2>2 DEF SetServer, NoCurrent, Save, Goto
    <3>2. cfg = Upsert(mem[c], cur, ctx)
      BY <1>1, <3>1 DEF Upsert, Config
    <3>3. Within(cfg, mem[c], {cur}) /\ cfg.current = cur
      BY <1>1, <3>1, <3>2, UpsertWithin
    <3>4. About(c) = {cur} /\ job[c].kind \notin Logins
      BY <1>7, <3>1 DEF SetServer, About, Logins
    <3> QED  BY <1>1, <3>1, <3>3, <3>4, SaveHeld
  <2> QED  BY <2>1, <2>2
<1> QED  BY <1>3, <1>4, <1>5, <1>6, <1>7

\* What login --server chooses is the one context it is about.
LEMMA ServerChoiceWithin ==
  ASSUME Inv, NEW c \in Command
  PROVE  Within(ServerChoice(c), mem[c], {HostOf[job[c].server]})
<1> USE WorkFacts
<1> DEFINE n == HostOf[job[c].server]
           new == Upsert(mem[c], n, NewContext(job[c].server))
           cfg == IF Has(mem[c], n) THEN mem[c] ELSE new
<1>1. n \in Name
  BY NameAssumption
<1>2. cfg \in Config /\ Within(cfg, mem[c], {n})
  BY <1>1, NewContextType, UpsertSound, UpsertWithin DEF Sound, Within
<1> QED  BY <1>2, SetCurrentWithin DEF Within, ServerChoice

\* A token that is given goes to the context the command is about.
LEMMA GivenTokenHeld ==
  ASSUME Inv, NEW c \in Command, Held(c), NEW cfg, Sound(cfg), NEW n \in Name, Has(cfg, n),
         GivenToken(c, cfg, n),
         job[c].kind \notin Logins, About(c) = {n},
         Within(cfg, mem[c], {n}),
         Switches(c) \/ cfg.current = mem[c].current
  PROVE  Held(c)'
<1>1. PICK f \in Filled(Upsert(cfg, n, [cfg.contexts[n] EXCEPT !.token = Given]), n) :
        Save(c, f)
  BY DEF GivenToken
<1>2. Within(f, cfg, {n}) /\ f.current = cfg.current
  <2>1. Given \in Server \cup {None, Given}
    OBVIOUS
  <2> QED  BY ONLY <1>1, <2>1, Sound(cfg), n \in Name, Has(cfg, n), TokenWithin
<1>3. Within(f, mem[c], About(c))
  BY <1>2 DEF Within
<1> QED  BY <1>1, <1>2, <1>3, SaveHeld DEF Inv

\* And so are the logins without a server, and ensureCortexContext.
LEMMA LocalLoginHeld ==
  ASSUME Inv, NEW c \in Command, Held(c),
         \/ LoginWithToken(c)
         \/ LoginCortex(c)
         \/ EnsureCortex(c)
         \/ ResolveContext(c)
  PROVE  Held(c)'
<1> USE WorkFacts
<1> DEFINE with == WithCortex(mem[c])
<1>1. TypeOK /\ mem[c] \in Config /\ Cortex \in Name
  BY NameAssumption DEF Inv, Sound
<1>2. with \in Config /\ Has(with, Cortex)
  BY WithCortexSound DEF Sound
<1>3. \A f \in Filled(with, Cortex) :
        Within(f, mem[c], {Cortex}) /\ f.current = mem[c].current
  BY <1>1, <1>2, FilledWithin, WithCortexWithin DEF Within
<1>4. \A f \in Filled(SetCurrent(with, Cortex), Cortex) : Within(f, mem[c], {Cortex})
  <2>1. SetCurrent(with, Cortex) \in Config /\ Has(SetCurrent(with, Cortex), Cortex)
    BY <1>1, <1>2, WithCortexSound, SetCurrentSound DEF Sound
  <2> QED  BY <1>1, <1>2, <2>1, FilledWithin, WithCortexWithin, SetCurrentWithin DEF Within
<1>5. CASE LoginWithToken(c)
  <2>1. CASE job[c].kind = "loginToken"
    <3>1. CASE NoCurrent(c)
      BY <1>1, <1>5, <2>1, <3>1, StopHeld DEF LoginWithToken, Over
    <3>2. CASE ~NoCurrent(c)
      <4>1. GivenToken(c, mem[c], mem[c].current)
        BY <1>5, <2>1, <3>2 DEF LoginWithToken
      <4>2. mem[c] = file.cfg
        BY <4>1 DEF GivenToken, Save, Goto, Held
      <4>3. About(c) = {mem[c].current} /\ job[c].kind \notin Logins
        BY <2>1, <4>2 DEF About, Logins
      <4> QED  BY <3>2, <4>1, <4>3, GivenTokenHeld DEF NoCurrent, Within
    <3> QED  BY <3>1, <3>2
  <2>2. CASE job[c].kind = "tokenServer"
    <3>1. GivenToken(c, ServerChoice(c), HostOf[job[c].server])
      BY <1>5, <2>2 DEF LoginWithToken
    <3>2. About(c) = {HostOf[job[c].server]} /\ job[c].kind \notin Logins /\ Switches(c)
      BY <2>2 DEF About, Logins, Switches
    <3> QED  BY <3>1, <3>2, ServerChoiceSound, ServerChoiceWithin, GivenTokenHeld
  <2>3. CASE job[c].kind = "tokenContext"
    <3>1. CASE Has(mem[c], job[c].name)
      <4>1. GivenToken(c, mem[c], job[c].name)
        BY <1>5, <2>3, <3>1 DEF LoginWithToken
      <4>2. About(c) = {job[c].name} /\ job[c].kind \notin Logins
        BY <2>3 DEF About, Logins
      <4> QED  BY <3>1, <4>1, <4>2, GivenTokenHeld DEF Within
    <3>2. CASE ~Has(mem[c], job[c].name)
      BY <1>1, <1>5, <2>3, <3>2, StopHeld DEF LoginWithToken, Over
    <3> QED  BY <3>1, <3>2
  <2> QED  BY <1>5, <2>1, <2>2, <2>3 DEF LoginWithToken
<1>6. CASE LoginCortex(c)
  BY <1>1, <1>4, <1>6, SaveHeld DEF LoginCortex, About, Logins, Switches
<1>7. CASE EnsureCortex(c)
  <2>1. About(c) = {Cortex} /\ job[c].kind \notin Logins
    BY <1>7 DEF EnsureCortex, About, Logins
  <2>2. CASE job[c].kind = "serve"
    BY <1>1, <1>4, <1>7, <2>1, <2>2, SaveHeld DEF EnsureCortex, Switches
  <2>3. CASE job[c].kind # "serve"
    BY <1>1, <1>3, <1>7, <2>1, <2>3, SaveHeld, StopHeld DEF EnsureCortex, Over
  <2> QED  BY <2>2, <2>3
<1>8. CASE ResolveContext(c)
  BY <1>1, <1>8, StopHeld DEF ResolveContext, Over
<1> QED  BY <1>5, <1>6, <1>7, <1>8

\* A login chooses a context, and at most adds it.
LEMMA LoginChoiceHeld ==
  ASSUME Inv, NEW c \in Command, Held(c),
         LoginServer(c) \/ LoginContext(c) \/ LoginCurrent(c)
  PROVE  Held(c)'
<1> USE WorkFacts
<1>1. TypeOK /\ mem[c] \in Config
  BY DEF Inv, Sound
<1>2. ASSUME NEW cfg, NEW n, Choose(c, cfg, n)
      PROVE  /\ mem[c] = file.cfg /\ Settled
             /\ mem'[c] = cfg /\ target'[c] = n /\ pc'[c] = "authorize"
             /\ UNCHANGED <<file, job, issuer, disturbed>>
  BY <1>1, <1>2 DEF Choose, Goto, Held, TypeOK
<1>3. CASE LoginServer(c)
  <2> DEFINE n == HostOf[job[c].server]
             cfg == ServerChoice(c)
  <2>1. Choose(c, cfg, n) /\ job[c].kind = "loginServer"
    BY <1>3 DEF LoginServer
  <2>2. Within(cfg, mem[c], {n})
    BY ServerChoiceWithin
  <2>3. /\ mem[c] = file.cfg /\ Settled
        /\ mem'[c] = cfg /\ target'[c] = n /\ pc'[c] = "authorize"
        /\ UNCHANGED <<file, job, issuer, disturbed>>
    BY <1>2, <2>1
  <2> HIDE DEF cfg, n
  <2>4. About(c)' = {n} /\ Switches(c)'
    BY <2>1, <2>3 DEF About, Switches, Logins
  <2> QED  BY <2>1, <2>2, <2>3, <2>4 DEF Held, LoginHeld, Settled, Local, TokenFits, Within,
                                         Logins
<1>4. CASE LoginContext(c) \/ LoginCurrent(c)
  <2>1. CASE \E how \in Over : Stop(c, how)
    BY <1>1, <2>1, StopHeld
  <2>2. job[c].kind \in {"login", "loginContext"}
    BY <1>4 DEF LoginContext, LoginCurrent
  <2>3. CASE Choose(c, mem[c], IF job[c].kind = "login" THEN mem[c].current ELSE job[c].name)
    BY <1>2, <2>2, <2>3 DEF Held, LoginHeld, Settled, Local, TokenFits, Within, Logins
  <2> QED  BY <1>4, <2>1, <2>3 DEF LoginContext, LoginCurrent, Over
<1> QED  BY <1>3, <1>4

\* Nobody else having written, the server that is asked is the one of the
\* context that was chosen.
LEMMA AuthorizeHeld ==
  ASSUME Inv, Undisturbed, NEW c \in Command, Held(c), ReloadSeeds(c) \/ Authorize(c)
  PROVE  Held(c)'
<1>1. /\ TypeOK /\ TargetHeld
      /\ pc[c] = "authorize"
      /\ UNCHANGED <<file, job, mem, target, disturbed>>
  BY DEF ReloadSeeds, Authorize, Ask, Goto, Held, Inv
<1>2. LoginHeld(c) /\ Local(c) /\ Read = file.cfg /\ job[c].kind \in Logins
  BY <1>1, ReadWhole DEF Held, LoginHeld
<1>3. target[c] \in Name /\ Has(mem[c], target[c])
  BY <1>1 DEF TargetHeld
<1>4. Ask(c, "authorize", ResolvedServer(c, Read))
  <2>1. ~Reseeds(c)
    BY <1>1, <1>2, <1>3 DEF Reseeds, LoginHeld, NeedsSeed, IsEmpty
  <2> QED  BY <1>1, <2>1 DEF ReloadSeeds, Authorize, Ask, Goto
<1>5. Local(c)'
  BY <1>1, <1>2 DEF Local, Within, About, Switches
<1>6. CASE pc'[c] = "failed"
  BY <1>6 DEF Held, TokenFits
<1>7. CASE ResolvedServer(c, Read) # None
  <2>1. pc'[c] = "store" /\ issuer'[c] = ResolvedServer(c, Read)
    BY <1>1, <1>4, <1>7 DEF Ask, Goto, TypeOK
  <2>2. CASE job[c].kind = "loginServer"
    BY <1>1, <1>2, <1>5, <2>1, <2>2 DEF Held, LoginHeld, Settled, Logins
  <2>3. CASE job[c].kind # "loginServer"
    <3>1. ResolvedServer(c, Read) = ContextServer(mem[c], target[c])
      BY <1>1, <1>2, <2>3 DEF ResolvedServer, LoginHeld, Logins
    <3>2. ResolvedServer(c, Read) = mem[c].contexts[target[c]].server
      BY <1>7, <3>1 DEF ContextServer
    <3> QED  BY <1>1, <1>2, <1>5, <2>1, <2>3, <3>2 DEF Held, LoginHeld, Settled, TokenFits
  <2> QED  BY <2>2, <2>3
<1> QED  BY <1>1, <1>4, <1>6, <1>7 DEF Ask, Goto, TypeOK

\* The token goes where the chosen context is.
LEMMA StoreTokenHeld ==
  ASSUME Inv, NEW c \in Command, Held(c), StoreToken(c)
  PROVE  Held(c)'
<1>1. /\ TypeOK /\ pc[c] = "store" /\ pc'[c] = "saveOpen"
      /\ UNCHANGED <<file, job, target, issuer, disturbed>>
      /\ target[c] \in Name /\ Has(mem[c], target[c])
      /\ issuer[c] \in Server \cup {None, Given}
  BY DEF Inv, StoreToken, Goto, TypeOK, TargetHeld
<1>2. PICK cfg \in Filled(Upsert(mem[c], target[c],
                 [mem[c].contexts[target[c]] EXCEPT !.token = issuer[c]]), target[c]) :
        mem' = [mem EXCEPT ![c] = cfg]
  BY DEF StoreToken
<1>3. /\ Within(cfg, mem[c], {target[c]})
      /\ cfg.current = mem[c].current
      /\ cfg.contexts[target[c]].server = mem[c].contexts[target[c]].server
  BY <1>1, InvSound, TokenWithin
<1>4. mem'[c] = cfg
  BY <1>1, <1>2 DEF TypeOK
<1>5. LoginHeld(c) /\ Local(c)
  BY <1>1 DEF Held
<1>6. About(c) = {target[c]} /\ About(c)' = About(c) /\ Switches(c)' = Switches(c)
  BY <1>1, <1>5 DEF About, Switches, LoginHeld, Logins
<1>7. Local(c)'
  BY <1>1, <1>3, <1>4, <1>5, <1>6 DEF Local, Within
<1>8. job[c].kind # "loginServer" => TokenFits(c)'
  BY <1>1, <1>3, <1>4, <1>5 DEF LoginHeld, TokenFits
<1> QED  BY <1>1, <1>7, <1>8 DEF Held

\* The command's own load and writes.
LEMMA FileHeld ==
  ASSUME Inv, Undisturbed, NEW c \in Command, ~disturbed'[c],
         Load(c) \/ Truncate(c) \/ Write(c)
  PROVE  Held(c)'
<1>1. TypeOK
  BY DEF Inv
<1>2. CASE Load(c)
  <2>1. file.state # "torn" /\ file' = file /\ mem' \in [Command -> Config]
    BY <1>1, <1>2, InvNext DEF Load, TypeOK, Inv, Next
  <2>2. CASE file.state = "garbled"
    BY <1>1, <1>2, <2>2 DEF Load, Goto, TypeOK, Held, TokenFits
  <2>3. CASE file.state # "garbled"
    <3>1. Settled /\ Read = file.cfg
      BY <1>1, <2>1, <2>3, ReadWhole DEF Settled, TypeOK
    <3>2. CASE job[c].kind \in Seeds /\ NeedsSeed(Read)
      BY <1>1, <1>2, <2>1, <2>3, <3>1, <3>2
      DEF Load, Goto, TypeOK, NeedsSeed, Held, TokenFits, IsEmpty, Has
    <3>3. CASE ~(job[c].kind \in Seeds /\ NeedsSeed(Read))
      BY <1>1, <1>2, <2>1, <2>3, <3>1, <3>3 DEF Load, Goto, TypeOK, Held, Settled, TokenFits
    <3> QED  BY <3>2, <3>3
  <2> QED  BY <2>2, <2>3
<1>3. CASE Truncate(c) \/ Write(c)
  <2>1. Held(c)
    BY <1>1, <1>3 DEF Truncate, Write, DisturbOthers, TypeOK, Undisturbed
  <2>2. CASE Truncate(c)
    <3>1. /\ file'.cfg = file.cfg /\ file'.state = "torn"
          /\ UNCHANGED <<job, mem, target, issuer>>
      BY <1>1, <2>2 DEF Truncate, TypeOK
    <3>2. \/ pc[c] = "seedOpen" /\ pc'[c] = "seedWrite"
          \/ pc[c] = "saveOpen" /\ pc'[c] = "saveWrite"
      BY <1>1, <2>1, <2>2 DEF Truncate, Goto, TypeOK, Held
    <3> QED  BY <2>1, <3>1, <3>2 DEF Held, Local, Within, About, Switches, TokenFits,
                                     IsEmpty, Has
  <2>3. CASE Write(c)
    <3>1. \/ pc[c] = "seedWrite" /\ pc'[c] = "work" /\ file' = [state |-> "whole", cfg |-> mem[c]]
          \/ pc'[c] = "done"
      <4>1. pc[c] \in {"seedWrite", "saveWrite"} /\ file.state = "torn"
        BY <2>1, <2>3 DEF Write, Goto, Held
      <4> QED  BY <1>1, <2>3, <4>1 DEF Write, Goto, TypeOK, Content
    <3>2. mem' = mem
      BY <2>3 DEF Write
    <3> QED  BY <3>1, <3>2 DEF Held, Settled, TokenFits
  <2> QED  BY <1>3, <2>2, <2>3
<1> QED  BY <1>2, <1>3

\* Every step keeps what an undisturbed command can count on.
LEMMA UndisturbedStep ==
  ASSUME Inv, Undisturbed, Next
  PROVE  Undisturbed'
<1>1. PICK c \in Command : Step(c)
  BY DEF Next, Step
<1>2. TypeOK
  BY DEF Inv
<1>3. file'.state = "absent" => file'.cfg = Empty
  BY <1>1, <1>2, StepFrame DEF Truncate, Write, Undisturbed, TypeOK
<1>4. ASSUME NEW d \in Command, ~disturbed'[d], d # c PROVE Held(d)'
  BY <1>1, <1>2, <1>4, ByOthers DEF Undisturbed
<1>5. ASSUME ~disturbed'[c] PROVE Held(c)'
  <2>1. CASE Load(c) \/ Truncate(c) \/ Write(c)
    BY <1>5, <2>1, FileHeld
  <2>2. CASE ~(Load(c) \/ Truncate(c) \/ Write(c))
    <3>1. Held(c)
      BY <1>1, <1>2, <1>5, <2>2, StepFrame DEF Undisturbed
    <3>2. CASE Work(c)
      BY <3>1, <3>2, ConfigCommandHeld, LocalLoginHeld, LoginChoiceHeld DEF Work
    <3>3. CASE Fails(c)
      BY <1>2, <3>3 DEF Fails, TypeOK, Held, TokenFits
    <3> QED  BY <1>1, <2>2, <3>1, <3>2, <3>3, AuthorizeHeld, StoreTokenHeld DEF Step
  <2> QED  BY <2>1, <2>2
<1> QED  BY <1>3, <1>4, <1>5 DEF Undisturbed

\* Both invariants hold throughout.
LEMMA UndisturbedAlways == Spec => [](Inv /\ Undisturbed)
<1>1. Init => Inv /\ Undisturbed
  BY InvInit DEF Init, Undisturbed, Held, TokenFits
<1>2. Inv /\ Undisturbed /\ [Next]_vars => (Inv /\ Undisturbed)'
  <2>1. Inv /\ Undisturbed /\ Next => Undisturbed'
    BY UndisturbedStep
  <2>2. Undisturbed /\ UNCHANGED vars => Undisturbed'
    BY DEF vars, Undisturbed, Held, LoginHeld, Settled, Local, Within, About, Switches, TokenFits,
           IsEmpty, Has
  <2> QED  BY <2>1, <2>2, InvNext
<1> QED  BY <1>1, <1>2, PTL DEF Spec

-----------------------------------------------------------------------------

\* The token of a login that nobody interfered with, to the current context
\* or to --context, is on a context whose server issued it, however long the
\* login took and whatever the others did before it loaded.
THEOREM TokenOnItsServerAlways == Spec => []TokenOnItsServer
<1>1. Undisturbed => TokenOnItsServer
  BY DEF Undisturbed, Held, TokenOnItsServer
<1> QED  BY <1>1, UndisturbedAlways, PTL

\* A command whose load and save nobody's write came between changes only the
\* context it is about, switches only when it is a switch, and never seeds a
\* config that has contexts.
THEOREM SavesAreAlwaysLocal == Spec => SavesAreLocal
<1> DEFINE Saves ==
      \A c \in Command : Write(c) /\ ~disturbed[c] /\ ~IsEmpty(file.cfg) =>
        /\ \A n \in Name \ About(c) : file'.cfg.contexts[n] = file.cfg.contexts[n]
        /\ Switches(c) \/ file'.cfg.current = file.cfg.current
<1>1. Undisturbed => Saves
  <2> SUFFICES ASSUME Undisturbed, NEW c \in Command, Write(c), ~disturbed[c],
                      ~IsEmpty(file.cfg)
               PROVE  /\ \A n \in Name \ About(c) :
                           file'.cfg.contexts[n] = file.cfg.contexts[n]
                      /\ Switches(c) \/ file'.cfg.current = file.cfg.current
    OBVIOUS
  <2>1. Held(c)
    BY DEF Undisturbed
  <2>2. pc[c] = "saveWrite" /\ file.state = "torn"
    BY <2>1 DEF Write, Goto, Held
  <2>3. file'.cfg = mem[c]
    BY <2>2 DEF Write, Content
  <2> QED  BY <2>1, <2>2, <2>3 DEF Held, Local, Within
<1>2. Inv /\ Undisturbed => [Saves]_vars
  BY <1>1
<1> QED  BY <1>2, UndisturbedAlways, PTL DEF SavesAreLocal

=============================================================================
