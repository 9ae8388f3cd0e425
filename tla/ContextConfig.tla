---------------------------- MODULE ContextConfig ----------------------------
(***************************************************************************)
(* The context configuration, ~/.config/rossoctl/config.yaml, and the       *)
(* commands that change it.  Each command loads the whole file, works on    *)
(* its copy (a login may wait for minutes in between), and writes the whole *)
(* file back; the write truncates the file first, and nothing keeps two     *)
(* commands apart.  A file that is empty reads as a config without          *)
(* contexts; one that two commands wrote over each other may not be read    *)
(* at all.                                                                 *)
(***************************************************************************)
EXTENDS Naturals, FiniteSets

CONSTANTS
  Command,        \* invocations of rossoctl
  Kind,           \* the kinds of command that are run
  Name,           \* context names
  Cortex,         \* the name that is answered in process
  Server,         \* server URIs
  CortexServer,   \* the URI a seeded cortex context has
  DefaultServer,  \* the built-in default
  HostOf,         \* the context name derived from a URI: its host, no port
  Starts,         \* the configurations earlier commands may have left
  None            \* no context, no current context, no token

ASSUME NameAssumption ==
  /\ Cortex \in Name
  /\ {DefaultServer, CortexServer} \subseteq Server
  /\ HostOf \in [Server -> Name]
  /\ None \notin Name \cup Server

VARIABLES
  file,       \* the file: whether it is there and whole, and what was last
              \* written to it
  job,        \* what each command was asked to do
  pc,         \* where each command is
  mem,        \* each command's copy of the config
  target,     \* the context a login stores its token on
  issuer,     \* the server a login got its token from
  disturbed   \* history: another command wrote since this one loaded

vars == <<file, job, pc, mem, target, issuer, disturbed>>

-----------------------------------------------------------------------------
(* Configurations.                                                         *)

Given == "given"  \* a token from --token: no server issued it here

Context == [server : Server, token : Server \cup {None, Given}, namespace : BOOLEAN]

Config == [contexts : [Name -> Context \cup {None}], current : Name \cup {None}]

\* "No context" is not one.
ASSUME NoneAssumption == None \notin Context

NewContext(s) == [server |-> s, token |-> None, namespace |-> FALSE]

Empty == [contexts |-> [n \in Name |-> None], current |-> None]

Has(cfg, n) == cfg.contexts[n] # None
IsEmpty(cfg) == \A n \in Name : ~Has(cfg, n)

Upsert(cfg, n, ctx) == [cfg EXCEPT !.contexts[n] = ctx]

\* SetCurrent is only reached with a name the config has.
SetCurrent(cfg, n) == [cfg EXCEPT !.current = n]

\* What Current() can rely on.
Consistent(cfg) == cfg.current = None \/ Has(cfg, cfg.current)

ASSUME StartsAssumption ==
  /\ Starts \subseteq Config
  /\ \A cfg \in Starts : Consistent(cfg)

\* EnsureContext: the default server's context, the cortex context beside it,
\* and the former as the current one.
Seeded(cfg, s) ==
  SetCurrent(Upsert(Upsert(cfg, HostOf[s], NewContext(s)),
                    Cortex, NewContext(CortexServer)),
             HostOf[s])

\* Altered: the current-context reference is not cleared.
Delete_KeepsCurrent(cfg, n) == [cfg EXCEPT !.contexts[n] = None]

Delete(cfg, n) ==
  [cfg EXCEPT !.contexts[n] = None,
              !.current = IF cfg.current = n THEN None ELSE @]

\* Rename of the current context, to a name that is free or its own.
RenameCurrent(cfg, n) ==
  [cfg EXCEPT !.contexts = [@ EXCEPT ![cfg.current] = None,
                                     ![n] = cfg.contexts[cfg.current]],
              !.current = n]

WithCortex(cfg) ==
  IF Has(cfg, Cortex) THEN cfg ELSE Upsert(cfg, Cortex, NewContext(CortexServer))

\* firstNamespace: best-effort, so there may be none to offer.
Filled(cfg, n) ==
  {cfg, [cfg EXCEPT !.contexts[n].namespace = TRUE]}

-----------------------------------------------------------------------------
(* Commands.                                                               *)

\* "use", "delete", "create", "rename" and "set" are the config commands,
\* the logins differ in how they choose their context, "exec" and "serve" are
\* ensureCortexContext without and with the switch, and "resolve" is any
\* command that needs the current context.
\* The logins with --token come without a flag, with --server and with --context.
NoArguments == {"login", "loginToken", "loginCortex", "exec", "serve", "resolve"}

Job ==
  {j \in [kind : Kind, name : Name, server : Server] :
     /\ j.kind \in {"use", "delete", "rename", "loginContext", "tokenContext"} =>
          j.server = DefaultServer
     /\ j.kind \in {"setServer", "loginServer", "tokenServer"} => j.name = Cortex
     /\ j.kind \in NoArguments => j.name = Cortex /\ j.server = DefaultServer}

Logins == {"login", "loginServer", "loginContext"}

\* loadConfig seeds an empty config, loadConfigReadOnly does not.
Seeds == {"create", "rename", "setServer", "loginToken", "tokenServer", "tokenContext",
          "loginCortex", "resolve"} \cup Logins

\* serverOrDefault: the global --server names the seeded server.
SeedServer(c) ==
  IF job[c].kind \in {"setServer", "loginServer", "tokenServer"} THEN job[c].server ELSE DefaultServer

Active == {"seedOpen", "seedWrite", "work", "authorize", "authOpen", "authWrite",
           "authSeeded", "store", "saveOpen", "saveWrite"}
Over == {"done", "failed", "noCurrent"}

TypeOK ==
  /\ file \in [state : {"absent", "whole", "torn", "garbled"}, cfg : Config]
  /\ job \in [Command -> Job]
  /\ pc \in [Command -> {"idle"} \cup Active \cup Over]
  /\ mem \in [Command -> Config]
  /\ target \in [Command -> Name \cup {None}]
  /\ issuer \in [Command -> Server \cup {None}]
  /\ disturbed \in [Command -> BOOLEAN]

Init ==
  /\ \/ file = [state |-> "absent", cfg |-> Empty]
     \/ file \in [state : {"whole"}, cfg : Starts]
  /\ job \in [Command -> Job]
  /\ pc = [c \in Command |-> "idle"]
  /\ mem = [c \in Command |-> Empty]
  /\ target = [c \in Command |-> None]
  /\ issuer = [c \in Command |-> None]
  /\ disturbed = [c \in Command |-> FALSE]

\* What Load makes of a file it can parse.
Read == IF file.state = "whole" THEN file.cfg ELSE Empty

Goto(c, from, to) ==
  /\ pc[c] = from
  /\ pc' = [pc EXCEPT ![c] = to]

\* A write disturbs every command that has loaded and not finished.
DisturbOthers(c) ==
  disturbed' = [d \in Command |-> disturbed[d] \/ (d # c /\ pc[d] \in Active)]

-----------------------------------------------------------------------------
(* Load, and EnsureContext.                                                *)

\* Altered: a config with contexts but no current one is seeded as well.
NeedsSeed_NoCurrent(cfg) == cfg.current = None

\* "Only the wholly-empty config is seeded".
NeedsSeed(cfg) == IsEmpty(cfg)

Load(c) ==
  /\ \/ /\ file.state = "garbled"
        /\ Goto(c, "idle", "failed")
        /\ UNCHANGED mem
     \/ /\ file.state # "garbled" /\ job[c].kind \in Seeds /\ NeedsSeed(Read)
        /\ Goto(c, "idle", "seedOpen")
        /\ mem' = [mem EXCEPT ![c] = Seeded(Read, SeedServer(c))]
     \/ /\ file.state # "garbled" /\ ~(job[c].kind \in Seeds /\ NeedsSeed(Read))
        /\ Goto(c, "idle", "work")
        /\ mem' = [mem EXCEPT ![c] = Read]
  /\ disturbed' = [disturbed EXCEPT ![c] = (file.state = "torn")]
  /\ UNCHANGED <<file, job, target, issuer>>

-----------------------------------------------------------------------------
(* Save: open with truncation, then write.                                 *)

\* A login loads the config once more to resolve its server, and seeds an
\* empty one there as well; that copy is dropped after the server is asked.
Content(c) ==
  IF pc[c] = "authWrite" THEN Seeded(Empty, SeedServer(c)) ELSE mem[c]

Truncate(c) ==
  /\ \/ Goto(c, "seedOpen", "seedWrite")
     \/ Goto(c, "authOpen", "authWrite")
     \/ Goto(c, "saveOpen", "saveWrite")
  /\ file' = [file EXCEPT !.state = "torn"]
  /\ DisturbOthers(c)
  /\ UNCHANGED <<job, mem, target, issuer>>

\* A file that is written over a longer one keeps its end: contexts of the
\* longer one may follow those of cfg.
WithTail(cfg, old) ==
  {[cfg EXCEPT !.contexts = [n \in Name |-> IF n \in tail THEN old.contexts[n] ELSE @[n]]] :
     tail \in SUBSET {n \in Name : ~Has(cfg, n)}}

\* Where another command wrote since c truncated the file, what it wrote is
\* overwritten but not cut off, and what is left may not parse.
Write(c) ==
  /\ \/ Goto(c, "seedWrite", "work")
     \/ Goto(c, "authWrite", "authSeeded")
     \/ Goto(c, "saveWrite", "done")
  /\ \/ file' = [state |-> "whole", cfg |-> Content(c)]
     \/ /\ file.state # "torn"
        /\ \/ file' = [state |-> "garbled", cfg |-> Content(c)]
           \/ \E cfg \in WithTail(Content(c), file.cfg) :
                file' = [state |-> "whole", cfg |-> cfg]
  /\ DisturbOthers(c)
  /\ UNCHANGED <<job, mem, target, issuer>>

-----------------------------------------------------------------------------
(* What each command does with its copy.                                   *)

Save(c, cfg) ==
  /\ Goto(c, "work", "saveOpen")
  /\ mem' = [mem EXCEPT ![c] = cfg]
  /\ UNCHANGED <<file, job, target, issuer, disturbed>>

Stop(c, how) ==
  /\ Goto(c, "work", how)
  /\ UNCHANGED <<file, job, mem, target, issuer, disturbed>>

UseContext(c) ==
  /\ job[c].kind = "use"
  /\ IF Has(mem[c], job[c].name)
     THEN Save(c, SetCurrent(mem[c], job[c].name))
     ELSE Stop(c, "failed")

DeleteContext(c) ==
  /\ job[c].kind = "delete"
  /\ IF Has(mem[c], job[c].name)
     THEN Save(c, Delete(mem[c], job[c].name))
     ELSE Stop(c, "failed")

\* Altered: the new context does not get the server.
CreateContext_DropsServer(c) ==
  /\ job[c].kind = "create"
  /\ Save(c, SetCurrent(Upsert(mem[c], job[c].name, NewContext(None)), job[c].name))

\* --bearer-token and --namespace are optional.
CreateContext(c) ==
  /\ job[c].kind = "create"
  /\ \E ctx \in [server : {job[c].server}, token : {None, Given}, namespace : BOOLEAN] :
       Save(c, SetCurrent(Upsert(mem[c], job[c].name, ctx), job[c].name))

NoCurrent(c) == mem[c].current = None

\* set-context --name.
RenameContext(c) ==
  /\ job[c].kind = "rename"
  /\ CASE NoCurrent(c) -> Stop(c, "noCurrent")
       [] ~NoCurrent(c) /\ job[c].name # mem[c].current /\ Has(mem[c], job[c].name) ->
            Stop(c, "failed")
       [] OTHER -> Save(c, RenameCurrent(mem[c], job[c].name))

\* set-context --server: the rest of the context, its token too, stays.
SetServer(c) ==
  /\ job[c].kind = "setServer"
  /\ IF NoCurrent(c) THEN Stop(c, "noCurrent")
     ELSE Save(c, [mem[c] EXCEPT !.contexts[mem[c].current].server = job[c].server])

\* login --server: the context of that host, which becomes the current one.
ServerChoice(c) ==
  LET n == HostOf[job[c].server]
      cfg == IF Has(mem[c], n) THEN mem[c] ELSE Upsert(mem[c], n, NewContext(job[c].server))
  IN  SetCurrent(cfg, n)

\* login --token, with no server to ask.
GivenToken(c, cfg, n) ==
  \E f \in Filled(Upsert(cfg, n, [cfg.contexts[n] EXCEPT !.token = Given]), n) : Save(c, f)

LoginWithToken(c) ==
  \/ /\ job[c].kind = "loginToken"
     /\ IF NoCurrent(c) THEN Stop(c, "noCurrent")
        ELSE GivenToken(c, mem[c], mem[c].current)
  \/ /\ job[c].kind = "tokenServer"
     /\ GivenToken(c, ServerChoice(c), HostOf[job[c].server])
  \/ /\ job[c].kind = "tokenContext"
     /\ IF Has(mem[c], job[c].name) THEN GivenToken(c, mem[c], job[c].name)
        ELSE Stop(c, "failed")

LoginCortex(c) ==
  /\ job[c].kind = "loginCortex"
  /\ \E cfg \in Filled(SetCurrent(WithCortex(mem[c]), Cortex), Cortex) : Save(c, cfg)

\* Altered: the switch is made for exec too.
EnsureCortex_Switches(c) ==
  /\ job[c].kind \in {"exec", "serve"}
  /\ \E cfg \in Filled(SetCurrent(WithCortex(mem[c]), Cortex), Cortex) : Save(c, cfg)

\* ensureCortexContext: exec leaves a context that has a namespace alone.
EnsureCortex(c) ==
  /\ job[c].kind \in {"exec", "serve"}
  /\ IF job[c].kind = "serve"
     THEN \E cfg \in Filled(SetCurrent(WithCortex(mem[c]), Cortex), Cortex) : Save(c, cfg)
     ELSE IF Has(mem[c], Cortex) /\ mem[c].contexts[Cortex].namespace
          THEN Stop(c, "done")
          ELSE \E cfg \in Filled(WithCortex(mem[c]), Cortex) : Save(c, cfg)

\* resolveContext on behalf of any other command.
ResolveContext(c) ==
  /\ job[c].kind = "resolve"
  /\ Stop(c, IF NoCurrent(c) THEN "noCurrent" ELSE "done")

-----------------------------------------------------------------------------
(* login by the device flow.                                               *)

Choose(c, cfg, n) ==
  /\ Goto(c, "work", "authorize")
  /\ mem' = [mem EXCEPT ![c] = cfg]
  /\ target' = [target EXCEPT ![c] = n]
  /\ UNCHANGED <<file, job, issuer, disturbed>>

LoginServer(c) ==
  /\ job[c].kind = "loginServer"
  /\ Choose(c, ServerChoice(c), HostOf[job[c].server])

LoginContext(c) ==
  /\ job[c].kind = "loginContext"
  /\ IF Has(mem[c], job[c].name)
     THEN Choose(c, mem[c], job[c].name)
     ELSE Stop(c, "failed")

LoginCurrent(c) ==
  /\ job[c].kind = "login"
  /\ IF NoCurrent(c) THEN Stop(c, "noCurrent") ELSE Choose(c, mem[c], mem[c].current)

\* The handlers that answer a context named cortex report authentication as
\* disabled, which ends the login, as a context that is not there does.
ContextServer(cfg, n) ==
  IF n \in {None, Cortex} \/ ~Has(cfg, n) THEN None ELSE cfg.contexts[n].server

\* Altered: a login to a named context asks the current one's server.
ResolvedServer_Current(c, cfg) ==
  IF job[c].kind = "loginServer" THEN job[c].server
  ELSE ContextServer(cfg, cfg.current)

\* The server the device flow talks to: --server, or what resolveContext
\* reads from the file now.
ResolvedServer(c, cfg) ==
  CASE job[c].kind = "loginServer" -> job[c].server
    [] job[c].kind = "loginContext" -> ContextServer(cfg, job[c].name)
    [] OTHER -> ContextServer(cfg, cfg.current)

\* newClient's load seeds an empty config, too, and goes on with what it seeded.
Reseeds(c) == job[c].kind = "login" /\ file.state # "garbled" /\ NeedsSeed(Read)

ReloadSeeds(c) ==
  /\ Reseeds(c)
  /\ Goto(c, "authorize", "authOpen")
  /\ UNCHANGED <<file, job, mem, target, issuer, disturbed>>

\* GET /auth/config and the device flow with the server s; a config that has
\* no server to ask ends the login.
Ask(c, from, s) ==
  IF s = None THEN Goto(c, from, "failed") /\ UNCHANGED issuer
  ELSE Goto(c, from, "store") /\ issuer' = [issuer EXCEPT ![c] = s]

Authorize(c) ==
  /\ \/ ~Reseeds(c) /\ Ask(c, "authorize", ResolvedServer(c, Read))
     \/ Ask(c, "authSeeded", ResolvedServer(c, Seeded(Empty, SeedServer(c))))
  /\ UNCHANGED <<file, job, mem, target, disturbed>>

\* The token goes into the copy loaded before the flow began.
StoreToken(c) ==
  /\ Goto(c, "store", "saveOpen")
  /\ LET ctx == mem[c].contexts[target[c]]
     IN  \E cfg \in Filled(Upsert(mem[c], target[c], [ctx EXCEPT !.token = issuer[c]]),
                           target[c]) :
           mem' = [mem EXCEPT ![c] = cfg]
  /\ UNCHANGED <<file, job, target, issuer, disturbed>>

\* An error of the file system or of the server, Ctrl-C during the flow, a
\* kill: what was truncated stays truncated.
Fails(c) ==
  /\ pc[c] \in Active
  /\ pc' = [pc EXCEPT ![c] = "failed"]
  /\ UNCHANGED <<file, job, mem, target, issuer, disturbed>>

-----------------------------------------------------------------------------

Work(c) ==
  \/ UseContext(c)
  \/ DeleteContext(c)
  \/ CreateContext(c)
  \/ RenameContext(c)
  \/ SetServer(c)
  \/ LoginWithToken(c)
  \/ LoginCortex(c)
  \/ EnsureCortex(c)
  \/ ResolveContext(c)
  \/ LoginServer(c)
  \/ LoginContext(c)
  \/ LoginCurrent(c)

Next ==
  \E c \in Command :
    \/ Load(c)
    \/ Truncate(c)
    \/ Write(c)
    \/ Work(c)
    \/ ReloadSeeds(c)
    \/ Authorize(c)
    \/ StoreToken(c)
    \/ Fails(c)

Spec == Init /\ [][Next]_vars

-----------------------------------------------------------------------------
(* Properties.                                                             *)

\* The current context is always one of the contexts, or there is none: in
\* the file and in every copy, however the commands overwrite each other's
\* work.  Current() relies on it, and so does every switch.
CurrentExists ==
  /\ Consistent(file.cfg)
  /\ \A c \in Command : Consistent(mem[c])

\* The contexts a command is about, and whether it may change which one is
\* current.
About(c) ==
  CASE job[c].kind \in {"delete", "create"} -> {job[c].name}
    [] job[c].kind = "tokenContext" -> {job[c].name}
    [] job[c].kind = "tokenServer" -> {HostOf[job[c].server]}
    [] job[c].kind = "rename" -> {file.cfg.current, job[c].name}
    [] job[c].kind \in {"setServer", "loginToken"} -> {file.cfg.current}
    [] job[c].kind \in Logins -> {target[c]}
    [] job[c].kind \in {"loginCortex", "exec", "serve"} -> {Cortex}
    [] OTHER -> {}

Switches(c) ==
  \/ job[c].kind \in {"use", "create", "rename", "loginServer", "tokenServer", "loginCortex",
                      "serve"}
  \/ job[c].kind = "delete" /\ file.cfg.current = job[c].name

\* A command nobody else's write came in between changes only the context it
\* is about; exec in particular "is additive: it changes where nothing
\* points", and a config that has contexts is never seeded again, not even
\* when none of them is current.
SavesAreLocal ==
  [][\A c \in Command : Write(c) /\ ~disturbed[c] /\ ~IsEmpty(file.cfg) =>
       /\ \A n \in Name \ About(c) : file'.cfg.contexts[n] = file.cfg.contexts[n]
       /\ Switches(c) \/ file'.cfg.current = file.cfg.current]_vars

TokenFits(c) ==
  pc[c] \in {"saveOpen", "saveWrite"} /\ job[c].kind \in Logins =>
    mem[c].contexts[target[c]].server = issuer[c]

\* A login nobody interfered with, to the current context or to --context,
\* stores the token on a context whose server issued it.
TokenOnItsServer ==
  \A c \in Command :
    ~disturbed[c] /\ job[c].kind # "loginServer" => TokenFits(c)

-----------------------------------------------------------------------------
(* What the comments say, and the code does not do.                        *)

\* login: the token "has to land on the context the rest of the command
\* already used", and never "against another one's URL".
TokenNeverMisplaced == \A c \in Command : TokenFits(c)

=============================================================================
