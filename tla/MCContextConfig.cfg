CONSTANTS
  Command = {c1, c2}
  Kind = {"use", "delete", "create", "rename", "setServer", "login", "loginServer",
          "loginContext", "loginToken", "tokenServer", "tokenContext", "loginCortex", "exec", "serve", "resolve"}
  remote = remote
  local = local
  cortex = cortex
  uri1 = uri1
  uri2 = uri2
  uriLocal = uriLocal
  Name = {remote, local, cortex}
  Cortex = cortex
  Server = {uri1, uri2, uriLocal}
  CortexServer = uriLocal
  DefaultServer = uri1
  HostOf <- MCHostOf
  Starts <- MCStarts
  None = None
SPECIFICATION Spec
SYMMETRY Symmetry
CHECK_DEADLOCK FALSE
INVARIANTS
  TypeOK
  CurrentExists
  TokenOnItsServer
PROPERTIES
  SavesAreLocal
