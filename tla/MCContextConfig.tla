-------------------------- MODULE MCContextConfig --------------------------
(* Model-checking instance of ContextConfig: the default server's host has *)
(* a second URI, and the seeded cortex URI a host of its own.              *)
EXTENDS ContextConfig, TLC

CONSTANTS remote, local, cortex, uri1, uri2, uriLocal

\* Hosts without ports: two URIs of one host share a context name.
MCHostOf == uri1 :> remote @@ uri2 :> remote @@ uriLocal :> local

\* What one or two earlier commands leave: a fresh config, one that was logged
\* in to, one whose current context was deleted, one with a second context
\* for the other URI's host and a namespace, and one that lost its cortex.
MCStarts ==
  LET first == Seeded(Empty, uri1)
      ctx(s, t, ns) == [server |-> s, token |-> t, namespace |-> ns]
      loggedIn == Upsert(first, remote, ctx(uri1, uri1, TRUE))
      withoutRemote == [Upsert(first, remote, None) EXCEPT !.current = None]
      withoutCortex == Upsert(loggedIn, cortex, None)
  IN  {first, loggedIn, withoutRemote, SetCurrent(withoutRemote, cortex),
       SetCurrent(Upsert(loggedIn, local, ctx(uriLocal, None, FALSE)), local),
       [first EXCEPT !.current = None],
       SetCurrent(Upsert(first, cortex, ctx(uriLocal, None, TRUE)), cortex),
       withoutCortex,
       Upsert(withoutCortex, remote, ctx(uri2, uri1, TRUE))}

MCFreshStart == {Seeded(Empty, uri1)}

\* Commands are interchangeable, and there is no liveness property.
Symmetry == Permutations(Command)

=============================================================================
