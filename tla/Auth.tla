-------------------------------- MODULE Auth --------------------------------
(***************************************************************************)
(* The bearer-token gate of emitter.py, a dependency of every protected    *)
(* endpoint.  A token is a sequence of character codes.  A request's       *)
(* Authorization header is None or [scheme, token]; scheme "bearer" stands *)
(* for any capitalisation of the prefix the code accepts.                  *)
(***************************************************************************)
EXTENDS Optional, Naturals, Sequences

CONSTANT EmitterToken   \* EMITTER_TOKEN of the process, None when unset

\* Mutation: no length test.
ConsteqZipsOnly(a, b) == \A i \in DOMAIN a \cap DOMAIN b : a[i] = b[i]

\* zip stops at the shorter string: only the length test tells a prefix apart.
Consteq(a, b) ==
  /\ Len(a) = Len(b)
  /\ \A i \in DOMAIN a \cap DOMAIN b : a[i] = b[i]

RequireToken(authorization) ==
  \/ EmitterToken = None
  \/ /\ authorization # None
     /\ authorization.scheme = "bearer"
     /\ Consteq(authorization.token, EmitterToken)
=============================================================================
