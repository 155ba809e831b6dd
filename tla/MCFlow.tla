------------------------------- MODULE MCFlow -------------------------------
(***************************************************************************)
(* Instances of InteractiveFlow for TLC: redirect URIs, documents and      *)
(* deployments for the configurations MCFlow*.cfg.                         *)
(***************************************************************************)
EXTENDS InteractiveFlow, TLC

CONSTANTS web, local, x1, x2, i1, i2, key1, key2

Https == [scheme |-> "https", host |-> web, port |-> 1, path |-> "cb", clean |-> TRUE]
LocalOne == [scheme |-> "http", host |-> local, port |-> 1, path |-> "cb", clean |-> TRUE]
LocalTwo == [LocalOne EXCEPT !.port = 2]
PlainHttp == [Https EXCEPT !.scheme = "http"]
Fragment == [LocalOne EXCEPT !.clean = FALSE]

OneUri == {Https}
ManyUris == {Https, LocalOne, LocalTwo, PlainHttp, Fragment}
OneDocument == {{Https}}
TwoDocuments == {{Https}, {LocalOne}}

Deployment(key, client, default) == [key |-> key, client |-> client, default |-> default]
OneDeployment == {Deployment(key1, x1 :> i1, x1)}

\* No default; x2 gone; the clients of the two resources swapped; a new key.
Redeployments ==
  {Deployment(key1, x1 :> i1 @@ x2 :> i2, None),
   Deployment(key1, x1 :> i1 @@ x2 :> None, x1),
   Deployment(key1, x1 :> i2 @@ x2 :> i1, x1),
   Deployment(key2, x1 :> i1 @@ x2 :> i2, x1)}

FlowSymmetry == Permutations(Flows) \cup Permutations(Callbacks) \cup Permutations(Redemptions)
=============================================================================
