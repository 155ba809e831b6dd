------------------------------ MODULE MCDeploy ------------------------------
(***************************************************************************)
(* An instance of Deployment for TLC: a rotation from one key to another   *)
(* under two images, with good and mistaken environments.                  *)
(***************************************************************************)
EXTENDS Deployment, TLC

CONSTANTS host, issA, issB, kidA, kidB

Keys(first, second) ==
  0 :> [kid |-> first, file |-> TRUE]
  @@ 1 :> (IF second = None THEN None ELSE [kid |-> second, file |-> TRUE])
NoKeys == [i \in Index |-> None]

\* deploy/README.md: publish the new key, sign with it, remove the old one.
OldToNew ==
  << [keys |-> Keys(kidA, None), active |-> kidA],
     [keys |-> Keys(kidA, kidB), active |-> kidA],
     [keys |-> Keys(kidA, kidB), active |-> kidB],
     [keys |-> Keys(kidB, None), active |-> kidB] >>

Root == [host |-> host, path |-> FALSE, slash |-> TRUE]
Deep == [host |-> host, path |-> TRUE, slash |-> TRUE]
Row(url, issuer, pat) ==
  [url |-> url, issuer |-> issuer, client |-> TRUE, patClient |-> pat, patSecret |-> pat]

\* https://host/ accepts personal access tokens, https://host/path/ does not.
Good ==
  [resources |-> 0 :> Row(Root, issA, TRUE) @@ 1 :> Row(Deep, issB, FALSE),
   default |-> Strip(Deep), ttlMin |-> 1, ttlMax |-> 1,
   database |-> TRUE, realm |-> issA, keys |-> NoKeys, active |-> kidA]

NoPat ==
  [Good EXCEPT !.resources = 0 :> Row(Deep, issB, FALSE) @@ 1 :> None,
               !.database = FALSE, !.realm = None, !.active = None]

\* DEFAULT_RESOURCE with the slash, another realm, a stray variable, a gap in
\* the table, half a client, no active key, a TTL of zero.
Mistaken ==
  { [Good EXCEPT !.default = Deep],
    [Good EXCEPT !.realm = issB],
    [Good EXCEPT !.database = FALSE],
    [Good EXCEPT !.resources = 0 :> None @@ 1 :> Row(Root, issA, TRUE)],
    [Good EXCEPT !.resources[0].patSecret = FALSE],
    [Good EXCEPT !.active = None],
    [Good EXCEPT !.ttlMin = 0] }

GoodAndMistaken == {Good, NoPat} \cup Mistaken

InstanceSymmetry == Permutations(Instances)
=============================================================================
