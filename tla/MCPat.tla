-------------------------------- MODULE MCPat --------------------------------
(***************************************************************************)
(* Instances of PatService for TLC: the values the configurations MCPat*.cfg *)
(* give to the constants that are functions, records or sets of them.      *)
(***************************************************************************)
EXTENDS PatService, TLC

CONSTANTS o1, o2, g1, g2, u1, u2, x1, x2, s1, s2, realmA, realmB

OneRealm == [o \in Owners |-> realmA]
OneUrl == u1 :> x1
TwoUrls == u1 :> x1 @@ u2 :> x2

\* By deploy/README.md the permission sets are optional client scopes; the
\* instance with SomeDefaults attaches one of them as default at x2.
NoDefaults == [x \in Resources |-> {}]
SomeDefaults == x1 :> {} @@ x2 :> {s2}

OneConfig == {[realm |-> realmA, accepts |-> Resources, offered |-> Scopes]}

\* Redeployments: another realm, no resource left, fewer scopes offered.
Redeployments ==
  OneConfig \cup
  {[realm |-> realmB, accepts |-> Resources, offered |-> Scopes],
   [realm |-> realmA, accepts |-> {}, offered |-> Scopes],
   [realm |-> realmA, accepts |-> Resources, offered |-> {s1}]}

\* A redeployment to another realm, and back.
RealmMove ==
  OneConfig \cup {[realm |-> realmB, accepts |-> Resources, offered |-> Scopes]}

AllRoles == [o \in Owners |-> [x \in Resources |-> Scopes]]
FullRoster == {[roles |-> AllRoles, member |-> [o \in Owners |-> {g1}]]}

\* An owner in no, one or two organizations, who may carry either scope or both.
MixedRosters ==
  {[roles |-> [o \in Owners |-> [x \in Resources |-> S]],
    member |-> [o \in Owners |-> G]] :
     S \in {{s1}, {s1, s2}}, G \in {{}, {g1}, {g1, g2}}}

\* An owner in one or two organizations.
SomeOrgs ==
  {[roles |-> AllRoles, member |-> [o \in Owners |-> G]] : G \in {{g1}, {g1, g2}}}

RevocationSymmetry == Permutations(Revocations)
ExchangeSymmetry == Permutations(Exchanges)
=============================================================================
