--------------------------- MODULE Configuration ---------------------------
(***************************************************************************)
(* load_config (cimd_proxy/config.py): what an environment must hold for a *)
(* process to start, and the configuration it then runs with.  An unset    *)
(* and a blank variable are both None (_required); a table is a function   *)
(* on the indices, None where no variable of that index is set.  Of the    *)
(* values only what the checks and the requests look at is kept.           *)
(***************************************************************************)
EXTENDS Integers

CONSTANTS
  Hosts,    \* scheme and authority of a URL
  Issuers,  \* issuer URLs, without the trailing slash rstrip removes
  Kids,     \* key ids
  Last,     \* bound: the highest index of a table
  None

Index == 0..Last
Maybe(S) == S \cup {None}

(***************************************************************************)
(* A resource URL: with a path beyond "/" or not, with a trailing slash or *)
(* not.                                                                    *)
(***************************************************************************)
Url == [host : Hosts, path : BOOLEAN, slash : BOOLEAN]

\* RESOURCE_n_URL, _ISSUER, _CLIENT_ID, _PAT_CLIENT_ID and _PAT_CLIENT_SECRET.
ResourceVars == [url : Maybe(Url), issuer : Maybe(Issuers), client : BOOLEAN,
                 patClient : BOOLEAN, patSecret : BOOLEAN]

\* PAT_SIGNING_KEY_n_KID and _FILE: is the file an RSA key of 2048 bits or more?
KeyVars == [kid : Maybe(Kids), file : BOOLEAN]

Environment ==
  [resources : [Index -> Maybe(ResourceVars)], default : Maybe(Url),
   ttlMin : Int, ttlMax : Int, database : BOOLEAN, realm : Maybe(Issuers),
   keys : [Index -> Maybe(KeyVars)], active : Maybe(Kids)]

ResourceEntry == [url : Url, issuer : Issuers, pat : BOOLEAN]

\* AssertionSigner: the kids published and the one that signs.
Signer == [kids : SUBSET Kids, active : Kids]

PatConfig == [realm : Issuers, signer : Signer]

ProxyConfig == [resources : [Index -> Maybe(ResourceEntry)], default : Maybe(Url),
                pat : Maybe(PatConfig)]

-----------------------------------------------------------------------------
\* rstrip("/")
Strip(url) == [url EXCEPT !.slash = FALSE]

\* _normalise_requested_url folds "/" into the empty path and nothing else.
NormaliseRequested(url) == IF url.path THEN url ELSE Strip(url)

\* Indices run contiguously from 0; one over a gap is an error.
Contiguous(table) ==
  \A i, j \in Index : i < j /\ table[j] # None => table[i] # None

\* _load_resources, _pat_client: is this entry of the table complete?
ResourceLoads(row) ==
  /\ row.url # None
  /\ row.issuer # None
  /\ row.client
  /\ row.patClient = row.patSecret

LoadResources(env) ==
  [i \in Index |->
     IF env.resources[i] = None THEN None
     ELSE [url |-> Strip(env.resources[i].url), issuer |-> env.resources[i].issuer,
           pat |-> env.resources[i].patClient]]

ResourcesLoad(env) ==
  /\ Contiguous(env.resources)
  /\ \A i \in Index : env.resources[i] # None => ResourceLoads(env.resources[i])

\* DEFAULT_RESOURCE is compared with the table as it stands.
Mutant_DefaultKnown(env) ==
  env.default # None =>
    \E i \in Index : LoadResources(env)[i] # None
                     /\ LoadResources(env)[i].url = Strip(env.default)
DefaultKnown(env) ==
  env.default # None =>
    \E i \in Index : LoadResources(env)[i] # None
                     /\ LoadResources(env)[i].url = env.default

\* A PAT_* or _PAT_CLIENT_ variable while PAT_DATABASE_URL is not set.
StrayPat(env) ==
  \/ env.realm # None \/ env.active # None
  \/ \E i \in Index : env.keys[i] # None
  \/ \E i \in Index : env.resources[i] # None
                      /\ (env.resources[i].patClient \/ env.resources[i].patSecret)

Published(env) == {env.keys[i].kid : i \in {k \in Index : env.keys[k] # None}}

\* _load_signer and AssertionSigner.__post_init__.
Mutant_SignerLoads(env) ==
  /\ Contiguous(env.keys)
  /\ \A i \in Index : env.keys[i] # None => env.keys[i].kid # None /\ env.keys[i].file
  /\ env.keys[0] # None
SignerLoads(env) ==
  /\ Contiguous(env.keys)
  /\ \A i \in Index : env.keys[i] # None => env.keys[i].kid # None /\ env.keys[i].file
  /\ env.keys[0] # None
  /\ \A i, j \in Index :
       env.keys[i] # None /\ env.keys[j] # None /\ env.keys[i].kid = env.keys[j].kid => i = j
  /\ env.active \in Published(env)

\* _load_pat, with PAT_DATABASE_URL set.
PatResources(env) == {i \in Index : env.resources[i] # None /\ env.resources[i].patClient}

PatLoads(env) ==
  /\ env.realm # None
  /\ PatResources(env) # {}
  /\ \A i \in PatResources(env) : env.resources[i].issuer = env.realm
  /\ SignerLoads(env)

\* load_config raises no ConfigError.
Loads(env) ==
  /\ 0 < env.ttlMin /\ env.ttlMin <= env.ttlMax
  /\ ResourcesLoad(env)
  /\ DefaultKnown(env)
  /\ IF env.database THEN PatLoads(env) ELSE ~StrayPat(env)

LoadPat(env) ==
  IF ~env.database THEN None
  ELSE [realm |-> env.realm,
        signer |-> [kids |-> Published(env), active |-> env.active]]

LoadConfig(env) ==
  [resources |-> LoadResources(env), default |-> env.default, pat |-> LoadPat(env)]

-----------------------------------------------------------------------------
(* The lookup a request makes: resource_by_url returns the first match. *)

Matches(config, url) ==
  {i \in Index : config.resources[i] # None
                 /\ config.resources[i].url = NormaliseRequested(url)}

ResourceByUrl(config, url, i) ==
  i \in Matches(config, url) /\ \A j \in Matches(config, url) : i <= j
=============================================================================
