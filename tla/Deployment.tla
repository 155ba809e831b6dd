----------------------------- MODULE Deployment -----------------------------
(***************************************************************************)
(* Instances of cimd-proxy starting, serving and stopping (__main__.py,    *)
(* app.py's lifespan), beside the migrations of the token store            *)
(* (migrations/, check_schema) and while the key that signs assertions is  *)
(* rotated (assertion.py, pat_api.py's jwks, deploy/README.md).            *)
(*                                                                         *)
(* The operator changes the settings of the deployment one step of the     *)
(* rotation at a time and restarts every instance before the next step;    *)
(* instances also crash, are rolled back to an older image and start at    *)
(* any time.  The provider (Keycloak) caches the key set: it fetches it    *)
(* for an unknown kid, from whichever instance the load balancer picks,    *)
(* but not again within some ten seconds of the last fetch (measured,      *)
(* measurements/jwt-authorization-grant/README.md, 7).                     *)
(***************************************************************************)
EXTENDS Configuration, Sequences

CONSTANTS
  Instances,      \* processes behind the public URL
  Assertions,     \* assertions on their way to the provider, or the last of them
  Releases,       \* images: the number of migrations each one ships
  Bases,          \* environments an instance may be given, but for the keys
  Rotation,       \* the signing settings of the deployment, step by step
  MaxMigrations,  \* bound: the highest version there is
  MaxStops        \* bound: crashes, stops and failed migrations

KeySettings == [keys : [Index -> Maybe([kid : Kids, file : BOOLEAN])], active : Kids]

\* The kids published at step n of the rotation.
KeysAt(n) == {Rotation[n].keys[i].kid : i \in {k \in Index : Rotation[n].keys[k] # None}}

Versions == 1..MaxMigrations

\* A row of the history with a version: applied, or recorded as failed.
Migration == [version : Versions, success : BOOLEAN]

\* deploy/README.md: a key is published one step before it signs and removed no
\* earlier than one step after it stopped signing.
ASSUME DeploymentAssumption ==
  /\ Last \in Nat
  /\ Releases \subseteq Nat
  /\ Bases \subseteq Environment
  /\ Rotation \in Seq(KeySettings) /\ Rotation # <<>>
  /\ \A n, m \in 1..Len(Rotation) :
       n - m \in {-1, 0, 1} => Rotation[n].active \in KeysAt(m)
  /\ MaxMigrations \in Nat /\ MaxStops \in Nat
  /\ None \notin Url \cup ResourceVars \cup KeyVars \cup ResourceEntry \cup PatConfig
  /\ None \notin Issuers \cup Kids \cup Nat \cup ProxyConfig \cup Instances
  /\ \A h \in SUBSET Migration : None # h

VARIABLES
  inst,     \* the instances: where, with which image, configuration and settings
  step,     \* the step of the rotation the deployment's settings are at
  history,  \* flyway_schema_history, None while there is no such table
  stops,    \* crashes, stops and failed migrations so far
  cached,   \* the provider's key set
  recent,   \* it was fetched less than the provider's interval ago
  cleared,  \* the key cache was cleared at the end of the rotation
  asn       \* the assertions

vars == <<inst, step, history, stops, cached, recent, cleared, asn>>
provider == <<cached, recent, cleared>>

Instance == [at : {"down", "opening", "checking", "serving"}, release : Maybe(Nat),
             config : Maybe(ProxyConfig), step : Maybe(Nat)]
Assertion == [from : Maybe(Instances), kid : Maybe(Kids), late : BOOLEAN,
              outcome : {"none", "sent", "accepted", "unknown", "stale", "lost"}]

Down == [at |-> "down", release |-> None, config |-> None, step |-> None]
NoAssertion == [from |-> None, kid |-> None, late |-> FALSE, outcome |-> "none"]

Init ==
  /\ inst = [i \in Instances |-> Down]
  /\ step = 1
  /\ history = None
  /\ stops = 0
  /\ cached = {}
  /\ recent = FALSE
  /\ cleared = FALSE
  /\ asn = [a \in Assertions |-> NoAssertion]

-----------------------------------------------------------------------------
(* Starting and stopping: main, create_app, lifespan. *)

\* A process that ends takes its requests with it.
Lost(i) ==
  asn' = [a \in Assertions |->
            IF asn[a].from = i /\ asn[a].outcome = "sent"
            THEN [asn[a] EXCEPT !.outcome = "lost"] ELSE asn[a]]

GoTo(i, where) == inst' = [inst EXCEPT ![i].at = where]

\* The environment of an instance started now: the keys are the deployment's,
\* PAT_SIGNING_KID too unless the base lacks it.
Deployed(base) ==
  IF ~base.database THEN base
  ELSE [base EXCEPT !.keys = Rotation[step].keys,
                    !.active = IF @ = None THEN None ELSE Rotation[step].active]

\* load_config, create_app: without personal access tokens there is no store to
\* open.
Start(i) ==
  /\ inst[i].at = "down"
  /\ \E base \in Bases, release \in Releases :
       LET env == Deployed(base) IN
       /\ Loads(env)
       /\ inst' = [inst EXCEPT ![i] =
                     [at |-> IF env.database THEN "opening" ELSE "serving",
                      release |-> release, config |-> LoadConfig(env), step |-> step]]
  /\ UNCHANGED <<step, history, stops, provider, asn>>

\* PostgresPatStore.open waits for a connection.
OpenPool(i) ==
  /\ inst[i].at = "opening"
  /\ GoTo(i, "checking")
  /\ UNCHANGED <<step, history, stops, provider, asn>>

\* _q_version: the highest version applied with success, 0 without the table.
Mutant_Applied == IF history = None THEN {} ELSE {m.version : m \in history}
Applied == IF history = None THEN {} ELSE {m.version : m \in {x \in history : x.success}}

\* check_schema: behind is refused, ahead is fine.
SchemaSuffices(release) == \E v \in Applied \cup {0} : release <= v

\* lifespan: the process serves, or closes the pool and ends.
CheckSchema(i) ==
  /\ inst[i].at = "checking"
  /\ \/ SchemaSuffices(inst[i].release) /\ GoTo(i, "serving")
     \/ ~SchemaSuffices(inst[i].release) /\ inst' = [inst EXCEPT ![i] = Down]
  /\ UNCHANGED <<step, history, stops, provider, asn>>

\* The restart a step of the rotation asks for; or a stop, a crash, a database
\* that cannot be reached while starting.
Stop(i) ==
  /\ inst[i].at # "down"
  /\ \/ inst[i].step # step /\ UNCHANGED stops
     \/ stops < MaxStops /\ stops' = stops + 1
  /\ inst' = [inst EXCEPT ![i] = Down]
  /\ Lost(i)
  /\ UNCHANGED <<step, history, provider>>

-----------------------------------------------------------------------------
(* Migrations: Flyway, from the cimd-proxy-migrations image of a release. *)

Recorded == IF history = None THEN {} ELSE history

\* The next version, in order; a failed one stops Flyway until it is repaired.
\* migrations.versions() makes the files run 1..n without gaps.
Migrate(v) ==
  /\ \A m \in Recorded : m.success
  /\ v \notin Applied /\ \A w \in 1..(v - 1) : w \in Applied
  /\ \/ history' = Recorded \cup {[version |-> v, success |-> TRUE]} /\ UNCHANGED stops
     \/ /\ stops < MaxStops
        /\ stops' = stops + 1
        /\ history' = Recorded \cup {[version |-> v, success |-> FALSE]}
  /\ UNCHANGED <<inst, step, provider, asn>>

Repair ==
  /\ \E m \in Recorded : ~m.success
  /\ history' = {m \in history : m.success}
  /\ UNCHANGED <<inst, step, stops, provider, asn>>

-----------------------------------------------------------------------------
(* Assertions and the provider's key cache. *)

ServesPat(i) == inst[i].at = "serving" /\ inst[i].config.pat # None

\* AssertionSigner.jwks, answered at /pat/jwks.json: every configured key.
Mutant_Jwks(i) == {inst[i].config.pat.signer.active}
Mutant_Jwks_Kept(i) == UNION {KeysAt(n) : n \in 1..inst[i].step}
Jwks(i) == inst[i].config.pat.signer.kids

\* AssertionSigner.sign, with the active key, and the request to the provider.
Sign(a, i) ==
  /\ asn[a].outcome # "sent"
  /\ ServesPat(i)
  /\ asn' = [asn EXCEPT ![a] = [from |-> i, kid |-> inst[i].config.pat.signer.active,
                                late |-> FALSE, outcome |-> "sent"]]
  /\ UNCHANGED <<inst, step, history, stops, provider>>

\* Whoever holds a key that was once configured presents an assertion of its own.
Leak(a, kid) ==
  /\ asn[a].outcome # "sent"
  /\ asn' = [asn EXCEPT ![a] = [from |-> None, kid |-> kid, late |-> cleared,
                                outcome |-> "sent"]]
  /\ UNCHANGED <<inst, step, history, stops, provider>>

\* The provider verifies: a cached kid at once; an unknown one after a fetch, if
\* the last one is not recent and an instance answers.
Verify(a) ==
  /\ asn[a].outcome = "sent"
  /\ LET verdict(outcome) == asn' = [asn EXCEPT ![a].outcome = outcome]
         kid == asn[a].kid IN
       \/ kid \in cached /\ verdict("accepted") /\ UNCHANGED <<cached, recent>>
       \/ kid \notin cached /\ recent /\ verdict("stale") /\ UNCHANGED <<cached, recent>>
       \/ /\ kid \notin cached /\ ~recent
          /\ \E i \in Instances :
               /\ ServesPat(i)
               /\ cached' = Jwks(i)
               /\ recent' = TRUE
               /\ verdict(IF kid \in Jwks(i) THEN "accepted" ELSE "unknown")
       \/ /\ kid \notin cached /\ ~recent /\ \A i \in Instances : ~ServesPat(i)
          /\ verdict("lost") /\ UNCHANGED <<cached, recent>>
  /\ UNCHANGED <<inst, step, history, stops, cleared>>

\* Ten seconds pass.
FetchAges ==
  /\ recent
  /\ recent' = FALSE
  /\ UNCHANGED <<inst, step, history, stops, cached, cleared, asn>>

-----------------------------------------------------------------------------
(* The operator's procedure (deploy/README.md, "Rotating the signing key"). *)

\* Every instance runs with the present settings.
AllRestarted == \A i \in Instances : inst[i].step \in {None, step}

NextStep ==
  /\ step < Len(Rotation)
  /\ AllRestarted
  /\ step' = step + 1
  /\ UNCHANGED <<inst, history, stops, provider, asn>>

\* "Remove the old key and restart, then clear the provider's key cache."
EndsRotation == step = Len(Rotation) /\ AllRestarted

\* The cache may be cleared, or the provider restarted, at any time; done at the
\* end it is the last step of the rotation.
ClearKeysCache ==
  /\ cached' = {}
  /\ recent' = FALSE
  /\ cleared' = (cleared \/ EndsRotation)
  /\ UNCHANGED <<inst, step, history, stops, asn>>

-----------------------------------------------------------------------------
Next ==
  \/ \E i \in Instances : Start(i) \/ OpenPool(i) \/ CheckSchema(i) \/ Stop(i)
  \/ \E v \in Versions : Migrate(v)
  \/ Repair
  \/ \E a \in Assertions, i \in Instances : Sign(a, i)
  \/ \E a \in Assertions, n \in 1..step : \E kid \in KeysAt(n) : Leak(a, kid)
  \/ \E a \in Assertions : Verify(a)
  \/ FetchAges
  \/ NextStep
  \/ ClearKeysCache

Spec == Init /\ [][Next]_vars

-----------------------------------------------------------------------------
(* Properties. *)

\* Type invariant: instances, history, provider and assertions.
TypeOK ==
  /\ inst \in [Instances -> Instance]
  /\ step \in 1..Len(Rotation)
  /\ history \in Maybe(SUBSET Migration)
  /\ stops \in Nat
  /\ cached \subseteq Kids
  /\ recent \in BOOLEAN
  /\ cleared \in BOOLEAN
  /\ asn \in [Assertions -> Assertion]

\* An instance that serves personal access tokens finds the schema it needs for
\* as long as it serves: whatever images ran before or run beside it, whichever
\* migrations failed or came later (check_schema; "an image rollback runs against
\* the newer schema").
SchemaCoversServing ==
  \A i \in Instances :
    ServesPat(i) => \A v \in 1..inst[i].release : [version |-> v, success |-> TRUE] \in Recorded

\* What the start-up checks let through, the requests can use: the default
\* resource is found by the lookup requests make, and whatever URL a client names,
\* a resource that accepts personal access tokens is of the realm the store and
\* the signer belong to (load_config, resource_by_url).
ConfigIsUsable ==
  \A i \in Instances :
    inst[i].at = "serving" =>
      LET config == inst[i].config IN
      /\ config.default # None => \E k \in Index : ResourceByUrl(config, config.default, k)
      /\ \A url \in Url : \A k \in Index :
           ResourceByUrl(config, url, k) /\ config.resources[k].pat =>
             /\ config.pat # None
             /\ config.resources[k].issuer = config.pat.realm

\* Rotation leaves no gap but the provider's own: an assertion of a running
\* instance is refused only because the provider would not fetch yet; whenever it
\* does fetch, from any instance at any step, the key is there (AssertionSigner:
\* "Every configured key is published; only the active one signs").
FetchBringsTheKey ==
  \A a \in Assertions : asn[a].from # None => asn[a].outcome # "unknown"

\* The end of a rotation is the end of the old key: presented after the cache was
\* cleared, an assertion signed with a removed key is not accepted, though the
\* provider kept it for as long as it did not fetch.
ClearEndsOldKeys ==
  \A a \in Assertions :
    asn[a].late /\ asn[a].outcome = "accepted" => asn[a].kid \in KeysAt(Len(Rotation))
=============================================================================
