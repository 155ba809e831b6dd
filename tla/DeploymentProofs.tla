--------------------------- MODULE DeploymentProofs ---------------------------
(***************************************************************************)
(* Theorems about Deployment and Configuration, for every number of        *)
(* instances, images and migrations, every set of environments and every   *)
(* rotation that keeps to the operator's procedure.                        *)
(***************************************************************************)
EXTENDS Deployment, TLAPS, WellFoundedInduction

-----------------------------------------------------------------------------
(* What load_config lets through. *)

\* The environment of an instance is an environment.
LEMMA DeployedType ==
  ASSUME NEW base \in Bases, step \in 1..Len(Rotation)
  PROVE  Deployed(base) \in Environment
  <1>1. base \in Environment /\ Rotation[step] \in KeySettings
    BY DeploymentAssumption DEF DeploymentAssumption
  <1>2. /\ Rotation[step].keys \in [Index -> Maybe(KeyVars)]
        /\ Rotation[step].active \in Maybe(Kids)
    BY <1>1 DEF KeySettings, KeyVars, Maybe
  <1>. QED BY <1>1, <1>2 DEF Deployed, Environment, Maybe

\* A signer that loads has kids only and an active key (SignerLoads).
LEMMA LoadPatType ==
  ASSUME NEW env \in Environment, Loads(env), env.database
  PROVE  LoadPat(env) \in PatConfig
  <1>1. env.realm \in Issuers /\ SignerLoads(env)
    BY DEF Loads, PatLoads, Environment, Maybe
  <1>2. Published(env) \subseteq Kids
    <2> SUFFICES ASSUME NEW i \in Index, env.keys[i] # None
                 PROVE  env.keys[i].kid \in Kids
      BY DEF Published
    <2>1. env.keys[i] \in KeyVars /\ env.keys[i].kid # None
      BY <1>1 DEF Environment, Maybe, SignerLoads
    <2>. QED BY <2>1 DEF KeyVars, Maybe
  <1>3. env.active \in Kids
    BY <1>1, <1>2 DEF SignerLoads
  <1>4. [kids |-> Published(env), active |-> env.active] \in Signer
    BY <1>2, <1>3 DEF Signer
  <1>. QED BY <1>1, <1>4 DEF LoadPat, PatConfig

\* Configurations that load are well typed: no half resource, no key without a
\* kid and no signer without an active key (ResourcesLoad, SignerLoads).
LEMMA LoadConfigType ==
  ASSUME NEW env \in Environment, Loads(env)
  PROVE  LoadConfig(env) \in ProxyConfig
  <1>1. LoadResources(env) \in [Index -> Maybe(ResourceEntry)]
    <2> SUFFICES ASSUME NEW i \in Index, env.resources[i] # None
                 PROVE  [url |-> Strip(env.resources[i].url),
                         issuer |-> env.resources[i].issuer,
                         pat |-> env.resources[i].patClient] \in ResourceEntry
      BY DEF LoadResources, Maybe
    <2>1. env.resources[i] \in ResourceVars /\ ResourceLoads(env.resources[i])
      BY DEF Environment, Maybe, Loads, ResourcesLoad
    <2>2. /\ env.resources[i].url \in Url /\ env.resources[i].issuer \in Issuers
          /\ env.resources[i].patClient \in BOOLEAN
      BY <2>1 DEF ResourceVars, ResourceLoads, Maybe
    <2>3. Strip(env.resources[i].url) \in Url
      BY <2>2 DEF Strip, Url
    <2>. QED BY <2>2, <2>3 DEF ResourceEntry
  <1>2. LoadPat(env) \in Maybe(PatConfig)
    <2>1. CASE ~env.database
      BY <2>1 DEF LoadPat, Maybe
    <2>2. CASE env.database
      BY <2>2, LoadPatType DEF Maybe
    <2>. QED BY <2>1, <2>2
  <1>3. env.default \in Maybe(Url)
    BY DEF Environment
  <1>. QED BY <1>1, <1>2, <1>3 DEF LoadConfig, ProxyConfig

(***************************************************************************)
(* What a loaded configuration owes to the checks: the table is stripped,  *)
(* the default is in it, and its resources with personal access tokens are *)
(* of the store's realm.                                                   *)
(***************************************************************************)
Usable(config) ==
  /\ config.default # None =>
       \E i \in Index : config.resources[i] # None /\ config.resources[i].url = config.default
  /\ \A i \in Index : config.resources[i] # None =>
       /\ config.resources[i].url.slash = FALSE
       /\ config.resources[i].pat =>
            config.pat # None /\ config.resources[i].issuer = config.pat.realm

\* Configurations that load are usable (DefaultKnown, StrayPat, PatLoads).
LEMMA LoadConfigUsable ==
  ASSUME NEW env \in Environment, Loads(env)
  PROVE  Usable(LoadConfig(env))
  <1>1. LoadConfig(env).default # None =>
          \E i \in Index : LoadConfig(env).resources[i] # None
                           /\ LoadConfig(env).resources[i].url = LoadConfig(env).default
    BY DEF Loads, DefaultKnown, LoadConfig
  <1>2. ASSUME NEW i \in Index, LoadConfig(env).resources[i] # None
        PROVE  /\ LoadConfig(env).resources[i].url.slash = FALSE
               /\ LoadConfig(env).resources[i].pat =>
                    /\ LoadConfig(env).pat # None
                    /\ LoadConfig(env).resources[i].issuer = LoadConfig(env).pat.realm
    <2>1. env.resources[i] # None
      BY <1>2 DEF LoadConfig, LoadResources
    <2>2. env.resources[i] \in ResourceVars /\ env.resources[i].url \in Url
      BY <2>1 DEF Environment, Maybe, Loads, ResourcesLoad, ResourceLoads, ResourceVars
    <2>3. /\ LoadConfig(env).resources[i].url = Strip(env.resources[i].url)
          /\ LoadConfig(env).resources[i].issuer = env.resources[i].issuer
          /\ LoadConfig(env).resources[i].pat = env.resources[i].patClient
      BY <2>1 DEF LoadConfig, LoadResources
    <2>4. Strip(env.resources[i].url).slash = FALSE
      BY <2>2 DEF Strip, Url
    <2>5. ASSUME env.resources[i].patClient
          PROVE  /\ LoadConfig(env).pat # None
                 /\ env.resources[i].issuer = LoadConfig(env).pat.realm
      <3>1. env.database
        BY <2>1, <2>5 DEF Loads, StrayPat
      <3>2. env.resources[i].issuer = env.realm
        BY <2>1, <2>5, <3>1 DEF Loads, PatLoads, PatResources
      <3>3. LoadConfig(env).pat.realm = env.realm
        BY <3>1 DEF LoadConfig, LoadPat
      <3>4. LoadConfig(env).pat # None
        <4>1. LoadConfig(env).pat \in PatConfig
          BY <3>1, LoadPatType DEF LoadConfig
        <4>. QED BY <4>1, DeploymentAssumption DEF DeploymentAssumption
      <3>. QED BY <3>2, <3>3, <3>4
    <2>. QED BY <2>3, <2>4, <2>5
  <1>. QED BY <1>1, <1>2 DEF Usable

\* An instance started now has the keys of the present step, and signs with the
\* step's active one.
LEMMA LoadConfigKeys ==
  ASSUME NEW base \in Bases, step \in 1..Len(Rotation), Loads(Deployed(base)),
         LoadConfig(Deployed(base)).pat # None
  PROVE  /\ Deployed(base).database
         /\ LoadConfig(Deployed(base)).pat.signer =
              [kids |-> KeysAt(step), active |-> Rotation[step].active]
  <1> DEFINE env == Deployed(base)
  <1>1. base \in Environment /\ Rotation[step] \in KeySettings
    BY DeploymentAssumption DEF DeploymentAssumption
  <1>2. env.database /\ base.database
    BY <1>1 DEF LoadConfig, LoadPat, Deployed, Environment
  <1>3. env = [base EXCEPT !.keys = Rotation[step].keys,
                           !.active = IF base.active = None THEN None ELSE Rotation[step].active]
    BY <1>2 DEF Deployed
  <1>4. /\ env.keys = Rotation[step].keys
        /\ env.active = IF base.active = None THEN None ELSE Rotation[step].active
    BY <1>1, <1>3 DEF Environment
  <1>5. env \in Environment
    BY DeployedType
  <1> HIDE DEF env
  <1>6. Published(env) = KeysAt(step)
    BY <1>4 DEF Published, KeysAt
  <1>7. env.active \in Published(env) /\ env.active \in Kids
    <2>1. LoadPat(env) \in PatConfig
      BY <1>2, <1>5, LoadPatType DEF env
    <2>2. LoadPat(env).signer.active = env.active
      BY <1>2 DEF LoadPat
    <2>3. SignerLoads(env)
      BY <1>2 DEF Loads, PatLoads, env
    <2>. QED BY <2>1, <2>2, <2>3 DEF PatConfig, Signer, SignerLoads
  <1>8. env.active = Rotation[step].active
    BY <1>4, <1>7, DeploymentAssumption DEF DeploymentAssumption
  <1>9. LoadConfig(env).pat.signer = [kids |-> KeysAt(step), active |-> Rotation[step].active]
    BY <1>2, <1>6, <1>8 DEF LoadConfig, LoadPat
  <1>. QED BY <1>2, <1>9 DEF env

-----------------------------------------------------------------------------
(* Types, and what a process that is not down holds. *)

(***************************************************************************)
(* A process that is not down runs with a configuration that loaded, at    *)
(* the present step of the rotation or the one before.                     *)
(***************************************************************************)
Signs(config, n) ==
  config.pat # None =>
    config.pat.signer = [kids |-> KeysAt(n), active |-> Rotation[n].active]

Running(r, n) ==
  /\ r.config \in ProxyConfig /\ r.release \in Nat
  /\ r.step \in 1..Len(Rotation) /\ r.step \in {n - 1, n}
  /\ Usable(r.config)
  /\ Signs(r.config, r.step)

AllRunning == \A i \in Instances : inst[i].at # "down" => Running(inst[i], step)

TypeInv == TypeOK /\ AllRunning

\* The initial states are well typed.
LEMMA InitType == Init => TypeInv
  <1> SUFFICES ASSUME Init PROVE TypeInv
    OBVIOUS
  <1>1. inst \in [Instances -> Instance] /\ AllRunning
    BY DEF Init, Down, Instance, Maybe, AllRunning
  <1>2. asn \in [Assertions -> Assertion]
    BY DEF Init, NoAssertion, Assertion, Maybe
  <1>3. step \in 1..Len(Rotation)
    BY DeploymentAssumption DEF Init, DeploymentAssumption
  <1>. QED BY <1>1, <1>2, <1>3 DEF Init, TypeInv, TypeOK, Maybe

\* load_config and create_app leave a typed, running instance.
LEMMA StartType ==
  ASSUME TypeInv, NEW i \in Instances, Start(i)
  PROVE  /\ TypeInv'
         /\ inst'[i].step = step
         /\ inst'[i].at = "opening" \/ (inst'[i].at = "serving" /\ inst'[i].config.pat = None)
         /\ \A j \in Instances : j # i => inst'[j] = inst[j]
  <1>1. PICK base \in Bases, release \in Releases :
          /\ Loads(Deployed(base))
          /\ inst' = [inst EXCEPT ![i] =
                        [at |-> IF Deployed(base).database THEN "opening" ELSE "serving",
                         release |-> release, config |-> LoadConfig(Deployed(base)),
                         step |-> step]]
    BY DEF Start
  <1> DEFINE config == LoadConfig(Deployed(base))
  <1>2. step \in 1..Len(Rotation) /\ release \in Nat /\ Deployed(base) \in Environment
    BY DeploymentAssumption, DeployedType DEF TypeInv, TypeOK, DeploymentAssumption
  <1>3. config \in ProxyConfig /\ Usable(config) /\ Signs(config, step)
    BY <1>1, <1>2, LoadConfigType, LoadConfigUsable, LoadConfigKeys DEF Signs
  <1>4. ~Deployed(base).database => config.pat = None
    BY DEF LoadConfig, LoadPat
  <1> HIDE DEF config
  <1>5. /\ inst'[i] = [at |-> IF Deployed(base).database THEN "opening" ELSE "serving",
                       release |-> release, config |-> config, step |-> step]
        /\ \A j \in Instances : j # i => inst'[j] = inst[j]
        /\ inst' = [j \in Instances |-> inst'[j]]
    BY <1>1 DEF TypeInv, TypeOK, config
  <1>6. inst'[i] \in Instance /\ Running(inst'[i], step)
    <2>1. [at |-> IF Deployed(base).database THEN "opening" ELSE "serving",
           release |-> release, config |-> config, step |-> step] \in Instance
      BY <1>2, <1>3 DEF Instance, Maybe
    <2>. QED BY <1>2, <1>3, <1>5, <2>1 DEF Running
  <1>7. inst' \in [Instances -> Instance]
    BY <1>5, <1>6 DEF TypeInv, TypeOK
  <1>8. UNCHANGED <<step, history, stops, cached, recent, cleared, asn>>
    BY DEF Start, provider
  <1>9. TypeOK'
    BY <1>7, <1>8 DEF TypeInv, TypeOK
  <1>10. AllRunning'
    BY <1>5, <1>6, <1>8 DEF TypeInv, AllRunning
  <1>. QED BY <1>4, <1>5, <1>9, <1>10 DEF TypeInv

(***************************************************************************)
(* Instances stay as they are, move along their start-up, or go down.      *)
(***************************************************************************)
Kept ==
  /\ inst' \in [Instances -> Instance]
  /\ \A i \in Instances :
       inst'[i].at # "down" =>
         /\ inst[i].at # "down"
         /\ inst'[i].config = inst[i].config
         /\ inst'[i].step = inst[i].step
         /\ inst'[i].release = inst[i].release

\* Such instances run on as before.
LEMMA KeptRuns ==
  ASSUME TypeInv, Kept, UNCHANGED step PROVE AllRunning'
  <1> SUFFICES ASSUME NEW i \in Instances, inst'[i].at # "down"
               PROVE  Running(inst'[i], step)
    BY DEF AllRunning
  <1>1. Running(inst[i], step)
    BY DEF Kept, TypeInv, AllRunning
  <1>. QED BY <1>1 DEF Kept, Running

\* One instance goes down, and the others stay.
LEMMA DownKeeps ==
  ASSUME TypeOK, NEW i \in Instances, inst' = [inst EXCEPT ![i] = Down]
  PROVE  /\ Kept /\ inst'[i].at = "down"
         /\ \A j \in Instances : j # i => inst'[j] = inst[j]
  <1>1. Down \in Instance
    BY DEF Down, Instance, Maybe
  <1>2. Down.at = "down"
    BY DEF Down
  <1>. QED BY <1>1, <1>2 DEF TypeOK, Kept

\* One instance moves on, and the others stay.
LEMMA GoToKeeps ==
  ASSUME TypeOK, NEW i \in Instances, inst[i].at # "down",
         NEW where \in {"checking", "serving"}, GoTo(i, where)
  PROVE  /\ Kept /\ inst'[i].at = where /\ inst'[i].config = inst[i].config
         /\ \A j \in Instances : j # i => inst'[j] = inst[j]
  <1>1. inst[i] \in Instance
    BY DEF TypeOK
  <1>2. [inst[i] EXCEPT !.at = where] \in Instance
    BY <1>1 DEF Instance
  <1>3. /\ inst'[i] = [inst[i] EXCEPT !.at = where]
        /\ \A j \in Instances : j # i => inst'[j] = inst[j]
        /\ inst' = [j \in Instances |-> inst'[j]]
    BY DEF TypeOK, GoTo
  <1>4. /\ inst'[i].at = where /\ inst'[i].config = inst[i].config
        /\ inst'[i].step = inst[i].step /\ inst'[i].release = inst[i].release
    BY <1>1, <1>3 DEF Instance
  <1>5. inst' \in [Instances -> Instance]
    BY <1>2, <1>3 DEF TypeOK
  <1>. QED BY <1>3, <1>4, <1>5 DEF Kept

(***************************************************************************)
(* What becomes of an assertion that is not a new one: it stays as it is,  *)
(* or it was under way and has an outcome now.                             *)
(***************************************************************************)
Settles(a) ==
  \/ asn'[a] = asn[a]
  \/ /\ asn[a].outcome = "sent" /\ asn'[a].outcome \in {"accepted", "unknown", "stale", "lost"}
     /\ asn'[a].from = asn[a].from /\ asn'[a].kid = asn[a].kid /\ asn'[a].late = asn[a].late

\* A verdict settles one assertion.
LEMMA VerdictSettles ==
  ASSUME TypeOK, NEW a \in Assertions, asn[a].outcome = "sent",
         NEW outcome \in {"accepted", "unknown", "stale", "lost"},
         asn' = [asn EXCEPT ![a].outcome = outcome]
  PROVE  /\ asn' \in [Assertions -> Assertion]
         /\ Settles(a) /\ asn'[a].outcome = outcome /\ asn'[a].late = asn[a].late
         /\ asn'[a].from = asn[a].from /\ asn'[a].kid = asn[a].kid
         /\ \A e \in Assertions : e # a => asn'[e] = asn[e]
  <1>1. asn[a] \in Assertion
    BY DEF TypeOK
  <1>2. /\ asn'[a] = [asn[a] EXCEPT !.outcome = outcome]
        /\ \A e \in Assertions : e # a => asn'[e] = asn[e]
        /\ asn' = [e \in Assertions |-> asn'[e]]
    BY DEF TypeOK
  <1>3. /\ asn'[a] \in Assertion /\ asn'[a].outcome = outcome /\ asn'[a].late = asn[a].late
        /\ asn'[a].from = asn[a].from /\ asn'[a].kid = asn[a].kid
    BY <1>1, <1>2 DEF Assertion
  <1>4. asn' \in [Assertions -> Assertion]
    BY <1>2, <1>3 DEF TypeOK
  <1>. QED BY <1>2, <1>3, <1>4 DEF Settles

\* A process that ends settles its assertions as lost.
LEMMA LostSettles ==
  ASSUME TypeOK, NEW i \in Instances, Lost(i)
  PROVE  /\ asn' \in [Assertions -> Assertion]
         /\ \A a \in Assertions :
              /\ Settles(a)
              /\ asn'[a].outcome \in {asn[a].outcome, "lost"}
              /\ asn'[a].outcome = "sent" => asn[a].from # i
  <1>1. ASSUME NEW a \in Assertions
        PROVE  /\ asn'[a] \in Assertion /\ Settles(a)
               /\ asn'[a].outcome \in {asn[a].outcome, "lost"}
               /\ asn'[a].outcome = "sent" => asn[a].from # i
    <2>1. asn[a] \in Assertion
      BY DEF TypeOK
    <2>2. CASE asn[a].from = i /\ asn[a].outcome = "sent"
      <3>1. asn'[a] = [asn[a] EXCEPT !.outcome = "lost"]
        BY <2>2 DEF Lost
      <3>2. /\ asn'[a] \in Assertion /\ asn'[a].outcome = "lost" /\ asn'[a].late = asn[a].late
            /\ asn'[a].from = asn[a].from /\ asn'[a].kid = asn[a].kid
        BY <2>1, <3>1 DEF Assertion
      <3>. QED BY <2>2, <3>2 DEF Settles
    <2>3. CASE ~(asn[a].from = i /\ asn[a].outcome = "sent")
      BY <2>1, <2>3 DEF Lost, Settles
    <2>. QED BY <2>2, <2>3
  <1>2. asn' = [a \in Assertions |-> asn'[a]]
    BY DEF Lost
  <1>. QED BY <1>1, <1>2

\* Opening the pool, check_schema and a stop keep the types.
LEMMA LifecycleType ==
  ASSUME TypeInv, NEW i \in Instances, OpenPool(i) \/ CheckSchema(i) \/ Stop(i)
  PROVE  TypeInv' /\ Kept
  <1>0. TypeOK
    BY DEF TypeInv
  <1>1. Kept
    <2>1. CASE \E where \in {"checking", "serving"} : inst[i].at # "down" /\ GoTo(i, where)
      BY <1>0, <2>1, GoToKeeps
    <2>2. CASE inst' = [inst EXCEPT ![i] = Down]
      BY <1>0, <2>2, DownKeeps
    <2>. QED BY <2>1, <2>2 DEF OpenPool, CheckSchema, Stop
  <1>2. asn' \in [Assertions -> Assertion]
    BY <1>0, LostSettles DEF OpenPool, CheckSchema, Stop, TypeOK
  <1>3. stops' \in Nat /\ UNCHANGED <<step, history, cached, recent, cleared>>
    BY <1>0 DEF OpenPool, CheckSchema, Stop, provider, TypeOK
  <1>4. TypeOK'
    BY <1>0, <1>1, <1>2, <1>3 DEF TypeOK, Kept
  <1>5. AllRunning'
    BY <1>1, <1>3, KeptRuns
  <1>. QED BY <1>1, <1>4, <1>5 DEF TypeInv

\* The rows with a version, None or not.
LEMMA RecordedType == TypeOK => Recorded \subseteq Migration
  BY DEF TypeOK, Recorded, Maybe

\* Migrations keep the types.
LEMMA MigrateType ==
  ASSUME TypeInv, Repair \/ \E v \in Versions : Migrate(v)
  PROVE  TypeInv' /\ history' \subseteq Migration
  <1>1. Recorded \subseteq Migration
    BY RecordedType DEF TypeInv
  <1>2. \A v \in Versions, ok \in BOOLEAN : [version |-> v, success |-> ok] \in Migration
    BY DEF Migration
  <1>3. history' \subseteq Migration
    <2>1. CASE Repair
      BY <1>1, <2>1 DEF Repair, Recorded
    <2>2. ASSUME NEW v \in Versions, Migrate(v) PROVE history' \subseteq Migration
      BY <1>1, <1>2, <2>2 DEF Migrate
    <2>. QED BY <2>1, <2>2
  <1>4. /\ stops' \in Nat
        /\ UNCHANGED <<inst, step, cached, recent, cleared, asn>>
    BY DEF TypeInv, TypeOK, Repair, Migrate, provider
  <1>5. TypeOK'
    BY <1>3, <1>4 DEF TypeInv, TypeOK, Maybe
  <1>6. AllRunning'
    BY <1>4 DEF TypeInv, AllRunning
  <1>. QED BY <1>3, <1>5, <1>6 DEF TypeInv

\* What a serving instance publishes and signs with are kids.
LEMMA ServesPatType ==
  ASSUME TypeInv, NEW i \in Instances, ServesPat(i)
  PROVE  /\ inst[i].config.pat.signer \in Signer
         /\ Jwks(i) = KeysAt(inst[i].step)
         /\ inst[i].config.pat.signer.active = Rotation[inst[i].step].active
         /\ inst[i].step \in 1..Len(Rotation) /\ inst[i].step \in {step - 1, step}
  <1>1. Running(inst[i], step) /\ inst[i].config.pat # None
    BY DEF TypeInv, AllRunning, ServesPat
  <1>2. inst[i].config.pat \in PatConfig
    BY <1>1 DEF Running, ProxyConfig, Maybe
  <1>. QED BY <1>1, <1>2 DEF Running, Signs, PatConfig, Jwks

\* The keys of the rotation have kids.
LEMMA KeysAtType == \A n \in 1..Len(Rotation) : KeysAt(n) \subseteq Kids
  <1> SUFFICES ASSUME NEW n \in 1..Len(Rotation), NEW i \in Index, Rotation[n].keys[i] # None
               PROVE  Rotation[n].keys[i].kid \in Kids
    BY DEF KeysAt
  <1>1. Rotation[n] \in KeySettings
    BY DeploymentAssumption DEF DeploymentAssumption
  <1>. QED BY <1>1 DEF KeySettings, Maybe

\* New assertions, the instances' and others', keep the types.
LEMMA PresentType ==
  ASSUME TypeInv, NEW a \in Assertions,
         \/ \E i \in Instances : Sign(a, i)
         \/ \E n \in 1..step : \E kid \in KeysAt(n) : Leak(a, kid)
  PROVE  TypeInv'
  <1>1. asn' \in [Assertions -> Assertion]
    <2>1. ASSUME NEW i \in Instances, Sign(a, i) PROVE asn' \in [Assertions -> Assertion]
      <3>1. inst[i].config.pat.signer.active \in Kids
        BY <2>1, ServesPatType DEF Sign, Signer
      <3>2. [from |-> i, kid |-> inst[i].config.pat.signer.active,
             late |-> FALSE, outcome |-> "sent"] \in Assertion
        BY <3>1 DEF Assertion, Maybe
      <3>. QED BY <2>1, <3>2 DEF Sign, TypeInv, TypeOK
    <2>2. ASSUME NEW n \in 1..step, NEW kid \in KeysAt(n), Leak(a, kid)
          PROVE  asn' \in [Assertions -> Assertion]
      <3>1. kid \in Kids
        BY KeysAtType DEF TypeInv, TypeOK
      <3>2. [from |-> None, kid |-> kid, late |-> cleared, outcome |-> "sent"] \in Assertion
        BY <3>1 DEF Assertion, Maybe, TypeInv, TypeOK
      <3>. QED BY <2>2, <3>2 DEF Leak, TypeInv, TypeOK
    <2>. QED BY <2>1, <2>2
  <1>2. UNCHANGED <<inst, step, history, stops, cached, recent, cleared>>
    BY DEF Sign, Leak, provider
  <1>3. TypeOK'
    BY <1>1, <1>2 DEF TypeInv, TypeOK
  <1>4. AllRunning'
    BY <1>2 DEF TypeInv, AllRunning
  <1>. QED BY <1>3, <1>4 DEF TypeInv

(***************************************************************************)
(* What a verification comes to: the kid was cached; or a fetch decided;   *)
(* or there was none.                                                      *)
(***************************************************************************)
Verified(a) ==
  \E outcome \in {"accepted", "unknown", "stale", "lost"} :
    /\ asn' = [asn EXCEPT ![a].outcome = outcome]
    /\ \/ /\ outcome = "accepted" => asn[a].kid \in cached
          /\ outcome # "unknown"
          /\ UNCHANGED <<cached, recent>>
       \/ \E i \in Instances :
            /\ ServesPat(i) /\ cached' = Jwks(i) /\ recent' = TRUE
            /\ outcome = "accepted" => asn[a].kid \in Jwks(i)
            /\ outcome = "unknown" => asn[a].kid \notin Jwks(i)

\* Verify, case by case.
LEMMA VerifyVerifies ==
  ASSUME NEW a \in Assertions, Verify(a) PROVE Verified(a)
  <1>1. CASE asn[a].kid \in cached
    BY <1>1 DEF Verify, Verified
  <1>2. CASE asn[a].kid \notin cached /\ recent
    BY <1>2 DEF Verify, Verified
  <1>3. CASE asn[a].kid \notin cached /\ ~recent /\ \E i \in Instances : ServesPat(i)
    <2>1. PICK i \in Instances :
            /\ ServesPat(i) /\ cached' = Jwks(i) /\ recent' = TRUE
            /\ asn' = [asn EXCEPT ![a].outcome =
                         IF asn[a].kid \in Jwks(i) THEN "accepted" ELSE "unknown"]
      BY <1>3 DEF Verify
    <2>2. CASE asn[a].kid \in Jwks(i)
      BY <2>1, <2>2 DEF Verified
    <2>3. CASE asn[a].kid \notin Jwks(i)
      BY <2>1, <2>3 DEF Verified
    <2>. QED BY <2>2, <2>3
  <1>4. CASE asn[a].kid \notin cached /\ ~recent /\ ~ \E i \in Instances : ServesPat(i)
    BY <1>4 DEF Verify, Verified
  <1>. QED BY <1>1, <1>2, <1>3, <1>4

\* The provider's verdict keeps the types.
LEMMA VerifyType ==
  ASSUME TypeInv, NEW a \in Assertions, Verify(a) PROVE TypeInv'
  <1>1. Verified(a) /\ asn[a].outcome = "sent"
    BY VerifyVerifies DEF Verify
  <1>2. asn' \in [Assertions -> Assertion]
    BY <1>1, VerdictSettles DEF TypeInv, Verified
  <1>3. cached' \subseteq Kids /\ recent' \in BOOLEAN
    BY <1>1, ServesPatType DEF TypeInv, TypeOK, Verified, Jwks, Signer
  <1>4. UNCHANGED <<inst, step, history, stops, cleared>>
    BY DEF Verify
  <1>5. TypeOK'
    BY <1>2, <1>3, <1>4 DEF TypeInv, TypeOK
  <1>6. AllRunning'
    BY <1>4 DEF TypeInv, AllRunning
  <1>. QED BY <1>5, <1>6 DEF TypeInv

\* The next step of the rotation finds every instance at the present one.
LEMMA NextStepType ==
  ASSUME TypeInv, NextStep PROVE TypeInv'
  <1>1. step \in 1..Len(Rotation) /\ step < Len(Rotation) /\ step' = step + 1
    BY DEF TypeInv, TypeOK, NextStep
  <1>2. UNCHANGED <<inst, history, stops, cached, recent, cleared, asn>>
    BY DEF NextStep, provider
  <1>3. TypeOK'
    BY <1>1, <1>2, DeploymentAssumption DEF TypeInv, TypeOK, DeploymentAssumption
  <1>4. AllRunning'
    <2> SUFFICES ASSUME NEW i \in Instances, inst[i].at # "down"
                 PROVE  Running(inst[i], step + 1)
      BY <1>1, <1>2 DEF AllRunning
    <2>1. Running(inst[i], step) /\ inst[i].step \in {None, step}
      BY DEF TypeInv, AllRunning, NextStep, AllRestarted
    <2>2. inst[i].step = step
      BY <2>1, DeploymentAssumption DEF Running, DeploymentAssumption
    <2>. QED BY <1>1, <2>1, <2>2 DEF Running
  <1>. QED BY <1>3, <1>4 DEF TypeInv

\* Every step keeps the types.
LEMMA NextType == TypeInv /\ [Next]_vars => TypeInv'
  <1> SUFFICES ASSUME TypeInv, [Next]_vars PROVE TypeInv'
    OBVIOUS
  <1>1. CASE \E i \in Instances : Start(i) \/ OpenPool(i) \/ CheckSchema(i) \/ Stop(i)
    BY <1>1, StartType, LifecycleType
  <1>2. CASE Repair \/ \E v \in Versions : Migrate(v)
    BY <1>2, MigrateType
  <1>3. CASE \/ \E a \in Assertions, i \in Instances : Sign(a, i)
             \/ \E a \in Assertions, n \in 1..step : \E kid \in KeysAt(n) : Leak(a, kid)
    BY <1>3, PresentType
  <1>4. CASE \E a \in Assertions : Verify(a)
    BY <1>4, VerifyType
  <1>5. CASE FetchAges \/ ClearKeysCache \/ UNCHANGED vars
    <2>1. /\ UNCHANGED <<inst, step, history, stops, asn>>
          /\ cached' \subseteq Kids /\ recent' \in BOOLEAN /\ cleared' \in BOOLEAN
      BY <1>5 DEF TypeInv, TypeOK, FetchAges, ClearKeysCache, vars
    <2>. QED BY <2>1 DEF TypeInv, TypeOK, AllRunning
  <1>6. CASE NextStep
    BY <1>6, NextStepType
  <1>. QED BY <1>1, <1>2, <1>3, <1>4, <1>5, <1>6 DEF Next

\* The typed invariant holds of every behaviour.
LEMMA SpecType == Spec => []TypeInv
  BY InitType, NextType, PTL DEF Spec

\* Every reachable state is well typed: no instance runs with a configuration
\* that is not one, and no assertion is signed without a key (TypeOK).
THEOREM TypeCorrect == Spec => []TypeOK
  <1>1. TypeInv => TypeOK
    BY DEF TypeInv
  <1>. QED BY <1>1, SpecType, PTL

\* A non-empty set of natural numbers has a least element.
LEMMA LeastNatural ==
  ASSUME NEW T, T \subseteq Nat, T # {}
  PROVE  \E x \in T : \A y \in T : x <= y
  <1> DEFINE R == OpToRel(<, Nat)
  <1>1. PICK x \in T : \A y \in T : ~ (<<y, x>> \in R)
    BY NatLessThanWellFounded, WFMin, Zenon
  <1>2. \A y \in T : ~(y < x)
    BY <1>1 DEF OpToRel
  <1>. QED BY <1>2

\* Which spellings of a resource a request may use, for every table that loads:
\* a request finds an entry exactly when the table lists the URL up to a trailing
\* slash and the request writes that slash, if at all, on a URL without a path.
\* So a URL listed with a path and a slash is found without the slash only
\* (_load_resources, resource_by_url, _normalise_requested_url).
THEOREM LookupFindsListed ==
  ASSUME NEW env \in Environment, Loads(env), NEW url \in Url
  PROVE  (\E k \in Index : ResourceByUrl(LoadConfig(env), url, k))
           <=> /\ url.slash => ~url.path
               /\ \E i \in Index :
                    env.resources[i] # None /\ Strip(env.resources[i].url) = Strip(url)
  <1> DEFINE config == LoadConfig(env)
  <1>1. \A i \in Index : env.resources[i] # None => env.resources[i].url \in Url
    BY DEF Loads, ResourcesLoad, ResourceLoads, Environment, ResourceVars, Maybe
  <1>2. \A i \in Index :
          /\ env.resources[i] = None <=> config.resources[i] = None
          /\ env.resources[i] # None =>
               config.resources[i].url = Strip(env.resources[i].url)
    <2> SUFFICES ASSUME NEW i \in Index
                 PROVE  /\ env.resources[i] = None <=> config.resources[i] = None
                        /\ env.resources[i] # None =>
                             config.resources[i].url = Strip(env.resources[i].url)
      OBVIOUS
    <2>2. CASE env.resources[i] = None
      BY <2>2 DEF LoadConfig, LoadResources
    <2>3. CASE env.resources[i] # None
      <3>1. config.resources[i] = [url |-> Strip(env.resources[i].url),
              issuer |-> env.resources[i].issuer, pat |-> env.resources[i].patClient]
        BY <2>3 DEF LoadConfig, LoadResources
      <3>2. config.resources[i] \in ResourceEntry
        <4>1. /\ env.resources[i].url \in Url
              /\ env.resources[i].issuer \in Issuers
              /\ env.resources[i].patClient \in BOOLEAN
          BY <1>1, <2>3 DEF Loads, ResourcesLoad, ResourceLoads, Environment, ResourceVars, Maybe
        <4>2. Strip(env.resources[i].url) \in Url
          BY <4>1 DEF Strip, Url
        <4>. QED BY <3>1, <4>1, <4>2 DEF ResourceEntry
      <3>3. config.resources[i] # None
        BY <3>2, DeploymentAssumption
      <3>. QED BY <2>3, <3>1, <3>3
    <2>. QED BY <2>2, <2>3
  <1> HIDE DEF config
  <1>3. ASSUME NEW k \in Index, ResourceByUrl(config, url, k)
        PROVE  /\ url.slash => ~url.path
               /\ env.resources[k] # None
               /\ Strip(env.resources[k].url) = Strip(url)
    <2>1. env.resources[k] # None /\ Strip(env.resources[k].url) = NormaliseRequested(url)
      <3>1. config.resources[k] # None /\ config.resources[k].url = NormaliseRequested(url)
        BY <1>3 DEF ResourceByUrl, Matches
      <3>2. env.resources[k] # None
        BY <1>2, <3>1
      <3>3. config.resources[k].url = Strip(env.resources[k].url)
        BY <1>2, <3>2
      <3>. QED BY <3>1, <3>2, <3>3
    <2>2. NormaliseRequested(url).slash = FALSE
      <3>1. env.resources[k].url \in Url
        BY <1>1, <2>1
      <3>2. Strip(env.resources[k].url).slash = FALSE
        BY <3>1 DEF Strip, Url
      <3>. QED BY <2>1, <3>2
    <2>3. (url.slash => ~url.path) /\ NormaliseRequested(url) = Strip(url)
      BY <2>2 DEF NormaliseRequested, Strip, Url
    <2>. QED BY <2>1, <2>3
  <1>4. ASSUME url.slash => ~url.path,
               NEW i \in Index, env.resources[i] # None, Strip(env.resources[i].url) = Strip(url)
        PROVE  \E k \in Index : ResourceByUrl(config, url, k)
    <2>1. NormaliseRequested(url) = Strip(url)
      BY <1>4 DEF NormaliseRequested, Strip, Url
    <2>2. i \in Matches(config, url)
      <3>1. config.resources[i] # None
        BY <1>2, <1>4
      <3>2. config.resources[i].url = Strip(env.resources[i].url)
        BY <1>2, <1>4
      <3>. QED BY <1>4, <2>1, <3>1, <3>2 DEF Matches
    <2>3. Matches(config, url) \subseteq Nat
      BY DeploymentAssumption DEF Matches, Index
    <2>4. PICK k \in Matches(config, url) : \A j \in Matches(config, url) : k <= j
      BY <2>2, <2>3, LeastNatural
    <2>. QED BY <2>4 DEF ResourceByUrl, Matches
  <1>. QED BY <1>3, <1>4 DEF config

\* What the start-up checks let through, the requests can use: the default
\* resource is found by the lookup, and every resource with personal access
\* tokens is of the store's realm (load_config, resource_by_url; ConfigIsUsable).
THEOREM ConfigsAreUsable == Spec => []ConfigIsUsable
  <1>1. TypeInv => ConfigIsUsable
    <2> SUFFICES ASSUME TypeInv, NEW i \in Instances, inst[i].at = "serving"
                 PROVE  LET config == inst[i].config IN
                        /\ config.default # None =>
                             \E k \in Index : ResourceByUrl(config, config.default, k)
                        /\ \A url \in Url : \A k \in Index :
                             ResourceByUrl(config, url, k) /\ config.resources[k].pat =>
                               /\ config.pat # None
                               /\ config.resources[k].issuer = config.pat.realm
      BY DEF ConfigIsUsable
    <2> DEFINE config == inst[i].config
    <2>1. config \in ProxyConfig /\ Usable(config)
      BY DEF TypeInv, AllRunning, Running
    <2> HIDE DEF config
    <2>2. ASSUME config.default # None
          PROVE  \E k \in Index : ResourceByUrl(config, config.default, k)
      <3>1. PICK k \in Index : config.resources[k] # None /\ config.resources[k].url = config.default
        BY <2>1, <2>2 DEF Usable
      <3>2. config.default \in Url /\ config.default.slash = FALSE
        BY <2>1, <2>2, <3>1 DEF Usable, ProxyConfig, Maybe
      <3>3. NormaliseRequested(config.default) = config.default
        BY <3>2 DEF NormaliseRequested, Strip, Url
      <3>4. k \in Matches(config, config.default)
        BY <3>1, <3>3 DEF Matches
      <3>5. Matches(config, config.default) \subseteq Nat
        BY DeploymentAssumption DEF Matches, Index, DeploymentAssumption
      <3>6. PICK x \in Matches(config, config.default) :
              \A y \in Matches(config, config.default) : x <= y
        BY <3>4, <3>5, LeastNatural
      <3>. QED BY <3>6 DEF ResourceByUrl, Matches
    <2>3. ASSUME NEW url \in Url, NEW k \in Index, ResourceByUrl(config, url, k),
                 config.resources[k].pat
          PROVE  config.pat # None /\ config.resources[k].issuer = config.pat.realm
      BY <2>1, <2>3 DEF Usable, ResourceByUrl, Matches
    <2>. QED BY <2>2, <2>3 DEF config
  <1>. QED BY <1>1, SpecType, PTL

-----------------------------------------------------------------------------
(* The schema. *)

Has(v) == [version |-> v, success |-> TRUE] \in Recorded

(***************************************************************************)
(* Versions are applied in order, so the highest one stands for all below. *)
(***************************************************************************)
InOrder == \A m \in Recorded : m.success => \A w \in 1..m.version : Has(w)

Covers(i) == ServesPat(i) => \A v \in 1..inst[i].release : Has(v)

SchemaInv == InOrder /\ \A i \in Instances : Covers(i)

\* The versions applied are the rows with success.
LEMMA AppliedHas == TypeOK => \A v : v \in Applied <=> (v \in Nat /\ Has(v))
  <1> SUFFICES ASSUME TypeOK, NEW v PROVE v \in Applied <=> (v \in Nat /\ Has(v))
    OBVIOUS
  <1>1. Recorded \subseteq Migration
    BY RecordedType
  <1>2. Applied = {m.version : m \in {x \in Recorded : x.success}}
    BY DEF Applied, Recorded
  <1>3. ASSUME v \in Applied PROVE v \in Nat /\ Has(v)
    <2>1. PICK m \in Recorded : m.success /\ v = m.version
      BY <1>2, <1>3
    <2>2. m \in Migration
      BY <1>1, <2>1
    <2>3. m = [version |-> v, success |-> TRUE] /\ v \in Nat
      BY <2>1, <2>2 DEF Migration, Versions
    <2>. QED BY <2>1, <2>3 DEF Has
  <1>4. ASSUME v \in Nat, Has(v) PROVE v \in Applied
    <2> DEFINE m == [version |-> v, success |-> TRUE]
    <2>1. m \in {x \in Recorded : x.success} /\ m.version = v
      BY <1>4 DEF Has
    <2>. QED BY <1>2, <2>1
  <1>. QED BY <1>3, <1>4

\* Nothing is recorded and nobody serves at first.
LEMMA InitSchema == Init => SchemaInv
  BY DEF Init, SchemaInv, InOrder, Covers, Recorded, ServesPat, Down

\* A step that leaves the history alone and lets no instance begin to serve.
LEMMA SchemaKept ==
  ASSUME TypeOK, SchemaInv, UNCHANGED history,
         \A i \in Instances : ServesPat(i)' => ServesPat(i) /\ inst'[i].release = inst[i].release
  PROVE  SchemaInv'
  <1>1. Recorded' = Recorded /\ \A v : Has(v)' <=> Has(v)
    BY DEF Recorded, Has
  <1>2. InOrder'
    BY <1>1 DEF SchemaInv, InOrder
  <1>3. \A i \in Instances : Covers(i)'
    BY <1>1 DEF SchemaInv, Covers
  <1>. QED BY <1>2, <1>3 DEF SchemaInv

\* check_schema: an instance begins to serve when its version, and so every one
\* below it, is applied.
LEMMA CheckSchemaCovers ==
  ASSUME TypeInv, SchemaInv, NEW i \in Instances, CheckSchema(i) PROVE SchemaInv'
  <1>0. TypeOK /\ inst[i].at = "checking" /\ UNCHANGED history
    BY DEF TypeInv, CheckSchema
  <1>1. CASE inst' = [inst EXCEPT ![i] = Down]
    <2>1. Kept /\ inst'[i].at = "down" /\ \A j \in Instances : j # i => inst'[j] = inst[j]
      BY <1>0, <1>1, DownKeeps
    <2>2. \A j \in Instances : ServesPat(j)' => ServesPat(j) /\ inst'[j].release = inst[j].release
      BY <2>1 DEF ServesPat
    <2>. QED BY <1>0, <2>2, SchemaKept
  <1>2. CASE SchemaSuffices(inst[i].release) /\ GoTo(i, "serving")
    <2>1. Kept /\ inst'[i].at = "serving" /\ \A j \in Instances : j # i => inst'[j] = inst[j]
      BY <1>0, <1>2, GoToKeeps
    <2>2. inst'[i].release = inst[i].release /\ inst[i].release \in Nat
      BY <1>0, <2>1 DEF Kept, TypeInv, AllRunning, Running
    <2>3. \A v \in 1..inst[i].release : Has(v)
      <3>1. PICK top \in Applied \cup {0} : inst[i].release <= top
        BY <1>2 DEF SchemaSuffices
      <3>2. CASE top \in Applied
        <4>1. top \in Nat /\ Has(top)
          BY <1>0, <3>2, AppliedHas
        <4>2. \A w \in 1..top : Has(w)
          BY <4>1 DEF SchemaInv, InOrder, Has
        <4>. QED BY <2>2, <3>1, <4>1, <4>2
      <3>3. CASE top = 0
        BY <2>2, <3>1, <3>3
      <3>. QED BY <3>2, <3>3
    <2>4. Recorded' = Recorded /\ \A v : Has(v)' <=> Has(v)
      BY <1>0 DEF Recorded, Has
    <2>5. InOrder'
      BY <2>4 DEF SchemaInv, InOrder
    <2>6. \A j \in Instances : Covers(j)'
      BY <2>1, <2>2, <2>3, <2>4 DEF SchemaInv, Covers, ServesPat
    <2>. QED BY <2>5, <2>6 DEF SchemaInv
  <1>. QED BY <1>1, <1>2 DEF CheckSchema

\* A migration only adds the next version or a failure; a repair removes failures.
LEMMA MigrateCovers ==
  ASSUME TypeInv, SchemaInv, Repair \/ \E v \in Versions : Migrate(v) PROVE SchemaInv'
  <1>0. TypeOK /\ Recorded \subseteq Migration /\ Recorded' = history'
    <2>1. TypeOK /\ Recorded \subseteq Migration
      BY RecordedType DEF TypeInv
    <2>2. history' \in SUBSET Migration
      BY MigrateType
    <2>3. history' # None
      BY <2>2, DeploymentAssumption DEF DeploymentAssumption
    <2>. QED BY <2>1, <2>3 DEF Recorded
  <1>1. UNCHANGED inst
    BY DEF Repair, Migrate
  <1>2. InOrder' /\ \A v : Has(v) => Has(v)'
    <2>1. CASE Repair
      <3>1. history' = {m \in Recorded : m.success}
        BY <2>1 DEF Repair, Recorded
      <3>2. \A v : Has(v) <=> Has(v)'
        BY <1>0, <3>1 DEF Has
      <3>3. InOrder'
        BY <1>0, <3>1, <3>2 DEF SchemaInv, InOrder
      <3>. QED BY <3>2, <3>3
    <2>2. ASSUME NEW v \in Versions, Migrate(v) PROVE InOrder' /\ \A w : Has(w) => Has(w)'
      <3>1. PICK ok \in BOOLEAN : history' = Recorded \cup {[version |-> v, success |-> ok]}
        BY <2>2 DEF Migrate
      <3>2. \A w : Has(w) => Has(w)'
        BY <1>0, <3>1 DEF Has
      <3>3. \A w \in 1..(v - 1) : Has(w)
        BY <1>0, <2>2, AppliedHas DEF Migrate
      <3>4. v \in Nat
        BY DEF Versions
      <3>5. ASSUME NEW m \in history', m.success PROVE \A w \in 1..m.version : Has(w)'
        <4>1. CASE m \in Recorded
          BY <3>2, <3>5, <4>1 DEF SchemaInv, InOrder
        <4>2. CASE m = [version |-> v, success |-> ok]
          <5>1. ok = TRUE /\ m.version = v
            BY <3>5, <4>2
          <5>2. Has(v)'
            BY <1>0, <3>1, <5>1 DEF Has
          <5>. QED BY <3>2, <3>3, <3>4, <5>1, <5>2
        <4>. QED BY <3>1, <4>1, <4>2
      <3>. QED BY <1>0, <3>2, <3>5 DEF InOrder
    <2>. QED BY <2>1, <2>2
  <1>3. \A i \in Instances : Covers(i)'
    BY <1>1, <1>2 DEF SchemaInv, Covers, ServesPat
  <1>. QED BY <1>2, <1>3 DEF SchemaInv

\* Every step keeps the schema ahead of whoever serves.
LEMMA NextSchema == TypeInv /\ SchemaInv /\ [Next]_vars => SchemaInv'
  <1> SUFFICES ASSUME TypeInv, SchemaInv, [Next]_vars PROVE SchemaInv'
    OBVIOUS
  <1>0. TypeOK
    BY DEF TypeInv
  <1>1. ASSUME NEW i \in Instances, Start(i) PROVE SchemaInv'
    <2>1. /\ inst'[i].at = "opening" \/ (inst'[i].at = "serving" /\ inst'[i].config.pat = None)
          /\ \A j \in Instances : j # i => inst'[j] = inst[j]
      BY <1>1, StartType
    <2>2. \A j \in Instances : ServesPat(j)' => ServesPat(j) /\ inst'[j].release = inst[j].release
      BY <2>1 DEF ServesPat
    <2>. QED BY <1>0, <1>1, <2>2, SchemaKept DEF Start
  <1>2. ASSUME NEW i \in Instances, OpenPool(i) PROVE SchemaInv'
    <2>1. inst'[i].at = "checking" /\ \A j \in Instances : j # i => inst'[j] = inst[j]
      BY <1>0, <1>2, GoToKeeps DEF OpenPool
    <2>2. \A j \in Instances : ServesPat(j)' => ServesPat(j) /\ inst'[j].release = inst[j].release
      BY <2>1 DEF ServesPat
    <2>. QED BY <1>0, <1>2, <2>2, SchemaKept DEF OpenPool
  <1>3. ASSUME NEW i \in Instances, Stop(i) PROVE SchemaInv'
    <2>1. inst'[i].at = "down" /\ \A j \in Instances : j # i => inst'[j] = inst[j]
      BY <1>0, <1>3, DownKeeps DEF Stop
    <2>2. \A j \in Instances : ServesPat(j)' => ServesPat(j) /\ inst'[j].release = inst[j].release
      BY <2>1 DEF ServesPat
    <2>. QED BY <1>0, <1>3, <2>2, SchemaKept DEF Stop
  <1>4. CASE \E i \in Instances : CheckSchema(i)
    BY <1>4, CheckSchemaCovers
  <1>5. CASE Repair \/ \E v \in Versions : Migrate(v)
    BY <1>5, MigrateCovers
  <1>6. CASE UNCHANGED <<inst, history>>
    BY <1>0, <1>6, SchemaKept DEF ServesPat
  <1>. QED BY <1>1, <1>2, <1>3, <1>4, <1>5, <1>6
         DEF Next, Sign, Leak, Verify, FetchAges, NextStep, ClearKeysCache, vars

\* An instance that serves personal access tokens finds every migration its image
\* ships applied, whatever ran before or runs beside it (check_schema, Flyway;
\* SchemaCoversServing).
THEOREM SchemaCoversWhoeverServes == Spec => []SchemaCoversServing
  <1>1. TypeInv /\ SchemaInv /\ [Next]_vars => SchemaInv'
    BY NextSchema
  <1>2. SchemaInv => SchemaCoversServing
    BY DEF SchemaInv, Covers, Has, SchemaCoversServing
  <1>. QED BY <1>1, <1>2, InitSchema, SpecType, PTL DEF Spec

-----------------------------------------------------------------------------
(* The rotation of the signing key. *)

(***************************************************************************)
(* An assertion under way was signed by an instance that still serves,     *)
(* with the key it signs with.                                             *)
(***************************************************************************)
SignedBy(a) ==
  /\ asn[a].from \in Instances
  /\ ServesPat(asn[a].from)
  /\ asn[a].kid = inst[asn[a].from].config.pat.signer.active

InFlight ==
  \A a \in Assertions : asn[a].from # None /\ asn[a].outcome = "sent" => SignedBy(a)

RotationInv == InFlight /\ FetchBringsTheKey

\* There is no assertion at first.
LEMMA InitRotation == Init => RotationInv
  BY DEF Init, NoAssertion, RotationInv, InFlight, FetchBringsTheKey

\* Keys of neighbouring steps overlap: whoever publishes, whoever signed.
LEMMA NeighboursPublish ==
  ASSUME TypeInv, NEW i \in Instances, ServesPat(i), NEW j \in Instances, ServesPat(j)
  PROVE  inst[i].config.pat.signer.active \in Jwks(j)
  <1>1. /\ inst[i].step \in 1..Len(Rotation) /\ inst[i].step \in {step - 1, step}
        /\ inst[j].step \in 1..Len(Rotation) /\ inst[j].step \in {step - 1, step}
        /\ inst[i].config.pat.signer.active = Rotation[inst[i].step].active
        /\ Jwks(j) = KeysAt(inst[j].step)
    BY ServesPatType
  <1>2. Len(Rotation) \in Nat /\ step \in Nat
    BY DeploymentAssumption DEF TypeInv, TypeOK, DeploymentAssumption
  <1>3. inst[i].step - inst[j].step \in {-1, 0, 1}
    BY <1>1, <1>2
  <1>. QED BY <1>1, <1>3, DeploymentAssumption DEF DeploymentAssumption

\* Steps that present no assertion and verify none: assertions stay or are lost,
\* and those under way have an instance that goes on serving.
LEMMA RotationKept ==
  ASSUME RotationInv,
         \A a \in Assertions :
           /\ Settles(a) /\ asn'[a].outcome \in {asn[a].outcome, "lost"}
           /\ asn'[a].outcome = "sent" /\ asn[a].from # None =>
                inst'[asn[a].from] = inst[asn[a].from]
  PROVE  RotationInv'
  <1>1. FetchBringsTheKey'
    BY DEF RotationInv, FetchBringsTheKey, Settles
  <1>2. InFlight'
    <2> SUFFICES ASSUME NEW a \in Assertions, asn'[a].from # None, asn'[a].outcome = "sent"
                 PROVE  SignedBy(a)'
      BY DEF InFlight
    <2>1. asn'[a] = asn[a]
      BY DEF Settles
    <2>2. SignedBy(a) /\ inst'[asn[a].from] = inst[asn[a].from]
      BY <2>1 DEF RotationInv, InFlight
    <2>. QED BY <2>1, <2>2 DEF SignedBy, ServesPat
  <1>. QED BY <1>1, <1>2 DEF RotationInv

\* A process that ends or is still starting has no assertion under way.
LEMMA LifecycleRotation ==
  ASSUME TypeInv, RotationInv, NEW i \in Instances,
         Start(i) \/ OpenPool(i) \/ CheckSchema(i) \/ Stop(i)
  PROVE  RotationInv'
  <1>0. TypeOK
    BY DEF TypeInv
  <1>1. \A j \in Instances : j # i => inst'[j] = inst[j]
    BY <1>0, StartType, DownKeeps, GoToKeeps DEF OpenPool, CheckSchema, Stop
  <1>2. \A a \in Assertions : asn[a].from # None /\ asn[a].outcome = "sent" =>
          /\ asn[a].from \in Instances
          /\ inst[asn[a].from].at = "serving"
    BY DEF RotationInv, InFlight, SignedBy, ServesPat
  <1>3. CASE Stop(i)
    <2>1. \A a \in Assertions :
            /\ Settles(a)
            /\ asn'[a].outcome \in {asn[a].outcome, "lost"}
            /\ asn'[a].outcome = "sent" => asn[a].from # i
      BY <1>0, <1>3, LostSettles DEF Stop
    <2>2. \A a \in Assertions :
            asn'[a].outcome = "sent" /\ asn[a].from # None =>
              inst'[asn[a].from] = inst[asn[a].from]
      BY <1>1, <1>2, <2>1
    <2>. QED BY <2>1, <2>2, RotationKept
  <1>4. CASE Start(i) \/ OpenPool(i) \/ CheckSchema(i)
    <2>1. UNCHANGED asn /\ inst[i].at # "serving"
      BY <1>4 DEF Start, OpenPool, CheckSchema
    <2>2. \A a \in Assertions :
            asn'[a].outcome = "sent" /\ asn[a].from # None =>
              inst'[asn[a].from] = inst[asn[a].from]
      BY <1>1, <1>2, <2>1
    <2>3. \A a \in Assertions : Settles(a) /\ asn'[a].outcome \in {asn[a].outcome, "lost"}
      BY <2>1 DEF Settles
    <2>. QED BY <2>2, <2>3, RotationKept
  <1>. QED BY <1>3, <1>4

\* A new assertion is signed with the instance's key, or not by an instance.
LEMMA PresentRotation ==
  ASSUME TypeInv, RotationInv, NEW a \in Assertions,
         (\E i \in Instances : Sign(a, i)) \/ (\E kid : Leak(a, kid))
  PROVE  RotationInv'
  <1>1. UNCHANGED inst
    BY DEF Sign, Leak
  <1>2. /\ asn'[a].outcome = "sent"
        /\ asn'[a].from # None =>
             /\ asn'[a].from \in Instances
             /\ ServesPat(asn'[a].from)
             /\ asn'[a].kid = inst[asn'[a].from].config.pat.signer.active
        /\ \A e \in Assertions : e # a => asn'[e] = asn[e]
    BY DEF Sign, Leak, TypeInv, TypeOK
  <1>3. InFlight'
    BY <1>1, <1>2 DEF RotationInv, InFlight, SignedBy, ServesPat
  <1>4. FetchBringsTheKey'
    BY <1>2 DEF RotationInv, FetchBringsTheKey
  <1>. QED BY <1>3, <1>4 DEF RotationInv

\* A fetch on behalf of an instance brings its key.
LEMMA VerifyRotation ==
  ASSUME TypeInv, RotationInv, NEW a \in Assertions, Verify(a) PROVE RotationInv'
  <1>0. asn[a].outcome = "sent" /\ UNCHANGED inst
    BY DEF Verify
  <1>1. PICK outcome \in {"accepted", "unknown", "stale", "lost"} :
          /\ asn' = [asn EXCEPT ![a].outcome = outcome]
          /\ outcome = "unknown" =>
               \E i \in Instances : ServesPat(i) /\ asn[a].kid \notin Jwks(i)
    BY VerifyVerifies DEF Verified
  <1>2. /\ asn'[a].outcome = outcome /\ asn'[a].from = asn[a].from
        /\ \A e \in Assertions : e # a => asn'[e] = asn[e]
    BY <1>0, <1>1, VerdictSettles DEF TypeInv
  <1>3. asn[a].from # None => outcome # "unknown"
    BY <1>0, <1>1, NeighboursPublish DEF RotationInv, InFlight, SignedBy
  <1>4. FetchBringsTheKey'
    BY <1>2, <1>3 DEF RotationInv, FetchBringsTheKey
  <1>5. InFlight'
    BY <1>0, <1>2 DEF RotationInv, InFlight, SignedBy, ServesPat
  <1>. QED BY <1>4, <1>5 DEF RotationInv

\* Every step keeps the assertions within the published keys.
LEMMA NextRotation == TypeInv /\ RotationInv /\ [Next]_vars => RotationInv'
  <1> SUFFICES ASSUME TypeInv, RotationInv, [Next]_vars PROVE RotationInv'
    OBVIOUS
  <1>1. CASE \E i \in Instances : Start(i) \/ OpenPool(i) \/ CheckSchema(i) \/ Stop(i)
    BY <1>1, LifecycleRotation
  <1>2. CASE \/ \E a \in Assertions, i \in Instances : Sign(a, i)
             \/ \E a \in Assertions, n \in 1..step : \E kid \in KeysAt(n) : Leak(a, kid)
    BY <1>2, PresentRotation
  <1>3. CASE \E a \in Assertions : Verify(a)
    BY <1>3, VerifyRotation
  <1>4. CASE UNCHANGED <<inst, asn>>
    BY <1>4 DEF RotationInv, InFlight, SignedBy, ServesPat, FetchBringsTheKey
  <1>. QED BY <1>1, <1>2, <1>3, <1>4
         DEF Next, Migrate, Repair, FetchAges, NextStep, ClearKeysCache, vars

\* Through a rotation, whenever the provider fetches on behalf of an instance, the
\* key is in the set it gets, from any instance (AssertionSigner.jwks and sign;
\* FetchBringsTheKey).
THEOREM FetchesBringTheKey == Spec => []FetchBringsTheKey
  <1>1. TypeInv /\ RotationInv /\ [Next]_vars => RotationInv'
    BY NextRotation
  <1>2. RotationInv => FetchBringsTheKey
    BY DEF RotationInv
  <1>. QED BY <1>1, <1>2, InitRotation, SpecType, PTL DEF Spec

(***************************************************************************)
(* Once the cache is cleared at the end of the rotation, every instance    *)
(* publishes the last key set, and the provider can fetch no other.        *)
(***************************************************************************)
Ended ==
  cleared =>
    /\ step = Len(Rotation)
    /\ \A i \in Instances : inst[i].at # "down" => inst[i].step = step
    /\ cached \subseteq KeysAt(Len(Rotation))

EndInv == Ended /\ (\A a \in Assertions : asn[a].late => cleared) /\ ClearEndsOldKeys

\* Nothing is cleared at first.
LEMMA InitEnd == Init => EndInv
  BY DEF Init, NoAssertion, EndInv, Ended, ClearEndsOldKeys

\* Whoever serves after the end publishes the last key set.
LEMMA EndPublishes ==
  ASSUME TypeInv, EndInv, cleared, NEW i \in Instances, ServesPat(i)
  PROVE  Jwks(i) = KeysAt(Len(Rotation))
  BY ServesPatType DEF EndInv, Ended, ServesPat

\* A step of an instance, with assertions staying or lost.
LEMMA EndKept ==
  ASSUME EndInv, UNCHANGED <<step, cached, cleared>>,
         \A a \in Assertions : Settles(a) /\ asn'[a].outcome \in {asn[a].outcome, "lost"},
         \A i \in Instances : inst'[i].at # "down" =>
           inst'[i].step = step \/ (inst[i].at # "down" /\ inst'[i].step = inst[i].step)
  PROVE  EndInv'
  <1>1. Ended'
    BY DEF EndInv, Ended
  <1>2. \A a \in Assertions : asn'[a].late => cleared'
    BY DEF EndInv, Settles
  <1>3. ClearEndsOldKeys'
    BY DEF EndInv, ClearEndsOldKeys, Settles
  <1>. QED BY <1>1, <1>2, <1>3 DEF EndInv

\* Every step keeps the end of the rotation.
LEMMA NextEnd == TypeInv /\ EndInv /\ [Next]_vars => EndInv'
  <1> SUFFICES ASSUME TypeInv, EndInv, [Next]_vars PROVE EndInv'
    OBVIOUS
  <1>0. TypeOK
    BY DEF TypeInv
  <1>1. ASSUME NEW i \in Instances, Start(i) PROVE EndInv'
    <2>1. inst'[i].step = step /\ \A j \in Instances : j # i => inst'[j] = inst[j]
      BY <1>1, StartType
    <2>2. UNCHANGED <<step, cached, cleared, asn>>
      BY <1>1 DEF Start, provider
    <2>3. \A a \in Assertions : Settles(a) /\ asn'[a].outcome \in {asn[a].outcome, "lost"}
      BY <2>2 DEF Settles
    <2>. QED BY <2>1, <2>2, <2>3, EndKept
  <1>2. ASSUME NEW i \in Instances, OpenPool(i) \/ CheckSchema(i) \/ Stop(i) PROVE EndInv'
    <2>1. Kept
      BY <1>2, LifecycleType
    <2>2. UNCHANGED <<step, cached, cleared>>
      BY <1>2 DEF OpenPool, CheckSchema, Stop, provider
    <2>3. \A a \in Assertions : Settles(a) /\ asn'[a].outcome \in {asn[a].outcome, "lost"}
      <3>1. CASE UNCHANGED asn
        BY <3>1 DEF Settles
      <3>2. CASE Lost(i)
        BY <1>0, <3>2, LostSettles
      <3>. QED BY <1>2, <3>1, <3>2 DEF OpenPool, CheckSchema, Stop
    <2>. QED BY <2>1, <2>2, <2>3, EndKept DEF Kept
  <1>3. ASSUME NEW a \in Assertions,
               (\E i \in Instances : Sign(a, i)) \/ (\E kid : Leak(a, kid))
        PROVE  EndInv'
    <2>1. /\ asn'[a].outcome = "sent"
          /\ asn'[a].late => cleared
          /\ \A e \in Assertions : e # a => asn'[e] = asn[e]
      BY <1>0, <1>3 DEF Sign, Leak, TypeOK
    <2>2. UNCHANGED <<inst, step, cached, cleared>>
      BY <1>3 DEF Sign, Leak, provider
    <2>. QED BY <2>1, <2>2 DEF EndInv, Ended, ClearEndsOldKeys
  <1>4. ASSUME NEW a \in Assertions, Verify(a) PROVE EndInv'
    <2>1. PICK outcome \in {"accepted", "unknown", "stale", "lost"} :
            /\ asn' = [asn EXCEPT ![a].outcome = outcome]
            /\ \/ /\ outcome = "accepted" => asn[a].kid \in cached
                  /\ UNCHANGED cached
               \/ \E i \in Instances :
                    /\ ServesPat(i) /\ cached' = Jwks(i)
                    /\ outcome = "accepted" => asn[a].kid \in Jwks(i)
      BY <1>4, VerifyVerifies DEF Verified
    <2>2. /\ asn'[a].outcome = outcome /\ asn'[a].kid = asn[a].kid /\ asn'[a].late = asn[a].late
          /\ \A e \in Assertions : e # a => asn'[e] = asn[e]
      BY <1>0, <1>4, <2>1, VerdictSettles DEF Verify
    <2>3. UNCHANGED <<inst, step, cleared>>
      BY <1>4 DEF Verify
    <2>4. cleared => /\ cached' \subseteq KeysAt(Len(Rotation))
                     /\ outcome = "accepted" => asn[a].kid \in KeysAt(Len(Rotation))
      BY <2>1, EndPublishes DEF EndInv, Ended
    <2>5. Ended'
      BY <2>3, <2>4 DEF EndInv, Ended
    <2>6. \A e \in Assertions : asn'[e].late => cleared
      BY <2>2 DEF EndInv
    <2>7. ClearEndsOldKeys'
      BY <2>2, <2>4, <2>6 DEF EndInv, ClearEndsOldKeys
    <2>. QED BY <2>3, <2>5, <2>6, <2>7 DEF EndInv
  <1>5. CASE NextStep
    <2>1. ~cleared
      BY <1>5, DeploymentAssumption DEF NextStep, EndInv, Ended, TypeInv, TypeOK, DeploymentAssumption
    <2>. QED BY <1>5, <2>1 DEF NextStep, provider, EndInv, Ended, ClearEndsOldKeys
  <1>6. CASE ClearKeysCache
    <2>1. ASSUME EndsRotation, NEW i \in Instances, inst[i].at # "down" PROVE inst[i].step = step
      <3>1. inst[i].step \in {None, step} /\ inst[i].step \in 1..Len(Rotation)
        BY <2>1 DEF EndsRotation, AllRestarted, TypeInv, AllRunning, Running
      <3>. QED BY <3>1, DeploymentAssumption DEF DeploymentAssumption
    <2>2. EndsRotation => step = Len(Rotation)
      BY DEF EndsRotation
    <2>3. /\ UNCHANGED <<inst, step, asn>> /\ cached' = {}
          /\ cleared' = (cleared \/ EndsRotation)
      BY <1>6 DEF ClearKeysCache
    <2>4. Ended'
      BY <2>1, <2>2, <2>3 DEF EndInv, Ended
    <2>. QED BY <2>3, <2>4 DEF EndInv, ClearEndsOldKeys
  <1>7. CASE UNCHANGED <<inst, step, cached, cleared, asn>>
    BY <1>7 DEF EndInv, Ended, ClearEndsOldKeys
  <1>. QED BY <1>1, <1>2, <1>3, <1>4, <1>5, <1>6, <1>7
         DEF Next, Migrate, Repair, FetchAges, provider, vars

\* After the last step of the rotation, the cleared cache included, no assertion
\* signed with a removed key is accepted (deploy/README.md; ClearEndsOldKeys).
THEOREM OldKeysEnd == Spec => []ClearEndsOldKeys
  <1>1. TypeInv /\ EndInv /\ [Next]_vars => EndInv'
    BY NextEnd
  <1>2. EndInv => ClearEndsOldKeys
    BY DEF EndInv
  <1>. QED BY <1>1, <1>2, InitEnd, SpecType, PTL DEF Spec
=============================================================================
