--------------------------- MODULE InteractiveFlow --------------------------
(***************************************************************************)
(* The interactive path of cimd-proxy: registration, /authorize, /callback *)
(* and /token for the authorization_code and refresh_token grants          *)
(* (register.py, authorize.py, callback.py, token.py), over the envelopes  *)
(* of envelope.py and the redirect policy of redirect_uri.py.              *)
(*                                                                         *)
(* The proxy keeps no state on this path.  What it knows of a flow is      *)
(* sealed into envelopes that the parties carry, lose, repeat and mix up:  *)
(* whoever calls an endpoint may present any envelope ever sealed, in any  *)
(* slot, with any upstream code, any number of times.  Sealing is          *)
(* unforgeable and SHA-256 has no collisions, so an envelope is named      *)
(* after the request that was answered with it and a PKCE challenge after  *)
(* its verifier.                                                           *)
(***************************************************************************)
EXTENDS Naturals

CONSTANTS
  Registrations, \* POST /register requests; also the client_ids they issue
  Flows,         \* GET /authorize requests; also upstream verifiers and codes
  Callbacks,     \* GET /callback requests; also the codes they seal
  Redemptions,   \* POST /token requests, authorization_code
  Refreshes,     \* POST /token requests, refresh_token
  CimdClients,   \* client_ids that start with https://
  Hosts, Loopback, \* host names; 127.0.0.1, ::1 and localhost
  Ports, Paths,  \* ports, and path with query
  Uris,          \* the redirect URIs in play
  Secrets,       \* the clients' PKCE verifiers
  Resources,     \* resource URIs, as resource_by_url folds them
  ClientIds,     \* upstream client ids
  Keys,          \* PROXY_SECRET_KEY values
  Configs,       \* configurations the process may be (re)started with
  Documents,     \* redirect_uris of the validated documents a client publishes
  StateTtl,      \* the ttl of open_authorize
  CodeTtl,       \* _CODE_TTL_SECONDS
  MaxTime,       \* bound: the clock stops here
  MaxChanges,    \* bound: restarts and publications
  None

Clients == CimdClients \cup Registrations
TokenRequests == Redemptions \cup Refreshes
Requests == Registrations \cup Flows \cup Callbacks \cup TokenRequests
Time == Nat
Maybe(S) == S \cup {None}

\* clean: no fragment, no userinfo, a host.
Uri == [scheme : {"https", "http", "other"}, host : Hosts, port : Ports,
        path : Paths, clean : BOOLEAN]

\* ProxyConfig: the upstream client of each configured resource.
Config == [key : Keys, client : [Resources -> Maybe(ClientIds)],
           default : Maybe(Resources)]

RegistrationEnvelope == [key : Keys, uris : SUBSET Uris]

AuthorizeEnvelope ==
  [key : Keys, at : Time, client : Clients, uri : Uris, challenge : Secrets,
   resource : Resources, verifier : Flows]

CodeEnvelope ==
  [key : Keys, code : Flows, verifier : Flows, resource : Resources,
   client : Clients, challenge : Secrets, uri : Uris, exp : Time]

\* The upstream refresh token is named after the flow whose consent it carries.
RefreshEnvelope == [key : Keys, resource : Resources, session : Flows]

-----------------------------------------------------------------------------
(* The redirect policy. *)

LoopbackHttp(u) == u.scheme = "http" /\ u.host \in Loopback

AcceptRegistered(u) == u.clean /\ (u.scheme = "https" \/ LoopbackHttp(u))

Mutant_UriMatches(requested, registered) ==
  \/ requested = registered
  \/ requested.host = registered.host /\ requested.path = registered.path
UriMatches(requested, registered) ==
  \/ requested = registered
  \/ /\ LoopbackHttp(requested) /\ LoopbackHttp(registered)
     /\ requested.clean /\ registered.clean
     /\ requested.host = registered.host
     /\ requested.path = registered.path

Params == [client : Maybe(Clients), uri : Uris, challenge : Secrets,
           asked : Maybe(Resources)]

\* What the upstream authorization endpoint was asked.
UpstreamRequest == [client : ClientIds, challenge : Flows]

TokenLocals ==
  [envelope : Maybe(Callbacks \cup TokenRequests), secret : Maybe(Secrets),
   client : Maybe(ClientIds), startedAt : Maybe(Time), session : Maybe(Flows)]

NoToken == [envelope |-> None, secret |-> None, client |-> None,
            startedAt |-> None, session |-> None]

\* What a caller can know of a flow, a redemption and a refresh token (SignIn).
Terms == [client : Clients, uri : Uris, challenge : Secrets, resource : Resources,
          at : Time]
Proof == [secret : Secrets, at : Time]
Renewal == [session : Flows, resource : Resources]

ASSUME FlowAssumption ==
  /\ Uris \subseteq Uri
  /\ Loopback \subseteq Hosts
  /\ Configs \subseteq Config
  /\ \A config \in Configs :
       config.default # None => config.client[config.default] # None
  /\ Documents \subseteq SUBSET {u \in Uris : AcceptRegistered(u)}
  /\ StateTtl \in Nat
  /\ CodeTtl \in Nat
  /\ MaxTime \in Nat
  /\ MaxChanges \in Nat
  /\ None \notin Nat \cup Clients \cup Uris \cup Resources \cup ClientIds \cup Secrets
  /\ None \notin Flows \cup Callbacks \cup TokenRequests
  /\ None \notin RegistrationEnvelope \cup AuthorizeEnvelope \cup CodeEnvelope
  /\ None \notin RefreshEnvelope \cup Params \cup UpstreamRequest
  /\ None \notin Terms \cup Proof \cup Renewal
  /\ CimdClients \cap Registrations = {}
  /\ Registrations \cap (Flows \cup Callbacks \cup TokenRequests) = {}
  /\ Flows \cap (Callbacks \cup TokenRequests) = {}
  /\ Callbacks \cap TokenRequests = {}
  /\ Redemptions \cap Refreshes = {}

VARIABLES
  cfg,      \* ProxyConfig of the running process
  now,      \* time.time()
  changes,  \* restarts and publications so far
  docs,     \* the documents a CIMD client has published so far
  pc,       \* the await a request is suspended at
  reply,    \* the answer a request got
  rg,       \* registration envelopes issued
  par,      \* flows: the parameters held while the document is fetched
  az,       \* authorize envelopes issued
  asked,    \* upstream: the authorization request of a flow
  ucode,    \* upstream: the state of a flow's authorization code
  cd,       \* code envelopes issued
  via,      \* callbacks: the state that was opened
  sentTo,   \* callbacks: where the browser was redirected
  tk,       \* token requests: their locals
  rt        \* refresh envelopes issued

vars == <<cfg, now, changes, docs, pc, reply, rg, par, az, asked, ucode, cd,
          via, sentTo, tk, rt>>

Init ==
  /\ cfg \in Configs
  /\ now = 0
  /\ changes = 0
  /\ docs \in [CimdClients -> {{d} : d \in Documents}]
  /\ pc = [r \in Requests |-> "idle"]
  /\ reply = [r \in Requests |-> "none"]
  /\ rg = [g \in Registrations |-> None]
  /\ par = [f \in Flows |-> None]
  /\ az = [f \in Flows |-> None]
  /\ asked = [f \in Flows |-> None]
  /\ ucode = [f \in Flows |-> "none"]
  /\ cd = [b \in Callbacks |-> None]
  /\ via = [b \in Callbacks |-> None]
  /\ sentTo = [b \in Callbacks |-> None]
  /\ tk = [t \in TokenRequests |-> NoToken]
  /\ rt = [t \in TokenRequests |-> None]

Answer(r, code) ==
  /\ pc' = [pc EXCEPT ![r] = "done"]
  /\ reply' = [reply EXCEPT ![r] = code]

GoTo(r, step) ==
  /\ pc' = [pc EXCEPT ![r] = step]
  /\ UNCHANGED reply

\* EnvelopeCodec._open: this process's key and the tag of the slot.  An
\* envelope of another kind, key or shape is None here.
Opens(e) == e # None /\ e.key = cfg.key

-----------------------------------------------------------------------------
(* POST /register: refused whole on one bad entry, a secret or a method other *)
(* than none. *)

Register(g) ==
  /\ pc[g] = "idle"
  /\ \/ Answer(g, "400") /\ UNCHANGED rg
     \/ \E uris \in SUBSET Uris \ {{}} :
          \/ (\E u \in uris : ~AcceptRegistered(u)) /\ Answer(g, "400") /\ UNCHANGED rg
          \/ /\ \A u \in uris : AcceptRegistered(u)
             /\ rg' = [rg EXCEPT ![g] = [key |-> cfg.key, uris |-> uris]]
             /\ Answer(g, "201")
  /\ UNCHANGED <<cfg, now, changes, docs, par, az, asked, ucode, cd, via, sentTo, tk, rt>>

-----------------------------------------------------------------------------
(* GET /authorize. *)

\* _pick_resource, None when it raises InvalidTarget.
Mutant_PickResource(p) == IF p.asked = None THEN cfg.default ELSE p.asked
PickResource(p) ==
  LET x == IF p.asked = None THEN cfg.default ELSE p.asked
  IN  IF x = None THEN None ELSE IF cfg.client[x] = None THEN None ELSE x

\* make_verifier: a fresh secret, known to the envelope alone.
Mutant_MakeVerifier(f) == CHOOSE g \in Flows : TRUE
MakeVerifier(f) == f

\* Step 4: the redirect_uri matches an entry of the registration.
Registered(uri, uris) == \E u \in uris : UriMatches(uri, u)

\* _build_upstream_url: seal the envelope, send the browser upstream.
Forward(f, p, x) ==
  /\ az' = [az EXCEPT ![f] =
       [key |-> cfg.key, at |-> now, client |-> p.client, uri |-> p.uri,
        challenge |-> p.challenge, resource |-> x, verifier |-> MakeVerifier(f)]]
  /\ asked' = [asked EXCEPT ![f] =
       [client |-> cfg.client[x], challenge |-> MakeVerifier(f)]]
  /\ Answer(f, "302")

\* The route has produced the client's redirect URIs.
MatchAndForward(f, p, x, uris) ==
  \/ Registered(p.uri, uris) /\ Forward(f, p, x)
  \/ ~Registered(p.uri, uris) /\ Answer(f, "400") /\ UNCHANGED <<az, asked>>

\* Up to the first await: a missing parameter or a method other than S256, an
\* unknown resource, then by the shape of client_id.
Authorize(f) ==
  /\ pc[f] = "idle"
  /\ \/ Answer(f, "400") /\ UNCHANGED <<par, az, asked>>
     \/ \E p \in Params :
          LET x == PickResource(p) IN
          \/ x = None /\ Answer(f, "400") /\ UNCHANGED <<par, az, asked>>
          \/ /\ x # None /\ p.client \in CimdClients
             /\ par' = [par EXCEPT ![f] = [p EXCEPT !.asked = x]]
             /\ GoTo(f, "document")
             /\ UNCHANGED <<az, asked>>
          \/ /\ x # None /\ p.client \in Registrations
             /\ IF Opens(rg[p.client])
                  THEN MatchAndForward(f, p, x, rg[p.client].uris)
                  ELSE Answer(f, "400") /\ UNCHANGED <<az, asked>>
             /\ UNCHANGED par
          \/ /\ x # None /\ p.client = None
             /\ Answer(f, "400")
             /\ UNCHANGED <<par, az, asked>>
  /\ UNCHANGED <<cfg, now, changes, docs, rg, ucode, cd, via, sentTo, tk, rt>>

\* _load_document returns what CimdService.obtain has, the present document or
\* one still in its cache; or it raises.
LoadDocument(f) ==
  /\ pc[f] = "document"
  /\ \/ Answer(f, "400") /\ UNCHANGED <<az, asked>>
     \/ \E uris \in docs[par[f].client] :
          MatchAndForward(f, par[f], par[f].asked, uris)
  /\ UNCHANGED <<cfg, now, changes, docs, rg, par, ucode, cd, via, sentTo, tk, rt>>

\* Upstream: the user consents to a flow and gets its code.
Consent(f) ==
  /\ asked[f] # None /\ ucode[f] = "none"
  /\ ucode' = [ucode EXCEPT ![f] = "issued"]
  /\ UNCHANGED <<cfg, now, changes, docs, pc, reply, rg, par, az, asked, cd, via,
                 sentTo, tk, rt>>

-----------------------------------------------------------------------------
(* GET /callback, by a browser with some state and some code. *)

Mutant_OpensAuthorize(s) == Opens(az[s])
\* open_authorize: Fernet refuses a token older than the ttl.
OpensAuthorize(s) == Opens(az[s]) /\ now <= az[s].at + StateTtl

SealCode(s, code) ==
  [key |-> cfg.key, code |-> code, verifier |-> az[s].verifier,
   resource |-> az[s].resource, client |-> az[s].client,
   challenge |-> az[s].challenge, uri |-> az[s].uri, exp |-> now + CodeTtl]

Redirect(b, s) ==
  /\ via' = [via EXCEPT ![b] = s]
  /\ sentTo' = [sentTo EXCEPT ![b] = az[s].uri]

\* No state, no code or a state that does not open; an upstream error, passed
\* on; a code.
Callback(b) ==
  /\ pc[b] = "idle"
  /\ \/ Answer(b, "400") /\ UNCHANGED <<cd, via, sentTo>>
     \/ \E s \in Flows :
          /\ OpensAuthorize(s)
          /\ Redirect(b, s)
          /\ Answer(b, "302_error")
          /\ UNCHANGED cd
     \/ \E s, code \in Flows :
          /\ OpensAuthorize(s)
          /\ ucode[code] # "none"
          /\ Redirect(b, s)
          /\ cd' = [cd EXCEPT ![b] = SealCode(s, code)]
          /\ Answer(b, "302")
  /\ UNCHANGED <<cfg, now, changes, docs, rg, par, az, asked, ucode, tk, rt>>

-----------------------------------------------------------------------------
(* POST /token, authorization_code. *)

Mutant_CodeExpired(b) == FALSE
CodeExpired(b) == cd[b].exp <= now

\* verify_challenge, by the client's own PKCE pair.
VerifyChallenge(secret, challenge) == secret = challenge

\* redirect_uri and client_id are compared only when they are sent.
CodeGrantable(b, secret, uri, client) ==
  /\ Opens(cd[b])
  /\ ~CodeExpired(b)
  /\ uri \in {None, cd[b].uri}
  /\ client \in {None, cd[b].client}
  /\ VerifyChallenge(secret, cd[b].challenge)

\* _handle_auth_code up to the upstream call.
HandleAuthCode(t) ==
  /\ pc[t] = "idle"
  /\ \/ Answer(t, "400") /\ UNCHANGED tk
     \/ \E b \in Callbacks, secret \in Secrets, uri \in Maybe(Uris), client \in Maybe(Clients) :
          \/ ~CodeGrantable(b, secret, uri, client) /\ Answer(t, "invalid_grant") /\ UNCHANGED tk
          \/ /\ CodeGrantable(b, secret, uri, client)
             /\ cfg.client[cd[b].resource] = None
             /\ Answer(t, "502")
             /\ UNCHANGED tk
          \/ /\ CodeGrantable(b, secret, uri, client)
             /\ cfg.client[cd[b].resource] # None
             /\ tk' = [tk EXCEPT ![t] =
                  [envelope |-> b, secret |-> secret, client |-> cfg.client[cd[b].resource],
                   startedAt |-> now, session |-> None]]
             /\ GoTo(t, "redeem")
  /\ UNCHANGED <<cfg, now, changes, docs, rg, par, az, asked, ucode, cd, via, sentTo, rt>>

\* _finalise_upstream_response on a 200: a refresh token, when there is one, is
\* sealed with the resource of the entry.
Seal(t, resource, session) ==
  \/ UNCHANGED rt
  \/ rt' = [rt EXCEPT ![t] =
       [key |-> cfg.key, resource |-> resource, session |-> session]]

\* The upstream redeems a code once, for its client and against its challenge.
Redeemable(t) ==
  LET form == cd[tk[t].envelope] IN
  /\ ucode[form.code] = "issued"
  /\ asked[form.code] = [client |-> tk[t].client, challenge |-> form.verifier]

\* The upstream's answer: unreachable or not JSON, refused, granted with the
\* answer lost on the way, granted.
Redeem(t) ==
  /\ pc[t] = "redeem"
  /\ LET form == cd[tk[t].envelope] IN
       \/ Answer(t, "502") /\ UNCHANGED <<ucode, tk, rt>>
       \/ Answer(t, "upstream_error") /\ UNCHANGED <<ucode, tk, rt>>
       \/ /\ Redeemable(t)
          /\ ucode' = [ucode EXCEPT ![form.code] = "used"]
          /\ tk' = [tk EXCEPT ![t].session = form.code]
          /\ \/ Answer(t, "502") /\ UNCHANGED rt
             \/ Answer(t, "200") /\ Seal(t, form.resource, form.code)
  /\ UNCHANGED <<cfg, now, changes, docs, rg, par, az, asked, cd, via, sentTo>>

-----------------------------------------------------------------------------
(* POST /token, refresh_token. *)

HandleRefresh(t) ==
  /\ pc[t] = "idle"
  /\ \/ Answer(t, "400") /\ UNCHANGED tk
     \/ \E s \in TokenRequests :
          \/ ~Opens(rt[s]) /\ Answer(t, "invalid_grant") /\ UNCHANGED tk
          \/ /\ Opens(rt[s])
             /\ cfg.client[rt[s].resource] = None
             /\ Answer(t, "502")
             /\ UNCHANGED tk
          \/ /\ Opens(rt[s])
             /\ cfg.client[rt[s].resource] # None
             /\ tk' = [tk EXCEPT ![t] =
                  [envelope |-> s, secret |-> None, client |-> cfg.client[rt[s].resource],
                   startedAt |-> now, session |-> None]]
             /\ GoTo(t, "refresh")
  /\ UNCHANGED <<cfg, now, changes, docs, rg, par, az, asked, ucode, cd, via, sentTo, rt>>

\* The resource the new envelope is sealed with.
Mutant_RefreshedResource(t) ==
  IF cfg.default = None THEN rt[tk[t].envelope].resource ELSE cfg.default
RefreshedResource(t) == rt[tk[t].envelope].resource

\* The upstream refreshes a session for the client it belongs to.
Refresh(t) ==
  /\ pc[t] = "refresh"
  /\ LET old == rt[tk[t].envelope] IN
       \/ Answer(t, "502") /\ UNCHANGED <<tk, rt>>
       \/ Answer(t, "upstream_error") /\ UNCHANGED <<tk, rt>>
       \/ /\ asked[old.session].client = tk[t].client
          /\ tk' = [tk EXCEPT ![t].session = old.session]
          /\ \/ Answer(t, "502") /\ UNCHANGED rt
             \/ Answer(t, "200") /\ Seal(t, RefreshedResource(t), old.session)
  /\ UNCHANGED <<cfg, now, changes, docs, rg, par, az, asked, ucode, cd, via, sentTo>>

-----------------------------------------------------------------------------
(* The surroundings. *)

Tick ==
  /\ now < MaxTime
  /\ now' = now + 1
  /\ UNCHANGED <<cfg, changes, docs, pc, reply, rg, par, az, asked, ucode, cd, via,
                 sentTo, tk, rt>>

Publish(c, d) ==
  /\ changes < MaxChanges
  /\ changes' = changes + 1
  /\ docs' = [docs EXCEPT ![c] = @ \cup {d}]
  /\ UNCHANGED <<cfg, now, pc, reply, rg, par, az, asked, ucode, cd, via, sentTo, tk, rt>>

\* A deploy or crash: requests under way are lost, envelopes live on outside.
Restart(config) ==
  /\ changes < MaxChanges
  /\ changes' = changes + 1
  /\ cfg' = config
  /\ pc' = [r \in Requests |-> IF pc[r] = "idle" THEN "idle" ELSE "done"]
  /\ reply' = [r \in Requests |-> IF pc[r] \in {"idle", "done"} THEN reply[r] ELSE "lost"]
  /\ UNCHANGED <<now, docs, rg, par, az, asked, ucode, cd, via, sentTo, tk, rt>>

Finished == (\A r \in Requests : pc[r] = "done") /\ UNCHANGED vars

\* What the proxy and the upstream do with a request once it is under way.
Handle(r) ==
  \/ r \in Flows /\ LoadDocument(r)
  \/ r \in Redemptions /\ Redeem(r)
  \/ r \in Refreshes /\ Refresh(r)

Arrive ==
  \/ \E g \in Registrations : Register(g)
  \/ \E f \in Flows : Authorize(f)
  \/ \E b \in Callbacks : Callback(b)
  \/ \E t \in Redemptions : HandleAuthCode(t)
  \/ \E t \in Refreshes : HandleRefresh(t)

Next ==
  \/ Arrive
  \/ \E r \in Requests : Handle(r)
  \/ \E f \in Flows : Consent(f)
  \/ Tick
  \/ \E c \in CimdClients, d \in Documents : Publish(c, d)
  \/ \E config \in Configs : Restart(config)
  \/ Finished

Spec == Init /\ [][Next]_vars

-----------------------------------------------------------------------------
(* Properties. *)

\* Type invariant: what each envelope, local and answer may hold.
TypeOK ==
  /\ cfg \in Configs
  /\ now \in Time
  /\ changes \in Nat
  /\ docs \in [CimdClients -> SUBSET Documents]
  /\ pc \in [Requests -> {"idle", "document", "redeem", "refresh", "done"}]
  /\ reply \in [Requests ->
       {"none", "200", "201", "302", "302_error", "400", "502", "invalid_grant",
        "upstream_error", "lost"}]
  /\ rg \in [Registrations -> Maybe(RegistrationEnvelope)]
  /\ par \in [Flows -> Maybe(Params)]
  /\ az \in [Flows -> Maybe(AuthorizeEnvelope)]
  /\ asked \in [Flows -> Maybe(UpstreamRequest)]
  /\ ucode \in [Flows -> {"none", "issued", "used"}]
  /\ cd \in [Callbacks -> Maybe(CodeEnvelope)]
  /\ via \in [Callbacks -> Maybe(Flows)]
  /\ sentTo \in [Callbacks -> Maybe(Uris)]
  /\ tk \in [TokenRequests -> TokenLocals]
  /\ rt \in [TokenRequests -> Maybe(RefreshEnvelope)]

\* The redirect URIs a client ever registered or published.
RedirectUris(c) == IF c \in Registrations THEN rg[c].uris ELSE UNION docs[c]

\* The browser is sent to registered targets only (authorize.py: redirecting to
\* an unvalidated URI is itself a vulnerability): a code or an error leaves
\* /callback for a URI that matches one its client registered or published and
\* that the policy would accept itself, though the document changed, the
\* process restarted or the callback was repeated in between.
SentOnlyToRegistered ==
  \A b \in Callbacks :
    sentTo[b] # None =>
      /\ AcceptRegistered(sentTo[b])
      /\ \E u \in RedirectUris(az[via[b]].client) : UriMatches(sentTo[b], u)

\* Tokens go to whoever started the flow the user consented to: when the
\* upstream issues tokens for a redemption, the client's verifier, client_id,
\* redirect_uri and resource are those of that very flow, although callbacks
\* can be repeated and codes delivered with another flow's state.
TokensOfOwnFlow ==
  \A t \in Redemptions :
    tk[t].session # None =>
      LET flow == az[tk[t].session]
          code == cd[tk[t].envelope] IN
      /\ tk[t].secret = flow.challenge
      /\ <<code.client, code.uri, code.resource>> = <<flow.client, flow.uri, flow.resource>>

\* However often a callback is repeated, a flow can be redeemed only until the
\* lifetimes of state and code have passed since /authorize (open_authorize,
\* _handle_auth_code).
RedeemedInTime ==
  \A t \in Redemptions :
    tk[t].session # None =>
      tk[t].startedAt < az[tk[t].session].at + StateTtl + CodeTtl

\* Routing survives the whole chain of refreshes (token.py: the proxy learns
\* from the token itself which upstream to talk to): a refresh envelope names
\* the resource of the flow its session began with, whatever redeployments
\* came in between.
RefreshKeepsResource ==
  \A t \in TokenRequests :
    rt[t] # None => rt[t].resource = az[rt[t].session].resource

\* What the envelopes amount to: a sign-in in which a flow's terms never change,
\* one consent yields one session to the verifier of that flow in time, and
\* renewals stay with the flow's resource, although the proxy remembers nothing
\* and whatever it sealed may come back at any time, in any slot, across
\* restarts (authorize.py, callback.py, token.py).
Allowed(c) == IF c \in Registrations /\ rg[c] = None THEN {} ELSE RedirectUris(c)
AllowedMap == [c \in Clients |-> Allowed(c)]
TermsMap ==
  [f \in Flows |->
     IF az[f] = None THEN None
     ELSE [client |-> az[f].client, uri |-> az[f].uri, challenge |-> az[f].challenge,
           resource |-> az[f].resource, at |-> az[f].at]]
ProofMap ==
  [t \in Redemptions |->
     IF tk[t].secret = None THEN None
     ELSE [secret |-> tk[t].secret, at |-> tk[t].startedAt]]
SessionMap == [t \in TokenRequests |-> tk[t].session]
RenewalMap ==
  [t \in TokenRequests |->
     IF rt[t] = None THEN None
     ELSE [session |-> rt[t].session, resource |-> rt[t].resource]]
Sign == INSTANCE SignIn WITH
  Acceptable <- {u \in Uris : AcceptRegistered(u)}, Matches <- UriMatches,
  allowed <- AllowedMap, terms <- TermsMap, code <- ucode, proof <- ProofMap,
  session <- SessionMap, renewal <- RenewalMap
ImplementsSignIn == Sign!Spec
=============================================================================
