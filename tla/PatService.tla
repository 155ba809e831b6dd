----------------------------- MODULE PatService -----------------------------
(***************************************************************************)
(* Personal access tokens of cimd-proxy: creation, listing, revocation and *)
(* the exchange for a short token (cimd_proxy/pat.py, pat_api.py), over    *)
(* the PostgreSQL table (pat_store.py, migrations/V1) and the Keycloak     *)
(* realm behind it (keycloak.py).                                          *)
(*                                                                         *)
(* The proxy is one asyncio process: a request runs alone between two      *)
(* awaits and interleaves with every other request at each of them.  An    *)
(* action is the stretch from one await to the next: the awaited call      *)
(* takes effect (in the database or upstream) and the handler runs on      *)
(* until it awaits again or answers.  Requests are one-shot slots; a row   *)
(* and its token are named after the creation that made them, because      *)
(* uuid4 and generate() never repeat and SHA-256 does not collide.         *)
(***************************************************************************)
EXTENDS Integers

CONSTANTS
  Creations,     \* POST /pat/tokens requests; also the ids of rows and tokens
  Listings,      \* GET /pat/tokens requests
  Revocations,   \* DELETE /pat/tokens/{id} requests
  Exchanges,     \* POST /token requests with the token-exchange grant
  Owners,        \* users: the sub of a realm
  Realms,        \* PAT_REALM_ISSUER values
  RealmOf,       \* the realm a user lives in
  Orgs,          \* organization aliases
  Urls,          \* spellings of a resource URI a client may send
  Resources,     \* RESOURCE_n_URL values
  Canon,         \* _normalise_requested_url, on those spellings
  Scopes,        \* client scopes
  Defaults,      \* the client scopes attached to a resource's client as default
  Configs,       \* configurations the process may be (re)started with
  Rosters,       \* roles and memberships the realm may start with
  Lifetimes,     \* values sent as expires_in_days, in ticks of the clock
  LongLifetime,  \* LONG_LIFETIME_DAYS, in ticks
  AssertionLife, \* MAX_ASSERTION_LIFETIME, in ticks
  Second,        \* the ticks of a second
  MaxTime,       \* bound: the clock stops here
  MaxChanges,    \* bound: administrator and restart steps
  None

Management == Creations \cup Listings \cup Revocations
Requests == Management \cup Exchanges

(***************************************************************************)
(* A configuration: PAT_REALM_ISSUER, the resources with a PAT client, and *)
(* PAT_SCOPES.  _load_pat refuses a PAT resource of another issuer, so the *)
(* issuer of every accepting resource is the realm.                        *)
(***************************************************************************)
Config == [realm : Realms, accepts : SUBSET Resources, offered : SUBSET Scopes]

VARIABLES
  cfg,      \* ProxyConfig of the running process
  now,      \* datetime.now(UTC), the clock of proxy, database and upstream
  table,    \* personal_access_token
  link,     \* upstream: a user's federated identity at the proxy's provider
  roles,    \* upstream: the scopes whose roles a user holds, per resource
  member,   \* upstream: the organizations of a user
  session,  \* upstream: a user's interactive sign-in and its access token
  changes,  \* administrator and restart steps so far
  pc,       \* the await a request is suspended at
  reply,    \* the answer a request got
  bearer,   \* management: the Authorization header presented
  cr,       \* creations: locals of PatService.create
  ex,       \* exchanges: locals of PatService.exchange
  target,   \* revocations: the id in the path
  shown     \* listings: the ids answered

upstream == <<link, roles, member, session>>
vars == <<cfg, now, table, link, roles, member, session, changes,
          pc, reply, bearer, cr, ex, target, shown>>

Time == Nat
Maybe(S) == S \cup {None}

(***************************************************************************)
(* PatRecord.  The name is left out; resources are kept as the distinct    *)
(* spellings the creation sent, each standing for one entry of the stored  *)
(* list, Canon[u].                                                         *)
(***************************************************************************)
PatRecord ==
  [owner : Owners, realm : Realms, tenant : Orgs, urls : SUBSET Urls,
   scopes : SUBSET Scopes, created : Time, expires : Time,
   lastUsed : Maybe(Time), revoked : Maybe(Time)]

CreateRequest ==
  [urls : SUBSET Urls, scopes : SUBSET Scopes, all : BOOLEAN,
   days : Nat, tenant : Orgs]

\* The upstream's short token, as far as the proxy relays it.
ShortToken ==
  [resource : Resources, scopes : SUBSET Scopes, org : Maybe(Orgs), at : Time]

ASSUME PatAssumption ==
  /\ RealmOf \in [Owners -> Realms]
  /\ Canon \in [Urls -> Resources]
  /\ Defaults \in [Resources -> SUBSET Scopes]
  /\ Configs \subseteq Config
  /\ Rosters \subseteq [roles : [Owners -> [Resources -> SUBSET Scopes]],
                       member : [Owners -> SUBSET Orgs]]
  /\ Lifetimes \subseteq Nat
  /\ LongLifetime \in Nat
  /\ AssertionLife \in Nat
  /\ Second \in Nat \ {0}
  /\ MaxTime \in Nat
  /\ MaxChanges \in Nat
  /\ None \notin Nat \cup Orgs \cup Urls \cup Resources \cup Creations
  /\ None \notin PatRecord \cup CreateRequest \cup ShortToken
  /\ Exchanges \cap Management = {}
  /\ Creations \cap (Listings \cup Revocations) = {}
  /\ Listings \cap Revocations = {}

Session == [live : BOOLEAN, orgs : SUBSET Orgs]

Bearer == [kind : {"session", "short", "other"}, owner : Owners]

CreateLocals ==
  [orgs : SUBSET Orgs, want : Maybe(CreateRequest), todo : SUBSET Urls,
   permitted : SUBSET Scopes, granted : [Urls -> SUBSET Scopes],
   row : Maybe(PatRecord)]

ExchangeLocals ==
  [token : Maybe(Creations), resource : Maybe(Urls), found : Maybe(PatRecord),
   entry : Maybe(Resources), usedAt : Maybe(Time), signedAt : Maybe(Time),
   short : Maybe(ShortToken), late : BOOLEAN]

Steps == {"idle", "introspect", "body", "getlink", "postlink", "trial", "insert",
          "select", "update", "find", "check", "sign", "grant", "touch", "done"}
Replies == {"none", "200", "201", "204", "400", "401", "403", "404", "409",
            "500", "502", "invalid_request", "invalid_grant",
            "resource_required", "invalid_target", "upstream_refused", "lost"}

NoCreate == [orgs |-> {}, want |-> None, todo |-> {}, permitted |-> {},
             granted |-> [u \in Urls |-> {}], row |-> None]
NoExchange == [token |-> None, resource |-> None, found |-> None,
               entry |-> None, usedAt |-> None, signedAt |-> None, short |-> None,
               late |-> FALSE]

(***************************************************************************)
(* Init: an empty table, no request yet, an upstream in some state.  A     *)
(* sign-in's access token names the organizations its owner had then.      *)
(***************************************************************************)
Init ==
  /\ cfg \in Configs
  /\ now = 0
  /\ table = [c \in Creations |-> None]
  /\ link = [o \in Owners |-> "none"]
  /\ \E start \in Rosters : roles = start.roles /\ member = start.member
  /\ session = [o \in Owners |-> [live |-> TRUE, orgs |-> member[o]]]
  /\ changes = 0
  /\ pc = [r \in Requests |-> "idle"]
  /\ reply = [r \in Requests |-> "none"]
  /\ bearer = [r \in Management |-> None]
  /\ cr = [c \in Creations |-> NoCreate]
  /\ ex = [e \in Exchanges |-> NoExchange]
  /\ target = [v \in Revocations |-> None]
  /\ shown = [l \in Listings |-> {}]

-----------------------------------------------------------------------------
(* How a request moves on. *)

Answer(r, code) ==
  /\ pc' = [pc EXCEPT ![r] = "done"]
  /\ reply' = [reply EXCEPT ![r] = code]

GoTo(r, step) ==
  /\ pc' = [pc EXCEPT ![r] = step]
  /\ UNCHANGED reply

\* A refused creation or exchange: the handler's locals go with it.
RefuseCreate(c, code) ==
  /\ Answer(c, code)
  /\ cr' = [cr EXCEPT ![c] = NoCreate]

RefuseExchange(e, code) ==
  /\ Answer(e, code)
  /\ ex' = [ex EXCEPT ![e] =
              [NoExchange EXCEPT !.token = ex[e].token, !.late = ex[e].late]]

\* httpx.HTTPError or an unexpected upstream status is a ServerError, 502; a
\* statement that raises (lost connection, PoolTimeout) leaves the handler as an
\* unhandled exception, 500, and may have been committed or not.
UpstreamDown == "502"
DbDown == "500"

-----------------------------------------------------------------------------
(* Management: the bearer (PatService.authenticate). *)

\* A short token can be presented once some exchange has handed one out.
Presentable ==
  {b \in Bearer :
     b.kind = "short" =>
       \E e \in Exchanges : reply[e] = "200" /\ ex[e].found.owner = b.owner}

\* The header alone decides a missing bearer (401) and a personal access token
\* (403); anything else is introspected.
PresentBearer(r) ==
  /\ pc[r] = "idle"
  /\ \/ Answer(r, "401") /\ UNCHANGED bearer
     \/ Answer(r, "403") /\ UNCHANGED bearer
     \/ /\ \E b \in Presentable : bearer' = [bearer EXCEPT ![r] = b]
        /\ GoTo(r, "introspect")
  /\ UNCHANGED <<cfg, now, table, upstream, changes, cr, ex, target, shown>>

\* Introspection at the configured realm: active, of this realm, an access
\* token.  "other" stands for the bearers that are not.
Active(b) ==
  \/ b.kind = "short"
  \/ b.kind = "session" /\ session[b.owner].live /\ RealmOf[b.owner] = cfg.realm

\* The sid claim: an interactive sign-in has a session, a short token from the
\* JWT Authorization Grant has none (measured).
Mutant_HasSession(b) == TRUE
HasSession(b) == b.kind = "session"

\* The introspection step of every management handler; Handler is what the
\* handler does with the verified caller.
Authenticate(r, Handler) ==
  /\ pc[r] = "introspect"
  /\ LET b == bearer[r] IN
       \/ Answer(r, UpstreamDown) /\ UNCHANGED cr
       \/ ~Active(b) /\ Answer(r, "401") /\ UNCHANGED cr
       \/ Active(b) /\ ~HasSession(b) /\ Answer(r, "403") /\ UNCHANGED cr
       \/ Active(b) /\ HasSession(b) /\ Handler
  /\ UNCHANGED <<cfg, now, table, upstream, changes, bearer, ex, target, shown>>

-----------------------------------------------------------------------------
(* Creation. *)

\* The bodies parse_create can be given, already well typed; org is None when
\* the body names no organization.
Body ==
  [urls : SUBSET Urls, scopes : SUBSET Scopes, all : BOOLEAN,
   days : Lifetimes, longOk : BOOLEAN, org : Maybe(Orgs)]

Lifetime(body) ==
  /\ body.days >= 1
  /\ body.days > LongLifetime => body.longOk

ParseCreate(body) ==
  /\ body.urls # {}
  /\ \A u \in body.urls : Canon[u] \in cfg.accepts
  /\ body.scopes \subseteq cfg.offered
  /\ ~(body.all /\ body.scopes # {})
  /\ Lifetime(body)

\* _tenant_for picks t, given the organizations the bearer names.
TenantFor(orgs, org, t) ==
  /\ t \in orgs
  /\ IF org = None THEN orgs = {t} ELSE t = org

\* The locals of a creation that is let in.
Mutant_Admitted(orgs, body, t) ==
  [orgs |-> orgs,
   want |-> [urls |-> body.urls, scopes |-> body.scopes, all |-> body.all,
             days |-> body.days, tenant |-> body.org],
   todo |-> body.urls,
   permitted |-> IF body.all THEN cfg.offered ELSE body.scopes,
   granted |-> [u \in Urls |-> {}],
   row |-> None]
Admitted(orgs, body, t) ==
  [orgs |-> orgs,
   want |-> [urls |-> body.urls, scopes |-> body.scopes, all |-> body.all,
             days |-> body.days, tenant |-> t],
   todo |-> body.urls,
   permitted |-> IF body.all THEN cfg.offered ELSE body.scopes,
   granted |-> [u \in Urls |-> {}],
   row |-> None]

\* The verified caller's organizations are what the creation goes on with: the
\* handler awaits the client's body next, and memberships or the sign-in may
\* change before that arrives.
AuthenticateCreate(c) ==
  Authenticate(c,
    /\ cr' = [cr EXCEPT ![c].orgs = session[bearer[c].owner].orgs]
    /\ GoTo(c, "body"))

\* The client's body arrives, however late; parse_create and the synchronous
\* start of PatService.create follow.  A body that is no JSON is None to
\* parse_create, 400; a client that hangs up instead raises ClientDisconnect,
\* which nobody catches, and there is nobody left to answer.
ReadBody(c) ==
  /\ pc[c] = "body"
  /\ LET orgs == cr[c].orgs IN
       \/ RefuseCreate(c, "lost")
       \/ \E body \in Body :
            \/ ~ParseCreate(body) /\ RefuseCreate(c, "400")
            \/ /\ ParseCreate(body)
               /\ \A t \in Orgs : ~TenantFor(orgs, body.org, t)
               /\ RefuseCreate(c, IF body.org = None /\ orgs # {} THEN "400" ELSE "403")
            \/ /\ ParseCreate(body)
               /\ \E t \in Orgs :
                    /\ TenantFor(orgs, body.org, t)
                    /\ cr' = [cr EXCEPT ![c] = Admitted(orgs, body, t)]
               /\ GoTo(c, "getlink")
  /\ UNCHANGED <<cfg, now, table, upstream, changes, bearer, ex, target, shown>>

\* ensure_link: the admin client logs in and reads the owner's links.
EnsureLinkGet(c) ==
  /\ pc[c] = "getlink"
  /\ LET found == link[bearer[c].owner] IN
       \/ RefuseCreate(c, UpstreamDown)
       \/ found = "own" /\ GoTo(c, "trial") /\ UNCHANGED cr
       \/ found = "foreign" /\ RefuseCreate(c, "409")
       \/ found = "none" /\ GoTo(c, "postlink") /\ UNCHANGED cr
  /\ UNCHANGED <<cfg, now, table, upstream, changes, bearer, ex, target, shown>>

\* ensure_link found no link and posts one.  The upstream refuses a second
\* link with 409, which ensure_link reports as a ServerError; a timeout
\* leaves the link made or not.
Mutant_EnsureLinkPost(c) ==
  /\ pc[c] = "postlink"
  /\ GoTo(c, "getlink")
  /\ UNCHANGED <<cfg, now, table, upstream, changes, bearer, cr, ex, target, shown>>
EnsureLinkPost(c) ==
  /\ pc[c] = "postlink"
  /\ LET o == bearer[c].owner
         linked == [link EXCEPT ![o] = "own"] IN
       \/ RefuseCreate(c, UpstreamDown) /\ UNCHANGED link
       \/ link[o] = "none" /\ link' = linked /\ RefuseCreate(c, UpstreamDown)
       \/ link[o] = "none" /\ link' = linked /\ GoTo(c, "trial") /\ UNCHANGED cr
  /\ UNCHANGED <<cfg, now, table, roles, member, session, changes, bearer,
                 ex, target, shown>>

\* The scope answer to a linked owner: the client's default scopes and the
\* optional ones asked for, less those whose roles the owner does not hold
\* (measured).
GrantedScopes(o, resource, asked) ==
  (asked \cup Defaults[resource]) \cap roles[o][resource]

\* The row PatService.create builds once every trial exchange has passed.
NewRow(c, scopes) ==
  LET want == cr[c].want IN
  [owner |-> bearer[c].owner, realm |-> cfg.realm, tenant |-> want.tenant,
   urls |-> want.urls, scopes |-> scopes, created |-> now,
   expires |-> now + want.days, lastUsed |-> None, revoked |-> None]

\* One turn of the loop in _granted_scopes: the set it goes on with.
Mutant_Keep(c, granted) == IF cr[c].want.all THEN granted ELSE cr[c].want.scopes
Keep(c, granted) ==
  IF cr[c].want.all THEN cr[c].permitted \cap granted ELSE cr[c].want.scopes

\* A named set must be granted whole, at each resource.
Missing(c, granted) == ~cr[c].want.all /\ ~(cr[c].want.scopes \subseteq granted)

\* The locals after a trial at u, and after the last one the row to insert.
Tried(c, u, granted) ==
  LET kept == Keep(c, granted)
      left == cr[c].todo \ {u} IN
  [cr[c] EXCEPT !.todo = left,
                !.permitted = kept,
                !.granted = [@ EXCEPT ![u] = granted],
                !.row = IF left = {} THEN NewRow(c, kept) ELSE None]

\* The upstream answers one trial exchange; after the last one the handler
\* refuses an empty all_permitted set, else reads the clock and goes on to
\* the insert.
TrialExchange(c) ==
  /\ pc[c] = "trial"
  /\ \/ RefuseCreate(c, UpstreamDown)
     \/ \E u \in cr[c].todo :
          LET o == bearer[c].owner
              granted == GrantedScopes(o, Canon[u], cr[c].permitted)
              left == cr[c].todo \ {u}
              nothing == left = {} /\ cr[c].want.all /\ Keep(c, granted) = {} IN
          /\ link[o] = "own"
          /\ \/ Missing(c, granted) /\ RefuseCreate(c, "403")
             \/ ~Missing(c, granted) /\ nothing /\ RefuseCreate(c, "403")
             \/ /\ ~Missing(c, granted) /\ ~nothing
                /\ cr' = [cr EXCEPT ![c] = Tried(c, u, granted)]
                /\ GoTo(c, IF left = {} THEN "insert" ELSE "trial")
  /\ UNCHANGED <<cfg, now, table, upstream, changes, bearer, ex, target, shown>>

\* INSERT, and the 201 that carries the token.
Insert(c) ==
  /\ pc[c] = "insert"
  /\ LET stored == [table EXCEPT ![c] = cr[c].row] IN
       \/ table' = stored /\ Answer(c, "201") /\ UNCHANGED cr
       \/ table' = stored /\ Answer(c, DbDown) /\ UNCHANGED cr
       \/ UNCHANGED table /\ RefuseCreate(c, DbDown)
  /\ UNCHANGED <<cfg, now, upstream, changes, bearer, ex, target, shown>>

-----------------------------------------------------------------------------
(* Listing and revocation: the WHERE clauses of _q_list and _q_revoke. *)

Mutant_OwnRow(r, id) == table[id] # None /\ table[id].realm = cfg.realm
OwnRow(r, id) ==
  /\ table[id] # None
  /\ table[id].realm = cfg.realm
  /\ table[id].owner = bearer[r].owner

AuthenticateList(l) == Authenticate(l, GoTo(l, "select") /\ UNCHANGED cr)

ListForOwner(l) ==
  /\ pc[l] = "select"
  /\ \/ /\ shown' = [shown EXCEPT ![l] = {id \in Creations : OwnRow(l, id)}]
        /\ Answer(l, "200")
     \/ Answer(l, DbDown) /\ UNCHANGED shown
  /\ UNCHANGED <<cfg, now, table, upstream, changes, bearer, cr, ex, target>>

AuthenticateRevoke(v) == Authenticate(v, GoTo(v, "update") /\ UNCHANGED cr)

Mutant_Revocable(v, id) == OwnRow(v, id)
Revocable(v, id) == OwnRow(v, id) /\ table[id].revoked = None

\* UPDATE ... SET revoked_at = now(); rowcount decides 204 or 404, and an id
\* that is no uuid is a 404 as well.
RevokeUpdate(v) ==
  /\ pc[v] = "update"
  /\ \E id \in Creations :
       LET revoked == [table EXCEPT ![id].revoked = now] IN
       /\ target' = [target EXCEPT ![v] = id]
       /\ \/ Revocable(v, id) /\ table' = revoked /\ Answer(v, "204")
          \/ Revocable(v, id) /\ table' = revoked /\ Answer(v, DbDown)
          \/ ~Revocable(v, id) /\ UNCHANGED table /\ Answer(v, "404")
          \/ UNCHANGED table /\ Answer(v, DbDown)
  /\ UNCHANGED <<cfg, now, upstream, changes, bearer, cr, ex, shown>>

-----------------------------------------------------------------------------
(* The exchange. *)

\* Is the row dead at this instant?
Expired(row) == row.expires <= now
Dead(row) == row.revoked # None \/ Expired(row)

\* The form parameters are checked before any lookup; a token that is not well
\* formed, or a wrong token type, never reaches the database.  None is a well
\* formed token nobody was given.  late remembers, for the properties, that the
\* token was dead when it was presented.
PresentToken(e) ==
  /\ pc[e] = "idle"
  /\ \/ Answer(e, "invalid_request") /\ UNCHANGED ex
     \/ Answer(e, "invalid_grant") /\ UNCHANGED ex
     \/ \E t \in Maybe({c \in Creations : reply[c] = "201"}), u \in Maybe(Urls) :
          /\ ex' = [ex EXCEPT ![e].token = t,
                              ![e].resource = u,
                              ![e].late = t # None /\ Dead(table[t])]
          /\ GoTo(e, "find")
  /\ UNCHANGED <<cfg, now, table, upstream, changes, bearer, cr, target, shown>>

FindByHash(e) ==
  /\ pc[e] = "find"
  /\ LET t == ex[e].token IN
       \/ RefuseExchange(e, DbDown)
       \/ t = None /\ RefuseExchange(e, "invalid_grant")
       \/ /\ t # None
          /\ ex' = [ex EXCEPT ![e].found = table[t]]
          /\ GoTo(e, "check")
  /\ UNCHANGED <<cfg, now, table, upstream, changes, bearer, cr, target, shown>>

\* The checks of exchange on the row the lookup returned; the tenant check is
\* part of PatRecord's type, the column being NOT NULL and not ''.
Mutant_RowRefused(row) == Expired(row) \/ row.realm # cfg.realm
Mutant_RowRefused_DayEarly(row) ==
  row.revoked # None \/ row.expires <= now + 1 \/ row.realm # cfg.realm
Mutant_RowRefused_AtExpiry(row) ==
  row.revoked # None \/ row.expires < now \/ row.realm # cfg.realm
RowRefused(row) == Dead(row) \/ row.realm # cfg.realm

\* len(record.resources) = 1
OneEntry(row) == \E u \in Urls : row.urls = {u}

\* _resolve_resource picks the entry of resource x for the row.
Resolves(row, u, x) ==
  /\ x \in {Canon[w] : w \in row.urls}
  /\ x \in cfg.accepts
  /\ IF u = None THEN OneEntry(row) ELSE x = Canon[u]

\* The lookup has returned: exchange reads the clock, for the expiry check and
\* for the last use, and resolves the resource.
CheckRow(e) ==
  /\ pc[e] = "check"
  /\ LET row == ex[e].found
         u == ex[e].resource IN
       \/ RowRefused(row) /\ RefuseExchange(e, "invalid_grant")
       \/ /\ ~RowRefused(row) /\ u = None /\ ~OneEntry(row)
          /\ RefuseExchange(e, "resource_required")
       \/ /\ ~RowRefused(row) /\ ~(u = None /\ ~OneEntry(row))
          /\ \A x \in Resources : ~Resolves(row, u, x)
          /\ RefuseExchange(e, "invalid_target")
       \/ /\ ~RowRefused(row)
          /\ \E x \in Resources :
               /\ Resolves(row, u, x)
               /\ ex' = [ex EXCEPT ![e].entry = x, ![e].usedAt = now]
          /\ GoTo(e, "sign")
  /\ UNCHANGED <<cfg, now, table, upstream, changes, bearer, cr, target, shown>>

\* AssertionSigner.sign reads the clock again.  There is no await since CheckRow,
\* but the clock runs on, and the process may be held up or end.  No other request
\* looks at what is written here, so a step of theirs in between does no harm.
Sign(e) ==
  /\ pc[e] = "sign"
  /\ ex' = [ex EXCEPT ![e].signedAt = now]
  /\ GoTo(e, "grant")
  /\ UNCHANGED <<cfg, now, table, upstream, changes, bearer, cr, target, shown>>

\* What the exchange asks the upstream for: the row's scopes.
Mutant_AskedScopes(e) == cfg.offered
AskedScopes(e) == ex[e].found.scopes

\* The short token the upstream mints for the assertion: the organization claim
\* is the one asked for, and absent for a non-member (measured).
Mint(e) ==
  LET row == ex[e].found IN
  [resource |-> ex[e].entry,
   scopes |-> GrantedScopes(row.owner, ex[e].entry, AskedScopes(e)),
   org |-> IF row.tenant \in member[row.owner] THEN row.tenant ELSE None,
   at |-> now]

\* int(time.time()), the assertion's iat.
Mutant_Whole(t) == t - (t % Second) + Second
Whole(t) == t - (t % Second)

\* The assertion still stands: its exp is AssertionLife after its iat.
Assertion(e) == now <= Whole(ex[e].signedAt) + AssertionLife

\* _UpstreamRefusal: the upstream's own error is the answer.
Mutant_UpstreamRefusal(e) == GoTo(e, "touch") /\ UNCHANGED ex
UpstreamRefusal(e) == RefuseExchange(e, "upstream_refused")

\* jwt_bearer_grant: refused or unreachable, issued, or issued with the answer
\* lost on the way.
JwtBearerGrant(e) ==
  /\ pc[e] = "grant"
  /\ LET accepted == link[ex[e].found.owner] = "own" /\ Assertion(e)
         minted == [ex EXCEPT ![e].short = Mint(e)] IN
       \/ RefuseExchange(e, UpstreamDown)
       \/ UpstreamRefusal(e)
       \/ accepted /\ ex' = minted /\ Answer(e, UpstreamDown)
       \/ accepted /\ ex' = minted /\ GoTo(e, "touch")
  /\ UNCHANGED <<cfg, now, table, upstream, changes, bearer, cr, target, shown>>

\* UPDATE ... SET last_used_at: the column alone, addressed by id.
Mutant_Touched(e) == [ex[e].found EXCEPT !.lastUsed = ex[e].usedAt]
Touched(e) == [table[ex[e].token] EXCEPT !.lastUsed = ex[e].usedAt]

Touch(e) ==
  /\ pc[e] = "touch"
  /\ LET touched == [table EXCEPT ![ex[e].token] = Touched(e)] IN
       \/ table' = touched /\ Answer(e, "200")
       \/ table' = touched /\ Answer(e, DbDown)
       \/ UNCHANGED table /\ Answer(e, DbDown)
  /\ UNCHANGED <<cfg, now, upstream, changes, bearer, cr, ex, target, shown>>

-----------------------------------------------------------------------------
(* The surroundings: time, the realm's administrator, sign-ins, restarts. *)

Tick ==
  /\ now < MaxTime
  /\ now' = now + 1
  /\ UNCHANGED <<cfg, table, upstream, changes, pc, reply, bearer, cr, ex, target, shown>>

Change ==
  /\ changes < MaxChanges
  /\ changes' = changes + 1
  /\ UNCHANGED <<now, table, bearer, cr, ex, target, shown>>

\* An owner gains or loses the roles of one scope at one resource.
RoleChange(o, x, s) ==
  /\ Change
  /\ roles' = [roles EXCEPT ![o][x] =
                 IF s \in roles[o][x] THEN roles[o][x] \ {s} ELSE roles[o][x] \cup {s}]
  /\ UNCHANGED <<cfg, link, member, session, pc, reply>>

MembershipChange(o, g) ==
  /\ Change
  /\ member' = [member EXCEPT ![o] =
                  IF g \in member[o] THEN member[o] \ {g} ELSE member[o] \cup {g}]
  /\ UNCHANGED <<cfg, link, roles, session, pc, reply>>

\* Sign-out, and a new sign-in whose token names the present memberships.
SessionChange(o) ==
  /\ Change
  /\ session' = [session EXCEPT ![o] =
       [live |-> ~session[o].live,
        orgs |-> IF session[o].live THEN session[o].orgs ELSE member[o]]]
  /\ UNCHANGED <<cfg, link, roles, member, pc, reply>>

\* An administrator links or unlinks the owner by hand.
LinkChange(o, l) ==
  /\ Change
  /\ link[o] # l
  /\ link' = [link EXCEPT ![o] = l]
  /\ UNCHANGED <<cfg, roles, member, session, pc, reply>>

\* The process ends (crash or deploy) and starts with some configuration:
\* requests under way get no answer.
Restart(config) ==
  /\ Change
  /\ cfg' = config
  /\ pc' = [r \in Requests |-> IF pc[r] = "idle" THEN "idle" ELSE "done"]
  /\ reply' = [r \in Requests |-> IF pc[r] \in {"idle", "done"} THEN reply[r] ELSE "lost"]
  /\ UNCHANGED upstream

-----------------------------------------------------------------------------
CreateStep(c) ==
  \/ AuthenticateCreate(c) \/ ReadBody(c) \/ EnsureLinkGet(c) \/ EnsureLinkPost(c)
  \/ TrialExchange(c) \/ Insert(c)

ListStep(l) == AuthenticateList(l) \/ ListForOwner(l)

RevokeStep(v) == AuthenticateRevoke(v) \/ RevokeUpdate(v)

ExchangeStep(e) ==
  FindByHash(e) \/ CheckRow(e) \/ Sign(e) \/ JwtBearerGrant(e) \/ Touch(e)

Arrive ==
  \/ \E r \in Management : PresentBearer(r)
  \/ \E e \in Exchanges : PresentToken(e)

Surroundings ==
  \/ Tick
  \/ \E o \in Owners, x \in Resources, s \in Scopes : RoleChange(o, x, s)
  \/ \E o \in Owners, g \in Orgs : MembershipChange(o, g)
  \/ \E o \in Owners : SessionChange(o)
  \/ \E o \in Owners, l \in {"none", "own", "foreign"} : LinkChange(o, l)
  \/ \E config \in Configs : Restart(config)

\* The bounded run is over: every request answered, the clock at its bound.
Finished == (\A r \in Requests : pc[r] = "done") /\ UNCHANGED vars

Next ==
  \/ Arrive
  \/ \E c \in Creations : CreateStep(c)
  \/ \E l \in Listings : ListStep(l)
  \/ \E v \in Revocations : RevokeStep(v)
  \/ \E e \in Exchanges : ExchangeStep(e)
  \/ Surroundings
  \/ Finished

Spec == Init /\ [][Next]_vars

-----------------------------------------------------------------------------
(* Properties. *)

\* Type invariant: what each column, local and answer may hold.
TypeOK ==
  /\ cfg \in Configs
  /\ now \in Time
  /\ table \in [Creations -> Maybe(PatRecord)]
  /\ link \in [Owners -> {"none", "own", "foreign"}]
  /\ roles \in [Owners -> [Resources -> SUBSET Scopes]]
  /\ member \in [Owners -> SUBSET Orgs]
  /\ session \in [Owners -> Session]
  /\ changes \in Nat
  /\ pc \in [Requests -> Steps]
  /\ reply \in [Requests -> Replies]
  /\ bearer \in [Management -> Maybe(Bearer)]
  /\ cr \in [Creations -> CreateLocals]
  /\ ex \in [Exchanges -> ExchangeLocals]
  /\ target \in [Revocations -> Maybe(Creations)]
  /\ shown \in [Listings -> SUBSET Creations]

\* A revoked or expired token is refused: an exchange that presents a token
\* already dead never makes the upstream mint a short token, whatever
\* revocations, clock and other exchanges do between its lookup, its check and
\* its grant (PatService.exchange).
DeadTokenMintsNothing ==
  \A e \in Exchanges : ex[e].late => ex[e].short = None

\* The window an exchange leaves open after the personal access token's expiry:
\* the expiry is checked at one clock reading and the assertion dated by a later,
\* truncated one, so a short token is minted less than the assertion's lifetime
\* and the pause between the two readings past the expiry, whatever revocations
\* and other exchanges do (PatService.exchange, AssertionSigner.sign).
Pause(e) == ex[e].signedAt - ex[e].usedAt
MintedBeforeGraceEnds ==
  \A e \in Exchanges :
    ex[e].short # None =>
      ex[e].short.at < table[ex[e].token].expires + AssertionLife + Pause(e)

\* A short token stays inside the stored row: a resource the row names, no
\* scope beyond the row's set and the client's defaults, never another
\* organization; a role gained, a PAT_SCOPES grown by a redeploy or a second
\* membership does not widen it.
ShortTokenWithinRow ==
  \A e \in Exchanges :
    ex[e].short # None =>
      LET row == table[ex[e].token]
          short == ex[e].short IN
      /\ short.resource \in {Canon[u] : u \in row.urls}
      /\ short.scopes \subseteq row.scopes \cup Defaults[short.resource]
      /\ short.org \in {row.tenant, None}

\* The row is a fact (migrations/V1: "revocation is a fact, not an absence"):
\* no step removes a row, rewrites an owner, a set or an expiry, or moves or
\* undoes a revocation, and no exchange that read the row earlier does so when
\* it records the last use.
Fixed(row) == <<row.owner, row.realm, row.tenant, row.urls, row.scopes,
               row.created, row.expires>>
RowStep(old, new) ==
  /\ new # None
  /\ Fixed(new) = Fixed(old)
  /\ old.revoked # None => new.revoked = old.revoked
RowIsAFact ==
  [][\A id \in Creations : table[id] # None => RowStep(table[id], table'[id])]_vars

\* The stored set was granted whole by the upstream at every resource the row
\* names, in the trial exchanges of its own creation (_granted_scopes), though
\* roles change between one trial and the next.
StoredSetWasGranted ==
  \A c \in Creations :
    table[c] # None =>
      \A u \in table[c].urls : table[c].scopes \subseteq cr[c].granted[u]

\* A leaked personal access token cannot mint more: every row was created
\* under an interactive sign-in of its owner, for an organization that sign-in
\* named, although short tokens may be presented as bearers (authenticate,
\* _tenant_for).
MintedBySignedInOwner ==
  \A c \in Creations :
    table[c] # None =>
      /\ bearer[c] = [kind |-> "session", owner |-> table[c].owner]
      /\ table[c].tenant \in cr[c].orgs
      /\ table[c].realm = RealmOf[table[c].owner]

\* Owners are isolated: a listing shows and a revocation hits only rows of the
\* caller, and a row is revoked only by a request of its owner (_q_list,
\* _q_revoke).
OwnersIsolated ==
  /\ \A l \in Listings : \A id \in shown[l] : table[id].owner = bearer[l].owner
  /\ \A id \in Creations :
       table[id] # None /\ table[id].revoked # None =>
         \E v \in Revocations :
           /\ target[v] = id
           /\ reply[v] \in {"204", "500"}
           /\ bearer[v].owner = table[id].owner

\* Of any number of concurrent or repeated revocations of a row at most one is
\* answered 204: the rest see no row to change (revoke, rowcount).
RevokedOnce ==
  \A v, w \in Revocations :
    reply[v] = "204" /\ reply[w] = "204" /\ target[v] = target[w] => v = w

\* A token that was handed out is refused as invalid only when it is dead or
\* the deployment has moved to another realm (exchange): no live token is lost.
RefusedOnlyWhenDead ==
  \A e \in Exchanges :
    reply[e] = "invalid_grant" /\ ex[e].token # None =>
      \/ Dead(table[ex[e].token])
      \/ \E config \in Configs : config.realm # table[ex[e].token].realm

\* last_used_at records real uses only: it is the clock reading of an exchange
\* of this token for which the upstream did mint a short token.
LastUseWasAUse ==
  \A id \in Creations :
    table[id] # None /\ table[id].lastUsed # None =>
      \E e \in Exchanges :
        /\ ex[e].token = id
        /\ ex[e].short # None
        /\ ex[e].usedAt = table[id].lastUsed

\* The steps a request takes, each when the peer it awaits answers or fails: the
\* client its body, the upstream a call, the database a statement.
RequestStep(r) ==
  \/ r \in Creations /\ CreateStep(r)
  \/ r \in Listings /\ ListStep(r)
  \/ r \in Revocations /\ RevokeStep(r)
  \/ r \in Exchanges /\ ExchangeStep(r)

\* A request waits on nothing but its own peers: if whatever it awaits answers or
\* fails in the end it is answered, hangs up or ends with the process, though every
\* other request may be stuck for ever in an await of its own and links, roles and
\* the deployment change (ensure_link, the loop of _granted_scopes).  The premise
\* is the peers' affair, not the proxy's: request.json() and the statements have no
\* timeout, and httpx's is one per read, not per call.
RequestsEnd ==
  \A r \in Requests :
    WF_vars(RequestStep(r)) => (pc[r] # "idle" ~> pc[r] = "done")

(***************************************************************************)
(* The refinement mapping to PatLife.  A restart leaves a call unanswered; *)
(* a 5xx answer claims nothing.                                            *)
(***************************************************************************)
RowState(row) ==
  IF row = None THEN "none"
  ELSE IF row.revoked # None THEN "revoked"
  ELSE IF Expired(row) THEN "expired" ELSE "live"
CallState(r) ==
  IF pc[r] = "idle" THEN "none"
  ELSE IF reply[r] \in {"none", "lost"} THEN "sent"
  ELSE IF reply[r] \in {"200", "201", "204"} THEN reply[r]
  ELSE IF reply[r] \in {UpstreamDown, DbDown} THEN "500" ELSE "4xx"
UseState(e) ==
  IF ex[e].short # None THEN "minted"
  ELSE IF pc[e] = "idle" THEN "none"
  ELSE IF pc[e] = "done" THEN "denied"
  ELSE IF ex[e].late \/ ex[e].token = None THEN "closed" ELSE "open"
RowMap == [id \in Creations |-> RowState(table[id])]
CallMap == [r \in Management |-> CallState(r)]
UseMap == [e \in Exchanges |-> UseState(e)]
Life == INSTANCE PatLife WITH row <- RowMap, call <- CallMap, use <- UseMap

\* What callers can rely on (PatLife) is what they get, whatever owners, scopes,
\* links, clocks, awaits and restarts do behind it: the handlers of pat_api.py and
\* the exchange implement the abstract life of a token.
ImplementsPatLife == Life!Spec

-----------------------------------------------------------------------------
(* What the repository says and the code does not do. *)

\* pat_store.py: touch is "Recording the last use": after an answered exchange
\* the column is not older than that exchange.
LastUseIsTheLatest ==
  \A e \in Exchanges :
    reply[e] = "200" => table[ex[e].token].lastUsed >= ex[e].usedAt

\* pat.py: a short token without an organization claim "is not a decision the
\* proxy may leave open": an exchange answered 200 names the row's tenant.
AnsweredTokenNamesTenant ==
  \A e \in Exchanges :
    reply[e] = "200" => ex[e].short.org = table[ex[e].token].tenant
=============================================================================
