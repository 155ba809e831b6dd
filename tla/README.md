# cimd-proxy in TLA+

TLA+ models of cimd-proxy, the TLC runs that check them on small instances, and
TLAPS proofs for every instance. Every definition is translated from the code
under `src/src/cimd_proxy/`; `PROJECT.json` names the lines behind each one.

## 1. The system

cimd-proxy is one asyncio process (FastAPI) between MCP clients and a Keycloak
realm. It lets clients that identify themselves by a document URL (CIMD) or by
dynamic registration (DCR) sign users in at Keycloak, and it issues personal
access tokens (PATs) that are exchanged for short-lived Keycloak tokens.

| Component | State | Operations | Talks to |
|---|---|---|---|
| PAT service (`pat.py`, `pat_api.py`, `pat_format.py`) | none of its own; locals of suspended requests | authenticate, create, list, revoke, exchange | token store, Keycloak |
| Token store (`pat_store.py`, `migrations/`) | table `personal_access_token` | insert, find_by_hash, list_for_owner, revoke, touch, check_schema | PostgreSQL, pool of five |
| Keycloak client, assertions (`keycloak.py`, `assertion.py`, `upstream.py`) | signing keys from the configuration | introspect, ensure_link (read, then post), JWT Authorization Grant, JWKS | Keycloak |
| CIMD documents (`cimd_service.py`, `cache.py`, `fetcher.py`) | in-memory TTL cache | obtain: get, resolve, pinned fetch, validate, choose_ttl, put | DNS, the clients' origins |
| Interactive sign-in (`register.py`, `authorize.py`, `callback.py`, `token.py`) | none: everything is in envelopes | register, authorize, callback, token (code, refresh) | CIMD documents, Keycloak, browsers |
| Envelopes (`envelope.py`) | the Fernet key | seal and open, four kinds with tags | carried by clients and browsers |
| Redirect policy, PKCE (`redirect_uri.py`, `pkce.py`) | none | accept_registered, uri_matches_registration, make_verifier, verify_challenge | |
| Configuration, wiring (`config.py`, `app.py`, `__main__.py`) | ProxyConfig, fixed for a process | load, create_app, lifespan | environment |
| Command line tools (`pat_cli.py`) | one slot filled by the loopback receiver | pat-create, pat-list, pat-revoke | the endpoints, a browser |
| Discovery, health, errors, correlation, logging | none | static answers | |

### What is hard here

* **Interleaving at awaits.** A request runs alone between two awaits and races
  with everything else at each of them. A row read by an exchange is checked and
  then used after another await; `ensure_link` reads and then posts; a creation
  makes one trial exchange per resource while roles change; fetches of one
  client's document overtake each other.
* **Effects without answers.** A statement commits or the upstream grants and the
  answer is lost, or the process ends first. Nothing is resumed.
* **Staleness.** Rows outlive memberships, deployments and realms; envelopes
  outlive the process and the document they were made from; DNS answers change
  between the check and the connection.
* **Statelessness.** On the interactive path the parties hold the state: states,
  codes and refresh tokens can be repeated, mixed up and presented late.
* **Several processes.** Instances of different images start beside each other
  while the schema is migrated and the signing key is rotated; the provider caches
  the keys; a command line tool has a listener thread, handler threads and a main
  thread, and its port is reused by the next command.
* **Edges.** Expiry at the very instant, two clock readings of which one is
  truncated, `max-age` negative, malformed or huge.
* **Waiting.** A request waits for its client's body and for statements without a
  timeout; a command waits in `webbrowser.open`, `wait` and `shutdown`.

`PROJECT.json` lists each hazard at its line with the properties that would catch
it.

### What makes each component correct

* PAT service and store: dead tokens mint nothing, and the expiry window is bounded
  by the assertion's lifetime and the pause before it is signed; a short token never exceeds its row; a row is an
  immutable fact but for last use and one revocation; only a signed-in owner
  creates; what is stored was granted; owners are isolated; live tokens are not
  refused; no request holds up another.
* CIMD documents: only validated documents are cached, only checked addresses are
  dialled, a hit is recent, an origin is not fetched more often than `min_ttl`
  allows.
* Interactive sign-in, envelopes, policy: browsers are sent to registered targets
  only; tokens go to whoever started the flow consented to; flows expire; routing
  survives refreshes and redeployments.
* Configuration, wiring, keys: what start-up accepts the requests can use; whoever
  serves finds its schema; the provider always finds the key when it fetches, and
  an old key ends with its rotation.
* Command line tools: one redirect counts, only the own code is redeemed, secrets
  go to secure URLs, what a command prints and says is true, and no redirect, thread or
  timeout keeps it from exiting.

## 2. Modules

| Module | Role |
|---|---|
| `PatLife` | abstract: what callers of the PAT service are promised |
| `PatService` | PAT service, store and the realm behind them, await by await |
| `PatServiceProofs`, `PatLifeProofs`, `PatHistoryProofs` | its theorems, the refinement of `PatLife`, and what answers say of the past |
| `DocumentSource` | abstract: fresh documents, and repeats of the latest one |
| `CimdCache`, `CimdCacheProofs` | `CimdService.obtain` with cache, DNS, fetch and validation; implements `DocumentSource` |
| `SignIn` | abstract: flows on fixed terms, one session per consent, renewals |
| `InteractiveFlow`, `InteractiveFlowProofs`, `SignInProofs` | register, authorize, callback and token over envelopes; their theorems; the refinement of `SignIn` |
| `PatCli`, `PatCliProofs` | the three commands, their threads and browsers, against `PatLife` |
| `Configuration` | `load_config`: which environments start, and what they give |
| `Deployment`, `DeploymentProofs` | instances, migrations, key rotation; uses `Configuration` |
| `MCPat`, `MCCimd`, `MCFlow`, `MCCli`, `MCDeploy` | constants for the TLC configurations `MC*.cfg` |

In `PatService`, `CimdCache` and `InteractiveFlow` a request is a one-shot slot, `pc` is the await it is suspended
at (`idle` before, `done` after) and `reply` its answer. One action is the stretch
of code from one await to the next: the awaited call takes effect and the handler
runs on until it awaits or answers, every refusal on the way included. A call that
can fail, or succeed and lose its answer, has a disjunct for each. `Restart` ends
the process: requests under way are lost, and the next process starts with some
configuration. `Finished` stutters once every slot is used, so that a real
deadlock would still be reported.

Names made by `uuid4`, `generate`, `make_verifier` and Fernet do not repeat and
cannot be forged; a row, token, envelope or verifier is therefore named after the
request that made it. A PKCE challenge and a SHA-256 hash are named after what
they hash.

### PatService

`table` is the PostgreSQL table, one row per creation; `link`, `roles`, `member`
and `session` are the Keycloak realm as the proxy's calls see it (external; its
answers are the ones recorded under `src/measurements/`). `cr` and `ex` are the
locals of `create` and `exchange`.

| Actions | Code |
|---|---|
| `PresentBearer`, `AuthenticateCreate/List/Revoke` | `authenticate` |
| `ReadBody` | `await request.json()`, then `parse_create` and the start of `create`; or the client hangs up |
| `EnsureLinkGet`, `EnsureLinkPost` | the two calls of `ensure_link` |
| `TrialExchange` | `_granted_scopes`, one resource at a time |
| `Insert`, `ListForOwner`, `RevokeUpdate` | one SQL statement each |
| `PresentToken`, `FindByHash`, `CheckRow`, `Sign`, `JwtBearerGrant`, `Touch` | `exchange`, `AssertionSigner.sign` |
| `Tick`, `RoleChange`, `MembershipChange`, `SessionChange`, `LinkChange`, `Restart` | clock, administrators, deployments |

`CheckRow` is separate from `FindByHash` because the row the database answered
travels back over an await before it is checked. `AuthenticateCreate` keeps the
organizations the bearer named and waits for the body, however long that takes; the
creation then goes on with those. `CheckRow` reads the clock (`usedAt`) for the expiry
and the last use; `Sign` reads it again (`signedAt`), and `Whole` truncates that to
seconds, `Second` ticks each, for the assertion's `iat`. No await lies between the two
readings, but nothing bounds the pause: the event loop may be busy or the process
suspended. `late` marks an exchange whose
token was already revoked or expired when it was presented. Resource URIs are kept
as the spellings sent (`Urls`); `Canon` is `_normalise_requested_url` on them.
The token's text (prefix, base62, checksum) and the token's name are left out.

### PatLife, and how PatService implements it

`PatLife` has three functions and nothing of the rest: `row` (none, live, expired,
revoked), `call` (a management call: not made, sent, or how it was answered) and
`use` (an exchange: of a live token, of another, denied, minted). It says that a row
is made at most once and by its own creation, dies once and stays dead; that an
answer claiming an effect is given together with the effect; that a 500 claims
nothing; that an exchange mints at most once, and only if its token had been handed
out and was live when presented. The mapping is in `PatService`: `RowState` reads the
row's `revoked` and its expiry against the clock, `CallState` the reply, and
`UseState` the exchange's locals (a minted short token, `late`). `ImplementsPatLife`
is `PatLife`'s specification under that mapping. Many steps of `PatService` stutter;
`Tick` is `Expire` of a set of rows at once, and `Restart` is `Crash`.

### CimdCache

`entries` is the dictionary of `TtlCache`. `Obtain` covers get, URL parsing,
resolution and address check up to the GET (a hit, a refusal or a miss), `Connect`
the connection to the pinned address, `Finish` the answer, its validation,
`choose_ttl` and `put`. Cache-Control is a sequence of directives, a malformed
number is `None`, and `ExtractMaxAge` looks at them in the code's order. `Publish`
and `Rebind` change the origin's answer and the DNS. A restart is `Init`:
everything is in memory.

`DocumentSource` is what remains for a caller: a request reads the client's URL and is
served if the answer is valid, or it repeats the document of the fetch of that client
answered last, less than `MaxTtl` ago, or it is denied; within `MinTtl` of an answered
fetch it can only repeat. There is no entry, header, address or connection. The mapping
(`Stage`, in `CimdCache`) reads how far a request is off its `pc` and `reply`; clock,
origin, client, result and time of return are the same. "The latest fetch" is by time
of answer, not by age of the content: an overtaken fetch that answers late is the latest.

### InteractiveFlow

`rg`, `az`, `cd` and `rt` are the four kinds of envelopes ever sealed, wherever
they are now. A request presents any of them: `Callback` chooses any state and any
upstream code, `HandleAuthCode` any code envelope, verifier, redirect_uri and
client_id, `HandleRefresh` any refresh envelope. `Opens` is `_open`: key and tag.
`asked` and `ucode` are the upstream's authorization requests and codes
(external): a code is redeemed once, by the client it was issued to and against
the challenge of its own request. A URI is a record of scheme, host, port and path
with a flag for "no fragment, no userinfo, a host". `docs` collects every document
a client has published, because the cache may answer with an older one.
The client's `state` and `scope` are carried through untouched and left out.

`SignIn` says what this amounts to with no envelope, key, deployment or restart: a flow
has `terms` (client, URI, challenge, resource, time) that never change, for a URI that
its client has `allowed`; the browser is sent to that URI while the flow is at most
`StateTtl` old; a redemption presents a `proof` once; a consent yields one `session`, to
the proof that holds the challenge's verifier and came within both lifetimes; a session
is renewed for the resource of its terms. The mapping is in `InteractiveFlow`: terms are
the authorize envelope without its key and verifier, the proof is the verifier a
redemption was let through with, a renewal is a refresh envelope without its key. A
restart, a refusal, a lost answer and every repeated or mixed-up envelope that leads
nowhere are stutters.

### PatCli

A command has a main thread (`pc`: the blocking call it is in), the thread of
`serve_forever` (`thread`) and one handler thread per browser connection (`conn`).
`slot` and `done` are `_received` and `_done`; `Accept` is the part of `_accept` under
the lock and `SetDone` the event set after it, so the timeout of `Wait` falls between
them too.

| Actions | Code |
|---|---|
| `Start` | `_session` up to the registration: `discover_proxy`, `read_endpoints`, the listener |
| `ServeForever`, `StopServing`, `Connect`, `Accept`, `SetDone`, `AnswerBrowser` | `LoopbackReceiver` |
| `Register`, `OpenBrowser`, `Wait`, `Close`, `Redeem` | `sign_in`, `webbrowser.open`, `check_redirect` |
| `ServeCall` | the proxy's side: an action of `PatLife` (Refuse, Fail, Create, List, Revoke) |
| `ReadAnswer`, `GiveUp` | `create_token`, `list_tokens`, `revoke_token` |
| `WriteResult`, `Return`, `Kill` | the end of the main functions, `_run` and the interpreter's exit, a signal |

`ServeCall` needs no command to be there: a call goes on after the command gave up or
was killed. For a listing it records in `listed` the rows its SELECT saw and their
state then; the answer is read, printed and followed by the exit in later steps, while
rows come and are revoked. `printed` holds the commands whose result was written where
somebody reads it: pat-create flushes, pat-revoke writes to the unbuffered stderr,
pat-list's table may wait in stdout's buffer until the interpreter exits. A signal
falls anywhere in between. A redirect (`Params`) is whose `state` it carries, whether `iss` names the
proxy, and whether it holds a code. Browsers deliver the proxy's answers to any
sign-in opened with the listener's port, and strays. `said` tells the three kinds of
endings apart: success, "nothing was created", and failures that claim nothing. A
`state` that is not ASCII makes `compare_digest` raise, which is a failure of the
third kind (`Unreadable`). Argument parsing and the printed text are left out.

### Configuration and Deployment

`Environment` holds the variables that a check or a lookup relates to another one:
the resource table, the default resource, the TTL bounds, the database, the realm and
the signing keys. `Loads` is "no ConfigError"; `LoadConfig` is what results. A URL is a
host, whether it has a path and whether it ends in a slash, since the table is
stripped of slashes, requests are folded only at the root, and `DEFAULT_RESOURCE` is
compared as it was written.

`Deployment` has instances (`Start`, `OpenPool`, `CheckSchema`, `Stop`), Flyway's
`history` (`Migrate`, `Repair`, with failures), and assertions from `Sign` to `Verify`.
The provider (external) has a cached key set, fetches it for an unknown kid from any
serving instance, and not twice within its interval (`recent`), as measured.
`NextStep` and `ClearKeysCache` are the operator following `deploy/README.md`: all
instances are restarted before the next step. Crashes, rollbacks to an older image and
late starts happen at any time. `Leak` presents an assertion made with any key that
was ever configured; `late` marks one presented after the rotation was over.
`DeploymentAssumption` states the documented rotation: a key is published a step
before it signs and removed no earlier than a step after it stopped.

## 3. Runs

Each configuration is small enough to be exhausted and large enough for the case
it is about to happen; the mutants in `PROJECT.json` show that each property can
be broken within its own bounds. `MaxTime` and `MaxChanges` bound the clock and
the number of outside changes, the request sets the number of requests.

| Run | Instance | States | Shows |
|---|---|---|---|
| `pat_races` | 1 creation, 2 exchanges, 1 revocation, lifetime 1, assertion life 2, seconds of 2 ticks, clock to 4 | 2,477,217 | dead tokens mint nothing, minting ends with the assertion's life and the pause before it, live tokens are not refused, last use is a use, rows are facts, `PatLife` is implemented |
| `pat_owners` | 2 owners, 1 creation, 1 listing, 2 revocations | 534,280 | isolation of owners, at most one 204 |
| `pat_create` | 1 creation over 2 resources, 1 exchange, mixed roles and memberships, 2 changes, 4 deployments | 5,413,709 | the stored set was granted at every resource; the short token stays within it |
| `pat_reuse` | 2 creations of one owner, 1 exchange, 1 change, 2 deployments in different realms | 388,592 | a short token cannot create; a request ends if its own peers answer |
| `cimd_cache` | 3 calls, 2 clients, 7 answers, 3 DNS answers, TTL 1 to 2, clock to 2 | 1,197,420 | validated, checked, recent, spaced; `DocumentSource` is implemented |
| `flow_mix` | 2 flows, 2 callbacks, 2 redemptions, 1 refresh, lifetimes 1 and 1, clock to 2 | 542,115 | tokens go to their own flow, in time; `SignIn` is implemented |
| `flow_deploy` | 1 registration, 1 document client, 1 flow, 1 redemption, 2 refreshes, 5 URIs, 4 deployments, 1 change | 1,183,531 | redirects only to registered URIs, refreshes keep the resource |
| `cli` | a creation and a listing or revocation, 2 browsers, 1 port, 2 kinds of strays, fair | 617,421 | one redirect, own code, true results and endings, secure URLs, commands end |
| `deploy` | 2 instances, 2 images, 2 migrations, 1 rotation of 4 steps, 9 environments, 1 crash or failed migration | 121,102 | usable configurations, schema, keys |

Two requests are enough for the races because every race in the code is between
one request's read and one other write; three calls of `obtain` let an old fetch
overtake a newer one and a third read the result. Clock bounds reach one unit past
every lifetime in the instance; in `pat_races` a second is two ticks, so that the
second reading is truncated, and the clock passes expiry and assertion life with both
parities. One port lets the
second command inherit the first one's redirects, and two browsers race for the slot.
Two images and two migrations give one behind, one level and one ahead; the 9
environments are two good ones and seven with one mistake each.
Slots and instances of the same kind are interchangeable, which is what the symmetry
sets say; the runs with liveness use none.

**Fairness.** Only what the code itself sees to is part of a specification: in `cli`
that `wait` returns after `--timeout`, that a started thread runs, and that
`serve_forever` polls for the shutdown (`Fairness` of `PatCli`: `Wait`, `Close`,
`ThreadStep`). `PatService` has none. Everything that needs somebody else is a premise
inside the property, for the one request or command it speaks of and for no other:

* `RequestsEnd` supposes of a request that whatever it awaits answers or fails in the
  end. The code does not guarantee that: `request.json()` and the SQL statements have no
  timeout, and httpx's timeout is per read, so a peer that trickles holds a call. What
  the property adds is that this is all a request depends on: two creations of one owner
  that meet in `ensure_link`, one of them stuck in any await, do not hold each other up,
  and the loops over links and resources end. The pool of five connections is not
  counted, so a statement waiting behind five stuck ones is outside it.
* `CommandsEnd` supposes that the calls a command blocks in return (`Outside`: HTTP
  calls, `webbrowser.open`, writing the output). A browser in the terminal holds the
  command until the user quits it, and a proxy that trickles holds a read; the wait for
  the redirect, the listener's thread and the shutdown need no such premise.

The other runs check safety only and need no fairness.

Three runs show where the code does not do what the repository says of it:

* `pat_last_use`: overlapping exchanges can move `last_used_at` back, since the
  clock is read before the grant and written after it without a condition.
* `pat_tenant`: a token of an owner who left the organization is still exchanged,
  for a short token with no organization claim, which `pat.py:24` says the proxy
  may not leave open.
* `cimd_ttl`: `no-store, max-age=N` is cached for N, although the docstring of
  `choose_ttl` says `no-store` forces `min_ttl`.

Met while modelling, and without a run:

* `README.md:78` and `SECURITY.md:23` speak of a host allowlist while
  `cimd_service.py:12` says there is none; `callback.py:6` says the correlation id is
  verified, and it is bound for logging only; `/callback` appends `?` also to a
  redirect_uri that already has a query.
* `expires_in_days` has no upper bound when long lifetimes are allowed, so
  `pat.py:198` can overflow after the trial exchanges.
* A token created for `https://host` and `https://host/` stores one resource twice and
  is then refused without a resource parameter: it "names more than one".
* `RESOURCE_n_URL` with a path and a trailing slash is stored without the slash, and a
  request that repeats the operator's spelling does not find it: requests are folded at
  the root only, although `config.py:107` says they "must fold the same way"
  (`LookupFindsListed` proves it of every such entry). Two
  table entries with one URL are accepted, and the second is never used.
* A redirect accepted between the timeout of `wait` and the end of `shutdown` is
  answered "Sign-in received" while the command reports that none arrived.
* A 500 after a committed INSERT is reported as "the proxy refused the token"
  although the row exists; a revocation repeated after a lost answer is reported as
  refused (404) although it took effect. Neither claims that nothing was created.
* `assertion.py:14` promises rotation "without a gap". The gap that remains is the
  provider's interval between fetches, some ten seconds; `FetchBringsTheKey` says that
  there is no other, for the order and restarts `deploy/README.md` prescribes.

## 4. Proofs

The theorems hold for all sets of requests, owners, clients, URIs and resources,
all configurations, lifetimes and bounds. They assume only `PatAssumption`,
`CimdAssumption`, `FlowAssumption`, `CliAssumption` and `DeploymentAssumption`: the
types of the constants, that the kinds of requests are disjoint, that `None` is no
other value and, for keys, the documented rotation. TLC evaluates them in every run.

**PatServiceProofs.** `TypeInv` adds to `TypeOK` what a suspended request holds
(`Held`); without it the locals used after an await could be `None`. `Inv` adds
`ExchangeFacts`: the row an exchange holds agrees with the stored row in all
immutable columns (that is why `RowIsAFact` is proved along with it), past the
checks its first clock reading precedes the expiry and it was not late, and what it minted
came from that row no later than the assertion's life after the truncated second
reading. `MintingEndsWithGrace` follows because
truncation only moves the date back; the pause between the readings stays in the bound,
since no step of the code limits it. `Minting` adds for creations
that the marks of the trial exchanges cover what is kept and that the bearer was a
sign-in naming the tenant. Theorems: `TypeCorrect`, `DeadTokensMintNothing`,
`MintingEndsWithGrace`, `ShortTokensWithinRow`, `RowsAreFacts`,
`StoredSetsWereGranted`, `OnlySignedInOwnersMint`.

**PatLifeProofs.** `ServiceImplementsLife` is the refinement: `Init` maps to `Init`,
and with `LifeInv` every step of `PatService` is a step of `PatLife` or a stutter, one
lemma per group of actions. `LifeInv` adds to `Inv` that a request has a reply exactly
when it is done (`Replied`: the mapping reads answers off replies) and that a row waiting
for its INSERT was neither used nor revoked (`Fresh`).

**PatHistoryProofs.** An answered request is a record: no step changes it
(`DoneIsKept`). On that rest `ManagementHistory` (a 204 belongs to a revoked row, hence
at most one; a listing's rows are its caller's; a revoked row has a revocation of its
owner that reached the database) and `ExchangeHistory` (the last use recorded is the
reading of an exchange that minted; a refusal saw a dead row or another realm).
Theorems: `OwnersAreIsolated`, `RevokedAtMostOnce`, `LastUsesWereUses`,
`LiveTokensAreNotRefused`.

**CimdCacheProofs.** `TtlWithinBounds` is a lemma about the clamp for every header.
The invariant says that each entry is backed by an answered fetch of its own
client and expires within `MaxTtl` of its end, and that a fetch answered less than
`MinTtl` ago has left an entry that is still fresh, whichever fetch overtook it;
overtaking is why "the last put is the newest content" would be false. What is true,
and needed for the refinement, is that the entry is that of the fetch answered last
(`Last`, a part of `Backed`): every answered fetch puts, and a put replaces. Theorems:
`TypeCorrect`, `OnlyCheckedDialled`, `OnlyValidatedIsCached`, `HitsAreRecent`,
`FetchesAreSpaced`, and `CacheImplementsSource`: a hit is `Repeat` because its entry is
backed (`HitIsLatest`), and a miss may fetch or be refused because a younger fetch would
have left a fresh entry (`MissIsDue`); `Connect` is `Read`, `Finish` is `Serve` or
`Deny`, and `Rebind` stutters.

**InteractiveFlowProofs.** No property is inductive as it stands, since each
relates envelopes of two or three endpoints. `Facts` says what envelopes say of
each other: an authorize envelope carries the verifier whose challenge its own
upstream request was made with, and a URI that matches its client's; a code
envelope repeats the authorize envelope its verifier belongs to and expires within
both lifetimes of it; a redemption under way holds the secret of its envelope; a
refresh envelope has the resource of its session's flow. `Grows` (nothing sealed
ever changes, documents accumulate, the clock moves on) carries these facts over
the steps of others, and needs `Unsealed`: an envelope is sealed only by a request
that has not ended. The heart of `TokensGoToOwnFlow` is that the upstream compares
the verifier in the code envelope with the challenge of the code's own flow.
Theorems: `TypeCorrect`, `OnlyToRegistered`, `TokensGoToOwnFlow`,
`RedemptionsAreInTime`, `RefreshesKeepResource`, and, of the operators,
`MatchAccepted`: a URI that matches an accepted one is accepted. `Facts` was also checked with TLC
on both instances before it was proved.

**SignInProofs.** `FlowImplementsSignIn` is the refinement, one lemma per action on top
of `Inv`. `SignInv` adds `Pending`: a request that has not arrived has sent, presented
and received nothing, so that each abstract variable is set once. The step that carries
the weight is `Redeem`: the upstream accepts the code, and `Facts` turns that into the
abstract guard, namely that the proof presented is the one of the flow consented to and
that it was presented in time. `FlowAssumption` also says that `None` is none of the
mapped records, so that a flow with terms is never mistaken for one without.

**PatCliProofs.** `TypeInv` adds that the endpoints a running command holds were
accepted, which gives `SecretsGoToSecureUrls`. `Redirects` follows a redirect through
the threads: a connection that won holds what the slot holds, there is one winner, a
filled slot was delivered to this listener, what was read is what the slot still
holds, and what was redeemed passed `check_redirect`. `Managed` ties a command to its
call: no call before `manage`, no row without a call of its own command, what a SELECT
saw still true or revoked since, and a result printed only after the answer that means
success, whatever ends the command afterwards. Theorems: `TypeCorrect`,
`OnlyOneRedirectCounts`, `OwnCodesRedeemed`, `NothingMeansNothing`, `SuccessIsTrue`,
`SecretsGoToSecureUrls`, and `CommandsFitService`: the calls and rows of `PatCli` behave
as `PatLife`, which `ServiceImplementsLife` proves of the service. Both sides of the
interface thus meet in one specification; `Managed` is what makes a command's call its
first.

**DeploymentProofs.** `TypeInv` adds what a running instance holds (`AllRunning`): a
configuration that `Loads`, with the keys of the step it was started at, which is the
present one or the one before. `ConfigsAreUsable` then follows from the checks alone,
for every environment, with the least index of `resource_by_url` taken from a
well-founded minimum. `SchemaInv`: the history is closed downwards, so the highest
successful version stands for all of them. `RotationInv`: the key of an assertion
under way is published by every instance, because assertions of a stopped instance are
lost and instances are at most one step apart. `EndInv`: after the final clearing only
keys of the last step are published or cached. `LookupFindsListed` says for every table
that loads which spellings of a resource a request may use; the spelling the operator
listed need not be one of them. Theorems: `TypeCorrect`, `ConfigsAreUsable`, `LookupFindsListed`,
`SchemaCoversWhoeverServes`, `FetchesBringTheKey`, `OldKeysEnd`.

Only model-checked: the liveness properties `RequestsEnd` and `CommandsEnd` (liveness
under fairness is outside what these proofs cover). Every safety property of the
passing runs, the three refinements included, is proved.

## 5. Not modelled, and the plan

Done, in this order: PatService, CimdCache, InteractiveFlow, PatLife and its
refinement, PatCli, Configuration and Deployment, each with its proofs, then the
abstract specifications DocumentSource and SignIn with their refinements and the
composition of commands and service. What could follow:

1. `InteractiveFlow` on top of `DocumentSource`: `LoadDocument` takes any document the
   client ever published, which allows more than the source does, so its theorems hold
   for the composition; a bound on a document's age could be stated there.
2. The connection pool as a counted resource, so that statements wait for each other,
   and dates with their real bound.
3. Liveness of the interactive flow and of fetches.

Left out for good: discovery, health, error types, correlation ids and logging (no
state a property is about); HTML, JSON and terminal wording and argument parsing;
cryptography itself; the probes under `src/measurements/`, which exercise Keycloak and
are the source of its modelled answers, not part of the program. `TtlCache.invalidate`
and `clear` have no caller outside the tests.
