------------------------ MODULE InteractiveFlowProofs -----------------------
(***************************************************************************)
(* Theorems about InteractiveFlow, for every set of requests, clients and  *)
(* redirect URIs, every configuration and every lifetime.                  *)
(***************************************************************************)
EXTENDS InteractiveFlow, TLAPS

(***************************************************************************)
(* What a suspended request holds: /authorize at its document the          *)
(* parameters with a configured resource, /token at the upstream an        *)
(* envelope that was issued.  No restart comes between, so the resource is *)
(* still configured.                                                       *)
(***************************************************************************)
Held ==
  /\ \A f \in Flows : pc[f] = "document" =>
       /\ par[f] \in Params
       /\ par[f].client \in CimdClients
       /\ par[f].asked \in Resources
       /\ cfg.client[par[f].asked] \in ClientIds
  /\ \A t \in Redemptions : pc[t] = "redeem" =>
       tk[t].envelope \in Callbacks /\ cd[tk[t].envelope] # None
  /\ \A t \in Refreshes : pc[t] = "refresh" =>
       tk[t].envelope \in TokenRequests /\ rt[tk[t].envelope] # None

TypeInv == TypeOK /\ Held

\* The initial states satisfy the typed invariant.
LEMMA InitType == Init => TypeInv
  <1> SUFFICES ASSUME Init PROVE TypeInv
    OBVIOUS
  <1>1. docs \in [CimdClients -> SUBSET Documents]
    BY DEF Init
  <1>2. tk \in [TokenRequests -> TokenLocals]
    BY DEF Init, NoToken, TokenLocals, Maybe
  <1>3. TypeOK
    BY <1>1, <1>2 DEF Init, TypeOK, Maybe, Time
  <1>4. Held
    BY DEF Init, Held, Requests, TokenRequests
  <1>. QED BY <1>3, <1>4 DEF TypeInv

Steps == {"idle", "document", "redeem", "refresh", "done"}
Replies == {"none", "200", "201", "302", "302_error", "400", "502", "invalid_grant",
            "upstream_error", "lost"}

\* Control is typed.
Control == pc \in [Requests -> Steps] /\ reply \in [Requests -> Replies]

\* Only r moves, and it does not come back to where it started.
Moves(r) ==
  /\ Control'
  /\ pc'[r] # "idle"
  /\ \A q \in Requests \ {r} : pc'[q] = pc[q]

\* An answer ends a request and moves no other.
LEMMA AnswerMoves ==
  ASSUME TypeOK, NEW r \in Requests, NEW code \in Replies, Answer(r, code)
  PROVE  Moves(r) /\ pc'[r] = "done"
  BY DEF TypeOK, Control, Moves, Answer, Steps, Replies

\* A suspended request moves no other.
LEMMA GoToMoves ==
  ASSUME TypeOK, NEW r \in Requests, NEW step \in Steps \ {"idle"}, GoTo(r, step)
  PROVE  Moves(r) /\ pc'[r] = step
  BY DEF TypeOK, Control, Moves, GoTo, Steps, Replies

\* The kinds of requests are disjoint parts of Requests.
LEMMA Kinds ==
  /\ Registrations \subseteq Requests /\ Flows \subseteq Requests
  /\ Callbacks \subseteq Requests /\ Redemptions \subseteq Requests
  /\ Refreshes \subseteq Requests /\ TokenRequests \subseteq Requests
  /\ Redemptions \subseteq TokenRequests /\ Refreshes \subseteq TokenRequests
  BY DEF Requests, TokenRequests

\* POST /register keeps the types.
LEMMA RegisterType ==
  ASSUME TypeInv, NEW g \in Registrations, Register(g)
  PROVE  TypeInv' /\ Moves(g)
  <1>1. \E code \in {"400", "201"} : Answer(g, code)
    BY DEF Register
  <1>2. Moves(g) /\ pc'[g] = "done"
    BY <1>1, AnswerMoves, Kinds DEF TypeInv, Replies
  <1>3. cfg.key \in Keys
    BY FlowAssumption DEF TypeInv, TypeOK, FlowAssumption, Config
  <1>4. rg' \in [Registrations -> Maybe(RegistrationEnvelope)]
    <2>1. CASE UNCHANGED rg
      BY <2>1 DEF TypeInv, TypeOK
    <2>2. CASE \E uris \in SUBSET Uris :
                 rg' = [rg EXCEPT ![g] = [key |-> cfg.key, uris |-> uris]]
      BY <1>3, <2>2 DEF TypeInv, TypeOK, RegistrationEnvelope, Maybe
    <2>. QED BY <2>1, <2>2 DEF Register
  <1>5. TypeOK'
    BY <1>2, <1>4 DEF TypeInv, TypeOK, Moves, Control, Register, Steps, Replies
  <1>6. Held'
    <2>1. \A r \in Flows \cup Redemptions \cup Refreshes : pc'[r] = pc[r]
      BY <1>2, Kinds, FlowAssumption DEF Moves, FlowAssumption, TokenRequests
    <2>. QED BY <2>1 DEF TypeInv, Held, Register
  <1>. QED BY <1>2, <1>5, <1>6 DEF TypeInv

\* _pick_resource yields a configured resource or nothing.
LEMMA PickResourceType ==
  ASSUME TypeOK, NEW p \in Params, PickResource(p) # None
  PROVE  PickResource(p) \in Resources /\ cfg.client[PickResource(p)] \in ClientIds
  <1>1. cfg \in Config
    BY FlowAssumption DEF TypeOK, FlowAssumption
  <1>. QED BY <1>1 DEF PickResource, Params, Config, Maybe

\* What the matching route does to a flow: it ends it, with an envelope and an
\* upstream request for a URI that matches, or without.
Forwarded(f, p, x, uris) ==
  \/ UNCHANGED <<az, asked>>
  \/ \E u \in uris : UriMatches(p.uri, u) /\ Forward(f, p, x)

\* Step 4 of /authorize keeps the types of envelopes and upstream requests.
LEMMA MatchAndForwardType ==
  ASSUME TypeInv, NEW f \in Flows, NEW p \in Params, p.client \in Clients,
         NEW x \in Resources, cfg.client[x] \in ClientIds, NEW uris,
         MatchAndForward(f, p, x, uris)
  PROVE  /\ Moves(f) /\ pc'[f] = "done"
         /\ Forwarded(f, p, x, uris)
         /\ az' \in [Flows -> Maybe(AuthorizeEnvelope)]
         /\ asked' \in [Flows -> Maybe(UpstreamRequest)]
  <1>1. \E code \in {"302", "400"} : Answer(f, code)
    BY DEF MatchAndForward, Forward
  <1>2. Moves(f) /\ pc'[f] = "done"
    BY <1>1, AnswerMoves, Kinds DEF TypeInv, Replies
  <1>3. Forwarded(f, p, x, uris)
    BY DEF MatchAndForward, Registered, Forwarded
  <1>4. CASE UNCHANGED <<az, asked>>
    BY <1>2, <1>3, <1>4 DEF TypeInv, TypeOK
  <1>5. CASE Forward(f, p, x)
    <2>1. cfg.key \in Keys /\ now \in Time
      BY FlowAssumption DEF TypeInv, TypeOK, FlowAssumption, Config
    <2>2. p.uri \in Uris /\ p.challenge \in Secrets
      BY DEF Params
    <2>3. [key |-> cfg.key, at |-> now, client |-> p.client, uri |-> p.uri,
           challenge |-> p.challenge, resource |-> x, verifier |-> f]
            \in AuthorizeEnvelope
      BY <2>1, <2>2 DEF AuthorizeEnvelope
    <2>4. az' \in [Flows -> Maybe(AuthorizeEnvelope)]
      BY <1>5, <2>3 DEF TypeInv, TypeOK, Forward, MakeVerifier, Maybe
    <2>5. asked' \in [Flows -> Maybe(UpstreamRequest)]
      BY <1>5 DEF TypeInv, TypeOK, Forward, MakeVerifier, Maybe, UpstreamRequest
    <2>. QED BY <1>2, <1>3, <2>4, <2>5
  <1>. QED BY <1>3, <1>4, <1>5 DEF Forwarded

\* Where /authorize takes the redirect URIs from: an issued registration that
\* opens, or a document the client published.
Offered(c, uris) ==
  \/ c \in Registrations /\ rg[c] # None /\ uris = rg[c].uris
  \/ c \in CimdClients /\ uris \in docs[c]

\* What /authorize does to envelopes and upstream requests, by either route.
AuthorizeOutcome(f) ==
  \/ UNCHANGED <<az, asked>>
  \/ \E p \in Params, x \in Resources, uris \in SUBSET Uris :
       /\ cfg.client[x] \in ClientIds
       /\ p.client \in Clients /\ Offered(p.client, uris)
       /\ \E u \in uris : UriMatches(p.uri, u)
       /\ Forward(f, p, x)

\* The documents and registrations hold URIs in play.
LEMMA OfferedType ==
  ASSUME TypeOK, NEW c \in Clients, NEW uris, Offered(c, uris)
  PROVE  uris \in SUBSET Uris
  <1>1. CASE c \in Registrations /\ rg[c] # None /\ uris = rg[c].uris
    BY <1>1 DEF TypeOK, RegistrationEnvelope, Maybe
  <1>2. CASE c \in CimdClients /\ uris \in docs[c]
    BY <1>2, FlowAssumption DEF TypeOK, FlowAssumption
  <1>. QED BY <1>1, <1>2 DEF Offered

\* A flow that is moved, and nothing held by others, keeps Held.
LEMMA FlowHeld ==
  ASSUME TypeInv, NEW f \in Flows, Moves(f),
         UNCHANGED <<cfg, tk, cd, rt>>,
         \A g \in Flows \ {f} : par'[g] = par[g],
         pc'[f] = "document" =>
           /\ par'[f] \in Params
           /\ par'[f].client \in CimdClients
           /\ par'[f].asked \in Resources
           /\ cfg.client[par'[f].asked] \in ClientIds
  PROVE  Held'
  <1>1. \A r \in Redemptions \cup Refreshes : pc'[r] = pc[r]
    BY Kinds, FlowAssumption DEF Moves, FlowAssumption, TokenRequests
  <1>2. \A g \in Flows \ {f} : pc'[g] = pc[g]
    BY Kinds DEF Moves
  <1>. QED BY <1>1, <1>2 DEF TypeInv, Held

\* GET /authorize up to its first await, or to its end, keeps the types.
LEMMA AuthorizeType ==
  ASSUME TypeInv, NEW f \in Flows, Authorize(f)
  PROVE  /\ TypeInv' /\ Moves(f) /\ AuthorizeOutcome(f)
         /\ pc'[f] = "document" => UNCHANGED <<az, asked>>
  <1> DEFINE Goal ==
        /\ Moves(f)
        /\ AuthorizeOutcome(f)
        /\ pc'[f] = "document" => UNCHANGED <<az, asked>>
        /\ par' \in [Flows -> Maybe(Params)]
        /\ az' \in [Flows -> Maybe(AuthorizeEnvelope)]
        /\ asked' \in [Flows -> Maybe(UpstreamRequest)]
        /\ \A g \in Flows \ {f} : par'[g] = par[g]
        /\ pc'[f] = "document" =>
             /\ par'[f] \in Params
             /\ par'[f].client \in CimdClients
             /\ par'[f].asked \in Resources
             /\ cfg.client[par'[f].asked] \in ClientIds
  <1>0. f \in Requests
    BY Kinds
  <1>1. ASSUME Answer(f, "400"), UNCHANGED <<par, az, asked>>
        PROVE  Goal
    <2>1. Moves(f) /\ pc'[f] = "done"
      BY <1>0, <1>1, AnswerMoves DEF TypeInv, Replies
    <2>. QED BY <1>1, <2>1 DEF TypeInv, TypeOK, AuthorizeOutcome
  <1>2. ASSUME NEW p \in Params, PickResource(p) # None, p.client \in CimdClients,
               par' = [par EXCEPT ![f] = [p EXCEPT !.asked = PickResource(p)]],
               GoTo(f, "document"), UNCHANGED <<az, asked>>
        PROVE  Goal
    <2>1. Moves(f)
      BY <1>0, <1>2, GoToMoves DEF TypeInv, Steps
    <2>2. PickResource(p) \in Resources /\ cfg.client[PickResource(p)] \in ClientIds
      BY <1>2, PickResourceType DEF TypeInv
    <2> DEFINE q == [p EXCEPT !.asked = PickResource(p)]
    <2>3. q \in Params /\ q.client = p.client /\ q.asked = PickResource(p)
      BY <2>2 DEF Params, Maybe
    <2> HIDE DEF q
    <2>4. par' = [par EXCEPT ![f] = q]
      BY <1>2 DEF q
    <2>5. par' \in [Flows -> Maybe(Params)] /\ par'[f] = q
      BY <2>3, <2>4 DEF TypeInv, TypeOK, Maybe
    <2>6. \A g \in Flows \ {f} : par'[g] = par[g]
      BY <2>4 DEF TypeInv, TypeOK
    <2>. QED BY <1>2, <2>1, <2>2, <2>3, <2>5, <2>6 DEF TypeInv, TypeOK, AuthorizeOutcome
  <1>3. ASSUME NEW p \in Params, PickResource(p) # None, p.client \in Registrations,
               Opens(rg[p.client]),
               MatchAndForward(f, p, PickResource(p), rg[p.client].uris), UNCHANGED par
        PROVE  Goal
    <2>1. PickResource(p) \in Resources /\ cfg.client[PickResource(p)] \in ClientIds
      BY <1>3, PickResourceType DEF TypeInv
    <2>2. p.client \in Clients /\ Offered(p.client, rg[p.client].uris)
      BY <1>3 DEF Clients, Offered, Opens
    <2>3. rg[p.client].uris \in SUBSET Uris
      BY <2>2, OfferedType DEF TypeInv
    <2>4. /\ Moves(f) /\ pc'[f] = "done"
          /\ Forwarded(f, p, PickResource(p), rg[p.client].uris)
          /\ az' \in [Flows -> Maybe(AuthorizeEnvelope)]
          /\ asked' \in [Flows -> Maybe(UpstreamRequest)]
      BY <1>3, <2>1, <2>2, MatchAndForwardType
    <2>5. AuthorizeOutcome(f)
      BY <2>1, <2>2, <2>3, <2>4 DEF AuthorizeOutcome, Forwarded
    <2>. QED BY <1>3, <2>4, <2>5 DEF TypeInv, TypeOK
  <1>4. Goal
    BY <1>1, <1>2, <1>3 DEF Authorize
  <1>5. TypeOK'
    BY <1>4 DEF TypeInv, TypeOK, Moves, Control, Authorize, Steps, Replies
  <1>6. Held'
    BY <1>4, FlowHeld DEF Authorize
  <1>. QED BY <1>4, <1>5, <1>6 DEF TypeInv

\* GET /authorize after the document keeps the types.
LEMMA LoadDocumentType ==
  ASSUME TypeInv, NEW f \in Flows, LoadDocument(f)
  PROVE  TypeInv' /\ Moves(f) /\ pc'[f] = "done" /\ AuthorizeOutcome(f)
  <1> DEFINE p == par[f]
             Goal ==
               /\ Moves(f) /\ pc'[f] = "done"
               /\ AuthorizeOutcome(f)
               /\ az' \in [Flows -> Maybe(AuthorizeEnvelope)]
               /\ asked' \in [Flows -> Maybe(UpstreamRequest)]
  <1>1. /\ p \in Params /\ p.client \in CimdClients
        /\ p.asked \in Resources /\ cfg.client[p.asked] \in ClientIds
    BY DEF LoadDocument, TypeInv, Held
  <1>2. ASSUME Answer(f, "400"), UNCHANGED <<az, asked>>
        PROVE  Goal
    BY <1>2, AnswerMoves, Kinds DEF TypeInv, TypeOK, Replies, AuthorizeOutcome
  <1>3. ASSUME NEW uris \in docs[p.client], MatchAndForward(f, p, p.asked, uris)
        PROVE  Goal
    <2>1. p.client \in Clients /\ Offered(p.client, uris)
      BY <1>1, <1>3 DEF Clients, Offered
    <2>2. uris \in SUBSET Uris
      BY <2>1, OfferedType DEF TypeInv
    <2>3. /\ Moves(f) /\ pc'[f] = "done"
          /\ Forwarded(f, p, p.asked, uris)
          /\ az' \in [Flows -> Maybe(AuthorizeEnvelope)]
          /\ asked' \in [Flows -> Maybe(UpstreamRequest)]
      BY <1>1, <1>3, <2>1, MatchAndForwardType
    <2>4. AuthorizeOutcome(f)
      BY <1>1, <2>1, <2>2, <2>3 DEF AuthorizeOutcome, Forwarded
    <2>. QED BY <2>3, <2>4
  <1>4. Goal
    BY <1>2, <1>3 DEF LoadDocument
  <1>5. TypeOK'
    BY <1>4 DEF TypeInv, TypeOK, Moves, Control, LoadDocument, Steps, Replies
  <1>6. Held'
    BY <1>4, FlowHeld DEF LoadDocument
  <1>. QED BY <1>4, <1>5, <1>6 DEF TypeInv

\* What /callback does: nothing, or a redirect by an envelope that opens, with
\* or without a new code envelope.
CallbackOutcome(b) ==
  \/ UNCHANGED <<cd, via, sentTo>>
  \/ \E s \in Flows :
       /\ OpensAuthorize(s)
       /\ Redirect(b, s)
       /\ UNCHANGED cd \/ \E code \in Flows : cd' = [cd EXCEPT ![b] = SealCode(s, code)]

\* The code envelope sealed from an envelope that opens is one.
LEMMA SealCodeType ==
  ASSUME TypeOK, NEW s \in Flows, az[s] # None, NEW code \in Flows
  PROVE  SealCode(s, code) \in CodeEnvelope
  <1>1. az[s] \in AuthorizeEnvelope /\ cfg.key \in Keys
    BY FlowAssumption DEF TypeOK, Maybe, FlowAssumption, Config
  <1>2. now + CodeTtl \in Nat
    BY FlowAssumption DEF TypeOK, FlowAssumption, Time
  <1>. QED BY <1>1, <1>2 DEF SealCode, CodeEnvelope, AuthorizeEnvelope, Time

\* GET /callback keeps the types.
LEMMA CallbackType ==
  ASSUME TypeInv, NEW b \in Callbacks, Callback(b)
  PROVE  TypeInv' /\ Moves(b) /\ CallbackOutcome(b)
  <1>1. \E code \in {"400", "302_error", "302"} : Answer(b, code)
    BY DEF Callback
  <1>2. Moves(b) /\ pc'[b] = "done"
    BY <1>1, AnswerMoves, Kinds DEF TypeInv, Replies
  <1>3. CallbackOutcome(b)
    BY DEF Callback, CallbackOutcome
  <1>4. /\ cd' \in [Callbacks -> Maybe(CodeEnvelope)]
        /\ via' \in [Callbacks -> Maybe(Flows)]
        /\ sentTo' \in [Callbacks -> Maybe(Uris)]
        /\ \A a \in Callbacks : cd[a] # None => cd'[a] # None
    <2>1. CASE UNCHANGED <<cd, via, sentTo>>
      BY <2>1 DEF TypeInv, TypeOK
    <2>2. ASSUME NEW s \in Flows, OpensAuthorize(s), Redirect(b, s),
                 UNCHANGED cd \/ \E code \in Flows : cd' = [cd EXCEPT ![b] = SealCode(s, code)]
          PROVE  <1>4!1 /\ <1>4!2 /\ <1>4!3 /\ <1>4!4
      <3>1. az[s] # None /\ az[s] \in AuthorizeEnvelope
        BY <2>2 DEF OpensAuthorize, Opens, TypeInv, TypeOK, Maybe
      <3>2. via' \in [Callbacks -> Maybe(Flows)] /\ sentTo' \in [Callbacks -> Maybe(Uris)]
        BY <2>2, <3>1 DEF Redirect, TypeInv, TypeOK, AuthorizeEnvelope, Maybe
      <3>3. ASSUME NEW code \in Flows, cd' = [cd EXCEPT ![b] = SealCode(s, code)]
            PROVE  /\ cd' \in [Callbacks -> Maybe(CodeEnvelope)]
                   /\ \A a \in Callbacks : cd[a] # None => cd'[a] # None
        <4>1. SealCode(s, code) \in CodeEnvelope
          BY <3>1, SealCodeType DEF TypeInv
        <4>2. None \notin CodeEnvelope
          BY FlowAssumption DEF FlowAssumption
        <4>. QED BY <3>3, <4>1, <4>2 DEF TypeInv, TypeOK, Maybe
      <3>. QED BY <2>2, <3>2, <3>3 DEF TypeInv, TypeOK
    <2>. QED BY <1>3, <2>1, <2>2 DEF CallbackOutcome
  <1>5. TypeOK'
    BY <1>2, <1>4 DEF TypeInv, TypeOK, Moves, Control, Callback, Steps, Replies
  <1>6. Held'
    <2>1. \A r \in Flows \cup Redemptions \cup Refreshes : pc'[r] = pc[r]
      BY <1>2, Kinds, FlowAssumption DEF Moves, FlowAssumption, TokenRequests
    <2>. QED BY <1>4, <2>1 DEF TypeInv, Held, Callback
  <1>. QED BY <1>2, <1>3, <1>5, <1>6 DEF TypeInv

\* A token request that is moved, while envelopes only come to be, keeps Held.
LEMMA TokenHeld ==
  ASSUME TypeInv, NEW t \in TokenRequests, Moves(t),
         UNCHANGED <<cfg, par, cd>>,
         \A q \in TokenRequests \ {t} : tk'[q] = tk[q],
         \A q \in TokenRequests : rt[q] # None => rt'[q] # None,
         t \in Redemptions /\ pc'[t] = "redeem" =>
           tk'[t].envelope \in Callbacks /\ cd[tk'[t].envelope] # None,
         t \in Refreshes /\ pc'[t] = "refresh" =>
           tk'[t].envelope \in TokenRequests /\ rt'[tk'[t].envelope] # None
  PROVE  Held'
  <1>1. \A f \in Flows : pc'[f] = pc[f]
    BY Kinds, FlowAssumption DEF Moves, FlowAssumption
  <1>2. \A q \in TokenRequests \ {t} : pc'[q] = pc[q]
    BY Kinds DEF Moves
  <1>. QED BY <1>1, <1>2, Kinds DEF TypeInv, Held

\* The upstream client of a configured resource is a client id.
LEMMA UpstreamClient ==
  ASSUME TypeOK, NEW x \in Resources, cfg.client[x] # None
  PROVE  cfg.client[x] \in ClientIds
  BY FlowAssumption DEF TypeOK, FlowAssumption, Config, Maybe

\* _handle_auth_code up to the upstream call: refused, or the locals of a code
\* that passed every check.
CodePassed(t, b, secret) ==
  /\ cd[b] # None
  /\ now < cd[b].exp
  /\ secret = cd[b].challenge
  /\ \E client \in ClientIds :
       tk' = [tk EXCEPT ![t] =
         [envelope |-> b, secret |-> secret, client |-> client,
          startedAt |-> now, session |-> None]]

\* _handle_auth_code up to the upstream call keeps the types.
LEMMA HandleAuthCodeType ==
  ASSUME TypeInv, NEW t \in Redemptions, HandleAuthCode(t)
  PROVE  /\ TypeInv' /\ Moves(t)
         /\ \/ UNCHANGED tk /\ pc'[t] = "done"
            \/ \E b \in Callbacks, secret \in Secrets : CodePassed(t, b, secret)
  <1>0. t \in Requests /\ t \in TokenRequests
    BY Kinds
  <1>1. ASSUME NEW code \in {"400", "invalid_grant", "502"}, Answer(t, code), UNCHANGED tk
        PROVE  Moves(t) /\ pc'[t] = "done"
    BY <1>0, <1>1, AnswerMoves DEF TypeInv, Replies
  <1>2. ASSUME NEW b \in Callbacks, NEW secret \in Secrets, NEW uri, NEW client,
               CodeGrantable(b, secret, uri, client),
               cfg.client[cd[b].resource] # None,
               tk' = [tk EXCEPT ![t] =
                  [envelope |-> b, secret |-> secret, client |-> cfg.client[cd[b].resource],
                   startedAt |-> now, session |-> None]],
               GoTo(t, "redeem")
        PROVE  Moves(t) /\ CodePassed(t, b, secret)
    <2>1. Moves(t)
      BY <1>0, <1>2, GoToMoves DEF TypeInv, Steps
    <2>2. cd[b] # None /\ cd[b] \in CodeEnvelope
      BY <1>2 DEF CodeGrantable, Opens, TypeInv, TypeOK, Maybe
    <2>3. cfg.client[cd[b].resource] \in ClientIds
      BY <1>2, <2>2, UpstreamClient DEF TypeInv, CodeEnvelope
    <2>4. now < cd[b].exp
      BY <1>2, <2>2 DEF CodeGrantable, CodeExpired, CodeEnvelope, TypeInv, TypeOK, Time
    <2>5. secret = cd[b].challenge
      BY <1>2 DEF CodeGrantable, VerifyChallenge
    <2>. QED BY <1>2, <2>1, <2>2, <2>3, <2>4, <2>5 DEF CodePassed
  <1>3. /\ Moves(t)
        /\ \/ UNCHANGED tk /\ pc'[t] = "done"
           \/ \E b \in Callbacks, secret \in Secrets : CodePassed(t, b, secret)
    <2>1. CASE \E code \in {"400", "invalid_grant", "502"} : Answer(t, code) /\ UNCHANGED tk
      BY <1>1, <2>1
    <2>2. CASE \E b \in Callbacks, secret \in Secrets, uri \in Maybe(Uris), client \in Maybe(Clients) :
                 /\ CodeGrantable(b, secret, uri, client)
                 /\ cfg.client[cd[b].resource] # None
                 /\ tk' = [tk EXCEPT ![t] =
                      [envelope |-> b, secret |-> secret, client |-> cfg.client[cd[b].resource],
                       startedAt |-> now, session |-> None]]
                 /\ GoTo(t, "redeem")
      BY <1>2, <2>2
    <2>. QED BY <2>1, <2>2 DEF HandleAuthCode
  <1>4. /\ tk' \in [TokenRequests -> TokenLocals]
        /\ \A q \in TokenRequests \ {t} : tk'[q] = tk[q]
        /\ pc'[t] = "redeem" => tk'[t].envelope \in Callbacks /\ cd[tk'[t].envelope] # None
    <2>1. CASE UNCHANGED tk /\ pc'[t] = "done"
      BY <2>1 DEF TypeInv, TypeOK
    <2>2. ASSUME NEW b \in Callbacks, NEW secret \in Secrets, CodePassed(t, b, secret)
          PROVE  <1>4!1 /\ <1>4!2 /\ <1>4!3
      <3>1. PICK client \in ClientIds :
              tk' = [tk EXCEPT ![t] =
                [envelope |-> b, secret |-> secret, client |-> client,
                 startedAt |-> now, session |-> None]]
        BY <2>2 DEF CodePassed
      <3>2. [envelope |-> b, secret |-> secret, client |-> client,
             startedAt |-> now, session |-> None] \in TokenLocals
        BY DEF TokenLocals, Maybe, TypeInv, TypeOK
      <3>. QED BY <1>0, <2>2, <3>1, <3>2 DEF TypeInv, TypeOK, CodePassed
    <2>. QED BY <1>3, <2>1, <2>2
  <1>5. TypeOK'
    BY <1>3, <1>4 DEF TypeInv, TypeOK, Moves, Control, HandleAuthCode, Steps, Replies
  <1>6. t \notin Refreshes
    BY FlowAssumption DEF FlowAssumption
  <1>7. Held'
    BY <1>0, <1>3, <1>4, <1>6, TokenHeld DEF HandleAuthCode
  <1>. QED BY <1>3, <1>5, <1>7 DEF TypeInv

\* _finalise_upstream_response: sealing keeps the refresh envelopes typed and
\* withdraws none.
LEMMA SealType ==
  ASSUME TypeOK, NEW t \in TokenRequests, NEW x \in Resources, NEW s \in Flows, Seal(t, x, s)
  PROVE  /\ rt' \in [TokenRequests -> Maybe(RefreshEnvelope)]
         /\ \A q \in TokenRequests : rt[q] # None => rt'[q] # None
  <1>1. cfg.key \in Keys
    BY FlowAssumption DEF TypeOK, FlowAssumption, Config
  <1>2. [key |-> cfg.key, resource |-> x, session |-> s] \in RefreshEnvelope
    BY <1>1 DEF RefreshEnvelope
  <1>3. None \notin RefreshEnvelope
    BY FlowAssumption DEF FlowAssumption
  <1>. QED BY <1>2, <1>3 DEF Seal, TypeOK, Maybe

\* The answer of a token request that had its session recorded.
Granted(t, x, s) ==
  /\ tk' = [tk EXCEPT ![t].session = s]
  /\ UNCHANGED rt \/ Seal(t, x, s)

\* Recording the session and sealing keep the types.
LEMMA GrantedType ==
  ASSUME TypeOK, NEW t \in TokenRequests, NEW x \in Resources, NEW s \in Flows, Granted(t, x, s)
  PROVE  /\ tk' \in [TokenRequests -> TokenLocals]
         /\ tk'[t] = [tk[t] EXCEPT !.session = s]
         /\ \A q \in TokenRequests \ {t} : tk'[q] = tk[q]
         /\ rt' \in [TokenRequests -> Maybe(RefreshEnvelope)]
         /\ \A q \in TokenRequests : rt[q] # None => rt'[q] # None
  <1>1. tk[t] \in TokenLocals
    BY DEF TypeOK
  <1>2. [tk[t] EXCEPT !.session = s] \in TokenLocals
    BY <1>1 DEF TokenLocals, Maybe
  <1>3. tk' = [tk EXCEPT ![t] = [tk[t] EXCEPT !.session = s]]
    BY DEF Granted, TypeOK
  <1>4. CASE UNCHANGED rt
    BY <1>2, <1>3, <1>4 DEF TypeOK
  <1>5. CASE Seal(t, x, s)
    BY <1>2, <1>3, <1>5, SealType DEF TypeOK
  <1>. QED BY <1>4, <1>5 DEF Granted

\* The upstream's answer to a code keeps the types.
LEMMA RedeemType ==
  ASSUME TypeInv, NEW t \in Redemptions, Redeem(t)
  PROVE  /\ TypeInv' /\ Moves(t) /\ pc'[t] = "done"
         /\ \/ UNCHANGED <<tk, rt>>
            \/ /\ Redeemable(t)
               /\ Granted(t, cd[tk[t].envelope].resource, cd[tk[t].envelope].code)
  <1> DEFINE form == cd[tk[t].envelope]
  <1>0. t \in Requests /\ t \in TokenRequests /\ t \notin Refreshes
    BY Kinds, FlowAssumption DEF FlowAssumption
  <1>1. form \in CodeEnvelope
    BY DEF Redeem, TypeInv, TypeOK, Held, Maybe
  <1>2. form.code \in Flows /\ form.resource \in Resources
    BY <1>1 DEF CodeEnvelope
  <1>3. \E code \in {"502", "upstream_error", "200"} : Answer(t, code)
    BY DEF Redeem
  <1>4. Moves(t) /\ pc'[t] = "done"
    BY <1>0, <1>3, AnswerMoves DEF TypeInv, Replies
  <1>5. \/ UNCHANGED <<tk, rt>>
        \/ Redeemable(t) /\ Granted(t, form.resource, form.code)
    BY DEF Redeem, Granted
  <1>6. ucode' \in [Flows -> {"none", "issued", "used"}]
    BY <1>2 DEF Redeem, TypeInv, TypeOK
  <1>7. /\ tk' \in [TokenRequests -> TokenLocals]
        /\ \A q \in TokenRequests \ {t} : tk'[q] = tk[q]
        /\ rt' \in [TokenRequests -> Maybe(RefreshEnvelope)]
        /\ \A q \in TokenRequests : rt[q] # None => rt'[q] # None
    <2>1. CASE UNCHANGED <<tk, rt>>
      BY <2>1 DEF TypeInv, TypeOK
    <2>2. CASE Granted(t, form.resource, form.code)
      BY <1>0, <1>2, <2>2, GrantedType DEF TypeInv
    <2>. QED BY <1>5, <2>1, <2>2
  <1>8. TypeOK'
    BY <1>4, <1>6, <1>7 DEF TypeInv, TypeOK, Moves, Control, Redeem, Steps, Replies
  <1>9. Held'
    BY <1>0, <1>4, <1>7, TokenHeld DEF Redeem
  <1>. QED BY <1>4, <1>5, <1>8, <1>9 DEF TypeInv

\* _handle_refresh up to the upstream call keeps the types.
LEMMA HandleRefreshType ==
  ASSUME TypeInv, NEW t \in Refreshes, HandleRefresh(t)
  PROVE  TypeInv' /\ Moves(t)
  <1>0. t \in Requests /\ t \in TokenRequests /\ t \notin Redemptions
    BY Kinds, FlowAssumption DEF FlowAssumption
  <1> DEFINE Goal ==
        /\ Moves(t)
        /\ tk' \in [TokenRequests -> TokenLocals]
        /\ \A q \in TokenRequests \ {t} : tk'[q] = tk[q]
        /\ pc'[t] = "refresh" =>
             tk'[t].envelope \in TokenRequests /\ rt[tk'[t].envelope] # None
  <1>1. ASSUME NEW code \in {"400", "invalid_grant", "502"}, Answer(t, code), UNCHANGED tk
        PROVE  Goal
    BY <1>0, <1>1, AnswerMoves DEF TypeInv, TypeOK, Replies
  <1>2. ASSUME NEW s \in TokenRequests, Opens(rt[s]), cfg.client[rt[s].resource] # None,
               tk' = [tk EXCEPT ![t] =
                  [envelope |-> s, secret |-> None, client |-> cfg.client[rt[s].resource],
                   startedAt |-> now, session |-> None]],
               GoTo(t, "refresh")
        PROVE  Goal
    <2>1. Moves(t)
      BY <1>0, <1>2, GoToMoves DEF TypeInv, Steps
    <2>2. rt[s] # None /\ rt[s] \in RefreshEnvelope
      BY <1>2 DEF Opens, TypeInv, TypeOK, Maybe
    <2>3. cfg.client[rt[s].resource] \in ClientIds
      BY <1>2, <2>2, UpstreamClient DEF TypeInv, RefreshEnvelope
    <2>4. [envelope |-> s, secret |-> None, client |-> cfg.client[rt[s].resource],
           startedAt |-> now, session |-> None] \in TokenLocals
      BY <2>3 DEF TokenLocals, Maybe, TypeInv, TypeOK
    <2>. QED BY <1>0, <1>2, <2>1, <2>2, <2>4 DEF TypeInv, TypeOK
  <1>3. Goal
    BY <1>1, <1>2 DEF HandleRefresh
  <1>4. TypeOK'
    BY <1>3 DEF TypeInv, TypeOK, Moves, Control, HandleRefresh, Steps, Replies
  <1>5. Held'
    BY <1>0, <1>3, TokenHeld DEF HandleRefresh
  <1>. QED BY <1>3, <1>4, <1>5 DEF TypeInv

\* The upstream's answer to a refresh keeps the types.
LEMMA RefreshType ==
  ASSUME TypeInv, NEW t \in Refreshes, Refresh(t)
  PROVE  /\ TypeInv' /\ Moves(t) /\ pc'[t] = "done"
         /\ \/ UNCHANGED <<tk, rt>>
            \/ Granted(t, rt[tk[t].envelope].resource, rt[tk[t].envelope].session)
  <1> DEFINE old == rt[tk[t].envelope]
  <1>0. t \in Requests /\ t \in TokenRequests /\ t \notin Redemptions
    BY Kinds, FlowAssumption DEF FlowAssumption
  <1>1. old \in RefreshEnvelope
    BY DEF Refresh, TypeInv, TypeOK, Held, Maybe
  <1>2. old.session \in Flows /\ old.resource \in Resources
    BY <1>1 DEF RefreshEnvelope
  <1>3. \E code \in {"502", "upstream_error", "200"} : Answer(t, code)
    BY DEF Refresh
  <1>4. Moves(t) /\ pc'[t] = "done"
    BY <1>0, <1>3, AnswerMoves DEF TypeInv, Replies
  <1>5. UNCHANGED <<tk, rt>> \/ Granted(t, old.resource, old.session)
    BY DEF Refresh, Granted, RefreshedResource
  <1>6. /\ tk' \in [TokenRequests -> TokenLocals]
        /\ \A q \in TokenRequests \ {t} : tk'[q] = tk[q]
        /\ rt' \in [TokenRequests -> Maybe(RefreshEnvelope)]
        /\ \A q \in TokenRequests : rt[q] # None => rt'[q] # None
    <2>1. CASE UNCHANGED <<tk, rt>>
      BY <2>1 DEF TypeInv, TypeOK
    <2>2. CASE Granted(t, old.resource, old.session)
      BY <1>0, <1>2, <2>2, GrantedType DEF TypeInv
    <2>. QED BY <1>5, <2>1, <2>2
  <1>7. TypeOK'
    BY <1>4, <1>6 DEF TypeInv, TypeOK, Moves, Control, Refresh, Steps, Replies
  <1>8. Held'
    BY <1>0, <1>4, <1>6, TokenHeld DEF Refresh
  <1>. QED BY <1>4, <1>5, <1>7, <1>8 DEF TypeInv

\* The user, the clock, the origins and a restart keep the types.
World ==
  \/ \E f \in Flows : Consent(f)
  \/ Tick
  \/ \E c \in CimdClients, d \in Documents : Publish(c, d)
  \/ \E config \in Configs : Restart(config)
  \/ UNCHANGED vars

\* The surroundings keep the types.
LEMMA WorldType ==
  ASSUME TypeInv, World
  PROVE  TypeInv'
  <1>1. ASSUME NEW f \in Flows, Consent(f) PROVE TypeInv'
    BY <1>1 DEF Consent, TypeInv, TypeOK, Held
  <1>2. CASE Tick
    BY <1>2 DEF Tick, TypeInv, TypeOK, Held, Time
  <1>3. ASSUME NEW c \in CimdClients, NEW d \in Documents, Publish(c, d) PROVE TypeInv'
    BY <1>3 DEF Publish, TypeInv, TypeOK, Held
  <1>4. ASSUME NEW config \in Configs, Restart(config) PROVE TypeInv'
    <2>1. TypeOK'
      BY <1>4 DEF Restart, TypeInv, TypeOK
    <2>2. Held'
      BY <1>4, Kinds DEF Restart, TypeInv, TypeOK, Held
    <2>. QED BY <2>1, <2>2 DEF TypeInv
  <1>5. CASE UNCHANGED vars
    BY <1>5 DEF vars, TypeInv, TypeOK, Held
  <1>. QED BY <1>1, <1>2, <1>3, <1>4, <1>5 DEF World

\* Every step keeps the typed invariant: one case per action.
LEMMA StepType == TypeInv /\ [Next]_vars => TypeInv'
  <1> SUFFICES ASSUME TypeInv, [Next]_vars PROVE TypeInv'
    OBVIOUS
  <1>1. CASE Arrive
    BY <1>1, RegisterType, AuthorizeType, CallbackType, HandleAuthCodeType, HandleRefreshType
      DEF Arrive
  <1>2. ASSUME NEW r \in Requests, Handle(r) PROVE TypeInv'
    BY <1>2, LoadDocumentType, RedeemType, RefreshType DEF Handle
  <1>3. CASE World
    BY <1>3, WorldType
  <1>. QED BY <1>1, <1>2, <1>3 DEF Next, World, Finished

\* Every reachable state is well typed: no endpoint stores, seals or answers
\* anything but what its envelopes and locals allow (TypeOK).
THEOREM TypeCorrect == Spec => []TypeOK
  <1>1. TypeInv => TypeOK
    BY DEF TypeInv
  <1>. QED BY <1>1, InitType, StepType, PTL DEF Spec

-----------------------------------------------------------------------------
(***************************************************************************)
(* The inductive invariant behind the safety theorems: what the envelopes  *)
(* say of each other.  An envelope is sealed once, by a request that has   *)
(* not ended, and never changes.  An authorize envelope carries the        *)
(* verifier its own upstream request was challenged with, and a URI its    *)
(* client registered; a code envelope repeats the authorize envelope whose *)
(* verifier it holds, and expires within both lifetimes of it; a           *)
(* redemption under way holds the secret of its code envelope; a refresh   *)
(* envelope repeats the resource of its session's flow.                    *)
(***************************************************************************)
Unsealed ==
  /\ \A g \in Registrations : pc[g] = "idle" => rg[g] = None
  /\ \A f \in Flows : pc[f] \in {"idle", "document"} => az[f] = None /\ asked[f] = None
  /\ \A b \in Callbacks : pc[b] = "idle" => cd[b] = None

RegistrationFacts(g) == rg[g] # None => \A u \in rg[g].uris : AcceptRegistered(u)

\* u matches a URI that client c registered or published.
MatchesOwn(c, u) ==
  /\ AcceptRegistered(u)
  /\ c \in Registrations => rg[c] # None
  /\ \E v \in RedirectUris(c) : UriMatches(u, v)

FlowFacts(f) ==
  /\ asked[f] # None => az[f] # None
  /\ az[f] # None =>
       /\ az[f].verifier = f
       /\ asked[f] # None
       /\ asked[f].challenge = f
       /\ az[f].at <= now
       /\ MatchesOwn(az[f].client, az[f].uri)

CodeFacts(b) ==
  cd[b] # None =>
    LET flow == az[cd[b].verifier] IN
    /\ flow # None
    /\ cd[b].client = flow.client
    /\ cd[b].uri = flow.uri
    /\ cd[b].challenge = flow.challenge
    /\ cd[b].resource = flow.resource
    /\ cd[b].exp <= flow.at + StateTtl + CodeTtl

SentFacts(b) ==
  sentTo[b] # None =>
    via[b] \in Flows /\ az[via[b]] # None /\ sentTo[b] = az[via[b]].uri

RedemptionFacts(t) ==
  pc[t] = "redeem" \/ tk[t].session # None =>
    /\ tk[t].envelope \in Callbacks
    /\ cd[tk[t].envelope] # None
    /\ tk[t].secret = cd[tk[t].envelope].challenge
    /\ tk[t].client \in ClientIds
    /\ tk[t].startedAt \in Time
    /\ tk[t].startedAt < cd[tk[t].envelope].exp
    /\ tk[t].session # None => tk[t].session = cd[tk[t].envelope].verifier

RefreshFacts(t) ==
  rt[t] # None =>
    az[rt[t].session] # None /\ rt[t].resource = az[rt[t].session].resource

Facts ==
  /\ Unsealed
  /\ \A g \in Registrations : RegistrationFacts(g)
  /\ \A f \in Flows : FlowFacts(f)
  /\ \A b \in Callbacks : CodeFacts(b) /\ SentFacts(b)
  /\ \A t \in Redemptions : RedemptionFacts(t)
  /\ \A t \in TokenRequests : RefreshFacts(t)

Inv == TypeInv /\ Facts

\* Nothing is sealed at the start.
LEMMA InitFacts == Init => Facts
  BY DEF Init, Facts, Unsealed, RegistrationFacts, FlowFacts, CodeFacts, SentFacts,
    RedemptionFacts, RefreshFacts, NoToken, Requests, TokenRequests

\* Envelopes and upstream requests only come to be, documents only accumulate
\* and the clock only moves on.
Grows ==
  /\ now <= now'
  /\ \A c \in CimdClients : docs[c] \subseteq docs'[c]
  /\ \A g \in Registrations : rg[g] # None => rg'[g] = rg[g]
  /\ \A f \in Flows : az[f] # None => az'[f] = az[f]
  /\ \A f \in Flows : asked[f] # None => asked'[f] = asked[f]
  /\ \A b \in Callbacks : cd[b] # None => cd'[b] = cd[b]

\* A URI that matches its client's stays matched as registrations and documents
\* accumulate.
LEMMA MatchStays ==
  ASSUME Grows, NEW c \in Clients, NEW u, MatchesOwn(c, u)
  PROVE  MatchesOwn(c, u)'
  <1>1. RedirectUris(c) \subseteq RedirectUris(c)'
    BY DEF Grows, MatchesOwn, RedirectUris, Clients
  <1>. QED BY <1>1 DEF Grows, MatchesOwn

\* What is said of a flow that a step leaves alone stays true.
LEMMA FlowStays ==
  ASSUME TypeInv, TypeInv', Grows, NEW f \in Flows, FlowFacts(f),
         az'[f] = az[f], asked'[f] = asked[f]
  PROVE  FlowFacts(f)'
  <1>1. CASE az[f] = None
    BY <1>1 DEF FlowFacts
  <1>2. CASE az[f] # None
    <2>1. az[f] \in AuthorizeEnvelope
      BY <1>2 DEF TypeInv, TypeOK, Maybe
    <2>2. az[f].client \in Clients /\ az[f].at \in Nat /\ now \in Nat /\ now' \in Nat
      BY <2>1 DEF AuthorizeEnvelope, TypeInv, TypeOK, Time
    <2>3. MatchesOwn(az[f].client, az[f].uri)'
      <3> DEFINE c == az[f].client
                 u == az[f].uri
      <3>1. MatchesOwn(c, u)
        BY <1>2 DEF FlowFacts
      <3>. QED BY <2>2, <3>1, MatchStays DEF MatchesOwn, Grows, RedirectUris, Clients
    <2>. QED BY <1>2, <2>2, <2>3 DEF FlowFacts, Grows
  <1>. QED BY <1>1, <1>2

\* What is said of a code, a callback, a redemption and a refresh envelope that
\* a step leaves alone stays true.
LEMMA OthersStay ==
  ASSUME TypeInv, Facts, Grows
  PROVE  /\ \A g \in Registrations : rg'[g] = rg[g] => RegistrationFacts(g)'
         /\ \A b \in Callbacks : cd'[b] = cd[b] => CodeFacts(b)'
         /\ \A b \in Callbacks : via'[b] = via[b] /\ sentTo'[b] = sentTo[b] => SentFacts(b)'
         /\ \A t \in Redemptions :
              tk'[t] = tk[t] /\ (pc'[t] = "redeem" => pc[t] = "redeem") => RedemptionFacts(t)'
         /\ \A t \in TokenRequests : rt'[t] = rt[t] => RefreshFacts(t)'
  <1>1. ASSUME NEW g \in Registrations, rg'[g] = rg[g] PROVE RegistrationFacts(g)'
    BY <1>1 DEF Facts, RegistrationFacts
  <1>2. ASSUME NEW b \in Callbacks, cd'[b] = cd[b] PROVE CodeFacts(b)'
    <2>1. cd[b] # None => cd[b].verifier \in Flows
      BY DEF TypeInv, TypeOK, CodeEnvelope, Maybe
    <2>2. cd[b] # None => az'[cd[b].verifier] = az[cd[b].verifier]
      BY <2>1 DEF Facts, CodeFacts, Grows
    <2>. QED BY <1>2, <2>2 DEF Facts, CodeFacts
  <1>3. ASSUME NEW b \in Callbacks, via'[b] = via[b], sentTo'[b] = sentTo[b]
        PROVE  SentFacts(b)'
    BY <1>3 DEF Facts, SentFacts, Grows
  <1>4. ASSUME NEW t \in Redemptions, tk'[t] = tk[t], pc'[t] = "redeem" => pc[t] = "redeem"
        PROVE  RedemptionFacts(t)'
    BY <1>4 DEF Facts, RedemptionFacts, Grows
  <1>5. ASSUME NEW t \in TokenRequests, rt'[t] = rt[t] PROVE RefreshFacts(t)'
    <2>1. rt[t] # None => rt[t].session \in Flows
      BY DEF TypeInv, TypeOK, RefreshEnvelope, Maybe
    <2>. QED BY <1>5, <2>1 DEF Facts, RefreshFacts, Grows
  <1>. QED BY <1>1, <1>2, <1>3, <1>4, <1>5

\* POST /register seals what it accepted.
LEMMA RegisterFacts ==
  ASSUME Inv, TypeInv', NEW g \in Registrations, Register(g)
  PROVE  Facts'
  <1>1. Moves(g)
    BY RegisterType DEF Inv
  <1>2. rg[g] = None
    BY DEF Register, Inv, Facts, Unsealed
  <1>3. Grows
    BY <1>2 DEF Grows, Register, Inv, TypeInv, TypeOK, Time
  <1>4. \A h \in Registrations \ {g} : rg'[h] = rg[h]
    BY DEF Register, Inv, TypeInv, TypeOK
  <1>5. RegistrationFacts(g)'
    <2>1. CASE UNCHANGED rg
      BY <1>2, <2>1 DEF RegistrationFacts
    <2>2. CASE \E uris \in SUBSET Uris :
                 /\ \A u \in uris : AcceptRegistered(u)
                 /\ rg' = [rg EXCEPT ![g] = [key |-> cfg.key, uris |-> uris]]
      BY <2>2 DEF RegistrationFacts, Inv, TypeInv, TypeOK
    <2>. QED BY <2>1, <2>2 DEF Register
  <1>6. \A r \in Requests \ {g} : pc'[r] = pc[r]
    BY <1>1 DEF Moves
  <1>7. Unsealed'
    BY <1>1, <1>4, <1>6, Kinds DEF Unsealed, Inv, Facts, Moves, Register
  <1>8. \A f \in Flows : FlowFacts(f)'
    BY <1>3, FlowStays DEF Inv, Facts, Register
  <1>9. \A t \in Redemptions : pc'[t] = pc[t]
    BY <1>6, Kinds, FlowAssumption DEF FlowAssumption
  <1>. QED BY <1>3, <1>4, <1>5, <1>7, <1>8, <1>9, OthersStay DEF Inv, Facts, Register

\* What the policy accepts of a registered URI it accepts of one that matches:
\* the loopback exception varies the port only (uri_matches_registration).
THEOREM MatchAccepted ==
  ASSUME NEW r, NEW s, AcceptRegistered(s), UriMatches(r, s)
  PROVE  AcceptRegistered(r)
  BY DEF AcceptRegistered, UriMatches

\* The URIs /authorize matches against are the client's own, and accepted.
LEMMA OfferedOwn ==
  ASSUME Inv, NEW c \in Clients, NEW uris, Offered(c, uris), NEW v \in uris
  PROVE  /\ AcceptRegistered(v)
         /\ v \in RedirectUris(c)
         /\ c \in Registrations => rg[c] # None
  <1>1. CASE c \in Registrations
    <2>1. rg[c] # None /\ uris = rg[c].uris
      BY <1>1, FlowAssumption DEF Offered, FlowAssumption
    <2>. QED BY <1>1, <2>1 DEF Inv, Facts, RegistrationFacts, RedirectUris
  <1>2. CASE c \notin Registrations
    <2>1. c \in CimdClients /\ uris \in docs[c]
      BY <1>2 DEF Offered
    <2>2. uris \in Documents
      BY <2>1 DEF Inv, TypeInv, TypeOK
    <2>3. AcceptRegistered(v)
      BY <2>2, FlowAssumption DEF FlowAssumption
    <2>. QED BY <1>2, <2>1, <2>3 DEF RedirectUris
  <1>. QED BY <1>1, <1>2

\* /authorize, by either route, seals an envelope for a URI of its own client.
LEMMA AuthorizeFacts ==
  ASSUME Inv, TypeInv', NEW f \in Flows, pc[f] \in {"idle", "document"}, Moves(f),
         AuthorizeOutcome(f), pc'[f] = "document" => UNCHANGED <<az, asked>>,
         UNCHANGED <<now, docs, rg, cd, via, sentTo, tk, rt>>
  PROVE  Facts'
  <1>1. az[f] = None /\ asked[f] = None
    BY DEF Inv, Facts, Unsealed
  <1>2. \A g \in Flows \ {f} : az'[g] = az[g] /\ asked'[g] = asked[g]
    BY DEF AuthorizeOutcome, Forward, Inv, TypeInv, TypeOK
  <1>3. Grows
    BY <1>1, <1>2 DEF Grows, Inv, TypeInv, TypeOK, Time
  <1>4. FlowFacts(f)'
    <2>1. CASE UNCHANGED <<az, asked>>
      BY <1>1, <2>1 DEF FlowFacts
    <2>2. ASSUME NEW p \in Params, NEW x \in Resources, NEW uris \in SUBSET Uris,
                 cfg.client[x] \in ClientIds, p.client \in Clients, Offered(p.client, uris),
                 NEW v \in uris, UriMatches(p.uri, v), Forward(f, p, x)
          PROVE  FlowFacts(f)'
      <3>1. /\ az'[f].verifier = f /\ az'[f].at = now
            /\ az'[f].client = p.client /\ az'[f].uri = p.uri
            /\ asked'[f].challenge = f
        BY <2>2 DEF Forward, MakeVerifier, Inv, TypeInv, TypeOK
      <3>2. asked'[f] # None /\ az'[f] # None
        <4>1. asked'[f] = [client |-> cfg.client[x], challenge |-> f]
          BY <2>2 DEF Forward, MakeVerifier, Inv, TypeInv, TypeOK
        <4>2. az'[f] =
                [key |-> cfg.key, at |-> now, client |-> p.client, uri |-> p.uri,
                 challenge |-> p.challenge, resource |-> x, verifier |-> f]
          BY <2>2 DEF Forward, MakeVerifier, Inv, TypeInv, TypeOK
        <4>3. cfg.key \in Keys /\ now \in Time
          BY FlowAssumption DEF Inv, TypeInv, TypeOK, FlowAssumption, Config
        <4>4. az'[f] \in AuthorizeEnvelope
          BY <2>2, <4>2, <4>3 DEF AuthorizeEnvelope, Params
        <4>5. az'[f] # None
          BY <4>4, FlowAssumption DEF FlowAssumption
        <4>6. asked'[f] # None
          BY <2>2, <4>1, FlowAssumption DEF FlowAssumption, UpstreamRequest
        <4>. QED BY <4>5, <4>6
      <3>3. AcceptRegistered(v) /\ v \in RedirectUris(p.client)
            /\ (p.client \in Registrations => rg[p.client] # None)
        BY <2>2, OfferedOwn
      <3>4. AcceptRegistered(p.uri)
        BY <2>2, <3>3, MatchAccepted
      <3>5. v \in RedirectUris(az[f].client)'
        BY <3>1, <3>3 DEF RedirectUris
      <3>6. MatchesOwn(az[f].client, az[f].uri)'
        BY <2>2, <3>1, <3>3, <3>4, <3>5 DEF MatchesOwn
      <3>7. az'[f].at <= now'
        BY <3>1 DEF Inv, TypeInv, TypeOK, Time
      <3>. QED BY <3>1, <3>2, <3>6, <3>7 DEF FlowFacts
    <2>. QED BY <2>1, <2>2 DEF AuthorizeOutcome
  <1>5. \A g \in Flows : FlowFacts(g)'
    BY <1>2, <1>3, <1>4, FlowStays DEF Inv, Facts
  <1>6. \A r \in Requests \ {f} : pc'[r] = pc[r]
    BY DEF Moves
  <1>7. \A r \in Registrations \cup Callbacks \cup Redemptions : pc'[r] = pc[r]
    BY <1>6, Kinds, FlowAssumption DEF FlowAssumption, TokenRequests
  <1>8. Unsealed'
    BY <1>1, <1>2, <1>6, <1>7, Kinds DEF Unsealed, Inv, Facts, Moves
  <1>. QED BY <1>3, <1>5, <1>7, <1>8, OthersStay DEF Inv, Facts

\* A code envelope repeats the envelope it was sealed from and expires within
\* both lifetimes of it.
LEMMA SealedFrom ==
  ASSUME Inv, NEW s \in Flows, OpensAuthorize(s), NEW code \in Flows, NEW e,
         e = SealCode(s, code)
  PROVE  /\ e.verifier = s
         /\ e.client = az[s].client /\ e.uri = az[s].uri
         /\ e.challenge = az[s].challenge /\ e.resource = az[s].resource
         /\ e.exp <= az[s].at + StateTtl + CodeTtl
  <1>1. az[s] # None /\ az[s] \in AuthorizeEnvelope /\ now <= az[s].at + StateTtl
    BY DEF OpensAuthorize, Opens, Inv, TypeInv, TypeOK, Maybe
  <1>2. az[s].verifier = s
    BY <1>1 DEF Inv, Facts, FlowFacts
  <1>3. e.exp = now + CodeTtl
    BY DEF SealCode
  <1>4. az[s].at \in Nat /\ now \in Nat /\ StateTtl \in Nat /\ CodeTtl \in Nat
    BY <1>1, FlowAssumption DEF AuthorizeEnvelope, Time, FlowAssumption, Inv, TypeInv, TypeOK
  <1>5. e.exp <= az[s].at + StateTtl + CodeTtl
    BY <1>1, <1>3, <1>4
  <1>. QED BY <1>2, <1>5 DEF SealCode

\* GET /callback sends the browser to the envelope's URI and seals a code that
\* repeats the envelope.
LEMMA CallbackFacts ==
  ASSUME Inv, TypeInv', NEW b \in Callbacks, Callback(b)
  PROVE  Facts'
  <1>1. Moves(b) /\ CallbackOutcome(b)
    BY CallbackType DEF Inv
  <1>2. cd[b] = None
    BY DEF Callback, Inv, Facts, Unsealed
  <1>3. \A a \in Callbacks \ {b} :
          cd'[a] = cd[a] /\ via'[a] = via[a] /\ sentTo'[a] = sentTo[a]
    BY <1>1 DEF CallbackOutcome, Redirect, Inv, TypeInv, TypeOK
  <1>4. Grows
    BY <1>2, <1>3 DEF Grows, Callback, Inv, TypeInv, TypeOK, Time
  <1>5. CodeFacts(b)' /\ SentFacts(b)'
    <2>1. CASE UNCHANGED <<cd, via, sentTo>>
      <3>1. cd'[b] = cd[b] /\ via'[b] = via[b] /\ sentTo'[b] = sentTo[b]
        BY <2>1
      <3>2. CodeFacts(b)'
        BY <1>4, <3>1, OthersStay DEF Inv
      <3>3. SentFacts(b)'
        BY <1>4, <3>1, OthersStay DEF Inv
      <3>. QED BY <3>2, <3>3
    <2>2. ASSUME NEW s \in Flows, OpensAuthorize(s), Redirect(b, s),
                 UNCHANGED cd \/ \E code \in Flows : cd' = [cd EXCEPT ![b] = SealCode(s, code)]
          PROVE  CodeFacts(b)' /\ SentFacts(b)'
      <3>1. az[s] # None /\ UNCHANGED az
        BY <2>2 DEF OpensAuthorize, Opens, Callback
      <3>2. SentFacts(b)'
        BY <2>2, <3>1 DEF SentFacts, Redirect, Inv, TypeInv, TypeOK
      <3>3. ASSUME NEW code \in Flows, cd' = [cd EXCEPT ![b] = SealCode(s, code)]
            PROVE  CodeFacts(b)'
        <4>1. cd'[b] = SealCode(s, code)
          BY <3>3 DEF Inv, TypeInv, TypeOK
        <4>2. /\ cd'[b].verifier = s
              /\ cd'[b].client = az[s].client /\ cd'[b].uri = az[s].uri
              /\ cd'[b].challenge = az[s].challenge /\ cd'[b].resource = az[s].resource
              /\ cd'[b].exp <= az[s].at + StateTtl + CodeTtl
          BY <2>2, <4>1, SealedFrom
        <4>. QED BY <3>1, <4>2 DEF CodeFacts
      <3>4. ASSUME UNCHANGED cd PROVE CodeFacts(b)'
        BY <1>2, <3>4 DEF CodeFacts
      <3>5. CodeFacts(b)'
        BY <2>2, <3>3, <3>4
      <3>. QED BY <3>2, <3>5
    <2>. QED BY <1>1, <2>1, <2>2 DEF CallbackOutcome
  <1>6. \A r \in Requests \ {b} : pc'[r] = pc[r]
    BY <1>1 DEF Moves
  <1>7. \A r \in Registrations \cup Flows \cup Redemptions : pc'[r] = pc[r]
    BY <1>6, Kinds, FlowAssumption DEF FlowAssumption, TokenRequests
  <1>8. Unsealed'
    BY <1>1, <1>3, <1>6, <1>7, Kinds DEF Unsealed, Inv, Facts, Moves, Callback
  <1>9. \A f \in Flows : FlowFacts(f)'
    BY <1>4, FlowStays DEF Inv, Facts, Callback
  <1>. QED BY <1>3, <1>4, <1>5, <1>7, <1>8, <1>9, OthersStay DEF Inv, Facts, Callback

\* A token request touches no envelope of the other endpoints.
LEMMA TokenFacts ==
  ASSUME Inv, TypeInv', NEW t \in TokenRequests, Moves(t),
         UNCHANGED <<cfg, now, docs, rg, par, az, asked, cd, via, sentTo>>,
         \A q \in TokenRequests \ {t} : tk'[q] = tk[q] /\ rt'[q] = rt[q],
         t \in Redemptions => RedemptionFacts(t)',
         RefreshFacts(t)'
  PROVE  Facts'
  <1>1. Grows
    BY DEF Grows, Inv, TypeInv, TypeOK, Time
  <1>2. \A r \in Requests \ {t} : pc'[r] = pc[r]
    BY DEF Moves
  <1>3. \A r \in Registrations \cup Flows \cup Callbacks : pc'[r] = pc[r]
    BY <1>2, Kinds, FlowAssumption DEF FlowAssumption
  <1>4. Unsealed'
    BY <1>3 DEF Unsealed, Inv, Facts
  <1>5. \A f \in Flows : FlowFacts(f)'
    BY <1>1, FlowStays DEF Inv, Facts
  <1>6. \A q \in Redemptions \ {t} : pc'[q] = pc[q] /\ tk'[q] = tk[q]
    BY <1>2, Kinds
  <1>. QED BY <1>1, <1>4, <1>5, <1>6, OthersStay DEF Inv, Facts

\* A redemption that goes upstream holds the secret of a code that had not
\* expired.
LEMMA HandleAuthCodeFacts ==
  ASSUME Inv, TypeInv', NEW t \in Redemptions, HandleAuthCode(t)
  PROVE  Facts'
  <1>0. t \in TokenRequests
    BY Kinds
  <1>1. /\ Moves(t)
        /\ \/ UNCHANGED tk /\ pc'[t] = "done"
           \/ \E b \in Callbacks, secret \in Secrets : CodePassed(t, b, secret)
    BY HandleAuthCodeType DEF Inv
  <1>2. Grows
    BY DEF Grows, HandleAuthCode, Inv, TypeInv, TypeOK, Time
  <1>3. RedemptionFacts(t)'
    <2>1. CASE UNCHANGED tk /\ pc'[t] = "done"
      BY <1>2, <2>1, OthersStay DEF Inv
    <2>2. ASSUME NEW b \in Callbacks, NEW secret \in Secrets, CodePassed(t, b, secret)
          PROVE  RedemptionFacts(t)'
      <3>1. /\ tk'[t].envelope = b /\ tk'[t].secret = secret
            /\ tk'[t].startedAt = now /\ tk'[t].session = None
            /\ tk'[t].client \in ClientIds
        BY <1>0, <2>2 DEF CodePassed, Inv, TypeInv, TypeOK
      <3>2. cd[b] # None /\ now < cd[b].exp /\ secret = cd[b].challenge /\ UNCHANGED cd
        BY <2>2 DEF CodePassed, HandleAuthCode
      <3>3. now \in Time
        BY DEF Inv, TypeInv, TypeOK
      <3>. QED BY <3>1, <3>2, <3>3 DEF RedemptionFacts
    <2>. QED BY <1>1, <2>1, <2>2
  <1>4. \A q \in TokenRequests \ {t} : tk'[q] = tk[q] /\ rt'[q] = rt[q]
    BY <1>1 DEF CodePassed, HandleAuthCode, Inv, TypeInv, TypeOK
  <1>5. RefreshFacts(t)'
    BY <1>0, <1>2, OthersStay DEF Inv, HandleAuthCode
  <1>. QED BY <1>0, <1>1, <1>3, <1>4, <1>5, TokenFacts DEF HandleAuthCode

\* The upstream redeems a code against the challenge of its own flow, so the
\* verifier in the code envelope, and with it all the envelope says, is that
\* flow's.
LEMMA RedeemFacts ==
  ASSUME Inv, TypeInv', NEW t \in Redemptions, Redeem(t)
  PROVE  Facts'
  <1> DEFINE form == cd[tk[t].envelope]
  <1>0. t \in TokenRequests /\ t \notin Refreshes
    BY Kinds, FlowAssumption DEF FlowAssumption
  <1>1. /\ Moves(t) /\ pc'[t] = "done"
        /\ \/ UNCHANGED <<tk, rt>>
           \/ Redeemable(t) /\ Granted(t, form.resource, form.code)
    BY RedeemType DEF Inv
  <1>2. Grows
    BY DEF Grows, Redeem, Inv, TypeInv, TypeOK, Time
  <1>3. CASE UNCHANGED <<tk, rt>>
    <2>1. RedemptionFacts(t)' /\ RefreshFacts(t)'
      <3>1. RedemptionFacts(t)'
        BY <1>1, <1>2, <1>3, OthersStay DEF Inv
      <3>2. RefreshFacts(t)'
        BY <1>0, <1>2, <1>3, OthersStay DEF Inv
      <3>. QED BY <3>1, <3>2
    <2>. QED BY <1>0, <1>1, <1>3, <2>1, TokenFacts DEF Redeem
  <1>4. CASE Redeemable(t) /\ Granted(t, form.resource, form.code)
    <2>1. /\ tk[t].envelope \in Callbacks /\ form # None
          /\ tk[t].secret = form.challenge /\ tk[t].client \in ClientIds
          /\ tk[t].startedAt \in Time /\ tk[t].startedAt < form.exp
      BY DEF Redeem, Inv, Facts, RedemptionFacts
    <2>2. form \in CodeEnvelope
      BY <2>1 DEF Inv, TypeInv, TypeOK, Maybe
    <2>3. form.code \in Flows /\ form.verifier \in Flows /\ form.resource \in Resources
      BY <2>2 DEF CodeEnvelope
    <2>4. asked[form.code].challenge = form.verifier /\ asked[form.code] # None
      <3>1. asked[form.code] = [client |-> tk[t].client, challenge |-> form.verifier]
        BY <1>4 DEF Redeemable
      <3>2. asked[form.code].challenge = form.verifier
        BY <3>1
      <3>3. asked[form.code] \in UpstreamRequest
        BY <2>1, <2>3, <3>1 DEF UpstreamRequest
      <3>4. asked[form.code] # None
        BY <3>3, FlowAssumption DEF FlowAssumption
      <3>. QED BY <3>2, <3>4
    <2>5. az[form.code] # None /\ form.verifier = form.code
      BY <2>3, <2>4 DEF Inv, Facts, FlowFacts
    <2>6. form.resource = az[form.code].resource
      BY <2>1, <2>5 DEF Inv, Facts, CodeFacts
    <2>7. /\ tk'[t] = [tk[t] EXCEPT !.session = form.code]
          /\ \A q \in TokenRequests \ {t} : tk'[q] = tk[q]
      BY <1>0, <1>4, <2>3, GrantedType DEF Inv, TypeInv
    <2>8. /\ tk'[t].envelope = tk[t].envelope /\ tk'[t].secret = tk[t].secret
          /\ tk'[t].client = tk[t].client
          /\ tk'[t].startedAt = tk[t].startedAt /\ tk'[t].session = form.code
      BY <1>0, <2>7 DEF Inv, TypeInv, TypeOK, TokenLocals
    <2>9. UNCHANGED <<az, cd>>
      BY DEF Redeem
    <2>10. RedemptionFacts(t)'
      BY <2>1, <2>5, <2>8, <2>9 DEF RedemptionFacts
    <2>11. RefreshFacts(t)' /\ \A q \in TokenRequests \ {t} : rt'[q] = rt[q]
      <3>1. CASE UNCHANGED rt
        BY <1>0, <1>2, <3>1, OthersStay DEF Inv
      <3>2. CASE rt' = [rt EXCEPT ![t] =
                   [key |-> cfg.key, resource |-> form.resource, session |-> form.code]]
        BY <1>0, <2>5, <2>6, <2>9, <3>2 DEF RefreshFacts, Inv, TypeInv, TypeOK
      <3>. QED BY <1>4, <3>1, <3>2 DEF Granted, Seal
    <2>. QED BY <1>0, <1>1, <2>7, <2>10, <2>11, TokenFacts DEF Redeem
  <1>. QED BY <1>1, <1>3, <1>4

\* _handle_refresh up to the upstream call seals nothing.
LEMMA HandleRefreshFacts ==
  ASSUME Inv, TypeInv', NEW t \in Refreshes, HandleRefresh(t)
  PROVE  Facts'
  <1>0. t \in TokenRequests /\ t \notin Redemptions
    BY Kinds, FlowAssumption DEF FlowAssumption
  <1>1. Moves(t)
    BY HandleRefreshType DEF Inv
  <1>2. Grows
    BY DEF Grows, HandleRefresh, Inv, TypeInv, TypeOK, Time
  <1>3. \A q \in TokenRequests \ {t} : tk'[q] = tk[q] /\ rt'[q] = rt[q]
    BY DEF HandleRefresh, Inv, TypeInv, TypeOK
  <1>4. RefreshFacts(t)'
    BY <1>0, <1>2, OthersStay DEF Inv, HandleRefresh
  <1>. QED BY <1>0, <1>1, <1>3, <1>4, TokenFacts DEF HandleRefresh

\* A refresh seals the resource and the session of the envelope presented.
LEMMA RefreshKeepsFacts ==
  ASSUME Inv, TypeInv', NEW t \in Refreshes, Refresh(t)
  PROVE  Facts'
  <1> DEFINE old == rt[tk[t].envelope]
  <1>0. t \in TokenRequests /\ t \notin Redemptions
    BY Kinds, FlowAssumption DEF FlowAssumption
  <1>1. /\ Moves(t)
        /\ UNCHANGED <<tk, rt>> \/ Granted(t, old.resource, old.session)
    BY RefreshType DEF Inv
  <1>2. Grows
    BY DEF Grows, Refresh, Inv, TypeInv, TypeOK, Time
  <1>3. tk[t].envelope \in TokenRequests /\ old # None
    BY DEF Refresh, Inv, TypeInv, Held
  <1>4. old.session \in Flows /\ old.resource \in Resources
    BY <1>3 DEF Inv, TypeInv, TypeOK, RefreshEnvelope, Maybe
  <1>5. az[old.session] # None /\ old.resource = az[old.session].resource
    BY <1>3 DEF Inv, Facts, RefreshFacts
  <1>6. UNCHANGED az
    BY DEF Refresh
  <1>7. \A q \in TokenRequests \ {t} : tk'[q] = tk[q]
    <2>1. ASSUME Granted(t, old.resource, old.session)
          PROVE  \A q \in TokenRequests \ {t} : tk'[q] = tk[q]
      BY <1>0, <1>4, <2>1, GrantedType DEF Inv, TypeInv
    <2>. QED BY <1>1, <2>1
  <1>8. RefreshFacts(t)' /\ \A q \in TokenRequests \ {t} : rt'[q] = rt[q]
    <2>1. CASE UNCHANGED rt
      BY <1>0, <1>2, <2>1, OthersStay DEF Inv
    <2>2. CASE rt' = [rt EXCEPT ![t] =
                 [key |-> cfg.key, resource |-> old.resource, session |-> old.session]]
      BY <1>0, <1>5, <1>6, <2>2 DEF RefreshFacts, Inv, TypeInv, TypeOK
    <2>. QED BY <1>1, <2>1, <2>2 DEF Granted, Seal
  <1>. QED BY <1>0, <1>1, <1>7, <1>8, TokenFacts DEF Refresh

\* The user, the clock, the origins and a restart leave the envelopes alone.
LEMMA WorldFacts ==
  ASSUME Inv, TypeInv', World
  PROVE  Facts'
  <1>1. UNCHANGED <<rg, az, asked, cd, via, sentTo, tk, rt>>
    BY DEF World, Consent, Tick, Publish, Restart, vars
  <1>2. Grows
    <2>1. now <= now'
      BY DEF World, Consent, Tick, Publish, Restart, vars, Inv, TypeInv, TypeOK, Time
    <2>2. \A c \in CimdClients : docs[c] \subseteq docs'[c]
      BY DEF World, Consent, Tick, Publish, Restart, vars, Inv, TypeInv, TypeOK
    <2>. QED BY <1>1, <2>1, <2>2 DEF Grows
  <1>3. \A r \in Requests :
          /\ pc'[r] \in {"idle", "document"} => pc[r] = pc'[r]
          /\ pc'[r] = "redeem" => pc[r] = "redeem"
    BY DEF World, Consent, Tick, Publish, Restart, vars, Inv, TypeInv, TypeOK
  <1>4. Unsealed'
    BY <1>1, <1>3, Kinds DEF Unsealed, Inv, Facts
  <1>5. \A f \in Flows : FlowFacts(f)'
    BY <1>1, <1>2, FlowStays DEF Inv, Facts
  <1>. QED BY <1>1, <1>2, <1>3, <1>4, <1>5, Kinds, OthersStay DEF Inv, Facts

\* The inductive invariant is preserved by every step: one case per action.
LEMMA StepFacts == Inv /\ [Next]_vars => Inv'
  <1> SUFFICES ASSUME Inv, [Next]_vars PROVE Facts'
    BY StepType DEF Inv
  <1>0. TypeInv'
    BY StepType DEF Inv
  <1>1. ASSUME NEW g \in Registrations, Register(g) PROVE Facts'
    BY <1>0, <1>1, RegisterFacts
  <1>2. ASSUME NEW f \in Flows, Authorize(f) PROVE Facts'
    <2>1. /\ Moves(f) /\ AuthorizeOutcome(f)
          /\ pc'[f] = "document" => UNCHANGED <<az, asked>>
      BY <1>2, AuthorizeType DEF Inv
    <2>. QED BY <1>0, <1>2, <2>1, AuthorizeFacts DEF Authorize
  <1>3. ASSUME NEW f \in Flows, LoadDocument(f) PROVE Facts'
    <2>1. Moves(f) /\ AuthorizeOutcome(f) /\ pc'[f] = "done"
      BY <1>3, LoadDocumentType DEF Inv
    <2>. QED BY <1>0, <1>3, <2>1, AuthorizeFacts DEF LoadDocument
  <1>4. ASSUME NEW b \in Callbacks, Callback(b) PROVE Facts'
    BY <1>0, <1>4, CallbackFacts
  <1>5. ASSUME NEW t \in Redemptions, HandleAuthCode(t) PROVE Facts'
    BY <1>0, <1>5, HandleAuthCodeFacts
  <1>6. ASSUME NEW t \in Redemptions, Redeem(t) PROVE Facts'
    BY <1>0, <1>6, RedeemFacts
  <1>7. ASSUME NEW t \in Refreshes, HandleRefresh(t) PROVE Facts'
    BY <1>0, <1>7, HandleRefreshFacts
  <1>8. ASSUME NEW t \in Refreshes, Refresh(t) PROVE Facts'
    BY <1>0, <1>8, RefreshKeepsFacts
  <1>9. CASE World
    BY <1>0, <1>9, WorldFacts
  <1>. QED BY <1>1, <1>2, <1>3, <1>4, <1>5, <1>6, <1>7, <1>8, <1>9
    DEF Next, Arrive, Handle, World, Finished

\* The inductive invariant holds throughout.
LEMMA SpecInv == Spec => []Inv
  <1>1. Init => Inv
    BY InitType, InitFacts DEF Inv
  <1>. QED BY <1>1, StepFacts, PTL DEF Spec

-----------------------------------------------------------------------------
\* A code or an error leaves /callback only for a URI that its client registered
\* or published and the redirect policy accepts, for every set of clients, URIs
\* and documents and however documents change, processes restart and callbacks
\* repeat (authorize.py step 4, callback.py; SentOnlyToRegistered).
THEOREM OnlyToRegistered == Spec => []SentOnlyToRegistered
  <1>1. Inv => SentOnlyToRegistered
    <2> SUFFICES ASSUME Inv, NEW b \in Callbacks, sentTo[b] # None
                 PROVE  /\ AcceptRegistered(sentTo[b])
                        /\ \E u \in RedirectUris(az[via[b]].client) : UriMatches(sentTo[b], u)
      BY DEF SentOnlyToRegistered
    <2>1. via[b] \in Flows /\ az[via[b]] # None /\ sentTo[b] = az[via[b]].uri
      BY DEF Inv, Facts, SentFacts
    <2>2. MatchesOwn(az[via[b]].client, az[via[b]].uri)
      BY <2>1 DEF Inv, Facts, FlowFacts
    <2>. QED BY <2>1, <2>2 DEF MatchesOwn
  <1>. QED BY <1>1, SpecInv, PTL

\* Tokens are issued only to the PKCE verifier, client, redirect URI and
\* resource of the flow the user consented to, although anybody may bring any
\* state, code and envelope to /callback and /token any number of times
\* (callback.py, token.py _handle_auth_code; TokensOfOwnFlow).
THEOREM TokensGoToOwnFlow == Spec => []TokensOfOwnFlow
  <1>1. Inv => TokensOfOwnFlow
    <2> SUFFICES ASSUME Inv, NEW t \in Redemptions, tk[t].session # None
                 PROVE  LET flow == az[tk[t].session]
                            code == cd[tk[t].envelope] IN
                        /\ tk[t].secret = flow.challenge
                        /\ <<code.client, code.uri, code.resource>> =
                             <<flow.client, flow.uri, flow.resource>>
      BY DEF TokensOfOwnFlow
    <2>1. /\ tk[t].envelope \in Callbacks /\ cd[tk[t].envelope] # None
          /\ tk[t].secret = cd[tk[t].envelope].challenge
          /\ tk[t].session = cd[tk[t].envelope].verifier
      BY DEF Inv, Facts, RedemptionFacts
    <2>. QED BY <2>1 DEF Inv, Facts, CodeFacts
  <1>. QED BY <1>1, SpecInv, PTL

\* No flow is redeemed once the lifetimes of its state and its code have passed
\* since /authorize, however often its callback is repeated (open_authorize,
\* _handle_auth_code; RedeemedInTime).
THEOREM RedemptionsAreInTime == Spec => []RedeemedInTime
  <1>1. Inv => RedeemedInTime
    <2> SUFFICES ASSUME Inv, NEW t \in Redemptions, tk[t].session # None
                 PROVE  tk[t].startedAt < az[tk[t].session].at + StateTtl + CodeTtl
      BY DEF RedeemedInTime
    <2> DEFINE code == cd[tk[t].envelope]
    <2>1. /\ tk[t].envelope \in Callbacks /\ code # None
          /\ tk[t].session = code.verifier
          /\ tk[t].startedAt \in Nat /\ tk[t].startedAt < code.exp
      BY DEF Inv, Facts, RedemptionFacts, Time
    <2>2. code \in CodeEnvelope
      BY <2>1 DEF Inv, TypeInv, TypeOK, Maybe
    <2>3. code.exp \in Nat /\ code.verifier \in Flows
      BY <2>2 DEF CodeEnvelope, Time
    <2>4. az[code.verifier] # None /\ code.exp <= az[code.verifier].at + StateTtl + CodeTtl
      BY <2>1 DEF Inv, Facts, CodeFacts
    <2>5. az[code.verifier].at \in Nat /\ StateTtl \in Nat /\ CodeTtl \in Nat
      BY <2>3, <2>4, FlowAssumption
        DEF Inv, TypeInv, TypeOK, AuthorizeEnvelope, Maybe, Time, FlowAssumption
    <2> HIDE DEF code
    <2>. QED BY <2>1, <2>3, <2>4, <2>5
  <1>. QED BY <1>1, SpecInv, PTL

\* Every refresh envelope names the resource of the flow its session began with,
\* through any chain of refreshes and redeployments (token.py _handle_refresh,
\* _finalise_upstream_response; RefreshKeepsResource).
THEOREM RefreshesKeepResource == Spec => []RefreshKeepsResource
  <1>1. Inv => RefreshKeepsResource
    BY DEF Inv, Facts, RefreshFacts, RefreshKeepsResource
  <1>. QED BY <1>1, SpecInv, PTL
=============================================================================
