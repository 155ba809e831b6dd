----------------------------- MODULE SignInProofs ---------------------------
(***************************************************************************)
(* InteractiveFlow implements SignIn: every step of an endpoint is one     *)
(* step of the sign-in, or none, whatever envelopes are presented to it.   *)
(***************************************************************************)
EXTENDS InteractiveFlowProofs

-----------------------------------------------------------------------------
(* Requests that have not ended. *)

\* A callback that has not arrived has sent nobody anywhere; a token request
\* that has not arrived has presented nothing, and one that has not ended has
\* got no tokens.
Pending ==
  /\ \A b \in Callbacks : pc[b] = "idle" => sentTo[b] = None
  /\ \A t \in TokenRequests :
       /\ pc[t] = "idle" => tk[t].secret = None
       /\ pc[t] # "done" => tk[t].session = None

SignInv == Inv /\ Pending

\* A step that moves one request keeps what is said of the others.
LEMMA PendingMoves ==
  ASSUME Pending, NEW r \in Requests, Moves(r),
         \A b \in Callbacks \ {r} : sentTo'[b] = sentTo[b],
         \A t \in TokenRequests \ {r} : tk'[t] = tk[t],
         r \in TokenRequests => pc'[r] = "done" \/ tk'[r].session = None
  PROVE  Pending'
  <1>1. \A q \in Requests \ {r} : pc'[q] = pc[q]
    BY DEF Moves
  <1>2. pc'[r] # "idle"
    BY DEF Moves
  <1>3. ASSUME NEW b \in Callbacks, pc'[b] = "idle" PROVE sentTo'[b] = None
    BY <1>1, <1>2, <1>3, Kinds DEF Pending
  <1>4. ASSUME NEW t \in TokenRequests, pc'[t] = "idle" PROVE tk'[t].secret = None
    BY <1>1, <1>2, <1>4, Kinds DEF Pending
  <1>5. ASSUME NEW t \in TokenRequests, pc'[t] # "done" PROVE tk'[t].session = None
    BY <1>1, <1>5, Kinds DEF Pending
  <1>. QED BY <1>3, <1>4, <1>5 DEF Pending

\* _handle_auth_code leaves a request without tokens.
LEMMA HandleAuthCodePending ==
  ASSUME SignInv, NEW t \in Redemptions, HandleAuthCode(t)
  PROVE  Pending'
  <1>0. t \in TokenRequests /\ t \in Requests
    BY Kinds
  <1>1. /\ Moves(t)
        /\ \/ UNCHANGED tk /\ pc'[t] = "done"
           \/ \E b \in Callbacks, secret \in Secrets : CodePassed(t, b, secret)
    BY HandleAuthCodeType DEF SignInv, Inv
  <1>2. \A q \in TokenRequests \ {t} : tk'[q] = tk[q]
    BY <1>1 DEF CodePassed, SignInv, Inv, TypeInv, TypeOK
  <1>3. pc'[t] = "done" \/ tk'[t].session = None
    BY <1>0, <1>1 DEF CodePassed, SignInv, Inv, TypeInv, TypeOK
  <1>. QED BY <1>0, <1>1, <1>2, <1>3, PendingMoves DEF HandleAuthCode, SignInv

\* _handle_refresh leaves a request without tokens.
LEMMA HandleRefreshOutcome ==
  ASSUME SignInv, NEW t \in Refreshes, HandleRefresh(t)
  PROVE  /\ Pending'
         /\ \A q \in TokenRequests : tk'[q].session = tk[q].session
         /\ \A q \in Redemptions : tk'[q] = tk[q]
  <1>0. t \in TokenRequests /\ t \in Requests /\ t \notin Redemptions
    BY Kinds, FlowAssumption DEF FlowAssumption
  <1>1. Moves(t)
    BY HandleRefreshType DEF SignInv, Inv
  <1>2. tk[t].session = None
    BY <1>0 DEF HandleRefresh, SignInv, Pending
  <1>3. \A q \in TokenRequests \ {t} : tk'[q] = tk[q]
    BY DEF HandleRefresh, SignInv, Inv, TypeInv, TypeOK
  <1>4. tk'[t].session = None
    BY <1>0, <1>2 DEF HandleRefresh, SignInv, Inv, TypeInv, TypeOK
  <1>5. Pending'
    BY <1>0, <1>1, <1>3, <1>4, PendingMoves DEF HandleRefresh, SignInv
  <1>. QED BY <1>0, <1>2, <1>3, <1>4, <1>5, Kinds

\* The upstream's answer ends a token request.
LEMMA UpstreamPending ==
  ASSUME SignInv, NEW t \in TokenRequests, Moves(t), pc'[t] = "done",
         UNCHANGED sentTo,
         NEW x \in Resources, NEW s \in Flows, UNCHANGED tk \/ Granted(t, x, s)
  PROVE  Pending'
  <1>1. \A q \in TokenRequests \ {t} : tk'[q] = tk[q]
    BY DEF Granted, SignInv, Inv, TypeInv, TypeOK
  <1>. QED BY <1>1, Kinds, PendingMoves DEF SignInv

\* Requests that have not ended stay as they are said to be.
LEMMA StepPending == SignInv /\ [Next]_vars => SignInv'
  <1> SUFFICES ASSUME SignInv, [Next]_vars PROVE Pending'
    BY StepFacts DEF SignInv
  <1>0. Pending /\ Inv /\ TypeInv
    BY DEF SignInv, Inv
  <1>1. ASSUME NEW g \in Registrations, Register(g) PROVE Pending'
    <2>1. g \in Requests /\ g \notin TokenRequests
      BY Kinds, FlowAssumption DEF FlowAssumption
    <2>. QED BY <1>0, <1>1, <2>1, RegisterType, PendingMoves DEF Register
  <1>2. ASSUME NEW f \in Flows, Authorize(f) PROVE Pending'
    <2>1. f \in Requests /\ f \notin TokenRequests
      BY Kinds, FlowAssumption DEF FlowAssumption
    <2>. QED BY <1>0, <1>2, <2>1, AuthorizeType, PendingMoves DEF Authorize
  <1>3. ASSUME NEW f \in Flows, LoadDocument(f) PROVE Pending'
    <2>1. f \in Requests /\ f \notin TokenRequests
      BY Kinds, FlowAssumption DEF FlowAssumption
    <2>. QED BY <1>0, <1>3, <2>1, LoadDocumentType, PendingMoves DEF LoadDocument
  <1>4. ASSUME NEW b \in Callbacks, Callback(b) PROVE Pending'
    <2>1. b \in Requests /\ b \notin TokenRequests
      BY Kinds, FlowAssumption DEF FlowAssumption
    <2>2. Moves(b) /\ CallbackOutcome(b)
      BY <1>0, <1>4, CallbackType
    <2>3. \A a \in Callbacks \ {b} : sentTo'[a] = sentTo[a]
      BY <1>0, <2>2 DEF CallbackOutcome, Redirect, TypeInv, TypeOK
    <2>. QED BY <1>0, <1>4, <2>1, <2>2, <2>3, PendingMoves DEF Callback
  <1>5. ASSUME NEW t \in Redemptions, Redeem(t) PROVE Pending'
    <2> DEFINE form == cd[tk[t].envelope]
    <2>1. /\ Moves(t) /\ pc'[t] = "done"
          /\ UNCHANGED tk \/ Granted(t, form.resource, form.code)
      BY <1>0, <1>5, RedeemType
    <2>2. form.code \in Flows /\ form.resource \in Resources
      BY <1>0, <1>5 DEF Redeem, TypeInv, TypeOK, Held, Maybe, CodeEnvelope
    <2>. QED BY <1>5, <2>1, <2>2, Kinds, UpstreamPending DEF Redeem
  <1>6. ASSUME NEW t \in Refreshes, Refresh(t) PROVE Pending'
    <2> DEFINE old == rt[tk[t].envelope]
    <2>1. /\ Moves(t) /\ pc'[t] = "done"
          /\ UNCHANGED tk \/ Granted(t, old.resource, old.session)
      BY <1>0, <1>6, RefreshType
    <2>2. old.session \in Flows /\ old.resource \in Resources
      BY <1>0, <1>6 DEF Refresh, TypeInv, TypeOK, Held, Maybe, RefreshEnvelope
    <2>. QED BY <1>6, <2>1, <2>2, Kinds, UpstreamPending DEF Refresh
  <1>7. CASE World
    <2>1. UNCHANGED <<sentTo, tk>>
      BY <1>7 DEF World, Consent, Tick, Publish, Restart, vars
    <2>2. \A r \in Requests :
            /\ pc'[r] = "idle" => pc[r] = "idle"
            /\ pc'[r] # "done" => pc[r] # "done"
      BY <1>0, <1>7 DEF World, Consent, Tick, Publish, Restart, vars, TypeInv, TypeOK
    <2>. QED BY <1>0, <2>1, <2>2, Kinds DEF Pending
  <1>. QED BY <1>1, <1>2, <1>3, <1>4, <1>5, <1>6, <1>7, HandleAuthCodePending,
         HandleRefreshOutcome
    DEF Next, Arrive, Handle, World, Finished

-----------------------------------------------------------------------------
(* The mapping. *)

\* The kinds of token requests are the same on both sides.
LEMMA SameRequests == Sign!TokenRequests = TokenRequests
  BY DEF Sign!TokenRequests, TokenRequests

\* What the sign-in sees depends on the documents, registrations and envelopes.
LEMMA MapsStay ==
  /\ UNCHANGED <<docs, rg>> => UNCHANGED AllowedMap
  /\ UNCHANGED az => UNCHANGED TermsMap
  /\ UNCHANGED tk => UNCHANGED <<ProofMap, SessionMap>>
  /\ UNCHANGED rt => UNCHANGED RenewalMap
  BY DEF AllowedMap, Allowed, RedirectUris, TermsMap, ProofMap, SessionMap, RenewalMap

\* A step that leaves all of that alone is no step of the sign-in.
LEMMA Stutter ==
  ASSUME UNCHANGED <<now, docs, rg, az, ucode, sentTo, tk, rt>>
  PROVE  UNCHANGED Sign!vars
  BY MapsStay DEF Sign!vars

\* A flow that was sealed has terms, and only such a flow.
LEMMA TermsAreSet ==
  ASSUME TypeOK, NEW f \in Flows
  PROVE  /\ az[f] = None <=> TermsMap[f] = None
         /\ az[f] # None =>
              /\ TermsMap[f].client = az[f].client
              /\ TermsMap[f].uri = az[f].uri
              /\ TermsMap[f].challenge = az[f].challenge
              /\ TermsMap[f].resource = az[f].resource
              /\ TermsMap[f].at = az[f].at
  <1>1. CASE az[f] = None
    BY <1>1 DEF TermsMap
  <1>2. CASE az[f] # None
    <2> DEFINE terms == [client |-> az[f].client, uri |-> az[f].uri,
                         challenge |-> az[f].challenge, resource |-> az[f].resource,
                         at |-> az[f].at]
    <2>1. TermsMap[f] = terms
      BY <1>2 DEF TermsMap
    <2>2. terms \in Terms
      BY <1>2 DEF TypeOK, Maybe, AuthorizeEnvelope, Terms
    <2>3. None \notin Terms
      BY FlowAssumption DEF FlowAssumption
    <2>. QED BY <1>2, <2>1, <2>2, <2>3
  <1>. QED BY <1>1, <1>2

\* A refresh envelope that was sealed is a renewal, and only such a one.
LEMMA RenewalsAreSet ==
  ASSUME TypeOK, NEW t \in TokenRequests
  PROVE  /\ rt[t] = None <=> RenewalMap[t] = None
         /\ rt[t] # None => RenewalMap[t].session = rt[t].session
  <1>1. CASE rt[t] = None
    BY <1>1 DEF RenewalMap
  <1>2. CASE rt[t] # None
    <2> DEFINE renewal == [session |-> rt[t].session, resource |-> rt[t].resource]
    <2>1. RenewalMap[t] = renewal
      BY <1>2 DEF RenewalMap
    <2>2. renewal \in Renewal
      BY <1>2 DEF TypeOK, Maybe, RefreshEnvelope, Renewal
    <2>3. None \notin Renewal
      BY FlowAssumption DEF FlowAssumption
    <2>. QED BY <1>2, <2>1, <2>2, <2>3
  <1>. QED BY <1>1, <1>2

\* What a client allows are URIs in play that the policy accepts.
LEMMA AllowedType ==
  ASSUME Inv, NEW c \in Clients
  PROVE  Allowed(c) \in SUBSET {u \in Uris : AcceptRegistered(u)}
  <1>1. CASE c \in Registrations /\ rg[c] = None
    BY <1>1 DEF Allowed
  <1>2. CASE c \in Registrations /\ rg[c] # None
    <2>1. rg[c].uris \in SUBSET Uris
      BY <1>2 DEF Inv, TypeInv, TypeOK, RegistrationEnvelope, Maybe
    <2>2. \A u \in rg[c].uris : AcceptRegistered(u)
      BY <1>2 DEF Inv, Facts, RegistrationFacts
    <2>. QED BY <1>2, <2>1, <2>2 DEF Allowed, RedirectUris
  <1>3. CASE c \notin Registrations
    <2>1. c \in CimdClients
      BY <1>3 DEF Clients
    <2>2. docs[c] \subseteq Documents
      BY <2>1 DEF Inv, TypeInv, TypeOK
    <2>3. \A d \in docs[c] : d \subseteq {u \in Uris : AcceptRegistered(u)}
      BY <2>2, FlowAssumption DEF FlowAssumption
    <2>. QED BY <1>3, <2>3 DEF Allowed, RedirectUris
  <1>. QED BY <1>1, <1>2, <1>3

\* The first state of the endpoints is one of the sign-in.
LEMMA InitSign == Init => Sign!Init
  <1> SUFFICES ASSUME Init PROVE Sign!Init
    OBVIOUS
  <1>1. Inv
    BY InitType, InitFacts DEF Inv
  <1>2. AllowedMap \in [Clients -> SUBSET {u \in Uris : AcceptRegistered(u)}]
    BY <1>1, AllowedType DEF AllowedMap
  <1>3. /\ TermsMap = [f \in Flows |-> None]
        /\ ProofMap = [t \in Redemptions |-> None]
        /\ SessionMap = [t \in TokenRequests |-> None]
        /\ RenewalMap = [t \in TokenRequests |-> None]
    BY Kinds DEF Init, TermsMap, ProofMap, SessionMap, RenewalMap, NoToken
  <1>. QED BY <1>2, <1>3, SameRequests DEF Init, Sign!Init

-----------------------------------------------------------------------------
(* The endpoints, one by one. *)

\* POST /register, and a document published: a client allows more URIs.
LEMMA RegisterSign ==
  ASSUME SignInv, NEW g \in Registrations, Register(g)
  PROVE  [Sign!Next]_(Sign!vars)
  <1>1. UNCHANGED <<now, docs, az, ucode, sentTo, tk, rt>>
    BY DEF Register
  <1>2. CASE UNCHANGED rg
    BY <1>1, <1>2, Stutter
  <1>3. ASSUME NEW uris \in SUBSET Uris, \A u \in uris : AcceptRegistered(u),
               rg' = [rg EXCEPT ![g] = [key |-> cfg.key, uris |-> uris]]
        PROVE  Sign!Allow(g, uris)
    <2>1. rg[g] = None /\ g \in Clients
      BY DEF Register, SignInv, Inv, Facts, Unsealed, Clients
    <2>2. rg'[g] = [key |-> cfg.key, uris |-> uris] /\ rg'[g] # None
      <3>1. cfg.key \in Keys
        BY FlowAssumption DEF SignInv, Inv, TypeInv, TypeOK, FlowAssumption, Config
      <3>2. [key |-> cfg.key, uris |-> uris] \in RegistrationEnvelope
        BY <3>1 DEF RegistrationEnvelope
      <3>3. rg'[g] = [key |-> cfg.key, uris |-> uris]
        BY <1>3 DEF SignInv, Inv, TypeInv, TypeOK
      <3>. QED BY <3>2, <3>3, FlowAssumption DEF FlowAssumption
    <2>3. Allowed(g) = {} /\ Allowed(g)' = uris
      BY <2>1, <2>2 DEF Allowed, RedirectUris
    <2>4. \A c \in Clients \ {g} : Allowed(c)' = Allowed(c)
      BY <1>1, <1>3 DEF Allowed, RedirectUris, SignInv, Inv, TypeInv, TypeOK
    <2>5. AllowedMap' = [AllowedMap EXCEPT ![g] = @ \cup uris]
      <3>1. AllowedMap' = [c \in Clients |-> Allowed(c)']
        BY DEF AllowedMap
      <3>2. \A c \in Clients : Allowed(c)' = IF c = g THEN Allowed(g) \cup uris ELSE Allowed(c)
        BY <2>3, <2>4
      <3>. QED BY <2>1, <3>1, <3>2 DEF AllowedMap
    <2>. QED BY <1>1, <2>5, MapsStay DEF Sign!Allow
  <1>4. ASSUME NEW uris \in SUBSET Uris, \A u \in uris : AcceptRegistered(u),
               rg' = [rg EXCEPT ![g] = [key |-> cfg.key, uris |-> uris]]
        PROVE  Sign!Next
    <2>1. g \in Clients /\ uris \in SUBSET {u \in Uris : AcceptRegistered(u)}
      BY <1>4 DEF Clients
    <2>2. Sign!Allow(g, uris)
      BY <1>3, <1>4
    <2>. QED BY <2>1, <2>2 DEF Sign!Next
  <1>5. \/ UNCHANGED rg
        \/ \E uris \in SUBSET Uris :
             /\ \A u \in uris : AcceptRegistered(u)
             /\ rg' = [rg EXCEPT ![g] = [key |-> cfg.key, uris |-> uris]]
    BY DEF Register
  <1>. QED BY <1>2, <1>4, <1>5

\* A client publishes another document.
LEMMA PublishSign ==
  ASSUME SignInv, NEW c \in CimdClients, NEW d \in Documents, Publish(c, d)
  PROVE  Sign!Next
  <1>1. UNCHANGED <<now, rg, az, ucode, sentTo, tk, rt>>
    BY DEF Publish
  <1>2. c \in Clients /\ c \notin Registrations
    BY FlowAssumption DEF Clients, FlowAssumption
  <1>3. docs'[c] = docs[c] \cup {d} /\ \A k \in CimdClients \ {c} : docs'[k] = docs[k]
    BY DEF Publish, SignInv, Inv, TypeInv, TypeOK
  <1>4. Allowed(c)' = Allowed(c) \cup d
    BY <1>2, <1>3 DEF Allowed, RedirectUris
  <1>5. \A k \in Clients \ {c} : Allowed(k)' = Allowed(k)
    BY <1>1, <1>3 DEF Allowed, RedirectUris, Clients
  <1>6. AllowedMap' = [AllowedMap EXCEPT ![c] = @ \cup d]
    <2>1. AllowedMap' = [k \in Clients |-> Allowed(k)']
      BY DEF AllowedMap
    <2>2. \A k \in Clients : Allowed(k)' = IF k = c THEN Allowed(c) \cup d ELSE Allowed(k)
      BY <1>4, <1>5
    <2>. QED BY <1>2, <2>1, <2>2 DEF AllowedMap
  <1>7. Sign!Allow(c, d)
    BY <1>1, <1>6, MapsStay DEF Sign!Allow
  <1>8. d \in SUBSET {u \in Uris : AcceptRegistered(u)}
    BY FlowAssumption DEF FlowAssumption
  <1>. QED BY <1>2, <1>7, <1>8 DEF Sign!Next

\* GET /authorize, by either route: the terms are set, or nothing happens.
LEMMA AuthorizeSign ==
  ASSUME SignInv, NEW f \in Flows, pc[f] \in {"idle", "document"}, AuthorizeOutcome(f),
         UNCHANGED <<now, docs, rg, ucode, sentTo, tk, rt>>
  PROVE  [Sign!Next]_(Sign!vars)
  <1>1. az[f] = None
    BY DEF SignInv, Inv, Facts, Unsealed
  <1>2. CASE UNCHANGED az
    BY <1>2, Stutter
  <1>3. ASSUME NEW p \in Params, NEW x \in Resources, NEW uris \in SUBSET Uris,
               cfg.client[x] \in ClientIds, p.client \in Clients, Offered(p.client, uris),
               NEW v \in uris, UriMatches(p.uri, v), Forward(f, p, x)
        PROVE  Sign!Next
    <2> DEFINE e == [key |-> cfg.key, at |-> now, client |-> p.client, uri |-> p.uri,
                     challenge |-> p.challenge, resource |-> x, verifier |-> f]
               terms == [client |-> p.client, uri |-> p.uri, challenge |-> p.challenge,
                         resource |-> x, at |-> now]
    <2>1. v \in Allowed(p.client)
      BY <1>3, OfferedOwn DEF Allowed, SignInv
    <2>2. p.uri \in Uris /\ p.challenge \in Secrets
      BY DEF Params
    <2>3. e # None
      <3>1. cfg.key \in Keys /\ now \in Time
        BY FlowAssumption DEF SignInv, Inv, TypeInv, TypeOK, FlowAssumption, Config
      <3>2. e \in AuthorizeEnvelope
        BY <1>3, <2>2, <3>1 DEF AuthorizeEnvelope
      <3>. QED BY <3>2, FlowAssumption DEF FlowAssumption
    <2>4. az'[f] = e /\ \A g \in Flows \ {f} : az'[g] = az[g]
      BY <1>3 DEF Forward, MakeVerifier, SignInv, Inv, TypeInv, TypeOK
    <2>5. TermsMap' = [TermsMap EXCEPT ![f] = terms]
      <3>1. /\ e.client = p.client /\ e.uri = p.uri /\ e.challenge = p.challenge
            /\ e.resource = x /\ e.at = now
        OBVIOUS
      <3> HIDE DEF e
      <3>2. \A g \in Flows : TermsMap'[g] = IF g = f THEN terms ELSE TermsMap[g]
        BY <2>3, <2>4, <3>1 DEF TermsMap
      <3> HIDE DEF terms
      <3>. QED BY <3>2 DEF TermsMap
    <2>6. TermsMap[f] = None
      BY <1>1 DEF TermsMap
    <2>7. \E u \in AllowedMap[p.client] : UriMatches(p.uri, u)
      BY <1>3, <2>1 DEF AllowedMap
    <2>8. Sign!Ask(f, p.client, p.uri, p.challenge, x)
      BY <2>5, <2>6, <2>7, MapsStay DEF Sign!Ask
    <2>. QED BY <1>3, <2>2, <2>8 DEF Sign!Next
  <1>. QED BY <1>2, <1>3 DEF AuthorizeOutcome

\* GET /callback sends the browser on to a flow's URI, or nowhere.
LEMMA CallbackSign ==
  ASSUME SignInv, NEW b \in Callbacks, Callback(b)
  PROVE  [Sign!Next]_(Sign!vars)
  <1>1. UNCHANGED <<now, docs, rg, az, ucode, tk, rt>>
    BY DEF Callback
  <1>2. CallbackOutcome(b)
    BY CallbackType DEF SignInv, Inv
  <1>3. CASE UNCHANGED sentTo
    BY <1>1, <1>3, Stutter
  <1>4. ASSUME NEW s \in Flows, OpensAuthorize(s), Redirect(b, s)
        PROVE  Sign!Next
    <2>1. az[s] # None /\ now <= az[s].at + StateTtl
      BY <1>4 DEF OpensAuthorize, Opens
    <2>2. TermsMap[s] # None /\ TermsMap[s].uri = az[s].uri /\ TermsMap[s].at = az[s].at
      BY <2>1, TermsAreSet DEF SignInv, Inv, TypeInv
    <2>3. sentTo[b] = None
      BY DEF Callback, SignInv, Pending
    <2>4. sentTo' = [sentTo EXCEPT ![b] = TermsMap[s].uri] /\ now <= TermsMap[s].at + StateTtl
      BY <1>4, <2>1, <2>2 DEF Redirect
    <2>5. Sign!SendOn(b, s)
      BY <1>1, <2>2, <2>3, <2>4, MapsStay DEF Sign!SendOn
    <2>. QED BY <2>5 DEF Sign!Next
  <1>. QED BY <1>2, <1>3, <1>4 DEF CallbackOutcome

\* _handle_auth_code: a verifier is presented, or nothing happens.
LEMMA HandleAuthCodeSign ==
  ASSUME SignInv, NEW t \in Redemptions, HandleAuthCode(t)
  PROVE  [Sign!Next]_(Sign!vars)
  <1>0. t \in TokenRequests
    BY Kinds
  <1>1. UNCHANGED <<now, docs, rg, az, ucode, sentTo, rt>> /\ pc[t] = "idle"
    BY DEF HandleAuthCode
  <1>2. CASE UNCHANGED tk
    BY <1>1, <1>2, Stutter
  <1>3. ASSUME NEW b \in Callbacks, NEW secret \in Secrets, CodePassed(t, b, secret)
        PROVE  Sign!Next
    <2>1. /\ tk'[t].secret = secret /\ tk'[t].startedAt = now /\ tk'[t].session = None
          /\ \A q \in TokenRequests \ {t} : tk'[q] = tk[q]
      BY <1>0, <1>3 DEF CodePassed, SignInv, Inv, TypeInv, TypeOK
    <2>2. tk[t].secret = None /\ tk[t].session = None
      BY <1>0, <1>1 DEF SignInv, Pending
    <2>3. secret # None
      BY FlowAssumption DEF FlowAssumption
    <2>4. ProofMap[t] = None
      BY <2>2 DEF ProofMap
    <2>5. ProofMap' = [ProofMap EXCEPT ![t] = [secret |-> secret, at |-> now]]
      <3>1. \A q \in Redemptions :
              ProofMap'[q] = IF q = t THEN [secret |-> secret, at |-> now] ELSE ProofMap[q]
        BY <2>1, <2>3, Kinds DEF ProofMap
      <3>. QED BY <3>1 DEF ProofMap
    <2>6. UNCHANGED SessionMap
      <3>1. \A q \in TokenRequests : tk'[q].session = tk[q].session
        BY <2>1, <2>2
      <3>. QED BY <3>1 DEF SessionMap
    <2>7. Sign!Present(t, secret)
      BY <1>1, <2>4, <2>5, <2>6, MapsStay DEF Sign!Present
    <2>. QED BY <2>7 DEF Sign!Next
  <1>4. UNCHANGED tk \/ \E b \in Callbacks, secret \in Secrets : CodePassed(t, b, secret)
    BY HandleAuthCodeType DEF SignInv, Inv
  <1>. QED BY <1>2, <1>3, <1>4

\* Tokens of flow f for request t, sealed with that flow's resource.
LEMMA GrantedSign ==
  ASSUME SignInv, NEW t \in TokenRequests, pc[t] # "done", NEW f \in Flows,
         az[f] # None, Granted(t, az[f].resource, f)
  PROVE  Sign!Grant(t, f) /\ UNCHANGED ProofMap
  <1>1. az[f].resource \in Resources
    BY DEF SignInv, Inv, TypeInv, TypeOK, Maybe, AuthorizeEnvelope
  <1>2. /\ tk'[t] = [tk[t] EXCEPT !.session = f]
        /\ \A q \in TokenRequests \ {t} : tk'[q] = tk[q]
    BY <1>1, GrantedType DEF SignInv, Inv, TypeInv
  <1>3. tk[t] \in TokenLocals
    BY DEF SignInv, Inv, TypeInv, TypeOK
  <1>4. /\ tk'[t].session = f /\ tk'[t].secret = tk[t].secret
        /\ tk'[t].startedAt = tk[t].startedAt
    BY <1>2, <1>3 DEF TokenLocals
  <1>5. SessionMap[t] = None
    BY DEF SessionMap, SignInv, Pending
  <1>6. SessionMap' = [SessionMap EXCEPT ![t] = f]
    <2>1. \A q \in TokenRequests : tk'[q].session = IF q = t THEN f ELSE tk[q].session
      BY <1>2, <1>4
    <2>. QED BY <2>1 DEF SessionMap
  <1>7. UNCHANGED ProofMap
    <2>1. \A q \in Redemptions :
            tk'[q].secret = tk[q].secret /\ tk'[q].startedAt = tk[q].startedAt
      BY <1>2, <1>4, Kinds
    <2>. QED BY <2>1 DEF ProofMap
  <1>8. \/ UNCHANGED RenewalMap
        \/ RenewalMap' = [RenewalMap EXCEPT ![t] =
             [session |-> f, resource |-> TermsMap[f].resource]]
    <2>1. CASE UNCHANGED rt
      BY <2>1, MapsStay
    <2>2. CASE rt' = [rt EXCEPT ![t] =
                 [key |-> cfg.key, resource |-> az[f].resource, session |-> f]]
      <3> DEFINE e == [key |-> cfg.key, resource |-> az[f].resource, session |-> f]
      <3>1. TermsMap[f].resource = az[f].resource
        BY TermsAreSet DEF SignInv, Inv, TypeInv
      <3>2. cfg.key \in Keys
        BY FlowAssumption DEF SignInv, Inv, TypeInv, TypeOK, FlowAssumption, Config
      <3>3. e \in RefreshEnvelope
        BY <1>1, <3>2 DEF RefreshEnvelope
      <3>4. e # None
        BY <3>3, FlowAssumption DEF FlowAssumption
      <3>5. e.session = f /\ e.resource = az[f].resource
        OBVIOUS
      <3>6. rt'[t] = e /\ \A q \in TokenRequests \ {t} : rt'[q] = rt[q]
        BY <2>2 DEF SignInv, Inv, TypeInv, TypeOK
      <3> HIDE DEF e
      <3> DEFINE renewal == [session |-> f, resource |-> TermsMap[f].resource]
      <3>7. \A q \in TokenRequests :
              RenewalMap'[q] = IF q = t THEN renewal ELSE RenewalMap[q]
        BY <3>1, <3>4, <3>5, <3>6 DEF RenewalMap
      <3> HIDE DEF renewal
      <3>8. RenewalMap' = [RenewalMap EXCEPT ![t] = renewal]
        BY <3>7 DEF RenewalMap
      <3>. QED BY <3>8 DEF renewal
    <2>. QED BY <2>1, <2>2 DEF Granted, Seal
  <1>. QED BY <1>5, <1>6, <1>7, <1>8 DEF Sign!Grant

\* The upstream's answer to a code: one session for the consent to the flow
\* whose verifier was presented.
LEMMA RedeemSign ==
  ASSUME SignInv, NEW t \in Redemptions, Redeem(t)
  PROVE  [Sign!Next]_(Sign!vars)
  <1> DEFINE form == cd[tk[t].envelope]
             f == form.code
  <1>0. t \in TokenRequests
    BY Kinds
  <1>1. UNCHANGED <<now, docs, rg, az, cd, sentTo>> /\ pc[t] = "redeem"
    BY DEF Redeem
  <1>2. CASE UNCHANGED <<ucode, tk, rt>>
    BY <1>1, <1>2, Stutter
  <1>3. CASE /\ Redeemable(t)
             /\ ucode' = [ucode EXCEPT ![f] = "used"]
             /\ Granted(t, form.resource, f)
    <2>1. /\ tk[t].envelope \in Callbacks /\ form # None
          /\ tk[t].secret = form.challenge /\ tk[t].client \in ClientIds
          /\ tk[t].startedAt \in Time /\ tk[t].startedAt < form.exp
      BY <1>1 DEF SignInv, Inv, Facts, RedemptionFacts
    <2>2. form \in CodeEnvelope
      BY <2>1 DEF SignInv, Inv, TypeInv, TypeOK, Maybe
    <2>3. f \in Flows /\ form.verifier \in Flows /\ form.exp \in Nat /\ form.challenge \in Secrets
      BY <2>2 DEF CodeEnvelope, Time
    <2>4. asked[f] # None /\ asked[f].challenge = form.verifier
      <3>1. asked[f] = [client |-> tk[t].client, challenge |-> form.verifier]
        BY <1>3 DEF Redeemable
      <3>2. asked[f] \in UpstreamRequest
        BY <2>1, <2>3, <3>1 DEF UpstreamRequest
      <3>. QED BY <3>1, <3>2, FlowAssumption DEF FlowAssumption
    <2>5. az[f] # None /\ form.verifier = f
      BY <2>3, <2>4 DEF SignInv, Inv, Facts, FlowFacts
    <2>6. /\ form.challenge = az[f].challenge /\ form.resource = az[f].resource
          /\ form.exp <= az[f].at + StateTtl + CodeTtl
      BY <2>1, <2>5 DEF SignInv, Inv, Facts, CodeFacts
    <2>7. tk[t].startedAt < az[f].at + StateTtl + CodeTtl
      <3>1. az[f].at \in Nat /\ StateTtl \in Nat /\ CodeTtl \in Nat /\ tk[t].startedAt \in Nat
        BY <2>1, <2>3, <2>5, FlowAssumption
          DEF SignInv, Inv, TypeInv, TypeOK, AuthorizeEnvelope, Maybe, Time, FlowAssumption
      <3> HIDE DEF form, f
      <3>. QED BY <2>1, <2>3, <2>6, <3>1
    <2>8. /\ ProofMap[t] # None
          /\ ProofMap[t].secret = tk[t].secret /\ ProofMap[t].at = tk[t].startedAt
      <3>1. tk[t].secret \in Secrets /\ tk[t].secret # None
        BY <2>1, <2>3, FlowAssumption DEF FlowAssumption
      <3>2. ProofMap[t] = [secret |-> tk[t].secret, at |-> tk[t].startedAt]
        BY <3>1 DEF ProofMap
      <3>3. ProofMap[t] \in Proof
        BY <2>1, <3>1, <3>2 DEF Proof
      <3>. QED BY <3>2, <3>3, FlowAssumption DEF FlowAssumption
    <2>9. TermsMap[f].challenge = az[f].challenge /\ TermsMap[f].at = az[f].at
      BY <2>3, <2>5, TermsAreSet DEF SignInv, Inv, TypeInv
    <2>10. Sign!Grant(t, f) /\ UNCHANGED ProofMap
      BY <1>0, <1>1, <1>3, <2>3, <2>5, <2>6, GrantedSign
    <2>11. ucode[f] = "issued"
      BY <1>3 DEF Redeemable
    <2>12. UNCHANGED <<AllowedMap, TermsMap>>
      BY <1>1, MapsStay
    <2> HIDE DEF form, f
    <2>13. Sign!Redeem(t, f)
      BY <1>1, <1>3, <2>1, <2>6, <2>7, <2>8, <2>9, <2>10, <2>11, <2>12 DEF Sign!Redeem
    <2>. QED BY <2>3, <2>13 DEF Sign!Next
  <1>. QED BY <1>2, <1>3 DEF Redeem, Granted

\* The upstream's answer to a refresh token: the session it belongs to.
LEMMA RefreshSign ==
  ASSUME SignInv, NEW t \in Refreshes, Refresh(t)
  PROVE  [Sign!Next]_(Sign!vars)
  <1> DEFINE s == tk[t].envelope
             f == rt[s].session
  <1>0. t \in TokenRequests
    BY Kinds
  <1>1. UNCHANGED <<now, docs, rg, az, ucode, sentTo>> /\ pc[t] = "refresh"
    BY DEF Refresh
  <1>2. CASE UNCHANGED <<tk, rt>>
    BY <1>1, <1>2, Stutter
  <1>3. CASE Granted(t, rt[s].resource, f)
    <2>1. s \in TokenRequests /\ rt[s] # None
      BY <1>1 DEF SignInv, Inv, TypeInv, Held
    <2>2. f \in Flows
      BY <2>1 DEF SignInv, Inv, TypeInv, TypeOK, RefreshEnvelope, Maybe
    <2>3. az[f] # None /\ rt[s].resource = az[f].resource
      BY <2>1 DEF SignInv, Inv, Facts, RefreshFacts
    <2>4. Sign!Grant(t, f) /\ UNCHANGED ProofMap
      BY <1>0, <1>1, <1>3, <2>2, <2>3, GrantedSign
    <2>5. RenewalMap[s] # None /\ RenewalMap[s].session = f
      BY <2>1, RenewalsAreSet DEF SignInv, Inv, TypeInv
    <2>6. UNCHANGED <<AllowedMap, TermsMap>>
      BY <1>1, MapsStay
    <2> HIDE DEF f, s
    <2>7. Sign!Refresh(t, s)
      BY <1>1, <2>4, <2>5, <2>6 DEF Sign!Refresh
    <2>. QED BY <2>1, <2>7, SameRequests DEF Sign!Next
  <1>4. UNCHANGED <<tk, rt>> \/ Granted(t, rt[s].resource, f)
    BY RefreshType DEF SignInv, Inv
  <1>. QED BY <1>2, <1>3, <1>4

\* The user, the clock and a restart.
LEMMA WorldSign ==
  ASSUME SignInv, World
  PROVE  [Sign!Next]_(Sign!vars)
  <1>1. ASSUME NEW f \in Flows, Consent(f) PROVE Sign!Next
    <2>1. az[f] # None
      BY <1>1 DEF Consent, SignInv, Inv, Facts, FlowFacts
    <2>2. TermsMap[f] # None
      BY <2>1, TermsAreSet DEF SignInv, Inv, TypeInv
    <2>3. Sign!Consent(f)
      BY <1>1, <2>2, MapsStay DEF Consent, Sign!Consent
    <2>. QED BY <2>3 DEF Sign!Next
  <1>2. CASE Tick
    <2>1. Sign!Tick
      BY <1>2, MapsStay DEF Tick, Sign!Tick
    <2>. QED BY <2>1 DEF Sign!Next
  <1>3. ASSUME NEW c \in CimdClients, NEW d \in Documents, Publish(c, d) PROVE Sign!Next
    BY <1>3, PublishSign
  <1>4. ASSUME NEW config \in Configs, Restart(config) PROVE UNCHANGED Sign!vars
    BY <1>4, Stutter DEF Restart
  <1>5. CASE UNCHANGED vars
    BY <1>5, Stutter DEF vars
  <1>. QED BY <1>1, <1>2, <1>3, <1>4, <1>5 DEF World

\* Every step of the endpoints is a step of the sign-in, or none.
LEMMA StepSign == SignInv /\ [Next]_vars => [Sign!Next]_(Sign!vars)
  <1> SUFFICES ASSUME SignInv, [Next]_vars PROVE [Sign!Next]_(Sign!vars)
    OBVIOUS
  <1>1. ASSUME NEW f \in Flows, Authorize(f) PROVE [Sign!Next]_(Sign!vars)
    <2>1. AuthorizeOutcome(f)
      BY <1>1, AuthorizeType DEF SignInv, Inv
    <2>. QED BY <1>1, <2>1, AuthorizeSign DEF Authorize
  <1>2. ASSUME NEW f \in Flows, LoadDocument(f) PROVE [Sign!Next]_(Sign!vars)
    <2>1. AuthorizeOutcome(f)
      BY <1>2, LoadDocumentType DEF SignInv, Inv
    <2>. QED BY <1>2, <2>1, AuthorizeSign DEF LoadDocument
  <1>3. ASSUME NEW t \in Refreshes, HandleRefresh(t) PROVE UNCHANGED Sign!vars
    <2>1. /\ \A q \in TokenRequests : tk'[q].session = tk[q].session
          /\ \A q \in Redemptions : tk'[q] = tk[q]
      BY <1>3, HandleRefreshOutcome
    <2>2. UNCHANGED <<SessionMap, ProofMap>>
      BY <2>1 DEF SessionMap, ProofMap
    <2>. QED BY <1>3, <2>2, MapsStay DEF HandleRefresh, Sign!vars
  <1>4. CASE World
    BY <1>4, WorldSign
  <1>. QED BY <1>1, <1>2, <1>3, <1>4, RegisterSign, CallbackSign, HandleAuthCodeSign,
         RedeemSign, RefreshSign
    DEF Next, Arrive, Handle, World, Finished

\* The stateless endpoints implement the sign-in: although every envelope may be
\* repeated, mixed up and carried across restarts, a flow keeps its terms, one
\* consent yields one session to the verifier of that flow in time, and
\* renewals keep its resource (authorize.py, callback.py, token.py).
THEOREM FlowImplementsSignIn == Spec => ImplementsSignIn
  <1>1. Init => SignInv
    <2>1. Init => Inv
      BY InitType, InitFacts DEF Inv
    <2>2. Init => Pending
      BY Kinds DEF Init, Pending, NoToken
    <2>. QED BY <2>1, <2>2 DEF SignInv
  <1>. QED BY <1>1, InitSign, StepPending, StepSign, PTL
         DEF Spec, ImplementsSignIn, Sign!Spec
=============================================================================
