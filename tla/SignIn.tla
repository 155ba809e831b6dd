------------------------------- MODULE SignIn -------------------------------
(***************************************************************************)
(* What the interactive path promises a client, its user and the resource  *)
(* behind the proxy, with no envelope, key, configuration or restart in    *)
(* sight.  A flow is asked for on terms that never change: by a client,    *)
(* for a redirect URI that client allowed, a PKCE challenge and a          *)
(* resource.  The browser is sent to that URI, while the flow is young.    *)
(* The user's consent yields one session, to whoever presented the         *)
(* verifier of that flow's challenge in time, and a session is renewed for *)
(* the resource of its flow only.                                          *)
(*                                                                         *)
(* InteractiveFlow implements this specification.                          *)
(***************************************************************************)
EXTENDS Naturals

CONSTANTS
  Flows,         \* GET /authorize requests, and the sessions that come of them
  Callbacks,     \* GET /callback requests
  Redemptions,   \* POST /token requests, authorization_code
  Refreshes,     \* POST /token requests, refresh_token
  Clients,
  Uris,          \* redirect URIs
  Acceptable,    \* those a client may allow
  Matches(_, _), \* whether a requested URI is covered by an allowed one
  Secrets,       \* PKCE verifiers, and their challenges
  Resources,
  StateTtl,      \* how long a flow's browser is sent on
  CodeTtl,       \* how long, after that, its verifier may be presented
  None

TokenRequests == Redemptions \cup Refreshes

VARIABLES
  now,      \* the time
  allowed,  \* the redirect URIs a client has allowed so far
  terms,    \* what a flow was asked for
  code,     \* the consent to a flow: none, issued, used
  sentTo,   \* where a callback sent the browser
  proof,    \* the verifier a redemption presented, and when
  session,  \* the flow whose tokens a token request got
  renewal   \* the session a token request may renew, and its resource

vars == <<now, allowed, terms, code, sentTo, proof, session, renewal>>

Init ==
  /\ now = 0
  /\ allowed \in [Clients -> SUBSET Acceptable]
  /\ terms = [f \in Flows |-> None]
  /\ code = [f \in Flows |-> "none"]
  /\ sentTo = [b \in Callbacks |-> None]
  /\ proof = [t \in Redemptions |-> None]
  /\ session = [t \in TokenRequests |-> None]
  /\ renewal = [t \in TokenRequests |-> None]

-----------------------------------------------------------------------------

Allow(c, uris) ==
  /\ allowed' = [allowed EXCEPT ![c] = @ \cup uris]
  /\ UNCHANGED <<now, terms, code, sentTo, proof, session, renewal>>

Ask(f, c, uri, challenge, resource) ==
  /\ terms[f] = None
  /\ \E u \in allowed[c] : Matches(uri, u)
  /\ terms' = [terms EXCEPT ![f] =
       [client |-> c, uri |-> uri, challenge |-> challenge, resource |-> resource,
        at |-> now]]
  /\ UNCHANGED <<now, allowed, code, sentTo, proof, session, renewal>>

Consent(f) ==
  /\ terms[f] # None /\ code[f] = "none"
  /\ code' = [code EXCEPT ![f] = "issued"]
  /\ UNCHANGED <<now, allowed, terms, sentTo, proof, session, renewal>>

SendOn(b, f) ==
  /\ sentTo[b] = None
  /\ terms[f] # None
  /\ now <= terms[f].at + StateTtl
  /\ sentTo' = [sentTo EXCEPT ![b] = terms[f].uri]
  /\ UNCHANGED <<now, allowed, terms, code, proof, session, renewal>>

-----------------------------------------------------------------------------

Present(t, secret) ==
  /\ proof[t] = None
  /\ proof' = [proof EXCEPT ![t] = [secret |-> secret, at |-> now]]
  /\ UNCHANGED <<now, allowed, terms, code, sentTo, session, renewal>>

\* t gets the tokens of flow f, and perhaps the means to renew them.
Grant(t, f) ==
  /\ session[t] = None
  /\ session' = [session EXCEPT ![t] = f]
  /\ \/ UNCHANGED renewal
     \/ renewal' = [renewal EXCEPT ![t] = [session |-> f, resource |-> terms[f].resource]]

\* One session for one consent, for the verifier of the flow consented to.
Redeem(t, f) ==
  /\ code[f] = "issued"
  /\ proof[t] # None
  /\ proof[t].secret = terms[f].challenge
  /\ proof[t].at < terms[f].at + StateTtl + CodeTtl
  /\ code' = [code EXCEPT ![f] = "used"]
  /\ Grant(t, f)
  /\ UNCHANGED <<now, allowed, terms, sentTo, proof>>

Refresh(t, s) ==
  /\ renewal[s] # None
  /\ Grant(t, renewal[s].session)
  /\ UNCHANGED <<now, allowed, terms, code, sentTo, proof>>

Tick ==
  /\ now' = now + 1
  /\ UNCHANGED <<allowed, terms, code, sentTo, proof, session, renewal>>

Next ==
  \/ \E c \in Clients, uris \in SUBSET Acceptable : Allow(c, uris)
  \/ \E f \in Flows, c \in Clients, uri \in Uris, challenge \in Secrets, resource \in Resources :
       Ask(f, c, uri, challenge, resource)
  \/ \E f \in Flows : Consent(f)
  \/ \E b \in Callbacks, f \in Flows : SendOn(b, f)
  \/ \E t \in Redemptions, secret \in Secrets : Present(t, secret)
  \/ \E t \in Redemptions, f \in Flows : Redeem(t, f)
  \/ \E t \in Refreshes, s \in TokenRequests : Refresh(t, s)
  \/ Tick

Spec == Init /\ [][Next]_vars
=============================================================================
