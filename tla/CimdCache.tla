----------------------------- MODULE CimdCache ------------------------------
(***************************************************************************)
(* Client ID metadata documents of cimd-proxy: CimdService.obtain          *)
(* (cimd_service.py) over the TTL cache (cache.py) and the pinned fetch    *)
(* (fetcher.py).  obtain runs without an await from the cache lookup       *)
(* through the DNS check up to the GET, and again from the last byte of    *)
(* the response to the put; in between, other requests, the origin that    *)
(* publishes the document, DNS and the clock move.  There is no            *)
(* single-flight: two requests that miss fetch independently.              *)
(* Everything the proxy keeps here is in memory, so a restart is Init.     *)
(***************************************************************************)
EXTENDS Integers, Sequences

CONSTANTS
  Requests,      \* calls of obtain
  Clients,       \* client_id values: URLs starting with https://
  WellFormed,    \* those parse_client_id_url admits
  Addresses,     \* IP addresses
  Forbidden,     \* private, loopback, link-local, reserved, multicast, unspecified
  Uris,          \* redirect_uris entries
  Usable,        \* those accept_registered passes
  Headers,       \* Cache-Control headers an origin may send; None: no header
  Versions,      \* names of what an origin publishes over time
  Answers,       \* the answers an origin may give
  Records,       \* address sets a name may resolve to
  MinTtl, MaxTtl, \* CIMD_CACHE_TTL_MIN, CIMD_CACHE_TTL_MAX
  MaxTime,       \* bound: the clock stops here
  MaxChanges,    \* bound: steps of origins and DNS
  None

\* A Cache-Control header, cut at its commas.  A max-age whose value is no
\* integer has value None; int() reads negative values as well.
Names == {"max-age", "no-store", "no-cache", "other"}
Directive == [name : Names, value : Int \cup {None}]

\* What an origin serves at a client_id URL.  ok: status 200, within
\* CIMD_MAX_BYTES, a JSON object; then its client_id, whether it carries a
\* client_secret or a symmetric auth method, and its redirect_uris.
Answer ==
  [ver : Versions, ok : BOOLEAN, clientId : Clients, secret : BOOLEAN,
   uris : SUBSET Uris, header : Headers]

\* CimdDocument, once validated.
CimdDocument ==
  [ver : Versions, clientId : Clients, uris : SUBSET Usable, header : Headers]

Entry == [doc : CimdDocument, expires : Nat]

ASSUME CimdAssumption ==
  /\ WellFormed \subseteq Clients
  /\ Forbidden \subseteq Addresses
  /\ Usable \subseteq Uris
  /\ Headers \subseteq Seq(Directive) \cup {None}
  /\ Answers \subseteq Answer
  /\ Records \subseteq SUBSET Addresses
  /\ MinTtl \in Nat \ {0}
  /\ MaxTtl \in Nat
  /\ MinTtl <= MaxTtl
  /\ MaxTime \in Nat
  /\ MaxChanges \in Nat
  /\ None \notin Int \cup Clients \cup Addresses \cup Answer \cup CimdDocument \cup Entry
  /\ None \notin Seq(Directive)

VARIABLES
  now,      \* time.monotonic()
  entries,  \* TtlCache._entries
  origin,   \* what each client's URL serves now
  dns,      \* what each client's host name resolves to now
  changes,  \* steps of origins and DNS so far
  pc,       \* the await a request is suspended at
  client,   \* the argument of obtain
  pinned,   \* pinned_ip
  dialled,  \* the address the connection was opened to
  got,      \* the response read
  reply,    \* how obtain ended
  result,   \* the document obtain returned
  endedAt   \* when it returned it

world == <<origin, dns, changes>>
vars == <<now, entries, origin, dns, changes, pc, client, pinned, dialled,
          got, reply, result, endedAt>>

Init ==
  /\ now = 0
  /\ entries = [c \in Clients |-> None]
  /\ origin \in [WellFormed -> Answers]
  /\ dns \in [WellFormed -> Records]
  /\ changes = 0
  /\ pc = [r \in Requests |-> "idle"]
  /\ client = [r \in Requests |-> None]
  /\ pinned = [r \in Requests |-> None]
  /\ dialled = [r \in Requests |-> None]
  /\ got = [r \in Requests |-> None]
  /\ reply = [r \in Requests |-> "none"]
  /\ result = [r \in Requests |-> None]
  /\ endedAt = [r \in Requests |-> None]

-----------------------------------------------------------------------------
(* The TTL (choose_ttl). *)

Indices(h, names) == {i \in 1..Len(h) : h[i].name \in names}

\* _extract_max_age: the first max-age directive alone decides.
ExtractMaxAge(h) ==
  LET at == Indices(h, {"max-age"}) IN
  IF at = {} THEN None
  ELSE h[CHOOSE i \in at : \A j \in at : i <= j].value

\* No default_ttl is ever passed, so every other base is min_ttl.
BaseFromDirective(h) ==
  IF ExtractMaxAge(h) # None THEN ExtractMaxAge(h) ELSE MinTtl

AtLeast(low, n) == IF n < low THEN low ELSE n
AtMost(high, n) == IF n > high THEN high ELSE n

Mutant_ChooseTtl_NoMax(h) ==
  IF h = None THEN MinTtl ELSE AtLeast(MinTtl, BaseFromDirective(h))
Mutant_ChooseTtl_NoMin(h) ==
  IF h = None THEN MinTtl ELSE AtMost(MaxTtl, BaseFromDirective(h))
ChooseTtl(h) ==
  LET base == IF h = None THEN MinTtl ELSE BaseFromDirective(h)
  IN  AtLeast(MinTtl, AtMost(MaxTtl, base))

-----------------------------------------------------------------------------
(* The cache (TtlCache). *)

Hit(c) == entries[c] # None /\ entries[c].expires > now

\* get: the entries it leaves behind; an expired one is popped.
AfterGet(c) == IF Hit(c) THEN entries ELSE [entries EXCEPT ![c] = None]

Mutant_Put(c, doc, ttl) ==
  IF Hit(c) THEN entries
  ELSE [entries EXCEPT ![c] = [doc |-> doc, expires |-> now + ttl]]
\* put: a ttl that is not positive stores nothing; any older entry is replaced.
Put(c, doc, ttl) ==
  IF ttl <= 0 THEN entries
  ELSE [entries EXCEPT ![c] = [doc |-> doc, expires |-> now + ttl]]

-----------------------------------------------------------------------------
(* The document (validate_document). *)

Mutant_UsableRedirectUris(uris) == uris
UsableRedirectUris(uris) == uris \cap Usable

Mutant_ValidateDocument(c, a) == a.ok /\ a.clientId = c /\ ~a.secret
ValidateDocument(c, a) ==
  /\ a.ok
  /\ a.clientId = c
  /\ ~a.secret
  /\ UsableRedirectUris(a.uris) # {}

Document(a) ==
  [ver |-> a.ver, clientId |-> a.clientId, uris |-> UsableRedirectUris(a.uris),
   header |-> a.header]

-----------------------------------------------------------------------------
(* obtain. *)

End(r, code) ==
  /\ pc' = [pc EXCEPT ![r] = "done"]
  /\ reply' = [reply EXCEPT ![r] = code]

Return(r, code, doc) ==
  /\ End(r, code)
  /\ result' = [result EXCEPT ![r] = doc]
  /\ endedAt' = [endedAt EXCEPT ![r] = now]

\* resolve_and_check_ips: one forbidden address refuses the name.
Safe(ips) == ips # {} /\ ips \cap Forbidden = {}

\* A hit returns at once, without touching the network.
ObtainHit(r, c) ==
  /\ Hit(c)
  /\ Return(r, "hit", entries[c].doc)
  /\ UNCHANGED pinned

\* parse_client_id_url or resolve_and_check_ips raises SSRFRefused.
ObtainRefused(r, c) ==
  /\ ~Hit(c)
  /\ ~(c \in WellFormed /\ Safe(dns[c]))
  /\ End(r, "refused")
  /\ UNCHANGED <<pinned, result, endedAt>>

\* A miss: the checked address getaddrinfo listed first is pinned.
ObtainMiss(r, c) ==
  /\ ~Hit(c)
  /\ c \in WellFormed /\ Safe(dns[c])
  /\ \E ip \in dns[c] : pinned' = [pinned EXCEPT ![r] = ip]
  /\ pc' = [pc EXCEPT ![r] = "dial"]
  /\ UNCHANGED <<reply, result, endedAt>>

Obtain(r) ==
  /\ pc[r] = "idle"
  /\ \E c \in Clients :
       /\ client' = [client EXCEPT ![r] = c]
       /\ entries' = AfterGet(c)
       /\ ObtainHit(r, c) \/ ObtainRefused(r, c) \/ ObtainMiss(r, c)
  /\ UNCHANGED <<now, world, dialled, got>>

\* The address connected to: the URL names the pinned address, redirects are
\* not followed.
Mutant_Dialled(r) == dns[client[r]]
Dialled(r) == {pinned[r]}

\* _fetch_pinned connects and the origin answers with what it serves now; or
\* the connection fails or times out.
Connect(r) ==
  /\ pc[r] = "dial"
  /\ \/ End(r, "fetch_error") /\ UNCHANGED <<dialled, got>>
     \/ /\ \E ip \in Dialled(r) : dialled' = [dialled EXCEPT ![r] = ip]
        /\ got' = [got EXCEPT ![r] = origin[client[r]]]
        /\ pc' = [pc EXCEPT ![r] = "read"]
        /\ UNCHANGED reply
  /\ UNCHANGED <<now, entries, world, client, pinned, result, endedAt>>

\* The body has been read, or reading it failed; validate, put, return.
Finish(r) ==
  /\ pc[r] = "read"
  /\ LET c == client[r]
         a == got[r] IN
       \/ /\ End(r, "fetch_error")
          /\ UNCHANGED <<entries, result, endedAt>>
       \/ /\ ~ValidateDocument(c, a)
          /\ End(r, "invalid")
          /\ UNCHANGED <<entries, result, endedAt>>
       \/ /\ ValidateDocument(c, a)
          /\ entries' = Put(c, Document(a), ChooseTtl(a.header))
          /\ Return(r, "fetched", Document(a))
  /\ UNCHANGED <<now, world, client, pinned, dialled, got>>

-----------------------------------------------------------------------------
(* The surroundings. *)

Tick ==
  /\ now < MaxTime
  /\ now' = now + 1
  /\ UNCHANGED <<entries, world, pc, client, pinned, dialled, got, reply, result, endedAt>>

Publish(c, a) ==
  /\ changes < MaxChanges
  /\ changes' = changes + 1
  /\ origin' = [origin EXCEPT ![c] = a]
  /\ UNCHANGED <<now, entries, dns, pc, client, pinned, dialled, got, reply, result, endedAt>>

Rebind(c, ips) ==
  /\ changes < MaxChanges
  /\ changes' = changes + 1
  /\ dns' = [dns EXCEPT ![c] = ips]
  /\ UNCHANGED <<now, entries, origin, pc, client, pinned, dialled, got, reply, result, endedAt>>

Finished == (\A r \in Requests : pc[r] = "done") /\ UNCHANGED vars

Next ==
  \/ \E r \in Requests : Obtain(r) \/ Connect(r) \/ Finish(r)
  \/ Tick
  \/ \E c \in WellFormed, a \in Answers : Publish(c, a)
  \/ \E c \in WellFormed, ips \in Records : Rebind(c, ips)
  \/ Finished

Spec == Init /\ [][Next]_vars

-----------------------------------------------------------------------------
(* Properties. *)

\* Type invariant: a stored or returned document carries usable redirect URIs
\* only (validate_document, _usable_redirect_uris).
TypeOK ==
  /\ now \in Nat
  /\ entries \in [Clients -> Entry \cup {None}]
  /\ origin \in [WellFormed -> Answers]
  /\ dns \in [WellFormed -> Records]
  /\ changes \in Nat
  /\ pc \in [Requests -> {"idle", "dial", "read", "done"}]
  /\ client \in [Requests -> Clients \cup {None}]
  /\ pinned \in [Requests -> Addresses \cup {None}]
  /\ dialled \in [Requests -> Addresses \cup {None}]
  /\ got \in [Requests -> Answers \cup {None}]
  /\ reply \in [Requests ->
       {"none", "hit", "refused", "fetch_error", "invalid", "fetched"}]
  /\ result \in [Requests -> CimdDocument \cup {None}]
  /\ endedAt \in [Requests -> Nat \cup {None}]

\* A bad client stays fixable (cimd_service.py: "a stored malformed document
\* would render a bad client permanently un-fixable"): whatever is stored under
\* a client_id is the validated form of an answer some request read from that
\* client's own URL, and it names a redirect URI the client can use.
OnlyValidatedCached ==
  \A c \in Clients :
    entries[c] # None =>
      /\ entries[c].doc.clientId = c
      /\ entries[c].doc.uris # {}
      /\ c \in WellFormed
      /\ \E r \in Requests :
           client[r] = c /\ got[r] # None /\ entries[c].doc = Document(got[r])

\* The fetch cannot be turned into an internal probe (fetcher.py): although a
\* name may resolve anew between the check and the connection, no connection is
\* opened to a forbidden address.
DialsOnlyChecked == \A r \in Requests : dialled[r] \notin Forbidden

\* A cached document is at most CIMD_CACHE_TTL_MAX old: a hit returns what some
\* fetch of that client returned less than max_ttl before, however late an
\* overtaken fetch overwrote a newer document and whatever the origin's header
\* says (TtlCache.get, put, choose_ttl).
HitIsRecent ==
  \A r \in Requests :
    reply[r] = "hit" =>
      \E f \in Requests :
        /\ reply[f] = "fetched"
        /\ client[f] = client[r]
        /\ result[f] = result[r]
        /\ endedAt[f] <= endedAt[r]
        /\ endedAt[r] < endedAt[f] + MaxTtl

\* An origin cannot "pin us in per-request-fetch mode" (choose_ttl): once a
\* fetch of a client has returned, no request starts another one for min_ttl,
\* whatever header the document came with and whichever fetches overtake each
\* other.
StartsFetch(r) == pc[r] = "idle" /\ pc'[r] = "dial"
FetchesSpaced ==
  [][\A r, f \in Requests :
       StartsFetch(r) /\ reply[f] = "fetched" /\ client[f] = client'[r]
         => now >= endedAt[f] + MinTtl]_vars

\* Callers see a document source, not a cache: whichever fetches overtake each
\* other, a hit is the repeat of the fetch of that client answered last (put
\* replaces any older entry), within max_ttl of it, and for min_ttl after a
\* fetch a request is neither refused nor fetched anew, though DNS or the origin
\* would fail it by now.
Stage(r) ==
  CASE pc[r] = "idle" -> "idle"
    [] pc[r] = "dial" -> "asking"
    [] pc[r] = "read" -> "reading"
    [] OTHER -> CASE reply[r] = "hit" -> "repeated"
                  [] reply[r] = "fetched" -> "fetched"
                  [] OTHER -> "denied"
StageMap == [r \in Requests |-> Stage(r)]
Source == INSTANCE DocumentSource WITH
  Valid <- ValidateDocument, stage <- StageMap, read <- got
ImplementsDocumentSource == Source!Spec

-----------------------------------------------------------------------------
(* What the repository says and the code does not do. *)

\* choose_ttl: "A no-store or no-cache directive forces the TTL to min_ttl".
NoStoreForcesMin ==
  \A c \in Clients :
    entries[c] # None /\ entries[c].doc.header # None
      /\ Indices(entries[c].doc.header, {"no-store", "no-cache"}) # {}
    => entries[c].expires <= now + MinTtl
=============================================================================
