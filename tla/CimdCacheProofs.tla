-------------------------- MODULE CimdCacheProofs ---------------------------
(***************************************************************************)
(* Theorems about CimdCache, for every set of clients, requests, addresses *)
(* and headers and every pair of TTL bounds the configuration admits.      *)
(***************************************************************************)
EXTENDS CimdCache, TLAPS, WellFoundedInduction

-----------------------------------------------------------------------------
(* The TTL. *)

\* A non-empty set of indices has a least one.
LEMMA LeastIndex ==
  ASSUME NEW S \in SUBSET Nat, S # {}
  PROVE  \E i \in S : \A j \in S : i <= j
  <1>1. PICK i \in S : \A j \in S : ~(<<j, i>> \in OpToRel(<, Nat))
    BY NatLessThanWellFounded, WFMin
  <1>2. \A j \in S : ~(j < i)
    BY <1>1 DEF OpToRel
  <1>. QED BY <1>2

\* _extract_max_age yields an integer or nothing.
LEMMA MaxAgeType ==
  ASSUME NEW h \in Seq(Directive)
  PROVE  ExtractMaxAge(h) \in Int \cup {None}
  <1> DEFINE at == Indices(h, {"max-age"})
  <1>1. at \in SUBSET Nat /\ \A i \in at : h[i] \in Directive
    BY DEF Indices
  <1>2. CASE at = {}
    BY <1>2 DEF ExtractMaxAge
  <1>3. CASE at # {}
    <2> DEFINE first == CHOOSE i \in at : \A j \in at : i <= j
    <2>1. \E i \in at : \A j \in at : i <= j
      BY <1>1, <1>3, LeastIndex
    <2>2. first \in at
      BY <2>1
    <2>3. h[first].value \in Int \cup {None}
      BY <1>1, <2>2 DEF Directive
    <2>. QED BY <1>3, <2>3 DEF ExtractMaxAge
  <1>. QED BY <1>2, <1>3

\* Whatever the header says, the TTL lies between the configured bounds.
THEOREM TtlWithinBounds ==
  ASSUME NEW h \in Headers
  PROVE  ChooseTtl(h) \in Nat /\ MinTtl <= ChooseTtl(h) /\ ChooseTtl(h) <= MaxTtl
  <1> DEFINE base == IF h = None THEN MinTtl ELSE BaseFromDirective(h)
  <1>1. base \in Int
    BY MaxAgeType, CimdAssumption DEF CimdAssumption, BaseFromDirective
  <1>2. ChooseTtl(h) = AtLeast(MinTtl, AtMost(MaxTtl, base))
    BY DEF ChooseTtl
  <1> HIDE DEF base
  <1>. QED BY <1>1, <1>2, CimdAssumption DEF CimdAssumption, AtLeast, AtMost

-----------------------------------------------------------------------------
(* Types, and what a request under way holds. *)

\* A fetch under way is of an admitted URL and of a checked address; a request
\* that returned a document is over.
Held(r) ==
  /\ pc[r] = "idle" => reply[r] = "none"
  /\ pc[r] \in {"dial", "read"} =>
       client[r] \in WellFormed /\ pinned[r] \in Addresses \ Forbidden
  /\ pc[r] = "read" => got[r] \in Answers
  /\ reply[r] \in {"hit", "fetched"} =>
       /\ pc[r] = "done"
       /\ client[r] \in Clients
       /\ endedAt[r] \in Nat
       /\ endedAt[r] <= now
  /\ dialled[r] \notin Forbidden

TypeInv == TypeOK /\ \A r \in Requests : Held(r)

\* The first state is typed.
LEMMA InitType == Init => TypeInv
  BY CimdAssumption DEF CimdAssumption, Init, TypeInv, TypeOK, Held

\* A validated answer is a document with usable redirect URIs.
LEMMA DocumentType ==
  ASSUME NEW a \in Answers
  PROVE  Document(a) \in CimdDocument
  BY CimdAssumption DEF CimdAssumption, Answer, Document, CimdDocument, UsableRedirectUris

\* put keeps the cache typed.
LEMMA PutType ==
  ASSUME TypeOK, NEW c \in Clients, NEW doc \in CimdDocument, NEW ttl \in Nat
  PROVE  Put(c, doc, ttl) \in [Clients -> Entry \cup {None}]
  BY DEF TypeOK, Put, Entry

\* get keeps the cache typed.
LEMMA GetType ==
  ASSUME TypeOK, NEW c \in Clients
  PROVE  AfterGet(c) \in [Clients -> Entry \cup {None}]
  BY DEF TypeOK, AfterGet

\* A call of obtain keeps the types, whichever way it goes.
LEMMA ObtainType ==
  ASSUME TypeInv, NEW r \in Requests, Obtain(r)
  PROVE  TypeInv'
  <1>1. PICK c \in Clients :
          /\ client' = [client EXCEPT ![r] = c]
          /\ entries' = AfterGet(c)
          /\ ObtainHit(r, c) \/ ObtainRefused(r, c) \/ ObtainMiss(r, c)
    BY DEF Obtain
  <1>2. entries' \in [Clients -> Entry \cup {None}]
    BY <1>1, GetType DEF TypeInv
  <1>3. pc[r] = "idle" /\ UNCHANGED <<now, origin, dns, changes, dialled, got>>
    BY DEF Obtain, world
  <1>4. CASE ObtainHit(r, c)
    <2>1. entries[c].doc \in CimdDocument
      BY <1>4 DEF ObtainHit, Hit, TypeInv, TypeOK, Entry
    <2>. QED BY <1>1, <1>2, <1>3, <1>4, <2>1
           DEF ObtainHit, Return, End, TypeInv, TypeOK, Held
  <1>5. CASE ObtainRefused(r, c)
    BY <1>1, <1>2, <1>3, <1>5 DEF ObtainRefused, End, TypeInv, TypeOK, Held
  <1>6. CASE ObtainMiss(r, c)
    <2>1. PICK ip \in dns[c] : pinned' = [pinned EXCEPT ![r] = ip]
      BY <1>6 DEF ObtainMiss
    <2>2. ip \in Addresses \ Forbidden /\ c \in WellFormed
      BY <1>6, <2>1, CimdAssumption DEF ObtainMiss, Safe, CimdAssumption, TypeInv, TypeOK
    <2>. QED BY <1>1, <1>2, <1>3, <1>6, <2>1, <2>2 DEF ObtainMiss, TypeInv, TypeOK, Held
  <1>. QED BY <1>1, <1>4, <1>5, <1>6

\* A connection goes to the pinned address, which was checked.
LEMMA ConnectType ==
  ASSUME TypeInv, NEW r \in Requests, Connect(r)
  PROVE  TypeInv'
  <1>1. /\ pc[r] = "dial"
        /\ client[r] \in WellFormed
        /\ pinned[r] \in Addresses \ Forbidden
        /\ UNCHANGED <<now, entries, origin, dns, changes, client, pinned, result, endedAt>>
    BY DEF Connect, TypeInv, Held, world
  <1>2. CASE End(r, "fetch_error") /\ UNCHANGED <<dialled, got>>
    BY <1>1, <1>2 DEF End, TypeInv, TypeOK, Held
  <1>3. CASE /\ dialled' = [dialled EXCEPT ![r] = pinned[r]]
             /\ got' = [got EXCEPT ![r] = origin[client[r]]]
             /\ pc' = [pc EXCEPT ![r] = "read"]
             /\ UNCHANGED reply
    BY <1>1, <1>3 DEF TypeInv, TypeOK, Held
  <1>. QED BY <1>2, <1>3 DEF Connect, Dialled

\* The end of a fetch.
LEMMA FinishType ==
  ASSUME TypeInv, NEW r \in Requests, Finish(r)
  PROVE  TypeInv'
  <1>1. pc[r] = "read" /\ client[r] \in Clients /\ got[r] \in Answers
    BY CimdAssumption DEF Finish, TypeInv, Held, CimdAssumption
  <1>2. Document(got[r]) \in CimdDocument
    BY <1>1, DocumentType
  <1>3. ChooseTtl(got[r].header) \in Nat
    BY <1>1, TtlWithinBounds, CimdAssumption DEF CimdAssumption, Answer
  <1>4. entries' \in [Clients -> Entry \cup {None}]
    BY <1>1, <1>2, <1>3, PutType DEF Finish, TypeInv, TypeOK
  <1>. QED BY <1>1, <1>2, <1>4 DEF Finish, Return, End, TypeInv, TypeOK, Held, world

\* The surroundings keep the types.
LEMMA WorldType ==
  ASSUME TypeInv,
         \/ Tick
         \/ \E c \in WellFormed, a \in Answers : Publish(c, a)
         \/ \E c \in WellFormed, ips \in Records : Rebind(c, ips)
  PROVE  TypeInv'
  <1>1. CASE Tick
    BY <1>1 DEF Tick, TypeInv, TypeOK, Held, world
  <1>2. CASE \E c \in WellFormed, a \in Answers : Publish(c, a)
    BY <1>2 DEF Publish, TypeInv, TypeOK, Held
  <1>3. CASE \E c \in WellFormed, ips \in Records : Rebind(c, ips)
    BY <1>3 DEF Rebind, TypeInv, TypeOK, Held
  <1>. QED BY <1>1, <1>2, <1>3

\* Every step keeps the types.
LEMMA StepType == TypeInv /\ [Next]_vars => TypeInv'
  <1> SUFFICES ASSUME TypeInv, [Next]_vars PROVE TypeInv'
    OBVIOUS
  <1>1. CASE UNCHANGED vars
    BY <1>1 DEF vars, TypeInv, TypeOK, Held
  <1>2. CASE \E r \in Requests : Obtain(r) \/ Connect(r) \/ Finish(r)
    BY <1>2, ObtainType, ConnectType, FinishType
  <1>3. CASE Tick \/ (\E c \in WellFormed, a \in Answers : Publish(c, a))
               \/ (\E c \in WellFormed, ips \in Records : Rebind(c, ips))
    BY <1>3, WorldType
  <1>. QED BY <1>1, <1>2, <1>3 DEF Next, Finished

\* The type invariant holds in every reachable state.
THEOREM TypeCorrect == Spec => []TypeOK
  <1>1. TypeInv => TypeOK
    BY DEF TypeInv
  <1>. QED BY <1>1, InitType, StepType, PTL DEF Spec

\* No connection is opened to a forbidden address (CimdFetcher.fetch pins what
\* resolve_and_check_ips let through).
THEOREM OnlyCheckedDialled == Spec => []DialsOnlyChecked
  <1>1. TypeInv => DialsOnlyChecked
    BY DEF TypeInv, Held, DialsOnlyChecked
  <1>. QED BY <1>1, InitType, StepType, PTL DEF Spec

-----------------------------------------------------------------------------
(* What the cache holds. *)

\* Request f fetched doc for client c and returned it.
FetchedBy(f, c, doc) ==
  /\ reply[f] = "fetched"
  /\ client[f] = c
  /\ result[f] = doc
  /\ got[f] \in Answers
  /\ doc = Document(got[f])

\* No fetch of c was answered after f.
Last(f, c) ==
  \A g \in Requests : reply[g] = "fetched" /\ client[g] = c => endedAt[g] <= endedAt[f]

\* An entry is what was fetched last, and expires within max_ttl of that fetch.
Backed(c) ==
  entries[c] # None =>
    /\ c \in WellFormed
    /\ entries[c].doc.clientId = c
    /\ entries[c].doc.uris # {}
    /\ \E f \in Requests :
         /\ FetchedBy(f, c, entries[c].doc)
         /\ entries[c].expires <= endedAt[f] + MaxTtl
         /\ Last(f, c)

\* A fetch younger than min_ttl has left an entry that is still good.
Fresh(f) ==
  reply[f] = "fetched" /\ now < endedAt[f] + MinTtl =>
    /\ entries[client[f]] # None
    /\ entries[client[f]].expires >= endedAt[f] + MinTtl

CacheInv ==
  /\ \A c \in Clients : Backed(c)
  /\ \A f \in Requests : Fresh(f)

\* A hit that was answered stands on a fetch that was answered.
RecentHit(r) ==
  reply[r] = "hit" =>
    \E f \in Requests :
      /\ reply[f] = "fetched"
      /\ client[f] = client[r]
      /\ result[f] = result[r]
      /\ endedAt[f] <= endedAt[r]
      /\ endedAt[r] < endedAt[f] + MaxTtl

Inv == TypeInv /\ CacheInv /\ \A r \in Requests : RecentHit(r)

\* Nothing has been cached or answered at the start.
LEMMA InitInv == Init => Inv
  <1> SUFFICES ASSUME Init PROVE Inv
    OBVIOUS
  <1>1. TypeInv
    BY InitType
  <1>2. CacheInv
    BY DEF Init, CacheInv, Backed, Fresh
  <1>3. \A r \in Requests : RecentHit(r)
    BY DEF Init, RecentHit
  <1>. QED BY <1>1, <1>2, <1>3 DEF Inv

\* Only the request that moves changes; a request that is over never does.
Others(r) ==
  \A f \in Requests \ {r} :
    /\ pc'[f] = pc[f]
    /\ reply'[f] = reply[f]
    /\ client'[f] = client[f]
    /\ result'[f] = result[f]
    /\ endedAt'[f] = endedAt[f]
    /\ got'[f] = got[f]

\* Steps of obtain move one request.
LEMMA OthersStay ==
  ASSUME TypeOK, NEW r \in Requests, Obtain(r) \/ Connect(r) \/ Finish(r)
  PROVE  Others(r) /\ pc[r] # "done" /\ now' = now
  BY DEF TypeOK, Others, Obtain, ObtainHit, ObtainRefused, ObtainMiss, Connect, Finish,
    Return, End

\* A fetch that was answered stays answered, so what stands on it stands.
LEMMA FetchStays ==
  ASSUME TypeInv, NEW r \in Requests, Others(r), pc[r] # "done",
         NEW f \in Requests, reply[f] = "fetched"
  PROVE  /\ f # r
         /\ reply'[f] = "fetched"
         /\ client'[f] = client[f]
         /\ result'[f] = result[f]
         /\ endedAt'[f] = endedAt[f]
         /\ got'[f] = got[f]
  BY DEF TypeInv, Held, Others

\* Hits answered before a step stay backed by their fetch.
LEMMA OldHitsStay ==
  ASSUME Inv, NEW r \in Requests, Others(r), pc[r] # "done",
         NEW h \in Requests \ {r}
  PROVE  RecentHit(h)'
  <1> SUFFICES ASSUME reply'[h] = "hit"
               PROVE  \E f \in Requests :
                        /\ reply'[f] = "fetched"
                        /\ client'[f] = client'[h]
                        /\ result'[f] = result'[h]
                        /\ endedAt'[f] <= endedAt'[h]
                        /\ endedAt'[h] < endedAt'[f] + MaxTtl
    BY DEF RecentHit
  <1>1. reply[h] = "hit" /\ client'[h] = client[h] /\ result'[h] = result[h]
        /\ endedAt'[h] = endedAt[h]
    BY DEF Others
  <1>2. PICK f \in Requests :
          /\ reply[f] = "fetched"
          /\ client[f] = client[h]
          /\ result[f] = result[h]
          /\ endedAt[f] <= endedAt[h]
          /\ endedAt[h] < endedAt[f] + MaxTtl
    BY <1>1 DEF Inv, RecentHit
  <1>3. reply'[f] = "fetched" /\ client'[f] = client[f] /\ result'[f] = result[f]
        /\ endedAt'[f] = endedAt[f]
    BY <1>2, FetchStays DEF Inv
  <1>. QED BY <1>1, <1>2, <1>3

\* An entry a step leaves alone stays backed, unless that step answers a fetch.
LEMMA BackedStays ==
  ASSUME Inv, NEW r \in Requests, Others(r), pc[r] # "done",
         NEW c \in Clients, entries'[c] = entries[c],
         reply'[r] # "fetched" \/ client'[r] # c
  PROVE  Backed(c)'
  <1> SUFFICES ASSUME entries[c] # None
               PROVE  /\ c \in WellFormed
                      /\ entries[c].doc.clientId = c
                      /\ entries[c].doc.uris # {}
                      /\ \E f \in Requests :
                           /\ FetchedBy(f, c, entries[c].doc)'
                           /\ entries[c].expires <= endedAt'[f] + MaxTtl
                           /\ Last(f, c)'
    BY DEF Backed, FetchedBy, Last
  <1>1. PICK f \in Requests :
          /\ FetchedBy(f, c, entries[c].doc)
          /\ entries[c].expires <= endedAt[f] + MaxTtl
          /\ Last(f, c)
    BY DEF Inv, CacheInv, Backed
  <1>2. FetchedBy(f, c, entries[c].doc)' /\ endedAt'[f] = endedAt[f]
    BY <1>1, FetchStays DEF Inv, FetchedBy
  <1>3. Last(f, c)'
    <2> SUFFICES ASSUME NEW g \in Requests, reply'[g] = "fetched", client'[g] = c
                 PROVE  endedAt'[g] <= endedAt'[f]
      BY DEF Last
    <2>1. g # r
      OBVIOUS
    <2>2. reply[g] = "fetched" /\ client[g] = c /\ endedAt'[g] = endedAt[g]
      BY <2>1 DEF Others
    <2>. QED BY <1>1, <1>2, <2>2 DEF Last
  <1>. QED BY <1>1, <1>2, <1>3 DEF Inv, CacheInv, Backed

\* obtain: the entry popped was no longer fresh, and a hit stands on the fetch
\* that backs the entry.
LEMMA ObtainInv ==
  ASSUME Inv, NEW r \in Requests, Obtain(r)
  PROVE  Inv'
  <1>1. TypeInv' /\ Others(r) /\ pc[r] = "idle" /\ reply[r] = "none" /\ now' = now
    BY ObtainType, OthersStay DEF Inv, TypeInv, Held, Obtain
  <1>2. PICK c \in Clients :
          /\ client' = [client EXCEPT ![r] = c]
          /\ entries' = AfterGet(c)
          /\ ObtainHit(r, c) \/ ObtainRefused(r, c) \/ ObtainMiss(r, c)
    BY DEF Obtain
  <1>3. \A d \in Clients : entries'[d] = entries[d] \/ (d = c /\ ~Hit(c) /\ entries'[d] = None)
    BY <1>2 DEF AfterGet, Inv, TypeInv, TypeOK
  <1>4. reply'[r] # "fetched"
    BY <1>1, <1>2 DEF ObtainHit, ObtainRefused, ObtainMiss, Return, End, Inv, TypeInv, TypeOK
  <1>5. ASSUME NEW d \in Clients PROVE Backed(d)'
    <2>1. CASE entries'[d] = entries[d]
      BY <1>1, <1>4, <2>1, BackedStays
    <2>2. CASE entries'[d] = None
      BY <2>2 DEF Backed
    <2>. QED BY <1>3, <2>1, <2>2
  <1>6. ASSUME NEW f \in Requests PROVE Fresh(f)'
    <2> SUFFICES ASSUME reply'[f] = "fetched", now < endedAt'[f] + MinTtl
                 PROVE  /\ entries'[client'[f]] # None
                        /\ entries'[client'[f]].expires >= endedAt'[f] + MinTtl
      BY <1>1 DEF Fresh
    <2>1. f # r /\ reply[f] = "fetched" /\ client'[f] = client[f] /\ endedAt'[f] = endedAt[f]
      BY <1>1, <1>4 DEF Others
    <2>2. /\ entries[client[f]] # None
          /\ entries[client[f]].expires >= endedAt[f] + MinTtl
          /\ client[f] \in Clients
          /\ endedAt[f] \in Nat
      BY <2>1 DEF Inv, CacheInv, Fresh, TypeInv, Held
    <2>3. entries[client[f]].expires > now
      BY <2>1, <2>2, CimdAssumption DEF CimdAssumption, Inv, TypeInv, TypeOK, Entry
    <2>4. entries'[client[f]] = entries[client[f]]
      BY <1>3, <2>2, <2>3 DEF Hit
    <2>. QED BY <2>1, <2>2, <2>4
  <1>7. ASSUME NEW h \in Requests PROVE RecentHit(h)'
    <2>1. CASE h # r
      BY <1>1, <2>1, OldHitsStay
    <2>2. CASE h = r /\ reply'[r] = "hit"
      <3>1. /\ Hit(c)
            /\ result'[r] = entries[c].doc
            /\ endedAt'[r] = now
            /\ client'[r] = c
        BY <1>1, <1>2, <2>2 DEF ObtainHit, ObtainRefused, ObtainMiss, Return, End,
          Inv, TypeInv, TypeOK
      <3>2. PICK f \in Requests :
              /\ FetchedBy(f, c, entries[c].doc)
              /\ entries[c].expires <= endedAt[f] + MaxTtl
        BY <3>1 DEF Inv, CacheInv, Backed, Hit
      <3>3. reply'[f] = "fetched" /\ client'[f] = c /\ result'[f] = entries[c].doc
            /\ endedAt'[f] = endedAt[f]
        BY <1>1, <3>2, FetchStays DEF FetchedBy, Inv
      <3>4. endedAt[f] \in Nat /\ endedAt[f] <= now /\ now < endedAt[f] + MaxTtl
        BY <3>1, <3>2, CimdAssumption
        DEF CimdAssumption, FetchedBy, Hit, Inv, TypeInv, TypeOK, Held, Entry
      <3>. QED BY <2>2, <3>1, <3>3, <3>4 DEF RecentHit
    <2>3. CASE h = r /\ reply'[r] # "hit"
      BY <2>3 DEF RecentHit
    <2>. QED BY <2>1, <2>2, <2>3
  <1>. QED BY <1>1, <1>5, <1>6, <1>7 DEF Inv, CacheInv

\* A connection leaves cache and answers alone.
LEMMA ConnectInv ==
  ASSUME Inv, NEW r \in Requests, Connect(r)
  PROVE  Inv'
  <1>1. TypeInv' /\ Others(r) /\ pc[r] = "dial" /\ now' = now /\ entries' = entries
    BY ConnectType, OthersStay DEF Inv, TypeInv, Connect
  <1>2. reply'[r] \notin {"hit", "fetched"}
    BY <1>1 DEF Connect, End, Inv, TypeInv, TypeOK, Held
  <1>3. \A c \in Clients : Backed(c)'
    BY <1>1, <1>2, BackedStays
  <1>4. \A f \in Requests : Fresh(f)'
    BY <1>1, <1>2 DEF Inv, CacheInv, Fresh, Others
  <1>5. \A h \in Requests : RecentHit(h)'
    <2> TAKE h \in Requests
    <2>1. CASE h = r
      BY <1>2, <2>1 DEF RecentHit
    <2>2. CASE h # r
      BY <1>1, <2>2, OldHitsStay
    <2>. QED BY <2>1, <2>2
  <1>. QED BY <1>1, <1>3, <1>4, <1>5 DEF Inv, CacheInv

\* The put: the new entry is backed by the fetch that ends here, and outlives
\* the freshness of every earlier fetch of the client.
LEMMA FinishInv ==
  ASSUME Inv, NEW r \in Requests, Finish(r)
  PROVE  Inv'
  <1>1. TypeInv' /\ Others(r) /\ pc[r] = "read" /\ now' = now
    BY FinishType, OthersStay DEF Inv, TypeInv, Finish
  <1>2. /\ client[r] \in Clients /\ client[r] \in WellFormed
        /\ got[r] \in Answers
        /\ client' = client /\ got' = got
        /\ reply[r] \notin {"hit", "fetched"}
    BY <1>1, CimdAssumption DEF Finish, Inv, TypeInv, Held, CimdAssumption
  <1> DEFINE c == client[r]
             doc == Document(got[r])
             ttl == ChooseTtl(got[r].header)
  <1>3. ASSUME NEW h \in Requests, reply'[r] # "hit" PROVE RecentHit(h)'
    <2>1. CASE h = r
      BY <1>3, <2>1 DEF RecentHit
    <2>2. CASE h # r
      BY <1>1, <2>2, OldHitsStay
    <2>. QED BY <2>1, <2>2
  <1>4. CASE entries' = entries /\ reply'[r] \notin {"hit", "fetched"}
    <2>1. \A d \in Clients : Backed(d)'
      BY <1>1, <1>4, BackedStays
    <2>2. \A f \in Requests : Fresh(f)'
      BY <1>1, <1>2, <1>4 DEF Inv, CacheInv, Fresh, Others
    <2>. QED BY <1>1, <1>3, <1>4, <2>1, <2>2 DEF Inv, CacheInv
  <1>5. CASE /\ ValidateDocument(c, got[r])
             /\ entries' = Put(c, doc, ttl)
             /\ Return(r, "fetched", doc)
    <2>1. ttl \in Nat /\ MinTtl <= ttl /\ ttl <= MaxTtl
      BY <1>2, TtlWithinBounds, CimdAssumption DEF CimdAssumption, Answer
    <2>2. ttl > 0 /\ now \in Nat
      BY <2>1, CimdAssumption DEF CimdAssumption, Inv, TypeInv, TypeOK
    <2>3. entries' = [entries EXCEPT ![c] = [doc |-> doc, expires |-> now + ttl]]
      BY <1>5, <2>1, <2>2 DEF Put
    <2>4. entries'[c] = [doc |-> doc, expires |-> now + ttl] /\ entries'[c] # None
      <3>1. [doc |-> doc, expires |-> now + ttl] \in Entry
        BY <1>2, <2>1, <2>2, DocumentType DEF Entry
      <3>. QED BY <1>2, <2>3, <3>1, CimdAssumption
             DEF CimdAssumption, Inv, TypeInv, TypeOK
    <2>5. reply'[r] = "fetched" /\ result'[r] = doc /\ endedAt'[r] = now
      BY <1>5 DEF Return, End, Inv, TypeInv, TypeOK
    <2>6. ASSUME NEW d \in Clients PROVE Backed(d)'
      <3>1. CASE d # c
        <4>1. entries'[d] = entries[d]
          BY <2>3, <3>1 DEF Inv, TypeInv, TypeOK
        <4>. QED BY <1>1, <1>2, <3>1, <4>1, BackedStays
      <3>2. CASE d = c
        <4>1. doc.clientId = c /\ doc.uris # {}
          BY <1>5 DEF ValidateDocument, Document
        <4>2. FetchedBy(r, c, doc)'
          BY <1>2, <2>5 DEF FetchedBy
        <4>3. entries'[c].expires <= endedAt'[r] + MaxTtl
          BY <2>1, <2>2, <2>4, <2>5, CimdAssumption DEF CimdAssumption
        <4>4. entries'[c].doc = doc
          BY <2>4
        <4>5. Last(r, c)'
          BY <1>1, <2>5 DEF Last, TypeInv, Held
        <4>. QED BY <1>2, <3>2, <4>1, <4>2, <4>3, <4>4, <4>5 DEF Backed, FetchedBy, Last
      <3>. QED BY <3>1, <3>2
    <2>7. ASSUME NEW f \in Requests PROVE Fresh(f)'
      <3> SUFFICES ASSUME reply'[f] = "fetched", now < endedAt'[f] + MinTtl
                   PROVE  /\ entries'[client[f]] # None
                          /\ entries'[client[f]].expires >= endedAt'[f] + MinTtl
        BY <1>1, <1>2 DEF Fresh
      <3>1. f # r => reply[f] = "fetched" /\ endedAt'[f] = endedAt[f]
        BY <1>1 DEF Others
      <3>2. endedAt'[f] \in Nat /\ endedAt'[f] <= now /\ client[f] \in Clients
        BY <1>1, <1>2 DEF TypeInv, Held
      <3>3. CASE client[f] = c
        BY <2>1, <2>2, <2>4, <3>2, <3>3, CimdAssumption DEF CimdAssumption
      <3>4. CASE client[f] # c
        <4>1. entries'[client[f]] = entries[client[f]]
          BY <2>3, <3>2, <3>4 DEF Inv, TypeInv, TypeOK
        <4>. QED BY <3>1, <3>4, <4>1 DEF Inv, CacheInv, Fresh
      <3>. QED BY <3>3, <3>4
    <2>. QED BY <1>1, <1>3, <2>5, <2>6, <2>7 DEF Inv, CacheInv
  <1>. QED BY <1>1, <1>2, <1>4, <1>5 DEF Finish, End, Inv, TypeInv, TypeOK

\* The surroundings touch neither cache nor answers; time only ends freshness.
LEMMA WorldInv ==
  ASSUME Inv,
         \/ Tick
         \/ \E c \in WellFormed, a \in Answers : Publish(c, a)
         \/ \E c \in WellFormed, ips \in Records : Rebind(c, ips)
  PROVE  Inv'
  <1>1. TypeInv'
    BY WorldType DEF Inv
  <1>2. /\ UNCHANGED <<entries, pc, client, got, reply, result, endedAt>>
        /\ now' \in Nat /\ now <= now'
    BY DEF Tick, Publish, Rebind, Inv, TypeInv, TypeOK
  <1>3. \A c \in Clients : Backed(c)'
    BY <1>2 DEF Inv, CacheInv, Backed, FetchedBy, Last
  <1>4. ASSUME NEW f \in Requests PROVE Fresh(f)'
    <2>1. reply[f] = "fetched" => endedAt[f] \in Nat
      BY DEF Inv, TypeInv, Held
    <2>. QED BY <1>2, <2>1, CimdAssumption
           DEF CimdAssumption, Inv, CacheInv, Fresh, TypeInv, TypeOK
  <1>5. \A h \in Requests : RecentHit(h)'
    BY <1>2 DEF Inv, RecentHit
  <1>. QED BY <1>1, <1>3, <1>4, <1>5 DEF Inv, CacheInv

\* Every step keeps the invariant.
LEMMA StepInv == Inv /\ [Next]_vars => Inv'
  <1> SUFFICES ASSUME Inv, [Next]_vars PROVE Inv'
    OBVIOUS
  <1>1. CASE UNCHANGED vars
    <2>1. TypeInv'
      BY <1>1, StepType DEF Inv
    <2>. QED BY <1>1, <2>1 DEF vars, Inv, CacheInv, Backed, FetchedBy, Last, Fresh, RecentHit
  <1>2. CASE \E r \in Requests : Obtain(r) \/ Connect(r) \/ Finish(r)
    BY <1>2, ObtainInv, ConnectInv, FinishInv
  <1>3. CASE Tick \/ (\E c \in WellFormed, a \in Answers : Publish(c, a))
               \/ (\E c \in WellFormed, ips \in Records : Rebind(c, ips))
    BY <1>3, WorldInv
  <1>. QED BY <1>1, <1>2, <1>3 DEF Next, Finished

-----------------------------------------------------------------------------
(* The results. *)

\* Nothing but a validated document of the client itself is ever cached.
THEOREM OnlyValidatedIsCached == Spec => []OnlyValidatedCached
  <1>1. Inv => OnlyValidatedCached
    <2> SUFFICES ASSUME Inv, NEW c \in Clients, entries[c] # None
                 PROVE  /\ entries[c].doc.clientId = c
                        /\ entries[c].doc.uris # {}
                        /\ c \in WellFormed
                        /\ \E r \in Requests :
                             client[r] = c /\ got[r] # None /\ entries[c].doc = Document(got[r])
      BY DEF OnlyValidatedCached
    <2>. QED BY CimdAssumption DEF CimdAssumption, Inv, CacheInv, Backed, FetchedBy
  <1>. QED BY <1>1, InitInv, StepInv, PTL DEF Spec

\* A hit is answered less than max_ttl after the fetch it repeats, whichever
\* fetches overtook each other.
THEOREM HitsAreRecent == Spec => []HitIsRecent
  <1>1. Inv => HitIsRecent
    BY DEF Inv, RecentHit, HitIsRecent
  <1>. QED BY <1>1, InitInv, StepInv, PTL DEF Spec

\* Within min_ttl of a fetch no other fetch of that client starts.
THEOREM FetchesAreSpaced == Spec => FetchesSpaced
  <1>1. ASSUME Inv, [Next]_vars, NEW r \in Requests, NEW f \in Requests,
               StartsFetch(r), reply[f] = "fetched", client[f] = client'[r]
        PROVE  now >= endedAt[f] + MinTtl
    <2>1. Obtain(r)
      BY <1>1 DEF Next, vars, StartsFetch, Obtain, Connect, Finish, Return, End, Tick, Publish,
        Rebind, Finished, Inv, TypeInv, TypeOK, ObtainHit, ObtainRefused, ObtainMiss
    <2>2. ~Hit(client'[r]) /\ client'[r] \in Clients
      BY <1>1, <2>1 DEF StartsFetch, Obtain, ObtainHit, ObtainRefused, ObtainMiss, Return, End,
        Inv, TypeInv, TypeOK
    <2>3. endedAt[f] \in Nat /\ now \in Nat
      BY <1>1 DEF Inv, TypeInv, TypeOK, Held
    <2>. QED BY <1>1, <2>2, <2>3, CimdAssumption
           DEF CimdAssumption, Inv, CacheInv, Fresh, Hit, TypeInv, TypeOK, Entry
  <1>2. Inv /\ [Next]_vars =>
          [\A r, f \in Requests :
             StartsFetch(r) /\ reply[f] = "fetched" /\ client[f] = client'[r]
               => now >= endedAt[f] + MinTtl]_vars
    BY <1>1
  <1>. QED BY <1>2, InitInv, StepInv, PTL DEF Spec, FetchesSpaced

-----------------------------------------------------------------------------
(* The cache implements DocumentSource. *)

\* What callers see of a request.
LEMMA Stages ==
  ASSUME TypeInv, NEW r \in Requests
  PROVE  /\ StageMap[r] = Stage(r)
         /\ pc[r] = "idle" <=> Stage(r) = "idle"
         /\ pc[r] = "dial" <=> Stage(r) = "asking"
         /\ pc[r] = "read" <=> Stage(r) = "reading"
         /\ reply[r] = "fetched" <=> Stage(r) = "fetched"
  <1>1. StageMap[r] = Stage(r)
    BY DEF StageMap
  <1>2. pc[r] \in {"idle", "dial", "read", "done"}
    BY DEF TypeInv, TypeOK
  <1>3. reply[r] = "fetched" => pc[r] = "done"
    BY DEF TypeInv, Held
  <1>. QED BY <1>1, <1>2, <1>3 DEF Stage

\* A step that moves one request moves its stage alone.
LEMMA StageMoves ==
  ASSUME TypeInv, NEW r \in Requests, Others(r), NEW s, Stage(r)' = s
  PROVE  StageMap' = [StageMap EXCEPT ![r] = s]
  <1>1. \A f \in Requests \ {r} : Stage(f)' = Stage(f)
    BY DEF Others, Stage
  <1>2. \A f \in Requests : Stage(f)' = IF f = r THEN s ELSE Stage(f)
    BY <1>1
  <1>3. StageMap' = [f \in Requests |-> Stage(f)']
    BY DEF StageMap
  <1>. QED BY <1>2, <1>3 DEF StageMap

\* A client that misses is due: a fetch answered less than min_ttl ago would
\* have left a good entry.
LEMMA MissIsDue ==
  ASSUME Inv, NEW c \in Clients, ~Hit(c)
  PROVE  Source!Due(c)
  <1> SUFFICES ASSUME NEW f \in Requests, StageMap[f] = "fetched", client[f] = c
               PROVE  now >= endedAt[f] + MinTtl
    BY DEF Source!Due, Source!Fetched
  <1>1. reply[f] = "fetched"
    BY Stages DEF Inv
  <1>2. endedAt[f] \in Nat /\ now \in Nat
    BY <1>1 DEF Inv, TypeInv, TypeOK, Held
  <1>. QED BY <1>1, <1>2, CimdAssumption
         DEF CimdAssumption, Inv, CacheInv, Fresh, Hit, TypeInv, TypeOK, Entry

\* A hit finds what the latest fetch of the client returned.
LEMMA HitIsLatest ==
  ASSUME Inv, NEW c \in Clients, Hit(c)
  PROVE  \E f \in Requests : Source!Latest(f, c) /\ result[f] = entries[c].doc
  <1>1. PICK f \in Requests :
          /\ FetchedBy(f, c, entries[c].doc)
          /\ entries[c].expires <= endedAt[f] + MaxTtl
          /\ Last(f, c)
    BY DEF Inv, CacheInv, Backed, Hit
  <1>2. endedAt[f] \in Nat /\ endedAt[f] <= now /\ now < endedAt[f] + MaxTtl
    BY <1>1, CimdAssumption
    DEF CimdAssumption, FetchedBy, Hit, Inv, TypeInv, TypeOK, Held, Entry
  <1>3. f \in Source!Fetched(c)
    BY <1>1, Stages DEF Source!Fetched, FetchedBy, Inv
  <1>4. \A g \in Source!Fetched(c) : endedAt[g] <= endedAt[f]
    BY <1>1, Stages DEF Source!Fetched, Last, Inv
  <1>. QED BY <1>1, <1>2, <1>3, <1>4 DEF Source!Latest, FetchedBy

\* obtain up to its first await.
LEMMA ObtainSource ==
  ASSUME Inv, NEW r \in Requests, Obtain(r)
  PROVE  Source!Next
  <1>1. PICK c \in Clients :
          /\ client' = [client EXCEPT ![r] = c]
          /\ ObtainHit(r, c) \/ ObtainRefused(r, c) \/ ObtainMiss(r, c)
    BY DEF Obtain
  <1>2. /\ pc[r] = "idle" /\ Others(r)
        /\ UNCHANGED <<now, origin, got>>
        /\ TypeInv
    BY OthersStay DEF Obtain, world, Inv, TypeInv
  <1>3. StageMap[r] = "idle"
    BY <1>2, Stages
  <1>4. pc \in [Requests -> {"idle", "dial", "read", "done"}] /\ DOMAIN reply = Requests
    BY <1>2 DEF TypeInv, TypeOK
  <1>5. CASE ObtainHit(r, c)
    <2>1. Stage(r)' = "repeated"
      BY <1>4, <1>5 DEF ObtainHit, Return, End, Stage
    <2>2. StageMap' = [StageMap EXCEPT ![r] = "repeated"]
      BY <1>2, <2>1, StageMoves
    <2>3. PICK f \in Requests : Source!Latest(f, c) /\ result[f] = entries[c].doc
      BY <1>5, HitIsLatest DEF ObtainHit
    <2>4. Source!Return(r, result[f])
      BY <1>5, <2>3 DEF ObtainHit, Return, Source!Return
    <2>5. Source!Repeat(r, c)
      BY <1>1, <1>2, <1>3, <2>2, <2>3, <2>4 DEF Source!Repeat, Source!Become
    <2>. QED BY <2>5 DEF Source!Next
  <1>6. CASE ObtainRefused(r, c)
    <2>1. Stage(r)' = "denied"
      BY <1>4, <1>6 DEF ObtainRefused, End, Stage
    <2>2. StageMap' = [StageMap EXCEPT ![r] = "denied"]
      BY <1>2, <2>1, StageMoves
    <2>3. Source!Refuse(r, c)
      BY <1>1, <1>2, <1>3, <1>6, <2>2, MissIsDue
      DEF ObtainRefused, Source!Refuse, Source!Start, Source!Become
    <2>. QED BY <2>3 DEF Source!Next
  <1>7. CASE ObtainMiss(r, c)
    <2>1. Stage(r)' = "asking"
      BY <1>4, <1>7 DEF ObtainMiss, Stage
    <2>2. StageMap' = [StageMap EXCEPT ![r] = "asking"]
      BY <1>2, <2>1, StageMoves
    <2>3. Source!Fetch(r, c)
      BY <1>1, <1>2, <1>3, <1>7, <2>2, MissIsDue
      DEF ObtainMiss, Source!Fetch, Source!Start, Source!Become
    <2>. QED BY <2>3 DEF Source!Next
  <1>. QED BY <1>1, <1>5, <1>6, <1>7

\* A request that ends without a document is denied.
LEMMA EndSource ==
  ASSUME TypeInv, NEW r \in Requests, Others(r), pc[r] \in {"dial", "read"},
         NEW code \in {"fetch_error", "invalid"}, End(r, code),
         UNCHANGED <<now, origin, client, got, result, endedAt>>
  PROVE  Source!Next
  <1>1. Stage(r)' = "denied"
    BY DEF End, Stage, TypeInv, TypeOK
  <1>2. StageMap' = [StageMap EXCEPT ![r] = "denied"]
    BY <1>1, StageMoves
  <1>3. StageMap[r] \in {"asking", "reading"}
    BY Stages
  <1>4. Source!Deny(r)
    BY <1>2, <1>3 DEF Source!Deny, Source!Become
  <1>. QED BY <1>4 DEF Source!Next

\* The connection: the origin's answer of that moment, or a failure.
LEMMA ConnectSource ==
  ASSUME Inv, NEW r \in Requests, Connect(r)
  PROVE  Source!Next
  <1>1. /\ pc[r] = "dial" /\ Others(r) /\ TypeInv
        /\ UNCHANGED <<now, origin, client, result, endedAt>>
    BY OthersStay DEF Connect, world, Inv, TypeInv
  <1>2. CASE End(r, "fetch_error") /\ UNCHANGED got
    BY <1>1, <1>2, EndSource
  <1>3. CASE /\ got' = [got EXCEPT ![r] = origin[client[r]]]
             /\ pc' = [pc EXCEPT ![r] = "read"]
    <2>1. Stage(r)' = "reading"
      BY <1>1, <1>3 DEF Stage, TypeInv, TypeOK
    <2>2. StageMap' = [StageMap EXCEPT ![r] = "reading"]
      BY <1>1, <2>1, StageMoves
    <2>3. StageMap[r] = "asking"
      BY <1>1, Stages
    <2>4. Source!Read(r)
      BY <1>1, <1>3, <2>2, <2>3 DEF Source!Read, Source!Become
    <2>. QED BY <2>4 DEF Source!Next
  <1>. QED BY <1>2, <1>3 DEF Connect

\* The end of a fetch.
LEMMA FinishSource ==
  ASSUME Inv, NEW r \in Requests, Finish(r)
  PROVE  Source!Next
  <1>1. /\ pc[r] = "read" /\ Others(r) /\ TypeInv
        /\ UNCHANGED <<now, origin, client, got>>
    BY OthersStay DEF Finish, world, Inv, TypeInv
  <1>2. CASE (End(r, "fetch_error") \/ End(r, "invalid")) /\ UNCHANGED <<result, endedAt>>
    BY <1>1, <1>2, EndSource
  <1>3. CASE ValidateDocument(client[r], got[r]) /\ Return(r, "fetched", Document(got[r]))
    <2>1. Stage(r)' = "fetched"
      BY <1>1, <1>3 DEF Return, End, Stage, TypeInv, TypeOK
    <2>2. StageMap' = [StageMap EXCEPT ![r] = "fetched"]
      BY <1>1, <2>1, StageMoves
    <2>3. StageMap[r] = "reading"
      BY <1>1, Stages
    <2>4. Source!Return(r, Document(got[r]))
      BY <1>3 DEF Return, Source!Return
    <2>5. Source!Serve(r)
      BY <1>1, <1>3, <2>2, <2>3, <2>4 DEF Source!Serve, Source!Become
    <2>. QED BY <2>5 DEF Source!Next
  <1>. QED BY <1>2, <1>3 DEF Finish

\* Every step of the cache is a step of the document source, or none.
LEMMA StepSource == Inv /\ [Next]_vars => [Source!Next]_(Source!vars)
  <1> SUFFICES ASSUME Inv, [Next]_vars PROVE [Source!Next]_(Source!vars)
    OBVIOUS
  <1>1. ASSUME UNCHANGED <<now, origin, pc, client, got, reply, result, endedAt>>
        PROVE  UNCHANGED Source!vars
    BY <1>1 DEF Source!vars, StageMap, Stage
  <1>2. CASE UNCHANGED vars
    BY <1>1, <1>2 DEF vars
  <1>3. CASE \E r \in Requests : Obtain(r) \/ Connect(r) \/ Finish(r)
    BY <1>3, ObtainSource, ConnectSource, FinishSource
  <1>4. CASE Tick
    <2>1. Source!Tick
      BY <1>4 DEF Tick, world, Source!Tick, StageMap, Stage
    <2>. QED BY <2>1 DEF Source!Next
  <1>5. CASE \E c \in WellFormed, a \in Answers : Publish(c, a)
    <2>1. PICK c \in WellFormed, a \in Answers : Publish(c, a)
      BY <1>5
    <2>2. Source!Publish(c, a)
      BY <2>1 DEF Publish, Source!Publish, StageMap, Stage
    <2>. QED BY <2>2 DEF Source!Next
  <1>6. CASE \E c \in WellFormed, ips \in Records : Rebind(c, ips)
    BY <1>1, <1>6 DEF Rebind
  <1>. QED BY <1>2, <1>3, <1>4, <1>5, <1>6 DEF Next, Finished

\* The service implements its abstract specification: a hit repeats the latest
\* fetch of the client, within max_ttl of it, and for min_ttl after a fetch
\* every request is answered without another one.
THEOREM CacheImplementsSource == Spec => ImplementsDocumentSource
  <1>1. Init => Source!Init
    BY DEF Init, Source!Init, StageMap, Stage
  <1>. QED BY <1>1, InitInv, StepInv, StepSource, PTL
         DEF Spec, ImplementsDocumentSource, Source!Spec
=============================================================================
