--------------------------- MODULE DocumentSource ---------------------------
(***************************************************************************)
(* What CimdService.obtain promises its callers, with no cache entry,      *)
(* header, address or connection in sight.  A request is answered with the *)
(* validated document read from the client's URL while it was under way,   *)
(* or repeats the latest document fetched for that client, which was       *)
(* answered less than MaxTtl ago; or it is denied.  For MinTtl after a     *)
(* fetch was answered, requests for that client are neither fetched anew   *)
(* nor denied: they repeat.                                                *)
(*                                                                         *)
(* CimdCache implements this specification.                                *)
(***************************************************************************)
EXTENDS Naturals

CONSTANTS
  Requests,       \* calls of obtain
  Clients,        \* client_id values
  WellFormed,     \* those that name a URL to fetch
  Answers,        \* what a URL may serve
  Valid(_, _),    \* whether an answer is a client's document
  Document(_),    \* the document taken from a valid answer
  MinTtl, MaxTtl, \* how long a fetch is repeated: at least, less than
  None

VARIABLES
  now,      \* the time
  origin,   \* what each client's URL serves now
  stage,    \* how far a request is
  client,   \* whom it asks about
  read,     \* the answer it read from the URL
  result,   \* the document it returned
  endedAt   \* when it returned it

vars == <<now, origin, stage, client, read, result, endedAt>>

Init ==
  /\ now = 0
  /\ origin \in [WellFormed -> Answers]
  /\ stage = [r \in Requests |-> "idle"]
  /\ client = [r \in Requests |-> None]
  /\ read = [r \in Requests |-> None]
  /\ result = [r \in Requests |-> None]
  /\ endedAt = [r \in Requests |-> None]

-----------------------------------------------------------------------------

Fetched(c) == {f \in Requests : stage[f] = "fetched" /\ client[f] = c}

\* No fetch of c was answered in the last MinTtl.
Due(c) == \A f \in Fetched(c) : now >= endedAt[f] + MinTtl

\* f is the fetch of c that was answered last, less than MaxTtl ago.
Latest(f, c) ==
  /\ f \in Fetched(c)
  /\ \A g \in Fetched(c) : endedAt[g] <= endedAt[f]
  /\ endedAt[f] <= now
  /\ now < endedAt[f] + MaxTtl

Become(r, s) == stage' = [stage EXCEPT ![r] = s]

Return(r, doc) ==
  /\ result' = [result EXCEPT ![r] = doc]
  /\ endedAt' = [endedAt EXCEPT ![r] = now]

\* A request that is about c and sets out to fetch, or is refused at once.
Start(r, c, s) ==
  /\ stage[r] = "idle"
  /\ Due(c)
  /\ Become(r, s)
  /\ client' = [client EXCEPT ![r] = c]
  /\ UNCHANGED <<now, origin, read, result, endedAt>>

Fetch(r, c) == c \in WellFormed /\ Start(r, c, "asking")

Refuse(r, c) == Start(r, c, "denied")

Repeat(r, c) ==
  /\ stage[r] = "idle"
  /\ \E f \in Requests : Latest(f, c) /\ Return(r, result[f])
  /\ Become(r, "repeated")
  /\ client' = [client EXCEPT ![r] = c]
  /\ UNCHANGED <<now, origin, read>>

Read(r) ==
  /\ stage[r] = "asking"
  /\ read' = [read EXCEPT ![r] = origin[client[r]]]
  /\ Become(r, "reading")
  /\ UNCHANGED <<now, origin, client, result, endedAt>>

Serve(r) ==
  /\ stage[r] = "reading"
  /\ Valid(client[r], read[r])
  /\ Return(r, Document(read[r]))
  /\ Become(r, "fetched")
  /\ UNCHANGED <<now, origin, client, read>>

Deny(r) ==
  /\ stage[r] \in {"asking", "reading"}
  /\ Become(r, "denied")
  /\ UNCHANGED <<now, origin, client, read, result, endedAt>>

-----------------------------------------------------------------------------

Tick ==
  /\ now' = now + 1
  /\ UNCHANGED <<origin, stage, client, read, result, endedAt>>

Publish(c, a) ==
  /\ origin' = [origin EXCEPT ![c] = a]
  /\ UNCHANGED <<now, stage, client, read, result, endedAt>>

Next ==
  \/ \E r \in Requests, c \in Clients : Fetch(r, c) \/ Refuse(r, c) \/ Repeat(r, c)
  \/ \E r \in Requests : Read(r) \/ Serve(r) \/ Deny(r)
  \/ Tick
  \/ \E c \in WellFormed, a \in Answers : Publish(c, a)

Spec == Init /\ [][Next]_vars
=============================================================================
