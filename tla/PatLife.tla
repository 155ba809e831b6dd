------------------------------ MODULE PatLife ------------------------------
(***************************************************************************)
(* What the personal access token service promises those who call it, with *)
(* no owner, scope, clock or upstream in sight: a row is made at most once *)
(* and by its own creation, expires, is revoked once and never comes back; *)
(* an answer that claims an effect is given with that effect; an exchange  *)
(* mints at most once, and only for a token that had been handed out and   *)
(* was live when it was presented.  A failure (500) claims nothing.        *)
(*                                                                         *)
(* PatService implements this specification; PatCli takes the other side   *)
(* of its management calls from here.                                      *)
(***************************************************************************)
CONSTANTS
  Creations,    \* POST /pat/tokens calls; also the rows
  Listings,     \* GET /pat/tokens calls
  Revocations,  \* DELETE /pat/tokens/{id} calls
  Exchanges     \* token exchanges

VARIABLES
  row,   \* a row of the token store
  call,  \* a management call: not made, under way, or how it was answered
  use    \* an exchange: of a live token (open) or not, and what came of it

vars == <<row, call, use>>

Management == Creations \cup Listings \cup Revocations

Rows == {"none", "live", "expired", "revoked"}
Calls == {"none", "sent", "200", "201", "204", "4xx", "500"}

Init ==
  /\ row = [id \in Creations |-> "none"]
  /\ call = [r \in Management |-> "none"]
  /\ use = [e \in Exchanges |-> "none"]

-----------------------------------------------------------------------------
(* Management calls. *)

Answer(r, code) == call[r] = "sent" /\ call' = [call EXCEPT ![r] = code]

Send(r) ==
  /\ call[r] = "none"
  /\ call' = [call EXCEPT ![r] = "sent"]
  /\ UNCHANGED <<row, use>>

Refuse(r) ==
  /\ call[r] \in {"none", "sent"}
  /\ call' = [call EXCEPT ![r] = "4xx"]
  /\ UNCHANGED <<row, use>>

Fail(r) == Answer(r, "500") /\ UNCHANGED <<row, use>>

\* The statement commits; whether the caller learns of it is another matter.
Create(c, as) ==
  /\ row[c] = "none"
  /\ row' = [row EXCEPT ![c] = as]
  /\ Answer(c, "201") \/ Answer(c, "500")
  /\ UNCHANGED use

List(l) == Answer(l, "200") /\ UNCHANGED <<row, use>>

Revoke(v, id) ==
  /\ row[id] \in {"live", "expired"}
  /\ row' = [row EXCEPT ![id] = "revoked"]
  /\ Answer(v, "204") \/ Answer(v, "500")
  /\ UNCHANGED use

-----------------------------------------------------------------------------
(* Exchanges. *)

Becomes(e, stage) == use' = [use EXCEPT ![e] = stage] /\ UNCHANGED <<row, call>>

\* Only a creation answered 201 told anybody the token.
Present(e) ==
  /\ use[e] = "none"
  /\ \/ (\E id \in Creations : call[id] = "201" /\ row[id] = "live") /\ Becomes(e, "open")
     \/ Becomes(e, "closed")

Deny(e) == use[e] # "minted" /\ Becomes(e, "denied")

Mint(e) == use[e] = "open" /\ Becomes(e, "minted")

-----------------------------------------------------------------------------
(* Time and restarts. *)

Expire(ids) ==
  /\ \A id \in ids : row[id] = "live"
  /\ row' = [id \in Creations |-> IF id \in ids THEN "expired" ELSE row[id]]
  /\ UNCHANGED <<call, use>>

\* The process ends: its calls stay unanswered, its exchanges mint no more.
Crash ==
  /\ use' = [e \in Exchanges |-> IF use[e] \in {"open", "closed"} THEN "denied" ELSE use[e]]
  /\ UNCHANGED <<row, call>>

Next ==
  \/ \E r \in Management : Send(r) \/ Refuse(r) \/ Fail(r)
  \/ \E c \in Creations, as \in {"live", "expired"} : Create(c, as)
  \/ \E l \in Listings : List(l)
  \/ \E v \in Revocations, id \in Creations : Revoke(v, id)
  \/ \E e \in Exchanges : Present(e) \/ Deny(e) \/ Mint(e)
  \/ \E ids \in SUBSET Creations : Expire(ids)
  \/ Crash

Spec == Init /\ [][Next]_vars
=============================================================================
