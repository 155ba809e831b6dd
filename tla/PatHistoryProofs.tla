-------------------------- MODULE PatHistoryProofs --------------------------
(***************************************************************************)
(* What the answers of PatService say about its history: who revoked a     *)
(* row, who used a token, why an exchange was refused.                     *)
(***************************************************************************)
EXTENDS PatLifeProofs

(***************************************************************************)
(* A request that is done is a record of the past: no step changes what it *)
(* was answered, or what it was answered from.                             *)
(***************************************************************************)
Kept(r) ==
  /\ reply'[r] = reply[r]
  /\ r \in Management => bearer'[r] = bearer[r]
  /\ r \in Listings => shown'[r] = shown[r]
  /\ r \in Revocations => target'[r] = target[r]
  /\ r \in Exchanges => ex'[r] = ex[r]

\* Every step leaves the requests that are done as they are.
LEMMA DoneIsKept ==
  ASSUME TypeInv, [Next]_vars, NEW r \in Requests, pc[r] = "done"
  PROVE  Kept(r)
  <1>0. /\ reply \in [Requests -> Replies] /\ bearer \in [Management -> Maybe(Bearer)]
        /\ shown \in [Listings -> SUBSET Creations] /\ target \in [Revocations -> Maybe(Creations)]
        /\ ex \in [Exchanges -> ExchangeLocals]
        /\ \A q \in Management : q \in Requests
        /\ \A q \in Exchanges : q \in Requests
        /\ \A q \in Creations \cup Listings \cup Revocations : q \in Management
    BY DEF TypeInv, TypeOK, Requests, Management
  <1>1. ASSUME NEW q \in Requests, NEW code, NEW step, Answer(q, code) \/ GoTo(q, step), q # r
        PROVE  reply'[r] = reply[r]
    BY <1>0, <1>1 DEF Answer, GoTo
  <1>2. ASSUME NEW q \in Management, PresentBearer(q) PROVE Kept(r)
    <2>1. q # r
      BY <1>2 DEF PresentBearer
    <2>. QED BY <1>0, <1>1, <1>2, <2>1 DEF PresentBearer, Kept
  <1>3. ASSUME NEW c \in Creations, CreateStep(c) PROVE Kept(r)
    <2>1. c # r /\ UNCHANGED <<bearer, shown, target, ex>>
      BY <1>3 DEF CreateStep, AuthenticateCreate, Authenticate, ReadBody, EnsureLinkGet,
        EnsureLinkPost, TrialExchange, Insert
    <2>2. \E code, step : Answer(c, code) \/ GoTo(c, step)
      BY <1>3 DEF CreateStep, AuthenticateCreate, Authenticate, ReadBody, EnsureLinkGet,
        EnsureLinkPost, TrialExchange, Insert, RefuseCreate
    <2>. QED BY <1>0, <1>1, <2>1, <2>2 DEF Kept
  <1>4. ASSUME NEW l \in Listings, ListStep(l) PROVE Kept(r)
    <2>1. l # r /\ UNCHANGED <<bearer, target, ex>>
      BY <1>4 DEF ListStep, AuthenticateList, Authenticate, ListForOwner
    <2>2. \E code, step : Answer(l, code) \/ GoTo(l, step)
      BY <1>4 DEF ListStep, AuthenticateList, Authenticate, ListForOwner
    <2>3. r \in Listings => shown'[r] = shown[r]
      BY <1>0, <1>4, <2>1 DEF ListStep, AuthenticateList, Authenticate, ListForOwner
    <2>. QED BY <1>0, <1>1, <2>1, <2>2, <2>3 DEF Kept
  <1>5. ASSUME NEW v \in Revocations, RevokeStep(v) PROVE Kept(r)
    <2>1. v # r /\ UNCHANGED <<bearer, shown, ex>>
      BY <1>5 DEF RevokeStep, AuthenticateRevoke, Authenticate, RevokeUpdate
    <2>2. \E code, step : Answer(v, code) \/ GoTo(v, step)
      BY <1>5 DEF RevokeStep, AuthenticateRevoke, Authenticate, RevokeUpdate
    <2>3. r \in Revocations => target'[r] = target[r]
      BY <1>0, <1>5, <2>1 DEF RevokeStep, AuthenticateRevoke, Authenticate, RevokeUpdate
    <2>. QED BY <1>0, <1>1, <2>1, <2>2, <2>3 DEF Kept
  <1>6. ASSUME NEW e \in Exchanges, PresentToken(e) \/ ExchangeStep(e) PROVE Kept(r)
    <2>1. e # r /\ UNCHANGED <<bearer, shown, target>>
      BY <1>6 DEF PresentToken, ExchangeStep, FindByHash, CheckRow, Sign, JwtBearerGrant, Touch
    <2>2. \E code, step : Answer(e, code) \/ GoTo(e, step)
      BY <1>6 DEF PresentToken, ExchangeStep, FindByHash, CheckRow, Sign, JwtBearerGrant,
        Touch, RefuseExchange, UpstreamRefusal
    <2>3. r \in Exchanges => ex'[r] = ex[r]
      BY <1>6, <2>1, OtherExchanges
    <2>. QED BY <1>0, <1>1, <2>1, <2>2, <2>3 DEF Kept
  <1>7. CASE Surroundings
    BY <1>0, <1>7 DEF Surroundings, Tick, Change, RoleChange, MembershipChange, SessionChange,
      LinkChange, Restart, Kept
  <1>8. CASE UNCHANGED vars
    BY <1>8 DEF vars, Kept
  <1>. QED
    BY <1>2, <1>3, <1>4, <1>5, <1>6, <1>7, <1>8 DEF Next, Arrive, Finished
-----------------------------------------------------------------------------
(* Revocations and listings. *)

\* A 204 is given by the UPDATE that found the row of the caller not yet revoked.
LEMMA AnsweredByUpdate ==
  ASSUME LifeInv, [Next]_vars, NEW v \in Revocations, pc[v] # "done", reply'[v] = "204"
  PROVE  \E id \in Creations :
           /\ Revocable(v, id) /\ table' = [table EXCEPT ![id].revoked = now]
           /\ target' = [target EXCEPT ![v] = id] /\ Answer(v, "204")
  <1>0. /\ v \in Requests /\ v \in Management /\ reply \in [Requests -> Replies]
        /\ reply[v] = "none"
        /\ \A q \in Management : q \in Requests
        /\ \A q \in Creations \cup Listings \cup Exchanges : q \in Requests /\ q # v
    BY PatAssumption DEF PatAssumption, LifeInv, Inv, TypeInv, TypeOK, Replied, Requests, Management
  <1>1. ASSUME NEW q \in Requests, NEW code, NEW step, Answer(q, code) \/ GoTo(q, step), q # v
        PROVE  FALSE
    BY <1>0, <1>1 DEF Answer, GoTo
  <1>2. ASSUME NEW q \in Management, PresentBearer(q) PROVE FALSE
    <2>1. CASE q # v
      BY <1>0, <1>1, <1>2, <2>1 DEF PresentBearer
    <2>2. CASE q = v
      BY <1>0, <1>2, <2>2 DEF PresentBearer, Answer, GoTo
    <2>. QED BY <2>1, <2>2
  <1>3. ASSUME NEW c \in Creations, CreateStep(c) PROVE FALSE
    BY <1>0, <1>1, <1>3 DEF CreateStep, AuthenticateCreate, Authenticate, ReadBody,
      EnsureLinkGet, EnsureLinkPost, TrialExchange, Insert, RefuseCreate
  <1>4. ASSUME NEW l \in Listings, ListStep(l) PROVE FALSE
    BY <1>0, <1>1, <1>4 DEF ListStep, AuthenticateList, Authenticate, ListForOwner
  <1>5. ASSUME NEW e \in Exchanges, PresentToken(e) \/ ExchangeStep(e) PROVE FALSE
    BY <1>0, <1>1, <1>5 DEF PresentToken, ExchangeStep, FindByHash, CheckRow, Sign, JwtBearerGrant,
      Touch, RefuseExchange, UpstreamRefusal
  <1>6. ASSUME NEW w \in Revocations, w # v, RevokeStep(w) PROVE FALSE
    BY <1>0, <1>1, <1>6 DEF RevokeStep, AuthenticateRevoke, Authenticate, RevokeUpdate, Management
  <1>7. ~AuthenticateRevoke(v)
    BY <1>0 DEF AuthenticateRevoke, Authenticate, Answer, GoTo, UpstreamDown
  <1>8. ~Surroundings /\ ~UNCHANGED vars
    BY <1>0 DEF Surroundings, Tick, Change, RoleChange, MembershipChange, SessionChange,
      LinkChange, Restart, vars
  <1>9. RevokeUpdate(v)
    BY <1>2, <1>3, <1>4, <1>5, <1>6, <1>7, <1>8 DEF Next, Arrive, Finished, RevokeStep
  <1>. QED BY <1>0, <1>9 DEF RevokeUpdate, Answer, DbDown

(***************************************************************************)
(* RevokedOnce needs that a 204 leaves its row revoked; OwnersIsolated     *)
(* that only listings that are done show rows, which exist.                *)
(***************************************************************************)
Management204 ==
  \A v \in Revocations :
    reply[v] = "204" =>
      target[v] \in Creations /\ table[target[v]] # None /\ table[target[v]].revoked # None

ShownRows ==
  \A l \in Listings : \A id \in shown[l] :
    pc[l] = "done" /\ table[id] # None /\ table[id].owner = bearer[l].owner

RevokedBy(id, v) ==
  target[v] = id /\ reply[v] \in {"204", "500"} /\ bearer[v].owner = table[id].owner

OwnersRevoke ==
  \A id \in Creations :
    table[id] # None /\ table[id].revoked # None => \E v \in Revocations : RevokedBy(id, v)

ManagementHistory == Management204 /\ RevokedOnce /\ ShownRows /\ OwnersRevoke

\* A 204 leaves its row revoked, for good.
LEMMA Step204 ==
  ASSUME LifeInv, LifeInv', [Next]_vars, Management204
  PROVE  Management204'
  <1> SUFFICES ASSUME NEW v \in Revocations, reply'[v] = "204"
               PROVE  /\ target'[v] \in Creations /\ table'[target'[v]] # None
                      /\ table'[target'[v]].revoked # None
    BY DEF Management204
  <1>1. CASE pc[v] = "done"
    <2>1. Kept(v)
      BY <1>1, DoneIsKept DEF LifeInv, Inv, Requests, Management
    <2>2. reply[v] = "204" /\ target'[v] = target[v]
      BY <2>1 DEF Kept
    <2>3. RowStep(table[target[v]], table'[target[v]]) /\ table[target[v]].revoked # None
          /\ target[v] \in Creations
      BY <2>2, RowsStep DEF Management204, LifeInv, Inv
    <2>. QED BY <2>2, <2>3 DEF RowStep
  <1>2. CASE pc[v] # "done"
    <2>1. PICK id \in Creations :
            /\ Revocable(v, id) /\ table' = [table EXCEPT ![id].revoked = now]
            /\ target' = [target EXCEPT ![v] = id]
      BY <1>2, AnsweredByUpdate
    <2>2. /\ table \in [Creations -> Maybe(PatRecord)] /\ target \in [Revocations -> Maybe(Creations)]
          /\ now \in Nat
      BY DEF LifeInv, Inv, TypeInv, TypeOK, Time
    <2>3. target'[v] = id /\ table[id] \in PatRecord /\ table[id] # None
      BY <2>1, <2>2 DEF Revocable, OwnRow, Maybe
    <2>4. table'[id] = [table[id] EXCEPT !.revoked = now]
      BY <2>1, <2>2
    <2>5. table'[id] \in PatRecord /\ table'[id].revoked = now
      BY <2>2, <2>3, <2>4 DEF PatRecord, Maybe, Time
    <2>. QED BY <2>2, <2>3, <2>5, PatAssumption DEF PatAssumption
  <1>. QED BY <1>1, <1>2

\* A second 204 for one row would find it revoked.
LEMMA StepRevokedOnce ==
  ASSUME LifeInv, LifeInv', [Next]_vars, Management204, RevokedOnce
  PROVE  RevokedOnce'
  <1> SUFFICES ASSUME NEW v \in Revocations, NEW w \in Revocations, v # w,
                      reply'[v] = "204", reply'[w] = "204", target'[v] = target'[w]
               PROVE  FALSE
    BY DEF RevokedOnce
  <1>0. v \in Requests /\ w \in Requests /\ target \in [Revocations -> Maybe(Creations)]
        /\ reply \in [Requests -> Replies]
    BY DEF Requests, Management, LifeInv, Inv, TypeInv, TypeOK
  <1>1. ASSUME NEW q \in Revocations, pc[q] = "done"
        PROVE  reply'[q] = reply[q] /\ target'[q] = target[q]
    BY <1>1, DoneIsKept DEF LifeInv, Inv, Kept, Requests, Management
  <1>2. ASSUME NEW p \in Revocations, NEW q \in Revocations, p # q, pc[p] # "done",
               reply'[p] = "204", reply'[q] = "204", target'[p] = target'[q]
        PROVE  FALSE
    <2>1. PICK id \in Creations :
            Revocable(p, id) /\ target' = [target EXCEPT ![p] = id] /\ Answer(p, "204")
      BY <1>2, AnsweredByUpdate
    <2>2. reply'[q] = reply[q] /\ target'[q] = target[q] /\ target'[p] = id
      BY <1>0, <1>2, <2>1 DEF Answer, Requests, Management
    <2>3. table[id].revoked # None
      BY <1>2, <2>2 DEF Management204
    <2>. QED BY <2>1, <2>3 DEF Revocable
  <1>. QED BY <1>1, <1>2 DEF RevokedOnce

\* A listing shows rows of its caller, and they stay the caller's.
LEMMA StepShown ==
  ASSUME LifeInv, LifeInv', [Next]_vars, ShownRows
  PROVE  ShownRows'
  <1> SUFFICES ASSUME NEW l \in Listings, NEW id \in shown'[l]
               PROVE  pc'[l] = "done" /\ table'[id] # None /\ table'[id].owner = bearer'[l].owner
    BY DEF ShownRows
  <1>0. /\ l \in Requests /\ l \in Management /\ shown \in [Listings -> SUBSET Creations]
        /\ pc \in [Requests -> Steps]
    BY DEF Requests, Management, LifeInv, Inv, TypeInv, TypeOK
  <1>1. CASE id \in shown[l]
    <2>1. pc[l] = "done" /\ table[id] # None /\ table[id].owner = bearer[l].owner /\ id \in Creations
      BY <1>0, <1>1 DEF ShownRows
    <2>2. pc'[l] = "done" /\ bearer'[l] = bearer[l]
      BY <1>0, <2>1, DoneStays, DoneIsKept DEF LifeInv, Inv, Kept
    <2>3. RowStep(table[id], table'[id])
      BY <2>1, RowsStep DEF LifeInv, Inv
    <2>4. table'[id] # None /\ table'[id].owner = table[id].owner
      BY <2>3 DEF RowStep, Fixed
    <2>. QED BY <2>1, <2>2, <2>4
  <1>2. CASE id \notin shown[l]
    <2>1. ListForOwner(l)
      <3>1. shown' # shown
        BY <1>2
      <3>2. \E k \in Listings : ListForOwner(k)
        BY <3>1 DEF Next, Arrive, PresentBearer, PresentToken, CreateStep, AuthenticateCreate,
          ListStep, AuthenticateList, RevokeStep, AuthenticateRevoke, Authenticate, ReadBody,
          EnsureLinkGet, EnsureLinkPost, TrialExchange, Insert, RevokeUpdate, ExchangeStep,
          FindByHash, CheckRow, Sign, JwtBearerGrant, Touch, Surroundings, Tick, Change, RoleChange,
          MembershipChange, SessionChange, LinkChange, Restart, Finished, vars
      <3>. QED BY <1>0, <1>2, <3>2 DEF ListForOwner
    <2>2. /\ shown' = [shown EXCEPT ![l] = {d \in Creations : OwnRow(l, d)}] /\ Answer(l, "200")
          /\ table' = table /\ bearer' = bearer
      BY <1>2, <2>1 DEF ListForOwner
    <2>3. OwnRow(l, id) /\ pc'[l] = "done"
      BY <1>0, <2>2 DEF Answer
    <2>. QED BY <2>2, <2>3 DEF OwnRow
  <1>. QED BY <1>1, <1>2

\* A row is revoked by a request of its owner, and by nothing else.
LEMMA StepOwnersRevoke ==
  ASSUME LifeInv, LifeInv', [Next]_vars, OwnersRevoke
  PROVE  OwnersRevoke'
  <1> SUFFICES ASSUME NEW id \in Creations, table'[id] # None, table'[id].revoked # None
               PROVE  \E v \in Revocations : RevokedBy(id, v)'
    BY DEF OwnersRevoke
  <1>0. /\ table \in [Creations -> Maybe(PatRecord)] /\ target \in [Revocations -> Maybe(Creations)]
        /\ reply \in [Requests -> Replies]
        /\ \A v \in Revocations : v \in Requests /\ v \in Management
    BY DEF Requests, Management, LifeInv, Inv, TypeInv, TypeOK
  <1>1. CASE table[id] # None /\ table[id].revoked # None
    <2>1. PICK v \in Revocations : RevokedBy(id, v)
      BY <1>1 DEF OwnersRevoke
    <2>2. pc[v] = "done"
      BY <1>0, <2>1 DEF LifeInv, Replied, RevokedBy
    <2>3. reply'[v] = reply[v] /\ target'[v] = target[v] /\ bearer'[v] = bearer[v]
      BY <1>0, <2>2, DoneIsKept DEF LifeInv, Inv, Kept
    <2>4. RowStep(table[id], table'[id])
      BY <1>1, RowsStep DEF LifeInv, Inv
    <2>5. table'[id].owner = table[id].owner
      BY <2>4 DEF RowStep, Fixed
    <2>. QED BY <2>1, <2>3, <2>5 DEF RevokedBy
  <1>2. CASE table[id] = None \/ table[id].revoked = None
    <2>1. table' # table
      BY <1>2
    <2>2. ASSUME NEW c \in Creations, Insert(c) PROVE FALSE
      BY <1>0, <1>2, <2>2 DEF Insert, LifeInv, Fresh
    <2>3. ASSUME NEW e \in Exchanges, Touch(e) PROVE FALSE
      <3>1. table[id] # None
        BY <1>0, <2>3 DEF Touch, Touched, LifeInv, Inv, TypeInv, Held
      <3>2. table[id] \in PatRecord
        BY <1>0, <3>1 DEF Maybe
      <3>. QED BY <1>0, <1>2, <2>3, <3>1, <3>2 DEF Touch, Touched, PatRecord
    <2>4. ASSUME NEW v \in Revocations, RevokeUpdate(v) PROVE RevokedBy(id, v)'
      <3>1. PICK d \in Creations :
              /\ target' = [target EXCEPT ![v] = d] /\ Revocable(v, d)
              /\ table' = [table EXCEPT ![d].revoked = now]
              /\ Answer(v, "204") \/ Answer(v, DbDown)
        BY <2>1, <2>4 DEF RevokeUpdate
      <3>2. d = id
        BY <1>0, <1>2, <3>1
      <3>3. table[id] \in PatRecord /\ table[id].owner = bearer[v].owner
        BY <1>0, <3>1, <3>2 DEF Revocable, OwnRow, Maybe
      <3>4. table'[id].owner = table[id].owner
        BY <1>0, <3>1, <3>2, <3>3 DEF PatRecord
      <3>5. target'[v] = id /\ reply'[v] \in {"204", "500"} /\ bearer' = bearer
        BY <1>0, <2>4, <3>1, <3>2 DEF Answer, DbDown, RevokeUpdate
      <3>. QED BY <3>3, <3>4, <3>5 DEF RevokedBy
    <2>. QED BY <2>1, <2>2, <2>3, <2>4, TableWriters
  <1>. QED BY <1>1, <1>2

\* The history of the management requests is kept by every step.
LEMMA SpecManagementHistory == Spec => []ManagementHistory
  <1>1. Init => ManagementHistory
    BY DEF Init, ManagementHistory, Management204, RevokedOnce, ShownRows, OwnersRevoke, Requests,
      Management
  <1>2. LifeInv /\ LifeInv' /\ ManagementHistory /\ [Next]_vars => ManagementHistory'
    BY Step204, StepRevokedOnce, StepShown, StepOwnersRevoke DEF ManagementHistory
  <1>. QED BY <1>1, <1>2, SpecLifeInv, PTL DEF Spec

\* Owners are isolated: no listing shows and no revocation hits a row of another
\* owner, for any number of owners and requests (_q_list, _q_revoke).
THEOREM OwnersAreIsolated == Spec => []OwnersIsolated
  <1>1. ManagementHistory => OwnersIsolated
    BY DEF ManagementHistory, ShownRows, OwnersRevoke, RevokedBy, OwnersIsolated
  <1>. QED BY <1>1, SpecManagementHistory, PTL

\* However many revocations of one row race, one at most is answered 204.
THEOREM RevokedAtMostOnce == Spec => []RevokedOnce
  <1>1. ManagementHistory => RevokedOnce
    BY DEF ManagementHistory
  <1>. QED BY <1>1, SpecManagementHistory, PTL
-----------------------------------------------------------------------------
(* Exchanges. *)

\* A step is the exchange's own, or leaves it where it is, or ends it.
LEMMA ExchangeCases ==
  ASSUME TypeInv, [Next]_vars, NEW e \in Exchanges
  PROVE  \/ PresentToken(e) \/ ExchangeStep(e)
         \/ /\ ex'[e] = ex[e] /\ pc'[e] \in {pc[e], "done"} /\ reply'[e] \in {reply[e], "lost"}
            /\ pc'[e] # pc[e] => reply'[e] = "lost"
  <1>0. /\ e \in Requests /\ reply \in [Requests -> Replies] /\ pc \in [Requests -> Steps]
        /\ \A q \in Management : q \in Requests /\ q # e
        /\ \A q \in Exchanges : q \in Requests
    BY PatAssumption DEF PatAssumption, Requests, TypeInv, TypeOK
  <1>1. ASSUME NEW q \in Requests, NEW code, NEW step, Answer(q, code) \/ GoTo(q, step), q # e
        PROVE  reply'[e] = reply[e] /\ pc'[e] = pc[e]
    BY <1>0, <1>1 DEF Answer, GoTo
  <1>2. ASSUME NEW f \in Exchanges, f # e, PresentToken(f) \/ ExchangeStep(f)
        PROVE  ex'[e] = ex[e] /\ pc'[e] = pc[e] /\ reply'[e] = reply[e]
    <2>1. ex'[e] = ex[e] /\ pc'[e] = pc[e]
      BY <1>2, OtherExchanges
    <2>2. \E code, step : Answer(f, code) \/ GoTo(f, step)
      BY <1>2 DEF PresentToken, ExchangeStep, FindByHash, CheckRow, Sign, JwtBearerGrant,
        Touch, RefuseExchange, UpstreamRefusal
    <2>. QED BY <1>0, <1>1, <1>2, <2>1, <2>2
  <1>3. CASE \/ \E r \in Management : PresentBearer(r)
             \/ \E c \in Creations : CreateStep(c)
             \/ \E l \in Listings : ListStep(l)
             \/ \E v \in Revocations : RevokeStep(v)
    <2>1. ex' = ex /\ pc'[e] = pc[e]
      BY <1>3, ManagementKeepsExchanges
    <2>2. \E q \in Management : \E code, step : Answer(q, code) \/ GoTo(q, step)
      BY <1>3 DEF PresentBearer, CreateStep, AuthenticateCreate, Authenticate, ReadBody,
        EnsureLinkGet, EnsureLinkPost, TrialExchange, Insert, RefuseCreate, ListStep,
        AuthenticateList, ListForOwner, RevokeStep, AuthenticateRevoke, RevokeUpdate, Management
    <2>. QED BY <1>0, <1>1, <2>1, <2>2
  <1>4. CASE Surroundings
    BY <1>0, <1>4 DEF Surroundings, Tick, Change, RoleChange, MembershipChange, SessionChange,
      LinkChange, Restart
  <1>5. CASE UNCHANGED vars
    BY <1>5 DEF vars
  <1>. QED BY <1>2, <1>3, <1>4, <1>5 DEF Next, Arrive, Finished

\* What an exchange minted stays with it.
LEMMA MintedStays ==
  ASSUME LifeInv, [Next]_vars, NEW e \in Exchanges, ex[e].short # None
  PROVE  ex'[e] = ex[e]
  <1>1. pc[e] \notin {"idle", "find", "check", "sign", "grant"}
    BY DEF LifeInv, Inv, Facts, ExchangeFacts
  <1>2. ~PresentToken(e) /\ ~FindByHash(e) /\ ~CheckRow(e) /\ ~Sign(e) /\ ~JwtBearerGrant(e)
    BY <1>1 DEF PresentToken, FindByHash, CheckRow, Sign, JwtBearerGrant
  <1>3. Touch(e) => ex' = ex
    BY DEF Touch
  <1>. QED BY <1>2, <1>3, ExchangeCases DEF ExchangeStep, LifeInv, Inv

(***************************************************************************)
(* Where an exchange is: it holds no token before it presented one; the    *)
(* row it checks is no more revoked than the stored one; what it records   *)
(* as a use was one.                                                       *)
(***************************************************************************)
UseHolds(e) ==
  /\ pc[e] = "idle" => ex[e].token = None
  /\ pc[e] = "check" /\ ex[e].found.revoked # None => table[ex[e].token].revoked # None
  /\ pc[e] = "touch" => ex[e].short # None

UseHistory == \A e \in Exchanges : UseHolds(e)

\* Every step keeps it.
LEMMA StepUseHistory ==
  ASSUME LifeInv, LifeInv', [Next]_vars, UseHistory
  PROVE  UseHistory'
  <1> SUFFICES ASSUME NEW e \in Exchanges PROVE UseHolds(e)'
    BY DEF UseHistory
  <1>0. /\ e \in Requests /\ pc \in [Requests -> Steps] /\ ex \in [Exchanges -> ExchangeLocals]
        /\ ex[e] \in ExchangeLocals /\ UseHolds(e)
    BY DEF Requests, LifeInv, Inv, TypeInv, TypeOK, UseHistory
  <1>1. CASE \E code : Answer(e, code)
    BY <1>0, <1>1 DEF Answer, UseHolds
  <1>2. CASE PresentToken(e)
    <2>1. CASE GoTo(e, "find")
      BY <1>0, <2>1 DEF GoTo, UseHolds
    <2>. QED BY <1>1, <1>2, <2>1 DEF PresentToken
  <1>3. CASE FindByHash(e)
    <2>1. CASE ex' = [ex EXCEPT ![e].found = table[ex[e].token]] /\ GoTo(e, "check")
      <3>1. pc'[e] = "check" /\ table' = table
        BY <1>0, <1>3, <2>1 DEF GoTo, FindByHash
      <3>2. ex'[e].found = table[ex[e].token] /\ ex'[e].token = ex[e].token
        BY <1>0, <2>1 DEF ExchangeLocals
      <3>. QED BY <3>1, <3>2 DEF UseHolds
    <2>. QED BY <1>1, <1>3, <2>1 DEF FindByHash, RefuseExchange
  <1>4. CASE CheckRow(e)
    <2>1. CASE GoTo(e, "sign")
      BY <1>0, <2>1 DEF GoTo, UseHolds
    <2>. QED BY <1>1, <1>4, <2>1 DEF CheckRow, RefuseExchange
  <1>5. CASE JwtBearerGrant(e)
    <2>1. CASE ex' = [ex EXCEPT ![e].short = Mint(e)] /\ GoTo(e, "touch")
      <3>1. Mint(e) \in ShortToken
        BY <1>5, MintType DEF LifeInv, Inv, JwtBearerGrant
      <3>2. ex'[e].short # None /\ pc'[e] = "touch"
        BY <1>0, <2>1, <3>1, PatAssumption DEF PatAssumption, ExchangeLocals, GoTo
      <3>. QED BY <3>2 DEF UseHolds
    <2>. QED BY <1>1, <1>5, <2>1 DEF JwtBearerGrant, RefuseExchange, UpstreamRefusal
  <1>6. CASE Touch(e)
    BY <1>1, <1>6 DEF Touch
  <1>7. CASE ex'[e] = ex[e] /\ pc'[e] \in {pc[e], "done"}
    <2>1. CASE pc[e] = "check"
      <3>1. ex[e].token \in Creations /\ table[ex[e].token] # None
        BY <1>0, <2>1 DEF LifeInv, Inv, TypeInv, Held, ExchangeLocals, Maybe
      <3>2. RowStep(table[ex[e].token], table'[ex[e].token])
        BY <3>1, RowsStep DEF LifeInv, Inv
      <3>. QED BY <1>0, <1>7, <3>2 DEF UseHolds, RowStep
    <2>2. CASE pc[e] # "check"
      BY <1>0, <1>7, <2>2 DEF UseHolds
    <2>. QED BY <2>1, <2>2
  <1>8. CASE Sign(e)
    BY <1>0, <1>8 DEF Sign, GoTo, UseHolds
  <1>. QED
    BY <1>2, <1>3, <1>4, <1>5, <1>6, <1>7, <1>8, ExchangeCases
    DEF ExchangeStep, LifeInv, Inv

\* The column is written by the touch of an exchange that minted.
LEMMA StepLastUse ==
  ASSUME LifeInv, LifeInv', [Next]_vars, UseHistory, LastUseWasAUse
  PROVE  LastUseWasAUse'
  <1> SUFFICES ASSUME NEW id \in Creations, table'[id] # None, table'[id].lastUsed # None
               PROVE  \E e \in Exchanges :
                        /\ ex'[e].token = id /\ ex'[e].short # None
                        /\ ex'[e].usedAt = table'[id].lastUsed
    BY DEF LastUseWasAUse
  <1>0. table \in [Creations -> Maybe(PatRecord)]
    BY DEF LifeInv, Inv, TypeInv, TypeOK
  <1>1. CASE table[id] # None /\ table'[id].lastUsed = table[id].lastUsed
    <2>1. PICK e \in Exchanges :
            ex[e].token = id /\ ex[e].short # None /\ ex[e].usedAt = table[id].lastUsed
      BY <1>1 DEF LastUseWasAUse
    <2>. QED BY <1>1, <2>1, MintedStays
  <1>2. ASSUME NEW c \in Creations, Insert(c)
        PROVE  table[id] # None /\ table'[id].lastUsed = table[id].lastUsed
    BY <1>0, <1>2 DEF Insert, LifeInv, Fresh
  <1>3. ASSUME NEW v \in Revocations, RevokeUpdate(v)
        PROVE  table[id] # None /\ table'[id].lastUsed = table[id].lastUsed
    <2>1. table[id] # None
      BY <1>0, <1>3, RowAppears DEF LifeInv, Inv, Insert, RevokeUpdate, Revocable, OwnRow
    <2>2. table[id] \in PatRecord
      BY <1>0, <2>1 DEF Maybe
    <2>. QED BY <1>0, <1>3, <2>1, <2>2 DEF RevokeUpdate, PatRecord
  <1>4. ASSUME NEW e \in Exchanges, Touch(e), table'[id] # table[id]
        PROVE  /\ ex'[e].token = id /\ ex'[e].short # None
               /\ ex'[e].usedAt = table'[id].lastUsed
    <2>1. ex[e].token = id /\ table'[id] = [table[id] EXCEPT !.lastUsed = ex[e].usedAt]
      BY <1>0, <1>4 DEF Touch, Touched
    <2>2. table[id] \in PatRecord /\ ex' = ex /\ ex[e].short # None
      BY <1>0, <1>4, <2>1 DEF Touch, LifeInv, Inv, TypeInv, Held, Maybe, UseHistory, UseHolds
    <2>. QED BY <2>1, <2>2 DEF PatRecord
  <1>5. CASE table'[id] = table[id]
    BY <1>1, <1>5
  <1>. QED BY <1>1, <1>2, <1>3, <1>4, <1>5, TableWriters

\* A refusal as invalid comes from the checks, which see what the table says.
LEMMA StepRefused ==
  ASSUME LifeInv, LifeInv', [Next]_vars, UseHistory, RefusedOnlyWhenDead
  PROVE  RefusedOnlyWhenDead'
  <1> DEFINE Cause(id) == Dead(table[id]) \/ \E config \in Configs : config.realm # table[id].realm
  <1> SUFFICES ASSUME NEW e \in Exchanges, reply'[e] = "invalid_grant", ex'[e].token # None
               PROVE  Cause(ex[e].token)'
    BY DEF RefusedOnlyWhenDead
  <1>0. /\ e \in Requests /\ pc \in [Requests -> Steps] /\ reply \in [Requests -> Replies]
        /\ ex \in [Exchanges -> ExchangeLocals] /\ ex[e] \in ExchangeLocals
        /\ pc[e] # "done" => reply[e] = "none"
    BY DEF Requests, LifeInv, Inv, TypeInv, TypeOK, Replied
  <1>1. ASSUME NEW id \in Creations, table[id] # None, Cause(id) PROVE Cause(id)'
    <2>1. Dead(table[id]) => Dead(table[id])'
      BY <1>1, DeadStays DEF LifeInv, Inv
    <2>2. RowStep(table[id], table'[id])
      BY <1>1, RowsStep DEF LifeInv, Inv
    <2>3. table'[id].realm = table[id].realm
      BY <2>2 DEF RowStep, Fixed
    <2>. QED BY <1>1, <2>1, <2>3
  <1>2. CASE pc[e] = "done"
    <2>1. reply[e] = "invalid_grant" /\ ex'[e] = ex[e]
      BY <1>0, <1>2, DoneIsKept DEF LifeInv, Inv, Kept
    <2>2. ex[e].token \in Creations /\ table[ex[e].token] # None
      BY <1>0, <2>1 DEF ExchangeLocals, Maybe, LifeInv, Inv, TypeInv, Held
    <2>3. Cause(ex[e].token)
      BY <2>1 DEF RefusedOnlyWhenDead
    <2>4. Cause(ex[e].token)' <=> (Dead(table[ex[e].token])'
             \/ \E config \in Configs : config.realm # table'[ex[e].token].realm)
      BY <2>1 DEF Dead, Expired
    <2>. QED BY <1>1, <2>1, <2>2, <2>3
  <1>3. CASE pc[e] # "done"
    <2>1. ~PresentToken(e)
      <3> SUFFICES ASSUME PresentToken(e) PROVE FALSE
        OBVIOUS
      <3>1. ex[e].token = None
        BY DEF PresentToken, UseHistory, UseHolds
      <3>. QED BY <1>0, <1>3, <3>1 DEF PresentToken, Answer, GoTo
    <2>2. ~FindByHash(e)
      <3> SUFFICES ASSUME FindByHash(e) PROVE FALSE
        OBVIOUS
      <3>1. CASE \E code : RefuseExchange(e, code) /\ (code = DbDown \/ ex[e].token = None)
        BY <1>0, <3>1 DEF RefuseExchange, Answer, NoExchange, DbDown
      <3>2. CASE GoTo(e, "check")
        BY <1>0, <1>3, <3>2 DEF GoTo
      <3>. QED BY <3>1, <3>2 DEF FindByHash
    <2>3. ~Sign(e) /\ ~JwtBearerGrant(e) /\ ~Touch(e)
      BY <1>0, <1>3 DEF Sign, JwtBearerGrant, Touch, RefuseExchange, UpstreamRefusal, Answer, GoTo,
        UpstreamDown, DbDown
    <2>4. CheckRow(e)
      BY <1>0, <1>3, <2>1, <2>2, <2>3, ExchangeCases DEF ExchangeStep, LifeInv, Inv
    <2>5. RowRefused(ex[e].found) /\ RefuseExchange(e, "invalid_grant")
      BY <1>0, <1>3, <2>4 DEF CheckRow, RefuseExchange, Answer, GoTo
    <2>6. ex'[e].token = ex[e].token /\ UNCHANGED <<table, now>> /\ pc[e] = "check"
      BY <1>0, <2>4, <2>5 DEF RefuseExchange, NoExchange, CheckRow
    <2>7. /\ ex[e].token \in Creations /\ table[ex[e].token] # None /\ ex[e].found # None
          /\ Fixed(ex[e].found) = Fixed(table[ex[e].token])
      BY <1>0, <2>6, PatAssumption DEF PatAssumption, ExchangeLocals, Maybe, LifeInv, Inv, TypeInv,
        Held, Facts, ExchangeFacts
    <2>8. /\ ex[e].found.realm = table[ex[e].token].realm
          /\ ex[e].found.expires = table[ex[e].token].expires
      BY <2>7 DEF Fixed
    <2>9. cfg \in Configs
      BY DEF LifeInv, Inv, TypeInv, TypeOK
    <2>10. Cause(ex[e].token)
      BY <2>5, <2>6, <2>8, <2>9 DEF RowRefused, Dead, Expired, UseHistory, UseHolds
    <2>. QED BY <1>1, <2>6, <2>7, <2>10
  <1>. QED BY <1>2, <1>3

ExchangeHistory == UseHistory /\ LastUseWasAUse /\ RefusedOnlyWhenDead

\* The history of the exchanges holds of every behaviour.
LEMMA SpecExchangeHistory == Spec => []ExchangeHistory
  <1>1. Init => ExchangeHistory
    BY DEF Init, ExchangeHistory, UseHistory, UseHolds, LastUseWasAUse, RefusedOnlyWhenDead, NoExchange,
      Requests
  <1>2. LifeInv /\ LifeInv' /\ ExchangeHistory /\ [Next]_vars => ExchangeHistory'
    BY StepUseHistory, StepLastUse, StepRefused DEF ExchangeHistory
  <1>. QED BY <1>1, <1>2, SpecLifeInv, PTL DEF Spec

\* last_used_at never records anything but a use: an exchange of this very token
\* for which the upstream did mint (PatService.exchange, touch).
THEOREM LastUsesWereUses == Spec => []LastUseWasAUse
  <1>1. ExchangeHistory => LastUseWasAUse
    BY DEF ExchangeHistory
  <1>. QED BY <1>1, SpecExchangeHistory, PTL

\* No live token is refused as invalid while the deployment keeps its realm, for
\* any number of exchanges, revocations and restarts (PatService.exchange).
THEOREM LiveTokensAreNotRefused == Spec => []RefusedOnlyWhenDead
  <1>1. ExchangeHistory => RefusedOnlyWhenDead
    BY DEF ExchangeHistory
  <1>. QED BY <1>1, SpecExchangeHistory, PTL
=============================================================================
