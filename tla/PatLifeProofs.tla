---------------------------- MODULE PatLifeProofs ----------------------------
(***************************************************************************)
(* PatService implements PatLife: every step of the detailed specification *)
(* is a step of the abstract one under the mapping, or leaves it alone.    *)
(***************************************************************************)
EXTENDS PatServiceProofs

(***************************************************************************)
(* The mapping reads whether a call was answered off its reply: a request  *)
(* has a reply exactly when it is done.                                    *)
(***************************************************************************)
Replied == \A r \in Requests : reply[r] = "none" <=> pc[r] # "done"

\* A request that moves on or is answered keeps that correspondence.
LEMMA MoveReplied ==
  ASSUME TypeInv, Replied, NEW r \in Requests, pc[r] # "done", NEW code, NEW step,
         code # "none", step # "done", Answer(r, code) \/ GoTo(r, step)
  PROVE  Replied'
  BY DEF TypeInv, TypeOK, Replied, Answer, GoTo

\* Every step keeps it: a restart gives the requests it ends the reply "lost".
LEMMA StepReplied == TypeInv /\ Replied /\ [Next]_vars => Replied'
  <1> SUFFICES ASSUME TypeInv, Replied, [Next]_vars PROVE Replied'
    OBVIOUS
  <1> DEFINE Move(q) == \E code, step : /\ pc[q] # "done" /\ code # "none" /\ step # "done"
                                        /\ Answer(q, code) \/ GoTo(q, step)
  <1>1. CASE \E q \in Requests : Move(q)
    BY <1>1, MoveReplied
  <1>2. ASSUME NEW config, Restart(config) PROVE Replied'
    BY <1>2 DEF Restart, Replied, TypeInv, TypeOK
  <1>3. CASE UNCHANGED <<pc, reply>>
    BY <1>3 DEF Replied
  <1>4. ASSUME NEW q \in Management, PresentBearer(q) PROVE Move(q)
    BY <1>4 DEF PresentBearer
  <1>5. ASSUME NEW c \in Creations, CreateStep(c) PROVE Move(c)
    BY <1>5 DEF CreateStep, AuthenticateCreate, Authenticate, ReadBody, UpstreamDown, DbDown,
      EnsureLinkGet, EnsureLinkPost, TrialExchange, Insert, RefuseCreate
  <1>6. ASSUME NEW l \in Listings, ListStep(l) PROVE Move(l)
    BY <1>6 DEF ListStep, AuthenticateList, Authenticate, ListForOwner, UpstreamDown, DbDown
  <1>7. ASSUME NEW v \in Revocations, RevokeStep(v) PROVE Move(v)
    BY <1>7 DEF RevokeStep, AuthenticateRevoke, Authenticate, RevokeUpdate, UpstreamDown, DbDown
  <1>8. ASSUME NEW e \in Exchanges, PresentToken(e) \/ ExchangeStep(e) PROVE Move(e)
    BY <1>8 DEF PresentToken, ExchangeStep, FindByHash, CheckRow, Sign, JwtBearerGrant,
      Touch, RefuseExchange, UpstreamRefusal, UpstreamDown, DbDown
  <1>9. CASE Surroundings
    <2>1. UNCHANGED <<pc, reply>> \/ \E config \in Configs : Restart(config)
      BY <1>9 DEF Surroundings, Tick, Change, RoleChange, MembershipChange, SessionChange,
        LinkChange
    <2>. QED BY <2>1, <1>2, <1>3
  <1>10. CASE UNCHANGED vars
    BY <1>10, <1>3 DEF vars
  <1>. QED
    BY <1>1, <1>4, <1>5, <1>6, <1>7, <1>8, <1>9, <1>10
    DEF Next, Arrive, Finished, Requests, Management

\* A row waiting for its INSERT was neither used nor revoked.
Fresh ==
  \A c \in Creations :
    pc[c] = "insert" => cr[c].row.revoked = None /\ cr[c].row.lastUsed = None

\* Only the last trial exchange puts a row there, and it builds a new one.
LEMMA StepFresh == TypeInv /\ Fresh /\ [Next]_vars => Fresh'
  <1> SUFFICES ASSUME TypeInv, Fresh, [Next]_vars, NEW c \in Creations, pc'[c] = "insert"
               PROVE  cr'[c].row.revoked = None /\ cr'[c].row.lastUsed = None
    BY DEF Fresh
  <1>0. /\ c \in Requests /\ c \in Management /\ pc \in [Requests -> Steps]
        /\ cr \in [Creations -> CreateLocals]
    BY DEF Requests, Management, TypeInv, TypeOK
  <1>1. CASE pc'[c] = pc[c] /\ cr'[c] = cr[c]
    BY <1>1 DEF Fresh
  <1>2. CASE TrialExchange(c)
    <2>0. PICK u \in cr[c].todo : \E granted :
            cr' = [cr EXCEPT ![c] = Tried(c, u, granted)]
            /\ GoTo(c, IF cr[c].todo \ {u} = {} THEN "insert" ELSE "trial")
      BY <1>0, <1>2 DEF TrialExchange, RefuseCreate, Answer
    <2>1. PICK granted :
            cr' = [cr EXCEPT ![c] = Tried(c, u, granted)]
            /\ GoTo(c, IF cr[c].todo \ {u} = {} THEN "insert" ELSE "trial")
      BY <2>0
    <2>2. cr[c].todo \ {u} = {}
      BY <1>0, <2>1 DEF GoTo
    <2>3. cr'[c].row = NewRow(c, Keep(c, granted))
      BY <1>0, <2>1, <2>2 DEF Tried, CreateLocals
    <2>. QED BY <2>3 DEF NewRow
  <1>3. ~(AuthenticateCreate(c) \/ ReadBody(c) \/ EnsureLinkGet(c) \/ EnsureLinkPost(c) \/ Insert(c))
    BY <1>0 DEF AuthenticateCreate, Authenticate, ReadBody, EnsureLinkGet, EnsureLinkPost,
      Insert, RefuseCreate, Answer, GoTo
  <1>4. ~PresentBearer(c)
    BY <1>0 DEF PresentBearer, Answer, GoTo
  <1>5. CASE \/ \E r \in Management : r # c /\ PresentBearer(r)
             \/ \E d \in Creations : d # c /\ CreateStep(d)
             \/ \E l \in Listings : ListStep(l)
             \/ \E v \in Revocations : RevokeStep(v)
             \/ \E e \in Exchanges : PresentToken(e) \/ ExchangeStep(e)
    BY <1>1, <1>5, OthersKeepCreation
  <1>6. CASE Surroundings
    BY <1>0, <1>1, <1>6 DEF Surroundings, Tick, Change, RoleChange, MembershipChange,
      SessionChange, LinkChange, Restart
  <1>7. CASE UNCHANGED vars
    BY <1>1, <1>7 DEF vars
  <1>. QED
    BY <1>2, <1>3, <1>4, <1>5, <1>6, <1>7 DEF Next, Arrive, Finished, CreateStep

LifeInv == Inv /\ Replied /\ Fresh

\* The invariant under which steps are mapped.
LEMMA SpecLifeInv == Spec => []LifeInv
  <1>1. Init => LifeInv
    BY InitType, InitFacts DEF Inv, LifeInv, Replied, Fresh, Init, Requests, Management
  <1>2. LifeInv /\ [Next]_vars => LifeInv'
    BY StepType, StepFacts, StepReplied, StepFresh DEF LifeInv, Inv
  <1>. QED BY <1>1, <1>2, PTL DEF Spec

-----------------------------------------------------------------------------
(* What the mapping sees of a step. *)

\* Nothing of the rows, if neither the table nor the clock moves.
LEMMA SameRows == ASSUME table' = table, now' = now PROVE RowMap' = RowMap
  BY DEF RowMap, RowState, Expired

\* Of a management step the one call, and no exchange.
LEMMA CallMoves ==
  ASSUME LifeInv, NEW r \in Management, NEW code, NEW step, Answer(r, code) \/ GoTo(r, step),
         ex' = ex
  PROVE  CallMap' = [CallMap EXCEPT ![r] = CallState(r)'] /\ UseMap' = UseMap
  <1>1. /\ r \in Requests /\ \A q \in Management : q \in Requests
        /\ \A e \in Exchanges : e \in Requests /\ e # r
    BY PatAssumption DEF PatAssumption, Requests
  <1>2. pc \in [Requests -> Steps] /\ reply \in [Requests -> Replies]
    BY DEF LifeInv, Inv, TypeInv, TypeOK
  <1>3. \A q \in Requests : q # r => pc'[q] = pc[q] /\ reply'[q] = reply[q]
    BY <1>1, <1>2 DEF Answer, GoTo
  <1>4. \A q \in Management : q # r => CallState(q)' = CallState(q)
    BY <1>1, <1>3 DEF CallState
  <1>5. \A e \in Exchanges : UseState(e)' = UseState(e)
    BY <1>1, <1>3 DEF UseState
  <1>6. CallMap' = [CallMap EXCEPT ![r] = CallState(r)']
    BY <1>4 DEF CallMap
  <1>7. UseMap' = UseMap
    BY <1>5 DEF UseMap
  <1>. QED BY <1>6, <1>7

\* Of an exchange's step the one exchange, and no call.
LEMMA UseMoves ==
  ASSUME LifeInv, NEW e \in Exchanges, NEW code, NEW step, Answer(e, code) \/ GoTo(e, step),
         \A f \in Exchanges : f # e => ex'[f] = ex[f]
  PROVE  UseMap' = [UseMap EXCEPT ![e] = UseState(e)'] /\ CallMap' = CallMap
  <1>1. /\ e \in Requests /\ \A f \in Exchanges : f \in Requests
        /\ \A q \in Management : q \in Requests /\ q # e
    BY PatAssumption DEF PatAssumption, Requests
  <1>2. pc \in [Requests -> Steps] /\ reply \in [Requests -> Replies]
    BY DEF LifeInv, Inv, TypeInv, TypeOK
  <1>3. \A q \in Requests : q # e => pc'[q] = pc[q] /\ reply'[q] = reply[q]
    BY <1>1, <1>2 DEF Answer, GoTo
  <1>4. \A q \in Management : CallState(q)' = CallState(q)
    BY <1>1, <1>3 DEF CallState
  <1>5. \A f \in Exchanges : f # e => UseState(f)' = UseState(f)
    BY <1>1, <1>3 DEF UseState
  <1>6. CallMap' = CallMap
    BY <1>4 DEF CallMap
  <1>7. UseMap' = [UseMap EXCEPT ![e] = UseState(e)']
    BY <1>5 DEF UseMap
  <1>. QED BY <1>6, <1>7

\* A call before, while and after it is handled.
LEMMA CallStages ==
  ASSUME LifeInv, NEW r \in Management, NEW code, NEW step, pc[r] # "done"
  PROVE  /\ CallMap[r] = IF pc[r] = "idle" THEN "none" ELSE "sent"
         /\ Answer(r, code) => pc'[r] = "done" /\ reply'[r] = code
         /\ GoTo(r, step) => pc'[r] = step /\ reply'[r] = "none"
  <1>1. r \in Requests /\ pc \in [Requests -> Steps] /\ reply \in [Requests -> Replies]
    BY DEF LifeInv, Inv, TypeInv, TypeOK, Requests
  <1>2. reply[r] = "none"
    BY <1>1 DEF LifeInv, Replied
  <1>3. CallMap[r] = CallState(r)
    BY DEF CallMap
  <1>4. CallState(r) = IF pc[r] = "idle" THEN "none" ELSE "sent"
    BY <1>2 DEF CallState
  <1>5. Answer(r, code) => pc'[r] = "done" /\ reply'[r] = code
    BY <1>1 DEF Answer
  <1>6. GoTo(r, step) => pc'[r] = step /\ reply'[r] = "none"
    BY <1>1, <1>2 DEF GoTo
  <1>. QED BY <1>3, <1>4, <1>5, <1>6

\* A management step without a database write: on its way, refused, failed or cut
\* off by its client.
LEMMA CallStep ==
  ASSUME LifeInv, NEW r \in Management, table' = table, now' = now, ex' = ex,
         \/ /\ pc[r] \notin {"idle", "done"}
            /\ \E step \in Steps \ {"idle", "done"} : GoTo(r, step)
         \/ pc[r] # "done" /\ \E code \in {"400", "401", "403", "404", "409"} : Answer(r, code)
         \/ pc[r] \notin {"idle", "done"} /\ \E code \in {"500", "502"} : Answer(r, code)
         \/ pc[r] \notin {"idle", "done"} /\ Answer(r, "lost")
  PROVE  Life!Next \/ UNCHANGED Life!vars
  <1>1. RowMap' = RowMap
    BY SameRows
  <1>2. CallMap' = [CallMap EXCEPT ![r] = CallState(r)'] /\ UseMap' = UseMap
    BY CallMoves
  <1>3. r \in Life!Management
    BY DEF Life!Management, Management
  <1>4. CASE pc[r] \notin {"idle", "done"} /\ \E step \in Steps \ {"idle", "done"} : GoTo(r, step)
    <2>1. CallMap[r] = "sent" /\ pc'[r] \notin {"idle", "done"} /\ reply'[r] = "none"
      BY <1>4, CallStages
    <2>2. CallState(r)' = "sent"
      BY <2>1 DEF CallState
    <2>3. CallMap' = CallMap
      BY <1>2, <2>1, <2>2 DEF CallMap
    <2>. QED BY <1>1, <1>2, <2>3 DEF Life!vars
  <1>5. CASE pc[r] # "done" /\ \E code \in {"400", "401", "403", "404", "409"} : Answer(r, code)
    <2>1. /\ CallMap[r] \in {"none", "sent"} /\ pc'[r] = "done"
          /\ reply'[r] \in {"400", "401", "403", "404", "409"}
      BY <1>5, CallStages
    <2>2. CallState(r)' = "4xx"
      BY <2>1 DEF CallState, UpstreamDown, DbDown
    <2>3. Life!Refuse(r)
      BY <1>1, <1>2, <2>1, <2>2 DEF Life!Refuse
    <2>. QED BY <1>3, <2>3 DEF Life!Next
  <1>6. CASE pc[r] \notin {"idle", "done"} /\ \E code \in {"500", "502"} : Answer(r, code)
    <2>1. CallMap[r] = "sent" /\ pc'[r] = "done" /\ reply'[r] \in {"500", "502"}
      BY <1>6, CallStages
    <2>2. CallState(r)' = "500"
      BY <2>1 DEF CallState, UpstreamDown, DbDown
    <2>3. Life!Fail(r)
      BY <1>1, <1>2, <2>1, <2>2 DEF Life!Fail, Life!Answer
    <2>. QED BY <1>3, <2>3 DEF Life!Next
  <1>7. CASE pc[r] \notin {"idle", "done"} /\ Answer(r, "lost")
    <2>1. CallMap[r] = "sent" /\ pc'[r] = "done" /\ reply'[r] = "lost"
      BY <1>7, CallStages
    <2>2. CallState(r)' = "sent"
      BY <2>1 DEF CallState
    <2>3. CallMap' = CallMap
      BY <1>2, <2>1, <2>2 DEF CallMap
    <2>. QED BY <1>1, <1>2, <2>3 DEF Life!vars
  <1>. QED BY <1>4, <1>5, <1>6, <1>7
-----------------------------------------------------------------------------
(* The management requests, step by step. *)

\* A request that presents a bearer is a call, sent or refused at once.
LEMMA PresentBearerLife ==
  ASSUME LifeInv, NEW r \in Management, PresentBearer(r)
  PROVE  Life!Next \/ UNCHANGED Life!vars
  <1>1. table' = table /\ now' = now /\ ex' = ex /\ pc[r] = "idle"
    BY DEF PresentBearer
  <1>2. CASE Answer(r, "401") \/ Answer(r, "403")
    BY <1>1, <1>2, CallStep
  <1>3. CASE GoTo(r, "introspect")
    <2>1. CallMap[r] = "none" /\ pc'[r] = "introspect" /\ reply'[r] = "none"
      BY <1>1, <1>3, CallStages
    <2>2. CallState(r)' = "sent"
      BY <2>1 DEF CallState
    <2>3. CallMap' = [CallMap EXCEPT ![r] = "sent"] /\ UseMap' = UseMap
      BY <1>1, <1>3, <2>2, CallMoves
    <2>4. Life!Send(r)
      BY <1>1, <2>1, <2>3, SameRows DEF Life!Send
    <2>. QED BY <2>4 DEF Life!Next, Life!Management, Management
  <1>. QED BY <1>2, <1>3 DEF PresentBearer

\* Creation up to the INSERT claims nothing.
LEMMA CreateStepLife ==
  ASSUME LifeInv, NEW c \in Creations,
         \/ AuthenticateCreate(c) \/ ReadBody(c)
         \/ EnsureLinkGet(c) \/ EnsureLinkPost(c) \/ TrialExchange(c)
  PROVE  Life!Next \/ UNCHANGED Life!vars
  <1>0. /\ c \in Management
        /\ {"body", "getlink", "postlink", "trial", "insert"} \subseteq Steps \ {"idle", "done"}
    BY DEF Management, Steps
  <1>1. table' = table /\ now' = now /\ ex' = ex /\ pc[c] \notin {"idle", "done"}
    BY DEF AuthenticateCreate, Authenticate, ReadBody, EnsureLinkGet, EnsureLinkPost,
      TrialExchange
  <1>2. \/ \E step \in {"body", "getlink", "postlink", "trial", "insert"} : GoTo(c, step)
        \/ \E code \in {"400", "401", "403", "409", "502"} : Answer(c, code)
        \/ Answer(c, "lost")
    BY DEF AuthenticateCreate, Authenticate, ReadBody, EnsureLinkGet, EnsureLinkPost,
      TrialExchange, RefuseCreate, UpstreamDown
  <1>. QED BY <1>0, <1>1, <1>2, CallStep

\* The INSERT is the abstract creation, whatever the caller learns of it.
LEMMA InsertLife ==
  ASSUME LifeInv, NEW c \in Creations, Insert(c)
  PROVE  Life!Next \/ UNCHANGED Life!vars
  <1>0. c \in Management /\ table \in [Creations -> Maybe(PatRecord)]
    BY DEF Management, LifeInv, Inv, TypeInv, TypeOK
  <1>1. now' = now /\ ex' = ex /\ pc[c] = "insert"
    BY DEF Insert
  <1>2. CASE UNCHANGED table /\ RefuseCreate(c, DbDown)
    BY <1>0, <1>1, <1>2, CallStep DEF DbDown, RefuseCreate
  <1>3. CASE table' = [table EXCEPT ![c] = cr[c].row] /\ (Answer(c, "201") \/ Answer(c, DbDown))
    <2>1. cr[c].row \in PatRecord /\ table[c] = None
      BY <1>1 DEF LifeInv, Inv, TypeInv, Held, Facts
    <2>2. cr[c].row # None /\ cr[c].row.revoked = None
      BY <1>1, <2>1, PatAssumption DEF PatAssumption, LifeInv, Fresh
    <2> DEFINE as == RowState(cr[c].row)
    <2>3. RowMap[c] = "none" /\ RowMap' = [RowMap EXCEPT ![c] = as]
      BY <1>0, <1>1, <1>3, <2>1 DEF RowMap, RowState, Expired
    <2>4. CallMap[c] = "sent" /\ pc'[c] = "done" /\ reply'[c] \in {"201", "500"}
      BY <1>0, <1>1, <1>3, CallStages DEF DbDown
    <2>5. CallState(c)' = reply'[c]
      BY <2>4 DEF CallState, DbDown, UpstreamDown
    <2>6. CallMap' = [CallMap EXCEPT ![c] = reply'[c]] /\ UseMap' = UseMap
      BY <1>0, <1>1, <1>3, <2>5, CallMoves
    <2>7. Life!Create(c, as)
      BY <2>3, <2>4, <2>6 DEF Life!Create, Life!Answer
    <2>8. as \in {"live", "expired"}
      BY <2>2 DEF RowState
    <2>. QED BY <2>7, <2>8 DEF Life!Next
  <1>. QED BY <1>2, <1>3 DEF Insert
\* Listing and the lookup before it change nothing the service promises.
LEMMA ListStepLife ==
  ASSUME LifeInv, NEW l \in Listings, ListStep(l)
  PROVE  Life!Next \/ UNCHANGED Life!vars
  <1>0. l \in Management /\ "select" \in Steps \ {"idle", "done"}
    BY DEF Management, Steps
  <1>1. table' = table /\ now' = now /\ ex' = ex /\ pc[l] \notin {"idle", "done"}
    BY DEF ListStep, AuthenticateList, Authenticate, ListForOwner
  <1>2. CASE Answer(l, "200")
    <2>1. CallMap[l] = "sent" /\ pc'[l] = "done" /\ reply'[l] = "200"
      BY <1>0, <1>1, <1>2, CallStages
    <2>2. CallState(l)' = "200"
      BY <2>1 DEF CallState
    <2>3. CallMap' = [CallMap EXCEPT ![l] = "200"] /\ UseMap' = UseMap
      BY <1>0, <1>1, <1>2, <2>2, CallMoves
    <2>4. Life!List(l)
      BY <1>1, <2>1, <2>3, SameRows DEF Life!List, Life!Answer
    <2>. QED BY <2>4 DEF Life!Next
  <1>3. \/ Answer(l, "200") \/ GoTo(l, "select")
        \/ \E code \in {"401", "403"} : Answer(l, code)
        \/ \E code \in {"500", "502"} : Answer(l, code)
    BY DEF ListStep, AuthenticateList, Authenticate, ListForOwner, UpstreamDown, DbDown
  <1>. QED BY <1>0, <1>1, <1>2, <1>3, CallStep

\* The UPDATE of a revocation is the abstract one: it finds a row not yet revoked.
LEMMA RevokeStepLife ==
  ASSUME LifeInv, NEW v \in Revocations, RevokeStep(v)
  PROVE  Life!Next \/ UNCHANGED Life!vars
  <1>0. v \in Management /\ "update" \in Steps \ {"idle", "done"}
        /\ table \in [Creations -> Maybe(PatRecord)]
    BY DEF Management, Steps, LifeInv, Inv, TypeInv, TypeOK
  <1>1. now' = now /\ ex' = ex /\ pc[v] \notin {"idle", "done"} /\ now \in Nat
    BY DEF RevokeStep, AuthenticateRevoke, Authenticate, RevokeUpdate, LifeInv, Inv, TypeInv,
      TypeOK, Time
  <1>2. CASE AuthenticateRevoke(v)
    <2>1. \/ GoTo(v, "update")
          \/ \E code \in {"401", "403"} : Answer(v, code)
          \/ \E code \in {"500", "502"} : Answer(v, code)
      BY <1>2 DEF AuthenticateRevoke, Authenticate, UpstreamDown
    <2>2. table' = table
      BY <1>2 DEF AuthenticateRevoke, Authenticate
    <2>. QED BY <1>0, <1>1, <2>1, <2>2, CallStep
  <1>3. CASE UNCHANGED table /\ (Answer(v, "404") \/ Answer(v, DbDown))
    BY <1>0, <1>1, <1>3, CallStep DEF DbDown
  <1>4. ASSUME NEW id \in Creations, Revocable(v, id), table' = [table EXCEPT ![id].revoked = now],
               Answer(v, "204") \/ Answer(v, DbDown)
        PROVE  Life!Next \/ UNCHANGED Life!vars
    <2>1. table[id] \in PatRecord /\ table[id].revoked = None /\ table[id] # None
      BY <1>0, <1>4 DEF Revocable, OwnRow, Maybe
    <2>2. /\ table'[id] = [table[id] EXCEPT !.revoked = now]
          /\ \A d \in Creations : d # id => table'[d] = table[d]
      BY <1>0, <1>4
    <2>3. table'[id] \in PatRecord /\ table'[id].revoked = now
      BY <1>1, <2>1, <2>2 DEF PatRecord, Maybe, Time
    <2>4. table'[id] # None /\ now # None
      BY <1>1, <2>3, PatAssumption DEF PatAssumption
    <2>5. RowMap[id] \in {"live", "expired"}
      BY <2>1 DEF RowMap, RowState
    <2>6. RowState(table[id])' = "revoked"
      BY <2>3, <2>4 DEF RowState
    <2>7. \A d \in Creations : d # id => RowState(table[d])' = RowState(table[d])
      BY <1>1, <2>2 DEF RowState, Expired
    <2>8. RowMap' = [RowMap EXCEPT ![id] = "revoked"]
      BY <2>6, <2>7 DEF RowMap
    <2>9. CallMap[v] = "sent" /\ pc'[v] = "done" /\ reply'[v] \in {"204", "500"}
      BY <1>0, <1>1, <1>4, CallStages DEF DbDown
    <2>10. CallState(v)' = reply'[v]
      BY <2>9 DEF CallState, DbDown, UpstreamDown
    <2>11. CallMap' = [CallMap EXCEPT ![v] = reply'[v]] /\ UseMap' = UseMap
      BY <1>0, <1>1, <1>4, <2>10, CallMoves
    <2>12. Life!Revoke(v, id)
      BY <2>5, <2>8, <2>9, <2>11 DEF Life!Revoke, Life!Answer
    <2>. QED BY <2>12 DEF Life!Next
  <1>. QED BY <1>2, <1>3, <1>4 DEF RevokeStep, RevokeUpdate
-----------------------------------------------------------------------------
(* Exchanges, step by step. *)

\* A refusal, or an answer without a short token, denies.
LEMMA DenyLife ==
  ASSUME LifeInv, NEW e \in Exchanges, NEW code, Answer(e, code), table' = table, now' = now,
         \A f \in Exchanges : f # e => ex'[f] = ex[f],
         ex[e].short = None, ex'[e].short = None
  PROVE  Life!Next
  <1>1. e \in Requests /\ pc \in [Requests -> Steps]
    BY DEF Requests, LifeInv, Inv, TypeInv, TypeOK
  <1>2. pc'[e] = "done"
    BY <1>1 DEF Answer
  <1>3. UseMap[e] # "minted"
    BY DEF UseMap, UseState
  <1>4. UseState(e)' = "denied"
    BY <1>2 DEF UseState
  <1>5. UseMap' = [UseMap EXCEPT ![e] = "denied"] /\ CallMap' = CallMap
    BY <1>4, UseMoves
  <1>6. Life!Deny(e)
    BY <1>3, <1>5, SameRows DEF Life!Deny, Life!Becomes
  <1>. QED BY <1>6 DEF Life!Next

\* An exchange that passes a step without minting is where it was.
LEMMA GoOnLife ==
  ASSUME LifeInv, NEW e \in Exchanges, NEW step \in {"check", "sign", "grant"}, GoTo(e, step),
         table' = table, now' = now, pc[e] \notin {"idle", "done"},
         \A f \in Exchanges : f # e => ex'[f] = ex[f],
         ex[e].short = None, ex'[e].short = None, ex'[e].late = ex[e].late,
         ex'[e].token = ex[e].token
  PROVE  UNCHANGED Life!vars
  <1>1. e \in Requests /\ pc \in [Requests -> Steps]
    BY DEF Requests, LifeInv, Inv, TypeInv, TypeOK
  <1>2. pc'[e] = step
    BY <1>1 DEF GoTo
  <1>3. UseState(e)' = UseState(e)
    BY <1>2 DEF UseState
  <1>4. UseMap' = UseMap /\ CallMap' = CallMap
    BY <1>3, UseMoves DEF UseMap
  <1>. QED BY <1>4, SameRows DEF Life!vars

\* A refusal forgets what the exchange held and leaves the others alone.
LEMMA RefusalKeeps ==
  ASSUME LifeInv, NEW e \in Exchanges, NEW code, RefuseExchange(e, code)
  PROVE  /\ Answer(e, code) /\ ex'[e].short = None
         /\ \A f \in Exchanges : f # e => ex'[f] = ex[f]
  BY DEF RefuseExchange, NoExchange, LifeInv, Inv, TypeInv, TypeOK

\* A token that is presented opens a use only if it was handed out and lives.
LEMMA PresentTokenLife ==
  ASSUME LifeInv, NEW e \in Exchanges, PresentToken(e)
  PROVE  Life!Next \/ UNCHANGED Life!vars
  <1>1. /\ table' = table /\ now' = now /\ pc[e] = "idle" /\ e \in Requests
        /\ pc \in [Requests -> Steps] /\ ex \in [Exchanges -> ExchangeLocals]
        /\ ex[e] \in ExchangeLocals
    BY DEF PresentToken, LifeInv, Inv, TypeInv, TypeOK, Requests
  <1>2. ex[e].short = None
    BY <1>1 DEF LifeInv, Inv, Facts, ExchangeFacts
  <1>3. CASE UNCHANGED ex /\ (Answer(e, "invalid_request") \/ Answer(e, "invalid_grant"))
    BY <1>1, <1>2, <1>3, DenyLife
  <1>4. ASSUME NEW t \in Maybe({c \in Creations : reply[c] = "201"}), NEW u,
               ex' = [ex EXCEPT ![e].token = t, ![e].resource = u,
                                ![e].late = t # None /\ Dead(table[t])],
               GoTo(e, "find")
        PROVE  Life!Next
    <2>1. pc'[e] = "find"
      BY <1>1, <1>4 DEF GoTo
    <2>2. /\ ex'[e].token = t /\ ex'[e].late = (t # None /\ Dead(table[t]))
          /\ ex'[e].short = ex[e].short /\ \A f \in Exchanges : f # e => ex'[f] = ex[f]
      BY <1>1, <1>4 DEF ExchangeLocals
    <2>3. UseMap[e] = "none"
      BY <1>1, <1>2 DEF UseMap, UseState
    <2>4. UseMap' = [UseMap EXCEPT ![e] = UseState(e)'] /\ CallMap' = CallMap
      BY <1>4, <2>2, UseMoves
    <2>5. RowMap' = RowMap
      BY <1>1, SameRows
    <2>6. CASE t = None \/ Dead(table[t])
      <3>1. UseState(e)' = "closed"
        BY <1>2, <2>1, <2>2, <2>6 DEF UseState
      <3>2. Life!Present(e)
        BY <2>3, <2>4, <2>5, <3>1 DEF Life!Present, Life!Becomes
      <3>. QED BY <3>2 DEF Life!Next
    <2>7. CASE t # None /\ ~Dead(table[t])
      <3>1. UseState(e)' = "open"
        BY <1>2, <2>1, <2>2, <2>7 DEF UseState
      <3>2. t \in Creations /\ reply[t] = "201" /\ table[t] # None /\ pc[t] = "done"
        BY <1>4, <2>7 DEF Maybe, LifeInv, Inv, TypeInv, Held
      <3>3. CallMap[t] = "201"
        BY <3>2 DEF CallMap, CallState, Management
      <3>4. RowMap[t] = "live"
        BY <2>7, <3>2 DEF RowMap, RowState, Dead
      <3>5. Life!Present(e)
        BY <2>3, <2>4, <2>5, <3>1, <3>2, <3>3, <3>4 DEF Life!Present, Life!Becomes
      <3>. QED BY <3>5 DEF Life!Next
    <2>. QED BY <2>6, <2>7
  <1>. QED BY <1>3, <1>4 DEF PresentToken

\* The lookup, the checks and the signature settle nothing but refusals.
LEMMA FindAndCheckLife ==
  ASSUME LifeInv, NEW e \in Exchanges, FindByHash(e) \/ CheckRow(e) \/ Sign(e)
  PROVE  Life!Next \/ UNCHANGED Life!vars
  <1>1. /\ table' = table /\ now' = now /\ pc[e] \in {"find", "check", "sign"} /\ e \in Requests
        /\ ex \in [Exchanges -> ExchangeLocals] /\ ex[e] \in ExchangeLocals
    BY DEF FindByHash, CheckRow, Sign, LifeInv, Inv, TypeInv, TypeOK, Requests
  <1>2. ex[e].short = None
    BY <1>1 DEF LifeInv, Inv, Facts, ExchangeFacts
  <1>3. CASE \E code : RefuseExchange(e, code)
    BY <1>1, <1>2, <1>3, RefusalKeeps, DenyLife
  <1>4. CASE ex' = [ex EXCEPT ![e].found = table[ex[e].token]] /\ GoTo(e, "check")
    <2>1. /\ ex'[e].token = ex[e].token /\ ex'[e].late = ex[e].late
          /\ ex'[e].short = ex[e].short /\ \A f \in Exchanges : f # e => ex'[f] = ex[f]
      BY <1>1, <1>4 DEF ExchangeLocals
    <2>. QED BY <1>1, <1>2, <1>4, <2>1, GoOnLife
  <1>5. CASE (\E x \in Resources : ex' = [ex EXCEPT ![e].entry = x, ![e].usedAt = now])
             /\ GoTo(e, "sign")
    <2>1. /\ ex'[e].token = ex[e].token /\ ex'[e].late = ex[e].late
          /\ ex'[e].short = ex[e].short /\ \A f \in Exchanges : f # e => ex'[f] = ex[f]
      BY <1>1, <1>5 DEF ExchangeLocals
    <2>. QED BY <1>1, <1>2, <1>5, <2>1, GoOnLife
  <1>6. CASE Sign(e)
    <2>1. /\ ex'[e].token = ex[e].token /\ ex'[e].late = ex[e].late
          /\ ex'[e].short = ex[e].short /\ \A f \in Exchanges : f # e => ex'[f] = ex[f]
      BY <1>1, <1>6 DEF Sign, ExchangeLocals
    <2>. QED BY <1>1, <1>2, <1>6, <2>1, GoOnLife DEF Sign
  <1>. QED BY <1>3, <1>4, <1>5, <1>6 DEF FindByHash, CheckRow

\* The upstream mints for an open use: past the checks the token was not late.
LEMMA GrantLife ==
  ASSUME LifeInv, NEW e \in Exchanges, JwtBearerGrant(e)
  PROVE  Life!Next \/ UNCHANGED Life!vars
  <1>1. /\ table' = table /\ now' = now /\ pc[e] = "grant" /\ e \in Requests
        /\ ex \in [Exchanges -> ExchangeLocals] /\ ex[e] \in ExchangeLocals
    BY DEF JwtBearerGrant, LifeInv, Inv, TypeInv, TypeOK, Requests
  <1>2. ex[e].short = None /\ ~ex[e].late /\ ex[e].token # None
    BY <1>1 DEF LifeInv, Inv, TypeInv, Held, Facts, ExchangeFacts, Passed
  <1>3. CASE \E code : RefuseExchange(e, code)
    BY <1>1, <1>2, <1>3, RefusalKeeps, DenyLife
  <1>4. CASE ex' = [ex EXCEPT ![e].short = Mint(e)] /\ (Answer(e, UpstreamDown) \/ GoTo(e, "touch"))
    <2>1. Mint(e) \in ShortToken
      BY <1>1, MintType DEF LifeInv, Inv
    <2>2. Mint(e) # None
      BY <2>1, PatAssumption DEF PatAssumption
    <2>3. ex'[e].short = Mint(e) /\ \A f \in Exchanges : f # e => ex'[f] = ex[f]
      BY <1>1, <1>4 DEF ExchangeLocals
    <2>4. UseMap[e] = "open"
      BY <1>1, <1>2 DEF UseMap, UseState
    <2>5. UseState(e)' = "minted"
      BY <2>2, <2>3 DEF UseState
    <2>6. UseMap' = [UseMap EXCEPT ![e] = "minted"] /\ CallMap' = CallMap
      BY <1>4, <2>3, <2>5, UseMoves
    <2>7. Life!Mint(e)
      BY <1>1, <2>4, <2>6, SameRows DEF Life!Mint, Life!Becomes
    <2>. QED BY <2>7 DEF Life!Next
  <1>. QED BY <1>3, <1>4 DEF JwtBearerGrant, UpstreamRefusal

\* Recording the last use moves no row from one state of its life to another.
LEMMA TouchLife ==
  ASSUME LifeInv, LifeInv', NEW e \in Exchanges, Touch(e)
  PROVE  Life!Next \/ UNCHANGED Life!vars
  <1>1. /\ now' = now /\ ex' = ex /\ pc[e] = "touch" /\ e \in Requests
        /\ pc \in [Requests -> Steps]
        /\ table \in [Creations -> Maybe(PatRecord)] /\ table' \in [Creations -> Maybe(PatRecord)]
    BY DEF Touch, LifeInv, Inv, TypeInv, TypeOK, Requests
  <1>2. ASSUME NEW id \in Creations PROVE RowState(table[id])' = RowState(table[id])
    <2>1. CASE table'[id] = table[id]
      BY <1>1, <2>1 DEF RowState, Expired
    <2>2. CASE table'[id] = [table[id] EXCEPT !.lastUsed = ex[e].usedAt] /\ id = ex[e].token
      <3>1. table[id] # None
        BY <1>1, <2>2 DEF LifeInv, Inv, TypeInv, Held
      <3>2. table[id] \in PatRecord /\ ex[e].usedAt \in Time
        BY <1>1, <3>1 DEF Maybe, LifeInv, Inv, TypeInv, Held
      <3>3. table'[id] \in PatRecord
        BY <2>2, <3>2 DEF PatRecord, Maybe
      <3>4. table'[id] # None
        BY <3>3, PatAssumption DEF PatAssumption
      <3>5. table'[id].revoked = table[id].revoked /\ table'[id].expires = table[id].expires
        BY <2>2, <3>2 DEF PatRecord
      <3>. QED BY <1>1, <3>1, <3>4, <3>5 DEF RowState, Expired
    <2>. QED BY <1>1, <2>1, <2>2 DEF Touch, Touched
  <1>3. RowMap' = RowMap
    BY <1>2 DEF RowMap
  <1>4. (\E code : Answer(e, code)) /\ pc'[e] = "done"
    BY <1>1 DEF Touch, Answer
  <1>5. UseMap' = [UseMap EXCEPT ![e] = UseState(e)'] /\ CallMap' = CallMap
    BY <1>1, <1>4, UseMoves
  <1>6. CASE ex[e].short # None
    <2>1. UseState(e)' = UseState(e)
      BY <1>1, <1>6 DEF UseState
    <2>2. UseMap' = UseMap
      BY <1>5, <2>1 DEF UseMap
    <2>. QED BY <1>3, <1>5, <2>2 DEF Life!vars
  <1>7. CASE ex[e].short = None
    <2>1. UseMap[e] # "minted" /\ UseState(e)' = "denied"
      BY <1>1, <1>4, <1>7 DEF UseMap, UseState
    <2>2. Life!Deny(e)
      BY <1>3, <1>5, <2>1 DEF Life!Deny, Life!Becomes
    <2>. QED BY <2>2 DEF Life!Next
  <1>. QED BY <1>6, <1>7

-----------------------------------------------------------------------------
(* The surroundings, and the theorem. *)

\* The clock expires rows and does nothing else.
LEMMA TickLife ==
  ASSUME LifeInv, Tick
  PROVE  Life!Next
  <1>1. /\ UNCHANGED <<table, pc, reply, ex>> /\ now' = now + 1 /\ now \in Nat
        /\ table \in [Creations -> Maybe(PatRecord)]
    BY DEF Tick, LifeInv, Inv, TypeInv, TypeOK, Time
  <1>2. CallMap' = CallMap
    BY <1>1 DEF CallMap, CallState
  <1>3. UseMap' = UseMap
    BY <1>1 DEF UseMap, UseState
  <1> DEFINE ids == {id \in Creations : RowMap[id] = "live" /\ RowMap'[id] # "live"}
  <1>4. ASSUME NEW id \in Creations
        PROVE  RowMap'[id] = IF id \in ids THEN "expired" ELSE RowMap[id]
    <2>1. RowMap[id] = RowState(table[id]) /\ RowMap'[id] = RowState(table[id])'
      BY DEF RowMap
    <2>2. table[id] # None => table[id].expires \in Nat
      BY <1>1 DEF Maybe, PatRecord, Time
    <2>3. table[id] # None /\ Expired(table[id]) => Expired(table[id])'
      BY <1>1, <2>2 DEF Expired
    <2>. QED BY <1>1, <2>1, <2>3 DEF RowState
  <1>5. RowMap' = [id \in Creations |-> IF id \in ids THEN "expired" ELSE RowMap[id]]
    BY <1>4 DEF RowMap
  <1>6. Life!Expire(ids)
    BY <1>2, <1>3, <1>5 DEF Life!Expire
  <1>. QED BY <1>6 DEF Life!Next

\* A restart ends exchanges and leaves calls without an answer.
LEMMA RestartLife ==
  ASSUME LifeInv, NEW config, Restart(config)
  PROVE  Life!Next
  <1>1. /\ UNCHANGED <<table, now, ex>> /\ pc \in [Requests -> Steps]
        /\ pc' = [r \in Requests |-> IF pc[r] = "idle" THEN "idle" ELSE "done"]
        /\ reply' = [r \in Requests |-> IF pc[r] \in {"idle", "done"} THEN reply[r] ELSE "lost"]
    BY DEF Restart, Change, LifeInv, Inv, TypeInv, TypeOK
  <1>2. ASSUME NEW r \in Management PROVE CallState(r)' = CallState(r)
    <2>1. r \in Requests /\ (pc[r] \notin {"idle", "done"} => reply[r] = "none")
      BY DEF Requests, LifeInv, Replied
    <2>. QED BY <1>1, <2>1 DEF CallState
  <1>3. ASSUME NEW e \in Exchanges
        PROVE  UseState(e)' = IF UseMap[e] \in {"open", "closed"} THEN "denied" ELSE UseMap[e]
    <2>1. e \in Requests /\ UseMap[e] = UseState(e)
      BY DEF Requests, UseMap
    <2>. QED BY <1>1, <2>1 DEF UseState
  <1>4. CallMap' = CallMap
    BY <1>2 DEF CallMap
  <1>5. UseMap' = [e \in Exchanges |->
                     IF UseMap[e] \in {"open", "closed"} THEN "denied" ELSE UseMap[e]]
    BY <1>3 DEF UseMap
  <1>6. Life!Crash
    BY <1>1, <1>4, <1>5, SameRows DEF Life!Crash
  <1>. QED BY <1>6 DEF Life!Next

\* Every step of PatService is a step of PatLife or none.
LEMMA StepLife == LifeInv /\ LifeInv' /\ [Next]_vars => [Life!Next]_(Life!vars)
  <1> SUFFICES ASSUME LifeInv, LifeInv', [Next]_vars
               PROVE  Life!Next \/ UNCHANGED Life!vars
    OBVIOUS
  <1>1. CASE UNCHANGED <<table, now, pc, reply, ex>>
    <2>1. CallMap' = CallMap
      BY <1>1 DEF CallMap, CallState
    <2>2. UseMap' = UseMap
      BY <1>1 DEF UseMap, UseState
    <2>. QED BY <1>1, <2>1, <2>2, SameRows DEF Life!vars
  <1>2. CASE Surroundings
    <2>1. Tick \/ (\E config \in Configs : Restart(config)) \/ UNCHANGED <<table, now, pc, reply, ex>>
      BY <1>2 DEF Surroundings, Change, RoleChange, MembershipChange, SessionChange, LinkChange
    <2>. QED BY <1>1, <2>1, TickLife, RestartLife
  <1>3. CASE \E c \in Creations : CreateStep(c)
    BY <1>3, CreateStepLife, InsertLife DEF CreateStep
  <1>4. CASE \E e \in Exchanges : ExchangeStep(e)
    BY <1>4, FindAndCheckLife, GrantLife, TouchLife DEF ExchangeStep
  <1>5. CASE Arrive
    BY <1>5, PresentBearerLife, PresentTokenLife DEF Arrive
  <1>6. CASE UNCHANGED vars
    BY <1>1, <1>6 DEF vars
  <1>. QED
    BY <1>2, <1>3, <1>4, <1>5, <1>6, ListStepLife, RevokeStepLife DEF Next, Finished

\* PatService implements PatLife, for every number of requests, owners and
\* resources: what pat_api.py and the exchange answer is what the abstract life of
\* a token allows, whatever interleaves, fails or restarts.
THEOREM ServiceImplementsLife == Spec => ImplementsPatLife
  <1>1. Init => Life!Init
    BY DEF Init, Life!Init, RowMap, RowState, CallMap, CallState, UseMap, UseState, NoExchange,
      Requests, Management, Life!Management
  <1>. QED
    BY <1>1, StepLife, SpecLifeInv, PTL DEF Spec, ImplementsPatLife, Life!Spec
=============================================================================
