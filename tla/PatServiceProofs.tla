-------------------------- MODULE PatServiceProofs --------------------------
(***************************************************************************)
(* Theorems about PatService, for every set of requests, owners, resources *)
(* and scopes, every configuration and every clock bound.                  *)
(***************************************************************************)
EXTENDS PatService, TLAPS

(***************************************************************************)
(* What a suspended request holds.  A management request past its header   *)
(* has a bearer; a creation past parse_create has its request, and at the  *)
(* insert its row; an exchange past its lookup has the row it read.        *)
(***************************************************************************)
Held ==
  /\ \A r \in Management : pc[r] \notin {"idle", "done"} => bearer[r] \in Bearer
  /\ \A c \in Creations :
       /\ pc[c] \in {"getlink", "postlink", "trial", "insert"} =>
            cr[c].want \in CreateRequest
       /\ pc[c] = "insert" => cr[c].row \in PatRecord
       /\ reply[c] = "201" => table[c] # None /\ pc[c] = "done"
  /\ \A e \in Exchanges :
       /\ ex[e].token # None => table[ex[e].token] # None
       /\ pc[e] \in {"check", "sign", "grant", "touch"} =>
            ex[e].token # None /\ ex[e].found \in PatRecord
       /\ pc[e] \in {"sign", "grant", "touch"} =>
            ex[e].entry \in Resources /\ ex[e].usedAt \in Time
       /\ pc[e] \in {"grant", "touch"} => ex[e].signedAt \in Time

TypeInv == TypeOK /\ Held

\* The initial states satisfy the typed invariant.
LEMMA InitType == Init => TypeInv
  <1> SUFFICES ASSUME Init PROVE TypeInv
    OBVIOUS
  <1>1. roles \in [Owners -> [Resources -> SUBSET Scopes]] /\ member \in [Owners -> SUBSET Orgs]
    BY PatAssumption DEF Init, PatAssumption
  <1>2. session \in [Owners -> Session]
    BY <1>1 DEF Init, Session
  <1>3. cr \in [Creations -> CreateLocals]
    BY DEF Init, NoCreate, CreateLocals, Maybe
  <1>4. ex \in [Exchanges -> ExchangeLocals]
    BY DEF Init, NoExchange, ExchangeLocals, Maybe
  <1>5. TypeOK
    BY <1>1, <1>2, <1>3, <1>4 DEF Init, TypeOK, Maybe, Time, Steps, Replies
  <1>6. Held
    BY DEF Init, Held, NoExchange, Requests, Management
  <1>. QED BY <1>5, <1>6 DEF TypeInv

\* The control state stays typed by whatever answer or step follows.
Control == pc \in [Requests -> Steps] /\ reply \in [Requests -> Replies]

\* Moving one request's control point, or answering it, keeps pc and reply typed.
LEMMA ControlMoves ==
  ASSUME Control, NEW r \in Requests, NEW code \in Replies, NEW step \in Steps,
         Answer(r, code) \/ GoTo(r, step)
  PROVE  Control'
  BY DEF Control, Answer, GoTo, Steps

\* PatService.authenticate up to its await: picking the bearer keeps types.
LEMMA PresentBearerType ==
  ASSUME TypeInv, NEW r \in Management, PresentBearer(r)
  PROVE  TypeInv'
  <1>1. Control'
    BY ControlMoves DEF TypeInv, TypeOK, Control, PresentBearer, Steps, Replies, Requests,
      Answer, GoTo
  <1>2. bearer' \in [Management -> Maybe(Bearer)]
    BY DEF TypeInv, TypeOK, PresentBearer, Presentable, Maybe
  <1>3. TypeOK'
    BY <1>1, <1>2 DEF TypeInv, TypeOK, Control, PresentBearer, upstream
  <1>4. Held'
    BY DEF TypeInv, TypeOK, Held, PresentBearer, Presentable, Answer, GoTo, upstream,
      Requests, Management, Maybe
  <1>. QED BY <1>3, <1>4 DEF TypeInv

\* A creation's step moves its own control and locals only.
CreateMove(c, step) ==
  /\ \E code \in Replies : code # "201" /\ (Answer(c, code) \/ GoTo(c, step))
  /\ \E new \in CreateLocals :
       /\ cr' = [cr EXCEPT ![c] = new]
       /\ pc'[c] \in {"getlink", "postlink", "trial", "insert"} => new.want \in CreateRequest
       /\ pc'[c] = "insert" => new.row \in PatRecord

\* A step of a creation that changes its own locals only keeps types.
LEMMA CreateMoveType ==
  ASSUME TypeInv, NEW c \in Creations, NEW step \in Steps, CreateMove(c, step),
         bearer[c] \in Bearer, reply[c] # "201",
         UNCHANGED <<cfg, now, table, changes, bearer, ex, target, shown>>,
         link' \in [Owners -> {"none", "own", "foreign"}],
         UNCHANGED <<roles, member, session>>
  PROVE  TypeInv'
  <1>1. Control'
    BY ControlMoves DEF TypeInv, TypeOK, Control, CreateMove, Requests, Management
  <1>2. TypeOK'
    BY <1>1 DEF TypeInv, TypeOK, Control, CreateMove
  <1>3. \A r \in Requests \ {c} : pc'[r] = pc[r] /\ reply'[r] = reply[r]
    BY DEF TypeInv, TypeOK, CreateMove, Answer, GoTo
  <1>4. reply'[c] # "201"
    BY DEF TypeInv, TypeOK, CreateMove, Answer, GoTo, Requests, Management
  <1>5. \A r \in Management :
          pc'[r] \notin {"idle", "done"} => bearer'[r] \in Bearer
    BY <1>3 DEF TypeInv, Held, Requests
  <1>6. ASSUME NEW d \in Creations
        PROVE  /\ pc'[d] \in {"getlink", "postlink", "trial", "insert"} =>
                    cr'[d].want \in CreateRequest
               /\ pc'[d] = "insert" => cr'[d].row \in PatRecord
               /\ reply'[d] = "201" => table'[d] # None /\ pc'[d] = "done"
    <2>1. CASE d = c
      BY <1>4, <2>1 DEF TypeInv, TypeOK, CreateMove
    <2>2. CASE d # c
      <3>1. pc'[d] = pc[d] /\ reply'[d] = reply[d] /\ cr'[d] = cr[d]
        BY <1>3, <2>2 DEF TypeInv, TypeOK, CreateMove, Requests, Management
      <3>. QED BY <3>1 DEF TypeInv, Held
    <2>. QED BY <2>1, <2>2
  <1>7. \A e \in Exchanges : pc'[e] = pc[e]
    BY <1>3, PatAssumption DEF PatAssumption, Requests, Management
  <1>8. Held'
    BY <1>5, <1>6, <1>7 DEF TypeInv, Held
  <1>. QED BY <1>2, <1>8 DEF TypeInv

\* create_token's introspection, refusals included, keeps types.
LEMMA AuthenticateCreateType ==
  ASSUME TypeInv, NEW c \in Creations, AuthenticateCreate(c)
  PROVE  TypeInv'
  <1> DEFINE orgs == session[bearer[c].owner].orgs
             new == [cr[c] EXCEPT !.orgs = orgs]
  <1>1. /\ pc[c] = "introspect"
        /\ bearer[c] \in Bearer
        /\ reply[c] # "201"
        /\ cr \in [Creations -> CreateLocals]
        /\ orgs \in SUBSET Orgs
        /\ c \in Requests
    BY DEF AuthenticateCreate, Authenticate, TypeInv, TypeOK, Held, Management, Requests,
      Session, Bearer
  <1>2. CreateMove(c, "body")
    <2>1. CASE UNCHANGED cr /\ (Answer(c, "502") \/ Answer(c, "401") \/ Answer(c, "403"))
      BY <1>1, <2>1 DEF CreateMove, Answer, TypeInv, TypeOK, Replies, Requests, Management
    <2>2. CASE cr' = [cr EXCEPT ![c].orgs = orgs] /\ GoTo(c, "body")
      <3>1. new \in CreateLocals /\ cr' = [cr EXCEPT ![c] = new]
        BY <1>1, <2>2 DEF CreateLocals
      <3>2. pc'[c] = "body"
        BY <1>1, <2>2 DEF GoTo, TypeInv, TypeOK
      <3>. QED BY <2>2, <3>1, <3>2 DEF CreateMove, Replies
    <2>. QED
      BY <2>1, <2>2 DEF AuthenticateCreate, Authenticate, UpstreamDown
  <1>3. UNCHANGED <<cfg, now, table, upstream, changes, bearer, ex, target, shown>>
    BY DEF AuthenticateCreate, Authenticate
  <1>. QED
    BY <1>1, <1>2, <1>3, CreateMoveType DEF upstream, Steps, TypeInv, TypeOK

\* A refused creation moves as CreateMoveType asks.
LEMMA RefuseCreateMove ==
  ASSUME TypeInv, NEW c \in Creations, NEW code \in Replies \ {"201"}, RefuseCreate(c, code),
         NEW step \in Steps
  PROVE  CreateMove(c, step)
  <1>1. NoCreate \in CreateLocals
    BY DEF NoCreate, CreateLocals, Maybe
  <1>2. pc'[c] = "done"
    BY DEF RefuseCreate, Answer, TypeInv, TypeOK, Requests, Management
  <1>. QED BY <1>1, <1>2 DEF RefuseCreate, CreateMove

\* The body, refused, cut off or let in, keeps types.
LEMMA ReadBodyType ==
  ASSUME TypeInv, NEW c \in Creations, ReadBody(c)
  PROVE  TypeInv'
  <1> DEFINE orgs == cr[c].orgs
  <1>1. /\ bearer[c] \in Bearer
        /\ reply[c] # "201"
        /\ cr \in [Creations -> CreateLocals]
        /\ orgs \in SUBSET Orgs
        /\ c \in Requests
    BY DEF ReadBody, TypeInv, TypeOK, Held, Management, Requests, CreateLocals
  <1>2. CreateMove(c, "getlink")
    <2>1. CASE \E code \in {"lost", "400", "403"} : RefuseCreate(c, code)
      BY <2>1, RefuseCreateMove DEF Replies, Steps
    <2>2. ASSUME NEW body \in Body, NEW t \in Orgs, GoTo(c, "getlink"),
                 cr' = [cr EXCEPT ![c] = Admitted(orgs, body, t)]
          PROVE  CreateMove(c, "getlink")
      <3>1. cfg.offered \in SUBSET Scopes
        BY PatAssumption DEF PatAssumption, TypeInv, TypeOK, Config
      <3>2. body.days \in Nat
        BY PatAssumption DEF PatAssumption, Body
      <3>3. /\ Admitted(orgs, body, t) \in CreateLocals
            /\ Admitted(orgs, body, t).want \in CreateRequest
        BY <1>1, <3>1, <3>2 DEF Admitted, CreateLocals, CreateRequest, Body, Maybe
      <3>4. pc'[c] = "getlink"
        BY <1>1, <2>2 DEF GoTo, TypeInv, TypeOK
      <3>. QED BY <2>2, <3>3, <3>4 DEF CreateMove, Replies
    <2>. QED
      BY <2>1, <2>2 DEF ReadBody
  <1>3. UNCHANGED <<cfg, now, table, upstream, changes, bearer, ex, target, shown>>
    BY DEF ReadBody
  <1>. QED
    BY <1>1, <1>2, <1>3, CreateMoveType DEF upstream, Steps, TypeInv, TypeOK

\* A creation that goes on with its locals as they are moves likewise.
LEMMA KeepLocalsMove ==
  ASSUME TypeInv, NEW c \in Creations, NEW step \in {"postlink", "trial"}, GoTo(c, step),
         UNCHANGED cr, pc[c] \in {"getlink", "postlink", "trial"}
  PROVE  CreateMove(c, step)
  <1>1. pc'[c] = step /\ cr[c] \in CreateLocals /\ cr' = [cr EXCEPT ![c] = cr[c]]
    BY DEF GoTo, TypeInv, TypeOK, Requests, Management
  <1>2. cr[c].want \in CreateRequest
    BY DEF TypeInv, Held
  <1>. QED BY <1>1, <1>2 DEF CreateMove, Replies

\* ensure_link's read keeps types.
LEMMA EnsureLinkGetType ==
  ASSUME TypeInv, NEW c \in Creations, EnsureLinkGet(c)
  PROVE  TypeInv'
  <1>1. pc[c] = "getlink" /\ bearer[c] \in Bearer /\ reply[c] # "201"
    BY DEF EnsureLinkGet, TypeInv, Held, Management
  <1>2. CreateMove(c, "trial") \/ CreateMove(c, "postlink")
    BY <1>1, RefuseCreateMove, KeepLocalsMove DEF EnsureLinkGet, UpstreamDown, Replies, Steps
  <1>. QED
    BY <1>1, <1>2, CreateMoveType DEF EnsureLinkGet, upstream, Steps, TypeInv, TypeOK

\* ensure_link's post keeps types.
LEMMA EnsureLinkPostType ==
  ASSUME TypeInv, NEW c \in Creations, EnsureLinkPost(c)
  PROVE  TypeInv'
  <1>1. pc[c] = "postlink" /\ bearer[c] \in Bearer /\ reply[c] # "201"
    BY DEF EnsureLinkPost, TypeInv, Held, Management
  <1>2. CreateMove(c, "trial")
    BY <1>1, RefuseCreateMove, KeepLocalsMove DEF EnsureLinkPost, UpstreamDown, Replies, Steps
  <1>3. link' \in [Owners -> {"none", "own", "foreign"}]
    BY DEF EnsureLinkPost, TypeInv, TypeOK
  <1>. QED
    BY <1>1, <1>2, <1>3, CreateMoveType DEF EnsureLinkPost, Steps

\* The upstream grants a subset of the scopes.
LEMMA GrantedScopesType ==
  ASSUME TypeInv, NEW o \in Owners, NEW x \in Resources, NEW asked \in SUBSET Scopes
  PROVE  GrantedScopes(o, x, asked) \in SUBSET Scopes
  BY DEF GrantedScopes, TypeInv, TypeOK

\* _granted_scopes: the locals after one more trial are creation locals.
LEMMA TriedType ==
  ASSUME TypeInv, NEW c \in Creations, pc[c] = "trial", NEW u \in Urls,
         NEW granted \in SUBSET Scopes
  PROVE  /\ Tried(c, u, granted) \in CreateLocals
         /\ Tried(c, u, granted).want = cr[c].want
         /\ cr[c].todo \ {u} = {} => Tried(c, u, granted).row \in PatRecord
  <1>1. cr[c].want \in CreateRequest /\ bearer[c] \in Bearer /\ cr[c] \in CreateLocals
    BY DEF TypeInv, TypeOK, Held, Management
  <1>2. Keep(c, granted) \in SUBSET Scopes
    BY <1>1 DEF Keep, CreateLocals, CreateRequest
  <1>3. cfg.realm \in Realms /\ now \in Nat
    BY PatAssumption DEF PatAssumption, TypeInv, TypeOK, Config, Time
  <1>4. NewRow(c, Keep(c, granted)) \in PatRecord
    BY <1>1, <1>2, <1>3 DEF NewRow, PatRecord, CreateRequest, Bearer, Maybe, Time
  <1>. QED BY <1>1, <1>2, <1>4 DEF Tried, CreateLocals, Maybe

\* _trial_exchange, granted, refused or failed, keeps types.
LEMMA TrialExchangeType ==
  ASSUME TypeInv, NEW c \in Creations, TrialExchange(c)
  PROVE  TypeInv'
  <1>1. /\ pc[c] = "trial" /\ bearer[c] \in Bearer /\ reply[c] # "201"
        /\ cr[c] \in CreateLocals /\ cr[c].want \in CreateRequest
        /\ cr \in [Creations -> CreateLocals]
    BY DEF TrialExchange, TypeInv, TypeOK, Held, Management
  <1>2. CreateMove(c, "trial") \/ CreateMove(c, "insert")
    <2>1. CASE RefuseCreate(c, UpstreamDown) \/ RefuseCreate(c, "403")
      BY <2>1, RefuseCreateMove DEF UpstreamDown, Replies, Steps
    <2>2. ASSUME NEW u \in cr[c].todo, NEW granted,
                 granted = GrantedScopes(bearer[c].owner, Canon[u], cr[c].permitted),
                 cr' = [cr EXCEPT ![c] = Tried(c, u, granted)],
                 GoTo(c, IF cr[c].todo \ {u} = {} THEN "insert" ELSE "trial")
          PROVE  CreateMove(c, "trial") \/ CreateMove(c, "insert")
      <3>1. u \in Urls /\ Canon[u] \in Resources /\ bearer[c].owner \in Owners
            /\ cr[c].permitted \in SUBSET Scopes
        BY <1>1, PatAssumption DEF PatAssumption, CreateLocals, Bearer
      <3>2. granted \in SUBSET Scopes
        BY <2>2, <3>1, GrantedScopesType
      <3>3. /\ Tried(c, u, granted) \in CreateLocals
            /\ Tried(c, u, granted).want \in CreateRequest
            /\ cr[c].todo \ {u} = {} => Tried(c, u, granted).row \in PatRecord
        BY <1>1, <3>1, <3>2, TriedType
      <3>4. pc'[c] = IF cr[c].todo \ {u} = {} THEN "insert" ELSE "trial"
        BY <2>2 DEF GoTo, TypeInv, TypeOK, Requests, Management
      <3>. QED BY <2>2, <3>3, <3>4 DEF CreateMove, Replies
    <2>. QED BY <2>1, <2>2 DEF TrialExchange
  <1>. QED
    BY <1>1, <1>2, CreateMoveType DEF TrialExchange, upstream, Steps, TypeInv, TypeOK

\* A statement that changes the table keeps every row and ends its request.
LEMMA TableMoveType ==
  ASSUME TypeInv, NEW r \in Requests, NEW code \in Replies, Answer(r, code),
         table' \in [Creations -> Maybe(PatRecord)],
         \A id \in Creations : table[id] # None => table'[id] # None,
         code = "201" => r \in Creations /\ table'[r] # None,
         cr' \in [Creations -> CreateLocals],
         \A c \in Creations : c # r => cr'[c] = cr[c],
         target' \in [Revocations -> Maybe(Creations)],
         UNCHANGED <<cfg, now, upstream, changes, bearer, ex, shown>>
  PROVE  TypeInv'
  <1>1. Control'
    BY ControlMoves DEF TypeInv, TypeOK, Control, Steps
  <1>2. TypeOK'
    BY <1>1 DEF TypeInv, TypeOK, Control, upstream
  <1>3. \A q \in Requests : q # r => pc'[q] = pc[q] /\ reply'[q] = reply[q]
    BY DEF TypeInv, TypeOK, Answer
  <1>4. pc'[r] = "done" /\ reply'[r] = code
    BY DEF TypeInv, TypeOK, Answer
  <1>5. \A q \in Management : pc'[q] \notin {"idle", "done"} => bearer'[q] \in Bearer
    BY <1>3, <1>4 DEF TypeInv, Held, Requests
  <1>6. \A d \in Creations :
               /\ pc'[d] \in {"getlink", "postlink", "trial", "insert"} =>
                    cr'[d].want \in CreateRequest
               /\ pc'[d] = "insert" => cr'[d].row \in PatRecord
               /\ reply'[d] = "201" => table'[d] # None /\ pc'[d] = "done"
    BY <1>3, <1>4 DEF TypeInv, Held, Requests, Management
  <1>7. \A e \in Exchanges : ex[e].token \in Maybe(Creations)
    BY DEF TypeInv, TypeOK, ExchangeLocals
  <1>8. \A e \in Exchanges :
       /\ ex'[e].token # None => table'[ex'[e].token] # None
       /\ pc'[e] \in {"check", "sign", "grant", "touch"} =>
            ex'[e].token # None /\ ex'[e].found \in PatRecord
       /\ pc'[e] \in {"sign", "grant", "touch"} =>
            ex'[e].entry \in Resources /\ ex'[e].usedAt \in Time
       /\ pc'[e] \in {"grant", "touch"} => ex'[e].signedAt \in Time
    BY <1>3, <1>4, <1>7 DEF TypeInv, Held, Requests, Maybe
  <1>9. Held'
    BY <1>5, <1>6, <1>8 DEF Held
  <1>. QED BY <1>2, <1>9 DEF TypeInv

\* The INSERT, committed with or without an answer, keeps types.
LEMMA InsertType ==
  ASSUME TypeInv, NEW c \in Creations, Insert(c)
  PROVE  TypeInv'
  <1>1. /\ cr[c].row \in PatRecord /\ cr[c].row # None
        /\ cr \in [Creations -> CreateLocals] /\ NoCreate \in CreateLocals
        /\ table \in [Creations -> Maybe(PatRecord)]
        /\ c \in Requests
        /\ target \in [Revocations -> Maybe(Creations)]
    BY PatAssumption DEF Insert, TypeInv, TypeOK, Held, Requests, Management, PatAssumption,
      NoCreate, CreateLocals, Maybe
  <1>2. table' \in [Creations -> Maybe(PatRecord)] /\
        \A id \in Creations : table[id] # None => table'[id] # None
    BY <1>1 DEF Insert, Maybe
  <1>3. cr' \in [Creations -> CreateLocals] /\ \A d \in Creations : d # c => cr'[d] = cr[d]
    BY <1>1 DEF Insert, RefuseCreate
  <1>4. UNCHANGED <<cfg, now, upstream, changes, bearer, ex, target, shown>>
    BY DEF Insert
  <1>5. \/ Answer(c, "201") /\ table'[c] # None
        \/ Answer(c, "500")
    BY <1>1 DEF Insert, RefuseCreate, DbDown
  <1>. QED
    BY <1>1, <1>2, <1>3, <1>4, <1>5, TableMoveType DEF Replies

\* The revoking UPDATE keeps types.
LEMMA RevokeUpdateType ==
  ASSUME TypeInv, NEW v \in Revocations, RevokeUpdate(v)
  PROVE  TypeInv'
  <1>1. PICK id \in Creations :
          /\ target' = [target EXCEPT ![v] = id]
          /\ \/ Revocable(v, id) /\ table' = [table EXCEPT ![id].revoked = now]
             \/ UNCHANGED table
    BY DEF RevokeUpdate
  <1>2. /\ table \in [Creations -> Maybe(PatRecord)] /\ now \in Time
        /\ cr \in [Creations -> CreateLocals] /\ v \in Requests /\ v \notin Creations
    BY PatAssumption DEF TypeInv, TypeOK, Requests, Management, PatAssumption
  <1>3. ASSUME Revocable(v, id)
        PROVE  [table[id] EXCEPT !.revoked = now] \in PatRecord
    BY <1>2, <1>3 DEF Revocable, OwnRow, PatRecord, Maybe
  <1>4. table' \in [Creations -> Maybe(PatRecord)] /\
        \A d \in Creations : table[d] # None => table'[d] # None
    BY <1>1, <1>2, <1>3, PatAssumption DEF Maybe, PatAssumption
  <1>5. target' \in [Revocations -> Maybe(Creations)]
    BY <1>1 DEF TypeInv, TypeOK, Maybe
  <1>6. UNCHANGED <<cfg, now, upstream, changes, bearer, cr, ex, shown>>
    BY DEF RevokeUpdate
  <1>7. \E code \in Replies \ {"201"} : Answer(v, code)
    BY DEF RevokeUpdate, Replies, DbDown
  <1>. QED
    BY <1>2, <1>4, <1>5, <1>6, <1>7, TableMoveType

\* The UPDATE of last_used_at keeps types.
LEMMA TouchType ==
  ASSUME TypeInv, NEW e \in Exchanges, Touch(e)
  PROVE  TypeInv'
  <1>1. /\ ex[e].token \in Creations /\ table[ex[e].token] \in PatRecord
        /\ ex[e].usedAt \in Time
        /\ table \in [Creations -> Maybe(PatRecord)]
        /\ cr \in [Creations -> CreateLocals] /\ e \in Requests /\ e \notin Creations
        /\ target \in [Revocations -> Maybe(Creations)]
    BY PatAssumption DEF Touch, TypeInv, TypeOK, Held, Requests, Management, PatAssumption,
      ExchangeLocals, Maybe
  <1>2. Touched(e) \in PatRecord /\ Touched(e) # None
    BY <1>1, PatAssumption DEF Touched, PatRecord, Maybe, PatAssumption
  <1>3. table' \in [Creations -> Maybe(PatRecord)] /\
        \A d \in Creations : table[d] # None => table'[d] # None
    BY <1>1, <1>2 DEF Touch, Maybe
  <1>4. UNCHANGED <<cfg, now, upstream, changes, bearer, cr, ex, target, shown>>
    BY DEF Touch
  <1>5. \E code \in Replies \ {"201"} : Answer(e, code)
    BY DEF Touch, Replies, DbDown
  <1>. QED
    BY <1>1, <1>3, <1>4, <1>5, TableMoveType

\* A listing, or a revocation before its UPDATE, moves control alone.
LEMMA ReadOnlyType ==
  ASSUME TypeInv, NEW r \in Listings \cup Revocations, bearer[r] \in Bearer,
         \E code \in Replies \ {"201"}, step \in Steps : Answer(r, code) \/ GoTo(r, step),
         shown' \in [Listings -> SUBSET Creations],
         UNCHANGED <<cfg, now, table, upstream, changes, bearer, cr, ex, target>>
  PROVE  TypeInv'
  <1>1. Control'
    BY ControlMoves DEF TypeInv, TypeOK, Control, Requests, Management
  <1>2. TypeOK'
    BY <1>1 DEF TypeInv, TypeOK, Control, upstream
  <1>3. \A q \in Requests : q # r => pc'[q] = pc[q] /\ reply'[q] = reply[q]
    BY DEF TypeInv, TypeOK, Answer, GoTo
  <1>4. r \notin Creations /\ r \notin Exchanges
    BY PatAssumption DEF PatAssumption, Management
  <1>5. Held'
    BY <1>3, <1>4 DEF TypeInv, Held, Requests, Management
  <1>. QED BY <1>2, <1>5 DEF TypeInv

\* list_tokens and revoke_token after introspection keep types.
LEMMA AuthenticateReadType ==
  ASSUME TypeInv, NEW r \in Listings \cup Revocations,
         AuthenticateList(r) \/ AuthenticateRevoke(r)
  PROVE  TypeInv'
  <1>1. bearer[r] \in Bearer
    BY DEF AuthenticateList, AuthenticateRevoke, Authenticate, TypeInv, Held, Management
  <1>2. \E code \in Replies \ {"201"}, step \in Steps : Answer(r, code) \/ GoTo(r, step)
    BY DEF AuthenticateList, AuthenticateRevoke, Authenticate, Replies, Steps, UpstreamDown
  <1>3. /\ shown' \in [Listings -> SUBSET Creations]
        /\ UNCHANGED <<cfg, now, table, upstream, changes, bearer, cr, ex, target>>
    BY DEF AuthenticateList, AuthenticateRevoke, Authenticate, TypeInv, TypeOK
  <1>. QED BY <1>1, <1>2, <1>3, ReadOnlyType

\* The SELECT of an owner's rows keeps types.
LEMMA ListForOwnerType ==
  ASSUME TypeInv, NEW l \in Listings, ListForOwner(l)
  PROVE  TypeInv'
  <1>1. bearer[l] \in Bearer
    BY DEF ListForOwner, TypeInv, Held, Management
  <1>2. \E code \in Replies \ {"201"}, step \in Steps : Answer(l, code) \/ GoTo(l, step)
    BY DEF ListForOwner, Replies, Steps, DbDown
  <1>3. shown' \in [Listings -> SUBSET Creations]
    BY DEF ListForOwner, TypeInv, TypeOK
  <1>. QED BY <1>1, <1>2, <1>3, ReadOnlyType DEF ListForOwner

\* An exchange's step before its UPDATE moves its own control and locals only.
ExchangeHolds(step, local) ==
  /\ local.token # None => table[local.token] # None
  /\ step \in {"check", "sign", "grant", "touch"} => local.token # None /\ local.found \in PatRecord
  /\ step \in {"sign", "grant", "touch"} =>
       local.entry \in Resources /\ local.usedAt \in Time
  /\ step \in {"grant", "touch"} => local.signedAt \in Time

\* A step of an exchange that changes its own locals only keeps types.
LEMMA ExchangeMoveType ==
  ASSUME TypeInv, NEW e \in Exchanges, NEW code \in Replies, NEW step \in Steps,
         Answer(e, code) \/ GoTo(e, step),
         NEW new \in ExchangeLocals, ex' = [ex EXCEPT ![e] = new],
         ExchangeHolds(pc'[e], new),
         UNCHANGED <<cfg, now, table, upstream, changes, bearer, cr, target, shown>>
  PROVE  TypeInv'
  <1>1. Control'
    BY ControlMoves DEF TypeInv, TypeOK, Control, Requests
  <1>2. TypeOK'
    BY <1>1 DEF TypeInv, TypeOK, Control, upstream
  <1>3. \A q \in Requests : q # e => pc'[q] = pc[q] /\ reply'[q] = reply[q]
    BY DEF TypeInv, TypeOK, Answer, GoTo
  <1>4. \A d \in Management : pc'[d] = pc[d] /\ reply'[d] = reply[d]
    BY <1>3, PatAssumption DEF PatAssumption, Requests
  <1>5. ASSUME NEW f \in Exchanges PROVE ExchangeHolds(pc'[f], ex'[f])
    <2>1. CASE f = e
      BY <2>1 DEF TypeInv, TypeOK
    <2>2. CASE f # e
      BY <1>3, <2>2 DEF TypeInv, TypeOK, Held, ExchangeHolds, Requests
    <2>. QED BY <2>1, <2>2
  <1>6. Held'
    BY <1>4, <1>5 DEF TypeInv, Held, ExchangeHolds, Management
  <1>. QED BY <1>2, <1>6 DEF TypeInv

\* A refused exchange keeps types.
LEMMA RefuseExchangeType ==
  ASSUME TypeInv, NEW e \in Exchanges, NEW code \in Replies, RefuseExchange(e, code),
         UNCHANGED <<cfg, now, table, upstream, changes, bearer, cr, target, shown>>
  PROVE  TypeInv'
  <1> DEFINE new == [NoExchange EXCEPT !.token = ex[e].token, !.late = ex[e].late]
  <1>1. ex[e] \in ExchangeLocals
    BY DEF TypeInv, TypeOK
  <1>2. new \in ExchangeLocals /\ new.token = ex[e].token
    BY <1>1 DEF NoExchange, ExchangeLocals, Maybe
  <1>3. ex' = [ex EXCEPT ![e] = new] /\ Answer(e, code)
    BY DEF RefuseExchange
  <1>4. pc'[e] = "done"
    BY DEF RefuseExchange, Answer, TypeInv, TypeOK, Requests
  <1> HIDE DEF new
  <1>5. ExchangeHolds(pc'[e], new)
    BY <1>2, <1>4 DEF ExchangeHolds, TypeInv, Held
  <1>. QED BY <1>2, <1>3, <1>5, ExchangeMoveType DEF Steps

\* exchange up to the lookup keeps types.
LEMMA PresentTokenType ==
  ASSUME TypeInv, NEW e \in Exchanges, PresentToken(e)
  PROVE  TypeInv'
  <1>1. /\ ex[e] \in ExchangeLocals /\ ex \in [Exchanges -> ExchangeLocals]
        /\ UNCHANGED <<cfg, now, table, upstream, changes, bearer, cr, target, shown>>
        /\ e \in Requests /\ pc \in [Requests -> Steps]
    BY DEF TypeInv, TypeOK, PresentToken, Requests
  <1>2. CASE UNCHANGED ex /\ (Answer(e, "invalid_request") \/ Answer(e, "invalid_grant"))
    <2>1. ex' = [ex EXCEPT ![e] = ex[e]] /\ pc'[e] = "done"
      BY <1>1, <1>2 DEF Answer
    <2>2. ExchangeHolds(pc'[e], ex[e])
      BY <2>1 DEF ExchangeHolds, TypeInv, Held
    <2>. QED BY <1>1, <1>2, <2>1, <2>2, ExchangeMoveType DEF Steps, Replies
  <1>3. ASSUME NEW t \in Maybe({c \in Creations : reply[c] = "201"}), NEW u \in Maybe(Urls),
               ex' = [ex EXCEPT ![e].token = t, ![e].resource = u,
                                ![e].late = t # None /\ Dead(table[t])],
               GoTo(e, "find")
        PROVE  TypeInv'
    <2> DEFINE late == t # None /\ Dead(table[t])
               new == [ex[e] EXCEPT !.token = t, !.resource = u, !.late = late]
    <2>1. late \in BOOLEAN
      BY DEF Dead, Expired
    <2>2. t \in Maybe(Creations) /\ (t # None => table[t] # None)
      BY DEF TypeInv, Held, Maybe
    <2> HIDE DEF late
    <2>3. new \in ExchangeLocals /\ new.token = t
      BY <1>1, <2>1, <2>2 DEF ExchangeLocals
    <2>4. ex' = [ex EXCEPT ![e] = new]
      BY <1>1, <1>3 DEF ExchangeLocals, late
    <2>5. pc'[e] = "find"
      BY <1>1, <1>3 DEF GoTo
    <2> HIDE DEF new
    <2>6. ExchangeHolds(pc'[e], new)
      BY <2>2, <2>3, <2>5 DEF ExchangeHolds
    <2>. QED BY <1>1, <1>3, <2>3, <2>4, <2>6, ExchangeMoveType DEF Steps, Replies
  <1>. QED BY <1>2, <1>3 DEF PresentToken

\* The lookup by hash keeps types.
LEMMA FindByHashType ==
  ASSUME TypeInv, NEW e \in Exchanges, FindByHash(e)
  PROVE  TypeInv'
  <1>1. /\ ex[e] \in ExchangeLocals /\ ex \in [Exchanges -> ExchangeLocals]
        /\ UNCHANGED <<cfg, now, table, upstream, changes, bearer, cr, target, shown>>
        /\ e \in Requests /\ pc \in [Requests -> Steps]
    BY DEF TypeInv, TypeOK, FindByHash, Requests
  <1>2. CASE RefuseExchange(e, DbDown) \/ RefuseExchange(e, "invalid_grant")
    BY <1>1, <1>2, RefuseExchangeType DEF DbDown, Replies
  <1>3. CASE /\ ex[e].token # None
             /\ ex' = [ex EXCEPT ![e].found = table[ex[e].token]]
             /\ GoTo(e, "check")
    <2> DEFINE new == [ex[e] EXCEPT !.found = table[ex[e].token]]
    <2>1. table[ex[e].token] \in PatRecord /\ table[ex[e].token] # None
      BY <1>1, <1>3 DEF TypeInv, TypeOK, Held, ExchangeLocals, Maybe
    <2>2. new \in ExchangeLocals /\ new.token = ex[e].token /\ new.found \in PatRecord
      BY <1>1, <2>1 DEF ExchangeLocals, Maybe
    <2>3. ex' = [ex EXCEPT ![e] = new]
      BY <1>1, <1>3
    <2>4. pc'[e] = "check"
      BY <1>1, <1>3 DEF GoTo
    <2> HIDE DEF new
    <2>5. ExchangeHolds(pc'[e], new)
      BY <1>3, <2>1, <2>2, <2>4 DEF ExchangeHolds
    <2>. QED BY <1>1, <1>3, <2>2, <2>3, <2>5, ExchangeMoveType DEF Steps, Replies
  <1>. QED BY <1>2, <1>3 DEF FindByHash

\* The checks between lookup and grant keep types.
LEMMA CheckRowType ==
  ASSUME TypeInv, NEW e \in Exchanges, CheckRow(e)
  PROVE  TypeInv'
  <1>1. /\ ex[e] \in ExchangeLocals /\ ex \in [Exchanges -> ExchangeLocals]
        /\ UNCHANGED <<cfg, now, table, upstream, changes, bearer, cr, target, shown>>
        /\ e \in Requests /\ pc \in [Requests -> Steps] /\ now \in Time
        /\ ExchangeHolds("check", ex[e])
    BY DEF TypeInv, TypeOK, CheckRow, Requests, ExchangeHolds, Held
  <1>2. CASE \E code \in {"invalid_grant", "resource_required", "invalid_target"} :
               RefuseExchange(e, code)
    BY <1>1, <1>2, RefuseExchangeType DEF Replies
  <1>3. ASSUME NEW x \in Resources, GoTo(e, "sign"),
               ex' = [ex EXCEPT ![e].entry = x, ![e].usedAt = now]
        PROVE  TypeInv'
    <2> DEFINE new == [ex[e] EXCEPT !.entry = x, !.usedAt = now]
    <2>1. /\ new \in ExchangeLocals /\ new.token = ex[e].token /\ new.found = ex[e].found
          /\ new.entry = x /\ new.usedAt = now
      BY <1>1 DEF ExchangeLocals, Maybe
    <2>2. ex' = [ex EXCEPT ![e] = new]
      BY <1>1, <1>3
    <2>3. pc'[e] = "sign"
      BY <1>1, <1>3 DEF GoTo
    <2> HIDE DEF new
    <2>4. ExchangeHolds(pc'[e], new)
      BY <1>1, <2>1, <2>3 DEF ExchangeHolds
    <2>. QED BY <1>1, <1>3, <2>1, <2>2, <2>4, ExchangeMoveType DEF Steps, Replies
  <1>. QED BY <1>2, <1>3 DEF CheckRow

\* The signature keeps types.
LEMMA SignType ==
  ASSUME TypeInv, NEW e \in Exchanges, Sign(e)
  PROVE  TypeInv'
  <1> DEFINE new == [ex[e] EXCEPT !.signedAt = now]
  <1>1. /\ ex[e] \in ExchangeLocals /\ ex \in [Exchanges -> ExchangeLocals]
        /\ UNCHANGED <<cfg, now, table, upstream, changes, bearer, cr, target, shown>>
        /\ e \in Requests /\ pc \in [Requests -> Steps] /\ now \in Time
        /\ ExchangeHolds("sign", ex[e])
    BY DEF TypeInv, TypeOK, Sign, Requests, ExchangeHolds, Held
  <1>2. /\ new \in ExchangeLocals /\ new.token = ex[e].token /\ new.found = ex[e].found
        /\ new.entry = ex[e].entry /\ new.usedAt = ex[e].usedAt /\ new.signedAt = now
    BY <1>1 DEF ExchangeLocals, Maybe
  <1>3. ex' = [ex EXCEPT ![e] = new] /\ GoTo(e, "grant")
    BY <1>1 DEF Sign
  <1>4. pc'[e] = "grant"
    BY <1>1, <1>3 DEF GoTo
  <1> HIDE DEF new
  <1>5. ExchangeHolds(pc'[e], new)
    BY <1>1, <1>2, <1>4 DEF ExchangeHolds
  <1>. QED BY <1>1, <1>2, <1>3, <1>5, ExchangeMoveType DEF Steps, Replies

\* The short token the upstream mints is one.
LEMMA MintType ==
  ASSUME TypeInv, NEW e \in Exchanges, pc[e] = "grant"
  PROVE  Mint(e) \in ShortToken
  <1>1. ex[e].found \in PatRecord /\ ex[e].entry \in Resources /\ now \in Time
    BY DEF TypeInv, TypeOK, Held
  <1>2. GrantedScopes(ex[e].found.owner, ex[e].entry, AskedScopes(e)) \in SUBSET Scopes
    BY <1>1, GrantedScopesType DEF AskedScopes, PatRecord
  <1>3. ex[e].found.tenant \in Orgs
    BY <1>1 DEF PatRecord
  <1>. QED BY <1>1, <1>2, <1>3 DEF Mint, ShortToken, Maybe

\* The grant, answered or lost, keeps types.
LEMMA JwtBearerGrantType ==
  ASSUME TypeInv, NEW e \in Exchanges, JwtBearerGrant(e)
  PROVE  TypeInv'
  <1>1. /\ ex[e] \in ExchangeLocals /\ ex \in [Exchanges -> ExchangeLocals]
        /\ UNCHANGED <<cfg, now, table, upstream, changes, bearer, cr, target, shown>>
        /\ e \in Requests /\ pc \in [Requests -> Steps]
        /\ ExchangeHolds("grant", ex[e])
        /\ pc[e] = "grant"
    BY DEF TypeInv, TypeOK, JwtBearerGrant, Requests, ExchangeHolds, Held
  <1>2. CASE \E code \in {"502", "upstream_refused"} : RefuseExchange(e, code)
    BY <1>1, <1>2, RefuseExchangeType DEF Replies
  <1>3. CASE /\ ex' = [ex EXCEPT ![e].short = Mint(e)]
             /\ Answer(e, "502") \/ GoTo(e, "touch")
    <2> DEFINE new == [ex[e] EXCEPT !.short = Mint(e)]
    <2>1. /\ new \in ExchangeLocals /\ new.token = ex[e].token /\ new.found = ex[e].found
          /\ new.entry = ex[e].entry /\ new.usedAt = ex[e].usedAt
          /\ new.signedAt = ex[e].signedAt
      BY <1>1, MintType DEF ExchangeLocals, Maybe
    <2>2. ex' = [ex EXCEPT ![e] = new]
      BY <1>1, <1>3
    <2> HIDE DEF new
    <2>3. ExchangeHolds(pc'[e], new)
      BY <1>1, <2>1 DEF ExchangeHolds
    <2>. QED BY <1>1, <1>3, <2>1, <2>2, <2>3, ExchangeMoveType DEF Steps, Replies
  <1>. QED BY <1>2, <1>3 DEF JwtBearerGrant, UpstreamRefusal, UpstreamDown

\* Clock, realm changes and restarts keep types.
LEMMA SurroundingsType ==
  ASSUME TypeInv, Surroundings
  PROVE  TypeInv'
  <1>1. CASE Tick
    BY <1>1 DEF Tick, TypeInv, TypeOK, Held, upstream, Time
  <1>2. ASSUME Change, UNCHANGED <<cfg, pc, reply>>,
               link' \in [Owners -> {"none", "own", "foreign"}],
               roles' \in [Owners -> [Resources -> SUBSET Scopes]],
               member' \in [Owners -> SUBSET Orgs],
               session' \in [Owners -> Session]
        PROVE  TypeInv'
    BY <1>2 DEF Change, TypeInv, TypeOK, Held
  <1>3. ASSUME NEW o \in Owners, NEW x \in Resources, NEW s \in Scopes, RoleChange(o, x, s)
        PROVE  TypeInv'
    <2>1. roles' \in [Owners -> [Resources -> SUBSET Scopes]]
      BY <1>3 DEF RoleChange, TypeInv, TypeOK
    <2>. QED BY <1>2, <1>3, <2>1 DEF RoleChange, TypeInv, TypeOK
  <1>4. ASSUME NEW o \in Owners, NEW g \in Orgs, MembershipChange(o, g)
        PROVE  TypeInv'
    <2>1. member' \in [Owners -> SUBSET Orgs]
      BY <1>4 DEF MembershipChange, TypeInv, TypeOK
    <2>. QED BY <1>2, <1>4, <2>1 DEF MembershipChange, TypeInv, TypeOK
  <1>5. ASSUME NEW o \in Owners, SessionChange(o)
        PROVE  TypeInv'
    <2>1. session' \in [Owners -> Session]
      BY <1>5 DEF SessionChange, TypeInv, TypeOK, Session
    <2>. QED BY <1>2, <1>5, <2>1 DEF SessionChange, TypeInv, TypeOK
  <1>6. ASSUME NEW o \in Owners, NEW l \in {"none", "own", "foreign"}, LinkChange(o, l)
        PROVE  TypeInv'
    <2>1. link' \in [Owners -> {"none", "own", "foreign"}]
      BY <1>6 DEF LinkChange, TypeInv, TypeOK
    <2>. QED BY <1>2, <1>6, <2>1 DEF LinkChange, TypeInv, TypeOK
  <1>7. ASSUME NEW config \in Configs, Restart(config)
        PROVE  TypeInv'
    <2>1. TypeOK'
      BY <1>7 DEF Restart, Change, upstream, TypeInv, TypeOK, Steps, Replies
    <2>2. \A r \in Requests :
            /\ pc'[r] \in {"idle", "done"}
            /\ reply'[r] = "201" => reply[r] = "201" /\ (pc[r] = "done" => pc'[r] = "done")
      BY <1>7 DEF Restart, TypeInv, TypeOK
    <2>3. Held'
      BY <1>7, <2>2 DEF Restart, Change, TypeInv, Held, Requests, Management
    <2>. QED BY <2>1, <2>3 DEF TypeInv
  <1>. QED BY <1>1, <1>3, <1>4, <1>5, <1>6, <1>7 DEF Surroundings

\* Every step keeps the typed invariant: one case per action.
LEMMA StepType == TypeInv /\ [Next]_vars => TypeInv'
  <1> SUFFICES ASSUME TypeInv, [Next]_vars PROVE TypeInv'
    OBVIOUS
  <1>1. CASE UNCHANGED vars
    BY <1>1 DEF TypeInv, TypeOK, Held, vars
  <1>2. ASSUME NEW c \in Creations, CreateStep(c) PROVE TypeInv'
    BY <1>2, AuthenticateCreateType, ReadBodyType, EnsureLinkGetType, EnsureLinkPostType, TrialExchangeType,
      InsertType DEF CreateStep
  <1>3. ASSUME NEW l \in Listings, ListStep(l) PROVE TypeInv'
    BY <1>3, AuthenticateReadType, ListForOwnerType DEF ListStep
  <1>4. ASSUME NEW v \in Revocations, RevokeStep(v) PROVE TypeInv'
    BY <1>4, AuthenticateReadType, RevokeUpdateType DEF RevokeStep
  <1>5. ASSUME NEW e \in Exchanges, ExchangeStep(e) PROVE TypeInv'
    BY <1>5, FindByHashType, CheckRowType, SignType, JwtBearerGrantType, TouchType DEF ExchangeStep
  <1>. QED
    BY <1>1, <1>2, <1>3, <1>4, <1>5, PresentBearerType, PresentTokenType, SurroundingsType
    DEF Next, Arrive, Finished

\* Type correctness: columns, locals and answers stay in their types, and what a
\* suspended handler reads after an await is there.
THEOREM TypeCorrect == Spec => []TypeOK
  <1>1. Spec => []TypeInv
    BY InitType, StepType, PTL DEF Spec
  <1>2. TypeInv => TypeOK
    BY DEF TypeInv
  <1>. QED BY <1>1, <1>2, PTL

-----------------------------------------------------------------------------
(***************************************************************************)
(* The inductive invariant behind the safety theorems.  A creation has no  *)
(* row until it ends.  An exchange that holds a row holds the fixed        *)
(* columns of the stored row of its own token; past the checks its first   *)
(* clock reading precedes the expiry, it was not late, and its resource is *)
(* one the row names; what it minted came from that row within the life of *)
(* the assertion dated by its second reading.  A late exchange still has   *)
(* the lookup or the checks ahead of it, which will see a dead row.        *)
(***************************************************************************)
Passed(x) ==
  /\ x.found # None
  /\ x.usedAt \in Time
  /\ x.usedAt < x.found.expires
  /\ x.entry \in {Canon[u] : u \in x.found.urls}
  /\ ~x.late

MintedFrom(short, x) ==
  /\ x.signedAt \in Time
  /\ short.at <= Whole(x.signedAt) + AssertionLife
  /\ short.resource = x.entry
  /\ short.scopes \subseteq x.found.scopes \cup Defaults[x.entry]
  /\ short.org \in {x.found.tenant, None}

ExchangeFacts(step, x) ==
  /\ x.found # None => x.token # None /\ Fixed(x.found) = Fixed(table[x.token])
  /\ step \in {"idle", "find"} => x.found = None
  /\ step \in {"idle", "find", "check", "sign", "grant"} => x.short = None
  /\ step \in {"sign", "grant", "touch"} => Passed(x)
  /\ x.short # None => Passed(x) /\ MintedFrom(x.short, x)
  /\ x.late => /\ x.token # None
               /\ step = "find" => Dead(table[x.token])
               /\ step = "check" => Dead(x.found)

Facts ==
  /\ \A c \in Creations : pc[c] # "done" => table[c] = None
  /\ \A e \in Exchanges : ExchangeFacts(pc[e], ex[e])

Inv == TypeInv /\ Facts

\* No facts are claimed of the initial states' idle requests.
LEMMA InitFacts == Init => Facts
  BY DEF Init, Facts, ExchangeFacts, NoExchange, Requests, Management

\* No step turns the clock back.
LEMMA ClockMoves ==
  ASSUME TypeInv, [Next]_vars
  PROVE  now \in Nat /\ now' \in Nat /\ now <= now'
  <1>1. now \in Nat
    BY DEF TypeInv, TypeOK, Time
  <1>2. now' = now \/ now' = now + 1
    BY DEF Next, Arrive, PresentBearer, PresentToken, CreateStep, AuthenticateCreate, ListStep,
      AuthenticateList, RevokeStep, AuthenticateRevoke, Authenticate, ReadBody, EnsureLinkGet,
      EnsureLinkPost, TrialExchange, Insert, ListForOwner, RevokeUpdate, ExchangeStep,
      FindByHash, CheckRow, Sign, JwtBearerGrant, Touch, Surroundings, Tick, Change, RoleChange,
      MembershipChange, SessionChange, LinkChange, Restart, Finished, vars
  <1>. QED BY <1>1, <1>2

\* Only three steps write the table.
LEMMA TableWriters ==
  ASSUME [Next]_vars
  PROVE  \/ table' = table
         \/ \E c \in Creations : Insert(c)
         \/ \E v \in Revocations : RevokeUpdate(v)
         \/ \E e \in Exchanges : Touch(e)
  BY DEF Next, Arrive, PresentBearer, PresentToken, CreateStep, AuthenticateCreate, ListStep,
      AuthenticateList, RevokeStep, AuthenticateRevoke, Authenticate, ReadBody, EnsureLinkGet,
      EnsureLinkPost, TrialExchange, ListForOwner, ExchangeStep,
      FindByHash, CheckRow, Sign, JwtBearerGrant, Surroundings, Tick, Change, RoleChange,
      MembershipChange, SessionChange, LinkChange, Restart, Finished, vars

\* A row once inserted keeps what it grants and its revocation (RowIsAFact, step by step).
LEMMA RowsStep ==
  ASSUME TypeInv, Facts, [Next]_vars
  PROVE  \A id \in Creations : table[id] # None => RowStep(table[id], table'[id])
  <1>0. table \in [Creations -> Maybe(PatRecord)]
    BY DEF TypeInv, TypeOK
  <1>1. CASE table' = table
    BY <1>1 DEF RowStep
  <1>2. ASSUME NEW c \in Creations, Insert(c)
        PROVE  \A id \in Creations : table[id] # None => table'[id] = table[id]
    <2>1. table[c] = None
      BY <1>2 DEF Insert, Facts
    <2>. QED BY <1>0, <1>2, <2>1 DEF Insert
  <1>3. ASSUME NEW v \in Revocations, RevokeUpdate(v), NEW id \in Creations, table[id] # None
        PROVE  RowStep(table[id], table'[id])
    <2>1. table[id] \in PatRecord /\ now \in Time
      BY <1>0, <1>3 DEF Maybe, TypeInv, TypeOK
    <2>2. \/ table'[id] = table[id]
          \/ table[id].revoked = None /\ table'[id] = [table[id] EXCEPT !.revoked = now]
      BY <1>0, <1>3 DEF RevokeUpdate, Revocable
    <2>3. [table[id] EXCEPT !.revoked = now] \in PatRecord
      BY <2>1 DEF PatRecord, Maybe
    <2>4. table'[id] # None
      BY <1>3, <2>2, <2>3, PatAssumption DEF PatAssumption
    <2>. QED BY <2>1, <2>2, <2>4 DEF RowStep, Fixed, PatRecord
  <1>4. ASSUME NEW e \in Exchanges, Touch(e), NEW id \in Creations, table[id] # None
        PROVE  RowStep(table[id], table'[id])
    <2>1. table[id] \in PatRecord /\ ex[e].usedAt \in Time
      BY <1>0, <1>4 DEF Maybe, TypeInv, Held, Touch
    <2>2. \/ table'[id] = table[id]
          \/ table'[id] = [table[id] EXCEPT !.lastUsed = ex[e].usedAt]
      BY <1>0, <1>4 DEF Touch, Touched
    <2>3. [table[id] EXCEPT !.lastUsed = ex[e].usedAt] \in PatRecord
      BY <2>1 DEF PatRecord, Maybe
    <2>4. table'[id] # None
      BY <1>4, <2>2, <2>3, PatAssumption DEF PatAssumption
    <2>. QED BY <2>1, <2>2, <2>4 DEF RowStep, Fixed, PatRecord
  <1>. QED BY <1>1, <1>2, <1>3, <1>4, TableWriters DEF RowStep

\* A dead row stays dead.
LEMMA DeadStays ==
  ASSUME TypeInv, TypeInv', Facts, [Next]_vars, NEW id \in Creations, table[id] # None,
         Dead(table[id])
  PROVE  Dead(table[id])'
  <1>1. RowStep(table[id], table'[id])
    BY RowsStep
  <1>2. table[id] \in PatRecord /\ table'[id] \in PatRecord
    BY <1>1 DEF RowStep, TypeInv, TypeOK, Maybe
  <1>3. table'[id].expires = table[id].expires /\ table[id].expires \in Nat
    BY <1>1, <1>2 DEF RowStep, Fixed, PatRecord, Time
  <1>4. table[id].revoked # None => table'[id].revoked # None
    BY <1>1 DEF RowStep
  <1>. QED BY <1>3, <1>4, ClockMoves DEF Dead, Expired

\* What others do leaves an exchange's facts standing.
LEMMA FactsOfOthers ==
  ASSUME TypeInv, TypeInv', Facts, [Next]_vars, NEW e \in Exchanges, ex'[e] = ex[e],
         pc'[e] = pc[e] \/ pc'[e] = "done"
  PROVE  ExchangeFacts(pc[e], ex[e])'
  <1> DEFINE x == ex[e]
  <1>1. ExchangeFacts(pc[e], x) /\ x \in ExchangeLocals
    BY DEF Facts, TypeInv, TypeOK
  <1>2. x.token # None => x.token \in Creations /\ table[x.token] # None
    BY <1>1 DEF TypeInv, Held, ExchangeLocals, Maybe
  <1>3. x.token # None => Fixed(table'[x.token]) = Fixed(table[x.token])
    BY <1>2, RowsStep DEF RowStep
  <1>4. x.token # None /\ Dead(table[x.token]) => Dead(table[x.token])'
    BY <1>2, DeadStays
  <1>5. x.found # None /\ Dead(x.found) => Dead(x.found)'
    <2> SUFFICES ASSUME x.found # None, Dead(x.found) PROVE Dead(x.found)'
      OBVIOUS
    <2>1. x.found \in PatRecord
      BY <1>1 DEF ExchangeLocals, Maybe
    <2>2. x.found.expires \in Nat
      BY <2>1 DEF PatRecord, Time
    <2>. QED BY <2>2, ClockMoves DEF Dead, Expired
  <1>6. pc[e] = "check" => x.found # None
    BY <1>1, PatAssumption DEF TypeInv, Held, PatAssumption
  <1>. QED
    BY <1>1, <1>3, <1>4, <1>5, <1>6 DEF ExchangeFacts, Passed, MintedFrom

\* A refusal keeps the token and forgets the rest.
LEMMA RefusalFacts ==
  ASSUME TypeInv, Facts, NEW e \in Exchanges, NEW code, RefuseExchange(e, code), table' = table
  PROVE  ExchangeFacts(pc[e], ex[e])'
  <1>1. ex[e] \in ExchangeLocals /\ ExchangeFacts(pc[e], ex[e])
    BY DEF TypeInv, TypeOK, Facts
  <1>2. /\ ex'[e] = [NoExchange EXCEPT !.token = ex[e].token, !.late = ex[e].late]
        /\ pc'[e] = "done"
    BY DEF RefuseExchange, Answer, TypeInv, TypeOK, Requests
  <1>3. /\ ex'[e].token = ex[e].token /\ ex'[e].late = ex[e].late
        /\ ex'[e].found = None /\ ex'[e].short = None
    BY <1>2 DEF NoExchange
  <1>. QED BY <1>1, <1>2, <1>3 DEF ExchangeFacts

\* exchange up to the lookup establishes the facts of an exchange.
LEMMA PresentTokenFacts ==
  ASSUME TypeInv, Facts, NEW e \in Exchanges, PresentToken(e)
  PROVE  ExchangeFacts(pc[e], ex[e])'
  <1>1. /\ ex[e] \in ExchangeLocals /\ ex \in [Exchanges -> ExchangeLocals]
        /\ pc[e] = "idle" /\ ExchangeFacts("idle", ex[e])
        /\ table' = table /\ now' = now /\ e \in Requests /\ pc \in [Requests -> Steps]
    BY DEF TypeInv, TypeOK, Facts, PresentToken, Requests
  <1>2. CASE UNCHANGED ex /\ (Answer(e, "invalid_request") \/ Answer(e, "invalid_grant"))
    <2>1. pc'[e] = "done" /\ ex'[e] = ex[e]
      BY <1>1, <1>2 DEF Answer
    <2>. QED BY <1>1, <2>1 DEF ExchangeFacts
  <1>3. ASSUME NEW t, NEW u,
               ex' = [ex EXCEPT ![e].token = t, ![e].resource = u,
                                ![e].late = t # None /\ Dead(table[t])],
               GoTo(e, "find")
        PROVE  ExchangeFacts(pc[e], ex[e])'
    <2>1. pc'[e] = "find"
      BY <1>1, <1>3 DEF GoTo
    <2>2. /\ ex'[e].token = t /\ ex'[e].late = (t # None /\ Dead(table[t]))
          /\ ex'[e].found = ex[e].found /\ ex'[e].short = ex[e].short
      BY <1>1, <1>3 DEF ExchangeLocals
    <2>3. Dead(table[t]) => Dead(table[ex[e].token])'
      BY <1>1, <2>2 DEF Dead, Expired
    <2>. QED BY <1>1, <2>1, <2>2, <2>3 DEF ExchangeFacts
  <1>. QED BY <1>2, <1>3 DEF PresentToken

\* The lookup keeps them: the row held is the row stored, as it was then.
LEMMA FindByHashFacts ==
  ASSUME TypeInv, Facts, NEW e \in Exchanges, FindByHash(e)
  PROVE  ExchangeFacts(pc[e], ex[e])'
  <1>1. /\ ex[e] \in ExchangeLocals /\ ex \in [Exchanges -> ExchangeLocals]
        /\ pc[e] = "find" /\ ExchangeFacts("find", ex[e])
        /\ table' = table /\ now' = now /\ e \in Requests /\ pc \in [Requests -> Steps]
    BY DEF TypeInv, TypeOK, Facts, FindByHash, Requests
  <1>2. CASE \E code : RefuseExchange(e, code)
    BY <1>1, <1>2, RefusalFacts
  <1>3. CASE /\ ex[e].token # None
             /\ ex' = [ex EXCEPT ![e].found = table[ex[e].token]]
             /\ GoTo(e, "check")
    <2>1. pc'[e] = "check"
      BY <1>1, <1>3 DEF GoTo
    <2>2. /\ ex'[e].token = ex[e].token /\ ex'[e].late = ex[e].late
          /\ ex'[e].found = table[ex[e].token] /\ ex'[e].short = ex[e].short
      BY <1>1, <1>3 DEF ExchangeLocals
    <2>3. Dead(table[ex[e].token]) => Dead(ex[e].found)'
      BY <1>1, <2>2 DEF Dead, Expired
    <2>. QED BY <1>1, <1>3, <2>1, <2>2, <2>3 DEF ExchangeFacts
  <1>. QED BY <1>2, <1>3 DEF FindByHash

\* The checks establish Passed: the row was alive at the first clock reading.
LEMMA CheckRowFacts ==
  ASSUME TypeInv, Facts, NEW e \in Exchanges, CheckRow(e)
  PROVE  ExchangeFacts(pc[e], ex[e])'
  <1>1. /\ ex[e] \in ExchangeLocals /\ ex \in [Exchanges -> ExchangeLocals]
        /\ pc[e] = "check" /\ ExchangeFacts("check", ex[e])
        /\ ex[e].found \in PatRecord /\ now \in Nat
        /\ table' = table /\ now' = now /\ e \in Requests /\ pc \in [Requests -> Steps]
    BY DEF TypeInv, TypeOK, Held, Facts, CheckRow, Requests, Time
  <1>2. CASE \E code : RefuseExchange(e, code)
    BY <1>1, <1>2, RefusalFacts
  <1>3. ASSUME ~RowRefused(ex[e].found), NEW x \in Resources,
               Resolves(ex[e].found, ex[e].resource, x),
               ex' = [ex EXCEPT ![e].entry = x, ![e].usedAt = now],
               GoTo(e, "sign")
        PROVE  ExchangeFacts(pc[e], ex[e])'
    <2>1. pc'[e] = "sign"
      BY <1>1, <1>3 DEF GoTo
    <2>2. /\ ex'[e].token = ex[e].token /\ ex'[e].late = ex[e].late
          /\ ex'[e].found = ex[e].found /\ ex'[e].short = ex[e].short
          /\ ex'[e].entry = x /\ ex'[e].usedAt = now
      BY <1>1, <1>3 DEF ExchangeLocals
    <2>3. ~Dead(ex[e].found) /\ ~ex[e].late
      BY <1>1, <1>3 DEF RowRefused, ExchangeFacts
    <2>4. now < ex[e].found.expires
      BY <1>1, <2>3 DEF Dead, Expired, PatRecord, Time
    <2>5. ex[e].found # None
      BY <1>1, PatAssumption DEF PatAssumption
    <2>6. Passed(ex[e])'
      BY <1>1, <1>3, <2>2, <2>3, <2>4, <2>5 DEF Passed, Resolves, Time
    <2>. QED BY <1>1, <2>1, <2>2, <2>3, <2>6 DEF ExchangeFacts
  <1>. QED BY <1>2, <1>3 DEF CheckRow

\* The signature keeps what the checks established.
LEMMA SignFacts ==
  ASSUME TypeInv, Facts, NEW e \in Exchanges, Sign(e)
  PROVE  ExchangeFacts(pc[e], ex[e])'
  <1>1. /\ ex[e] \in ExchangeLocals /\ ex \in [Exchanges -> ExchangeLocals]
        /\ pc[e] = "sign" /\ ExchangeFacts("sign", ex[e])
        /\ table' = table /\ e \in Requests /\ pc \in [Requests -> Steps]
    BY DEF TypeInv, TypeOK, Facts, Sign, Requests
  <1>2. pc'[e] = "grant"
    BY <1>1 DEF Sign, GoTo
  <1>3. /\ ex'[e].token = ex[e].token /\ ex'[e].late = ex[e].late
        /\ ex'[e].found = ex[e].found /\ ex'[e].short = ex[e].short
        /\ ex'[e].entry = ex[e].entry /\ ex'[e].usedAt = ex[e].usedAt
    BY <1>1 DEF Sign, ExchangeLocals
  <1>4. Passed(ex[e])'
    BY <1>1, <1>3 DEF ExchangeFacts, Passed
  <1>. QED BY <1>1, <1>2, <1>3, <1>4 DEF ExchangeFacts, Passed

\* The grant establishes MintedFrom from Passed.
LEMMA JwtBearerGrantFacts ==
  ASSUME TypeInv, Facts, NEW e \in Exchanges, JwtBearerGrant(e)
  PROVE  ExchangeFacts(pc[e], ex[e])'
  <1>1. /\ ex[e] \in ExchangeLocals /\ ex \in [Exchanges -> ExchangeLocals]
        /\ pc[e] = "grant" /\ ExchangeFacts("grant", ex[e])
        /\ table' = table /\ e \in Requests /\ pc \in [Requests -> Steps]
    BY DEF TypeInv, TypeOK, Facts, JwtBearerGrant, Requests
  <1>2. CASE \E code : RefuseExchange(e, code)
    BY <1>1, <1>2, RefusalFacts
  <1>3. CASE /\ Assertion(e)
             /\ ex' = [ex EXCEPT ![e].short = Mint(e)]
             /\ Answer(e, "502") \/ GoTo(e, "touch")
    <2>1. pc'[e] \in {"done", "touch"}
      BY <1>1, <1>3 DEF GoTo, Answer
    <2>2. /\ ex'[e].token = ex[e].token /\ ex'[e].late = ex[e].late
          /\ ex'[e].found = ex[e].found /\ ex'[e].short = Mint(e)
          /\ ex'[e].entry = ex[e].entry /\ ex'[e].usedAt = ex[e].usedAt
          /\ ex'[e].signedAt = ex[e].signedAt
      BY <1>1, <1>3 DEF ExchangeLocals
    <2>3. Passed(ex[e]) /\ ex[e].signedAt \in Time
      BY <1>1 DEF ExchangeFacts, TypeInv, Held
    <2>4. MintedFrom(Mint(e), ex[e])
      BY <1>3, <2>3 DEF MintedFrom, Mint, Assertion, GrantedScopes, AskedScopes
    <2>5. Passed(ex[e])' /\ MintedFrom(ex[e].short, ex[e])'
      BY <2>2, <2>3, <2>4 DEF Passed, MintedFrom
    <2>. QED BY <1>1, <2>1, <2>2, <2>3, <2>5 DEF ExchangeFacts, Passed
  <1>. QED BY <1>2, <1>3 DEF JwtBearerGrant, UpstreamRefusal, UpstreamDown

\* Another request's answer or step is not this one's.
LEMMA OwnControl ==
  ASSUME TypeInv, NEW r \in Requests, NEW q \in Requests, r # q, NEW code, NEW step,
         Answer(r, code) \/ GoTo(r, step)
  PROVE  pc'[q] = pc[q]
  BY DEF Answer, GoTo, TypeInv, TypeOK

\* Creating, listing and revoking leave exchanges alone.
LEMMA ManagementKeepsExchanges ==
  ASSUME TypeInv, NEW e \in Exchanges,
         \/ \E r \in Management : PresentBearer(r)
         \/ \E c \in Creations : CreateStep(c)
         \/ \E l \in Listings : ListStep(l)
         \/ \E v \in Revocations : RevokeStep(v)
  PROVE  ex' = ex /\ pc'[e] = pc[e]
  <1>1. e \in Requests /\ \A r \in Management : r \in Requests /\ r # e
    BY PatAssumption DEF PatAssumption, Requests
  <1>2. ASSUME NEW r \in Management, PresentBearer(r) PROVE ex' = ex /\ pc'[e] = pc[e]
    BY <1>1, <1>2, OwnControl DEF PresentBearer
  <1>3. ASSUME NEW c \in Creations, CreateStep(c) PROVE ex' = ex /\ pc'[e] = pc[e]
    BY <1>1, <1>3, OwnControl DEF CreateStep, AuthenticateCreate, Authenticate, ReadBody,
      EnsureLinkGet, EnsureLinkPost, TrialExchange, Insert, RefuseCreate, Management
  <1>4. ASSUME NEW l \in Listings, ListStep(l) PROVE ex' = ex /\ pc'[e] = pc[e]
    BY <1>1, <1>4, OwnControl DEF ListStep, AuthenticateList, Authenticate, ListForOwner, Management
  <1>5. ASSUME NEW v \in Revocations, RevokeStep(v) PROVE ex' = ex /\ pc'[e] = pc[e]
    BY <1>1, <1>5, OwnControl DEF RevokeStep, AuthenticateRevoke, Authenticate, RevokeUpdate, Management
  <1>. QED BY <1>2, <1>3, <1>4, <1>5

\* A step of one exchange leaves the facts of another alone.
LEMMA OtherExchanges ==
  ASSUME TypeInv, NEW e \in Exchanges, NEW f \in Exchanges, e # f,
         PresentToken(f) \/ ExchangeStep(f)
  PROVE  ex'[e] = ex[e] /\ pc'[e] = pc[e]
  <1>1. e \in Requests /\ f \in Requests /\ ex \in [Exchanges -> ExchangeLocals]
    BY DEF Requests, TypeInv, TypeOK
  <1>2. pc'[e] = pc[e]
    BY <1>1, OwnControl DEF PresentToken, ExchangeStep, FindByHash, CheckRow, Sign, JwtBearerGrant,
      Touch, RefuseExchange, UpstreamRefusal
  <1>3. ex'[e] = ex[e]
    BY <1>1 DEF PresentToken, ExchangeStep, FindByHash, CheckRow, Sign, JwtBearerGrant,
      Touch, RefuseExchange, UpstreamRefusal
  <1>. QED BY <1>2, <1>3

\* Clock and realm changes leave the requests' locals alone.
LEMMA SurroundingsKeepRequests ==
  ASSUME TypeInv, Surroundings
  PROVE  ex' = ex /\ table' = table /\
         \A r \in Requests : pc'[r] = pc[r] \/ pc'[r] = "done"
  BY DEF Surroundings, Tick, Change, RoleChange, MembershipChange, SessionChange, LinkChange,
    Restart

\* The facts of every exchange survive every step.
LEMMA ExchangesFacts ==
  ASSUME TypeInv, TypeInv', Facts, [Next]_vars, NEW e \in Exchanges
  PROVE  ExchangeFacts(pc[e], ex[e])'
  <1>1. CASE PresentToken(e)
    BY <1>1, PresentTokenFacts
  <1>2. CASE FindByHash(e) \/ CheckRow(e) \/ Sign(e) \/ JwtBearerGrant(e)
    BY <1>2, FindByHashFacts, CheckRowFacts, SignFacts, JwtBearerGrantFacts
  <1>3. CASE Touch(e)
    <2>1. ex' = ex /\ pc'[e] = "done"
      BY <1>3 DEF Touch, Answer, TypeInv, TypeOK, Requests
    <2>. QED BY <2>1, FactsOfOthers
  <1>4. CASE \E f \in Exchanges : f # e /\ (PresentToken(f) \/ ExchangeStep(f))
    BY <1>4, OtherExchanges, FactsOfOthers
  <1>5. CASE Surroundings
    BY <1>5, SurroundingsKeepRequests, FactsOfOthers DEF Requests
  <1>6. CASE UNCHANGED vars
    BY <1>6, FactsOfOthers DEF vars
  <1>7. CASE \/ \E r \in Management : PresentBearer(r)
             \/ \E c \in Creations : CreateStep(c)
             \/ \E l \in Listings : ListStep(l)
             \/ \E v \in Revocations : RevokeStep(v)
    BY <1>7, ManagementKeepsExchanges, FactsOfOthers
  <1>. QED
    BY <1>1, <1>2, <1>3, <1>4, <1>5, <1>6, <1>7 DEF Next, Arrive, ExchangeStep, Finished

\* No step takes a request back from its end.
LEMMA DoneStays ==
  ASSUME TypeInv, [Next]_vars, NEW r \in Requests, pc[r] = "done"
  PROVE  pc'[r] = "done"
  <1>1. \A q \in Requests : \A code, step : Answer(q, code) \/ GoTo(q, step) => q = r \/ pc'[r] = pc[r]
    BY OwnControl
  <1>2. CASE \E q \in Requests : \E code, step : pc[q] # "done" /\ (Answer(q, code) \/ GoTo(q, step))
    BY <1>1, <1>2
  <1>3. CASE Surroundings \/ UNCHANGED vars
    BY <1>3, SurroundingsKeepRequests DEF vars
  <1>4. ASSUME NEW q \in Management, PresentBearer(q)
        PROVE  \E code, step : pc[q] # "done" /\ (Answer(q, code) \/ GoTo(q, step))
    BY <1>4 DEF PresentBearer
  <1>5. ASSUME NEW c \in Creations, CreateStep(c)
        PROVE  \E code, step : pc[c] # "done" /\ (Answer(c, code) \/ GoTo(c, step))
    BY <1>5 DEF CreateStep, AuthenticateCreate, Authenticate, ReadBody,
      EnsureLinkGet, EnsureLinkPost, TrialExchange, Insert, RefuseCreate
  <1>6. ASSUME NEW l \in Listings, ListStep(l)
        PROVE  \E code, step : pc[l] # "done" /\ (Answer(l, code) \/ GoTo(l, step))
    BY <1>6 DEF ListStep, AuthenticateList, Authenticate, ListForOwner
  <1>7. ASSUME NEW v \in Revocations, RevokeStep(v)
        PROVE  \E code, step : pc[v] # "done" /\ (Answer(v, code) \/ GoTo(v, step))
    BY <1>7 DEF RevokeStep, AuthenticateRevoke, Authenticate, RevokeUpdate
  <1>8. ASSUME NEW e \in Exchanges, PresentToken(e) \/ ExchangeStep(e)
        PROVE  \E code, step : pc[e] # "done" /\ (Answer(e, code) \/ GoTo(e, step))
    BY <1>8 DEF PresentToken, ExchangeStep, FindByHash, CheckRow, Sign, JwtBearerGrant,
      Touch, RefuseExchange, UpstreamRefusal
  <1>. QED
    BY <1>2, <1>3, <1>4, <1>5, <1>6, <1>7, <1>8 DEF Next, Arrive, Finished, Requests, Management

\* Facts is preserved by every step of a typed state.
LEMMA StepFacts == TypeInv /\ TypeInv' /\ Facts /\ [Next]_vars => Facts'
  <1> SUFFICES ASSUME TypeInv, TypeInv', Facts, [Next]_vars PROVE Facts'
    OBVIOUS
  <1>1. ASSUME NEW c \in Creations, pc'[c] # "done" PROVE table'[c] = None
    <2>1. pc[c] # "done" /\ table[c] = None
      BY <1>1, DoneStays DEF Facts, Requests, Management
    <2>2. table \in [Creations -> Maybe(PatRecord)]
      BY DEF TypeInv, TypeOK
    <2>3. ASSUME NEW d \in Creations, Insert(d) PROVE table'[c] = None
      <3>1. d # c
        BY <1>1, <2>3 DEF Insert, RefuseCreate, Answer, TypeInv, TypeOK, Requests, Management
      <3>. QED BY <2>1, <2>2, <2>3, <3>1 DEF Insert
    <2>4. ASSUME NEW v \in Revocations, RevokeUpdate(v) PROVE table'[c] = None
      BY <2>1, <2>2, <2>4 DEF RevokeUpdate, Revocable, OwnRow
    <2>5. ASSUME NEW e \in Exchanges, Touch(e) PROVE table'[c] = None
      <3>1. ex[e].token # c
        BY <2>1, <2>5 DEF Touch, TypeInv, Held
      <3>. QED BY <2>1, <2>2, <2>5, <3>1 DEF Touch
    <2>. QED BY <2>1, <2>3, <2>4, <2>5, TableWriters
  <1>. QED BY <1>1, ExchangesFacts DEF Facts

\* The inductive invariant of the exchange holds throughout.
LEMMA SpecInv == Spec => []Inv
  <1>1. Init => Inv
    BY InitType, InitFacts DEF Inv
  <1>2. Inv /\ [Next]_vars => Inv'
    BY StepType, StepFacts DEF Inv
  <1>. QED BY <1>1, <1>2, PTL DEF Spec

\* Revocation and expiry hold: a token that was dead when it was presented
\* makes the upstream mint nothing, for any number of concurrent exchanges,
\* revocations, creations and restarts.
THEOREM DeadTokensMintNothing == Spec => []DeadTokenMintsNothing
  <1>1. Inv => DeadTokenMintsNothing
    BY DEF Inv, Facts, ExchangeFacts, Passed, DeadTokenMintsNothing
  <1>. QED BY <1>1, SpecInv, PTL

\* A second's truncation never dates an assertion ahead of the clock.
LEMMA WholeIsEarlier ==
  ASSUME NEW t \in Nat
  PROVE  Whole(t) \in Int /\ Whole(t) <= t
  BY PatAssumption DEF Whole, PatAssumption

\* The window of an exchange under way is bounded by the assertion's life and the
\* pause between its two clock readings, for every granularity of the second.
THEOREM MintingEndsWithGrace == Spec => []MintedBeforeGraceEnds
  <1>1. Inv => MintedBeforeGraceEnds
    <2> SUFFICES ASSUME Inv, NEW e \in Exchanges, ex[e].short # None
                 PROVE  ex[e].short.at < table[ex[e].token].expires + AssertionLife + Pause(e)
      BY DEF MintedBeforeGraceEnds
    <2>1. ExchangeFacts(pc[e], ex[e]) /\ ex[e] \in ExchangeLocals
      BY DEF Inv, Facts, TypeInv, TypeOK
    <2>2. Passed(ex[e]) /\ MintedFrom(ex[e].short, ex[e])
          /\ Fixed(ex[e].found) = Fixed(table[ex[e].token])
      BY <2>1 DEF ExchangeFacts, Passed
    <2>3. ex[e].found \in PatRecord /\ ex[e].short \in ShortToken
      BY <2>1, <2>2 DEF ExchangeLocals, Maybe, Passed
    <2>4. /\ ex[e].found.expires \in Nat /\ ex[e].short.at \in Nat
          /\ ex[e].usedAt \in Nat /\ ex[e].signedAt \in Nat /\ AssertionLife \in Nat
      BY <2>2, <2>3, PatAssumption DEF PatRecord, ShortToken, Passed, MintedFrom, Time,
        PatAssumption
    <2>5. ex[e].found.expires = table[ex[e].token].expires
      BY <2>2 DEF Fixed
    <2>6. /\ Whole(ex[e].signedAt) \in Int
          /\ Whole(ex[e].signedAt) <= ex[e].signedAt
          /\ ex[e].short.at <= Whole(ex[e].signedAt) + AssertionLife
          /\ ex[e].usedAt < ex[e].found.expires
      BY <2>2, <2>4, WholeIsEarlier DEF Passed, MintedFrom
    <2>. QED BY <2>4, <2>5, <2>6 DEF Pause
  <1>. QED BY <1>1, SpecInv, PTL

\* Resource, scopes and organization of a short token come from the stored row.
THEOREM ShortTokensWithinRow == Spec => []ShortTokenWithinRow
  <1>1. Inv => ShortTokenWithinRow
    <2> SUFFICES ASSUME Inv, NEW e \in Exchanges, ex[e].short # None
                 PROVE  LET row == table[ex[e].token]
                            short == ex[e].short IN
                        /\ short.resource \in {Canon[u] : u \in row.urls}
                        /\ short.scopes \subseteq row.scopes \cup Defaults[short.resource]
                        /\ short.org \in {row.tenant, None}
      BY DEF ShortTokenWithinRow
    <2>1. Passed(ex[e]) /\ MintedFrom(ex[e].short, ex[e])
          /\ Fixed(ex[e].found) = Fixed(table[ex[e].token])
      BY DEF Inv, Facts, ExchangeFacts, Passed
    <2>2. /\ ex[e].found.urls = table[ex[e].token].urls
          /\ ex[e].found.scopes = table[ex[e].token].scopes
          /\ ex[e].found.tenant = table[ex[e].token].tenant
      BY <2>1 DEF Fixed
    <2>. QED BY <2>1, <2>2 DEF Passed, MintedFrom
  <1>. QED BY <1>1, SpecInv, PTL

\* Rows are facts: never removed, rewritten or un-revoked by any step.
THEOREM RowsAreFacts == Spec => RowIsAFact
  <1>1. Inv /\ [Next]_vars =>
          [\A id \in Creations : table[id] # None => RowStep(table[id], table'[id])]_vars
    BY RowsStep DEF Inv
  <1>. QED BY <1>1, SpecInv, PTL DEF Spec, RowIsAFact

-----------------------------------------------------------------------------
(***************************************************************************)
(* Creation.  Past the introspection the bearer is an interactive sign-in  *)
(* of the running realm, and past the body the tenant is one of the        *)
(* organizations the introspection named; the loop of _granted_scopes      *)
(* keeps a set every finished trial granted; the row waiting for its       *)
(* INSERT, and after it the stored one, has these marks.                   *)
(***************************************************************************)
SignedIn(c) == bearer[c].kind = "session" /\ RealmOf[bearer[c].owner] = cfg.realm

Marked(c, row) ==
  /\ bearer[c] = [kind |-> "session", owner |-> row.owner]
  /\ row.tenant \in cr[c].orgs
  /\ row.realm = RealmOf[row.owner]
  /\ \A u \in row.urls : row.scopes \subseteq cr[c].granted[u]

CreateFacts(c) ==
  /\ pc[c] \in {"body", "getlink", "postlink", "trial"} => SignedIn(c)
  /\ pc[c] \in {"getlink", "postlink", "trial"} =>
       /\ cr[c].want.tenant \in cr[c].orgs
       /\ ~cr[c].want.all => cr[c].permitted = cr[c].want.scopes
       /\ \A u \in cr[c].want.urls \ cr[c].todo : cr[c].permitted \subseteq cr[c].granted[u]
  /\ pc[c] = "insert" => Marked(c, cr[c].row)
  /\ table[c] # None => Marked(c, table[c])

Minting == \A c \in Creations : CreateFacts(c)

\* The facts about creations hold initially.
LEMMA InitMinting == Init => Minting
  BY DEF Init, Minting, CreateFacts, Requests, Management

\* A stored row keeps its marks: its creation has ended and its fixed columns stay.
LEMMA StoredRowStaysMarked ==
  ASSUME TypeInv, TypeInv', Facts, [Next]_vars, NEW c \in Creations, table[c] # None,
         Marked(c, table[c]), cr'[c] = cr[c], bearer'[c] = bearer[c]
  PROVE  Marked(c, table[c])'
  <1>1. Fixed(table'[c]) = Fixed(table[c])
    BY RowsStep DEF RowStep
  <1>2. /\ table'[c].owner = table[c].owner /\ table'[c].tenant = table[c].tenant
        /\ table'[c].realm = table[c].realm /\ table'[c].urls = table[c].urls
        /\ table'[c].scopes = table[c].scopes
    BY <1>1 DEF Fixed
  <1>. QED BY <1>2 DEF Marked

\* Introspection establishes that the owner has a session.
LEMMA AuthenticateCreateMinting ==
  ASSUME TypeInv, Facts, NEW c \in Creations, AuthenticateCreate(c)
  PROVE  CreateFacts(c)'
  <1>1. /\ pc[c] = "introspect" /\ table'[c] = None /\ bearer' = bearer /\ cfg' = cfg
        /\ cr \in [Creations -> CreateLocals] /\ c \in Requests /\ pc \in [Requests -> Steps]
    BY DEF AuthenticateCreate, Authenticate, Facts, TypeInv, TypeOK, Requests, Management
  <1>2. CASE \E code : Answer(c, code)
    BY <1>1, <1>2 DEF CreateFacts, Answer
  <1>3. CASE Active(bearer[c]) /\ HasSession(bearer[c]) /\ GoTo(c, "body")
    <2>1. pc'[c] = "body"
      BY <1>1, <1>3 DEF GoTo
    <2>2. SignedIn(c)'
      BY <1>1, <1>3 DEF SignedIn, Active, HasSession
    <2>. QED BY <1>1, <2>1, <2>2 DEF CreateFacts
  <1>. QED
    BY <1>2, <1>3 DEF AuthenticateCreate, Authenticate

\* The body may come late: the tenant is one the introspection named, whatever the
\* memberships are by then.
LEMMA ReadBodyMinting ==
  ASSUME TypeInv, Facts, Minting, NEW c \in Creations, ReadBody(c)
  PROVE  CreateFacts(c)'
  <1>1. /\ pc[c] = "body" /\ table'[c] = None /\ bearer' = bearer /\ cfg' = cfg
        /\ cr \in [Creations -> CreateLocals] /\ c \in Requests /\ pc \in [Requests -> Steps]
        /\ SignedIn(c)
    BY DEF ReadBody, Facts, Minting, CreateFacts, TypeInv, TypeOK, Requests, Management
  <1>2. CASE \E code : RefuseCreate(c, code)
    BY <1>1, <1>2 DEF CreateFacts, RefuseCreate, Answer
  <1>3. ASSUME GoTo(c, "getlink"), NEW body \in Body, NEW t,
               TenantFor(cr[c].orgs, body.org, t),
               cr' = [cr EXCEPT ![c] = Admitted(cr[c].orgs, body, t)]
        PROVE  CreateFacts(c)'
    <2>1. pc'[c] = "getlink" /\ cr'[c] = Admitted(cr[c].orgs, body, t)
      BY <1>1, <1>3 DEF GoTo
    <2>2. SignedIn(c)'
      BY <1>1 DEF SignedIn
    <2>3. /\ cr'[c].want.tenant \in cr'[c].orgs
          /\ ~cr'[c].want.all => cr'[c].permitted = cr'[c].want.scopes
          /\ cr'[c].want.urls \ cr'[c].todo = {}
      BY <1>3, <2>1 DEF Admitted, TenantFor
    <2>. QED BY <1>1, <2>1, <2>2, <2>3 DEF CreateFacts
  <1>. QED
    BY <1>2, <1>3 DEF ReadBody

\* ensure_link leaves the facts of a creation alone.
LEMMA EnsureLinkMinting ==
  ASSUME TypeInv, Facts, Minting, NEW c \in Creations, EnsureLinkGet(c) \/ EnsureLinkPost(c)
  PROVE  CreateFacts(c)'
  <1>1. /\ pc[c] \in {"getlink", "postlink"} /\ table'[c] = None /\ bearer' = bearer /\ cfg' = cfg
        /\ c \in Requests /\ pc \in [Requests -> Steps] /\ CreateFacts(c)
    BY DEF EnsureLinkGet, EnsureLinkPost, Facts, Minting, TypeInv, TypeOK, Requests, Management
  <1>2. CASE \E code : RefuseCreate(c, code)
    BY <1>1, <1>2 DEF CreateFacts, RefuseCreate, Answer
  <1>3. CASE UNCHANGED cr /\ (GoTo(c, "trial") \/ GoTo(c, "postlink"))
    BY <1>1, <1>3 DEF CreateFacts, GoTo, SignedIn
  <1>. QED BY <1>2, <1>3 DEF EnsureLinkGet, EnsureLinkPost

\* A trial exchange marks its resource with what was granted there.
LEMMA TrialExchangeMinting ==
  ASSUME TypeInv, Facts, Minting, NEW c \in Creations, TrialExchange(c)
  PROVE  CreateFacts(c)'
  <1>1. /\ pc[c] = "trial" /\ table'[c] = None /\ bearer' = bearer /\ cfg' = cfg
        /\ c \in Requests /\ pc \in [Requests -> Steps] /\ CreateFacts(c)
        /\ cr[c] \in CreateLocals /\ cr \in [Creations -> CreateLocals]
        /\ cr[c].want \in CreateRequest /\ bearer[c] \in Bearer
    BY DEF TrialExchange, Facts, Minting, TypeInv, TypeOK, Held, Requests, Management
  <1>2. CASE \E code : RefuseCreate(c, code)
    BY <1>1, <1>2 DEF CreateFacts, RefuseCreate, Answer
  <1>3. ASSUME NEW u \in cr[c].todo, NEW granted, ~Missing(c, granted),
               cr' = [cr EXCEPT ![c] = Tried(c, u, granted)],
               GoTo(c, IF cr[c].todo \ {u} = {} THEN "insert" ELSE "trial")
        PROVE  CreateFacts(c)'
    <2> DEFINE kept == Keep(c, granted)
               left == cr[c].todo \ {u}
    <2>1. pc'[c] = IF left = {} THEN "insert" ELSE "trial"
      BY <1>1, <1>3 DEF GoTo
    <2>2. u \in Urls /\ cr[c].granted \in [Urls -> SUBSET Scopes]
      BY <1>1 DEF CreateLocals
    <2>3. /\ cr'[c].want = cr[c].want /\ cr'[c].orgs = cr[c].orgs
          /\ cr'[c].todo = left /\ cr'[c].permitted = kept
          /\ cr'[c].granted = [cr[c].granted EXCEPT ![u] = granted]
          /\ left = {} => cr'[c].row = NewRow(c, kept)
      BY <1>1, <1>3 DEF Tried, CreateLocals
    <2>4. kept \subseteq granted /\ kept \subseteq cr[c].permitted
      BY <1>1, <1>3 DEF Keep, Missing, CreateFacts
    <2>5. ASSUME NEW w \in cr[c].want.urls, w \notin left
          PROVE  kept \subseteq cr'[c].granted[w]
      <3>1. w \in Urls
        BY <1>1 DEF CreateRequest
      <3>2. CASE w = u
        BY <2>2, <2>3, <2>4, <3>2
      <3>3. CASE w # u
        BY <1>1, <2>2, <2>3, <2>4, <2>5, <3>1, <3>3 DEF CreateFacts
      <3>. QED BY <3>2, <3>3
    <2>6. ~cr[c].want.all => kept = cr[c].want.scopes
      BY DEF Keep
    <2>7. SignedIn(c) /\ SignedIn(c)' /\ cr[c].want.tenant \in cr[c].orgs
      BY <1>1 DEF CreateFacts, SignedIn
    <2> HIDE DEF kept, left
    <2>8. CASE left = {}
      <3>1. /\ cr'[c].row.owner = bearer[c].owner /\ cr'[c].row.realm = cfg.realm
            /\ cr'[c].row.tenant = cr[c].want.tenant /\ cr'[c].row.urls = cr[c].want.urls
            /\ cr'[c].row.scopes = kept
        BY <2>3, <2>8 DEF NewRow
      <3>2. bearer[c] = [kind |-> "session", owner |-> bearer[c].owner]
        BY <1>1, <2>7 DEF Bearer, SignedIn
      <3>3. Marked(c, cr[c].row)'
        BY <1>1, <2>3, <2>5, <2>7, <2>8, <3>1, <3>2 DEF Marked, SignedIn
      <3>. QED BY <1>1, <2>1, <2>8, <3>3 DEF CreateFacts
    <2>9. CASE left # {}
      BY <1>1, <2>1, <2>3, <2>5, <2>6, <2>7, <2>9 DEF CreateFacts
    <2>. QED BY <2>8, <2>9
  <1>. QED BY <1>2, <1>3 DEF TrialExchange

\* The inserted row inherits the facts of its creation.
LEMMA InsertMinting ==
  ASSUME TypeInv, Facts, Minting, NEW c \in Creations, Insert(c)
  PROVE  CreateFacts(c)'
  <1>1. /\ pc[c] = "insert" /\ table[c] = None /\ bearer' = bearer
        /\ c \in Requests /\ pc \in [Requests -> Steps] /\ Marked(c, cr[c].row)
        /\ table \in [Creations -> Maybe(PatRecord)]
    BY DEF Insert, Facts, Minting, CreateFacts, TypeInv, TypeOK, Requests, Management
  <1>2. pc'[c] = "done"
    BY <1>1 DEF Insert, RefuseCreate, Answer
  <1>3. \/ table'[c] = None
        \/ table'[c] = cr[c].row /\ cr' = cr
    BY <1>1 DEF Insert
  <1>. QED BY <1>1, <1>2, <1>3 DEF CreateFacts, Marked

\* What others do leaves a creation's facts standing.
LEMMA MintingOfOthers ==
  ASSUME TypeInv, TypeInv', Facts, Facts', Minting, [Next]_vars, NEW c \in Creations,
         cr'[c] = cr[c], bearer'[c] = bearer[c],
         pc'[c] \in {"idle", "done"} \/ (pc'[c] = pc[c] /\ cfg' = cfg),
         table[c] = None => table'[c] = None
  PROVE  CreateFacts(c)'
  <1>1. CreateFacts(c)
    BY DEF Minting
  <1>2. table'[c] # None => Marked(c, table[c])'
    BY <1>1, StoredRowStaysMarked DEF CreateFacts
  <1>. QED BY <1>1, <1>2 DEF CreateFacts, SignedIn, Marked

\* An own answer ends nobody else's creation.
LEMMA OthersKeepCreation ==
  ASSUME TypeInv, NEW c \in Creations,
         \/ \E r \in Management : r # c /\ PresentBearer(r)
         \/ \E d \in Creations : d # c /\ CreateStep(d)
         \/ \E l \in Listings : ListStep(l)
         \/ \E v \in Revocations : RevokeStep(v)
         \/ \E e \in Exchanges : PresentToken(e) \/ ExchangeStep(e)
  PROVE  cr'[c] = cr[c] /\ bearer'[c] = bearer[c] /\ pc'[c] = pc[c] /\ cfg' = cfg
  <1>1. /\ c \in Requests /\ c \in Management
        /\ \A r \in Management : r \in Requests
        /\ \A r \in Listings \cup Revocations \cup Exchanges : r \in Requests /\ r # c
        /\ cr \in [Creations -> CreateLocals] /\ bearer \in [Management -> Maybe(Bearer)]
    BY PatAssumption DEF PatAssumption, Requests, Management, TypeInv, TypeOK
  <1>2. ASSUME NEW r \in Management, r # c, PresentBearer(r)
        PROVE  cr'[c] = cr[c] /\ bearer'[c] = bearer[c] /\ pc'[c] = pc[c] /\ cfg' = cfg
    BY <1>1, <1>2, OwnControl DEF PresentBearer
  <1>3. ASSUME NEW d \in Creations, d # c, CreateStep(d)
        PROVE  cr'[c] = cr[c] /\ bearer'[c] = bearer[c] /\ pc'[c] = pc[c] /\ cfg' = cfg
    <2>1. pc'[c] = pc[c]
      BY <1>1, <1>3, OwnControl DEF CreateStep, AuthenticateCreate, Authenticate, ReadBody,
        EnsureLinkGet, EnsureLinkPost, TrialExchange, Insert, RefuseCreate, Management
    <2>2. cr'[c] = cr[c]
      BY <1>1, <1>3 DEF CreateStep, AuthenticateCreate, Authenticate, ReadBody,
        EnsureLinkGet, EnsureLinkPost, TrialExchange, Insert, RefuseCreate
    <2>3. bearer' = bearer /\ cfg' = cfg
      BY <1>3 DEF CreateStep, AuthenticateCreate, Authenticate, ReadBody, EnsureLinkGet,
        EnsureLinkPost, TrialExchange, Insert
    <2>. QED BY <2>1, <2>2, <2>3
  <1>4. ASSUME NEW l \in Listings, ListStep(l)
        PROVE  cr'[c] = cr[c] /\ bearer'[c] = bearer[c] /\ pc'[c] = pc[c] /\ cfg' = cfg
    BY <1>1, <1>4, OwnControl DEF ListStep, AuthenticateList, Authenticate, ListForOwner
  <1>5. ASSUME NEW v \in Revocations, RevokeStep(v)
        PROVE  cr'[c] = cr[c] /\ bearer'[c] = bearer[c] /\ pc'[c] = pc[c] /\ cfg' = cfg
    BY <1>1, <1>5, OwnControl DEF RevokeStep, AuthenticateRevoke, Authenticate, RevokeUpdate
  <1>6. ASSUME NEW e \in Exchanges, PresentToken(e) \/ ExchangeStep(e)
        PROVE  cr'[c] = cr[c] /\ bearer'[c] = bearer[c] /\ pc'[c] = pc[c] /\ cfg' = cfg
    BY <1>1, <1>6, OwnControl DEF PresentToken, ExchangeStep, FindByHash, CheckRow, Sign,
      JwtBearerGrant, Touch, RefuseExchange, UpstreamRefusal
  <1>. QED BY <1>2, <1>3, <1>4, <1>5, <1>6

\* A row appears only by its own creation's INSERT.
LEMMA RowAppears ==
  ASSUME TypeInv, Facts, [Next]_vars, NEW c \in Creations, ~Insert(c), table[c] = None
  PROVE  table'[c] = None
  <1>1. table \in [Creations -> Maybe(PatRecord)]
    BY DEF TypeInv, TypeOK
  <1>2. ASSUME NEW d \in Creations, Insert(d) PROVE table'[c] = None
    BY <1>1, <1>2 DEF Insert
  <1>3. ASSUME NEW v \in Revocations, RevokeUpdate(v) PROVE table'[c] = None
    BY <1>1, <1>3 DEF RevokeUpdate, Revocable, OwnRow
  <1>4. ASSUME NEW e \in Exchanges, Touch(e) PROVE table'[c] = None
    <2>1. ex[e].token # c
      BY <1>4 DEF Touch, TypeInv, Held
    <2>. QED BY <1>1, <1>4, <2>1 DEF Touch
  <1>. QED BY <1>2, <1>3, <1>4, TableWriters

\* Minting is preserved by every step.
LEMMA StepMinting == Inv /\ Inv' /\ Minting /\ [Next]_vars => Minting'
  <1> SUFFICES ASSUME TypeInv, TypeInv', Facts, Facts', Minting, [Next]_vars,
                      NEW c \in Creations
               PROVE  CreateFacts(c)'
    BY DEF Inv, Minting
  <1>1. CASE CreateStep(c)
    BY <1>1, AuthenticateCreateMinting, ReadBodyMinting, EnsureLinkMinting, TrialExchangeMinting, InsertMinting
    DEF CreateStep
  <1>2. ~CreateStep(c) /\ table[c] = None => table'[c] = None
    BY RowAppears DEF CreateStep
  <1>3. CASE PresentBearer(c)
    <2>1. pc[c] = "idle" /\ table'[c] = None /\ pc'[c] \in {"done", "introspect"}
      BY <1>3 DEF PresentBearer, Answer, GoTo, Facts, TypeInv, TypeOK, Requests, Management
    <2>. QED BY <2>1 DEF CreateFacts
  <1>4. CASE /\ ~CreateStep(c)
             /\ \/ \E r \in Management : r # c /\ PresentBearer(r)
                \/ \E d \in Creations : d # c /\ CreateStep(d)
                \/ \E l \in Listings : ListStep(l)
                \/ \E v \in Revocations : RevokeStep(v)
                \/ \E e \in Exchanges : PresentToken(e) \/ ExchangeStep(e)
    BY <1>2, <1>4, OthersKeepCreation, MintingOfOthers
  <1>5. CASE ~CreateStep(c) /\ Surroundings
    <2>1. cr' = cr /\ bearer' = bearer
      BY <1>5 DEF Surroundings, Tick, Change, RoleChange, MembershipChange, SessionChange,
        LinkChange, Restart
    <2>2. pc'[c] \in {"idle", "done"} \/ (pc'[c] = pc[c] /\ cfg' = cfg)
      BY <1>5 DEF Surroundings, Tick, RoleChange, MembershipChange, SessionChange,
        LinkChange, Restart, Requests, Management
    <2>. QED BY <1>2, <1>5, <2>1, <2>2, MintingOfOthers
  <1>6. CASE ~CreateStep(c) /\ UNCHANGED vars
    BY <1>2, <1>6, MintingOfOthers DEF vars
  <1>. QED BY <1>1, <1>3, <1>4, <1>5, <1>6 DEF Next, Arrive, Finished

\* The inductive invariant of creation holds throughout.
LEMMA SpecMinting == Spec => []Minting
  BY InitMinting, StepMinting, SpecInv, PTL DEF Spec

\* Every stored set was granted whole at every named resource, whatever happens
\* to the owner's roles between the trial exchanges.
THEOREM StoredSetsWereGranted == Spec => []StoredSetWasGranted
  <1>1. Minting => StoredSetWasGranted
    BY DEF Minting, CreateFacts, Marked, StoredSetWasGranted
  <1>. QED BY <1>1, SpecMinting, PTL

\* No row is minted by anything but an interactive sign-in of its owner.
THEOREM OnlySignedInOwnersMint == Spec => []MintedBySignedInOwner
  <1>1. Minting => MintedBySignedInOwner
    BY DEF Minting, CreateFacts, Marked, MintedBySignedInOwner
  <1>. QED BY <1>1, SpecMinting, PTL
=============================================================================
