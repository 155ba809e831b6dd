----------------------------- MODULE PatCliProofs ----------------------------
(***************************************************************************)
(* Theorems about PatCli, for every number of commands, browsers and       *)
(* ports, every set of URLs and every set of stray redirects.              *)
(***************************************************************************)
EXTENDS PatCli, TLAPS

Inside == {"register", "browse", "wait", "close", "redeem", "manage", "print", "exit"}

(***************************************************************************)
(* The endpoints a running command holds were accepted by read_endpoints,  *)
(* and secrets went to them.                                               *)
(***************************************************************************)
EndpointsHeld ==
  \A c \in Commands :
    /\ pc[c] \in Inside => ends[c] # None
    /\ ends[c] # None => ends[c].token \in Secure /\ ends[c].issuer \in Secure
    /\ sent[c] \subseteq Secure

TypeInv == TypeOK /\ EndpointsHeld

\* The initial states are well typed.
LEMMA InitType == Init => TypeInv
  <1> SUFFICES ASSUME Init PROVE TypeInv
    OBVIOUS
  <1>1. conn \in [Browsers -> [to : Maybe(Commands), params : Maybe(Params), at : Pages]]
    BY DEF Init, NoConn, Maybe, Pages
  <1>2. TypeOK
    BY <1>1 DEF Init, TypeOK, Maybe, Steps, Calls
  <1>3. EndpointsHeld
    BY DEF Init, EndpointsHeld, Inside
  <1>. QED BY <1>2, <1>3 DEF TypeInv

\* An exit ends the command, moves no other and resets only its connections.
LEMMA ExitEffect ==
  ASSUME TypeOK, NEW c \in Commands, NEW ending \in Endings, Exit(c, ending)
  PROVE  /\ pc' \in [Commands -> Steps]
         /\ pc'[c] = "done" /\ said'[c] = ending
         /\ \A d \in Commands : d # c => pc'[d] = pc[d] /\ said'[d] = said[d]
         /\ said' \in [Commands -> Maybe(Endings)]
         /\ thread' \in [Commands -> {"none", "started", "serving", "returned"}]
         /\ conn' \in [Browsers -> [to : Maybe(Commands), params : Maybe(Params), at : Pages]]
         /\ \A b \in Browsers :
              /\ conn'[b].to = conn[b].to /\ conn'[b].params = conn[b].params
              /\ conn'[b].at = conn[b].at \/ (conn'[b].at = "reset" /\ Open(b))
  <1>1. /\ pc' \in [Commands -> Steps]
        /\ pc'[c] = "done" /\ said'[c] = ending
        /\ \A d \in Commands : d # c => pc'[d] = pc[d] /\ said'[d] = said[d]
        /\ said' \in [Commands -> Maybe(Endings)]
        /\ thread' \in [Commands -> {"none", "started", "serving", "returned"}]
    BY DEF TypeOK, Exit, GoTo, Steps, Maybe
  <1>2. ASSUME NEW b \in Browsers
        PROVE  /\ conn'[b] \in [to : Maybe(Commands), params : Maybe(Params), at : Pages]
               /\ conn'[b].to = conn[b].to /\ conn'[b].params = conn[b].params
               /\ conn'[b].at = conn[b].at \/ (conn'[b].at = "reset" /\ Open(b))
    <2>1. conn[b] \in [to : Maybe(Commands), params : Maybe(Params), at : Pages]
      BY DEF TypeOK
    <2>2. \/ conn'[b] = conn[b]
          \/ Open(b) /\ conn'[b] = [conn[b] EXCEPT !.at = "reset"]
      BY DEF Exit
    <2>. QED BY <2>1, <2>2 DEF Pages
  <1>3. conn' = [b \in Browsers |-> conn'[b]]
    BY DEF Exit
  <1>. QED BY <1>1, <1>2, <1>3

\* The main thread moving on moves no other command.
LEMMA GoToEffect ==
  ASSUME TypeOK, NEW c \in Commands, NEW step \in Steps, GoTo(c, step)
  PROVE  /\ pc' \in [Commands -> Steps]
         /\ pc'[c] = step
         /\ \A d \in Commands : d # c => pc'[d] = pc[d]
  BY DEF TypeOK, GoTo

-----------------------------------------------------------------------------
\* discover_proxy and read_endpoints before a listener is bound keep the types,
\* and only accepted endpoints are held.
LEMMA StartType ==
  ASSUME TypeInv, NEW c \in Commands, Start(c) PROVE TypeInv'
  <1>1. target' \in [Commands -> Maybe(Commands)]
    BY DEF TypeInv, TypeOK, Start, Maybe
  <1>2. CASE Exit(c, "failed") /\ UNCHANGED <<ends, port>>
    <2>1. /\ pc' \in [Commands -> Steps] /\ said' \in [Commands -> Maybe(Endings)]
          /\ thread' \in [Commands -> {"none", "started", "serving", "returned"}]
          /\ conn' \in [Browsers -> [to : Maybe(Commands), params : Maybe(Params), at : Pages]]
          /\ pc'[c] = "done"
          /\ \A d \in Commands : d # c => pc'[d] = pc[d]
      BY <1>2, ExitEffect DEF TypeInv, Endings
    <2>2. TypeOK'
      BY <1>1, <1>2, <2>1 DEF TypeInv, TypeOK, Start, signIn, management
    <2>3. EndpointsHeld'
      BY <1>2, <2>1 DEF TypeInv, EndpointsHeld, Start, Inside
    <2>. QED BY <2>2, <2>3 DEF TypeInv
  <1>3. CASE ~(Exit(c, "failed") /\ UNCHANGED <<ends, port>>)
    <2>1. PICK document \in Endpoints, p \in Ports :
            /\ \E url \in Sites \cup {None}, s256 \in BOOLEAN : ReadEndpoints(url, document, s256)
            /\ ends' = [ends EXCEPT ![c] = document]
            /\ port' = [port EXCEPT ![c] = p]
            /\ thread' = [thread EXCEPT ![c] = "started"]
            /\ GoTo(c, "register")
            /\ UNCHANGED <<said, conn>>
      BY <1>3 DEF Start, Discovered, Maybe
    <2>2. document.token \in Secure /\ document.issuer \in Secure
      BY <2>1 DEF ReadEndpoints, RequireSecure
    <2>3. pc' \in [Commands -> Steps] /\ \A d \in Commands : d # c => pc'[d] = pc[d]
      BY <2>1, GoToEffect DEF TypeInv, Steps
    <2>4. document # None
      BY CliAssumption DEF CliAssumption
    <2>5. TypeOK'
      BY <1>1, <2>1, <2>3 DEF TypeInv, TypeOK, Start, signIn, management, Maybe
    <2>6. EndpointsHeld'
      BY <2>1, <2>2, <2>3, <2>4 DEF TypeInv, TypeOK, EndpointsHeld, Start
    <2>. QED BY <2>5, <2>6 DEF TypeInv
  <1>. QED BY <1>2, <1>3

\* The two threads of the listener keep the types.
LEMMA ThreadType ==
  ASSUME TypeInv, NEW c \in Commands, ThreadStep(c) PROVE TypeInv'
  <1>1. thread' \in [Commands -> {"none", "started", "serving", "returned"}]
    BY DEF TypeInv, TypeOK, ThreadStep, ServeForever, StopServing
  <1>2. TypeOK'
    BY <1>1 DEF TypeInv, TypeOK, ThreadStep, ServeForever, StopServing, argv, signIn, management
  <1>3. EndpointsHeld'
    BY DEF TypeInv, EndpointsHeld, ThreadStep, ServeForever, StopServing
  <1>. QED BY <1>2, <1>3 DEF TypeInv

\* A new connection keeps the types.
LEMMA ConnectType ==
  ASSUME TypeInv, NEW b \in Browsers, Connect(b) PROVE TypeInv'
  <1>1. CliAssumption
    BY CliAssumption
  <1>2. \A c \in Commands : Deliverable(c) \subseteq Params
    BY <1>1 DEF CliAssumption, Deliverable
  <1>3. \E r \in [to : Maybe(Commands), params : Maybe(Params), at : Pages] :
          conn' = [conn EXCEPT ![b] = r]
    <2>1. PICK c \in Commands :
            \/ \E p \in Deliverable(c) :
                 conn' = [conn EXCEPT ![b] = [to |-> c, params |-> p, at |-> "read"]]
            \/ conn' = [conn EXCEPT ![b] = [to |-> c, params |-> None, at |-> "404"]]
      BY DEF Connect
    <2>2. [to |-> c, params |-> None, at |-> "404"]
            \in [to : Maybe(Commands), params : Maybe(Params), at : Pages]
      BY DEF Maybe, Pages
    <2>3. \A p \in Deliverable(c) : [to |-> c, params |-> p, at |-> "read"]
            \in [to : Maybe(Commands), params : Maybe(Params), at : Pages]
      BY <1>2 DEF Maybe, Pages
    <2>. QED BY <2>1, <2>2, <2>3
  <1>4. TypeOK'
    BY <1>3 DEF TypeInv, TypeOK, Connect, argv, receiver, signIn, management
  <1>5. EndpointsHeld'
    BY DEF TypeInv, EndpointsHeld, Connect
  <1>. QED BY <1>4, <1>5 DEF TypeInv

(***************************************************************************)
(* A handler changes its own connection only, and leaves it where it went. *)
(***************************************************************************)
Handles(b, at, params) ==
  /\ conn' \in [Browsers -> [to : Maybe(Commands), params : Maybe(Params), at : Pages]]
  /\ conn'[b].to = conn[b].to
  /\ conn'[b].at = at
  /\ conn'[b].params = params
  /\ \A e \in Browsers : e # b => conn'[e] = conn[e]

\* _accept under the lock, step by step: the first redirect fills the slot and
\* a later one is dropped.
LEMMA AcceptHandles ==
  ASSUME TypeOK, NEW b \in Browsers, Accept(b)
  PROVE  LET c == conn[b].to IN
         \/ /\ Vacant(c)
            /\ slot' = [slot EXCEPT ![c] = conn[b].params]
            /\ Handles(b, "won", conn[b].params)
         \/ ~Vacant(c) /\ UNCHANGED slot /\ Handles(b, "late", None)
  <1> DEFINE C == [to : Maybe(Commands), params : Maybe(Params), at : Pages]
  <1>0. conn \in [Browsers -> C] /\ conn[b] \in C
    BY DEF TypeOK
  <1>1. CASE Vacant(conn[b].to)
    <2>1. conn' = [conn EXCEPT ![b].at = "won"]
      BY <1>1 DEF Accept
    <2>2. conn'[b] = [conn[b] EXCEPT !.at = "won"] /\ \A e \in Browsers : e # b => conn'[e] = conn[e]
      BY <1>0, <2>1
    <2>3. /\ conn'[b] \in C /\ conn'[b].at = "won" /\ conn'[b].to = conn[b].to
          /\ conn'[b].params = conn[b].params
      BY <1>0, <2>2 DEF Pages
    <2>. QED BY <1>0, <1>1, <2>1, <2>2, <2>3 DEF Accept, Handles
  <1>2. CASE ~Vacant(conn[b].to)
    <2>1. conn' = [conn EXCEPT ![b].at = "late", ![b].params = None]
      BY <1>2 DEF Accept
    <2>2. /\ conn'[b] = [[conn[b] EXCEPT !.at = "late"] EXCEPT !.params = None]
          /\ \A e \in Browsers : e # b => conn'[e] = conn[e]
          /\ DOMAIN conn' = Browsers
          /\ conn' = [e \in Browsers |-> conn'[e]]
      BY <1>0, <2>1
    <2>3. /\ conn'[b] \in C /\ conn'[b].at = "late" /\ conn'[b].to = conn[b].to
          /\ conn'[b].params = None
      BY <1>0, <2>2 DEF Pages, Maybe
    <2>4. conn' \in [Browsers -> C]
      BY <1>0, <2>2, <2>3
    <2>. QED BY <1>2, <2>2, <2>3, <2>4 DEF Accept, Handles
  <1>. QED BY <1>1, <1>2

\* do_GET and _accept keep the types.
LEMMA HandlerType ==
  ASSUME TypeInv, NEW b \in Browsers, HandlerStep(b) PROVE TypeInv'
  <1>0. conn[b] \in [to : Maybe(Commands), params : Maybe(Params), at : Pages]
    BY DEF TypeInv, TypeOK
  <1>1. CASE Accept(b)
    <2>1. conn' \in [Browsers -> [to : Maybe(Commands), params : Maybe(Params), at : Pages]]
      BY <1>1, AcceptHandles DEF TypeInv, Handles
    <2>2. slot' \in [Commands -> Maybe(Params)]
      BY <1>0, <1>1 DEF TypeInv, TypeOK, Accept
    <2>3. TypeOK'
      BY <1>1, <2>1, <2>2 DEF TypeInv, TypeOK, Accept, argv, signIn, management
    <2>4. EndpointsHeld'
      BY <1>1 DEF TypeInv, EndpointsHeld, Accept
    <2>. QED BY <2>3, <2>4 DEF TypeInv
  <1>2. CASE SetDone(b)
    <2>1. conn' \in [Browsers -> [to : Maybe(Commands), params : Maybe(Params), at : Pages]]
      BY <1>0, <1>2 DEF TypeInv, TypeOK, SetDone, Pages
    <2>2. TypeOK'
      BY <1>2, <2>1 DEF TypeInv, TypeOK, SetDone, argv, signIn, management
    <2>3. EndpointsHeld'
      BY <1>2 DEF TypeInv, EndpointsHeld, SetDone
    <2>. QED BY <2>2, <2>3 DEF TypeInv
  <1>3. CASE AnswerBrowser(b)
    <2>1. conn' \in [Browsers -> [to : Maybe(Commands), params : Maybe(Params), at : Pages]]
      BY <1>0, <1>3 DEF TypeInv, TypeOK, AnswerBrowser, Pages
    <2>2. TypeOK'
      BY <1>3, <2>1 DEF TypeInv, TypeOK, AnswerBrowser, argv, receiver, signIn, management
    <2>3. EndpointsHeld'
      BY <1>3 DEF TypeInv, EndpointsHeld, AnswerBrowser
    <2>. QED BY <2>2, <2>3 DEF TypeInv
  <1>. QED BY <1>1, <1>2, <1>3 DEF HandlerStep

\* Registration, the browser and the wait keep the types.
LEMMA SignInType ==
  ASSUME TypeInv, NEW c \in Commands, Register(c) \/ OpenBrowser(c) \/ Wait(c)
  PROVE  TypeInv'
  <1>1. \E step \in {"browse", "wait", "close"} : GoTo(c, step)
    BY DEF Register, OpenBrowser, Wait, Raise
  <1>2. /\ pc' \in [Commands -> Steps]
        /\ \A d \in Commands : pc'[d] \in Inside => pc[d] \in Inside
    BY <1>1, GoToEffect DEF TypeInv, Steps, Inside, Register, OpenBrowser, Wait
  <1>3. CASE Register(c)
    <2>1. failure' \in [Commands -> BOOLEAN] /\ opened' \subseteq Commands
      BY <1>3 DEF TypeInv, TypeOK, Register, Raise
    <2>2. TypeOK'
      BY <1>2, <1>3, <2>1 DEF TypeInv, TypeOK, Register, argv, receiver, management
    <2>3. EndpointsHeld'
      BY <1>2, <1>3 DEF TypeInv, EndpointsHeld, Register
    <2>. QED BY <2>2, <2>3 DEF TypeInv
  <1>4. CASE Wait(c)
    <2>1. received' \in [Commands -> Maybe(Params)]
      BY <1>4 DEF TypeInv, TypeOK, Wait, Result
    <2>2. TypeOK'
      BY <1>2, <1>4, <2>1 DEF TypeInv, TypeOK, Wait, argv, signIn, management
    <2>3. EndpointsHeld'
      BY <1>2, <1>4 DEF TypeInv, EndpointsHeld, Wait
    <2>. QED BY <2>2, <2>3 DEF TypeInv
  <1>5. CASE OpenBrowser(c)
    <2>1. TypeOK'
      BY <1>2, <1>5 DEF TypeInv, TypeOK, OpenBrowser, argv, receiver, signIn, management
    <2>2. EndpointsHeld'
      BY <1>2, <1>5 DEF TypeInv, EndpointsHeld, OpenBrowser
    <2>. QED BY <2>1, <2>2 DEF TypeInv
  <1>. QED BY <1>3, <1>4, <1>5

(***************************************************************************)
(* What the actions that may end a command do to its control: it exits, or *)
(* it goes on to its next blocking call.                                   *)
(***************************************************************************)
Exits(c) == \E ending \in Endings : Exit(c, ending)
Moves(c, from, to) == pc[c] = from /\ (Exits(c) \/ Proceed(c, to))

Controlled ==
  /\ pc' \in [Commands -> Steps]
  /\ said' \in [Commands -> Maybe(Endings)]
  /\ thread' \in [Commands -> {"none", "started", "serving", "returned"}]
  /\ conn' \in [Browsers -> [to : Maybe(Commands), params : Maybe(Params), at : Pages]]
  /\ \A d \in Commands : pc'[d] \in Inside => pc[d] \in Inside

\* Ending a command or moving on keeps the types of the control.
LEMMA MovesType ==
  ASSUME TypeOK, NEW c \in Commands, NEW from \in Inside, NEW to \in Steps,
         Moves(c, from, to)
  PROVE  Controlled
  <1>1. CASE Exits(c)
    <2>1. PICK ending \in Endings : Exit(c, ending)
      BY <1>1 DEF Exits
    <2>2. /\ pc' \in [Commands -> Steps]
          /\ said' \in [Commands -> Maybe(Endings)]
          /\ thread' \in [Commands -> {"none", "started", "serving", "returned"}]
          /\ conn' \in [Browsers -> [to : Maybe(Commands), params : Maybe(Params), at : Pages]]
          /\ pc'[c] = "done" /\ \A d \in Commands : d # c => pc'[d] = pc[d]
      BY <2>1, ExitEffect
    <2>. QED BY <2>2 DEF Controlled, Inside
  <1>2. CASE Proceed(c, to)
    <2>1. /\ pc' \in [Commands -> Steps]
          /\ \A d \in Commands : d # c => pc'[d] = pc[d]
      BY <1>2, GoToEffect DEF Proceed
    <2>. QED BY <1>2, <2>1 DEF Controlled, Proceed, TypeOK, Moves
  <1>. QED BY <1>1, <1>2 DEF Moves

\* __exit__ and the redemption keep the types; what is sent goes to the
\* endpoints held.
LEMMA RedeemType ==
  ASSUME TypeInv, NEW c \in Commands, Close(c) \/ Redeem(c) PROVE TypeInv'
  <1>1. /\ ends[c] \in Endpoints
        /\ ends[c].token \in Secure /\ ends[c].issuer \in Secure
    BY DEF TypeInv, TypeOK, EndpointsHeld, Close, Redeem, Inside, Maybe
  <1>2. \/ Moves(c, "close", "redeem") \/ Moves(c, "redeem", "manage")
    BY DEF Close, Redeem, Moves, Exits, Endings
  <1>3. Controlled
    BY <1>2, MovesType DEF TypeInv, Inside, Steps
  <1>4. /\ sent' \in [Commands -> SUBSET Sites]
        /\ \A d \in Commands : sent'[d] \subseteq Secure
    <2>1. \E url \in {ends[c].token, ends[c].issuer} :
            \/ UNCHANGED sent
            \/ sent' = [sent EXCEPT ![c] = @ \cup {url}]
      BY DEF Close, Redeem
    <2>2. ends[c].token \in Sites /\ ends[c].issuer \in Sites
      BY <1>1 DEF Endpoints
    <2>. QED BY <1>1, <2>1, <2>2 DEF TypeInv, TypeOK, EndpointsHeld
  <1>5. EndpointsHeld'
    <2>1. UNCHANGED ends
      BY DEF Close, Redeem
    <2>. QED BY <1>3, <1>4, <2>1 DEF TypeInv, EndpointsHeld, Controlled
  <1>6. used' \in [Commands -> Maybe(Params)] /\ call' \in [Commands -> Calls]
    BY DEF TypeInv, TypeOK, Close, Redeem, management, signIn, Calls
  <1>7. UNCHANGED <<failure, kind, target, ends, receiver, opened, row, listed, printed>>
    BY DEF Close, Redeem, argv, management, signIn
  <1>8. TypeOK'
    BY <1>3, <1>4, <1>6, <1>7 DEF TypeInv, TypeOK, Controlled, receiver
  <1>. QED BY <1>5, <1>8 DEF TypeInv

\* The answer, the result and the end of a command keep the types.
LEMMA AnswerType ==
  ASSUME TypeInv, NEW c \in Commands,
         ReadAnswer(c) \/ WriteResult(c) \/ Return(c) \/ GiveUp(c) \/ Kill(c)
  PROVE  TypeInv'
  <1>1. pc[c] \in Inside /\ \E to \in {"print", "exit"} : Moves(c, pc[c], to)
    BY DEF TypeInv, TypeOK, ReadAnswer, WriteResult, Return, GiveUp, Kill, Moves, Exits, Endings,
           Inside, Steps
  <1>2. Controlled
    BY <1>1, MovesType DEF TypeInv, Steps
  <1>3. printed' \subseteq Commands
    BY DEF TypeInv, TypeOK, ReadAnswer, WriteResult, Return, GiveUp, Kill, management
  <1>4. UNCHANGED <<failure, argv, ends, sent, receiver, signIn, call, row, listed>>
    BY DEF ReadAnswer, WriteResult, Return, GiveUp, Kill, management
  <1>5. TypeOK'
    BY <1>2, <1>3, <1>4 DEF TypeInv, TypeOK, Controlled, argv, receiver, signIn
  <1>6. EndpointsHeld'
    BY <1>2, <1>4 DEF TypeInv, EndpointsHeld, Controlled
  <1>. QED BY <1>5, <1>6 DEF TypeInv

-----------------------------------------------------------------------------
(***************************************************************************)
(* What the proxy may do with a call: answer it, and with a creation or a  *)
(* revocation its one effect on the rows.                                  *)
(***************************************************************************)
Served(c) ==
  \E answer \in Calls \ {"none", "sent"} :
    /\ call[c] = "sent"
    /\ call' = [call EXCEPT ![c] = answer]
    /\ \/ /\ answer \in {"200", "4xx", "500"}
          /\ UNCHANGED row
       \/ /\ answer \in {"201", "500"}
          /\ kind[c] = "create" /\ row[c] = "none"
          /\ row' = [row EXCEPT ![c] = "live"]
       \/ /\ answer \in {"204", "500"}
          /\ kind[c] = "revoke" /\ target[c] # None /\ row[target[c]] = "live"
          /\ row' = [row EXCEPT ![target[c]] = "revoked"]

\* PatLife's actions, as far as a command can tell.
LEMMA ServeCallServes ==
  ASSUME TypeOK, NEW c \in Commands, ServeCall(c) PROVE Served(c)
  <1>1. CASE Proxy!Refuse(c)
    BY <1>1 DEF ServeCall, Served, Proxy!Refuse, Calls
  <1>2. CASE Proxy!Fail(c)
    BY <1>2 DEF ServeCall, Served, Proxy!Fail, Proxy!Answer, Calls
  <1>3. CASE kind[c] = "create" /\ Proxy!Create(c, "live")
    BY <1>3 DEF ServeCall, Served, Proxy!Create, Proxy!Answer, Calls
  <1>4. CASE kind[c] = "list" /\ Proxy!List(c)
    BY <1>4 DEF ServeCall, Served, Proxy!List, Proxy!Answer, Calls
  <1>5. CASE kind[c] = "revoke" /\ target[c] # None /\ Proxy!Revoke(c, target[c])
    <2>1. target[c] \in Commands
      BY <1>5 DEF TypeOK, Maybe
    <2>2. row[target[c]] = "live"
      BY <1>5, <2>1 DEF TypeOK, Proxy!Revoke
    <2>. QED BY <1>5, <2>2 DEF ServeCall, Served, Proxy!Revoke, Proxy!Answer, Calls
  <1>. QED BY <1>1, <1>2, <1>3, <1>4, <1>5 DEF ServeCall

\* The proxy's part keeps the types.
LEMMA ServeCallType ==
  ASSUME TypeInv, NEW c \in Commands, ServeCall(c) PROVE TypeInv'
  <1>1. Served(c)
    BY ServeCallServes DEF TypeInv
  <1>2. call' \in [Commands -> Calls] /\ row' \in [Commands -> {"none", "live", "revoked"}]
    BY <1>1 DEF TypeInv, TypeOK, Served
  <1>3. Selected \subseteq Commands \X {"live", "revoked"}
    BY DEF TypeInv, TypeOK, Selected
  <1>4. listed' \in [Commands -> SUBSET (Commands \X {"live", "revoked"})]
    <2>1. UNCHANGED listed \/ listed' = [listed EXCEPT ![c] = Selected]
      BY DEF ServeCall
    <2>. QED BY <1>3, <2>1 DEF TypeInv, TypeOK
  <1>5. TypeOK'
    BY <1>2, <1>4 DEF TypeInv, TypeOK, ServeCall, argv, receiver, signIn
  <1>6. EndpointsHeld'
    BY DEF TypeInv, EndpointsHeld, ServeCall
  <1>. QED BY <1>5, <1>6 DEF TypeInv

\* A step that changes nothing keeps the types.
LEMMA StutterType == TypeInv /\ UNCHANGED vars => TypeInv'
  BY DEF TypeInv, TypeOK, EndpointsHeld, vars

\* Every step keeps the types.
LEMMA NextType == TypeInv /\ [Next]_vars => TypeInv'
  <1> SUFFICES ASSUME TypeInv, [Next]_vars PROVE TypeInv'
    OBVIOUS
  <1>1. CASE \E c \in Commands : \/ Start(c) \/ MainStep(c) \/ ThreadStep(c)
                                 \/ ServeCall(c) \/ Kill(c)
    BY <1>1, StartType, SignInType, RedeemType, AnswerType, ThreadType, ServeCallType
      DEF MainStep, Outside
  <1>2. CASE \E b \in Browsers : Connect(b) \/ HandlerStep(b)
    BY <1>2, ConnectType, HandlerType
  <1>3. CASE Finished \/ UNCHANGED vars
    BY <1>3, StutterType DEF Finished
  <1>. QED BY <1>1, <1>2, <1>3 DEF Next

\* The typed invariant holds of every behaviour.
LEMMA SpecType == Spec => []TypeInv
  BY InitType, NextType, PTL DEF Spec

\* Every reachable state is well typed: where each command, listener thread and
\* connection can be, and what each holds there (TypeOK).
THEOREM TypeCorrect == Spec => []TypeOK
  <1>1. TypeInv => TypeOK
    BY DEF TypeInv
  <1>. QED BY <1>1, SpecType, PTL

\* A code, a verifier or an access token goes to secure URLs only, whatever the
\* resource's and the proxy's metadata documents say (_require_secure,
\* read_endpoints; SecretsStaySecure).
THEOREM SecretsGoToSecureUrls == Spec => []SecretsStaySecure
  <1>1. TypeInv => SecretsStaySecure
    BY DEF TypeInv, EndpointsHeld, SecretsStaySecure
  <1>. QED BY <1>1, SpecType, PTL

-----------------------------------------------------------------------------
Counted == {"won", "set", "200"}
Past == {"redeem", "manage", "print", "exit", "done"}

(***************************************************************************)
(* The one redirect that counts, from the browser to the token endpoint:   *)
(* the connection that won holds what is in the slot, wait returned the    *)
(* slot, and the code posted is the one check_redirect accepted there.     *)
(***************************************************************************)
WinnerHolds ==
  \A b \in Browsers : conn[b].at \in Counted =>
    conn[b].to \in Commands /\ conn[b].params # None /\ slot[conn[b].to] = conn[b].params
ReadersHold ==
  \A b \in Browsers : conn[b].at = "read" => conn[b].to \in Commands /\ conn[b].params # None
OneWinner ==
  \A b, e \in Browsers :
    conn[b].at \in Counted /\ conn[e].at \in Counted /\ conn[b].to = conn[e].to => b = e
SlotDelivered ==
  \A c \in Commands : slot[c] # None =>
    \E b \in Browsers : /\ conn[b].to = c /\ conn[b].params = slot[c]
                        /\ conn[b].at \in Counted \cup {"reset"}
SlotRead == \A c \in Commands : received[c] # None => received[c] = slot[c]
OwnUsed ==
  \A c \in Commands : used[c] # None =>
    pc[c] \in Past /\ used[c] = received[c] /\ used[c] \in Genuine(c)

Redirects == WinnerHolds /\ ReadersHold /\ OneWinner /\ SlotDelivered /\ SlotRead /\ OwnUsed

\* No redirect has arrived at first.
LEMMA InitRedirects == Init => Redirects
  <1> SUFFICES ASSUME Init PROVE Redirects
    OBVIOUS
  <1>1. \A b \in Browsers : conn[b].at = "idle"
    BY DEF Init, NoConn
  <1>2. WinnerHolds /\ ReadersHold /\ OneWinner
    BY <1>1 DEF WinnerHolds, ReadersHold, OneWinner, Counted
  <1>3. SlotDelivered /\ SlotRead /\ OwnUsed
    BY DEF Init, SlotDelivered, SlotRead, OwnUsed
  <1>. QED BY <1>2, <1>3 DEF Redirects

(***************************************************************************)
(* A step that delivers, accepts and redeems nothing: connections stay or  *)
(* are reset with their process, and no command goes back.                 *)
(***************************************************************************)
NoRedirect ==
  /\ UNCHANGED <<slot, received, used>>
  /\ \A b \in Browsers :
       /\ conn'[b].to = conn[b].to /\ conn'[b].params = conn[b].params
       /\ conn'[b].at = conn[b].at \/ (conn'[b].at = "reset" /\ Open(b))
  /\ \A c \in Commands : pc[c] \in Past => pc'[c] \in Past

\* Such a step keeps what is known of the redirects.
LEMMA NoRedirectKeeps ==
  ASSUME Redirects, NoRedirect PROVE Redirects'
  <1>1. \A b \in Browsers :
          /\ conn'[b].at \in Counted \cup {"read"} => conn'[b].at = conn[b].at
          /\ conn[b].at \in Counted \cup {"reset"} => conn'[b].at \in Counted \cup {"reset"}
    BY DEF NoRedirect, Counted
  <1>2. WinnerHolds' /\ ReadersHold'
    BY <1>1 DEF Redirects, NoRedirect, WinnerHolds, ReadersHold
  <1>3. OneWinner'
    BY <1>1 DEF Redirects, NoRedirect, OneWinner
  <1>4. SlotDelivered'
    BY <1>1 DEF Redirects, NoRedirect, SlotDelivered
  <1>5. SlotRead' /\ OwnUsed'
    BY DEF Redirects, NoRedirect, SlotRead, OwnUsed, Genuine
  <1>. QED BY <1>2, <1>3, <1>4, <1>5 DEF Redirects

\* A command that ends or moves on goes back to nothing and resets at most its
\* own connections.
LEMMA MovesKeep ==
  ASSUME TypeOK, NEW c \in Commands, NEW to \in Past,
         Exits(c) \/ Proceed(c, to), UNCHANGED <<slot, received, used>>
  PROVE  NoRedirect
  <1>1. CASE Exits(c)
    <2>1. PICK ending \in Endings : Exit(c, ending)
      BY <1>1 DEF Exits
    <2>. QED BY <2>1, ExitEffect DEF NoRedirect, Past
  <1>2. CASE Proceed(c, to)
    <2>1. pc'[c] = to /\ \A d \in Commands : d # c => pc'[d] = pc[d]
      BY <1>2, GoToEffect DEF Proceed, Past, Steps
    <2>. QED BY <1>2, <2>1 DEF NoRedirect, Proceed
  <1>. QED BY <1>1, <1>2

\* A browser's connection brings a redirect, and none of those that count.
LEMMA ConnectRedirects ==
  ASSUME TypeOK, Redirects, NEW b \in Browsers, Connect(b) PROVE Redirects'
  <1>1. \A c \in Commands : None \notin Deliverable(c)
    BY CliAssumption DEF CliAssumption, Deliverable
  <1>2. /\ conn[b].at = "idle"
        /\ conn'[b].at \in {"read", "404"}
        /\ conn'[b].at = "read" => conn'[b].to \in Commands /\ conn'[b].params # None
        /\ \A e \in Browsers : e # b => conn'[e] = conn[e]
    BY <1>1 DEF TypeOK, Connect, NoConn
  <1>3. UNCHANGED <<slot, received, used, pc>>
    BY DEF Connect, receiver, signIn
  <1>4. WinnerHolds' /\ ReadersHold' /\ OneWinner'
    BY <1>2, <1>3 DEF Redirects, WinnerHolds, ReadersHold, OneWinner, Counted
  <1>5. SlotDelivered'
    <2> SUFFICES ASSUME NEW c \in Commands, slot[c] # None
                 PROVE  \E e \in Browsers : /\ conn'[e].to = c /\ conn'[e].params = slot[c]
                                            /\ conn'[e].at \in Counted \cup {"reset"}
      BY <1>3 DEF SlotDelivered
    <2>1. PICK e \in Browsers : /\ conn[e].to = c /\ conn[e].params = slot[c]
                                /\ conn[e].at \in Counted \cup {"reset"}
      BY DEF Redirects, SlotDelivered
    <2>2. e # b
      BY <1>2, <2>1 DEF Counted
    <2>. QED BY <1>2, <2>1, <2>2
  <1>6. SlotRead' /\ OwnUsed'
    BY <1>3 DEF Redirects, SlotRead, OwnUsed, Genuine
  <1>. QED BY <1>4, <1>5, <1>6 DEF Redirects

\* The lock lets one redirect win: the slot was empty, so nobody had won before.
LEMMA AcceptRedirects ==
  ASSUME TypeOK, Redirects, NEW b \in Browsers, Accept(b) PROVE Redirects'
  <1> DEFINE c == conn[b].to
  <1>1. /\ conn[b].at = "read" /\ c \in Commands /\ conn[b].params # None
        /\ UNCHANGED <<received, used, pc>>
    BY DEF Accept, Redirects, ReadersHold, signIn
  <1>2. CASE Vacant(c)
    <2>1. /\ slot[c] = None
          /\ slot' = [slot EXCEPT ![c] = conn[b].params]
          /\ Handles(b, "won", conn[b].params)
      BY <1>2, AcceptHandles DEF Vacant
    <2>2. /\ slot'[c] = conn[b].params
          /\ \A d \in Commands : d # c => slot'[d] = slot[d]
      BY <1>1, <2>1 DEF TypeOK
    <2>3. \A e \in Browsers : conn[e].at \in Counted => conn[e].to # c
      BY <2>1 DEF Redirects, WinnerHolds
    <2> HIDE DEF c
    <2>4. WinnerHolds'
      BY <1>1, <2>1, <2>2, <2>3 DEF Redirects, WinnerHolds, Handles, c
    <2>5. ReadersHold' /\ OneWinner'
      BY <1>1, <2>1, <2>3 DEF Redirects, ReadersHold, OneWinner, Handles, Counted, c
    <2>6. SlotDelivered'
      <3> SUFFICES ASSUME NEW d \in Commands, slot'[d] # None
                   PROVE  \E e \in Browsers : /\ conn'[e].to = d /\ conn'[e].params = slot'[d]
                                              /\ conn'[e].at \in Counted \cup {"reset"}
        BY DEF SlotDelivered
      <3>1. CASE d = c
        BY <2>1, <2>2, <3>1 DEF Handles, Counted, c
      <3>2. CASE d # c
        <4>1. PICK e \in Browsers : /\ conn[e].to = d /\ conn[e].params = slot[d]
                                    /\ conn[e].at \in Counted \cup {"reset"}
          BY <2>2, <3>2 DEF Redirects, SlotDelivered
        <4>. QED BY <2>1, <2>2, <3>2, <4>1 DEF Handles, c
      <3>. QED BY <3>1, <3>2
    <2>7. SlotRead' /\ OwnUsed'
      BY <1>1, <2>1, <2>2 DEF Redirects, SlotRead, OwnUsed, Genuine
    <2>. QED BY <2>4, <2>5, <2>6, <2>7 DEF Redirects
  <1>3. CASE ~Vacant(c)
    <2>1. UNCHANGED slot /\ Handles(b, "late", None)
      BY <1>3, AcceptHandles
    <2>2. WinnerHolds' /\ ReadersHold' /\ OneWinner'
      BY <1>1, <2>1 DEF Redirects, WinnerHolds, ReadersHold, OneWinner, Handles, Counted
    <2>3. SlotDelivered'
      <3> SUFFICES ASSUME NEW d \in Commands, slot[d] # None
                   PROVE  \E e \in Browsers : /\ conn'[e].to = d /\ conn'[e].params = slot[d]
                                              /\ conn'[e].at \in Counted \cup {"reset"}
        BY <2>1 DEF SlotDelivered
      <3>1. PICK e \in Browsers : /\ conn[e].to = d /\ conn[e].params = slot[d]
                                  /\ conn[e].at \in Counted \cup {"reset"}
        BY DEF Redirects, SlotDelivered
      <3>2. e # b
        BY <1>1, <3>1 DEF Counted
      <3>. QED BY <2>1, <3>1, <3>2 DEF Handles
    <2>4. SlotRead' /\ OwnUsed'
      BY <1>1, <2>1 DEF Redirects, SlotRead, OwnUsed, Genuine
    <2>. QED BY <2>2, <2>3, <2>4 DEF Redirects
  <1>. QED BY <1>2, <1>3

\* After the lock the winner is told so, and remains the winner.
LEMMA HandlerRedirects ==
  ASSUME TypeOK, Redirects, NEW b \in Browsers, SetDone(b) \/ AnswerBrowser(b)
  PROVE  Redirects'
  <1>1. /\ conn'[b].to = conn[b].to /\ conn'[b].params = conn[b].params
        /\ conn[b].at \in {"won", "set", "late"}
        /\ conn'[b].at \in {"set", "200", "409"}
        /\ conn[b].at \in Counted <=> conn'[b].at \in Counted
        /\ \A e \in Browsers : e # b => conn'[e] = conn[e]
    BY DEF TypeOK, SetDone, AnswerBrowser, Counted
  <1>2. UNCHANGED <<slot, received, used, pc>>
    BY DEF SetDone, AnswerBrowser, receiver, signIn
  <1>3. \A e \in Browsers :
          /\ conn'[e].to = conn[e].to /\ conn'[e].params = conn[e].params
          /\ conn'[e].at \in Counted <=> conn[e].at \in Counted
          /\ conn'[e].at = "read" => conn[e].at = "read"
          /\ conn[e].at = "reset" => conn'[e].at = "reset"
    BY <1>1
  <1>4. WinnerHolds' /\ ReadersHold'
    BY <1>2, <1>3 DEF Redirects, WinnerHolds, ReadersHold
  <1>5. OneWinner'
    BY <1>3 DEF Redirects, OneWinner
  <1>6. SlotDelivered'
    BY <1>2, <1>3 DEF Redirects, SlotDelivered
  <1>7. SlotRead' /\ OwnUsed'
    BY <1>2 DEF Redirects, SlotRead, OwnUsed, Genuine
  <1>. QED BY <1>4, <1>5, <1>6, <1>7 DEF Redirects

\* wait returns the slot; nothing was redeemed yet.
LEMMA WaitRedirects ==
  ASSUME TypeOK, Redirects, NEW c \in Commands, Wait(c) PROVE Redirects'
  <1>1. UNCHANGED <<slot, used, conn>> /\ pc[c] = "wait"
    BY DEF Wait, signIn
  <1>2. /\ received'[c] = slot[c] /\ \A d \in Commands : d # c => received'[d] = received[d]
        /\ \A d \in Commands : d # c => pc'[d] = pc[d]
    BY GoToEffect DEF TypeOK, Wait, Result, Steps
  <1>3. WinnerHolds' /\ ReadersHold' /\ OneWinner' /\ SlotDelivered'
    BY <1>1 DEF Redirects, WinnerHolds, ReadersHold, OneWinner, SlotDelivered
  <1>4. SlotRead'
    BY <1>1, <1>2 DEF Redirects, SlotRead
  <1>5. OwnUsed'
    BY <1>1, <1>2 DEF Redirects, OwnUsed, Genuine, Past
  <1>. QED BY <1>3, <1>4, <1>5 DEF Redirects

\* Only a redirect check_redirect accepts is redeemed.
LEMMA CloseRedirects ==
  ASSUME TypeOK, Redirects, NEW c \in Commands, Close(c) PROVE Redirects'
  <1>1. CASE Exits(c) /\ UNCHANGED used
    <2>1. NoRedirect
      BY <1>1, MovesKeep DEF Close, receiver, Past
    <2>. QED BY <2>1, NoRedirectKeeps
  <1>2. CASE ~(Exits(c) /\ UNCHANGED used)
    <2>1. /\ SignedIn(c)
          /\ used' = [used EXCEPT ![c] = received[c]]
          /\ Proceed(c, "redeem")
      BY <1>2 DEF Close, Exits, Endings
    <2>2. pc'[c] = "redeem" /\ \A d \in Commands : d # c => pc'[d] = pc[d]
      BY <2>1, GoToEffect DEF Proceed, Steps
    <2>3. UNCHANGED <<slot, received, conn>>
      BY <2>1 DEF Close, Proceed, receiver
    <2>4. received[c] \in Genuine(c)
      BY <2>1 DEF TypeOK, Maybe, SignedIn, CheckRedirect, Genuine
    <2>5. WinnerHolds' /\ ReadersHold' /\ OneWinner' /\ SlotDelivered' /\ SlotRead'
      BY <2>3 DEF Redirects, WinnerHolds, ReadersHold, OneWinner, SlotDelivered, SlotRead
    <2>6. OwnUsed'
      BY <2>1, <2>2, <2>3, <2>4 DEF TypeOK, Redirects, OwnUsed, Genuine, Past
    <2>. QED BY <2>5, <2>6 DEF Redirects
  <1>. QED BY <1>1, <1>2

\* The other steps of a command concern no redirect.
LEMMA CommandNoRedirect ==
  ASSUME TypeOK, NEW c \in Commands,
         \/ Start(c) \/ ThreadStep(c) \/ Register(c) \/ OpenBrowser(c) \/ Redeem(c)
         \/ ServeCall(c) \/ ReadAnswer(c) \/ WriteResult(c) \/ Return(c) \/ GiveUp(c) \/ Kill(c)
  PROVE  NoRedirect
  <1>1. CASE Start(c)
    <2>1. UNCHANGED <<slot, received, used>> /\ pc[c] = "idle"
      BY <1>1 DEF Start, signIn
    <2>2. CASE Exits(c)
      BY <2>1, <2>2, MovesKeep DEF Past
    <2>3. CASE ~Exits(c)
      <3>1. GoTo(c, "register") /\ UNCHANGED conn
        BY <1>1, <2>3 DEF Start, Exits, Endings
      <3>2. \A d \in Commands : d # c => pc'[d] = pc[d]
        BY <3>1, GoToEffect DEF Steps
      <3>. QED BY <2>1, <3>1, <3>2 DEF NoRedirect, Past
    <2>. QED BY <2>2, <2>3
  <1>2. CASE ThreadStep(c) \/ ServeCall(c)
    BY <1>2 DEF NoRedirect, ThreadStep, ServeForever, StopServing, ServeCall, receiver, signIn
  <1>3. CASE Register(c) \/ OpenBrowser(c)
    <2>1. \E step \in {"browse", "wait", "close"} : GoTo(c, step)
      BY <1>3 DEF Register, OpenBrowser, Raise
    <2>2. \A d \in Commands : d # c => pc'[d] = pc[d]
      BY <2>1, GoToEffect DEF Steps
    <2>. QED BY <1>3, <2>2 DEF NoRedirect, Register, OpenBrowser, receiver, signIn, Past
  <1>4. CASE Redeem(c) \/ ReadAnswer(c) \/ WriteResult(c) \/ Return(c) \/ GiveUp(c) \/ Kill(c)
    <2>1. \E to \in {"manage", "print", "exit"} : Exits(c) \/ Proceed(c, to)
      BY <1>4 DEF Redeem, ReadAnswer, WriteResult, Return, GiveUp, Kill, Exits, Endings
    <2>2. UNCHANGED <<slot, received, used>>
      BY <1>4 DEF Redeem, ReadAnswer, WriteResult, Return, GiveUp, Kill, receiver, signIn
    <2>. QED BY <2>1, <2>2, MovesKeep DEF Past
  <1>. QED BY <1>1, <1>2, <1>3, <1>4

\* Every step keeps what is known of the redirects.
LEMMA NextRedirects == TypeInv /\ Redirects /\ [Next]_vars => Redirects'
  <1> SUFFICES ASSUME TypeInv, Redirects, [Next]_vars PROVE Redirects'
    OBVIOUS
  <1>0. TypeOK
    BY DEF TypeInv
  <1>1. ASSUME NEW c \in Commands,
               Start(c) \/ MainStep(c) \/ ThreadStep(c) \/ ServeCall(c) \/ Kill(c)
        PROVE  Redirects'
    BY <1>0, <1>1, CommandNoRedirect, NoRedirectKeeps, WaitRedirects, CloseRedirects
      DEF MainStep, Outside
  <1>2. ASSUME NEW b \in Browsers, Connect(b) \/ HandlerStep(b) PROVE Redirects'
    BY <1>0, <1>2, ConnectRedirects, AcceptRedirects, HandlerRedirects DEF HandlerStep
  <1>3. CASE Finished \/ UNCHANGED vars
    BY <1>3, NoRedirectKeeps DEF Finished, NoRedirect, vars
  <1>. QED BY <1>1, <1>2, <1>3 DEF Next

\* What is known of the redirects holds of every behaviour.
LEMMA SpecRedirects == Spec => []Redirects
  <1>1. TypeInv /\ Redirects /\ [Next]_vars => Redirects'
    BY NextRedirects
  <1>. QED BY <1>1, InitRedirects, SpecType, PTL DEF Spec

\* Of all the browsers that reach a listener one is told that its sign-in was
\* received, and the command judges what that one delivered (LoopbackReceiver;
\* OneRedirectCounts).
THEOREM OnlyOneRedirectCounts == Spec => []OneRedirectCounts
  <1>1. Redirects => OneRedirectCounts
    BY DEF Redirects, WinnerHolds, OneWinner, SlotRead, Counted, OneRedirectCounts
  <1>. QED BY <1>1, SpecRedirects, PTL

\* A command redeems a code of its own sign-in, delivered to its own listener,
\* and no other (check_redirect; OwnCodeRedeemed).
THEOREM OwnCodesRedeemed == Spec => []OwnCodeRedeemed
  <1>1. Redirects => OwnCodeRedeemed
    BY DEF Redirects, SlotDelivered, SlotRead, OwnUsed, OwnCodeRedeemed
  <1>. QED BY <1>1, SpecRedirects, PTL

-----------------------------------------------------------------------------
(***************************************************************************)
(* What a command, its call and the rows have to do with each other: a     *)
(* call is made by a command that has redeemed its code, a row by a call,  *)
(* an answer that claims an effect is true, what a listing saw is at worst *)
(* old, and a result is printed only after the answer that means success.  *)
(***************************************************************************)
After == {"manage", "print", "exit", "done"}

Calling ==
  \A c \in Commands :
    /\ said[c] # None => pc[c] = "done"
    /\ call[c] # "none" => pc[c] \in After
    /\ row[c] # "none" => call[c] # "none"
Effects ==
  \A c \in Commands :
    /\ call[c] = "201" => kind[c] = "create" /\ row[c] # "none"
    /\ call[c] = "204" =>
         kind[c] = "revoke" /\ target[c] \in Commands /\ row[target[c]] = "revoked"
    /\ \A seen \in listed[c] : row[seen[1]] \in {seen[2], "revoked"}
Claims ==
  \A c \in Commands :
    /\ said[c] = "nothing" => call[c] = "none"
    /\ said[c] = "ok" => c \in printed
    /\ pc[c] \in {"print", "exit"} \/ c \in printed => Succeeded(c)

Managed == Calling /\ Effects /\ Claims

\* The status the three commands take for success.
LEMMA SuccessStatus ==
  ASSUME TypeOK, NEW c \in Commands, Succeeded(c)
  PROVE  \/ kind[c] = "create" /\ call[c] = "201"
         \/ kind[c] = "list" /\ call[c] = "200"
         \/ kind[c] = "revoke" /\ call[c] = "204"
  <1>1. kind[c] \in {"create", "list", "revoke"}
    BY DEF TypeOK
  <1>. QED BY <1>1 DEF Succeeded

\* No call has been made at first.
LEMMA InitManaged == Init => Managed
  <1> SUFFICES ASSUME Init PROVE Managed
    OBVIOUS
  <1>1. \A c \in Commands : said[c] \notin Endings
    BY CliAssumption DEF Init, CliAssumption
  <1>2. Calling /\ Effects
    BY DEF Init, Calling, Effects
  <1>3. Claims
    BY <1>1 DEF Init, Claims, Endings
  <1>. QED BY <1>2, <1>3 DEF Managed

(***************************************************************************)
(* A step that neither calls nor answers nor ends a command.               *)
(***************************************************************************)
NoCall ==
  /\ UNCHANGED <<said, call, row, kind, listed, printed>>
  /\ \A c \in Commands :
       IF pc[c] \in After THEN pc'[c] = pc[c] /\ target'[c] = target[c]
       ELSE pc'[c] \notin {"print", "exit"}

\* Such a step keeps what is known of calls and rows.
LEMMA NoCallKeeps ==
  ASSUME Managed, NoCall PROVE Managed'
  <1>1. Calling'
    BY DEF Managed, Calling, NoCall, After
  <1>2. Effects'
    BY DEF Managed, Calling, Effects, NoCall
  <1>3. Claims'
    BY DEF Managed, Claims, Succeeded, NoCall, After
  <1>. QED BY <1>1, <1>2, <1>3 DEF Managed

\* An end that is no success, and says that nothing was created only if no call
\* was made.
LEMMA FailureKeeps ==
  ASSUME TypeOK, Managed, NEW c \in Commands, pc[c] # "done",
         NEW ending \in {"nothing", "failed"}, Exit(c, ending),
         ending = "nothing" => call[c] = "none",
         UNCHANGED <<call, row, kind, listed, printed>>,
         \A d \in Commands : pc[d] \in After => target'[d] = target[d]
  PROVE  Managed'
  <1>1. /\ pc'[c] = "done" /\ said'[c] = ending
        /\ \A d \in Commands : d # c => pc'[d] = pc[d] /\ said'[d] = said[d]
    BY ExitEffect DEF Endings
  <1>2. Calling'
    BY <1>1 DEF Managed, Calling, After
  <1>3. Effects'
    BY DEF Managed, Calling, Effects
  <1>4. Claims'
    BY <1>1 DEF Managed, Claims, Succeeded
  <1>. QED BY <1>2, <1>3, <1>4 DEF Managed

\* A command that starts has made no call, whatever it is to revoke.
LEMMA StartManaged ==
  ASSUME TypeOK, Managed, NEW c \in Commands, Start(c) PROVE Managed'
  <1>1. /\ pc[c] = "idle" /\ UNCHANGED <<call, row, kind, listed, printed>>
        /\ \A d \in Commands : d # c => target'[d] = target[d]
    BY DEF TypeOK, Start, management
  <1>2. CASE Exit(c, "failed")
    BY <1>1, <1>2, FailureKeeps DEF After
  <1>3. CASE ~Exit(c, "failed")
    <2>1. GoTo(c, "register") /\ UNCHANGED said
      BY <1>3 DEF Start
    <2>2. \A d \in Commands : d # c => pc'[d] = pc[d]
      BY <2>1, GoToEffect DEF Steps
    <2>3. NoCall
      BY <1>1, <2>1, <2>2, GoToEffect DEF NoCall, After, Steps
    <2>. QED BY <2>3, NoCallKeeps
  <1>. QED BY <1>2, <1>3

\* Signing in makes no call; "nothing was created" is said before there is one.
LEMMA SignInManaged ==
  ASSUME TypeOK, Managed, NEW c \in Commands,
         Register(c) \/ OpenBrowser(c) \/ Wait(c) \/ Close(c)
  PROVE  Managed'
  <1>1. /\ pc[c] \in {"register", "browse", "wait", "close"} /\ call[c] = "none"
        /\ UNCHANGED <<call, row, kind, target, listed, printed>>
    BY DEF Register, OpenBrowser, Wait, Close, management, argv, Managed, Calling, After
  <1>2. CASE \E ending \in {"nothing", "failed"} : Exit(c, ending)
    BY <1>1, <1>2, FailureKeeps
  <1>3. CASE ~ \E ending \in {"nothing", "failed"} : Exit(c, ending)
    <2>1. UNCHANGED said /\ \E step \in {"browse", "wait", "close", "redeem"} : GoTo(c, step)
      BY <1>3 DEF Register, OpenBrowser, Wait, Close, Raise, Proceed
    <2>2. /\ pc'[c] \in {"browse", "wait", "close", "redeem"}
          /\ \A d \in Commands : d # c => pc'[d] = pc[d]
      BY <2>1, GoToEffect DEF Steps
    <2>3. NoCall
      BY <1>1, <2>1, <2>2 DEF NoCall, After
    <2>. QED BY <2>3, NoCallKeeps
  <1>. QED BY <1>2, <1>3

\* The code is redeemed and the call is made.
LEMMA RedeemManaged ==
  ASSUME TypeOK, Managed, NEW c \in Commands, Redeem(c) PROVE Managed'
  <1>1. /\ pc[c] = "redeem" /\ call[c] = "none" /\ said[c] = None
        /\ UNCHANGED <<row, kind, target, listed, printed>>
    BY DEF Redeem, argv, Managed, Calling, After
  <1>2. CASE Exit(c, "failed") /\ UNCHANGED call
    BY <1>1, <1>2, FailureKeeps
  <1>3. CASE ~(Exit(c, "failed") /\ UNCHANGED call)
    <2>1. call' = [call EXCEPT ![c] = "sent"] /\ Proceed(c, "manage")
      BY <1>3 DEF Redeem
    <2>2. /\ call'[c] = "sent" /\ pc'[c] = "manage" /\ UNCHANGED said
          /\ \A d \in Commands : d # c => pc'[d] = pc[d] /\ call'[d] = call[d]
      BY <2>1, GoToEffect DEF TypeOK, Proceed, Steps
    <2>3. None \notin Endings
      BY CliAssumption DEF CliAssumption
    <2>4. Calling'
      BY <1>1, <2>2 DEF Managed, Calling, After
    <2>5. Effects'
      BY <1>1, <2>2 DEF Managed, Effects
    <2>6. ~Succeeded(c)
      BY <1>1, SuccessStatus
    <2>7. Claims'
      BY <1>1, <2>2, <2>3, <2>6 DEF Managed, Claims, Succeeded, Endings
    <2>. QED BY <2>4, <2>5, <2>7 DEF Managed
  <1>. QED BY <1>2, <1>3

\* The proxy answers, also a command that has gone: rows come and are revoked,
\* but none goes and no claim made before turns false.
LEMMA ServeCallManaged ==
  ASSUME TypeOK, Managed, NEW c \in Commands, ServeCall(c) PROVE Managed'
  <1>1. /\ UNCHANGED <<pc, said, kind, target, printed>>
        /\ UNCHANGED listed \/ (UNCHANGED row /\ listed' = [listed EXCEPT ![c] = Selected])
    BY DEF ServeCall, argv, Proxy!List
  <1>2. PICK answer \in Calls \ {"none", "sent"} :
          /\ call[c] = "sent"
          /\ call' = [call EXCEPT ![c] = answer]
          /\ \/ /\ answer \in {"200", "4xx", "500"}
                /\ UNCHANGED row
             \/ /\ answer \in {"201", "500"}
                /\ kind[c] = "create" /\ row[c] = "none"
                /\ row' = [row EXCEPT ![c] = "live"]
             \/ /\ answer \in {"204", "500"}
                /\ kind[c] = "revoke" /\ target[c] # None /\ row[target[c]] = "live"
                /\ row' = [row EXCEPT ![target[c]] = "revoked"]
    BY ServeCallServes DEF Served
  <1>3. call'[c] = answer /\ \A d \in Commands : d # c => call'[d] = call[d]
    BY <1>2 DEF TypeOK
  <1>4. target[c] # None => target[c] \in Commands
    BY DEF TypeOK, Maybe
  <1>5. \A d \in Commands : /\ row[d] # "none" => row'[d] # "none"
                            /\ row[d] = "revoked" => row'[d] = "revoked"
                            /\ row'[d] # row[d] => row[d] = "live" \/ d = c
    BY <1>2, <1>4 DEF TypeOK
  <1>6. said[c] # "nothing" /\ ~Succeeded(c)
    BY <1>2, SuccessStatus DEF Managed, Claims
  <1>7. Calling'
    <2>1. answer # "none"
      OBVIOUS
    <2>2. \A d \in Commands : call'[d] # "none" <=> call[d] # "none"
      BY <1>2, <1>3, <2>1
    <2>3. \A d \in Commands : row'[d] # "none" => call[d] # "none"
      <3> SUFFICES ASSUME NEW d \in Commands, row'[d] # "none", call[d] = "none"
                   PROVE  FALSE
        OBVIOUS
      <3>1. row[d] = "none" /\ d # c
        BY <1>2 DEF Managed, Calling
      <3>2. row'[d] = row[d]
        BY <1>5, <3>1
      <3>. QED BY <3>1, <3>2
    <2>. QED BY <1>1, <2>2, <2>3 DEF Managed, Calling
  <1>8. Effects'
    <2>1. \A d \in Commands : listed[d] \subseteq Commands \X {"live", "revoked"}
      BY DEF TypeOK
    <2>2. ASSUME NEW d \in Commands, NEW seen \in listed[d]
          PROVE  row'[seen[1]] \in {seen[2], "revoked"}
      <3>1. seen[1] \in Commands /\ seen[2] \in {"live", "revoked"}
        BY <2>1
      <3>2. row[seen[1]] \in {seen[2], "revoked"}
        BY DEF Managed, Effects
      <3>3. row[seen[1]] \in {"live", "revoked"}
        BY <3>1, <3>2
      <3>. QED BY <1>2, <1>4, <3>1, <3>2, <3>3 DEF TypeOK
    <2>3. \A seen \in Selected : row[seen[1]] = seen[2]
      BY DEF Selected
    <2>4. \A d \in Commands : \A seen \in listed'[d] : row'[seen[1]] \in {seen[2], "revoked"}
      BY <1>1, <2>2, <2>3 DEF TypeOK
    <2>5. \A d \in Commands :
            /\ call'[d] = "201" => kind'[d] = "create" /\ row'[d] # "none"
            /\ call'[d] = "204" => /\ kind'[d] = "revoke" /\ target'[d] \in Commands
                                   /\ row'[target'[d]] = "revoked"
      BY <1>1, <1>2, <1>3, <1>4, <1>5 DEF TypeOK, Managed, Effects
    <2>. QED BY <2>4, <2>5 DEF Effects
  <1>9. Claims'
    <2>1. \A d \in Commands : d # c => (Succeeded(d) => Succeeded(d)')
      BY <1>1, <1>3 DEF Succeeded
    <2>2. \A d \in Commands : said[d] = "nothing" => call'[d] = "none"
      BY <1>3, <1>6 DEF Managed, Claims
    <2>. QED BY <1>1, <1>6, <2>1, <2>2 DEF Managed, Claims
  <1>. QED BY <1>7, <1>8, <1>9 DEF Managed

\* A result is printed, and exit code 0 given, only after the answer that means
\* success; any other end claims nothing.
LEMMA AnswerManaged ==
  ASSUME TypeOK, Managed, NEW c \in Commands,
         ReadAnswer(c) \/ WriteResult(c) \/ Return(c) \/ GiveUp(c) \/ Kill(c)
  PROVE  Managed'
  <1>1. pc[c] # "done" /\ UNCHANGED <<call, row, kind, target, listed>>
    BY DEF ReadAnswer, WriteResult, Return, GiveUp, Kill, argv, management
  <1>2. CASE Exit(c, "failed") /\ UNCHANGED printed
    BY <1>1, <1>2, FailureKeeps
  <1>3. CASE ~(Exit(c, "failed") /\ UNCHANGED printed)
    <2>1. /\ pc[c] \in After /\ Succeeded(c)
          /\ printed' \in {printed, printed \cup {c}}
          /\ \/ \E step \in {"print", "exit"} : Proceed(c, step)
             \/ Exit(c, "ok") /\ c \in printed'
      BY <1>3 DEF ReadAnswer, WriteResult, Return, GiveUp, Kill, management, Managed, Claims, After
    <2>2. /\ pc'[c] \in {"print", "exit", "done"}
          /\ said'[c] # said[c] => pc'[c] = "done" /\ said'[c] = "ok" /\ c \in printed'
          /\ \A d \in Commands : d # c => pc'[d] = pc[d] /\ said'[d] = said[d]
      BY <2>1, ExitEffect, GoToEffect DEF Proceed, Endings, Steps
    <2>3. said[c] = None
      BY <1>1 DEF Managed, Calling
    <2>4. None \notin Endings
      BY CliAssumption DEF CliAssumption
    <2>5. Calling'
      BY <1>1, <2>2, <2>3 DEF Managed, Calling, After
    <2>6. Effects'
      BY <1>1 DEF Managed, Effects
    <2>7. \A d \in Commands : Succeeded(d)' <=> Succeeded(d)
      BY <1>1 DEF Succeeded
    <2>8. Claims'
      BY <1>1, <2>1, <2>2, <2>3, <2>4, <2>7 DEF Managed, Claims, Endings
    <2>. QED BY <2>5, <2>6, <2>8 DEF Managed
  <1>. QED BY <1>2, <1>3

\* Every step keeps what is known of calls and rows.
LEMMA NextManaged == TypeInv /\ Managed /\ [Next]_vars => Managed'
  <1> SUFFICES ASSUME TypeInv, Managed, [Next]_vars PROVE Managed'
    OBVIOUS
  <1>0. TypeOK
    BY DEF TypeInv
  <1>1. ASSUME NEW c \in Commands, Start(c) \/ MainStep(c) \/ ServeCall(c) \/ Kill(c)
        PROVE  Managed'
    BY <1>0, <1>1, StartManaged, SignInManaged, RedeemManaged, AnswerManaged, ServeCallManaged
      DEF MainStep, Outside
  <1>2. ASSUME NEW c \in Commands, ThreadStep(c) PROVE Managed'
    <2>1. NoCall
      BY <1>2 DEF ThreadStep, ServeForever, StopServing, NoCall, After, argv, management
    <2>. QED BY <2>1, NoCallKeeps
  <1>3. ASSUME NEW b \in Browsers, Connect(b) \/ HandlerStep(b) PROVE Managed'
    <2>1. NoCall
      BY <1>3 DEF Connect, HandlerStep, Accept, SetDone, AnswerBrowser, NoCall, After, argv,
                  management
    <2>. QED BY <2>1, NoCallKeeps
  <1>4. CASE Finished \/ UNCHANGED vars
    <2>1. NoCall
      BY <1>4 DEF Finished, NoCall, After, vars
    <2>. QED BY <2>1, NoCallKeeps
  <1>. QED BY <1>1, <1>2, <1>3, <1>4 DEF Next

\* What is known of calls and rows holds of every behaviour.
LEMMA SpecManaged == Spec => []Managed
  <1>1. TypeInv /\ Managed /\ [Next]_vars => Managed'
    BY NextManaged
  <1>. QED BY <1>1, InitManaged, SpecType, PTL DEF Spec

\* A command that says "nothing was created" has made no call, so no row of its
\* own exists or can come to exist (sign_in, check_redirect; NothingWasCreated).
THEOREM NothingMeansNothing == Spec => []NothingWasCreated
  <1>1. Managed => NothingWasCreated
    BY DEF Managed, Calling, Claims, NothingWasCreated
  <1>. QED BY <1>1, SpecManaged, PTL

\* What a command printed is the truth about the token store, also of a command
\* killed between the flush and its exit: a printed token has its row, a row
\* reported revoked is revoked, a listed row is as the SELECT saw it or was revoked
\* since; and exit code 0 is given only with the result printed (_run, the main
\* functions; SuccessIsReal).
THEOREM SuccessIsTrue == Spec => []SuccessIsReal
  <1>1. TypeInv /\ Managed => SuccessIsReal
    <2> SUFFICES ASSUME TypeInv, Managed PROVE SuccessIsReal
      OBVIOUS
    <2>1. printed \subseteq Commands
      BY DEF TypeInv, TypeOK
    <2>2. ASSUME NEW c \in printed
          PROVE  /\ said[c] # "nothing"
                 /\ CASE kind[c] = "create" -> row[c] # "none"
                      [] kind[c] = "revoke" ->
                           \E d \in Commands : d = target[c] /\ row[d] = "revoked"
                      [] kind[c] = "list" ->
                           \A seen \in listed[c] : row[seen[1]] \in {seen[2], "revoked"}
      <3>1. c \in Commands /\ Succeeded(c)
        BY <2>1 DEF Managed, Claims
      <3>2. CASE kind[c] = "create" /\ call[c] = "201"
        BY <3>1, <3>2 DEF Managed, Effects, Claims
      <3>3. CASE kind[c] = "list" /\ call[c] = "200"
        BY <3>1, <3>3 DEF Managed, Effects, Claims
      <3>4. CASE kind[c] = "revoke" /\ call[c] = "204"
        BY <3>1, <3>4 DEF Managed, Effects, Claims
      <3>. QED BY <3>1, <3>2, <3>3, <3>4, SuccessStatus DEF TypeInv
    <2>. QED BY <2>2 DEF Managed, Claims, SuccessIsReal
  <1>. QED BY <1>1, SpecType, SpecManaged, PTL

-----------------------------------------------------------------------------
(* The commands and the service, composed. *)

\* The call goes out: a command that redeems has made none before.
LEMMA RedeemProxy ==
  ASSUME Managed, NEW c \in Commands, Redeem(c)
  PROVE  [Proxy!Next]_(Proxy!vars)
  <1>1. CASE UNCHANGED <<call, row>>
    BY <1>1 DEF Proxy!vars
  <1>2. CASE call' = [call EXCEPT ![c] = "sent"]
    <2>1. call[c] = "none" /\ UNCHANGED row
      BY DEF Redeem, Managed, Calling, After
    <2>2. Proxy!Send(c)
      BY <1>2, <2>1 DEF Proxy!Send
    <2>. QED BY <2>2 DEF Proxy!Next, Proxy!Management
  <1>. QED BY <1>1, <1>2 DEF Redeem

\* The proxy answers.
LEMMA ServeCallProxy ==
  ASSUME TypeOK, NEW c \in Commands, ServeCall(c)
  PROVE  Proxy!Next
  <1>1. CASE Proxy!Refuse(c) \/ Proxy!Fail(c)
    BY <1>1 DEF Proxy!Next, Proxy!Management
  <1>2. CASE Proxy!Create(c, "live")
    BY <1>2 DEF Proxy!Next
  <1>3. CASE Proxy!List(c)
    BY <1>3 DEF Proxy!Next
  <1>4. CASE target[c] # None /\ Proxy!Revoke(c, target[c])
    <2>1. target[c] \in Commands
      BY <1>4 DEF TypeOK, Maybe
    <2>. QED BY <1>4, <2>1 DEF Proxy!Next
  <1>. QED BY <1>1, <1>2, <1>3, <1>4 DEF ServeCall

\* Every step of a command is a step PatLife allows, or none of its business.
LEMMA StepProxy == TypeInv /\ Managed /\ [Next]_vars => [Proxy!Next]_(Proxy!vars)
  <1> SUFFICES ASSUME TypeInv, Managed, [Next]_vars PROVE [Proxy!Next]_(Proxy!vars)
    OBVIOUS
  <1>1. ASSUME UNCHANGED <<call, row>> PROVE UNCHANGED Proxy!vars
    BY <1>1 DEF Proxy!vars
  <1>2. ASSUME NEW c \in Commands, Start(c) \/ ThreadStep(c) \/ Kill(c)
        PROVE  UNCHANGED <<call, row>>
    BY <1>2 DEF Start, ThreadStep, ServeForever, StopServing, Kill, management
  <1>3. ASSUME NEW c \in Commands, MainStep(c), ~Redeem(c) PROVE UNCHANGED <<call, row>>
    BY <1>3 DEF MainStep, Outside, Register, OpenBrowser, Wait, Close, ReadAnswer, WriteResult,
                Return, GiveUp, management
  <1>4. ASSUME NEW b \in Browsers, Connect(b) \/ HandlerStep(b) PROVE UNCHANGED <<call, row>>
    BY <1>4 DEF Connect, HandlerStep, Accept, SetDone, AnswerBrowser, management
  <1>5. CASE Finished \/ UNCHANGED vars
    BY <1>1, <1>5 DEF Finished, vars
  <1>6. ASSUME NEW c \in Commands, Redeem(c) \/ ServeCall(c) PROVE [Proxy!Next]_(Proxy!vars)
    BY <1>6, RedeemProxy, ServeCallProxy DEF TypeInv
  <1>. QED BY <1>1, <1>2, <1>3, <1>4, <1>5, <1>6 DEF Next

\* Commands and service fit together: whatever commands, browsers, signals and
\* timeouts do, the calls and rows they share behave as PatLife says, which is
\* what PatService implements.  A command makes its call once, and the service
\* answers it once, also when nobody waits any more (_run, create_token,
\* revoke_token; ImplementsPatLife is the service's side).
THEOREM CommandsFitService == Spec => Proxy!Spec
  <1>1. Init => Proxy!Init
    BY DEF Init, Proxy!Init, Proxy!Management
  <1>2. TypeInv /\ Managed /\ [Next]_vars => [Proxy!Next]_(Proxy!vars)
    BY StepProxy
  <1>. QED BY <1>1, <1>2, SpecType, SpecManaged, PTL DEF Spec, Proxy!Spec
=============================================================================
