------------------------------- MODULE PatCli -------------------------------
(***************************************************************************)
(* pat-create, pat-list and pat-revoke (cimd_proxy/pat_cli.py): commands   *)
(* that find the proxy, sign the owner in through a browser and a loopback *)
(* listener, redeem the code and make one management call.                 *)
(*                                                                         *)
(* A command has a main thread, the thread of serve_forever and one daemon *)
(* thread per connection of a browser.  An action of the main thread is    *)
(* the stretch from one blocking call to the next.  The proxy works on a   *)
(* management call on its own: also after the command gave up waiting or   *)
(* was killed.  Browsers deliver what they like, to whoever listens on the *)
(* port now: a reload, a second tab, a redirect meant for an earlier       *)
(* command on the same port, a page that is no answer of the proxy at all. *)
(***************************************************************************)
EXTENDS Naturals

CONSTANTS
  Commands,    \* processes; a created row is named after its command
  Uses,        \* what each command may be: create, list or revoke
  Browsers,    \* connections browsers make to a loopback listener, one-shot
  Ports,       \* ephemeral ports of 127.0.0.1
  Sites,       \* base URLs and endpoint URLs
  Strays,      \* queries of other pages: no state they know, or not the proxy's iss
  Secure,      \* those _require_secure accepts: https, or http on loopback
  None

Maybe(S) == S \cup {None}

Endpoints == [issuer : Sites, authorization : Sites, token : Sites,
              registration : Sites]

(***************************************************************************)
(* The query of a redirect: whose state it carries (None: no state, or one *)
(* that belongs to no command), whether iss names the proxy, and whether   *)
(* it holds a code, or an error or nothing of use.                         *)
(***************************************************************************)
Params == [state : Maybe(Commands), iss : {"proxy", "other"},
           says : {"code", "refusal"}]

\* How a command ends: exit code 0; a CliError that says "nothing was created";
\* anything else, with no such claim: another CliError, "could not be reached"
\* for an httpx.HTTPError, the traceback of a body that is no JSON, a signal.
Endings == {"ok", "nothing", "failed"}

ASSUME CliAssumption ==
  /\ Uses \in [Commands -> SUBSET {"create", "list", "revoke"}]
  /\ Secure \subseteq Sites
  /\ Strays \subseteq {p \in Params : p.state = None \/ p.iss = "other"}
  /\ None \notin Commands \cup Ports \cup Sites \cup Params \cup Endpoints \cup Endings

VARIABLES
  pc,       \* where the main thread is
  failure,  \* is an exception on its way out of the with block?
  said,     \* how the command ended: its last line and exit code
  kind,     \* which of the three main functions
  target,   \* pat-revoke: the id argument
  ends,     \* Endpoints, once read
  sent,     \* the URLs a code, verifier or access token was sent to
  port,     \* the port of the LoopbackReceiver
  thread,   \* the thread of serve_forever
  slot,     \* LoopbackReceiver._received
  done,     \* LoopbackReceiver._done
  received, \* what wait returned
  used,     \* the redirect whose code was posted to the token endpoint
  opened,   \* the commands whose sign-in URL was handed to a browser
  conn,     \* connections to the listeners
  call,     \* the management call: not made, under way, answered
  row,      \* the rows of the token store, by the command that made them
  listed,   \* pat-list: the rows the SELECT saw, each with its state then
  printed   \* the commands whose result (token, table, "revoked") was read

vars == <<pc, kind, failure, said, target, ends, sent, port, thread, slot, done,
          received, used, opened, conn, call, row, listed, printed>>

Steps == {"idle", "register", "browse", "wait", "close", "redeem", "manage",
          "print", "exit", "done"}

Pages == {"idle", "read", "won", "set", "late", "200", "404", "409", "reset"}
Calls == {"none", "sent", "200", "201", "204", "4xx", "500"}

NoConn == [to |-> None, params |-> None, at |-> "idle"]

Init ==
  /\ pc = [c \in Commands |-> "idle"]
  /\ kind \in [Commands -> {"create", "list", "revoke"}]
  /\ \A c \in Commands : kind[c] \in Uses[c]
  /\ failure = [c \in Commands |-> FALSE]
  /\ said = [c \in Commands |-> None]
  /\ target = [c \in Commands |-> None]
  /\ ends = [c \in Commands |-> None]
  /\ sent = [c \in Commands |-> {}]
  /\ port = [c \in Commands |-> None]
  /\ thread = [c \in Commands |-> "none"]
  /\ slot = [c \in Commands |-> None]
  /\ done = [c \in Commands |-> FALSE]
  /\ received = [c \in Commands |-> None]
  /\ used = [c \in Commands |-> None]
  /\ opened = {}
  /\ conn = [b \in Browsers |-> NoConn]
  /\ call = [c \in Commands |-> "none"]
  /\ row = [c \in Commands |-> "none"]
  /\ listed = [c \in Commands |-> {}]
  /\ printed = {}

-----------------------------------------------------------------------------
(* How a command moves on and ends. *)

receiver == <<port, slot, done, received>>
management == <<call, row, listed, printed>>
argv == <<kind, target>>
signIn == <<used, opened>>

GoTo(c, step) == pc' = [pc EXCEPT ![c] = step]

\* The process exits: daemon threads go with it, and so do the connections
\* that were not answered yet.
Open(b) == conn[b].at \in {"read", "won", "set", "late"}

Exit(c, ending) ==
  /\ GoTo(c, "done")
  /\ said' = [said EXCEPT ![c] = ending]
  /\ conn' = [b \in Browsers |->
                IF conn[b].to = c /\ Open(b) THEN [conn[b] EXCEPT !.at = "reset"]
                ELSE conn[b]]
  /\ thread' = [thread EXCEPT ![c] = "none"]

\* The main thread goes on to its next blocking call.
Proceed(c, step) == GoTo(c, step) /\ UNCHANGED <<said, conn, thread>>

\* A failure inside the with block runs __exit__ first.
Raise(c) == GoTo(c, "close") /\ failure' = [failure EXCEPT ![c] = TRUE]

-----------------------------------------------------------------------------
(* Finding the proxy: _resources, discover_proxy, read_endpoints. *)

\* _require_secure: https, or http on a loopback address.
RequireSecure(url) == url \in Secure

\* What _get_json makes of a resource's metadata: no document (404), a refusal,
\* or the document: does it name this resource, and which servers?
ResourceAnswer == {"404", "bad"} \X {{}} \X {FALSE}
                  \cup {"document"} \X (SUBSET Sites) \X BOOLEAN

\* discover_proxy returns url: the first candidate with a document decides, and
\* has to name this resource and exactly one server.  The second candidate is a
\* 404 for a resource without a path.
DiscoverProxy(first, second, url) ==
  LET decides == IF first[1] = "404" THEN second ELSE first IN
  decides = <<"document", {url}, TRUE>>

Discovered ==
  {url \in Sites : \E first, second \in ResourceAnswer : DiscoverProxy(first, second, url)}

\* read_endpoints accepts the metadata document of the proxy.
Mutant_ReadEndpoints(url, document, s256) ==
  /\ RequireSecure(url)
  /\ document.issuer = url
  /\ s256
  /\ RequireSecure(document.authorization)
ReadEndpoints(url, document, s256) ==
  /\ RequireSecure(url)
  /\ document.issuer = url
  /\ s256
  /\ RequireSecure(document.authorization)
  /\ RequireSecure(document.token)
  /\ RequireSecure(document.registration)

-----------------------------------------------------------------------------
(* The loopback listener: LoopbackReceiver. *)

\* The socket is bound from the constructor to server_close.
Listening(c) == pc[c] \in {"register", "browse", "wait", "close"}

\* _session up to the registration request.  The proxy is the one named on the
\* command line or in the environment, else the one discovered; the GETs share
\* no state with anyone and are one step.  The receiver's constructor binds a
\* free port and __enter__ starts its thread.  An id given to pat-revoke may be
\* that of any row, or of none.
Start(c) ==
  /\ pc[c] = "idle"
  /\ \E t \in Maybe({d \in Commands : kind[d] = "create"}) :
       /\ kind[c] # "revoke" => t = None
       /\ target' = [target EXCEPT ![c] = t]
  /\ \/ Exit(c, "failed") /\ UNCHANGED <<ends, port>>
     \/ \E resource \in Sites, named \in Maybe(Sites), document \in Endpoints,
           s256 \in BOOLEAN, p \in Ports :
          /\ RequireSecure(resource)
          /\ \E url \in IF named = None THEN Discovered ELSE {named} :
               ReadEndpoints(url, document, s256)
          /\ \A d \in Commands : Listening(d) => port[d] # p
          /\ ends' = [ends EXCEPT ![c] = document]
          /\ port' = [port EXCEPT ![c] = p]
          /\ thread' = [thread EXCEPT ![c] = "started"]
          /\ GoTo(c, "register")
          /\ UNCHANGED <<said, conn>>
  /\ UNCHANGED <<kind, failure, sent, slot, done, received, signIn, management>>

\* serve_forever is entered; asked to stop before, it returns at once.
ServeForever(c) ==
  /\ thread[c] = "started"
  /\ thread' = [thread EXCEPT ![c] = IF pc[c] = "close" THEN "returned" ELSE "serving"]
  /\ UNCHANGED <<pc, failure, said, argv, ends, sent, port, slot, done,
                 received, signIn, conn, management>>

\* The poll of serve_forever notices the request of shutdown.
StopServing(c) ==
  /\ thread[c] = "serving"
  /\ pc[c] = "close"
  /\ thread' = [thread EXCEPT ![c] = "returned"]
  /\ UNCHANGED <<pc, failure, said, argv, ends, sent, port, slot, done,
                 received, signIn, conn, management>>

\* What the proxy redirects with: the state it was given, its iss, a code of
\* that sign-in or an error (callback.py).
Genuine(d) == {p \in Params : p.state = d /\ p.iss = "proxy"}

\* What may arrive at the listener of c: strays, and the proxy's answers to the
\* sign-ins opened with the port it has.
Deliverable(c) ==
  Strays \cup {p \in Params : \E d \in opened : port[d] = port[c] /\ p \in Genuine(d)}

\* A browser connects; do_GET answers another path than /callback with 404.
Connect(b) ==
  /\ conn[b] = NoConn
  /\ \E c \in Commands :
       /\ Listening(c) /\ thread[c] = "serving"
       /\ \/ \E p \in Deliverable(c) :
               conn' = [conn EXCEPT ![b] = [to |-> c, params |-> p, at |-> "read"]]
          \/ conn' = [conn EXCEPT ![b] = [to |-> c, params |-> None, at |-> "404"]]
  /\ UNCHANGED <<pc, failure, said, argv, ends, sent, receiver, thread, signIn,
                 management>>

\* _accept, the part under the lock: the first redirect fills the slot.
Mutant_Vacant(c) == TRUE
Vacant(c) == slot[c] = None

Accept(b) ==
  /\ conn[b].at = "read"
  /\ LET c == conn[b].to IN
       \/ /\ Vacant(c)
          /\ slot' = [slot EXCEPT ![c] = conn[b].params]
          /\ conn' = [conn EXCEPT ![b].at = "won"]
       \/ /\ ~Vacant(c)
          /\ conn' = [conn EXCEPT ![b].at = "late", ![b].params = None]
          /\ UNCHANGED slot
  /\ UNCHANGED <<pc, failure, said, argv, ends, sent, port, thread, done,
                 received, signIn, management>>

\* _accept, after the lock: the event is set.
SetDone(b) ==
  /\ conn[b].at = "won"
  /\ done' = [done EXCEPT ![conn[b].to] = TRUE]
  /\ conn' = [conn EXCEPT ![b].at = "set"]
  /\ UNCHANGED <<pc, failure, said, argv, ends, sent, port, thread, slot,
                 received, signIn, management>>

AnswerBrowser(b) ==
  /\ conn[b].at \in {"set", "late"}
  /\ conn' = [conn EXCEPT ![b].at = IF @ = "set" THEN "200" ELSE "409"]
  /\ UNCHANGED <<pc, failure, said, argv, ends, sent, receiver, thread, signIn,
                 management>>

-----------------------------------------------------------------------------
(* Signing in: sign_in. *)

\* The registration is answered.  The sign-in URL is printed, and unless the
\* command only prints it (--no-browser) a browser is launched with it.
Register(c) ==
  /\ pc[c] = "register"
  /\ \/ Raise(c) /\ UNCHANGED opened
     \/ /\ GoTo(c, "browse") \/ GoTo(c, "wait")
        /\ opened' = opened \cup {c}
        /\ UNCHANGED failure
  /\ UNCHANGED <<said, argv, ends, sent, receiver, thread, used, conn, management>>

\* webbrowser.open returns: at once, or, for a browser in the terminal, when the
\* user quits it.  The listener serves meanwhile.
OpenBrowser(c) ==
  /\ pc[c] = "browse"
  /\ GoTo(c, "wait")
  /\ UNCHANGED <<failure, said, argv, ends, sent, receiver, thread, signIn, conn,
                 management>>

\* The event or the timeout ends the wait; either way the slot is read now.
Mutant_TimedOut(c) == FALSE
TimedOut(c) == pc[c] = "wait"

\* What wait returns: the slot.
Mutant_Result(c) ==
  IF slot[c] = None THEN [state |-> None, iss |-> "", says |-> ""] ELSE slot[c]
Result(c) == slot[c]

Wait(c) ==
  /\ pc[c] = "wait"
  /\ done[c] \/ TimedOut(c)
  /\ received' = [received EXCEPT ![c] = Result(c)]
  /\ GoTo(c, "close")
  /\ UNCHANGED <<failure, said, argv, ends, sent, port, thread, slot, done,
                 signIn, conn, management>>

\* check_redirect lets a redirect through: this sign-in's state, the proxy's
\* iss, no error, a code.
Mutant_CheckRedirect(c, p) == p.iss = "proxy" /\ p.says = "code"
CheckRedirect(c, p) == p.state = c /\ p.iss = "proxy" /\ p.says = "code"

SignedIn(c) == received[c] # None /\ CheckRedirect(c, received[c])

\* compare_digest raises a TypeError for a state that is not ASCII.
Unreadable(c) == received[c] # None /\ received[c].state = None

\* __exit__: shutdown blocks until serve_forever has returned, server_close
\* frees the port.  A pending exception then reaches _run; no redirect or the
\* wrong one ends the command; else code and verifier are posted.
Close(c) ==
  /\ pc[c] = "close"
  /\ thread[c] = "returned"
  /\ \/ (failure[c] \/ Unreadable(c)) /\ Exit(c, "failed") /\ UNCHANGED <<sent, used>>
     \/ ~failure[c] /\ ~SignedIn(c) /\ Exit(c, "nothing") /\ UNCHANGED <<sent, used>>
     \/ /\ ~failure[c] /\ SignedIn(c)
        /\ used' = [used EXCEPT ![c] = received[c]]
        /\ sent' = [sent EXCEPT ![c] = @ \cup {ends[c].token}]
        /\ Proceed(c, "redeem")
  /\ UNCHANGED <<failure, argv, ends, receiver, opened, management>>

\* The token endpoint answers; with an access token the management call is
\* sent, to the issuer.
Redeem(c) ==
  /\ pc[c] = "redeem"
  /\ \/ Exit(c, "failed") /\ UNCHANGED <<sent, call>>
     \/ /\ used[c] \in Genuine(c)
        /\ call' = [call EXCEPT ![c] = "sent"]
        /\ sent' = [sent EXCEPT ![c] = @ \cup {ends[c].issuer}]
        /\ Proceed(c, "manage")
  /\ UNCHANGED <<failure, argv, ends, receiver, signIn, row, listed, printed>>

-----------------------------------------------------------------------------
(* The management call: create_token, list_tokens, revoke_token. *)

\* The other end of the call is the service, as PatLife promises it: a statement
\* that commits may still be answered 500, and the command need not be there any
\* more.
Proxy == INSTANCE PatLife WITH
  Creations <- Commands, Listings <- Commands, Revocations <- Commands,
  Exchanges <- {}, use <- [e \in {} |-> "none"]

\* What the SELECT of a listing sees.
Selected == {<<d, row[d]>> : d \in {e \in Commands : row[e] # "none"}}

ServeCall(c) ==
  /\ call[c] = "sent"
  /\ \/ /\ \/ Proxy!Refuse(c)
           \/ Proxy!Fail(c)
           \/ kind[c] = "create" /\ Proxy!Create(c, "live")
           \/ kind[c] = "revoke" /\ target[c] # None /\ Proxy!Revoke(c, target[c])
        /\ UNCHANGED listed
     \/ /\ kind[c] = "list" /\ Proxy!List(c)
        /\ listed' = [listed EXCEPT ![c] = Selected]
  /\ UNCHANGED <<pc, failure, said, argv, ends, sent, receiver, thread, signIn,
                 conn, printed>>

\* The status the command takes for success.
Mutant_Succeeded(c) == call[c] \notin {"none", "sent", "4xx"}
Succeeded(c) ==
  call[c] = CASE kind[c] = "create" -> "201"
              [] kind[c] = "list" -> "200"
              [] kind[c] = "revoke" -> "204"

\* The answer arrives.
ReadAnswer(c) ==
  /\ pc[c] = "manage"
  /\ call[c] \notin {"none", "sent"}
  /\ \/ ~Succeeded(c) /\ Exit(c, "failed")
     \/ Succeeded(c) /\ Proceed(c, "print")
  /\ UNCHANGED <<failure, argv, ends, sent, receiver, signIn, management>>

\* The result is written: pat-create flushes the token to stdout, pat-revoke
\* writes to stderr, and the table of pat-list may stay in stdout's buffer.  A
\* stream that is gone ends the command.
WriteResult(c) ==
  /\ pc[c] = "print"
  /\ \/ Exit(c, "failed") /\ UNCHANGED printed
     \/ printed' = printed \cup {c} /\ Proceed(c, "exit")
     \/ kind[c] = "list" /\ UNCHANGED printed /\ Proceed(c, "exit")
  /\ UNCHANGED <<failure, argv, ends, sent, receiver, signIn, call, row, listed>>

\* _run returns 0 and the interpreter flushes stdout, or fails to.
Return(c) ==
  /\ pc[c] = "exit"
  /\ \/ Exit(c, "ok") /\ printed' = printed \cup {c}
     \/ kind[c] = "list" /\ Exit(c, "failed") /\ UNCHANGED printed
  /\ UNCHANGED <<failure, argv, ends, sent, receiver, signIn, call, row, listed>>

\* httpx.HTTPError, ReadTimeout among them, whatever became of the call; or an
\* answer of the right status that holds no JSON or no token.
Mutant_GiveUp(c) ==
  /\ pc[c] = "manage"
  /\ Exit(c, "nothing")
  /\ UNCHANGED <<failure, argv, ends, sent, receiver, signIn, management>>
GiveUp(c) ==
  /\ pc[c] = "manage"
  /\ Exit(c, "failed")
  /\ UNCHANGED <<failure, argv, ends, sent, receiver, signIn, management>>

\* The user interrupts the command, or it is killed.
Kill(c) ==
  /\ pc[c] \notin {"idle", "done"}
  /\ Exit(c, "failed")
  /\ UNCHANGED <<failure, argv, ends, sent, receiver, signIn, management>>

-----------------------------------------------------------------------------
\* The main thread's steps that wait for somebody outside: the proxy's answers,
\* the browser it launched, whoever reads its output.
Outside(c) ==
  \/ Register(c) \/ OpenBrowser(c) \/ Redeem(c) \/ ReadAnswer(c) \/ GiveUp(c)
  \/ WriteResult(c) \/ Return(c)

MainStep(c) == Outside(c) \/ Wait(c) \/ Close(c)

ThreadStep(c) == ServeForever(c) \/ StopServing(c)

HandlerStep(b) == Accept(b) \/ SetDone(b) \/ AnswerBrowser(b)

\* The bounded run is over: every command has ended.
Finished == (\A c \in Commands : pc[c] = "done") /\ UNCHANGED vars

Next ==
  \/ \E c \in Commands : \/ Start(c) \/ MainStep(c) \/ ThreadStep(c)
                         \/ ServeCall(c) \/ Kill(c)
  \/ \E b \in Browsers : Connect(b) \/ HandlerStep(b)
  \/ Finished

Spec == Init /\ [][Next]_vars

\* What the command itself sees to: wait returns after --timeout, a started
\* thread runs, and serve_forever polls for shutdown.  Nothing is assumed of the
\* user, the browsers or the proxy.
Fairness ==
  \A c \in Commands : WF_vars(Wait(c)) /\ WF_vars(Close(c)) /\ WF_vars(ThreadStep(c))

FairSpec == Spec /\ Fairness

-----------------------------------------------------------------------------
(* Properties. *)

\* Type invariant: where a command, a thread and a connection can be.
TypeOK ==
  /\ pc \in [Commands -> Steps]
  /\ kind \in [Commands -> {"create", "list", "revoke"}]
  /\ failure \in [Commands -> BOOLEAN]
  /\ said \in [Commands -> Maybe(Endings)]
  /\ target \in [Commands -> Maybe(Commands)]
  /\ ends \in [Commands -> Maybe(Endpoints)]
  /\ sent \in [Commands -> SUBSET Sites]
  /\ port \in [Commands -> Maybe(Ports)]
  /\ thread \in [Commands -> {"none", "started", "serving", "returned"}]
  /\ slot \in [Commands -> Maybe(Params)]
  /\ done \in [Commands -> BOOLEAN]
  /\ received \in [Commands -> Maybe(Params)]
  /\ used \in [Commands -> Maybe(Params)]
  /\ conn \in [Browsers -> [to : Maybe(Commands), params : Maybe(Params), at : Pages]]
  /\ call \in [Commands -> Calls]
  /\ row \in [Commands -> {"none", "live", "revoked"}]
  /\ listed \in [Commands -> SUBSET (Commands \X {"live", "revoked"})]
  /\ opened \subseteq Commands
  /\ printed \subseteq Commands

\* Exactly one redirect counts: of the browsers that reach a listener one is
\* told that its sign-in was received, the slot keeps what that one delivered,
\* and the command judges nothing else, though handlers run in threads of their
\* own and the event is set after the lock is released (LoopbackReceiver).
OneRedirectCounts ==
  /\ \A b \in Browsers :
       conn[b].at \in {"won", "set", "200"} => slot[conn[b].to] = conn[b].params
  /\ \A b, e \in Browsers :
       conn[b].at = "200" /\ conn[e].at = "200" /\ conn[b].to = conn[e].to => b = e
  /\ \A c \in Commands : received[c] # None => received[c] = slot[c]

\* A command redeems the code of its own sign-in and of no other, although
\* redirects of earlier commands on the same port, of other issuers and of
\* strangers reach its listener (check_redirect).
OwnCodeRedeemed ==
  \A c \in Commands :
    used[c] # None =>
      /\ used[c] \in Genuine(c)
      /\ \E b \in Browsers : conn[b].to = c /\ conn[b].params = used[c]

\* "nothing was created" is true, and stays true: no row was made by the
\* command and no call is under way that could still make one.
NothingWasCreated ==
  \A c \in Commands : said[c] = "nothing" => row[c] = "none" /\ call[c] = "none"

\* What a command printed is the truth about the token store, also when it is
\* killed between printing and exiting: a token that was written has its row, a
\* row reported revoked is revoked, and what pat-list shows is at worst old news:
\* each row is as the SELECT saw it or was revoked since.  Exit code 0 is given
\* only with the result printed, and no command that printed one says "nothing was
\* created" (_run and the three main functions).
SuccessIsReal ==
  /\ \A c \in Commands : said[c] = "ok" => c \in printed
  /\ \A c \in printed :
       /\ said[c] # "nothing"
       /\ CASE kind[c] = "create" -> row[c] # "none"
            [] kind[c] = "revoke" -> \E d \in Commands : d = target[c] /\ row[d] = "revoked"
            [] kind[c] = "list" -> \A seen \in listed[c] : row[seen[1]] \in {seen[2], "revoked"}

\* A code, a verifier or an access token is sent to secure URLs only, whatever
\* the resource's and the proxy's metadata say (_require_secure: "a bearer token
\* never travels in clear").
SecretsStaySecure == \A c \in Commands : sent[c] \subseteq Secure

\* A command ends whatever browsers and the user do: also when no redirect ever
\* arrives, when it arrives as the wait times out, and when the thread of the
\* listener starts late or is told to stop before it serves.  The premise is that
\* the calls it blocks in return in the end: each HTTP call with an answer or an
\* error, webbrowser.open, and the writes of its output.  The code sets no bound to
\* them: httpx's 30 seconds are per read, and a browser in the terminal holds the
\* command until the user quits it.
CommandsEnd ==
  \A c \in Commands : WF_vars(Outside(c)) => (pc[c] # "idle" ~> pc[c] = "done")
=============================================================================
