------------------------------ MODULE RpcServer ------------------------------
(***************************************************************************)
(* The RPC server's goroutines: rpcserver.go.  A websocket client has four *)
(* (WebsocketClientRead, Gateway, Respond, Send) beside the one that       *)
(* serves its connection (WebsocketClientRPC) and one for every request    *)
(* passed through to the chain server; an HTTP POST client has one.  All   *)
(* requests for the wallet go through RequestHandler, which runs one       *)
(* handler at a time under the account manager's semaphore; all broadcasts *)
(* go through NotificationHandler.  The chain client's goroutine handles   *)
(* block notifications and broadcasts too.  Stop is called by the stop     *)
(* request and by the interrupt handler of signal.go.                      *)
(*                                                                         *)
(* Every channel but unauthedRequests is unbuffered: a send and its        *)
(* receive are one step.  A goroutine's variable is its place in the code. *)
(* A send on a closed channel, or closing one twice, panics: the process   *)
(* is gone (panicked).  Requests stand for their kind:                     *)
(*   "auth" "badauth"  an authenticate request, right or wrong             *)
(*   "junk"            not JSON       "bad"  a wallet method, unparsable   *)
(*   "wallet" "cast"   a wallet method, silent or with a broadcast         *)
(*   "stop"            the stop request                                    *)
(*   "pass"            a method that the wallet does not handle            *)
(***************************************************************************)
EXTENDS Integers, Sequences, FiniteSets

CONSTANTS
  Client,         \* websocket clients
  Poster,         \* HTTP POST clients
  Scripts,        \* what a websocket client may send: sequences of kinds
  Preauthed,      \* those of clients that authenticate by HTTP header
  MaxBuffered,    \* maxConcurrentClientRequests
  MaxEvents       \* bound: POST requests, block notifications and interrupts

Kinds == {"auth", "badauth", "junk", "bad", "wallet", "cast", "stop", "pass"}
ASSUME ServerAssumption ==
  /\ Scripts \subseteq Seq(Kinds)
  /\ Preauthed \subseteq Scripts
  /\ Client \cap Poster = {}
  /\ MaxBuffered \in Nat \ {0}
  /\ MaxEvents \in Nat

VARIABLES
  script,     \* what a websocket client sends, in order
  sent,       \* how many of these WebsocketClientRead has read
  conn,       \* the remote end: "none", "open" or "gone"
  authed,     \* authenticated
  at,         \* its goroutines rpc, read, gate, resp and send
  passing,    \* its requests being passed through
  unauthed,   \* unauthedRequests
  replied,    \* the requests whose replies reached the client
  post,       \* the goroutine of a POST client
  requestH, job,          \* RequestHandler and the job it has
  notifyH, targets,       \* NotificationHandler, the clients still to be sent to
  wsClients,  \* wsClients
  chain,      \* the chain client's goroutine
  events,     \* POST requests, block notifications and interrupts so far
  bsem,       \* who holds the account manager's semaphore
  interrupt,  \* the interrupt handler
  mgrStopped, quit,       \* AcctMgr.Stop was called, quit is closed
  panicked

clientVars == <<sent, conn, authed, at, passing, unauthed, replied>>
serverVars == <<post, requestH, job, notifyH, targets, wsClients, chain, events,
                bsem, interrupt, mgrStopped, quit>>
vars == <<script, clientVars, serverVars, panicked>>
-----------------------------------------------------------------------------
(* A goroutine's place, with the request it is busy with (0 for none).     *)
At(place) == <<place, 0>>
None == At("none")
Done == At("done")
Goes(c, g, place) == [at[c] EXCEPT ![g] = place]
Event == events < MaxEvents /\ events' = events + 1
Kind(c, i) == script[c][i]
PostKinds == {"cast", "stop"}
IsWallet(kind) == kind \in PostKinds \cup {"wallet"}

(* A client's channels are closed by the goroutines that end: allRequests  *)
(* by read, unauthedRequests by gate, responses by resp and quit by send.  *)
Gone(c) == at[c].send \in {At("remove"), Done}

(* websocketClient.send of msg, by a goroutine that leaves the client's    *)
(* goroutines as ok says on success and as gone says on errDisconnected.   *)
(* With responses closed the select may choose that case even if quit is   *)
(* closed too, and a goroutine that waits in it panics when it is closed.  *)
Send(c, msg, ok, gone) ==
  \/ /\ at[c].resp # Done /\ at[c].send = At("range")
     /\ at' = [at EXCEPT ![c] = [ok EXCEPT !.send = msg]]
     /\ UNCHANGED panicked
  \/ /\ Gone(c)
     /\ at' = [at EXCEPT ![c] = gone]
     /\ UNCHANGED panicked
  \/ /\ at[c].resp = Done
     /\ panicked' = TRUE
     /\ UNCHANGED at
-----------------------------------------------------------------------------
(* WebsocketClientRPC.                                                     *)
Connect(c) ==
  /\ conn[c] = "none"
  /\ ~quit
  /\ conn' = [conn EXCEPT ![c] = "open"]
  /\ at' = [at EXCEPT ![c].rpc = At("add")]
  /\ UNCHANGED <<script, sent, authed, passing, unauthed, replied, serverVars,
                 panicked>>
AddClient(c) ==
  /\ at[c].rpc = At("add")
  /\ notifyH = "select"
  /\ wsClients' = wsClients \cup {c}
  /\ at' = [at EXCEPT ![c] = [rpc |-> At("notify"), read |-> At("read"),
                              gate |-> At("select"), resp |-> At("range"),
                              send |-> At("range")]]
  /\ UNCHANGED <<script, sent, conn, authed, passing, unauthed, replied, post,
                 requestH, job, notifyH, targets, chain, events, bsem, interrupt,
                 mgrStopped, quit, panicked>>
AddClientQuit(c) ==
  /\ at[c].rpc = At("add")
  /\ quit
  /\ at' = [at EXCEPT ![c].rpc = Done]
  /\ UNCHANGED <<script, sent, conn, authed, passing, unauthed, replied, serverVars,
                 panicked>>
NotifyConnectionStatus(c) ==
  /\ at[c].rpc = At("notify")
  /\ LET waits == Goes(c, "rpc", At("wait")) IN Send(c, At("status"), waits, waits)
  /\ UNCHANGED <<script, sent, conn, authed, passing, unauthed, replied, serverVars>>
RpcReturns(c) ==
  /\ at[c].rpc = At("wait")
  /\ Gone(c)
  /\ at' = [at EXCEPT ![c].rpc = Done]
  /\ UNCHANGED <<script, sent, conn, authed, passing, unauthed, replied, serverVars,
                 panicked>>

(* The remote client goes away at any time; what it sent and was not read  *)
(* is lost.                                                                *)
Disconnect(c) ==
  /\ conn[c] = "open"
  /\ conn' = [conn EXCEPT ![c] = "gone"]
  /\ UNCHANGED <<script, sent, authed, at, passing, unauthed, replied, serverVars,
                 panicked>>

(* WebsocketClientRead: a request is offered on allRequests.               *)
ReadMessage(c) ==
  /\ at[c].read = At("read")
  /\ \/ /\ conn[c] = "open" /\ sent[c] < Len(script[c])
        /\ sent' = [sent EXCEPT ![c] = @ + 1]
        /\ at' = [at EXCEPT ![c].read = <<"offer", sent[c] + 1>>]
     \/ /\ conn[c] = "gone"
        /\ at' = [at EXCEPT ![c].read = Done]
        /\ UNCHANGED sent
  /\ UNCHANGED <<script, conn, authed, passing, unauthed, replied, serverVars,
                 panicked>>
-----------------------------------------------------------------------------
(* WebsocketClientGateway.                                                 *)
GatewayReads(c) ==
  LET i == at[c].read[2]
      gate(place) == at' = [at EXCEPT ![c].read = At("read"), ![c].gate = place]
  IN /\ at[c].gate = At("select")
     /\ at[c].read[1] = "offer"
     /\ \/ /\ Kind(c, i) = "junk"
           /\ gate(IF authed[c] THEN <<"error", i>> ELSE Done)
           /\ UNCHANGED passing
        \/ /\ Kind(c, i) = "pass"
           /\ gate(At("select"))
           /\ passing' = [passing EXCEPT ![c] = @ \cup {i}]
        \/ /\ Kind(c, i) \notin {"junk", "pass"}
           /\ gate(<<"queue", i>>)
           /\ UNCHANGED passing
     /\ UNCHANGED <<script, sent, conn, authed, unauthed, replied, serverVars,
                    panicked>>
GatewayRanges(c) ==
  /\ at[c].gate = At("select")
  /\ at[c].read = Done
  /\ at' = [at EXCEPT ![c].gate = Done]
  /\ UNCHANGED <<script, sent, conn, authed, passing, unauthed, replied, serverVars,
                 panicked>>

GatewayQuits(c) ==
  /\ at[c].gate = At("select")
  /\ at[c].read = Done \/ quit
  /\ at' = [at EXCEPT ![c].gate = Done]
  /\ UNCHANGED <<script, sent, conn, authed, passing, unauthed, replied, serverVars,
                 panicked>>

(* The send on unauthedRequests has no other case: with the buffer full it *)
(* waits for Respond.                                                      *)
GatewayDrops(c) ==
  /\ at[c].gate[1] = "queue"
  /\ unauthed' = [unauthed EXCEPT ![c] = IF Len(@) < MaxBuffered
                                           THEN Append(@, at[c].gate[2]) ELSE @]
  /\ at' = [at EXCEPT ![c].gate = At("select")]
  /\ UNCHANGED <<script, sent, conn, authed, passing, replied, serverVars, panicked>>

GatewayQueues(c) ==
  /\ at[c].gate[1] = "queue"
  /\ Len(unauthed[c]) < MaxBuffered
  /\ unauthed' = [unauthed EXCEPT ![c] = Append(@, at[c].gate[2])]
  /\ at' = [at EXCEPT ![c].gate = At("select")]
  /\ UNCHANGED <<script, sent, conn, authed, passing, replied, serverVars, panicked>>

GatewaySends(c) ==
  /\ at[c].gate[1] = "error"
  /\ Send(c, at[c].gate, Goes(c, "gate", At("select")), Goes(c, "gate", Done))
  /\ UNCHANGED <<script, sent, conn, authed, passing, unauthed, replied, serverVars>>

(* websocketPassthrough: the chain server answers, in any order.           *)
Passthrough(c, i) ==
  /\ i \in passing[c]
  /\ passing' = [passing EXCEPT ![c] = @ \ {i}]
  /\ Send(c, <<"passed", i>>, at[c], at[c])
  /\ UNCHANGED <<script, sent, conn, authed, unauthed, replied, serverVars>>
-----------------------------------------------------------------------------
(* invalidAuth; a client that the check lets through is authenticated.     *)
TrustedAuth(c, i) == FALSE

InvalidAuth(c, i) == IF Kind(c, i) \in {"auth", "badauth"}
                       THEN authed[c] \/ Kind(c, i) = "badauth"
                       ELSE ~authed[c]

(* WebsocketClientRespond: the authentication, then the parse error, then  *)
(* the request handler.                                                    *)
RespondReads(c) ==
  LET i == Head(unauthed[c])
      resp(place) == at' = [at EXCEPT ![c].resp = place]
  IN /\ at[c].resp = At("range")
     /\ unauthed[c] # <<>>
     /\ unauthed' = [unauthed EXCEPT ![c] = Tail(@)]
     /\ IF InvalidAuth(c, i)
          THEN resp(Done) /\ UNCHANGED authed
          ELSE /\ resp(<<IF IsWallet(Kind(c, i)) THEN "offer" ELSE "reply", i>>)
               /\ authed' = [authed EXCEPT ![c] = @ \/ Kind(c, i) = "auth"]
     /\ UNCHANGED <<script, sent, conn, passing, replied, serverVars, panicked>>

RespondKeepsOpen(c) ==
  /\ at[c].resp[1] \in {"offer", "wait"} /\ quit
  /\ at' = [at EXCEPT ![c].resp = Done]
  /\ UNCHANGED <<script, sent, conn, authed, passing, unauthed, replied, serverVars,
                 panicked>>

RespondQuits(c) ==
  /\ \/ at[c].resp = At("range") /\ unauthed[c] = <<>> /\ at[c].gate = Done
     \/ at[c].resp[1] \in {"offer", "wait"} /\ quit
  /\ at' = [at EXCEPT ![c].resp = Done]
  /\ UNCHANGED <<script, sent, conn, authed, passing, unauthed, replied, serverVars,
                 panicked>>

RespondSends(c) ==
  /\ at[c].resp[1] = "reply"
  /\ Send(c, at[c].resp, Goes(c, "resp", At("range")), Goes(c, "resp", Done))
  /\ UNCHANGED <<script, sent, conn, authed, passing, unauthed, replied, serverVars>>

(* WebsocketClientSend.  A write fails when the client is gone or does not *)
(* take it within the deadline.                                            *)
SendWrites(c) ==
  /\ at[c].send \notin {None, At("range"), At("remove"), Done}
  /\ \/ /\ conn[c] = "open"
        /\ replied' = [replied EXCEPT ![c] = IF at[c].send[1] = "reply"
                                             THEN Append(@, at[c].send[2]) ELSE @]
        /\ at' = [at EXCEPT ![c].send = At("range")]
     \/ /\ at' = [at EXCEPT ![c].send = At("remove")]
        /\ UNCHANGED replied
  /\ UNCHANGED <<script, sent, conn, authed, passing, unauthed, serverVars, panicked>>
SendClosed(c) ==
  /\ at[c].send = At("range")
  /\ at[c].resp = Done
  /\ at' = [at EXCEPT ![c].send = At("remove")]
  /\ UNCHANGED <<script, sent, conn, authed, passing, unauthed, replied, serverVars,
                 panicked>>
SendForgets(c) ==
  /\ at[c].send = At("remove")
  /\ at' = [at EXCEPT ![c].send = Done]
  /\ UNCHANGED <<script, sent, conn, authed, passing, unauthed, replied, serverVars,
                 panicked>>

RemoveClient(c) ==
  /\ at[c].send = At("remove")
  /\ \/ /\ notifyH = "select"
        /\ wsClients' = wsClients \ {c}
     \/ /\ quit
        /\ UNCHANGED wsClients
  /\ at' = [at EXCEPT ![c].send = Done]
  /\ UNCHANGED <<script, sent, conn, authed, passing, unauthed, replied, post,
                 requestH, job, notifyH, targets, chain, events, bsem, interrupt,
                 mgrStopped, quit, panicked>>

-----------------------------------------------------------------------------
(* NotificationHandler: a broadcast goes to one client after the other, a  *)
(* client whose send failed is deleted.                                    *)
ReceiveBroadcast ==
  /\ notifyH = "select"
  /\ notifyH' = "send"
  /\ targets' = wsClients
NotifyClient(c) ==
  /\ notifyH = "send"
  /\ c \in targets
  /\ targets' = targets \ {c}
  /\ Send(c, At("broadcast"), at[c], at[c])
  /\ wsClients' = IF Gone(c) THEN wsClients \ {c} ELSE wsClients
  /\ UNCHANGED <<script, sent, conn, authed, passing, unauthed, replied, post,
                 requestH, job, notifyH, chain, events, bsem, interrupt, mgrStopped,
                 quit>>
NotifyNext ==
  /\ \/ notifyH = "send" /\ targets = {} /\ notifyH' = "select"
     \/ notifyH = "select" /\ quit /\ notifyH' = "done"
  /\ UNCHANGED <<script, clientVars, post, requestH, job, targets, wsClients,
                 chain, events, bsem, interrupt, mgrStopped, quit, panicked>>

(* PostClientRPC with a request for the wallet.                            *)
PostRequest(p, kind) ==
  /\ post[p] = "none"
  /\ ~quit
  /\ Event
  /\ post' = [post EXCEPT ![p] = kind]
  /\ UNCHANGED <<script, clientVars, requestH, job, notifyH, targets, wsClients,
                 chain, bsem, interrupt, mgrStopped, quit, panicked>>
PostQuits(p) ==
  /\ IsWallet(post[p]) \/ post[p] = "wait"
  /\ quit
  /\ post' = [post EXCEPT ![p] = "dropped"]
  /\ UNCHANGED <<script, clientVars, requestH, job, notifyH, targets, wsClients,
                 chain, events, bsem, interrupt, mgrStopped, quit, panicked>>

(* RequestHandler: a job from a client, the semaphore, the handler.        *)
HandlerTakes ==
  /\ requestH = "select"
  /\ requestH' = "grab"
  /\ \/ \E c \in Client : LET i == at[c].resp[2] IN
          /\ at[c].resp[1] = "offer"
          /\ job' = [from |-> c, id |-> i, kind |-> Kind(c, i)]
          /\ at' = [at EXCEPT ![c].resp = <<"wait", i>>]
          /\ UNCHANGED post
     \/ \E p \in Poster :
          /\ IsWallet(post[p])
          /\ job' = [from |-> p, id |-> 0, kind |-> post[p]]
          /\ post' = [post EXCEPT ![p] = "wait"]
          /\ UNCHANGED at
  /\ UNCHANGED <<script, sent, conn, authed, passing, unauthed, replied, notifyH,
                 targets, wsClients, chain, events, bsem, interrupt, mgrStopped,
                 quit, panicked>>
HandlerGrabs ==
  /\ requestH = "grab"
  /\ bsem = "free"
  /\ bsem' = "request"
  /\ requestH' = IF job.kind = "stop" THEN "check" ELSE "run"
  /\ UNCHANGED <<script, clientVars, post, job, notifyH, targets, wsClients,
                 chain, events, interrupt, mgrStopped, quit, panicked>>

(* A handler that asks the account manager's goroutines for something      *)
(* after they ended waits for ever: their channels have no case for quit.  *)
HandlerKeepsSem ==
  /\ requestH = "run"
  /\ \/ /\ job.kind = "cast"
        /\ requestH' = "cast"
        /\ UNCHANGED bsem
     \/ /\ job.kind # "cast"
        /\ requestH' = "reply"
        /\ UNCHANGED bsem
     \/ /\ mgrStopped
        /\ requestH' = "stuck"
        /\ UNCHANGED bsem
  /\ UNCHANGED <<script, clientVars, post, job, notifyH, targets, wsClients,
                 chain, events, interrupt, mgrStopped, quit, panicked>>

HandlerRuns ==
  /\ requestH = "run"
  /\ \/ /\ job.kind = "cast"
        /\ requestH' = "cast"
        /\ UNCHANGED bsem
     \/ /\ job.kind # "cast"
        /\ requestH' = "reply"
        /\ bsem' = "free"
     \/ /\ mgrStopped
        /\ requestH' = "stuck"
        /\ UNCHANGED bsem
  /\ UNCHANGED <<script, clientVars, post, job, notifyH, targets, wsClients,
                 chain, events, interrupt, mgrStopped, quit, panicked>>

(* NotifyNewTxDetails, NotifyWalletBalance and the like in a handler.      *)
HandlerBroadcasts ==
  /\ requestH = "cast"
  /\ ReceiveBroadcast \/ (quit /\ UNCHANGED <<notifyH, targets>>)
  /\ requestH' = "reply"
  /\ bsem' = "free"
  /\ UNCHANGED <<script, clientVars, post, job, wsClients, chain, events,
                 interrupt, mgrStopped, quit, panicked>>
HandlerReplies ==
  /\ requestH = "reply"
  /\ requestH' = "select"
  /\ \/ \E c \in Client : /\ job.from = c /\ at[c].resp = <<"wait", job.id>>
                          /\ at' = [at EXCEPT ![c].resp = <<"reply", job.id>>]
                          /\ UNCHANGED post
     \/ \E p \in Poster : /\ job.from = p /\ post[p] = "wait"
                          /\ post' = [post EXCEPT ![p] = "replied"]
                          /\ UNCHANGED at
  /\ UNCHANGED <<script, sent, conn, authed, passing, unauthed, replied, job,
                 notifyH, targets, wsClients, chain, events, bsem, interrupt,
                 mgrStopped, quit, panicked>>
HandlerQuits ==
  /\ requestH \in {"select", "reply"}
  /\ quit
  /\ requestH' = "done"
  /\ UNCHANGED <<script, clientVars, post, job, notifyH, targets, wsClients,
                 chain, events, bsem, interrupt, mgrStopped, quit, panicked>>
-----------------------------------------------------------------------------
(* Stop: the test of quit, AcctMgr.Stop, and closing quit are three steps, *)
(* and the request handler and the interrupt handler may both be in it.    *)
Stop(place, next) ==
  \/ /\ place = "check"
     /\ next = IF quit THEN "stopped" ELSE "mgr"
     /\ UNCHANGED <<mgrStopped, quit, panicked>>
  \/ /\ place = "mgr"
     /\ next = "close"
     /\ panicked' = mgrStopped
     /\ mgrStopped' = TRUE
     /\ UNCHANGED quit
  \/ /\ place = "close"
     /\ next = "stopped"
     /\ panicked' = quit
     /\ quit' = TRUE
     /\ UNCHANGED mgrStopped
HandlerStops ==
  /\ \E next \in {"stopped", "mgr", "close"} :
       /\ Stop(requestH, next)
       /\ requestH' = IF next = "stopped" THEN "reply" ELSE next
       /\ bsem' = IF next = "stopped" THEN "free" ELSE bsem
  /\ UNCHANGED <<script, clientVars, post, job, notifyH, targets, wsClients,
                 chain, events, interrupt>>
Interrupt ==
  /\ interrupt = "none"
  /\ Event
  /\ interrupt' = "check"
  /\ UNCHANGED <<script, clientVars, post, requestH, job, notifyH, targets,
                 wsClients, chain, bsem, mgrStopped, quit, panicked>>
InterruptStops ==
  /\ \E next \in {"stopped", "mgr", "close"} :
       Stop(interrupt, next) /\ interrupt' = next
  /\ UNCHANGED <<script, clientVars, post, requestH, job, notifyH, targets,
                 wsClients, chain, events, bsem>>

(* blockConnected and blockDisconnected ask the account manager under the  *)
(* semaphore; blockConnected broadcasts the balances there.  The broadcast *)
(* of the notification itself has no case for quit, and blockDisconnected  *)
(* still holds the semaphore.                                              *)
BlockNtfn(kind) ==
  /\ chain = "idle"
  /\ Event
  /\ bsem = "free"
  /\ bsem' = "chain"
  /\ \/ chain' = IF kind = "connected" THEN "balance" ELSE "cast"
     \/ mgrStopped /\ chain' = "stuck"
  /\ UNCHANGED <<script, clientVars, post, requestH, job, notifyH, targets,
                 wsClients, interrupt, mgrStopped, quit, panicked>>
BalanceBroadcast ==
  /\ chain = "balance"
  /\ ReceiveBroadcast \/ (quit /\ UNCHANGED <<notifyH, targets>>)
  /\ chain' = "cast"
  /\ bsem' = "free"
  /\ UNCHANGED <<script, clientVars, post, requestH, job, wsClients, events,
                 interrupt, mgrStopped, quit, panicked>>
BlockBroadcast ==
  /\ chain = "cast"
  /\ ReceiveBroadcast
  /\ chain' = "idle"
  /\ bsem' = IF bsem = "chain" THEN "free" ELSE bsem
  /\ UNCHANGED <<script, clientVars, post, requestH, job, wsClients, events,
                 interrupt, mgrStopped, quit, panicked>>
-----------------------------------------------------------------------------
Init ==
  /\ script \in [Client -> Scripts]
  /\ sent = [c \in Client |-> 0]
  /\ conn = [c \in Client |-> "none"]
  /\ authed = [c \in Client |-> script[c] \in Preauthed]
  /\ at = [c \in Client |-> [rpc |-> None, read |-> None, gate |-> None,
                             resp |-> None, send |-> None]]
  /\ passing = [c \in Client |-> {}]
  /\ unauthed = [c \in Client |-> <<>>]
  /\ replied = [c \in Client |-> <<>>]
  /\ post = [p \in Poster |-> "none"]
  /\ requestH = "select"
  /\ job = [from |-> "none", id |-> 0, kind |-> "none"]
  /\ notifyH = "select"
  /\ targets = {}
  /\ wsClients = {}
  /\ chain = "idle"
  /\ events = 0
  /\ bsem = "free"
  /\ interrupt = "none"
  /\ mgrStopped = FALSE
  /\ quit = FALSE
  /\ panicked = FALSE

GatewayStep(c) == GatewayReads(c) \/ GatewayQuits(c) \/ GatewayQueues(c) \/ GatewaySends(c)
RespondStep(c) == RespondReads(c) \/ RespondQuits(c) \/ RespondSends(c)
SendStep(c) == SendWrites(c) \/ SendClosed(c) \/ RemoveClient(c)
RpcStep(c) == AddClient(c) \/ AddClientQuit(c) \/ NotifyConnectionStatus(c)
              \/ RpcReturns(c)
PassStep(c) == \E i \in passing[c] : Passthrough(c, i)
NotifyStep == (\E c \in Client : NotifyClient(c)) \/ NotifyNext
HandlerStep == HandlerTakes \/ HandlerGrabs \/ HandlerRuns \/ HandlerBroadcasts
               \/ HandlerReplies \/ HandlerQuits \/ HandlerStops
ChainStep == BalanceBroadcast \/ BlockBroadcast

(* After a panic the process is gone.                                      *)
Program ==
  /\ ~panicked
  /\ \/ \E c \in Client : \/ ReadMessage(c) \/ GatewayStep(c) \/ RespondStep(c)
                          \/ SendStep(c) \/ RpcStep(c) \/ PassStep(c)
     \/ NotifyStep \/ HandlerStep \/ ChainStep \/ InterruptStops
     \/ \E p \in Poster : PostQuits(p)
Environment ==
  /\ ~panicked
  /\ \/ \E c \in Client : Connect(c) \/ Disconnect(c)
     \/ \E p \in Poster, kind \in PostKinds : PostRequest(p, kind)
     \/ \E kind \in {"connected", "disconnected"} : BlockNtfn(kind)
     \/ Interrupt
Next == Program \/ Environment

(* Every goroutine that can go on does; what clients, the chain server and *)
(* the user do is not forced.  Every behaviour is finite (scripts and      *)
(* events are), so that fairness of the program as a whole leaves none of  *)
(* its goroutines behind.                                                  *)
Fairness == WF_vars(Program)
Spec == Init /\ [][Next]_vars /\ Fairness
-----------------------------------------------------------------------------
(* WebsocketClientRead ends when the connection does, but one that offers  *)
(* a request to a gateway that has ended waits for ever.                   *)
Ended(c) == /\ \A g \in {"rpc", "gate", "resp", "send"} : at[c][g] = Done
            /\ at[c].read = Done \/ at[c].read[1] = "offer"

TypeOK ==
  /\ script \in [Client -> Scripts]
  /\ \A c \in Client :
       /\ sent[c] \in 0..Len(script[c]) /\ passing[c] \subseteq 1..sent[c]
       /\ conn[c] \in {"none", "open", "gone"} /\ authed[c] \in BOOLEAN
       /\ Len(unauthed[c]) <= MaxBuffered
       /\ at[c].rpc[1] \in {"none", "add", "notify", "wait", "done"}
       /\ at[c].read[1] \in {"none", "read", "offer", "done"}
       /\ at[c].gate[1] \in {"none", "select", "queue", "error", "done"}
       /\ at[c].resp[1] \in {"none", "range", "offer", "wait", "reply", "done"}
  /\ targets \cup wsClients \subseteq Client
  /\ bsem \in {"free", "request", "chain"}
  /\ requestH \in {"select", "grab", "run", "cast", "reply", "stuck", "check", "mgr",
                   "close", "done"}
  /\ events \in 0..MaxEvents

(* The requests of a client that the gateway queues.                       *)
Queued(c) == {i \in 1..sent[c] : Kind(c, i) \notin {"junk", "pass"}}

(* The replies that reach a client answer its requests for the wallet one  *)
(* after the other in the order in which they were sent, none skipped and  *)
(* none twice, whatever is passed through or broadcast meanwhile: the      *)
(* queue unauthedRequests, Respond and RequestHandler keep the order.      *)
RepliesInOrder ==
  \A c \in Client : \A n \in DOMAIN replied[c] :
    /\ replied[c][n] \in Queued(c)
    /\ \A i \in Queued(c) :
         i < replied[c][n] <=> \E m \in 1..n - 1 : replied[c][m] = i

(* A handler never runs for a websocket client that has not authenticated  *)
(* before that request, by header or with a right authenticate request     *)
(* after which there was no second one (invalidAuth, Respond).             *)
AuthFirst ==
  requestH \in {"grab", "run", "cast", "check", "mgr", "close"} =>
    \A c \in Client : job.from = c =>
      LET auths == {i \in 1..job.id : Kind(c, i) \in {"auth", "badauth"}} IN
        IF script[c] \in Preauthed THEN auths = {}
                           ELSE Cardinality(auths) = 1 /\ \A i \in auths : Kind(c, i) = "auth"

(* A client is sent broadcasts exactly while its Send goroutine runs: it   *)
(* is in wsClients from before its goroutines start until they end.        *)
Registered ==
  /\ TypeOK
  /\ quit \/ \A c \in Client : at[c].send \notin {None, At("remove")} =>
            (c \in wsClients <=> at[c].send # Done)

(* Gateway waits for ever when Respond has ended and unauthedRequests is   *)
(* full; then Read waits too.                                              *)
GatewayStuck(c) == /\ at[c].gate[1] = "queue" /\ at[c].resp = Done
                   /\ Len(unauthed[c]) = MaxBuffered

(* A request that Respond or a POST client offers to RequestHandler is     *)
(* answered, or given up because the server stops, whoever holds the       *)
(* semaphore and whatever is broadcast to slow clients meanwhile.          *)
Answered ==
  /\ \A c \in Client : (at[c].resp[1] \in {"offer", "wait"})
                         ~> (at[c].resp[1] \notin {"offer", "wait"} \/ panicked)
  /\ \A p \in Poster : (post[p] # "none") ~> (post[p] \in {"replied", "dropped"} \/ panicked)

(* The goroutines of a client that went away end and it is removed from    *)
(* wsClients, unless its gateway was stuck before or the server stops.     *)
ClientEnds ==
  \A c \in Client : (conn[c] = "gone" /\ at[c].send # None)
    ~> ((Ended(c) /\ c \notin wsClients) \/ GatewayStuck(c) \/ quit \/ panicked)

(* The goroutines of the server's wait group, and its handler at a stopped *)
(* account manager.                                                        *)
Waited(c) == at[c].gate \in {None, Done} /\ at[c].resp \in {None, Done}
             /\ at[c].send \in {None, Done}
ManagerAsked == requestH = "stuck" \/ (requestH = "grab" /\ chain \in {"stuck", "cast"})

(* After Stop closed quit every goroutine that WaitForShutdown waits for   *)
(* ends, but for a handler that asks the stopped account manager or waits  *)
(* for the semaphore of a notification handler that does, and but for a    *)
(* stuck gateway.                                                          *)
ServerStops ==
  quit ~> (\/ panicked
           \/ /\ \A c \in Client : Waited(c) \/ GatewayStuck(c)
              /\ notifyH = "done"
              /\ requestH = "done" \/ ManagerAsked)
=============================================================================
