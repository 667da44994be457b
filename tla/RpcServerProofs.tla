-------------------------- MODULE RpcServerProofs --------------------------
(***************************************************************************)
(* Proofs about the RPC server, for any number of clients with any         *)
(* scripts, any buffer size and any number of block notifications, POST    *)
(* requests and interrupts.                                                *)
(*                                                                         *)
(* The argument follows the requests of a client on their way: offered by  *)
(* Read, held by Gateway, in unauthedRequests, held by Respond, held by    *)
(* Send, replied.  Every step moves a request one place on or drops it,    *)
(* and none overtakes another.                                             *)
(***************************************************************************)
EXTENDS RpcServer, FiniteSetTheorems, SequenceTheorems, TLAPS

Name == {"none", "add", "notify", "wait", "done", "read", "offer", "select", "queue",
         "error", "range", "reply", "remove", "status", "passed", "broadcast"}
Place == Name \X Nat
Goroutines == [rpc : Place, read : Place, gate : Place, resp : Place, send : Place]

Types ==
  /\ script \in [Client -> Scripts]
  /\ sent \in [Client -> Nat]
  /\ conn \in [Client -> {"none", "open", "gone"}]
  /\ authed \in [Client -> BOOLEAN]
  /\ at \in [Client -> Goroutines]
  /\ passing \in [Client -> SUBSET Nat]
  /\ unauthed \in [Client -> Seq(Nat)]
  /\ replied \in [Client -> Seq(Nat)]
  /\ post \in [Poster -> PostKinds \cup {"none", "wait", "replied", "dropped"}]
  /\ targets \subseteq Client
  /\ wsClients \subseteq Client

(* The request at each place, as a set.                                    *)
Offered(c) == IF at[c].read[1] = "offer" THEN {at[c].read[2]} ELSE {}
Gated(c) == IF at[c].gate[1] = "queue" THEN {at[c].gate[2]} ELSE {}
Buffered(c) == {unauthed[c][n] : n \in 1 .. Len(unauthed[c])}
Responding(c) == IF at[c].resp[1] \in {"offer", "wait", "reply"}
                   THEN {at[c].resp[2]} ELSE {}
Sending(c) == IF at[c].send[1] = "reply" THEN {at[c].send[2]} ELSE {}
Replied(c) == {replied[c][n] : n \in 1 .. Len(replied[c])}

(* What Respond has still to see, and what it has seen.                    *)
Pending(c) == Buffered(c) \cup Gated(c) \cup Offered(c)
Handled(c) == Queued(c) \ Pending(c)

Below(A, B) == \A x \in A, y \in B : x < y
Increasing(s) == \A m, n \in 1 .. Len(s) : m < n => s[m] < s[n]

(* No request overtakes another.                                           *)
InLine(c) ==
  /\ Offered(c) \subseteq {sent[c]}
  /\ Offered(c) \subseteq 1 .. sent[c]
  /\ Gated(c) \subseteq Queued(c)
  /\ Buffered(c) \subseteq Queued(c)
  /\ Below(Gated(c), Offered(c))
  /\ Below(Buffered(c), Gated(c) \cup Offered(c))
  /\ Below(Handled(c), Pending(c))
  /\ Increasing(unauthed[c])

(* The replies: none is skipped as long as Respond and Send run.           *)
Answers(c) ==
  /\ Responding(c) \subseteq Handled(c)
  /\ Sending(c) \subseteq Handled(c)
  /\ Replied(c) \subseteq Handled(c)
  /\ Below(Sending(c), Responding(c))
  /\ Below(Replied(c), Sending(c) \cup Responding(c))
  /\ Increasing(replied[c])
  /\ at[c].resp[1] # "done" /\ ~Gone(c) =>
       Handled(c) \subseteq Replied(c) \cup Sending(c) \cup Responding(c)
  /\ \A i \in Sending(c) \cup Replied(c) : \A j \in Queued(c) :
       j < i => j \in Replied(c)

(* authed says which authenticate requests Respond has seen.               *)
Auths(c) == {i \in Handled(c) : Kind(c, i) \in {"auth", "badauth"}}
OneAuth(c, A) == IF script[c] \in Preauthed THEN A = {}
                 ELSE \E i \in A : A = {i} /\ Kind(c, i) = "auth"
AuthsUpTo(c, n) == {i \in 1 .. n : Kind(c, i) \in {"auth", "badauth"}}
AuthKnown(c) ==
  /\ at[c].resp[1] # "done" =>
       IF authed[c] THEN OneAuth(c, Auths(c))
                    ELSE script[c] \notin Preauthed /\ Auths(c) = {}
  /\ at[c].resp[1] \in {"offer", "wait"} => OneAuth(c, AuthsUpTo(c, at[c].resp[2]))

(* The request that RequestHandler has.                                    *)
JobAuthed ==
  requestH \in {"grab", "run", "cast", "check", "mgr", "close"} =>
    \A c \in Client : job.from = c => OneAuth(c, AuthsUpTo(c, job.id))

(* The places, and a client that is registered.                            *)
PlacesOK(c) ==
  /\ passing[c] \subseteq 1 .. sent[c]
  /\ sent[c] <= Len(script[c])
  /\ Len(unauthed[c]) <= MaxBuffered
  /\ at[c].rpc[1] \in {"none", "add", "notify", "wait", "done"}
  /\ at[c].read[1] \in {"none", "read", "offer", "done"}
  /\ at[c].gate[1] \in {"none", "select", "queue", "error", "done"}
  /\ at[c].resp[1] \in {"none", "range", "offer", "wait", "reply", "done"}
  /\ at[c].resp[1] = "done" => at[c].resp = Done
  /\ conn[c] = "none" => at[c].rpc[1] = "none"
  /\ at[c].rpc[1] \in {"none", "add"} =>
       at[c].read = None /\ at[c].gate = None /\ at[c].resp = None /\ at[c].send = None
HandlersOK ==
  /\ bsem \in {"free", "request", "chain"}
  /\ requestH \in {"select", "grab", "run", "cast", "reply", "stuck", "check", "mgr",
                   "close", "done"}
  /\ events \in 0..MaxEvents
Member(c) == quit \/ (at[c].send \notin {None, At("remove")} =>
                        (c \in wsClients <=> at[c].send # Done))

ClientOK(c) == InLine(c) /\ Answers(c) /\ AuthKnown(c) /\ PlacesOK(c) /\ Member(c)
IInv == Types /\ HandlersOK /\ JobAuthed /\ \A c \in Client : ClientOK(c)
-----------------------------------------------------------------------------
LEMMA InitIInv == Init => IInv
<1>. SUFFICES ASSUME Init PROVE IInv
  OBVIOUS
<1>. DEFINE places == [rpc |-> None, read |-> None, gate |-> None,
                       resp |-> None, send |-> None]
<1>1. places \in Goroutines /\ None = <<"none", 0>>
  <2>1. None = <<"none", 0>> /\ None \in Place
    BY DEF None, At, Place, Name
  <2>. QED
    BY <2>1 DEF Goroutines
<1>. HIDE DEF places
<1>2. Types
  <2>1. at = [c \in Client |-> places]
    BY DEF Init, places
  <2>. QED
    BY <1>1, <2>1 DEF Init, Types
<1>3. HandlersOK /\ JobAuthed
  BY ServerAssumption DEF Init, HandlersOK, JobAuthed
<1>4. ASSUME NEW c \in Client PROVE ClientOK(c)
  <2>1. /\ at[c] = places /\ sent[c] = 0 /\ unauthed[c] = <<>> /\ replied[c] = <<>>
        /\ passing[c] = {} /\ authed[c] = (script[c] \in Preauthed) /\ conn[c] = "none"
        /\ script[c] \in Seq(Kinds)
    BY ServerAssumption DEF Init, places
  <2>. USE DEF places
  <2>2. /\ Offered(c) = {} /\ Gated(c) = {} /\ Buffered(c) = {} /\ Responding(c) = {}
        /\ Sending(c) = {} /\ Replied(c) = {} /\ Queued(c) = {}
    BY <1>1, <2>1 DEF Offered, Gated, Buffered, Responding, Sending, Replied, Queued
  <2>3. InLine(c) /\ Answers(c)
    BY <2>1, <2>2 DEF InLine, Answers, Pending, Handled, Below, Increasing
  <2>4. AuthKnown(c)
    <3>1. Auths(c) = {} /\ at[c].resp[1] = "none"
      BY <1>1, <2>1, <2>2 DEF Auths, Handled
    <3>. QED
      BY <2>1, <3>1 DEF AuthKnown, OneAuth
  <2>5. PlacesOK(c) /\ Member(c)
    BY <1>1, <2>1, ServerAssumption DEF PlacesOK, Member, Done, At
  <2>. QED
    BY <2>3, <2>4, <2>5 DEF ClientOK
<1>. QED
  BY <1>2, <1>3, <1>4 DEF IInv
-----------------------------------------------------------------------------
(* A step does nothing for client e.                                       *)
SameFor(e) ==
  /\ script'[e] = script[e] /\ sent'[e] = sent[e] /\ conn'[e] = conn[e]
  /\ authed'[e] = authed[e] /\ passing'[e] = passing[e]
  /\ unauthed'[e] = unauthed[e] /\ replied'[e] = replied[e] /\ at'[e] = at[e]
  /\ (e \in wsClients' <=> e \in wsClients) \/ quit'
  /\ quit => quit'

LEMMA Bystander ==
  ASSUME NEW e \in Client, ClientOK(e), SameFor(e)
  PROVE  ClientOK(e)'
<1>. USE DEF SameFor
<1>1. /\ Offered(e)' = Offered(e) /\ Gated(e)' = Gated(e) /\ Buffered(e)' = Buffered(e)
      /\ Responding(e)' = Responding(e) /\ Sending(e)' = Sending(e)
      /\ Replied(e)' = Replied(e)
  BY DEF Offered, Gated, Buffered, Responding, Sending, Replied
<1>2. Queued(e)' = Queued(e)
  BY DEF Queued, Kind
<1>3. Pending(e)' = Pending(e) /\ Handled(e)' = Handled(e)
  BY <1>1, <1>2 DEF Pending, Handled
<1>4. InLine(e)' /\ Answers(e)'
  BY <1>1, <1>2, <1>3 DEF ClientOK, InLine, Answers, Below, Increasing, Gone
<1>5. AuthKnown(e)'
  <2>1. Auths(e)' = Auths(e)
    BY <1>3 DEF Auths, Kind
  <2>2. OneAuth(e, Auths(e)) => OneAuth(e, Auths(e))'
    BY <2>1 DEF OneAuth, Kind
  <2>3. AuthsUpTo(e, at[e].resp[2])' = AuthsUpTo(e, at[e].resp[2])
    BY DEF AuthsUpTo, Kind
  <2>4. OneAuth(e, AuthsUpTo(e, at[e].resp[2])) => OneAuth(e, AuthsUpTo(e, at[e].resp[2]))'
    BY <2>3 DEF OneAuth, Kind
  <2>. QED
    BY <2>1, <2>2, <2>4 DEF ClientOK, AuthKnown
<1>6. PlacesOK(e)' /\ Member(e)'
  BY DEF ClientOK, PlacesOK, Member
<1>. QED
  BY <1>4, <1>5, <1>6 DEF ClientOK

(* A step of client c alone.                                               *)
Alone(c) == \A e \in Client \ {c} : SameFor(e)

LEMMA Finish ==
  ASSUME IInv, Types', HandlersOK', JobAuthed', NEW c \in Client, Alone(c),
         InLine(c)', Answers(c)', AuthKnown(c)', PlacesOK(c)', Member(c)'
  PROVE  IInv'
BY Bystander DEF Alone, IInv, ClientOK

(* Steps of the server's own goroutines.                                   *)
LEMMA ServerStep ==
  ASSUME IInv, Types', HandlersOK', JobAuthed', \A e \in Client : SameFor(e)
  PROVE  IInv'
BY Bystander DEF IInv

LEMMA JobFrame ==
  ASSUME IInv, UNCHANGED <<script, job, requestH>>
  PROVE  JobAuthed'
BY DEF IInv, JobAuthed, OneAuth, AuthsUpTo, Kind

(* A step after which the requests are where they were, but that Respond   *)
(* or Send may have ended.                                                 *)
LEMMA Steady ==
  ASSUME NEW c \in Client, InLine(c), Answers(c), AuthKnown(c),
         script'[c] = script[c], sent'[c] = sent[c], authed'[c] = authed[c],
         unauthed'[c] = unauthed[c], replied'[c] = replied[c],
         Offered(c)' = Offered(c), Gated(c)' = Gated(c),
         Responding(c)' \subseteq Responding(c), Sending(c)' \subseteq Sending(c),
         at'[c].resp[1] # "done" =>
           /\ at[c].resp[1] # "done"
           /\ \/ Gone(c)'
              \/ ~Gone(c) /\ Responding(c)' = Responding(c) /\ Sending(c)' = Sending(c),
         at'[c].resp[1] \in {"offer", "wait"} =>
           at[c].resp[1] \in {"offer", "wait"} /\ at'[c].resp[2] = at[c].resp[2]
  PROVE  InLine(c)' /\ Answers(c)' /\ AuthKnown(c)'
<1>1. Buffered(c)' = Buffered(c) /\ Replied(c)' = Replied(c)
  BY DEF Buffered, Replied
<1>2. Queued(c)' = Queued(c)
  BY DEF Queued, Kind
<1>3. Pending(c)' = Pending(c) /\ Handled(c)' = Handled(c)
  BY <1>1, <1>2 DEF Pending, Handled
<1>4. InLine(c)'
  BY <1>1, <1>2, <1>3 DEF InLine, Below, Increasing
<1>5. Answers(c)'
  BY <1>1, <1>2, <1>3 DEF Answers, Below, Increasing
<1>6. AuthKnown(c)'
  <2>1. Auths(c)' = Auths(c)
    BY <1>3 DEF Auths, Kind
  <2>2. OneAuth(c, Auths(c)) => OneAuth(c, Auths(c))'
    BY <2>1 DEF OneAuth, Kind
  <2>3. CASE at'[c].resp[1] \in {"offer", "wait"}
    <3>1. AuthsUpTo(c, at[c].resp[2])' = AuthsUpTo(c, at[c].resp[2])
      BY <2>3 DEF AuthsUpTo, Kind
    <3>2. OneAuth(c, AuthsUpTo(c, at[c].resp[2]))
      BY <2>3 DEF AuthKnown
    <3>3. OneAuth(c, AuthsUpTo(c, at[c].resp[2]))'
      BY <3>1, <3>2 DEF OneAuth, Kind
    <3>. QED
      BY <2>1, <2>2, <2>3, <3>3 DEF AuthKnown
  <2>4. CASE at'[c].resp[1] \notin {"offer", "wait"}
    BY <2>1, <2>2, <2>4 DEF AuthKnown
  <2>. QED
    BY <2>3, <2>4
<1>. QED
  BY <1>4, <1>5, <1>6

(* WebsocketClientRPC's own steps, and the remote end.                     *)
LEMMA ConnectionIInv ==
  ASSUME IInv, NEW c \in Client,
         Connect(c) \/ AddClientQuit(c) \/ RpcReturns(c) \/ Disconnect(c)
  PROVE  IInv'
<1>1. /\ at' \in [Client -> Goroutines]
      /\ \A e \in Client \ {c} : at'[e] = at[e]
      /\ at'[c].read = at[c].read /\ at'[c].gate = at[c].gate
      /\ at'[c].resp = at[c].resp /\ at'[c].send = at[c].send
      /\ \/ at'[c].rpc = at[c].rpc
         \/ at'[c].rpc = At("add") /\ at[c].rpc[1] = "none"
         \/ at'[c].rpc = Done
      /\ conn' \in [Client -> {"none", "open", "gone"}]
      /\ conn'[c] # "none" \/ (conn'[c] = conn[c] /\ (at'[c].rpc[1] = "none" <=> at[c].rpc[1] = "none"))
      /\ \A e \in Client \ {c} : conn'[e] = conn[e]
      /\ UNCHANGED <<script, sent, authed, passing, unauthed, replied, serverVars>>
  <2>1. At("add") \in Place /\ Done \in Place
    BY DEF At, Done, Place, Name
  <2>2. CASE Connect(c)
    BY <2>1, <2>2 DEF Connect, IInv, Types, Goroutines, ClientOK, PlacesOK
  <2>3. CASE AddClientQuit(c) \/ RpcReturns(c)
    <3>1. /\ at[c].rpc \in {At("add"), At("wait")}
          /\ at' = [at EXCEPT ![c].rpc = Done]
          /\ UNCHANGED <<script, sent, conn, authed, passing, unauthed, replied, serverVars>>
      BY <2>3 DEF AddClientQuit, RpcReturns
    <3>2. at[c].rpc[1] # "none" /\ Done[1] # "none"
      BY <3>1 DEF At, Done
    <3>. QED
      BY <2>1, <3>1, <3>2 DEF IInv, Types, Goroutines
  <2>4. CASE Disconnect(c)
    BY <2>4 DEF Disconnect, IInv, Types
  <2>. QED
    BY <2>2, <2>3, <2>4
<1>2. Types' /\ HandlersOK' /\ JobAuthed'
  BY <1>1, JobFrame DEF IInv, Types, HandlersOK, serverVars
<1>3. Alone(c)
  BY <1>1 DEF Alone, SameFor, serverVars
<1>4. InLine(c)' /\ Answers(c)' /\ AuthKnown(c)'
  BY <1>1, Steady DEF IInv, ClientOK, Offered, Gated, Responding, Sending, Gone
<1>5. PlacesOK(c)' /\ Member(c)'
  BY <1>1 DEF IInv, ClientOK, PlacesOK, Member, serverVars, At, Done
<1>. QED
  BY <1>2, <1>3, <1>4, <1>5, Finish

LEMMA AddClientIInv == ASSUME IInv, NEW c \in Client, AddClient(c) PROVE IInv'
<1>. DEFINE started == [rpc |-> At("notify"), read |-> At("read"), gate |-> At("select"),
                        resp |-> At("range"), send |-> At("range")]
<1>1. started \in Goroutines
  <2>1. {At("notify"), At("read"), At("select"), At("range")} \subseteq Place
    BY DEF At, Place, Name
  <2>. QED
    BY <2>1 DEF Goroutines
<1>2. /\ at[c].rpc[1] = "add"
      /\ at' = [at EXCEPT ![c] = started]
      /\ wsClients' = wsClients \cup {c}
      /\ UNCHANGED <<script, sent, conn, authed, passing, unauthed, replied, post, requestH,
                     job, targets, events, bsem, quit>>
  BY DEF AddClient, At
<1>3. /\ at'[c] = started
      /\ \A e \in Client \ {c} : at'[e] = at[e]
      /\ at' \in [Client -> Goroutines]
  BY <1>1, <1>2 DEF IInv, Types
<1>4. Types' /\ HandlersOK' /\ JobAuthed'
  BY <1>2, <1>3, JobFrame DEF IInv, Types, HandlersOK
<1>5. Alone(c)
  BY <1>2, <1>3 DEF Alone, SameFor
<1>6. /\ at[c].read = <<"none", 0>> /\ at[c].gate = <<"none", 0>>
      /\ at[c].resp = <<"none", 0>> /\ at[c].send = <<"none", 0>>
  BY <1>2 DEF IInv, ClientOK, PlacesOK, None, At
<1>7. /\ at'[c].rpc = <<"notify", 0>> /\ at'[c].read = <<"read", 0>>
      /\ at'[c].gate = <<"select", 0>> /\ at'[c].resp = <<"range", 0>>
      /\ at'[c].send = <<"range", 0>>
  BY <1>3 DEF At
<1>8. InLine(c)' /\ Answers(c)' /\ AuthKnown(c)'
  <2>1. /\ Offered(c) = {} /\ Gated(c) = {} /\ Responding(c) = {} /\ Sending(c) = {}
        /\ Offered(c)' = {} /\ Gated(c)' = {} /\ Responding(c)' = {} /\ Sending(c)' = {}
    BY <1>6, <1>7 DEF Offered, Gated, Responding, Sending
  <2>2. ~Gone(c)
    BY <1>6 DEF Gone, At, Done
  <2>3. at[c].resp[1] = "none" /\ at'[c].resp[1] = "range"
    BY <1>6, <1>7
  <2>4. /\ script'[c] = script[c] /\ sent'[c] = sent[c] /\ authed'[c] = authed[c]
        /\ unauthed'[c] = unauthed[c] /\ replied'[c] = replied[c]
        /\ InLine(c) /\ Answers(c) /\ AuthKnown(c)
    BY <1>2 DEF IInv, ClientOK
  <2>. QED
    BY <2>1, <2>2, <2>3, <2>4, Steady
<1>9. PlacesOK(c)' /\ Member(c)'
  BY <1>2, <1>7 DEF IInv, ClientOK, PlacesOK, Member, At, None, Done
<1>. QED
  BY <1>4, <1>5, <1>8, <1>9, Finish

(* What websocketClient.send does to the client's goroutines.              *)
LEMMA SendMoves ==
  ASSUME Types, NEW c \in Client, NEW msg \in Place, NEW ok \in Goroutines,
         NEW gone \in Goroutines, Send(c, msg, ok, gone)
  PROVE  /\ at' \in [Client -> Goroutines]
         /\ \A e \in Client \ {c} : at'[e] = at[e]
         /\ \/ /\ at[c].send = At("range")
               /\ at'[c].rpc = ok.rpc /\ at'[c].read = ok.read /\ at'[c].gate = ok.gate
               /\ at'[c].resp = ok.resp /\ at'[c].send = msg
            \/ Gone(c) /\ at'[c] = gone
            \/ at[c].resp = Done /\ at'[c] = at[c]
<1>1. CASE at[c].send = At("range") /\ at' = [at EXCEPT ![c] = [ok EXCEPT !.send = msg]]
  BY <1>1 DEF Types, Goroutines
<1>2. CASE Gone(c) /\ at' = [at EXCEPT ![c] = gone]
  BY <1>2 DEF Types, Goroutines
<1>3. CASE at[c].resp = Done /\ UNCHANGED at
  BY <1>3 DEF Types
<1>. QED
  BY <1>1, <1>2, <1>3 DEF Send

(* A message that is no reply: a goroutine other than Respond sends it.    *)
LEMMA NoReply ==
  ASSUME IInv, NEW c \in Client, NEW msg \in Place, NEW ok \in Goroutines,
         NEW gone \in Goroutines, Send(c, msg, ok, gone),
         msg[1] \notin {"reply", "done", "remove", "none"},
         \A g \in {ok, gone} :
           /\ g.read = at[c].read /\ g.resp = at[c].resp /\ g.send = at[c].send
           /\ g.gate = at[c].gate \/ (at[c].gate[1] # "queue" /\ at[c].rpc[1] \notin {"none", "add"}
                                         /\ g.gate \in {At("select"), Done})
           /\ g.rpc = at[c].rpc \/ (at[c].rpc[1] = "notify" /\ g.rpc = At("wait")),
         UNCHANGED <<script, sent, conn, authed, unauthed, replied, post, requestH, job,
                     bsem, events, quit>>,
         passing' \in [Client -> SUBSET Nat], passing'[c] \subseteq passing[c],
         \A e \in Client \ {c} : passing'[e] = passing[e],
         targets' \subseteq targets, wsClients' \subseteq wsClients,
         wsClients \ wsClients' \subseteq (IF Gone(c) THEN {c} ELSE {})
  PROVE  IInv'
<1>1. /\ at' \in [Client -> Goroutines]
      /\ \A e \in Client \ {c} : at'[e] = at[e]
      /\ at'[c].read = at[c].read /\ at'[c].resp = at[c].resp
      /\ at'[c].gate = at[c].gate \/ (at[c].gate[1] # "queue" /\ at[c].rpc[1] \notin {"none", "add"}
                                         /\ at'[c].gate \in {At("select"), Done})
      /\ at'[c].rpc = at[c].rpc \/ (at[c].rpc[1] = "notify" /\ at'[c].rpc = At("wait"))
      /\ at'[c].send = at[c].send \/ (at[c].send = At("range") /\ at'[c].send = msg)
  BY SendMoves DEF IInv
<1>2. Types' /\ HandlersOK' /\ JobAuthed'
  BY <1>1, JobFrame DEF IInv, Types, HandlersOK
<1>3. Alone(c)
  BY <1>1 DEF Alone, SameFor
<1>4. /\ Offered(c)' = Offered(c) /\ Responding(c)' = Responding(c)
      /\ Gated(c)' = Gated(c) /\ Sending(c)' = Sending(c)
  <2>1. Offered(c)' = Offered(c) /\ Responding(c)' = Responding(c)
    BY <1>1 DEF Offered, Responding
  <2>2. Gated(c)' = Gated(c)
    <3>1. CASE at'[c].gate = at[c].gate
      BY <3>1 DEF Gated
    <3>2. CASE at'[c].gate # at[c].gate
      <4>1. at[c].gate[1] # "queue" /\ at'[c].gate[1] # "queue"
        BY <1>1, <3>2 DEF At, Done
      <4>. QED
        BY <4>1 DEF Gated
    <3>. QED
      BY <3>1, <3>2
  <2>3. Sending(c)' = Sending(c)
    <3>1. CASE at'[c].send = at[c].send
      BY <3>1 DEF Sending
    <3>2. CASE at'[c].send # at[c].send
      <4>1. at[c].send[1] # "reply" /\ at'[c].send[1] # "reply"
        BY <1>1, <3>2 DEF At
      <4>. QED
        BY <4>1 DEF Sending
    <3>. QED
      BY <3>1, <3>2
  <2>. QED
    BY <2>1, <2>2, <2>3
<1>5. Gone(c)' <=> Gone(c)
  BY <1>1 DEF Gone, At, Done
<1>6. InLine(c)' /\ Answers(c)' /\ AuthKnown(c)'
  BY <1>1, <1>4, <1>5, Steady DEF IInv, ClientOK
<1>7. PlacesOK(c)'
  BY <1>1 DEF IInv, ClientOK, PlacesOK, At, Done, None
<1>8. Member(c)'
  BY <1>1 DEF IInv, ClientOK, Member, At, Done, None, Gone
<1>. QED
  BY <1>2, <1>3, <1>6, <1>7, <1>8, Finish

(* The callers of NoReply.                                                 *)
LEMMA NoReplyIInv ==
  ASSUME IInv, NEW c \in Client,
         \/ NotifyConnectionStatus(c) \/ GatewaySends(c)
         \/ (\E i \in passing[c] : Passthrough(c, i)) \/ NotifyClient(c)
  PROVE  IInv'
<1>1. at[c] \in Goroutines /\ passing[c] \subseteq Nat /\ passing \in [Client -> SUBSET Nat]
  BY DEF IInv, Types
<1>2. CASE NotifyConnectionStatus(c)
  <2>. DEFINE waits == Goes(c, "rpc", At("wait"))
  <2>1. /\ waits \in Goroutines /\ waits.rpc = At("wait") /\ waits.read = at[c].read
        /\ waits.gate = at[c].gate /\ waits.resp = at[c].resp /\ waits.send = at[c].send
    <3>1. At("wait") \in Place
      BY DEF At, Place, Name
    <3>. QED
      BY <1>1, <3>1 DEF Goes, Goroutines
  <2>2. At("status") \in Place /\ At("status")[1] = "status"
    BY DEF At, Place, Name
  <2>3. Send(c, At("status"), waits, waits) /\ at[c].rpc[1] = "notify"
    BY <1>2 DEF NotifyConnectionStatus, At
  <2>4. UNCHANGED <<script, sent, conn, authed, passing, unauthed, replied, post, requestH,
                    job, bsem, events, quit, targets, wsClients>>
    BY <1>2 DEF NotifyConnectionStatus, serverVars
  <2>. HIDE DEF waits
  <2>. QED
    BY <1>1, <2>1, <2>2, <2>3, <2>4, NoReply
<1>3. CASE GatewaySends(c)
  <2>. DEFINE ok == Goes(c, "gate", At("select"))
              gone == Goes(c, "gate", Done)
  <2>1. /\ ok \in Goroutines /\ ok.gate = At("select") /\ ok.read = at[c].read
        /\ ok.rpc = at[c].rpc /\ ok.resp = at[c].resp /\ ok.send = at[c].send
    <3>1. At("select") \in Place
      BY DEF At, Place, Name
    <3>. QED
      BY <1>1, <3>1 DEF Goes, Goroutines
  <2>2. /\ gone \in Goroutines /\ gone.gate = Done /\ gone.read = at[c].read
        /\ gone.rpc = at[c].rpc /\ gone.resp = at[c].resp /\ gone.send = at[c].send
    <3>1. Done \in Place
      BY DEF At, Done, Place, Name
    <3>. QED
      BY <1>1, <3>1 DEF Goes, Goroutines
  <2>3. at[c].gate \in Place /\ at[c].gate[1] = "error" /\ at[c].rpc[1] \notin {"none", "add"}
    BY <1>1, <1>3 DEF GatewaySends, Goroutines, IInv, ClientOK, PlacesOK, None, At
  <2>4. Send(c, at[c].gate, ok, gone)
    BY <1>3 DEF GatewaySends
  <2>5. UNCHANGED <<script, sent, conn, authed, passing, unauthed, replied, post, requestH,
                    job, bsem, events, quit, targets, wsClients>>
    BY <1>3 DEF GatewaySends, serverVars
  <2>. HIDE DEF ok, gone
  <2>. QED
    BY <1>1, <2>1, <2>2, <2>3, <2>4, <2>5, NoReply
<1>4. ASSUME NEW i \in passing[c], Passthrough(c, i) PROVE IInv'
  <2>1. <<"passed", i>> \in Place /\ <<"passed", i>>[1] = "passed"
    BY <1>1 DEF Place, Name
  <2>2. Send(c, <<"passed", i>>, at[c], at[c])
    BY <1>4 DEF Passthrough
  <2>3. /\ passing' \in [Client -> SUBSET Nat] /\ passing'[c] \subseteq passing[c]
        /\ \A e \in Client \ {c} : passing'[e] = passing[e]
    BY <1>1, <1>4 DEF Passthrough
  <2>4. UNCHANGED <<script, sent, conn, authed, unauthed, replied, post, requestH,
                    job, bsem, events, quit, targets, wsClients>>
    BY <1>4 DEF Passthrough, serverVars
  <2>. QED
    BY <1>1, <2>1, <2>2, <2>3, <2>4, NoReply
<1>5. CASE NotifyClient(c)
  <2>1. At("broadcast") \in Place /\ At("broadcast")[1] = "broadcast"
    BY DEF At, Place, Name
  <2>2. Send(c, At("broadcast"), at[c], at[c])
    BY <1>5 DEF NotifyClient
  <2>3. /\ UNCHANGED <<script, sent, conn, authed, passing, unauthed, replied, post, requestH,
                       job, bsem, events, quit>>
        /\ targets' \subseteq targets
        /\ wsClients' = IF Gone(c) THEN wsClients \ {c} ELSE wsClients
    BY <1>5 DEF NotifyClient
  <2>4. /\ wsClients' \subseteq wsClients
        /\ wsClients \ wsClients' \subseteq (IF Gone(c) THEN {c} ELSE {})
    BY <2>3
  <2>. QED
    BY <1>1, <2>1, <2>2, <2>3, <2>4, NoReply
<1>. QED
  BY <1>2, <1>3, <1>4, <1>5

(* A goroutine that holds no request that counts ends, or Respond or Send  *)
(* end with theirs.                                                        *)
LEMMA EndIInv ==
  ASSUME IInv, NEW c \in Client,
         \/ GatewayQuits(c) \/ RespondQuits(c) \/ SendClosed(c) \/ RemoveClient(c)
  PROVE  IInv'
<1>. USE DEF IInv
<1>0. {At("remove"), Done} \subseteq Place /\ at \in [Client -> Goroutines]
  BY DEF At, Done, Place, Name, Types
<1>1. UNCHANGED <<script, sent, conn, authed, passing, unauthed, replied, post, requestH, job,
                  bsem, events, quit, targets>>
  BY DEF GatewayQuits, RespondQuits, SendClosed, RemoveClient, serverVars
<1>2. \/ wsClients' = wsClients
      \/ at[c].send = At("remove") /\ wsClients' = wsClients \ {c}
  BY DEF GatewayQuits, RespondQuits, SendClosed, RemoveClient, serverVars
<1>3. \/ at' = [at EXCEPT ![c].gate = Done] /\ at[c].gate = At("select")
      \/ at' = [at EXCEPT ![c].resp = Done] /\ at[c].resp[1] \in {"range", "offer", "wait"}
      \/ at' = [at EXCEPT ![c].send = At("remove")] /\ at[c].send = At("range")
      \/ at' = [at EXCEPT ![c].send = Done] /\ at[c].send = At("remove")
           /\ (c \notin wsClients' \/ quit)
  BY DEF GatewayQuits, RespondQuits, SendClosed, RemoveClient, At
<1>4. /\ at' \in [Client -> Goroutines]
      /\ \A e \in Client \ {c} : at'[e] = at[e]
      /\ at'[c].rpc = at[c].rpc /\ at'[c].read = at[c].read
      /\ at'[c].gate = at[c].gate \/ (at[c].gate = At("select") /\ at'[c].gate = Done)
      /\ at'[c].resp = at[c].resp \/ (at[c].resp[1] \in {"range", "offer", "wait"} /\ at'[c].resp = Done)
      /\ \/ at'[c].send = at[c].send
         \/ at[c].send = At("range") /\ at'[c].send = At("remove")
         \/ at[c].send = At("remove") /\ at'[c].send = Done /\ (c \notin wsClients' \/ quit)
  BY <1>0, <1>3 DEF Goroutines
<1>5. Types' /\ HandlersOK' /\ JobAuthed'
  BY <1>1, <1>2, <1>4, JobFrame DEF Types, HandlersOK
<1>6. Alone(c)
  BY <1>1, <1>2, <1>4 DEF Alone, SameFor
<1>7. Offered(c)' = Offered(c) /\ Gated(c)' = Gated(c)
  <2>1. at[c].gate[1] = "queue" <=> at'[c].gate[1] = "queue"
    BY <1>4 DEF At, Done
  <2>. QED
    BY <1>4, <2>1 DEF Offered, Gated, At, Done
<1>8. /\ at'[c].resp = at[c].resp \/ at'[c].resp[1] = "done"
      /\ Responding(c)' = Responding(c) \/ Responding(c)' = {}
      /\ at'[c].resp[1] # "done" => Responding(c)' = Responding(c)
  BY <1>4 DEF Responding, At, Done
<1>9. /\ Sending(c)' = Sending(c)
      /\ Gone(c) => Gone(c)'
  <2>1. at[c].send[1] = "reply" => at'[c].send = at[c].send
    BY <1>4 DEF At
  <2>2. at'[c].send[1] = "reply" => at'[c].send = at[c].send
    BY <1>4 DEF At, Done
  <2>3. Gone(c) => Gone(c)'
    BY <1>4 DEF Gone, At, Done
  <2>. QED
    BY <2>1, <2>2, <2>3 DEF Sending
<1>10. InLine(c)' /\ Answers(c)' /\ AuthKnown(c)'
  BY <1>1, <1>7, <1>8, <1>9, Steady DEF ClientOK
<1>11. PlacesOK(c)'
  BY <1>1, <1>4 DEF ClientOK, PlacesOK, At, Done, None
<1>12. Member(c)'
  <2>1. CASE at'[c].send = At("remove") \/ quit
    BY <1>1, <2>1 DEF Member
  <2>2. CASE at'[c].send # At("remove") /\ at'[c].send = at[c].send
    <3>1. wsClients' = wsClients
      BY <1>2, <2>2
    <3>. QED
      BY <1>1, <2>2, <3>1 DEF Member, ClientOK
  <2>3. CASE at[c].send = At("remove") /\ at'[c].send = Done /\ ~quit
    <3>1. at'[c].send # at[c].send
      BY <2>3 DEF At, Done
    <3>2. at[c].send # At("range")
      BY <2>3 DEF At
    <3>3. c \notin wsClients'
      BY <1>4, <2>3, <3>1, <3>2
    <3>. QED
      BY <2>3, <3>3 DEF Member
  <2>. QED
    BY <1>4, <2>1, <2>2, <2>3
<1>. QED
  BY <1>5, <1>6, <1>10, <1>11, <1>12, Finish
-----------------------------------------------------------------------------
(* The steps of RequestHandler once it has a job, of NotificationHandler   *)
(* between two clients, of the chain client, of the interrupt handler and  *)
(* of the POST clients: none touches a websocket client.                   *)
Busy == {"grab", "run", "cast", "check", "mgr", "close"}
ServerMove ==
  \/ NotifyNext \/ HandlerGrabs \/ HandlerRuns \/ HandlerBroadcasts \/ HandlerQuits
  \/ HandlerStops \/ Interrupt \/ InterruptStops \/ BalanceBroadcast \/ BlockBroadcast
  \/ \E p \in Poster : PostQuits(p)
  \/ \E p \in Poster, kind \in PostKinds : PostRequest(p, kind)
  \/ \E kind \in {"connected", "disconnected"} : BlockNtfn(kind)

LEMMA ServerIInv == ASSUME IInv, ServerMove PROVE IInv'
<1>1. /\ UNCHANGED <<script, clientVars, job, wsClients>>
      /\ quit => quit'
      /\ requestH' \in Busy => requestH \in Busy
      /\ targets' \in {targets, wsClients}
  <2>1. CASE HandlerStops
    BY <2>1 DEF HandlerStops, Stop, Busy
  <2>2. CASE InterruptStops
    BY <2>2 DEF InterruptStops, Stop
  <2>. QED
    BY <2>1, <2>2
    DEF ServerMove, NotifyNext, HandlerGrabs, HandlerRuns, HandlerBroadcasts, HandlerQuits,
        Interrupt, BalanceBroadcast, BlockBroadcast, PostQuits, PostRequest, BlockNtfn,
        ReceiveBroadcast, Busy
<1>2. HandlersOK'
  <2>1. CASE HandlerStops
    BY <2>1 DEF IInv, HandlersOK, HandlerStops, Stop
  <2>2. CASE InterruptStops
    BY <2>2 DEF IInv, HandlersOK, InterruptStops, Stop
  <2>. QED
    BY <2>1, <2>2, ServerAssumption
    DEF IInv, HandlersOK, Event,
        ServerMove, NotifyNext, HandlerGrabs, HandlerRuns, HandlerBroadcasts, HandlerQuits,
        Interrupt, BalanceBroadcast, BlockBroadcast, PostQuits, PostRequest, BlockNtfn
<1>3. post' \in [Poster -> PostKinds \cup {"none", "wait", "replied", "dropped"}]
  BY DEF IInv, Types, ServerMove, NotifyNext, HandlerGrabs, HandlerRuns, HandlerBroadcasts,
         HandlerQuits, HandlerStops, Interrupt, InterruptStops, BalanceBroadcast,
         BlockBroadcast, PostQuits, PostRequest, BlockNtfn
<1>4. Types'
  BY <1>1, <1>3 DEF IInv, Types, clientVars
<1>5. JobAuthed'
  BY <1>1 DEF IInv, JobAuthed, OneAuth, AuthsUpTo, Kind, Busy
<1>6. \A e \in Client : SameFor(e)
  BY <1>1 DEF SameFor, clientVars
<1>. QED
  BY <1>2, <1>4, <1>5, <1>6, ServerStep

(* RequestHandler takes a request that Respond or a POST client offers.    *)
LEMMA HandlerTakesIInv == ASSUME IInv, HandlerTakes PROVE IInv'
<1>1. /\ UNCHANGED <<script, sent, conn, authed, passing, unauthed, replied, wsClients,
                     targets, events, bsem, quit>>
      /\ requestH' = "grab"
  BY DEF HandlerTakes
<1>2. HandlersOK'
  BY <1>1 DEF IInv, HandlersOK
<1>3. ASSUME NEW c \in Client, at[c].resp[1] = "offer",
             job' = [from |-> c, id |-> at[c].resp[2], kind |-> Kind(c, at[c].resp[2])],
             at' = [at EXCEPT ![c].resp = <<"wait", at[c].resp[2]>>],
             UNCHANGED post
      PROVE  IInv'
  <2>1. at \in [Client -> Goroutines] /\ at[c].resp \in Place
    BY DEF IInv, Types, Goroutines
  <2>2. <<"wait", at[c].resp[2]>> \in Place
    BY <2>1 DEF Place, Name
  <2>3. /\ at' \in [Client -> Goroutines]
        /\ \A e \in Client \ {c} : at'[e] = at[e]
        /\ at'[c].rpc = at[c].rpc /\ at'[c].read = at[c].read /\ at'[c].gate = at[c].gate
        /\ at'[c].send = at[c].send /\ at'[c].resp[1] = "wait"
        /\ at'[c].resp[2] = at[c].resp[2]
    BY <1>3, <2>1, <2>2 DEF Goroutines
  <2>4. Types' /\ Alone(c)
    BY <1>1, <1>3, <2>3 DEF IInv, Types, Alone, SameFor
  <2>5. JobAuthed'
    <3>1. OneAuth(c, AuthsUpTo(c, at[c].resp[2]))
      BY <1>3 DEF IInv, ClientOK, AuthKnown
    <3>2. job'.from = c /\ job'.id = at[c].resp[2]
      BY <1>3
    <3>. QED
      BY <1>1, <3>1, <3>2 DEF JobAuthed, OneAuth, AuthsUpTo, Kind
  <2>6. InLine(c)' /\ Answers(c)' /\ AuthKnown(c)'
    <3>1. /\ Offered(c)' = Offered(c) /\ Gated(c)' = Gated(c) /\ Sending(c)' = Sending(c)
          /\ Responding(c)' = Responding(c) /\ (Gone(c)' <=> Gone(c))
      BY <1>3, <2>3 DEF Offered, Gated, Sending, Responding, Gone
    <3>. QED
      BY <1>1, <1>3, <2>3, <3>1, Steady DEF IInv, ClientOK
  <2>7. PlacesOK(c)' /\ Member(c)'
    BY <1>1, <1>3, <2>3 DEF IInv, ClientOK, PlacesOK, Member, None, At
  <2>. QED
    BY <1>2, <2>4, <2>5, <2>6, <2>7, Finish
<1>4. ASSUME NEW p \in Poster, job' = [from |-> p, id |-> 0, kind |-> post[p]],
             post' = [post EXCEPT ![p] = "wait"], UNCHANGED at
      PROVE  IInv'
  <2>1. Types' /\ \A e \in Client : SameFor(e)
    BY <1>1, <1>4 DEF IInv, Types, SameFor
  <2>2. JobAuthed'
    BY <1>4, ServerAssumption DEF JobAuthed
  <2>. QED
    BY <1>2, <2>1, <2>2, ServerStep
<1>. QED
  BY <1>3, <1>4 DEF HandlerTakes

(* RequestHandler answers: the goroutine that waits has the reply.         *)
LEMMA HandlerRepliesIInv == ASSUME IInv, HandlerReplies PROVE IInv'
<1>1. /\ UNCHANGED <<script, sent, conn, authed, passing, unauthed, replied, wsClients,
                     targets, events, bsem, quit, job>>
      /\ requestH' = "select"
  BY DEF HandlerReplies
<1>2. HandlersOK' /\ JobAuthed'
  BY <1>1 DEF IInv, HandlersOK, JobAuthed
<1>3. ASSUME NEW c \in Client, at[c].resp = <<"wait", job.id>>,
             at' = [at EXCEPT ![c].resp = <<"reply", job.id>>], UNCHANGED post
      PROVE  IInv'
  <2>1. at \in [Client -> Goroutines] /\ at[c].resp \in Place
    BY DEF IInv, Types, Goroutines
  <2>2. <<"reply", job.id>> \in Place
    BY <1>3, <2>1 DEF Place, Name
  <2>3. /\ at' \in [Client -> Goroutines]
        /\ \A e \in Client \ {c} : at'[e] = at[e]
        /\ at'[c].rpc = at[c].rpc /\ at'[c].read = at[c].read /\ at'[c].gate = at[c].gate
        /\ at'[c].send = at[c].send /\ at'[c].resp[1] = "reply"
        /\ at'[c].resp[2] = at[c].resp[2] /\ at[c].resp[1] = "wait"
    BY <1>3, <2>1, <2>2 DEF Goroutines
  <2>4. Types' /\ Alone(c)
    BY <1>1, <1>3, <2>3 DEF IInv, Types, Alone, SameFor
  <2>6. InLine(c)' /\ Answers(c)' /\ AuthKnown(c)'
    <3>1. /\ Offered(c)' = Offered(c) /\ Gated(c)' = Gated(c) /\ Sending(c)' = Sending(c)
          /\ Responding(c)' = Responding(c) /\ (Gone(c)' <=> Gone(c))
      BY <2>3 DEF Offered, Gated, Sending, Responding, Gone
    <3>. QED
      BY <1>1, <2>3, <3>1, Steady DEF IInv, ClientOK
  <2>7. PlacesOK(c)' /\ Member(c)'
    BY <1>1, <2>3 DEF IInv, ClientOK, PlacesOK, Member, None, At
  <2>. QED
    BY <1>2, <2>4, <2>6, <2>7, Finish
<1>4. ASSUME NEW p \in Poster, post' = [post EXCEPT ![p] = "replied"], UNCHANGED at
      PROVE  IInv'
  <2>1. Types' /\ \A e \in Client : SameFor(e)
    BY <1>1, <1>4 DEF IInv, Types, SameFor
  <2>. QED
    BY <1>2, <2>1, ServerStep
<1>. QED
  BY <1>3, <1>4 DEF HandlerReplies
-----------------------------------------------------------------------------
(* What Read and Gateway do is nothing to Respond and Send.                *)
LEMMA BeforeRespond ==
  ASSUME NEW c \in Client, Answers(c), AuthKnown(c),
         script'[c] = script[c], authed'[c] = authed[c], replied'[c] = replied[c],
         at'[c].resp = at[c].resp, at'[c].send = at[c].send,
         Handled(c)' = Handled(c), Below(Handled(c), Queued(c)' \ Queued(c)),
         Queued(c) \subseteq Nat, Queued(c)' \subseteq Nat
  PROVE  Answers(c)' /\ AuthKnown(c)'
<1>1. /\ Responding(c)' = Responding(c) /\ Sending(c)' = Sending(c)
      /\ Replied(c)' = Replied(c) /\ (Gone(c)' <=> Gone(c))
  BY DEF Responding, Sending, Replied, Gone
<1>2. ASSUME NEW i \in Sending(c) \cup Replied(c), NEW j \in Queued(c)', j < i
      PROVE  j \in Replied(c)
  <2>1. i \in Handled(c) /\ i \in Nat /\ j \in Nat
    BY DEF Answers, Handled
  <2>2. j \in Queued(c)
    BY <1>2, <2>1 DEF Below
  <2>. QED
    BY <1>2, <2>2 DEF Answers
<1>3. Answers(c)'
  BY <1>1, <1>2 DEF Answers, Below, Increasing
<1>4. AuthKnown(c)'
  <2>1. Auths(c)' = Auths(c)
    BY DEF Auths, Kind
  <2>2. OneAuth(c, Auths(c)) => OneAuth(c, Auths(c))'
    BY <2>1 DEF OneAuth, Kind
  <2>3. AuthsUpTo(c, at[c].resp[2])' = AuthsUpTo(c, at[c].resp[2])
    BY DEF AuthsUpTo, Kind
  <2>4. OneAuth(c, AuthsUpTo(c, at[c].resp[2])) => OneAuth(c, AuthsUpTo(c, at[c].resp[2]))'
    BY <2>3 DEF OneAuth, Kind
  <2>. QED
    BY <2>1, <2>2, <2>4 DEF AuthKnown
<1>. QED
  BY <1>3, <1>4

LEMMA ReadMessageIInv == ASSUME IInv, NEW c \in Client, ReadMessage(c) PROVE IInv'
<1>1. /\ UNCHANGED <<script, conn, authed, passing, unauthed, replied, post, requestH, job,
                     bsem, events, quit, targets, wsClients>>
      /\ at[c].read = At("read")
  BY DEF ReadMessage, serverVars
<1>2. /\ at \in [Client -> Goroutines] /\ sent \in [Client -> Nat] /\ sent[c] \in Nat
      /\ script[c] \in Seq(Kinds) /\ Len(script[c]) \in Nat
  BY ServerAssumption DEF IInv, Types
<1>3. HandlersOK' /\ JobAuthed'
  BY <1>1, JobFrame DEF IInv, HandlersOK
<1>4. Offered(c) = {} /\ at[c].read[1] = "read" /\ at[c].rpc[1] \notin {"none", "add"}
  BY <1>1 DEF Offered, At, None, IInv, ClientOK, PlacesOK
<1>5. CASE /\ sent[c] < Len(script[c])
           /\ sent' = [sent EXCEPT ![c] = sent[c] + 1]
           /\ at' = [at EXCEPT ![c].read = <<"offer", sent[c] + 1>>]
  <2>1. <<"offer", sent[c] + 1>> \in Place
    BY <1>2 DEF Place, Name
  <2>2. /\ at' \in [Client -> Goroutines] /\ sent' \in [Client -> Nat]
        /\ \A e \in Client \ {c} : at'[e] = at[e] /\ sent'[e] = sent[e]
        /\ at'[c].rpc = at[c].rpc /\ at'[c].read = <<"offer", sent[c] + 1>>
        /\ at'[c].gate = at[c].gate /\ at'[c].resp = at[c].resp /\ at'[c].send = at[c].send
        /\ sent'[c] = sent[c] + 1
    <3>1. /\ at' \in [Client -> Goroutines]
          /\ \A e \in Client \ {c} : at'[e] = at[e]
          /\ at'[c].rpc = at[c].rpc /\ at'[c].read = <<"offer", sent[c] + 1>>
          /\ at'[c].gate = at[c].gate /\ at'[c].resp = at[c].resp
          /\ at'[c].send = at[c].send
      BY <1>2, <1>5, <2>1 DEF Goroutines
    <3>2. /\ sent' \in [Client -> Nat] /\ sent'[c] = sent[c] + 1
          /\ \A e \in Client \ {c} : sent'[e] = sent[e]
      BY <1>2, <1>5
    <3>. QED
      BY <3>1, <3>2
  <2>3. Types' /\ Alone(c)
    BY <1>1, <2>2 DEF IInv, Types, Alone, SameFor
  <2>4. /\ Offered(c)' = {sent[c] + 1} /\ Gated(c)' = Gated(c) /\ Buffered(c)' = Buffered(c)
    BY <1>1, <2>2 DEF Offered, Gated, Buffered
  <2>5. /\ Queued(c) \subseteq 1 .. sent[c] /\ Queued(c)' \subseteq 1 .. sent[c] + 1
        /\ Queued(c) \subseteq Queued(c)'
        /\ Queued(c)' \ Queued(c) \subseteq {sent[c] + 1}
    BY <1>1, <1>2, <2>2 DEF Queued, Kind
  <2>6. Pending(c)' = Pending(c) \cup {sent[c] + 1} /\ Pending(c) \subseteq Queued(c)
    BY <1>4, <2>4 DEF Pending, IInv, ClientOK, InLine
  <2>7. Handled(c)' = Handled(c)
    BY <1>2, <2>5, <2>6 DEF Handled
  <2>8. Handled(c) \subseteq Queued(c)
    BY DEF Handled
  <2>9. InLine(c)'
    <3>1. InLine(c)
      BY DEF IInv, ClientOK
    <3>2. Below(Handled(c), Pending(c))'
      BY <1>2, <2>5, <2>6, <2>7, <2>8, <3>1 DEF InLine, Below
    <3>3. Below(Gated(c), Offered(c))' /\ Below(Buffered(c), Gated(c) \cup Offered(c))'
      BY <1>2, <2>4, <2>5, <3>1 DEF InLine, Below
    <3>4. Increasing(unauthed[c])'
      BY <1>1, <3>1 DEF InLine, Increasing
    <3>5. /\ Offered(c)' \subseteq {sent'[c]} /\ Offered(c)' \subseteq 1 .. sent'[c]
          /\ Gated(c)' \subseteq Queued(c)' /\ Buffered(c)' \subseteq Queued(c)'
      BY <1>2, <2>2, <2>4, <2>5, <3>1 DEF InLine
    <3>. QED
      BY <3>2, <3>3, <3>4, <3>5 DEF InLine
  <2>10. Answers(c)' /\ AuthKnown(c)'
    <3>1. Below(Handled(c), Queued(c)' \ Queued(c))
      BY <1>2, <2>5, <2>8 DEF Below
    <3>2. Queued(c) \subseteq Nat /\ Queued(c)' \subseteq Nat
      BY <1>2, <2>5
    <3>. QED
      BY <1>1, <2>2, <2>7, <3>1, <3>2, BeforeRespond DEF IInv, ClientOK
  <2>11. PlacesOK(c)' /\ Member(c)'
    BY <1>1, <1>2, <1>4, <1>5, <2>2 DEF IInv, ClientOK, PlacesOK, Member
  <2>. QED
    BY <1>3, <2>3, <2>9, <2>10, <2>11, Finish
<1>6. CASE at' = [at EXCEPT ![c].read = Done] /\ UNCHANGED sent
  <2>1. Done \in Place /\ Done[1] = "done"
    BY DEF Done, At, Place, Name
  <2>2. /\ at' \in [Client -> Goroutines]
        /\ \A e \in Client \ {c} : at'[e] = at[e]
        /\ at'[c].rpc = at[c].rpc /\ at'[c].read = Done
        /\ at'[c].gate = at[c].gate /\ at'[c].resp = at[c].resp /\ at'[c].send = at[c].send
    BY <1>2, <1>6, <2>1 DEF Goroutines
  <2>3. Types' /\ Alone(c)
    BY <1>1, <1>6, <2>2 DEF IInv, Types, Alone, SameFor
  <2>4. /\ Offered(c)' = {} /\ Gated(c)' = Gated(c) /\ Responding(c)' = Responding(c)
        /\ Sending(c)' = Sending(c) /\ (Gone(c)' <=> Gone(c))
    BY <2>1, <2>2 DEF Offered, Gated, Responding, Sending, Gone
  <2>5. InLine(c)' /\ Answers(c)' /\ AuthKnown(c)'
    BY <1>1, <1>4, <1>6, <2>2, <2>4, Steady DEF IInv, ClientOK
  <2>6. PlacesOK(c)' /\ Member(c)'
    BY <1>1, <1>4, <1>6, <2>1, <2>2 DEF IInv, ClientOK, PlacesOK, Member
  <2>. QED
    BY <1>3, <2>3, <2>5, <2>6, Finish
<1>. QED
  BY <1>5, <1>6 DEF ReadMessage

(* Gateway takes the offered request and keeps it, passes it on or drops it. *)
LEMMA GatewayReadsIInv == ASSUME IInv, NEW c \in Client, GatewayReads(c) PROVE IInv'
<1>. DEFINE i == at[c].read[2]
<1>1. /\ UNCHANGED <<script, sent, conn, authed, unauthed, replied, post, requestH, job,
                     bsem, events, quit, targets, wsClients>>
      /\ at[c].gate = At("select") /\ at[c].read[1] = "offer"
  BY DEF GatewayReads, serverVars
<1>2. /\ at \in [Client -> Goroutines] /\ at[c].read \in Place /\ i \in Nat
      /\ passing \in [Client -> SUBSET Nat] /\ sent[c] \in Nat
  BY DEF IInv, Types, Goroutines, Place
<1>3. HandlersOK' /\ JobAuthed'
  BY <1>1, JobFrame DEF IInv, HandlersOK
<1>4. PICK place \in {<<"error", i>>, Done, At("select"), <<"queue", i>>} :
        /\ at' = [at EXCEPT ![c].read = At("read"), ![c].gate = place]
        /\ place = <<"queue", i>> <=> Kind(c, i) \notin {"junk", "pass"}
  <2>1. /\ <<"error", i>> # <<"queue", i>> /\ Done # <<"queue", i>>
        /\ At("select") # <<"queue", i>>
    BY DEF Done, At
  <2>. QED
    BY <2>1 DEF GatewayReads
<1>5. /\ passing' = passing \/ passing' = [passing EXCEPT ![c] = passing[c] \cup {i}]
  BY DEF GatewayReads
<1>6. /\ Offered(c) = {i} /\ i = sent[c] /\ i \in 1 .. sent[c] /\ Gated(c) = {}
      /\ at[c].rpc[1] \notin {"none", "add"} /\ InLine(c)
  <2>1. Offered(c) = {i} /\ InLine(c)
    BY <1>1 DEF Offered, IInv, ClientOK
  <2>2. Gated(c) = {}
    BY <1>1 DEF Gated, At
  <2>3. i = sent[c] /\ i \in 1 .. sent[c]
    BY <2>1 DEF InLine
  <2>4. at[c].rpc[1] \notin {"none", "add"}
    BY <1>1 DEF IInv, ClientOK, PlacesOK, At, None
  <2>. QED
    BY <2>1, <2>2, <2>3, <2>4
<1>7. /\ place \in Place /\ At("read") \in Place /\ At("read")[1] = "read"
      /\ place[1] \in {"error", "done", "select", "queue"}
      /\ place[1] = "queue" <=> place = <<"queue", i>>
  BY <1>2, <1>4 DEF Place, Name, At, Done
<1>8. /\ at' \in [Client -> Goroutines]
      /\ \A e \in Client \ {c} : at'[e] = at[e]
      /\ at'[c].rpc = at[c].rpc /\ at'[c].read = At("read") /\ at'[c].gate = place
      /\ at'[c].resp = at[c].resp /\ at'[c].send = at[c].send
  BY <1>2, <1>4, <1>7 DEF Goroutines
<1>9. /\ passing' \in [Client -> SUBSET Nat] /\ passing'[c] \subseteq passing[c] \cup {i}
      /\ \A e \in Client \ {c} : passing'[e] = passing[e]
  BY <1>2, <1>5
<1>10. Types' /\ Alone(c)
  BY <1>1, <1>8, <1>9 DEF IInv, Types, Alone, SameFor
<1>11. /\ Offered(c)' = {} /\ Buffered(c)' = Buffered(c)
       /\ Queued(c)' = Queued(c) /\ Queued(c) \subseteq Nat
       /\ i \in Queued(c) <=> place = <<"queue", i>>
  BY <1>1, <1>2, <1>4, <1>6, <1>7, <1>8 DEF Offered, Buffered, Queued, Kind
<1>12. Gated(c)' = IF place = <<"queue", i>> THEN {i} ELSE {}
  <2>1. CASE place = <<"queue", i>>
    <3>1. at'[c].gate[1] = "queue" /\ at'[c].gate[2] = i
      BY <1>8, <2>1
    <3>. QED
      BY <2>1, <3>1 DEF Gated
  <2>2. CASE place # <<"queue", i>>
    <3>1. at'[c].gate[1] # "queue"
      BY <1>7, <1>8, <2>2
    <3>. QED
      BY <2>2, <3>1 DEF Gated
  <2>. QED
    BY <2>1, <2>2
<1>. HIDE DEF i
<1>13. /\ Pending(c)' = Buffered(c) \cup Gated(c)'
       /\ Pending(c) = Buffered(c) \cup {i}
  BY <1>6, <1>11 DEF Pending
<1>14. Handled(c)' = Handled(c) /\ Pending(c)' \subseteq Pending(c)
  BY <1>11, <1>12, <1>13 DEF Handled
<1>15. InLine(c)'
  <2>1. Below(Handled(c), Pending(c))'
    BY <1>6, <1>14 DEF InLine, Below
  <2>2. Below(Buffered(c), Gated(c) \cup Offered(c))'
    BY <1>6, <1>11, <1>12 DEF InLine, Below
  <2>3. Gated(c)' \subseteq Queued(c)' /\ Buffered(c)' \subseteq Queued(c)'
    BY <1>6, <1>11, <1>12 DEF InLine
  <2>4. Increasing(unauthed[c])'
    BY <1>1, <1>6 DEF InLine, Increasing
  <2>. QED
    BY <1>11, <2>1, <2>2, <2>3, <2>4 DEF InLine, Below
<1>16. Answers(c)' /\ AuthKnown(c)'
  <2>1. Below(Handled(c), Queued(c)' \ Queued(c))
    BY <1>11 DEF Below
  <2>. QED
    BY <1>1, <1>8, <1>11, <1>14, <2>1, BeforeRespond DEF IInv, ClientOK
<1>17. PlacesOK(c)' /\ Member(c)'
  BY <1>1, <1>6, <1>7, <1>8, <1>9 DEF IInv, ClientOK, PlacesOK, Member
<1>. QED
  BY <1>3, <1>10, <1>15, <1>16, <1>17, Finish

(* A number above all elements goes to the end of an increasing sequence.  *)
LEMMA AppendIncreases ==
  ASSUME NEW s \in Seq(Nat), NEW x \in Nat, Increasing(s),
         \A n \in 1 .. Len(s) : s[n] < x
  PROVE  /\ Increasing(Append(s, x))
         /\ {Append(s, x)[n] : n \in 1 .. Len(Append(s, x))}
              = {s[n] : n \in 1 .. Len(s)} \cup {x}
<1>1. /\ Len(s) \in Nat /\ Len(Append(s, x)) = Len(s) + 1
      /\ \A n \in 1 .. Len(s) : Append(s, x)[n] = s[n] /\ s[n] \in Nat
      /\ Append(s, x)[Len(s) + 1] = x
  OBVIOUS
<1>. DEFINE t == Append(s, x)
<1>. HIDE DEF t
<1>2. /\ Len(s) \in Nat /\ Len(t) = Len(s) + 1
      /\ \A n \in 1 .. Len(s) : t[n] = s[n] /\ s[n] \in Nat
      /\ t[Len(s) + 1] = x
  BY <1>1 DEF t
<1>3. Increasing(t)
  <2>1. ASSUME NEW m \in 1 .. Len(t), NEW n \in 1 .. Len(t), m < n PROVE t[m] < t[n]
    <3>1. m \in 1 .. Len(s) /\ t[m] = s[m]
      BY <1>2, <2>1
    <3>2. CASE n = Len(s) + 1
      BY <1>2, <3>1, <3>2
    <3>3. CASE n \in 1 .. Len(s)
      <4>1. s[m] < s[n]
        BY <2>1, <3>1, <3>3 DEF Increasing
      <4>. QED
        BY <1>2, <3>1, <3>3, <4>1
    <3>. QED
      BY <1>2, <3>2, <3>3
  <2>. QED
    BY <2>1 DEF Increasing
<1>4. {t[n] : n \in 1 .. Len(t)} = {s[n] : n \in 1 .. Len(s)} \cup {x}
  <2>1. 1 .. Len(t) = (1 .. Len(s)) \cup {Len(s) + 1}
    BY <1>2
  <2>. QED
    BY <1>2, <2>1
<1>. QED
  BY <1>3, <1>4 DEF t

(* Taking the first of an increasing sequence takes its least element.     *)
LEMMA TailIncreases ==
  ASSUME NEW s \in Seq(Nat), s # <<>>, Increasing(s)
  PROVE  /\ Increasing(Tail(s)) /\ Tail(s) \in Seq(Nat) /\ Len(Tail(s)) < Len(s)
         /\ Head(s) \in {s[n] : n \in 1 .. Len(s)}
         /\ {Tail(s)[n] : n \in 1 .. Len(Tail(s))}
              = {s[n] : n \in 1 .. Len(s)} \ {Head(s)}
         /\ \A x \in {Tail(s)[n] : n \in 1 .. Len(Tail(s))} : Head(s) < x
<1>1. /\ Len(s) \in Nat \ {0} /\ Len(Tail(s)) = Len(s) - 1 /\ Tail(s) \in Seq(Nat)
      /\ Head(s) = s[1] /\ \A n \in 1 .. Len(s) : s[n] \in Nat
      /\ \A n \in 1 .. Len(s) - 1 : Tail(s)[n] = s[n + 1]
  BY HeadTailProperties, EmptySeq
<1>. DEFINE t == Tail(s)
            h == Head(s)
<1>. HIDE DEF t, h
<1>2. /\ Len(s) \in Nat \ {0} /\ Len(t) = Len(s) - 1
      /\ h = s[1] /\ \A n \in 1 .. Len(s) : s[n] \in Nat
      /\ \A n \in 1 .. Len(s) - 1 : t[n] = s[n + 1]
  BY <1>1 DEF t, h
<1>3. Increasing(t)
  <2>1. ASSUME NEW m \in 1 .. Len(t), NEW n \in 1 .. Len(t), m < n PROVE t[m] < t[n]
    <3>1. m + 1 \in 1 .. Len(s) /\ n + 1 \in 1 .. Len(s) /\ m + 1 < n + 1
      BY <1>2, <2>1
    <3>2. s[m + 1] < s[n + 1]
      BY <3>1 DEF Increasing
    <3>. QED
      BY <1>2, <3>2
  <2>. QED
    BY <2>1 DEF Increasing
<1>4. ASSUME NEW n \in 1 .. Len(t) PROVE h < t[n]
  <2>1. n + 1 \in 1 .. Len(s) /\ 1 \in 1 .. Len(s) /\ 1 < n + 1
    BY <1>2
  <2>2. s[1] < s[n + 1]
    BY <2>1 DEF Increasing
  <2>. QED
    BY <1>2, <2>2
<1>5. {t[n] : n \in 1 .. Len(t)} = {s[n] : n \in 1 .. Len(s)} \ {h}
  <2>1. ASSUME NEW n \in 1 .. Len(t)
        PROVE  t[n] \in {s[m] : m \in 1 .. Len(s)} /\ t[n] # h
    <3>1. n + 1 \in 1 .. Len(s) /\ t[n] = s[n + 1] /\ t[n] \in Nat /\ h \in Nat
      BY <1>2
    <3>. QED
      BY <1>4, <3>1
  <2>2. ASSUME NEW m \in 1 .. Len(s), s[m] # h
        PROVE  s[m] \in {t[n] : n \in 1 .. Len(t)}
    <3>1. m - 1 \in 1 .. Len(t) /\ t[m - 1] = s[m]
      BY <1>2, <2>2
    <3>. QED
      BY <3>1
  <2>. QED
    BY <2>1, <2>2
<1>6. h \in {s[n] : n \in 1 .. Len(s)}
  <2>1. 1 \in 1 .. Len(s)
    BY <1>2
  <2>. QED
    BY <1>2, <2>1
<1>. QED
  BY <1>1, <1>3, <1>4, <1>5, <1>6 DEF t, h

(* Gateway queues its request behind those in unauthedRequests.            *)
LEMMA GatewayQueuesIInv == ASSUME IInv, NEW c \in Client, GatewayQueues(c) PROVE IInv'
<1>. DEFINE i == at[c].gate[2]
<1>1. /\ UNCHANGED <<script, sent, conn, authed, passing, replied, post, requestH, job,
                     bsem, events, quit, targets, wsClients>>
      /\ at[c].gate[1] = "queue" /\ Len(unauthed[c]) < MaxBuffered
      /\ at' = [at EXCEPT ![c].gate = At("select")]
      /\ unauthed' = [unauthed EXCEPT ![c] = Append(unauthed[c], i)]
  BY DEF GatewayQueues, serverVars
<1>2. /\ at \in [Client -> Goroutines] /\ at[c].gate \in Place /\ i \in Nat
      /\ unauthed \in [Client -> Seq(Nat)] /\ unauthed[c] \in Seq(Nat) /\ sent[c] \in Nat
  BY DEF IInv, Types, Goroutines, Place
<1>3. HandlersOK' /\ JobAuthed'
  BY <1>1, JobFrame DEF IInv, HandlersOK
<1>4. /\ At("select") \in Place /\ At("select")[1] = "select"
  BY DEF At, Place, Name
<1>5. /\ at' \in [Client -> Goroutines]
      /\ \A e \in Client \ {c} : at'[e] = at[e]
      /\ at'[c].rpc = at[c].rpc /\ at'[c].read = at[c].read /\ at'[c].gate = At("select")
      /\ at'[c].resp = at[c].resp /\ at'[c].send = at[c].send
  BY <1>1, <1>2, <1>4 DEF Goroutines
<1>6. /\ unauthed' \in [Client -> Seq(Nat)] /\ unauthed'[c] = Append(unauthed[c], i)
      /\ \A e \in Client \ {c} : unauthed'[e] = unauthed[e]
  BY <1>1, <1>2
<1>7. Types' /\ Alone(c)
  BY <1>1, <1>5, <1>6 DEF IInv, Types, Alone, SameFor
<1>8. Gated(c) = {i} /\ Gated(c)' = {} /\ Offered(c)' = Offered(c) /\ InLine(c)
  <2>1. Gated(c) = {i} /\ Gated(c)' = {}
    BY <1>1, <1>4, <1>5 DEF Gated
  <2>2. Offered(c)' = Offered(c)
    BY <1>5 DEF Offered
  <2>. QED
    BY <2>1, <2>2 DEF IInv, ClientOK
<1>. HIDE DEF i
<1>9. Queued(c)' = Queued(c) /\ Queued(c) \subseteq Nat
  BY <1>1, <1>2 DEF Queued, Kind
<1>10. /\ Increasing(unauthed[c])' /\ Buffered(c)' = Buffered(c) \cup {i}
       /\ Len(unauthed'[c]) <= MaxBuffered
  <2>1. Increasing(unauthed[c]) /\ \A n \in 1 .. Len(unauthed[c]) : unauthed[c][n] < i
    BY <1>8 DEF InLine, Below, Buffered
  <2>2. Len(unauthed'[c]) = Len(unauthed[c]) + 1 /\ Len(unauthed[c]) \in Nat
    BY <1>2, <1>6
  <2>3. /\ Increasing(Append(unauthed[c], i))
        /\ {Append(unauthed[c], i)[n] : n \in 1 .. Len(Append(unauthed[c], i))}
             = {unauthed[c][n] : n \in 1 .. Len(unauthed[c])} \cup {i}
    BY <1>2, <2>1, AppendIncreases
  <2>4. Increasing(unauthed[c])'
    BY <1>6, <2>3 DEF Increasing
  <2>5. Buffered(c)' = Buffered(c) \cup {i}
    BY <1>6, <2>3 DEF Buffered
  <2>. QED
    BY <1>1, <2>2, <2>4, <2>5, ServerAssumption
<1>11. Pending(c)' = Pending(c) /\ Handled(c)' = Handled(c)
  BY <1>8, <1>9, <1>10 DEF Pending, Handled
<1>12. InLine(c)'
  <2>1. Below(Buffered(c), Gated(c) \cup Offered(c))'
    BY <1>8, <1>10 DEF InLine, Below
  <2>2. Below(Handled(c), Pending(c))'
    BY <1>8, <1>11 DEF InLine, Below
  <2>3. /\ Gated(c)' \subseteq Queued(c)' /\ Buffered(c)' \subseteq Queued(c)'
        /\ Offered(c)' \subseteq {sent'[c]} /\ Offered(c)' \subseteq 1 .. sent'[c]
    BY <1>1, <1>8, <1>9, <1>10 DEF InLine
  <2>. QED
    BY <1>8, <1>10, <2>1, <2>2, <2>3 DEF InLine, Below
<1>13. Answers(c)' /\ AuthKnown(c)'
  <2>1. Below(Handled(c), Queued(c)' \ Queued(c))
    BY <1>9 DEF Below
  <2>. QED
    BY <1>1, <1>5, <1>9, <1>11, <2>1, BeforeRespond DEF IInv, ClientOK
<1>14. PlacesOK(c)' /\ Member(c)'
  BY <1>1, <1>4, <1>5, <1>10 DEF IInv, ClientOK, PlacesOK, Member, None, At
<1>. QED
  BY <1>3, <1>7, <1>12, <1>13, <1>14, Finish

(* Respond takes the next request: it is above all that Respond has seen   *)
(* and below all that it has not, so that authed is about what came before *)
(* it.                                                                     *)
LEMMA RespondReadsIInv == ASSUME IInv, NEW c \in Client, RespondReads(c) PROVE IInv'
<1>. DEFINE i == Head(unauthed[c])
<1>1. /\ UNCHANGED <<script, sent, conn, passing, replied, post, requestH, job, bsem, events,
                     quit, targets, wsClients>>
      /\ at[c].resp = At("range") /\ unauthed[c] # <<>>
      /\ unauthed' = [unauthed EXCEPT ![c] = Tail(unauthed[c])]
  BY DEF RespondReads, serverVars
<1>2. /\ at \in [Client -> Goroutines] /\ authed \in [Client -> BOOLEAN]
      /\ unauthed \in [Client -> Seq(Nat)] /\ unauthed[c] \in Seq(Nat)
      /\ sent[c] \in Nat /\ i \in Nat
  BY <1>1 DEF IInv, Types
<1>3. HandlersOK' /\ JobAuthed'
  BY <1>1, JobFrame DEF IInv, HandlersOK
<1>4. /\ InLine(c) /\ Answers(c) /\ AuthKnown(c) /\ PlacesOK(c) /\ Member(c)
  BY DEF IInv, ClientOK
<1>5. PICK place \in {Done, <<"offer", i>>, <<"reply", i>>} :
        /\ at' = [at EXCEPT ![c].resp = place]
        /\ IF InvalidAuth(c, i)
             THEN place = Done /\ UNCHANGED authed
             ELSE /\ place # Done
                  /\ authed' = [authed EXCEPT ![c] = authed[c] \/ Kind(c, i) = "auth"]
  <2>1. Done # <<"offer", i>> /\ Done # <<"reply", i>>
    BY DEF Done, At
  <2>. QED
    BY <2>1 DEF RespondReads
<1>6. /\ place \in Place /\ place[1] \in {"done", "offer", "reply"}
      /\ place[1] = "done" <=> place = Done
      /\ place # Done => place[2] = i
  BY <1>2 DEF Done, At, Place, Name
<1>7. /\ at' \in [Client -> Goroutines]
      /\ \A e \in Client \ {c} : at'[e] = at[e]
      /\ at'[c].rpc = at[c].rpc /\ at'[c].read = at[c].read /\ at'[c].gate = at[c].gate
      /\ at'[c].resp = place /\ at'[c].send = at[c].send
  <2>1. at' = [at EXCEPT ![c].resp = place] /\ place \in Place
    BY <1>5, <1>6
  <2>2. at \in [Client -> Goroutines]
    BY <1>2
  <2>. HIDE DEF i
  <2>. QED
    BY <2>1, <2>2 DEF Goroutines
<1>8. /\ authed' \in [Client -> BOOLEAN] /\ \A e \in Client \ {c} : authed'[e] = authed[e]
      /\ ~InvalidAuth(c, i) => authed'[c] = (authed[c] \/ Kind(c, i) = "auth")
  BY <1>2, <1>5
<1>9. /\ Increasing(Tail(unauthed[c])) /\ Tail(unauthed[c]) \in Seq(Nat)
      /\ Len(Tail(unauthed[c])) < Len(unauthed[c])
      /\ i \in Buffered(c)
      /\ {Tail(unauthed[c])[n] : n \in 1 .. Len(Tail(unauthed[c]))} = Buffered(c) \ {i}
      /\ \A x \in Buffered(c) \ {i} : i < x
  BY <1>1, <1>2, <1>4, TailIncreases DEF InLine, Buffered
<1>10. /\ unauthed' \in [Client -> Seq(Nat)] /\ unauthed'[c] = Tail(unauthed[c])
       /\ \A e \in Client \ {c} : unauthed'[e] = unauthed[e]
  BY <1>1, <1>2, <1>9
<1>11. Types' /\ Alone(c)
  BY <1>1, <1>7, <1>8, <1>10 DEF IInv, Types, Alone, SameFor
<1>12. /\ Offered(c)' = Offered(c) /\ Gated(c)' = Gated(c) /\ Sending(c)' = Sending(c)
       /\ Replied(c)' = Replied(c) /\ (Gone(c)' <=> Gone(c)) /\ Queued(c)' = Queued(c)
       /\ Buffered(c)' = Buffered(c) \ {i} /\ Increasing(unauthed[c])'
  <2>1. Offered(c)' = Offered(c) /\ Gated(c)' = Gated(c) /\ Sending(c)' = Sending(c)
    BY <1>7 DEF Offered, Gated, Sending
  <2>2. Replied(c)' = Replied(c) /\ (Gone(c)' <=> Gone(c))
    BY <1>1, <1>7 DEF Replied, Gone
  <2>3. Queued(c)' = Queued(c)
    BY <1>1 DEF Queued, Kind
  <2>4. Buffered(c)' = Buffered(c) \ {i}
    BY <1>9, <1>10 DEF Buffered
  <2>5. Increasing(unauthed[c])'
    BY <1>9, <1>10 DEF Increasing
  <2>. QED
    BY <2>1, <2>2, <2>3, <2>4, <2>5
<1>13. Responding(c) = {} /\ at[c].resp[1] = "range"
  BY <1>1 DEF Responding, At
<1>14. Responding(c)' = IF place = Done THEN {} ELSE {i}
  <2>1. CASE place = Done
    <3>1. at'[c].resp[1] = "done"
      BY <1>6, <1>7, <2>1
    <3>. QED
      BY <2>1, <3>1 DEF Responding
  <2>2. CASE place # Done
    <3>1. at'[c].resp[1] \in {"offer", "reply"} /\ at'[c].resp[2] = i
      BY <1>6, <1>7, <2>2
    <3>. QED
      BY <2>2, <3>1 DEF Responding
  <2>. QED
    BY <2>1, <2>2
<1>. HIDE DEF i
<1>15. /\ i \in Queued(c) /\ i \in Pending(c) /\ Queued(c) \subseteq 1 .. sent[c]
       /\ Pending(c) \subseteq Nat /\ Pending(c)' = Pending(c) \ {i}
       /\ \A x \in Pending(c)' : i < x
  <2>1. i \in Queued(c) /\ i \in Pending(c) /\ Queued(c) \subseteq 1 .. sent[c]
    BY <1>4, <1>9 DEF InLine, Pending, Queued
  <2>2. Pending(c) \subseteq Nat
    BY <1>2, <1>4 DEF InLine, Pending, Queued
  <2>3. \A x \in Gated(c) \cup Offered(c) : i < x
    BY <1>4, <1>9 DEF InLine, Below
  <2>4. i \notin Gated(c) \cup Offered(c)
    BY <1>2, <2>3
  <2>5. Pending(c)' = Pending(c) \ {i}
    BY <1>12, <2>4 DEF Pending
  <2>6. \A x \in Pending(c)' : i < x
    BY <1>9, <2>3, <2>5 DEF Pending
  <2>. QED
    BY <2>1, <2>2, <2>5, <2>6
<1>16. /\ Handled(c)' = Handled(c) \cup {i} /\ i \notin Handled(c)
       /\ \A x \in Handled(c) : x < i
  BY <1>4, <1>12, <1>15 DEF Handled, InLine, Below
<1>17. InLine(c)'
  <2>1. Below(Handled(c), Pending(c))'
    BY <1>4, <1>15, <1>16 DEF InLine, Below
  <2>2. Below(Buffered(c), Gated(c) \cup Offered(c))' /\ Below(Gated(c), Offered(c))'
    BY <1>4, <1>12 DEF InLine, Below
  <2>3. /\ Gated(c)' \subseteq Queued(c)' /\ Buffered(c)' \subseteq Queued(c)'
        /\ Offered(c)' \subseteq {sent'[c]} /\ Offered(c)' \subseteq 1 .. sent'[c]
    BY <1>1, <1>4, <1>12 DEF InLine
  <2>. QED
    BY <1>12, <2>1, <2>2, <2>3 DEF InLine
<1>18. Answers(c)'
  <2>1. /\ Responding(c)' \subseteq Handled(c)' /\ Sending(c)' \subseteq Handled(c)'
        /\ Replied(c)' \subseteq Handled(c)'
    BY <1>4, <1>12, <1>14, <1>16 DEF Answers
  <2>2. /\ Below(Sending(c), Responding(c))'
        /\ Below(Replied(c), Sending(c) \cup Responding(c))'
    BY <1>4, <1>12, <1>14, <1>16 DEF Answers, Below
  <2>3. Increasing(replied[c])'
    BY <1>1, <1>4 DEF Answers, Increasing
  <2>4. at'[c].resp[1] # "done" /\ ~Gone(c)' =>
          Handled(c)' \subseteq Replied(c)' \cup Sending(c)' \cup Responding(c)'
    <3>1. at'[c].resp[1] # "done" => place # Done
      BY <1>6, <1>7
    <3>. QED
      BY <1>4, <1>12, <1>13, <1>14, <1>16, <3>1 DEF Answers
  <2>5. \A x \in Sending(c)' \cup Replied(c)' : \A j \in Queued(c)' :
          j < x => j \in Replied(c)'
    BY <1>4, <1>12 DEF Answers
  <2>. QED
    BY <2>1, <2>2, <2>3, <2>4, <2>5 DEF Answers
<1>19. AuthKnown(c)'
  <2>1. CASE place = Done
    <3>1. at'[c].resp[1] = "done"
      BY <1>6, <1>7, <2>1
    <3>. QED
      BY <3>1 DEF AuthKnown
  <2>2. CASE place # Done
    <3>1. ~InvalidAuth(c, i) /\ authed'[c] = (authed[c] \/ Kind(c, i) = "auth")
      BY <1>5, <1>8, <2>2
    <3>2. Auths(c)' = {j \in Handled(c) \cup {i} : Kind(c, j) \in {"auth", "badauth"}}
      BY <1>1, <1>16 DEF Auths, Kind
    <3>3. Auths(c)' = AuthsUpTo(c, i)
      <4>1. ASSUME NEW j \in 1 .. i, Kind(c, j) \in {"auth", "badauth"}
            PROVE  j \in Handled(c) \cup {i}
        <5>1. j \in Queued(c)
          BY <1>2, <1>15, <4>1 DEF Queued
        <5>2. j \notin Pending(c)'
          BY <1>2, <1>15, <4>1
        <5>. QED
          BY <1>15, <5>1, <5>2 DEF Handled
      <4>2. ASSUME NEW j \in Handled(c) \cup {i} PROVE j \in 1 .. i
        <5>1. j \in Queued(c) /\ (j < i \/ j = i)
          BY <1>15, <1>16 DEF Handled
        <5>. QED
          BY <1>2, <1>15, <5>1
      <4>. QED
        BY <3>2, <4>1, <4>2 DEF AuthsUpTo
    <3>4. authed'[c] /\ OneAuth(c, Auths(c)')
      <4>1. CASE Kind(c, i) \in {"auth", "badauth"}
        <5>1. ~authed[c] /\ Kind(c, i) = "auth"
          BY <3>1, <4>1 DEF InvalidAuth
        <5>2. script[c] \notin Preauthed /\ Auths(c) = {}
          BY <1>4, <1>13, <5>1 DEF AuthKnown
        <5>3. Auths(c)' = {i}
          BY <3>2, <4>1, <5>2 DEF Auths
        <5>. QED
          BY <3>1, <5>1, <5>2, <5>3 DEF OneAuth
      <4>2. CASE Kind(c, i) \notin {"auth", "badauth"}
        <5>1. authed[c]
          BY <3>1, <4>2 DEF InvalidAuth
        <5>2. OneAuth(c, Auths(c))
          BY <1>4, <1>13, <5>1 DEF AuthKnown
        <5>3. Auths(c)' = Auths(c)
          BY <3>2, <4>2 DEF Auths
        <5>. QED
          BY <3>1, <5>1, <5>2, <5>3
      <4>. QED
        BY <4>1, <4>2
    <3>5. OneAuth(c, Auths(c))'
      BY <1>1, <3>4 DEF OneAuth, Kind
    <3>6. AuthsUpTo(c, at[c].resp[2])' = Auths(c)'
      <4>1. at'[c].resp[2] = i
        BY <1>6, <1>7, <2>2
      <4>. QED
        BY <1>1, <3>3, <4>1 DEF AuthsUpTo, Kind
    <3>7. OneAuth(c, AuthsUpTo(c, at[c].resp[2]))'
      BY <1>1, <3>4, <3>6 DEF OneAuth, Kind
    <3>. QED
      BY <3>4, <3>5, <3>7 DEF AuthKnown
  <2>. QED
    BY <2>1, <2>2
<1>20. PlacesOK(c)' /\ Member(c)'
  BY <1>1, <1>2, <1>4, <1>6, <1>7, <1>9, <1>10, <1>13, ServerAssumption DEF PlacesOK, Member, None, At
<1>. QED
  BY <1>3, <1>11, <1>17, <1>18, <1>19, <1>20, Finish

(* Respond hands its reply to Send, or ends because Send did.              *)
LEMMA RespondSendsIInv == ASSUME IInv, NEW c \in Client, RespondSends(c) PROVE IInv'
<1>. DEFINE i == at[c].resp[2]
            ok == Goes(c, "resp", At("range"))
            gone == Goes(c, "resp", Done)
<1>1. /\ UNCHANGED <<script, sent, conn, authed, passing, unauthed, replied, post, requestH,
                     job, bsem, events, quit, targets, wsClients>>
      /\ at[c].resp[1] = "reply" /\ Send(c, at[c].resp, ok, gone)
  BY DEF RespondSends, serverVars
<1>2. /\ at \in [Client -> Goroutines] /\ at[c] \in Goroutines /\ at[c].resp \in Place
      /\ i \in Nat /\ Types /\ sent[c] \in Nat
  BY DEF IInv, Types, Goroutines, Place
<1>3. HandlersOK' /\ JobAuthed'
  BY <1>1, JobFrame DEF IInv, HandlersOK
<1>4. InLine(c) /\ Answers(c) /\ AuthKnown(c) /\ PlacesOK(c) /\ Member(c)
  BY DEF IInv, ClientOK
<1>5. /\ At("range") \in Place /\ At("range")[1] = "range"
      /\ Done \in Place /\ Done[1] = "done"
  BY DEF At, Done, Place, Name
<1>6. /\ ok \in Goroutines /\ ok.rpc = at[c].rpc /\ ok.read = at[c].read
      /\ ok.gate = at[c].gate /\ ok.resp = At("range") /\ ok.send = at[c].send
  BY <1>2, <1>5 DEF Goes, Goroutines
<1>7. /\ gone \in Goroutines /\ gone.rpc = at[c].rpc /\ gone.read = at[c].read
      /\ gone.gate = at[c].gate /\ gone.resp = Done /\ gone.send = at[c].send
  BY <1>2, <1>5 DEF Goes, Goroutines
<1>. HIDE DEF ok, gone
<1>8. /\ at' \in [Client -> Goroutines]
      /\ \A e \in Client \ {c} : at'[e] = at[e]
      /\ at'[c].rpc = at[c].rpc /\ at'[c].read = at[c].read /\ at'[c].gate = at[c].gate
      /\ \/ /\ at[c].send = At("range")
            /\ at'[c].resp = At("range") /\ at'[c].send = at[c].resp
         \/ Gone(c) /\ at'[c].resp = Done /\ at'[c].send = at[c].send
  <2>1. at[c].resp # Done
    BY <1>1, <1>5
  <2>. QED
    BY <1>1, <1>2, <1>6, <1>7, <2>1, SendMoves
<1>9. Types' /\ Alone(c)
  BY <1>1, <1>8 DEF IInv, Types, Alone, SameFor
<1>10. /\ Offered(c)' = Offered(c) /\ Gated(c)' = Gated(c) /\ Buffered(c)' = Buffered(c)
       /\ Replied(c)' = Replied(c) /\ Queued(c)' = Queued(c) /\ Responding(c) = {i}
  <2>1. Offered(c)' = Offered(c) /\ Gated(c)' = Gated(c) /\ Responding(c) = {i}
    BY <1>1, <1>8 DEF Offered, Gated, Responding
  <2>2. Buffered(c)' = Buffered(c) /\ Replied(c)' = Replied(c) /\ Queued(c)' = Queued(c)
    BY <1>1 DEF Buffered, Replied, Queued, Kind
  <2>. QED
    BY <2>1, <2>2
<1>11. CASE /\ at[c].send = At("range")
            /\ at'[c].resp = At("range") /\ at'[c].send = at[c].resp
  <2>1. /\ at[c].send[1] = "range" /\ at'[c].resp[1] = "range" /\ at'[c].send[1] = "reply"
        /\ at'[c].send[2] = i
    BY <1>1, <1>5, <1>11
  <2>2. Sending(c) = {} /\ Sending(c)' = {i} /\ Responding(c)' = {}
    BY <2>1 DEF Sending, Responding
  <2>3. ~Gone(c) /\ ~Gone(c)'
    BY <2>1 DEF Gone, At, Done
  <2>4. Pending(c)' = Pending(c) /\ Handled(c)' = Handled(c)
    BY <1>10 DEF Pending, Handled
  <2>. HIDE DEF i
  <2>5. InLine(c)'
    BY <1>1, <1>4, <1>10, <2>4 DEF InLine, Below, Increasing
  <2>6. Answers(c)'
    <3>1. i \in Handled(c) /\ Handled(c) \subseteq Replied(c) \cup {i}
      BY <1>1, <1>4, <1>10, <2>2, <2>3 DEF Answers
    <3>2. ASSUME NEW j \in Queued(c), j < i PROVE j \in Replied(c)
      <4>1. j \in Nat
        BY <1>2 DEF Queued
      <4>2. j \notin Pending(c)
        BY <1>2, <1>4, <3>1, <3>2, <4>1 DEF InLine, Below
      <4>. QED
        BY <1>2, <3>1, <3>2, <4>1, <4>2 DEF Handled
    <3>3. /\ Responding(c)' \subseteq Handled(c)' /\ Sending(c)' \subseteq Handled(c)'
          /\ Replied(c)' \subseteq Handled(c)'
          /\ Handled(c)' \subseteq Replied(c)' \cup Sending(c)' \cup Responding(c)'
      BY <1>4, <1>10, <2>2, <2>4, <3>1 DEF Answers
    <3>4. /\ Below(Sending(c), Responding(c))'
          /\ Below(Replied(c), Sending(c) \cup Responding(c))'
      BY <1>4, <1>10, <2>2 DEF Answers, Below
    <3>5. Increasing(replied[c])'
      BY <1>1, <1>4 DEF Answers, Increasing
    <3>6. \A x \in Sending(c)' \cup Replied(c)' : \A j \in Queued(c)' :
            j < x => j \in Replied(c)'
      BY <1>4, <1>10, <2>2, <3>2 DEF Answers
    <3>. QED
      BY <3>3, <3>4, <3>5, <3>6 DEF Answers
  <2>7. AuthKnown(c)'
    <3>1. Auths(c)' = Auths(c)
      BY <1>1, <2>4 DEF Auths, Kind
    <3>2. OneAuth(c, Auths(c)) => OneAuth(c, Auths(c))'
      BY <1>1, <3>1 DEF OneAuth, Kind
    <3>. QED
      BY <1>1, <1>4, <2>1, <3>1, <3>2 DEF AuthKnown
  <2>8. PlacesOK(c)'
    BY <1>1, <1>4, <1>8, <2>1 DEF PlacesOK, None, At
  <2>9. Member(c)'
    <3>1. at[c].send \notin {None, At("remove"), Done} /\ at'[c].send # Done
      BY <2>1 DEF None, At, Done
    <3>. QED
      BY <1>1, <1>4, <3>1 DEF Member
  <2>. QED
    BY <1>3, <1>9, <2>5, <2>6, <2>7, <2>8, <2>9, Finish
<1>12. CASE Gone(c) /\ at'[c].resp = Done /\ at'[c].send = at[c].send
  <2>1. at'[c].resp[1] = "done"
    BY <1>5, <1>12
  <2>2. Responding(c)' = {} /\ Sending(c)' = Sending(c)
    BY <1>12, <2>1 DEF Responding, Sending
  <2>3. InLine(c)' /\ Answers(c)' /\ AuthKnown(c)'
    BY <1>1, <1>4, <1>10, <2>1, <2>2, Steady
  <2>4. PlacesOK(c)' /\ Member(c)'
    BY <1>1, <1>4, <1>8, <1>12, <2>1 DEF PlacesOK, Member, None, At
  <2>. QED
    BY <1>3, <1>9, <2>3, <2>4, Finish
<1>. QED
  BY <1>8, <1>11, <1>12

(* Send writes what it has, or fails and ends.                             *)
LEMMA SendWritesIInv == ASSUME IInv, NEW c \in Client, SendWrites(c) PROVE IInv'
<1>. DEFINE i == at[c].send[2]
<1>1. /\ UNCHANGED <<script, sent, conn, authed, passing, unauthed, post, requestH,
                     job, bsem, events, quit, targets, wsClients>>
      /\ at[c].send \notin {None, At("range"), At("remove"), Done}
  BY DEF SendWrites, serverVars
<1>2. /\ at \in [Client -> Goroutines] /\ at[c].send \in Place /\ i \in Nat
      /\ replied \in [Client -> Seq(Nat)] /\ replied[c] \in Seq(Nat) /\ sent[c] \in Nat
  BY DEF IInv, Types, Goroutines, Place
<1>3. HandlersOK' /\ JobAuthed'
  BY <1>1, JobFrame DEF IInv, HandlersOK
<1>4. InLine(c) /\ Answers(c) /\ AuthKnown(c) /\ PlacesOK(c) /\ Member(c)
  BY DEF IInv, ClientOK
<1>5. PICK place \in {At("range"), At("remove")} :
        /\ at' = [at EXCEPT ![c].send = place]
        /\ replied' = IF place = At("range") /\ at[c].send[1] = "reply"
                        THEN [replied EXCEPT ![c] = Append(replied[c], i)]
                        ELSE replied
  <2>1. At("range") # At("remove")
    BY DEF At
  <2>2. [replied EXCEPT ![c] = replied[c]] = replied
    BY <1>2
  <2>. QED
    BY <2>1, <2>2 DEF SendWrites
<1>6. /\ place \in Place /\ place[1] \in {"range", "remove"}
      /\ place[1] = "remove" <=> place = At("remove")
      /\ place[1] = "range" <=> place = At("range")
  BY <1>5 DEF At, Place, Name
<1>7. /\ at' \in [Client -> Goroutines]
      /\ \A e \in Client \ {c} : at'[e] = at[e]
      /\ at'[c].rpc = at[c].rpc /\ at'[c].read = at[c].read /\ at'[c].gate = at[c].gate
      /\ at'[c].resp = at[c].resp /\ at'[c].send = place
  <2>1. at' = [at EXCEPT ![c].send = place] /\ place \in Place
    BY <1>5, <1>6
  <2>2. at \in [Client -> Goroutines]
    BY <1>2
  <2>. HIDE DEF i
  <2>. QED
    BY <2>1, <2>2 DEF Goroutines
<1>8. /\ replied' \in [Client -> Seq(Nat)]
      /\ \A e \in Client \ {c} : replied'[e] = replied[e]
      /\ replied'[c] = IF place = At("range") /\ at[c].send[1] = "reply"
                         THEN Append(replied[c], i) ELSE replied[c]
  BY <1>2, <1>5
<1>9. Types' /\ Alone(c)
  BY <1>1, <1>7, <1>8 DEF IInv, Types, Alone, SameFor
<1>10. /\ Offered(c)' = Offered(c) /\ Gated(c)' = Gated(c) /\ Buffered(c)' = Buffered(c)
       /\ Queued(c)' = Queued(c) /\ Responding(c)' = Responding(c)
       /\ Sending(c)' = {}
  <2>1. Offered(c)' = Offered(c) /\ Gated(c)' = Gated(c) /\ Responding(c)' = Responding(c)
    BY <1>7 DEF Offered, Gated, Responding
  <2>2. Sending(c)' = {}
    <3>1. at'[c].send[1] # "reply"
      BY <1>6, <1>7
    <3>. QED
      BY <3>1 DEF Sending
  <2>3. Buffered(c)' = Buffered(c) /\ Queued(c)' = Queued(c)
    BY <1>1 DEF Buffered, Queued, Kind
  <2>. QED
    BY <2>1, <2>2, <2>3
<1>11. ~Gone(c) /\ (place = At("remove") => Gone(c)') /\ (place = At("range") => ~Gone(c)')
  BY <1>1, <1>7 DEF Gone, At, Done
<1>12. PlacesOK(c)'
  BY <1>1, <1>4, <1>7 DEF PlacesOK, None, At
<1>13. Member(c)'
  <2>1. place \notin {None, Done}
    BY <1>5 DEF None, Done, At
  <2>. QED
    BY <1>1, <1>4, <1>5, <1>7, <2>1 DEF Member
<1>14. CASE place = At("range") /\ at[c].send[1] = "reply"
  <2>1. Sending(c) = {i} /\ replied'[c] = Append(replied[c], i)
    BY <1>8, <1>14 DEF Sending
  <2>2. Pending(c)' = Pending(c) /\ Handled(c)' = Handled(c)
    BY <1>10 DEF Pending, Handled
  <2>. HIDE DEF i
  <2>3. /\ Increasing(replied[c])' /\ Replied(c)' = Replied(c) \cup {i}
    <3>1. Increasing(replied[c]) /\ \A n \in 1 .. Len(replied[c]) : replied[c][n] < i
      BY <1>4, <2>1 DEF Answers, Below, Replied
    <3>2. /\ Increasing(Append(replied[c], i))
          /\ {Append(replied[c], i)[n] : n \in 1 .. Len(Append(replied[c], i))}
               = {replied[c][n] : n \in 1 .. Len(replied[c])} \cup {i}
      BY <1>2, <3>1, AppendIncreases
    <3>. QED
      BY <2>1, <3>2 DEF Increasing, Replied
  <2>4. InLine(c)'
    BY <1>1, <1>4, <1>10, <2>2 DEF InLine, Below, Increasing
  <2>5. Answers(c)'
    <3>1. /\ Responding(c)' \subseteq Handled(c)' /\ Sending(c)' \subseteq Handled(c)'
          /\ Replied(c)' \subseteq Handled(c)'
      BY <1>4, <1>10, <2>1, <2>2, <2>3 DEF Answers
    <3>2. at'[c].resp[1] # "done" /\ ~Gone(c)' =>
            Handled(c)' \subseteq Replied(c)' \cup Sending(c)' \cup Responding(c)'
      BY <1>4, <1>7, <1>10, <1>11, <2>1, <2>2, <2>3 DEF Answers
    <3>3. /\ Below(Sending(c), Responding(c))'
          /\ Below(Replied(c), Sending(c) \cup Responding(c))'
      BY <1>4, <1>10, <2>1, <2>3 DEF Answers, Below
    <3>4. \A x \in Sending(c)' \cup Replied(c)' : \A j \in Queued(c)' :
            j < x => j \in Replied(c)'
      BY <1>4, <1>10, <2>1, <2>3 DEF Answers
    <3>. QED
      BY <2>3, <3>1, <3>2, <3>3, <3>4 DEF Answers
  <2>6. AuthKnown(c)'
    <3>1. Auths(c)' = Auths(c)
      BY <1>1, <2>2 DEF Auths, Kind
    <3>2. OneAuth(c, Auths(c)) => OneAuth(c, Auths(c))'
      BY <1>1, <3>1 DEF OneAuth, Kind
    <3>3. AuthsUpTo(c, at[c].resp[2])' = AuthsUpTo(c, at[c].resp[2])
      BY <1>1, <1>7 DEF AuthsUpTo, Kind
    <3>4. OneAuth(c, AuthsUpTo(c, at[c].resp[2])) => OneAuth(c, AuthsUpTo(c, at[c].resp[2]))'
      BY <1>1, <3>3 DEF OneAuth, Kind
    <3>. QED
      BY <1>1, <1>4, <1>7, <3>1, <3>2, <3>4 DEF AuthKnown
  <2>. QED
    BY <1>3, <1>9, <1>12, <1>13, <2>4, <2>5, <2>6, Finish
<1>15. CASE ~(place = At("range") /\ at[c].send[1] = "reply")
  <2>1. replied'[c] = replied[c]
    BY <1>8, <1>15
  <2>2. at'[c].resp[1] # "done" => Gone(c)' \/ (~Gone(c) /\ Sending(c)' = Sending(c))
    <3>1. CASE place = At("remove")
      BY <1>11, <3>1
    <3>2. CASE place = At("range")
      BY <1>10, <1>11, <1>15, <3>2 DEF Sending
    <3>. QED
      BY <3>1, <3>2, <1>5
  <2>3. InLine(c)' /\ Answers(c)' /\ AuthKnown(c)'
    BY <1>1, <1>4, <1>7, <1>10, <2>1, <2>2, Steady
  <2>. QED
    BY <1>3, <1>9, <1>12, <1>13, <2>3, Finish
<1>. QED
  BY <1>14, <1>15
-----------------------------------------------------------------------------
LEMMA NextIInv == IInv /\ [Next]_vars => IInv'
<1>. SUFFICES ASSUME IInv, [Next]_vars PROVE IInv'
  OBVIOUS
<1>1. ASSUME NEW c \in Client,
             ReadMessage(c) \/ GatewayStep(c) \/ RespondStep(c) \/ SendStep(c) \/ RpcStep(c)
               \/ PassStep(c) \/ Connect(c) \/ Disconnect(c) \/ NotifyClient(c)
      PROVE  IInv'
  <2>1. CASE ReadMessage(c)
    BY <2>1, ReadMessageIInv
  <2>2. CASE GatewayStep(c)
    BY <2>2, GatewayReadsIInv, GatewayQueuesIInv, EndIInv, NoReplyIInv DEF GatewayStep
  <2>3. CASE RespondStep(c)
    BY <2>3, RespondReadsIInv, RespondSendsIInv, EndIInv DEF RespondStep
  <2>4. CASE SendStep(c)
    BY <2>4, SendWritesIInv, EndIInv DEF SendStep
  <2>5. CASE RpcStep(c)
    BY <2>5, AddClientIInv, ConnectionIInv, NoReplyIInv DEF RpcStep
  <2>6. CASE PassStep(c) \/ NotifyClient(c)
    BY <2>6, NoReplyIInv DEF PassStep
  <2>7. CASE Connect(c) \/ Disconnect(c)
    BY <2>7, ConnectionIInv
  <2>. QED
    BY <1>1, <2>1, <2>2, <2>3, <2>4, <2>5, <2>6, <2>7
<1>2. CASE HandlerTakes \/ HandlerReplies
  BY <1>2, HandlerTakesIInv, HandlerRepliesIInv
<1>3. CASE ServerMove
  BY <1>3, ServerIInv
<1>4. CASE UNCHANGED vars
  <2>1. /\ UNCHANGED <<script, sent, conn, authed, at, passing, unauthed, replied>>
        /\ UNCHANGED <<post, requestH, job, targets, wsClients, events, bsem, quit>>
    BY <1>4 DEF vars, clientVars, serverVars
  <2>2. Types' /\ HandlersOK' /\ JobAuthed'
    BY <2>1, JobFrame DEF IInv, Types, HandlersOK
  <2>3. \A e \in Client : SameFor(e)
    BY <2>1 DEF SameFor
  <2>. QED
    BY <2>2, <2>3, ServerStep
<1>. QED
  BY <1>1, <1>2, <1>3, <1>4
  DEF Next, Program, Environment, NotifyStep, HandlerStep, ChainStep, ServerMove

LEMMA Invariance == Spec => []IInv
<1>. QED
  BY InitIInv, NextIInv, PTL DEF Spec

(* A handler runs for a websocket client only after that client has        *)
(* authenticated, however many clients there are and whatever they send:   *)
(* authed, which Respond reads and writes, is about exactly the requests   *)
(* before the one it has (invalidAuth, WebsocketClientRespond).            *)
THEOREM ClientsAuthenticate == Spec => []AuthFirst
<1>1. IInv => AuthFirst
  <2>. SUFFICES ASSUME IInv, requestH \in Busy, NEW c \in Client, job.from = c
                PROVE  LET auths == AuthsUpTo(c, job.id) IN
                         IF script[c] \in Preauthed THEN auths = {}
                         ELSE Cardinality(auths) = 1 /\ \A i \in auths : Kind(c, i) = "auth"
    BY DEF AuthFirst, AuthsUpTo, Busy
  <2>1. OneAuth(c, AuthsUpTo(c, job.id))
    BY DEF IInv, JobAuthed, Busy
  <2>2. CASE script[c] \in Preauthed
    BY <2>1, <2>2 DEF OneAuth
  <2>3. CASE script[c] \notin Preauthed
    <3>1. PICK i \in AuthsUpTo(c, job.id) :
            AuthsUpTo(c, job.id) = {i} /\ Kind(c, i) = "auth"
      BY <2>1, <2>3 DEF OneAuth
    <3>2. Cardinality({i}) = 1
      BY FS_Singleton
    <3>. QED
      BY <2>3, <3>1, <3>2
  <2>. QED
    BY <2>2, <2>3
<1>. QED
  BY <1>1, Invariance, PTL

(* The replies that reach a websocket client answer its requests in order, *)
(* none skipped and none twice, for any script and any buffer: allRequests *)
(* and unauthedRequests are queues, Respond has one request at a time, and *)
(* Send has one reply at a time.                                           *)
THEOREM RepliesComeInOrder == Spec => []RepliesInOrder
<1>1. IInv => RepliesInOrder
  <2>. SUFFICES ASSUME IInv, NEW c \in Client, NEW n \in DOMAIN replied[c]
                PROVE  /\ replied[c][n] \in Queued(c)
                       /\ \A i \in Queued(c) :
                            i < replied[c][n] <=> \E m \in 1 .. n - 1 : replied[c][m] = i
    BY DEF RepliesInOrder
  <2>1. Answers(c) /\ replied[c] \in Seq(Nat)
    BY DEF IInv, ClientOK, Types
  <2>2. /\ n \in 1 .. Len(replied[c]) /\ Len(replied[c]) \in Nat
        /\ \A m \in 1 .. Len(replied[c]) : replied[c][m] \in Nat
    BY <2>1
  <2>3. replied[c][n] \in Replied(c)
    BY <2>2 DEF Replied
  <2>4. replied[c][n] \in Queued(c)
    BY <2>1, <2>3 DEF Answers, Handled
  <2>5. ASSUME NEW i \in Queued(c), i < replied[c][n]
        PROVE  \E m \in 1 .. n - 1 : replied[c][m] = i
    <3>1. i \in Replied(c)
      BY <2>1, <2>3, <2>5 DEF Answers
    <3>2. PICK m \in 1 .. Len(replied[c]) : replied[c][m] = i
      BY <3>1 DEF Replied
    <3>3. ~(n < m) /\ n # m
      BY <2>1, <2>2, <2>5, <3>2 DEF Answers, Increasing
    <3>. QED
      BY <2>2, <3>2, <3>3
  <2>6. ASSUME NEW m \in 1 .. n - 1 PROVE replied[c][m] < replied[c][n]
    <3>1. m \in 1 .. Len(replied[c]) /\ m < n
      BY <2>2
    <3>. QED
      BY <2>1, <2>2, <3>1 DEF Answers, Increasing
  <2>. QED
    BY <2>4, <2>5, <2>6
<1>. QED
  BY <1>1, Invariance, PTL

(* Until the server stops, a client whose Send goroutine runs is in        *)
(* wsClients and one whose Send goroutine has ended is not                 *)
(* (addClient, removeClient, NotificationHandler), whatever is broadcast   *)
(* while clients come and go.                                              *)
THEOREM RegistrationKept == Spec => []Registered
<1>1. IInv => Registered
  <2>. SUFFICES ASSUME IInv PROVE Registered
    OBVIOUS
  <2>1. quit \/ \A c \in Client : at[c].send \notin {None, At("remove")} =>
                 (c \in wsClients <=> at[c].send # Done)
    BY DEF IInv, ClientOK, Member
  <2>2. ASSUME NEW c \in Client
        PROVE  /\ sent[c] \in 0 .. Len(script[c]) /\ passing[c] \subseteq 1 .. sent[c]
               /\ conn[c] \in {"none", "open", "gone"} /\ authed[c] \in BOOLEAN
               /\ Len(unauthed[c]) <= MaxBuffered
               /\ at[c].rpc[1] \in {"none", "add", "notify", "wait", "done"}
               /\ at[c].read[1] \in {"none", "read", "offer", "done"}
               /\ at[c].gate[1] \in {"none", "select", "queue", "error", "done"}
               /\ at[c].resp[1] \in {"none", "range", "offer", "wait", "reply", "done"}
    <3>1. script[c] \in Seq(Kinds) /\ sent[c] \in Nat /\ sent[c] <= Len(script[c])
      BY ServerAssumption DEF IInv, Types, ClientOK, PlacesOK
    <3>2. Len(script[c]) \in Nat
      BY <3>1
    <3>. QED
      BY <3>1, <3>2 DEF IInv, Types, ClientOK, PlacesOK
  <2>3. TypeOK
    BY <2>2 DEF IInv, Types, HandlersOK, TypeOK
  <2>. QED
    BY <2>1, <2>3 DEF Registered
<1>. QED
  BY <1>1, Invariance, PTL
=============================================================================
