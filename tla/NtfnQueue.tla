----------------------------- MODULE NtfnQueue -----------------------------
(***************************************************************************)
(* The notification pipeline of rpcclient.go: the btcrpcclient callbacks   *)
(* (onBlockConnected, onRecvTx, ...) send on the unbuffered channel        *)
(* enqueueNotification, the goroutine notificationQueue buffers without    *)
(* bound and offers the oldest one on the unbuffered dequeueNotification,  *)
(* and the goroutine handleNotifications receives and handles one at a     *)
(* time.  Stop closes enqueueNotification; the queue drains what it holds  *)
(* and then closes dequeueNotification.                                    *)
(*                                                                         *)
(* A send on an unbuffered channel and its receive are one step.  A local  *)
(* channel variable that the code sets to nil is a BOOLEAN here: FALSE for *)
(* nil, on which no communication can happen.                              *)
(***************************************************************************)
EXTENDS Naturals, Sequences

CONSTANTS Ntfn,         \* the notifications the chain server can send
          None,         \* no notification
          MaxSent       \* bound: callbacks made by the chain client library

ASSUME NtfnAssumption == None \notin Ntfn
ASSUME MaxSentAssumption == MaxSent \in Nat

VARIABLES
  callback,   \* the notification a callback is sending, or None
  closed,     \* c.quit and c.enqueueNotification were closed by Stop
  q,          \* notificationQueue's slice q
  next,       \* notificationQueue's variable next (None before the first)
  enqueue,    \* whether notificationQueue's variable enqueue is non-nil
  dequeue,    \* whether notificationQueue's variable dequeue is non-nil
  out,        \* notificationQueue broke out of its loop
  ended,      \* notificationQueue closed dequeueNotification and returned
  handling,   \* the notification handleNotifications is handling, or None
  returned,   \* handleNotifications returned
  panicked,   \* a callback sent on the closed channel: the process died
  accepted,   \* history: what was received from enqueueNotification
  delivered   \* history: what was sent on dequeueNotification

queueVars == <<q, next, enqueue, dequeue, out, ended>>
vars == <<callback, closed, queueVars, handling, returned, panicked,
          accepted, delivered>>

TypeOK == /\ callback \in Ntfn \cup {None}
          /\ closed \in BOOLEAN
          /\ q \in Seq(Ntfn)
          /\ next \in Ntfn \cup {None}
          /\ enqueue \in BOOLEAN
          /\ dequeue \in BOOLEAN
          /\ out \in BOOLEAN
          /\ ended \in BOOLEAN
          /\ handling \in Ntfn \cup {None}
          /\ returned \in BOOLEAN
          /\ panicked \in BOOLEAN
          /\ accepted \in Seq(Ntfn)
          /\ delivered \in Seq(Ntfn)

Init == /\ callback = None
        /\ closed = FALSE
        /\ q = <<>>
        /\ next = None
        /\ enqueue = TRUE
        /\ dequeue = FALSE
        /\ out = FALSE
        /\ ended = FALSE
        /\ handling = None
        /\ returned = FALSE
        /\ panicked = FALSE
        /\ accepted = <<>>
        /\ delivered = <<>>
-----------------------------------------------------------------------------
(* The library calls one callback at a time; it may do so at any moment,   *)
(* even after Stop.  MaxSent bounds how many it makes.                     *)
Callback(n) ==
  /\ ~panicked
  /\ callback = None
  /\ Len(accepted) < MaxSent
  /\ callback' = n
  /\ UNCHANGED <<closed, queueVars, handling, returned, panicked,
                 accepted, delivered>>

(* Stop: the select on c.quit makes the second and later calls no-ops.     *)
Stop ==
  /\ ~panicked
  /\ ~closed
  /\ closed' = TRUE
  /\ UNCHANGED <<callback, queueVars, handling, returned, panicked,
                 accepted, delivered>>

(* A callback that is sending, or starts to send, on the closed channel.   *)
SendOnClosed ==
  /\ ~panicked
  /\ closed
  /\ callback # None
  /\ panicked' = TRUE
  /\ UNCHANGED <<callback, closed, queueVars, handling, returned,
                 accepted, delivered>>
-----------------------------------------------------------------------------
(* A notification that arrives at the empty queue becomes the one offered. *)
ArmWithoutNext == IF q = <<>> THEN dequeue' = TRUE /\ UNCHANGED next
                              ELSE UNCHANGED <<next, dequeue>>
Arm == IF q = <<>> THEN dequeue' = TRUE /\ next' = callback
                   ELSE UNCHANGED <<next, dequeue>>

(* case n, ok := <-enqueue with ok: the callback's send completes.         *)
Enqueue ==
  /\ ~panicked
  /\ ~out
  /\ enqueue
  /\ ~closed
  /\ callback # None
  /\ Arm
  /\ q' = Append(q, callback)
  /\ accepted' = Append(accepted, callback)
  /\ callback' = None
  /\ UNCHANGED <<closed, enqueue, out, ended, handling, returned, panicked,
                 delivered>>

EnqueueClosedLosesQueue ==
  /\ ~panicked
  /\ ~out
  /\ enqueue
  /\ closed
  /\ out' = TRUE
  /\ UNCHANGED <<callback, closed, q, next, enqueue, dequeue, ended, handling,
                 returned, panicked, accepted, delivered>>

(* case n, ok := <-enqueue with !ok: leave the loop when nothing is        *)
(* queued, otherwise stop reading.                                         *)
EnqueueClosed ==
  /\ ~panicked
  /\ ~out
  /\ enqueue
  /\ closed
  /\ IF q = <<>>
       THEN /\ out' = TRUE
            /\ UNCHANGED enqueue
       ELSE /\ enqueue' = FALSE
            /\ UNCHANGED out
  /\ UNCHANGED <<callback, closed, q, next, dequeue, ended, handling,
                 returned, panicked, accepted, delivered>>

(* After a hand-over: offer the next one, or else finish if nothing more   *)
(* can arrive, or else offer nothing.                                      *)
AdvanceStale ==
  IF Tail(q) # <<>>
    THEN UNCHANGED <<next, dequeue, out>>
    ELSE /\ UNCHANGED next
         /\ IF enqueue THEN dequeue' = FALSE /\ UNCHANGED out
                       ELSE out' = TRUE /\ UNCHANGED dequeue
AdvanceNeverOut ==
  IF Tail(q) # <<>>
    THEN next' = Head(Tail(q)) /\ UNCHANGED <<dequeue, out>>
    ELSE dequeue' = FALSE /\ UNCHANGED <<next, out>>
Advance ==
  IF Tail(q) # <<>>
    THEN next' = Head(Tail(q)) /\ UNCHANGED <<dequeue, out>>
    ELSE /\ UNCHANGED next
         /\ IF enqueue THEN dequeue' = FALSE /\ UNCHANGED out
                       ELSE out' = TRUE /\ UNCHANGED dequeue

(* case dequeue <- next: the handler goroutine receives next.              *)
Dequeue ==
  /\ ~panicked
  /\ ~out
  /\ dequeue
  /\ ~returned
  /\ handling = None
  /\ handling' = next
  /\ delivered' = Append(delivered, next)
  /\ q' = Tail(q)
  /\ Advance
  /\ UNCHANGED <<callback, closed, enqueue, ended, returned, panicked,
                 accepted>>

(* close(c.dequeueNotification) after the loop.                            *)
CloseDequeue ==
  /\ ~panicked
  /\ out
  /\ ~ended
  /\ ended' = TRUE
  /\ UNCHANGED <<callback, closed, q, next, enqueue, dequeue, out, handling,
                 returned, panicked, accepted, delivered>>
-----------------------------------------------------------------------------
(* The body of handleNotifications' loop: whatever handleNotification      *)
(* returns, an error is only logged.                                       *)
Handle ==
  /\ ~panicked
  /\ handling # None
  /\ handling' = None
  /\ UNCHANGED <<callback, closed, queueVars, returned, panicked,
                 accepted, delivered>>

(* The range over dequeueNotification ends once the channel is closed.     *)
HandlerReturn ==
  /\ ~panicked
  /\ ended
  /\ handling = None
  /\ ~returned
  /\ returned' = TRUE
  /\ UNCHANGED <<callback, closed, queueVars, handling, panicked,
                 accepted, delivered>>

Next == \/ \E n \in Ntfn : Callback(n)
        \/ Stop
        \/ SendOnClosed
        \/ Enqueue
        \/ EnqueueClosed
        \/ Dequeue
        \/ CloseDequeue
        \/ Handle
        \/ HandlerReturn

(* Every goroutine that can run eventually runs, and a select whose case   *)
(* stays ready eventually takes it.  Nothing makes the chain server call   *)
(* back, nothing makes the operator stop the client.                       *)
Fairness == /\ WF_vars(Enqueue)
            /\ WF_vars(EnqueueClosed)
            /\ WF_vars(Dequeue)
            /\ WF_vars(CloseDequeue)
            /\ WF_vars(Handle)
            /\ WF_vars(HandlerReturn)

Spec == Init /\ [][Next]_vars /\ Fairness
-----------------------------------------------------------------------------
(* Nothing is lost, duplicated or reordered on the way through the slice q *)
(* (rpcclient.go 376-413): what came out followed by what is still queued  *)
(* is what went in.                                                        *)
Conserved == accepted = delivered \o q

(* What the select of notificationQueue offers is decided before the loop  *)
(* blocks again, so it must never go stale: the send case is armed exactly *)
(* while something is queued, it offers the oldest element, and the queue  *)
(* stops reading only when it was stopped with something left to drain.    *)
OfferIsOldest ==
  ~out => /\ dequeue <=> q # <<>>
          /\ q # <<>> => next = Head(q)
          /\ ~enqueue => closed /\ q # <<>>

(* notificationQueue leaves its loop, and closes dequeueNotification, only *)
(* after Stop and with nothing left to hand over (386-388, 407-409).       *)
DrainedAtEnd == /\ out => closed /\ q = <<>>
                /\ ended => out

(* The goroutines implement the in-order, exactly-once, drain-then-end     *)
(* stream of NtfnFifo.                                                     *)
Fifo == INSTANCE NtfnFifo WITH stopped <- closed
FifoSpec == Fifo!Spec

(* Every notification the queue accepted reaches the handler goroutine,    *)
(* also when Stop is called while it is still queued, unless the process   *)
(* dies first.                                                             *)
EventuallyDelivered ==
  \A i \in 1..MaxSent :
    Len(accepted) >= i ~> (Len(delivered) >= i \/ panicked)

(* Stop leads both goroutines to return, which is what WaitForShutdown's   *)
(* wg.Wait needs, unless a callback still sending makes the process panic. *)
StopEnds == closed ~> (returned \/ panicked)
=============================================================================
