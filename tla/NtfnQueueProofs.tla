-------------------------- MODULE NtfnQueueProofs --------------------------
(***************************************************************************)
(* Proofs about the notification pipeline, for any set of notifications    *)
(* and any number of callbacks.                                            *)
(*                                                                         *)
(* OfferIsOldest and DrainedAtEnd need each other: the queue leaves its    *)
(* loop after a hand-over only because it had stopped reading, which it    *)
(* does only once it was stopped.  Conserved needs OfferIsOldest: what is  *)
(* handed over is the variable next, what is removed is the head of q.     *)
(***************************************************************************)
EXTENDS NtfnQueue, SequenceTheorems, TLAPS

IInv == TypeOK /\ Conserved /\ OfferIsOldest /\ DrainedAtEnd
-----------------------------------------------------------------------------
(* Moving the head of a queue to the end of what was handed over leaves    *)
(* the two concatenated as they were.                                      *)
LEMMA MoveHead ==
  ASSUME NEW S, NEW d \in Seq(S), NEW r \in Seq(S), r # <<>>
  PROVE  /\ Append(d, Head(r)) \o Tail(r) = d \o r
         /\ Len(d) < Len(d \o r)
         /\ (d \o r)[Len(d) + 1] = Head(r)
<1>1. /\ Head(r) \in S /\ Tail(r) \in Seq(S) /\ Len(r) \in Nat /\ Len(r) > 0
      /\ Len(Tail(r)) = Len(r) - 1
      /\ \A i \in 1..Len(Tail(r)) : Tail(r)[i] = r[i + 1]
      /\ Head(r) = r[1]
  BY HeadTailProperties, EmptySeq, LenProperties
<1>2. /\ Append(d, Head(r)) \in Seq(S)
      /\ Len(Append(d, Head(r))) = Len(d) + 1
      /\ \A i \in 1..Len(d) : Append(d, Head(r))[i] = d[i]
      /\ Append(d, Head(r))[Len(d) + 1] = Head(r)
  BY <1>1, AppendProperties
<1>3. /\ d \o r \in Seq(S)
      /\ Len(d \o r) = Len(d) + Len(r)
      /\ \A i \in 1..Len(d) + Len(r) :
           (d \o r)[i] = IF i <= Len(d) THEN d[i] ELSE r[i - Len(d)]
  BY ConcatProperties
<1>. DEFINE e == Append(d, Head(r)) \o Tail(r)
<1>4. /\ e \in Seq(S)
      /\ Len(e) = Len(d) + Len(r)
      /\ \A i \in 1..Len(d) + Len(r) :
           e[i] = IF i <= Len(d) + 1 THEN Append(d, Head(r))[i]
                                     ELSE Tail(r)[i - (Len(d) + 1)]
  BY <1>1, <1>2, ConcatProperties, LenProperties
<1>5. \A i \in 1..Len(e) : e[i] = (d \o r)[i]
  BY <1>1, <1>2, <1>3, <1>4, LenProperties
<1>6. e = d \o r
  BY <1>3, <1>4, <1>5, SeqEqual
<1>. QED
  BY <1>1, <1>3, <1>6, LenProperties
-----------------------------------------------------------------------------
LEMMA InitIInv == Init => IInv
BY ConcatEmptySeq, EmptySeq
DEF Init, IInv, TypeOK, Conserved, OfferIsOldest, DrainedAtEnd

(* Enqueue puts the same element at the end of q and of accepted.          *)
LEMMA EnqueueIInv == IInv /\ Enqueue => IInv'
<1>. SUFFICES ASSUME IInv, Enqueue PROVE IInv'
  OBVIOUS
<1>. USE DEF IInv, Enqueue, Arm
<1>1. callback \in Ntfn
  BY DEF TypeOK
<1>2. /\ q' \in Seq(Ntfn)
      /\ q' # <<>>
      /\ q = <<>> => Head(q') = callback
      /\ q # <<>> => Head(q') = Head(q)
  <2>1. /\ Len(q') = Len(q) + 1
        /\ \A i \in 1..Len(q) : q'[i] = q[i]
        /\ q'[Len(q) + 1] = callback
        /\ q' \in Seq(Ntfn)
    BY <1>1, AppendProperties DEF TypeOK
  <2>2. q' # <<>>
    BY <2>1, EmptySeq, LenProperties DEF TypeOK
  <2>. QED
    BY <2>1, <2>2, HeadTailProperties, EmptySeq, LenProperties DEF TypeOK
<1>3. TypeOK'
  BY <1>1, <1>2, AppendProperties DEF TypeOK
<1>4. Conserved'
  <2>1. /\ Append(q, callback) = q \o <<callback>>
        /\ Append(delivered \o q, callback) = (delivered \o q) \o <<callback>>
    BY <1>1, AppendIsConcat, ConcatProperties DEF TypeOK
  <2>2. (delivered \o q) \o <<callback>> = delivered \o (q \o <<callback>>)
    BY <1>1, ConcatAssociative DEF TypeOK
  <2>. QED
    BY <2>1, <2>2 DEF Conserved
<1>5. OfferIsOldest'
  BY <1>1, <1>2 DEF TypeOK, OfferIsOldest
<1>6. DrainedAtEnd'
  BY DEF TypeOK, DrainedAtEnd
<1>. QED
  BY <1>3, <1>4, <1>5, <1>6

(* Dequeue moves the head of q to the end of delivered: next is that head. *)
LEMMA DequeueIInv == IInv /\ Dequeue => IInv'
<1>. SUFFICES ASSUME IInv, Dequeue PROVE IInv'
  OBVIOUS
<1>1. q # <<>> /\ next = Head(q) /\ (~enqueue => closed)
  BY DEF IInv, OfferIsOldest, Dequeue
<1>2. Head(q) \in Ntfn /\ Tail(q) \in Seq(Ntfn)
  BY <1>1, HeadTailProperties DEF IInv, TypeOK
<1>3. /\ q' = Tail(q) /\ delivered' = Append(delivered, Head(q))
      /\ accepted' = accepted
  BY <1>1 DEF Dequeue
<1>4. Tail(q) # <<>> => Head(Tail(q)) \in Ntfn
  BY <1>2, HeadTailProperties
<1>5. TypeOK'
  <2>1. delivered' \in Seq(Ntfn) /\ q' \in Seq(Ntfn) /\ handling' \in Ntfn
    BY <1>1, <1>2, <1>3, AppendProperties DEF IInv, TypeOK, Dequeue
  <2>2. next' \in Ntfn \cup {None} /\ dequeue' \in BOOLEAN /\ out' \in BOOLEAN
    BY <1>4 DEF IInv, TypeOK, Dequeue, Advance
  <2>. QED
    BY <2>1, <2>2 DEF IInv, TypeOK, Dequeue
<1>6. Conserved'
  BY <1>1, <1>3, MoveHead DEF IInv, TypeOK, Conserved
<1>7. OfferIsOldest'
  BY <1>1, <1>3 DEF IInv, OfferIsOldest, Dequeue, Advance
<1>8. DrainedAtEnd'
  BY <1>1, <1>3 DEF IInv, DrainedAtEnd, Dequeue, Advance
<1>. QED
  BY <1>5, <1>6, <1>7, <1>8 DEF IInv

LEMMA NextIInv == IInv /\ [Next]_vars => IInv'
<1>. SUFFICES ASSUME IInv, [Next]_vars PROVE IInv'
  OBVIOUS
<1>1. ASSUME NEW n \in Ntfn, Callback(n) PROVE IInv'
  BY <1>1 DEF IInv, TypeOK, Conserved, OfferIsOldest, DrainedAtEnd,
              Callback, queueVars
<1>2. CASE Stop
  BY <1>2 DEF IInv, TypeOK, Conserved, OfferIsOldest, DrainedAtEnd,
              Stop, queueVars
<1>3. CASE SendOnClosed
  BY <1>3 DEF IInv, TypeOK, Conserved, OfferIsOldest, DrainedAtEnd,
              SendOnClosed, queueVars
<1>4. CASE Enqueue
  BY <1>4, EnqueueIInv
<1>5. CASE EnqueueClosed
  BY <1>5 DEF IInv, TypeOK, Conserved, OfferIsOldest, DrainedAtEnd, EnqueueClosed
<1>6. CASE Dequeue
  BY <1>6, DequeueIInv
<1>7. CASE CloseDequeue
  BY <1>7 DEF IInv, TypeOK, Conserved, OfferIsOldest, DrainedAtEnd, CloseDequeue
<1>8. CASE Handle
  BY <1>8 DEF IInv, TypeOK, Conserved, OfferIsOldest, DrainedAtEnd,
              Handle, queueVars
<1>9. CASE HandlerReturn
  BY <1>9 DEF IInv, TypeOK, Conserved, OfferIsOldest, DrainedAtEnd,
              HandlerReturn, queueVars
<1>10. CASE UNCHANGED vars
  BY <1>10 DEF IInv, TypeOK, Conserved, OfferIsOldest, DrainedAtEnd,
               vars, queueVars
<1>. QED
  BY <1>1, <1>2, <1>3, <1>4, <1>5, <1>6, <1>7, <1>8, <1>9, <1>10 DEF Next

(* notificationQueue keeps the notifications in order without losing or    *)
(* duplicating one, always offers the oldest, and leaves its loop only     *)
(* after Stop and with an empty queue: together these are inductive.       *)
THEOREM QueueInvariant == Spec => []IInv
BY InitIInv, NextIInv, PTL DEF Spec

(* The variables of the pipeline keep their types.                         *)
THEOREM TypeCorrect == Spec => []TypeOK
<1>1. IInv => TypeOK
  BY DEF IInv
<1>. QED
  BY <1>1, QueueInvariant, PTL

(* What notificationQueue sent followed by what it still holds is what it  *)
(* received (rpcclient.go 376-413).                                        *)
THEOREM NothingLost == Spec => []Conserved
<1>1. IInv => Conserved
  BY DEF IInv
<1>. QED
  BY <1>1, QueueInvariant, PTL

(* Its select is armed exactly while something is queued, and offers the   *)
(* oldest element (rpcclient.go 392-411).                                  *)
THEOREM OffersOldest == Spec => []OfferIsOldest
<1>1. IInv => OfferIsOldest
  BY DEF IInv
<1>. QED
  BY <1>1, QueueInvariant, PTL

(* dequeueNotification is closed only after Stop and when everything was   *)
(* handed over (rpcclient.go 383-391, 407-414).                            *)
THEOREM EndsDrained == Spec => []DrainedAtEnd
<1>1. IInv => DrainedAtEnd
  BY DEF IInv
<1>. QED
  BY <1>1, QueueInvariant, PTL
-----------------------------------------------------------------------------
(* Every step of the pipeline is a step of the abstract stream or leaves   *)
(* it as it is.                                                            *)
LEMMA NextRefines == IInv /\ [Next]_vars => [Fifo!Next]_Fifo!vars
<1>. SUFFICES ASSUME IInv, [Next]_vars PROVE [Fifo!Next]_Fifo!vars
  OBVIOUS
<1>1. ASSUME NEW n \in Ntfn, Callback(n) PROVE UNCHANGED Fifo!vars
  BY <1>1 DEF Callback, queueVars, Fifo!vars
<1>2. CASE Stop
  BY <1>2 DEF Stop, queueVars, Fifo!Next, Fifo!Stop
<1>3. CASE SendOnClosed
  BY <1>3 DEF SendOnClosed, queueVars, Fifo!vars
<1>4. CASE Enqueue
  <2>1. callback \in Ntfn
    BY <1>4 DEF Enqueue, IInv, TypeOK
  <2>2. Fifo!Accept
    BY <1>4, <2>1 DEF Enqueue, Fifo!Accept
  <2>. QED
    BY <2>2 DEF Fifo!Next
<1>5. CASE EnqueueClosed
  BY <1>5 DEF EnqueueClosed, Fifo!vars
<1>6. CASE Dequeue
  <2>1. q # <<>> /\ next = Head(q)
    BY <1>6 DEF Dequeue, IInv, OfferIsOldest
  <2>2. /\ Len(delivered) < Len(accepted)
        /\ accepted[Len(delivered) + 1] = next
    BY <2>1, MoveHead DEF IInv, TypeOK, Conserved
  <2>3. Fifo!Deliver
    BY <1>6, <2>2 DEF Dequeue, Fifo!Deliver
  <2>. QED
    BY <2>3 DEF Fifo!Next
<1>7. CASE CloseDequeue
  <2>1. closed /\ accepted = delivered
    BY <1>7, ConcatEmptySeq
    DEF CloseDequeue, IInv, TypeOK, Conserved, DrainedAtEnd
  <2>2. Fifo!End
    BY <1>7, <2>1 DEF CloseDequeue, Fifo!End
  <2>. QED
    BY <2>2 DEF Fifo!Next
<1>8. CASE Handle
  BY <1>8 DEF Handle, queueVars, Fifo!vars
<1>9. CASE HandlerReturn
  BY <1>9 DEF HandlerReturn, queueVars, Fifo!vars
<1>10. CASE UNCHANGED vars
  BY <1>10 DEF vars, queueVars, Fifo!vars
<1>. QED
  BY <1>1, <1>2, <1>3, <1>4, <1>5, <1>6, <1>7, <1>8, <1>9, <1>10 DEF Next

(* The goroutines of rpcclient.go implement the in-order, exactly-once     *)
(* stream that ends only after Stop and only when drained.                 *)
THEOREM Refinement == Spec => FifoSpec
<1>1. Init => Fifo!Init
  BY DEF Init, Fifo!Init
<1>. QED
  BY <1>1, QueueInvariant, NextRefines, PTL DEF Spec, FifoSpec, Fifo!Spec
=============================================================================
