------------------------ MODULE RescanManagerProofs ------------------------
(***************************************************************************)
(* Proofs about the rescan manager, for any set of jobs and start heights. *)
(*                                                                         *)
(* The argument follows one token, the request of the current batch.  It   *)
(* is in exactly one place while the batch has jobs and nowhere while it   *)
(* has none: about to be sent, in sendJob, with rpcHandler, announced by a *)
(* queued rescanfinished, in status, or in jobHandler about to finish the  *)
(* batch.  What is known of the batch grows as the token moves on.         *)
(***************************************************************************)
EXTENDS RescanManager, SequenceTheorems, TLAPS

Item == [ch : {"sendJob"}, v : Request] \cup [ch : {"complete"}, v : Nat]
          \cup [ch : {"msgs"}, v : Msg] \cup {FinishBatch}

(* A request is sent first, a batch finished last.                         *)
TodoOK ==
  /\ todo \in Seq(Item)
  /\ \A i \in 1 .. Len(todo) : todo[i].ch = "sendJob" => i = 1
  /\ \A i \in 1 .. Len(todo) : todo[i].ch = "none" => i = Len(todo)

RpcOK == rpc \in [state : {"idle", "calling", "error", "noclient", "returned"},
                  req : Request]

TypeInv == TypeOK /\ TodoOK /\ RpcOK

(* Where the token can be.                                                 *)
InTodo == todo # <<>> /\ todo[1].ch = "sendJob"
InChan == sendJob # <<>>
InRpc == rpc.state \in {"calling", "error", "noclient"}
InNtfns == \E i \in 1 .. Len(ntfns) : ntfns[i] = "finished"
InStatus == status # <<>> /\ status[1] # "progress"
InFinish == todo # <<>> /\ todo[Len(todo)].ch = "none"

(* It is in one place at most, and nowhere while the batch is empty.       *)
OneToken ==
  /\ InTodo => ~InChan /\ ~InRpc /\ ~InNtfns /\ ~InStatus /\ ~InFinish
  /\ InChan => ~InRpc /\ ~InNtfns /\ ~InStatus /\ ~InFinish
  /\ InRpc => ~InNtfns /\ ~InStatus /\ ~InFinish
  /\ InNtfns => ~InStatus /\ ~InFinish
  /\ InStatus => ~InFinish
  /\ \A i, k \in 1 .. Len(ntfns) :
       ntfns[i] = "finished" /\ ntfns[k] = "finished" => i = k
  /\ Empty(curBatch) =>
       ~InTodo /\ ~InChan /\ ~InRpc /\ ~InNtfns /\ ~InStatus /\ ~InFinish

Ended(j) == j \in failed \/ \E r \in scanned : j \in r.jobs
Covered(j) == \E r \in scanned : j \in r.jobs /\ r.height <= StartHeight[j]

(* What its place says about the current batch.                            *)
Content ==
  /\ InTodo => todo[1].v = job(curBatch)
  /\ InChan => sendJob[1] = job(curBatch)
  /\ InRpc => rpc.req = job(curBatch)
  /\ rpc.state \in {"error", "noclient"} => curBatch.jobs \subseteq failed
  /\ InNtfns => job(curBatch) \in scanned
  /\ InStatus /\ status[1] = "finished" => job(curBatch) \in scanned
  /\ InStatus /\ status[1] = "failed" => curBatch.jobs \subseteq failed
  /\ InFinish => \A j \in curBatch.jobs : Ended(j)

(* A finished message speaks only of jobs a completed rescan covered.      *)
MsgTrue(m) == m.kind = "finished" => \A j \in m.jobs : Covered(j)
MessagesTrue ==
  /\ \A i \in 1 .. Len(todo) : todo[i].ch = "msgs" => MsgTrue(todo[i].v)
  /\ \A i \in 1 .. Len(msgs) : MsgTrue(msgs[i])
  /\ \A i \in 1 .. Len(listener) : MsgTrue(listener[i])

(* The ids of batches grow, a batch holds the jobs merged into it, and it  *)
(* starts no later than any of them asks for.                              *)
BatchesOK ==
  /\ curBatch.id > 0
  /\ nextBatch.id > curBatch.id
  /\ \A c \in closed : 0 < c /\ c < curBatch.id
  /\ \A j \in Job : batchOf[j] <= nextBatch.id
  /\ \A j \in Job : batchOf[j] = curBatch.id => j \in curBatch.jobs
  /\ \A j \in Job : batchOf[j] = nextBatch.id => j \in nextBatch.jobs
  /\ \A j \in curBatch.jobs : curBatch.height <= StartHeight[j]
  /\ \A j \in nextBatch.jobs : nextBatch.height <= StartHeight[j]

IInv == /\ TypeInv
        /\ OneToken
        /\ Content
        /\ MessagesTrue
        /\ BatchesOK
        /\ ClosedMeansEnded
        /\ SyncedCovered
-----------------------------------------------------------------------------
(* What merge makes of a batch.                                            *)
LEMMA MergeProps ==
  ASSUME NEW b \in Batch, Empty(b) <=> b.height = -1, NEW j \in Job
  PROVE  /\ merge(b, j) \in Batch
         /\ merge(b, j).id = b.id
         /\ merge(b, j).jobs = b.jobs \cup {j}
         /\ merge(b, j).height \in Nat
         /\ merge(b, j).height <= StartHeight[j]
         /\ ~Empty(b) => merge(b, j).height <= b.height
         /\ Empty(b) => merge(b, j).height = StartHeight[j]
         /\ Empty(merge(b, j)) <=> merge(b, j).height = -1
<1>1. StartHeight[j] \in Nat
  BY JobAssumption
<1>. DEFINE h == IF b.height = -1 \/ StartHeight[j] < b.height
                   THEN StartHeight[j] ELSE b.height
<1>2. merge(b, j) = [id |-> b.id, jobs |-> b.jobs \cup {j}, height |-> h]
  BY DEF merge, Batch
<1>3. h \in Nat /\ h <= StartHeight[j] /\ (b.height # -1 => h <= b.height)
  BY <1>1 DEF Batch
<1>. QED
  BY <1>1, <1>2, <1>3 DEF Batch, Empty
-----------------------------------------------------------------------------
LEMMA InitIInv == Init => IInv
<1>. SUFFICES ASSUME Init PROVE IInv
  OBVIOUS
<1>1. TypeOK
  BY JobAssumption DEF Init, TypeOK, Batch, Request, newRescanBatch, Empty, Idle, Free
<1>2. TodoOK /\ RpcOK
  BY DEF Init, TodoOK, RpcOK, Idle, Request
<1>3. OneToken /\ Content
  BY DEF Init, OneToken, Content, InTodo, InChan, InRpc, InNtfns, InStatus,
         InFinish, Idle
<1>4. MessagesTrue
  BY DEF Init, MessagesTrue
<1>5. BatchesOK /\ ClosedMeansEnded /\ SyncedCovered
  BY DEF Init, BatchesOK, ClosedMeansEnded, SyncedCovered, newRescanBatch
<1>. QED
  BY <1>1, <1>2, <1>3, <1>4, <1>5 DEF IInv, TypeInv
-----------------------------------------------------------------------------
(* What a handled item leaves to do.                                       *)
LEMMA TailOfTodo ==
  ASSUME TodoOK, todo # <<>>
  PROVE  /\ Tail(todo) \in Seq(Item)
         /\ Len(Tail(todo)) = Len(todo) - 1
         /\ Len(todo) \in Nat \ {0}
         /\ \A i \in 1 .. Len(Tail(todo)) :
              /\ i + 1 \in 1 .. Len(todo)
              /\ Tail(todo)[i] = todo[i + 1]
              /\ Tail(todo)[i].ch # "sendJob"
              /\ Tail(todo)[i].ch = "none" => i = Len(Tail(todo))
<1>1. todo \in Seq(Item) /\ Len(todo) \in Nat \ {0}
  BY DEF TodoOK
<1>2. Tail(todo) \in Seq(Item) /\ Len(Tail(todo)) = Len(todo) - 1
  BY <1>1
<1>3. ASSUME NEW i \in 1 .. Len(Tail(todo))
      PROVE  i + 1 \in 1 .. Len(todo) /\ Tail(todo)[i] = todo[i + 1]
  BY <1>1, <1>2
<1>4. ASSUME NEW i \in 1 .. Len(Tail(todo))
      PROVE  /\ Tail(todo)[i].ch # "sendJob"
             /\ Tail(todo)[i].ch = "none" => i = Len(Tail(todo))
  <2>1. i + 1 # 1 /\ i \in Nat
    BY <1>1, <1>2
  <2>2. /\ todo[i + 1].ch = "sendJob" => i + 1 = 1
        /\ todo[i + 1].ch = "none" => i + 1 = Len(todo)
    BY <1>3, Zenon DEF TodoOK
  <2>. QED
    BY <1>1, <1>2, <1>3, <2>1, <2>2
<1>. QED
  BY <1>1, <1>2, <1>3, <1>4

(* Every step keeps the types.                                             *)
LEMMA TypeStep == TypeInv /\ [Next]_vars => TypeInv'
<1>. SUFFICES ASSUME TypeInv, [Next]_vars PROVE TypeInv'
  OBVIOUS
<1>. USE DEF TypeInv, TypeOK, TodoOK, RpcOK, callerVars, handlerVars, netVars,
             listenVars
<1>1. ASSUME NEW j \in Job, GrabForImport(j) PROVE TypeInv'
  BY <1>1 DEF GrabForImport
<1>2. ASSUME NEW j \in Job, Submit(j) PROVE TypeInv'
  BY <1>2 DEF Submit
<1>3. ASSUME NEW j \in Job, Answered(j) PROVE TypeInv'
  BY <1>3 DEF Answered, Full
<1>4. CASE AddJob
  <2>. DEFINE j == Head(addJob)
  <2>1. j \in Job /\ StartHeight[j] \in Nat
    BY <1>4, JobAssumption DEF AddJob, Full
  <2>2. /\ curBatch' \in Batch /\ (Empty(curBatch') <=> curBatch'.height = -1)
        /\ nextBatch' \in Batch /\ (Empty(nextBatch') <=> nextBatch'.height = -1)
        /\ batchOf' \in [Job -> Nat]
    <3>1. ASSUME NEW b \in Batch, Empty(b) <=> b.height = -1, NEW k \in Job
          PROVE  /\ merge(b, k) \in Batch
                 /\ Empty(merge(b, k)) <=> merge(b, k).height = -1
      BY <3>1, MergeProps, Zenon
    <3>2. /\ merge(curBatch, j) \in Batch
          /\ Empty(merge(curBatch, j)) <=> merge(curBatch, j).height = -1
          /\ merge(nextBatch, j) \in Batch
          /\ Empty(merge(nextBatch, j)) <=> merge(nextBatch, j).height = -1
      BY <2>1, <3>1, Zenon
    <3>3. CASE Busy
      <4>1. nextBatch' = merge(nextBatch, j) /\ curBatch' = curBatch
        BY <1>4, <3>3 DEF AddJob
      <4>2. batchOf' = [batchOf EXCEPT ![j] = nextBatch.id] /\ nextBatch.id \in Nat
        BY <1>4, <3>3 DEF AddJob, Batch
      <4>3. batchOf' \in [Job -> Nat]
        BY <4>2
      <4>. QED
        BY <3>2, <4>1, <4>3, Zenon
    <3>4. CASE ~Busy
      <4>1. curBatch' = merge(curBatch, j) /\ nextBatch' = nextBatch
        BY <1>4, <3>4 DEF AddJob
      <4>2. batchOf' = [batchOf EXCEPT ![j] = curBatch.id] /\ curBatch.id \in Nat
        BY <1>4, <3>4 DEF AddJob, Batch
      <4>3. batchOf' \in [Job -> Nat]
        BY <4>2
      <4>. QED
        BY <3>2, <4>1, <4>3, Zenon
    <3>. QED
      BY <3>3, <3>4
  <2>3. TodoOK'
    <3>1. CASE Busy
      <4>1. SendOn("complete", nextBatch.id) \in Item
        BY DEF SendOn, Item, Batch
      <4>2. todo' = <<SendOn("complete", nextBatch.id)>>
        BY <1>4, <3>1 DEF AddJob
      <4>. QED
        BY <4>1, <4>2 DEF SendOn
    <3>2. CASE ~Busy
      <4>. DEFINE r == [jobs |-> {j}, height |-> StartHeight[j]]
                  m == StartedMsg([jobs |-> {j}])
      <4>1. /\ SendOn("sendJob", r) \in Item
            /\ SendOn("complete", curBatch.id) \in Item
            /\ SendOn("msgs", m) \in Item
        BY <2>1 DEF SendOn, Item, Batch, Request, Msg, StartedMsg
      <4>2. todo' = <<SendOn("sendJob", r), SendOn("complete", curBatch.id),
                      SendOn("msgs", m)>>
        BY <1>4, <3>2 DEF AddJob
      <4>. HIDE DEF r, m
      <4>. QED
        BY <4>1, <4>2 DEF SendOn
    <3>. QED
      BY <3>1, <3>2
  <2>. QED
    BY <1>4, <2>2, <2>3 DEF AddJob
<1>5. CASE Status
  <2>1. /\ SendOn("msgs", ProgressMsg(curBatch)) \in Item
        /\ \A ok \in BOOLEAN : SendOn("msgs", FinishedMsg(curBatch, ok)) \in Item
        /\ FinishBatch \in Item
    BY DEF SendOn, Item, Msg, ProgressMsg, FinishedMsg, Batch
  <2>2. TodoOK'
    <3>1. CASE Head(status) = "progress"
      BY <1>5, <2>1, <3>1 DEF Status, SendOn
    <3>2. CASE Head(status) # "progress"
      <4>. DEFINE x == SendOn("msgs", FinishedMsg(curBatch, Head(status) = "finished"))
      <4>1. x \in Item /\ x.ch = "msgs" /\ FinishBatch.ch = "none"
        BY <2>1 DEF SendOn, FinishBatch
      <4>2. todo' = <<x, FinishBatch>>
        BY <1>5, <3>2 DEF Status
      <4>. HIDE DEF x
      <4>. QED
        BY <2>1, <4>1, <4>2
    <3>. QED
      BY <3>1, <3>2
  <2>. QED
    BY <1>5, <2>2 DEF Status
<1>6. CASE HandlerSend
  <2>1. TodoOK'
    BY <1>6, TailOfTodo DEF HandlerSend
  <2>2. /\ todo[1] \in Item
        /\ todo[1].ch = "sendJob" => todo[1].v \in Request
        /\ todo[1].ch = "complete" => todo[1].v \in Nat
        /\ todo[1].ch = "msgs" => todo[1].v \in Msg
    BY <1>6 DEF HandlerSend, Item, FinishBatch
  <2>3. /\ sendJob' \in Seq(Request) /\ Len(sendJob') <= 1
        /\ jobCompleteChan' \in Seq(Nat) /\ Len(jobCompleteChan') <= 1
        /\ msgs' \in Seq(Msg) /\ Len(msgs') <= 1
    <3>1. /\ sendJob' = IF todo[1].ch = "sendJob" THEN <<todo[1].v>> ELSE sendJob
          /\ jobCompleteChan' = IF todo[1].ch = "complete" THEN <<todo[1].v>>
                                ELSE jobCompleteChan
          /\ msgs' = IF todo[1].ch = "msgs" THEN <<todo[1].v>> ELSE msgs
      BY <1>6 DEF HandlerSend, Put
    <3>2. sendJob' \in Seq(Request) /\ Len(sendJob') <= 1
      BY <2>2, <3>1
    <3>3. jobCompleteChan' \in Seq(Nat) /\ Len(jobCompleteChan') <= 1
      BY <2>2, <3>1
    <3>4. msgs' \in Seq(Msg) /\ Len(msgs') <= 1
      BY <2>2, <3>1
    <3>. QED
      BY <3>2, <3>3, <3>4
  <2>. QED
    BY <1>6, <2>1, <2>3 DEF HandlerSend
<1>7. CASE NextBatch
  <2>1. /\ newRescanBatch(nextBatch.id + 1) \in Batch
        /\ Empty(newRescanBatch(nextBatch.id + 1))
        /\ newRescanBatch(nextBatch.id + 1).height = -1
    BY DEF newRescanBatch, Batch, Empty
  <2>2. TodoOK'
    <3>1. CASE Empty(nextBatch)
      BY <1>7, <3>1 DEF NextBatch, StartBatch
    <3>2. CASE ~Empty(nextBatch)
      <4>1. /\ SendOn("sendJob", job(nextBatch)) \in Item
            /\ SendOn("msgs", StartedMsg(nextBatch)) \in Item
        BY DEF SendOn, Item, Msg, StartedMsg, Batch, Request, job
      <4>2. todo' = <<SendOn("sendJob", job(nextBatch)), SendOn("msgs", StartedMsg(nextBatch))>>
        BY <1>7, <3>2 DEF NextBatch, StartBatch
      <4>. QED
        BY <4>1, <4>2 DEF SendOn
    <3>. QED
      BY <3>1, <3>2
  <2>3. closed' \subseteq Nat
    BY <1>7 DEF NextBatch, Done, Batch
  <2>. QED
    BY <1>7, <2>1, <2>2, <2>3 DEF NextBatch
<1>8. CASE CallRescan
  BY <1>8 DEF CallRescan, Full
<1>9. CASE NoClient
  <2>1. Head(sendJob) \in Request /\ Head(sendJob).jobs \subseteq Job
    <3>1. sendJob \in Seq(Request) /\ sendJob # <<>>
      BY <1>9 DEF NoClient, Full
    <3>2. Head(sendJob) \in Request
      BY <3>1
    <3>. QED
      BY <3>2 DEF Request
  <2>2. rpc'.state = "noclient" /\ rpc'.req \in Request /\ RpcOK'
    BY <1>9, <2>1 DEF NoClient
  <2>3. failed' \subseteq Job
    BY <1>9, <2>1 DEF NoClient
  <2>. QED
    BY <1>9, <2>2, <2>3 DEF NoClient
<1>10. CASE RescanProgress
  BY <1>10 DEF RescanProgress
<1>11. CASE RescanFinished
  BY <1>11 DEF RescanFinished, Idle, Request
<1>12. CASE RescanError
  BY <1>12 DEF RescanError, Request
<1>13. CASE MarkFailed
  <2>1. Idle \in [state : {"idle"}, req : Request]
    BY DEF Idle, Request
  <2>2. [Idle EXCEPT !.state = "returned"] \in [state : {"returned"}, req : Request]
    BY <2>1
  <2>3. RpcOK' /\ rpc'.req \in Request
              /\ rpc'.state \in {"idle", "calling", "error", "noclient", "returned"}
    <3>1. CASE rpc.state = "error"
      BY <1>13, <2>1, <3>1 DEF MarkFailed
    <3>2. CASE rpc.state # "error"
      BY <1>13, <2>2, <3>2 DEF MarkFailed
    <3>. QED
      BY <3>1, <3>2
  <2>. QED
    BY <1>13, <2>3 DEF MarkFailed
<1>14. CASE Mark
  BY <1>14 DEF Mark
<1>15. CASE Listen
  BY <1>15 DEF Listen
<1>16. CASE ListenerMark
  BY <1>16 DEF ListenerMark
<1>17. CASE UNCHANGED vars
  BY <1>17 DEF vars
<1>. QED
  BY <1>1, <1>2, <1>3, <1>4, <1>5, <1>6, <1>7, <1>8, <1>9, <1>10, <1>11, <1>12,
     <1>13, <1>14, <1>15, <1>16, <1>17 DEF Next
-----------------------------------------------------------------------------
(* A step that leaves the batches, the token and the messages alone.       *)
LEMMA Frame ==
  ASSUME IInv, TypeInv',
         UNCHANGED <<sendJob, status, msgs, handlerVars, netVars, ntfns, listenVars>>
  PROVE  IInv'
<1>. USE DEF handlerVars, netVars, listenVars
<1>1. (OneToken /\ Content)'
  BY DEF IInv, OneToken, Content, InTodo, InChan, InRpc, InNtfns, InStatus,
         InFinish, Ended, Empty
<1>2. (MessagesTrue /\ SyncedCovered)'
  BY DEF IInv, MessagesTrue, MsgTrue, Covered, SyncedCovered
<1>3. (BatchesOK /\ ClosedMeansEnded)'
  BY DEF IInv, BatchesOK, ClosedMeansEnded
<1>. QED
  BY <1>1, <1>2, <1>3 DEF IInv

(* What was scanned or failed stays so: facts about ended and covered jobs *)
(* are kept by every step.                                                 *)
LEMMA Grows ==
  ASSUME scanned \subseteq scanned', failed \subseteq failed'
  PROVE  /\ \A j : Ended(j) => Ended(j)'
         /\ \A j : Covered(j) => Covered(j)'
         /\ \A m : MsgTrue(m) => MsgTrue(m)'
BY DEF Ended, Covered, MsgTrue

(* The callers of SubmitJob.                                               *)
LEMMA CallerIInv ==
  ASSUME IInv, TypeInv', NEW j \in Job,
         GrabForImport(j) \/ Submit(j) \/ Answered(j)
  PROVE  IInv'
BY Frame DEF GrabForImport, Submit, Answered

LEMMA AddJobIInv == ASSUME IInv, TypeInv', AddJob PROVE IInv'
<1>. DEFINE j == Head(addJob)
<1>1. j \in Job /\ StartHeight[j] \in Nat
  BY JobAssumption DEF AddJob, Full, IInv, TypeInv, TypeOK
<1>2. /\ curBatch \in Batch /\ (Empty(curBatch) <=> curBatch.height = -1)
      /\ nextBatch \in Batch /\ (Empty(nextBatch) <=> nextBatch.height = -1)
      /\ batchOf \in [Job -> Nat]
  BY DEF IInv, TypeInv, TypeOK
<1>3. CASE Busy
  <2>1. /\ nextBatch' = merge(nextBatch, j)
        /\ batchOf' = [batchOf EXCEPT ![j] = nextBatch.id]
        /\ todo' = <<SendOn("complete", nextBatch.id)>>
        /\ todo = <<>>
        /\ UNCHANGED <<curBatch, sendJob, status, msgs, closed, netVars, ntfns, listenVars>>
    BY <1>3 DEF AddJob
  <2>. HIDE DEF j
  <2>2. (OneToken /\ Content)'
    BY <2>1 DEF IInv, OneToken, Content, InTodo, InChan, InRpc, InNtfns, InStatus,
           InFinish, Ended, Empty, netVars, SendOn
  <2>3. (MessagesTrue /\ SyncedCovered)'
    BY <2>1 DEF IInv, MessagesTrue, MsgTrue, Covered, SyncedCovered, netVars, listenVars, SendOn
  <2>4. /\ nextBatch'.id = nextBatch.id
        /\ nextBatch'.jobs = nextBatch.jobs \cup {j}
        /\ nextBatch'.height \in Nat
        /\ nextBatch'.height <= StartHeight[j]
        /\ nextBatch.jobs # {} => nextBatch'.height <= nextBatch.height
    <3>1. ASSUME NEW k \in Job
          PROVE  /\ merge(nextBatch, k).id = nextBatch.id
                 /\ merge(nextBatch, k).jobs = nextBatch.jobs \cup {k}
                 /\ merge(nextBatch, k).height \in Nat
                 /\ merge(nextBatch, k).height <= StartHeight[k]
                 /\ ~Empty(nextBatch) => merge(nextBatch, k).height <= nextBatch.height
      BY <1>2, MergeProps, Zenon
    <3>. QED
      BY <1>1, <2>1, <3>1 DEF Empty
  <2>5. /\ nextBatch.id \in Nat /\ curBatch.id \in Nat /\ closed \subseteq Nat
        /\ nextBatch.height \in Nat \cup {-1} /\ StartHeight \in [Job -> Nat]
        /\ nextBatch.jobs \subseteq Job
    BY <1>2, JobAssumption DEF Batch, IInv, TypeInv, TypeOK
  <2>6. BatchesOK'
    <3>1. \A k \in Job : batchOf'[k] = IF k = j THEN nextBatch.id ELSE batchOf[k]
      BY <1>2, <2>1
    <3>2. UNCHANGED <<curBatch, closed>>
      BY <2>1
    <3>3. \A k \in Job : batchOf[k] <= nextBatch.id
      BY DEF IInv, BatchesOK
    <3>4. \A k \in Job : batchOf'[k] <= nextBatch'.id
      BY <2>4, <2>5, <3>1, <3>3
    <3>5. \A k \in Job : batchOf'[k] = nextBatch'.id => k \in nextBatch'.jobs
      BY <2>4, <3>1 DEF IInv, BatchesOK
    <3>6. \A k \in Job : batchOf'[k] = curBatch'.id => k \in curBatch'.jobs
      BY <2>5, <3>1, <3>2 DEF IInv, BatchesOK
    <3>7. \A k \in nextBatch'.jobs : nextBatch'.height <= StartHeight[k]
      BY <1>1, <2>4, <2>5 DEF IInv, BatchesOK
    <3>. QED
      BY <2>4, <3>2, <3>4, <3>5, <3>6, <3>7 DEF IInv, BatchesOK
  <2>7. ClosedMeansEnded'
    BY <1>1, <1>2, <2>1, <2>5 DEF IInv, BatchesOK, ClosedMeansEnded, netVars
  <2>. QED
    BY <2>2, <2>3, <2>6, <2>7 DEF IInv
<1>4. CASE ~Busy
  <2>1. /\ curBatch' = merge(curBatch, j)
        /\ batchOf' = [batchOf EXCEPT ![j] = curBatch.id]
        /\ todo' = <<SendOn("sendJob", [jobs |-> {j}, height |-> StartHeight[j]]),
                     SendOn("complete", curBatch.id),
                     SendOn("msgs", StartedMsg([jobs |-> {j}]))>>
        /\ todo = <<>>
        /\ UNCHANGED <<nextBatch, sendJob, status, msgs, closed, netVars, ntfns, listenVars>>
    BY <1>4 DEF AddJob
  <2>. HIDE DEF j
  <2>2. curBatch' = [id |-> curBatch.id, jobs |-> {j}, height |-> StartHeight[j]]
    BY <1>1, <1>2, <1>4, <2>1 DEF merge, Busy, Empty
  <2>5. ~InChan /\ ~InRpc /\ ~InNtfns /\ ~InStatus
    BY <1>4 DEF IInv, OneToken, Busy
  <2>11. /\ Len(todo') = 3
         /\ todo'[1].ch = "sendJob"
         /\ todo'[1].v = [jobs |-> {j}, height |-> StartHeight[j]]
         /\ todo'[3].ch = "msgs"
    BY <2>1 DEF SendOn
  <2>12. ~InChan' /\ ~InRpc' /\ ~InNtfns' /\ ~InStatus' /\ ~InFinish'
    BY <2>1, <2>5, <2>11 DEF InChan, InRpc, InNtfns, InStatus, InFinish, netVars
  <2>6. OneToken'
    <3>1. ~Empty(curBatch')
      BY <2>2 DEF Empty
    <3>. QED
      BY <2>1, <2>12, <3>1 DEF IInv, OneToken
  <2>7. Content'
    <3>1. job(curBatch') = todo'[1].v
      BY <2>2, <2>11 DEF job
    <3>2. rpc'.state \notin {"error", "noclient"}
      BY <2>12 DEF InRpc
    <3>. QED
      BY <2>12, <3>1, <3>2 DEF Content
  <2>3. (MessagesTrue /\ SyncedCovered)'
    BY <2>1 DEF IInv, MessagesTrue, MsgTrue, Covered, SyncedCovered, netVars, listenVars,
                SendOn, StartedMsg
  <2>8. nextBatch.id \in Nat /\ curBatch.id \in Nat /\ closed \subseteq Nat
    BY <1>2 DEF Batch, IInv, TypeInv, TypeOK
  <2>9. BatchesOK'
    <3>1. /\ curBatch'.id = curBatch.id /\ curBatch'.jobs = {j}
          /\ curBatch'.height = StartHeight[j]
      BY <2>2
    <3>2. \A k \in Job : batchOf[k] # curBatch.id
      BY <1>4 DEF Busy, Empty, IInv, BatchesOK
    <3>. QED
      <4>1. \A k \in Job : batchOf'[k] = IF k = j THEN curBatch.id ELSE batchOf[k]
        BY <1>2, <2>1
      <4>2. UNCHANGED <<nextBatch, closed>>
        BY <2>1
      <4>3. \A k \in Job : batchOf'[k] <= nextBatch'.id
        BY <2>8, <4>1, <4>2 DEF IInv, BatchesOK
      <4>4. \A k \in Job : batchOf'[k] = nextBatch'.id => k \in nextBatch'.jobs
        BY <2>8, <4>1, <4>2 DEF IInv, BatchesOK
      <4>5. \A k \in Job : batchOf'[k] = curBatch'.id => k \in curBatch'.jobs
        BY <3>1, <3>2, <4>1
      <4>6. \A k \in curBatch'.jobs : curBatch'.height <= StartHeight[k]
        BY <1>1, <3>1
      <4>. QED
        BY <3>1, <4>2, <4>3, <4>4, <4>5, <4>6 DEF IInv, BatchesOK
  <2>10. ClosedMeansEnded'
    BY <1>1, <1>2, <2>1, <2>8 DEF IInv, BatchesOK, ClosedMeansEnded, netVars
  <2>. QED
    BY <2>3, <2>6, <2>7, <2>9, <2>10 DEF IInv
<1>. QED
  BY <1>3, <1>4

LEMMA StatusIInv == ASSUME IInv, TypeInv', Status PROVE IInv'
<1>1. /\ todo = <<>> /\ status # <<>> /\ status' = <<>>
      /\ UNCHANGED <<sendJob, msgs, curBatch, nextBatch, closed, batchOf, netVars, ntfns, listenVars>>
      /\ Head(status) = status[1]
      /\ status[1] \in {"progress", "finished", "failed"}
  BY DEF Status, Full, IInv, TypeInv, TypeOK
<1>2. (BatchesOK /\ ClosedMeansEnded /\ SyncedCovered)'
  BY <1>1 DEF IInv, BatchesOK, ClosedMeansEnded, SyncedCovered, netVars, listenVars
<1>3. CASE status[1] = "progress"
  <2>1. todo' = <<SendOn("msgs", ProgressMsg(curBatch))>>
    BY <1>1, <1>3 DEF Status
  <2>2. (OneToken /\ Content)'
    BY <1>1, <1>3, <2>1 DEF IInv, OneToken, Content, InTodo, InChan, InRpc, InNtfns,
           InStatus, InFinish, Ended, Empty, netVars, SendOn
  <2>3. MessagesTrue'
    BY <1>1, <2>1 DEF IInv, MessagesTrue, MsgTrue, Covered, netVars, listenVars,
                SendOn, ProgressMsg
  <2>. QED
    BY <1>2, <2>2, <2>3 DEF IInv
<1>4. CASE status[1] # "progress"
  <2>1. todo' = <<SendOn("msgs", FinishedMsg(curBatch, status[1] = "finished")), FinishBatch>>
    BY <1>1, <1>4 DEF Status
  <2>2. /\ todo'[1].ch = "msgs" /\ todo'[2].ch = "none" /\ Len(todo') = 2 /\ todo' # <<>>
        /\ todo'[1].v = FinishedMsg(curBatch, status[1] = "finished")
    BY <2>1 DEF SendOn, FinishBatch
  <2>3. InStatus /\ ~Empty(curBatch) /\ ~InTodo /\ ~InChan /\ ~InRpc /\ ~InNtfns
    BY <1>1, <1>4 DEF InStatus, IInv, OneToken
  <2>4. status[1] = "finished" => job(curBatch) \in scanned
    BY <2>3 DEF IInv, Content
  <2>5. status[1] = "failed" => curBatch.jobs \subseteq failed
    BY <2>3 DEF IInv, Content
  <2>6. \A j \in curBatch.jobs : Ended(j)
    BY <1>1, <1>4, <2>4, <2>5 DEF Ended, job
  <2>7. status[1] = "finished" => \A j \in curBatch.jobs : Covered(j)
    BY <2>4 DEF IInv, BatchesOK, Covered, job
  <2>8. OneToken'
    BY <1>1, <2>2, <2>3 DEF IInv, OneToken, InTodo, InChan, InRpc, InNtfns, InStatus, InFinish,
         Empty, netVars
  <2>9. Content'
    BY <1>1, <2>2, <2>3, <2>6 DEF IInv, Content, InTodo, InChan, InRpc, InNtfns, InStatus, InFinish,
         Ended, netVars
  <2>10. MessagesTrue'
    BY <1>1, <2>2, <2>7 DEF IInv, MessagesTrue, MsgTrue, Covered, FinishedMsg, netVars, listenVars
  <2>. QED
    BY <1>2, <2>8, <2>9, <2>10 DEF IInv
<1>. QED
  BY <1>3, <1>4

LEMMA HandlerSendIInv == ASSUME IInv, TypeInv', HandlerSend PROVE IInv'
<1>1. /\ todo # <<>> /\ todo' = Tail(todo) /\ TodoOK
      /\ UNCHANGED <<status, curBatch, nextBatch, closed, batchOf, netVars, ntfns, listenVars>>
      /\ sendJob' = IF todo[1].ch = "sendJob" THEN <<todo[1].v>> ELSE sendJob
      /\ msgs' = IF todo[1].ch = "msgs" THEN <<todo[1].v>> ELSE msgs
      /\ todo[1].ch = "sendJob" => sendJob = <<>>
  BY DEF HandlerSend, Put, Full, IInv, TypeInv
<1>2. /\ todo' \in Seq(Item)
      /\ Len(todo') = Len(todo) - 1
      /\ Len(todo) \in Nat \ {0}
      /\ \A i \in 1 .. Len(todo') :
           i + 1 \in 1 .. Len(todo) /\ todo'[i] = todo[i + 1] /\ todo'[i].ch # "sendJob"
  BY <1>1, TailOfTodo
<1>3. 1 \in 1 .. Len(todo) /\ Len(todo') \in Nat
  BY <1>2
<1>4. (BatchesOK /\ ClosedMeansEnded /\ SyncedCovered)'
  BY <1>1 DEF IInv, BatchesOK, ClosedMeansEnded, SyncedCovered, netVars, listenVars
<1>5. ~InTodo'
  BY <1>2 DEF InTodo
<1>6. InFinish' => InFinish
  <2>. SUFFICES ASSUME InFinish' PROVE InFinish
    OBVIOUS
  <2>1. Len(todo') \in 1 .. Len(todo')
    BY <1>2 DEF InFinish
  <2>. QED
    BY <1>2, <2>1 DEF InFinish
<1>7. InChan' <=> (InChan \/ InTodo)
  BY <1>1 DEF InChan, InTodo
<1>8. (InRpc' <=> InRpc) /\ (InNtfns' <=> InNtfns) /\ (InStatus' <=> InStatus)
  BY <1>1 DEF InRpc, InNtfns, InStatus, netVars
<1>9. OneToken'
  BY <1>1, <1>5, <1>6, <1>7, <1>8 DEF IInv, OneToken, Empty
<1>10. Content'
  <2>1. InChan' => sendJob'[1] = job(curBatch')
    BY <1>1, <1>7 DEF IInv, Content, InTodo, InChan
  <2>. QED
    BY <1>1, <1>5, <1>6, <1>8, <2>1 DEF IInv, Content, Ended, netVars
<1>11. MessagesTrue'
  <2>. DEFINE True(m) == m.kind = "finished" => \A j \in m.jobs : Covered(j)
  <2>1. scanned' = scanned /\ listener' = listener
    BY <1>1 DEF netVars, listenVars
  <2>2. /\ \A i \in 1 .. Len(todo) : todo[i].ch = "msgs" => True(todo[i].v)
        /\ \A i \in 1 .. Len(msgs) : True(msgs[i])
        /\ \A i \in 1 .. Len(listener) : True(listener[i])
    BY DEF IInv, MessagesTrue, MsgTrue
  <2>3. MessagesTrue' <=>
        /\ \A i \in 1 .. Len(todo') : todo'[i].ch = "msgs" => True(todo'[i].v)
        /\ \A i \in 1 .. Len(msgs') : True(msgs'[i])
        /\ \A i \in 1 .. Len(listener') : True(listener'[i])
    BY <2>1 DEF MessagesTrue, MsgTrue, Covered
  <2>. HIDE DEF True
  <2>4. \A i \in 1 .. Len(todo') : todo'[i].ch = "msgs" => True(todo'[i].v)
    BY <1>2, <2>2
  <2>5. \A i \in 1 .. Len(msgs') : True(msgs'[i])
    <3>1. CASE todo[1].ch = "msgs"
      <4>1. True(todo[1].v)
        BY <1>3, <2>2, <3>1
      <4>2. \A i \in 1 .. Len(msgs') : msgs'[i] = todo[1].v
        BY <1>1, <3>1
      <4>. QED
        BY <4>1, <4>2, Zenon
    <3>2. CASE todo[1].ch # "msgs"
      BY <1>1, <2>2, <3>2
    <3>. QED
      BY <3>1, <3>2
  <2>. QED
    BY <2>1, <2>2, <2>3, <2>4, <2>5
<1>. QED
  BY <1>4, <1>9, <1>10, <1>11 DEF IInv

LEMMA NextBatchIInv == ASSUME IInv, TypeInv', NextBatch PROVE IInv'
<1>1. /\ todo # <<>> /\ todo[1].ch = "none"
      /\ closed' = closed \cup {curBatch.id}
      /\ curBatch' = nextBatch
      /\ nextBatch' = newRescanBatch(nextBatch.id + 1)
      /\ todo' = StartBatch(nextBatch)
      /\ UNCHANGED <<sendJob, status, msgs, batchOf, netVars, ntfns, listenVars>>
  BY DEF NextBatch, Done, FinishBatch
<1>2. /\ nextBatch'.id = nextBatch.id + 1
      /\ nextBatch'.jobs = {}
  BY <1>1 DEF newRescanBatch
<1>3. /\ curBatch.id \in Nat /\ nextBatch.id \in Nat /\ closed \subseteq Nat
      /\ batchOf \in [Job -> Nat]
      /\ Len(todo) \in Nat \ {0}
  <2>1. Len(todo) \in Nat \ {0}
    BY <1>1, TailOfTodo DEF IInv, TypeInv
  <2>. QED
    BY <2>1 DEF IInv, TypeInv, TypeOK, Batch
<1>4. InFinish
  BY <1>1, <1>3 DEF InFinish, IInv, TypeInv, TodoOK
<1>5. ~InChan /\ ~InRpc /\ ~InNtfns /\ ~InStatus
  BY <1>4 DEF IInv, OneToken
<1>6. ~InChan' /\ ~InRpc' /\ ~InNtfns' /\ ~InStatus'
  BY <1>1, <1>5 DEF InChan, InRpc, InNtfns, InStatus, netVars
<1>7. BatchesOK'
  <2>1. \A c \in closed' : 0 < c /\ c < curBatch'.id
    BY <1>1, <1>3 DEF IInv, BatchesOK
  <2>2. \A j \in Job : batchOf'[j] < nextBatch'.id
    BY <1>1, <1>2, <1>3 DEF IInv, BatchesOK
  <2>3. \A j \in Job : batchOf'[j] <= nextBatch'.id /\ batchOf'[j] # nextBatch'.id
    BY <1>1, <1>2, <1>3, <2>2
  <2>4. curBatch'.id > 0 /\ nextBatch'.id > curBatch'.id
    BY <1>1, <1>2, <1>3 DEF IInv, BatchesOK
  <2>. QED
    BY <1>1, <1>2, <2>1, <2>3, <2>4 DEF IInv, BatchesOK
<1>8. ClosedMeansEnded'
  <2>1. \A j \in Job : batchOf[j] = curBatch.id => Ended(j)
    BY <1>4 DEF IInv, Content, BatchesOK
  <2>. QED
    BY <1>1, <2>1 DEF IInv, ClosedMeansEnded, Ended, netVars
<1>9. SyncedCovered'
  BY <1>1 DEF IInv, SyncedCovered, netVars, listenVars
<1>10. CASE Empty(nextBatch)
  <2>1. todo' = <<>>
    BY <1>1, <1>10 DEF StartBatch
  <2>2. ~InTodo' /\ ~InFinish'
    BY <2>1 DEF InTodo, InFinish
  <2>3. OneToken'
    BY <1>1, <1>6, <2>2 DEF IInv, OneToken
  <2>4. Content'
    BY <1>6, <2>2 DEF Content, InRpc
  <2>5. MessagesTrue'
    BY <1>1, <2>1 DEF IInv, MessagesTrue, MsgTrue, Covered, netVars, listenVars
  <2>. QED
    BY <1>7, <1>8, <1>9, <2>3, <2>4, <2>5 DEF IInv
<1>11. CASE ~Empty(nextBatch)
  <2>1. todo' = <<SendOn("sendJob", job(nextBatch)), SendOn("msgs", StartedMsg(nextBatch))>>
    BY <1>1, <1>11 DEF StartBatch
  <2>2. /\ Len(todo') = 2 /\ todo'[1].ch = "sendJob" /\ todo'[1].v = job(nextBatch)
        /\ todo'[2].ch = "msgs" /\ todo'[2].v.kind = "started"
    BY <2>1 DEF SendOn, StartedMsg
  <2>3. ~InFinish'
    BY <2>2 DEF InFinish
  <2>4. OneToken'
    BY <1>1, <1>6, <1>11, <2>3 DEF IInv, OneToken
  <2>5. Content'
    BY <1>1, <1>6, <2>2, <2>3 DEF Content, InRpc
  <2>6. MessagesTrue'
    BY <1>1, <2>2 DEF IInv, MessagesTrue, MsgTrue, Covered, netVars, listenVars
  <2>. QED
    BY <1>7, <1>8, <1>9, <2>4, <2>5, <2>6 DEF IInv
<1>. QED
  BY <1>10, <1>11

(* rpcHandler takes the request: the token moves from sendJob to it.       *)
LEMMA TakeIInv == ASSUME IInv, TypeInv', CallRescan \/ NoClient PROVE IInv'
<1>1. /\ sendJob # <<>> /\ sendJob' = <<>>
      /\ rpc'.state \in {"calling", "noclient"}
      /\ rpc'.req = Head(sendJob)
      /\ Head(sendJob) = sendJob[1]
      /\ failed \subseteq failed'
      /\ rpc'.state = "noclient" => Head(sendJob).jobs \subseteq failed'
      /\ UNCHANGED <<status, msgs, handlerVars, scanned, ntfns, listenVars>>
  BY DEF CallRescan, NoClient, Full
<1>2. sendJob[1] = job(curBatch) /\ ~InTodo /\ ~InNtfns /\ ~InStatus /\ ~InFinish
      /\ ~Empty(curBatch)
  BY <1>1 DEF IInv, OneToken, Content, InChan
<1>3. ~InTodo' /\ ~InChan' /\ ~InNtfns' /\ ~InStatus' /\ ~InFinish' /\ ~Empty(curBatch')
  BY <1>1, <1>2 DEF InTodo, InChan, InNtfns, InStatus, InFinish, handlerVars
<1>4. OneToken'
  BY <1>1, <1>3 DEF IInv, OneToken
<1>5. Content'
  <2>1. rpc'.req = job(curBatch') /\ (rpc'.state = "noclient" => curBatch'.jobs \subseteq failed')
    BY <1>1, <1>2 DEF job, handlerVars
  <2>. QED
    BY <1>1, <1>3, <2>1 DEF Content
<1>6. (MessagesTrue /\ SyncedCovered)'
  BY <1>1 DEF IInv, MessagesTrue, MsgTrue, Covered, SyncedCovered, handlerVars, listenVars
<1>7. (BatchesOK /\ ClosedMeansEnded)'
  BY <1>1 DEF IInv, BatchesOK, ClosedMeansEnded, handlerVars
<1>. QED
  BY <1>4, <1>5, <1>6, <1>7 DEF IInv

LEMMA RescanProgressIInv == ASSUME IInv, TypeInv', RescanProgress PROVE IInv'
<1>1. /\ ntfns' = Append(ntfns, "progress")
      /\ UNCHANGED <<sendJob, status, msgs, handlerVars, rpc, scanned, failed, listenVars>>
  BY DEF RescanProgress
<1>2. /\ Len(ntfns) \in Nat /\ Len(ntfns') = Len(ntfns) + 1
      /\ \A i \in 1 .. Len(ntfns) : ntfns'[i] = ntfns[i]
      /\ ntfns'[Len(ntfns) + 1] = "progress"
  BY <1>1 DEF IInv, TypeInv, TypeOK
<1>3. \A i \in 1 .. Len(ntfns') : ntfns'[i] = "finished" =>
        i \in 1 .. Len(ntfns) /\ ntfns[i] = "finished"
  BY <1>2
<1>4. InNtfns' => InNtfns
  BY <1>3 DEF InNtfns
<1>6. /\ InRpc' <=> InRpc
      /\ InStatus' <=> InStatus
      /\ InFinish' <=> InFinish
      /\ InTodo' <=> InTodo
      /\ InChan' <=> InChan
  BY <1>1 DEF InTodo, InChan, InRpc, InStatus, InFinish, handlerVars
<1>7. OneToken'
  BY <1>1, <1>3, <1>4, <1>6 DEF IInv, OneToken, Empty, handlerVars
<1>8. Content'
  BY <1>1, <1>4, <1>6 DEF IInv, Content, Ended, handlerVars, job
<1>9. (MessagesTrue /\ SyncedCovered)'
  BY <1>1 DEF IInv, MessagesTrue, MsgTrue, Covered, SyncedCovered, handlerVars, listenVars
<1>10. (BatchesOK /\ ClosedMeansEnded)'
  BY <1>1 DEF IInv, BatchesOK, ClosedMeansEnded, handlerVars
<1>. QED
  BY <1>7, <1>8, <1>9, <1>10 DEF IInv

LEMMA RescanFinishedIInv == ASSUME IInv, TypeInv', RescanFinished PROVE IInv'
<1>1. /\ rpc.state = "calling" /\ rpc' = Idle
      /\ ntfns' = Append(ntfns, "finished")
      /\ scanned' = scanned \cup {rpc.req}
      /\ UNCHANGED <<sendJob, status, msgs, handlerVars, failed, listenVars>>
  BY DEF RescanFinished
<1>2. rpc.req = job(curBatch) /\ ~InTodo /\ ~InChan /\ ~InNtfns /\ ~InStatus /\ ~InFinish
      /\ ~Empty(curBatch)
  BY <1>1 DEF IInv, OneToken, Content, InRpc
<1>3. /\ Len(ntfns) \in Nat /\ Len(ntfns') = Len(ntfns) + 1
      /\ \A i \in 1 .. Len(ntfns) : ntfns'[i] = ntfns[i]
  BY <1>1 DEF IInv, TypeInv, TypeOK
<1>4. \A i \in 1 .. Len(ntfns') : ntfns'[i] = "finished" => i = Len(ntfns')
  BY <1>2, <1>3 DEF InNtfns
<1>5. ~InTodo' /\ ~InChan' /\ ~InRpc' /\ ~InStatus' /\ ~InFinish' /\ ~Empty(curBatch')
  BY <1>1, <1>2 DEF InTodo, InChan, InRpc, InStatus, InFinish, handlerVars, Idle
<1>6. OneToken'
  BY <1>4, <1>5 DEF OneToken
<1>7. Content'
  <2>1. job(curBatch') \in scanned' /\ rpc'.state = "idle"
    BY <1>1, <1>2 DEF handlerVars, Idle
  <2>. QED
    BY <1>5, <2>1 DEF Content
<1>8. MessagesTrue'
  <2>1. \A m : MsgTrue(m) => MsgTrue(m)'
    BY <1>1, Grows
  <2>. QED
    BY <1>1, <2>1 DEF IInv, MessagesTrue, MsgTrue, Covered, handlerVars, listenVars
<1>9. SyncedCovered'
  BY <1>1 DEF IInv, SyncedCovered, listenVars
<1>10. (BatchesOK /\ ClosedMeansEnded)'
  BY <1>1 DEF IInv, BatchesOK, ClosedMeansEnded, handlerVars
<1>. QED
  BY <1>6, <1>7, <1>8, <1>9, <1>10 DEF IInv

LEMMA RescanErrorIInv == ASSUME IInv, TypeInv', RescanError PROVE IInv'
<1>1. /\ rpc.state = "calling" /\ rpc' = [rpc EXCEPT !.state = "error"]
      /\ failed' = failed \cup rpc.req.jobs
      /\ UNCHANGED <<sendJob, status, msgs, handlerVars, scanned, ntfns, listenVars>>
  BY DEF RescanError
<1>2. rpc'.state = "error" /\ rpc'.req = rpc.req
  BY <1>1 DEF IInv, TypeInv, RpcOK
<1>3. rpc.req = job(curBatch) /\ ~InTodo /\ ~InChan /\ ~InNtfns /\ ~InStatus /\ ~InFinish
      /\ ~Empty(curBatch)
  BY <1>1 DEF IInv, OneToken, Content, InRpc
<1>4. ~InTodo' /\ ~InChan' /\ ~InNtfns' /\ ~InStatus' /\ ~InFinish' /\ ~Empty(curBatch')
  BY <1>1, <1>3 DEF InTodo, InChan, InNtfns, InStatus, InFinish, handlerVars
<1>5. OneToken'
  BY <1>1, <1>4 DEF IInv, OneToken
<1>6. Content'
  <2>1. rpc'.req = job(curBatch') /\ curBatch'.jobs \subseteq failed'
    BY <1>1, <1>2, <1>3 DEF job, handlerVars
  <2>. QED
    BY <1>4, <2>1 DEF Content
<1>7. (MessagesTrue /\ SyncedCovered)'
  BY <1>1 DEF IInv, MessagesTrue, MsgTrue, Covered, SyncedCovered, handlerVars, listenVars
<1>8. (BatchesOK /\ ClosedMeansEnded)'
  BY <1>1 DEF IInv, BatchesOK, ClosedMeansEnded, handlerVars
<1>. QED
  BY <1>5, <1>6, <1>7, <1>8 DEF IInv

LEMMA MarkFailedIInv == ASSUME IInv, TypeInv', MarkFailed PROVE IInv'
<1>1. /\ rpc.state \in {"error", "noclient"} /\ status' = <<"failed">>
      /\ UNCHANGED <<sendJob, msgs, handlerVars, scanned, failed, ntfns, listenVars>>
  BY DEF MarkFailed
<1>2. rpc'.state \in {"idle", "returned"}
  <2>1. Idle \in [state : {"idle"}, req : Request]
    BY DEF Idle, Request
  <2>2. [Idle EXCEPT !.state = "returned"].state = "returned"
    BY <2>1
  <2>. QED
    BY <2>1, <2>2 DEF MarkFailed
<1>3. /\ curBatch.jobs \subseteq failed
      /\ ~InTodo /\ ~InChan /\ ~InNtfns /\ ~InFinish /\ ~Empty(curBatch)
  BY <1>1 DEF IInv, OneToken, Content, InRpc
<1>4. ~InTodo' /\ ~InChan' /\ ~InRpc' /\ ~InNtfns' /\ ~InFinish' /\ ~Empty(curBatch')
  BY <1>1, <1>2, <1>3 DEF InTodo, InChan, InRpc, InNtfns, InFinish, handlerVars
<1>5. OneToken'
  BY <1>1, <1>4 DEF IInv, OneToken
<1>6. Content'
  BY <1>1, <1>2, <1>3, <1>4 DEF Content, handlerVars
<1>7. (MessagesTrue /\ SyncedCovered)'
  BY <1>1 DEF IInv, MessagesTrue, MsgTrue, Covered, SyncedCovered, handlerVars, listenVars
<1>8. (BatchesOK /\ ClosedMeansEnded)'
  BY <1>1 DEF IInv, BatchesOK, ClosedMeansEnded, handlerVars
<1>. QED
  BY <1>5, <1>6, <1>7, <1>8 DEF IInv

LEMMA MarkIInv == ASSUME IInv, TypeInv', Mark PROVE IInv'
<1>1. /\ ntfns # <<>> /\ ntfns \in Seq({"progress", "finished"})
      /\ status = <<>> /\ status' = <<Head(ntfns)>> /\ ntfns' = Tail(ntfns)
      /\ UNCHANGED <<sendJob, msgs, handlerVars, netVars, listenVars>>
  BY DEF Mark, Full, IInv, TypeInv, TypeOK
<1>2. /\ Len(ntfns) \in Nat \ {0} /\ Len(ntfns') = Len(ntfns) - 1
      /\ status'[1] = ntfns[1]
      /\ ntfns[1] \in {"progress", "finished"}
      /\ \A i \in 1 .. Len(ntfns') : i + 1 \in 1 .. Len(ntfns) /\ ntfns'[i] = ntfns[i + 1]
  BY <1>1
<1>3. InNtfns' => InNtfns
  BY <1>2 DEF InNtfns
<1>4. InStatus' => InNtfns /\ ~InNtfns' /\ status'[1] = "finished"
  <2>. SUFFICES ASSUME InStatus' PROVE InNtfns /\ ~InNtfns' /\ status'[1] = "finished"
    OBVIOUS
  <2>1. status'[1] = "finished" /\ ntfns[1] = "finished" /\ 1 \in 1 .. Len(ntfns)
    BY <1>2 DEF InStatus
  <2>2. \A i \in 1 .. Len(ntfns) : ntfns[i] = "finished" => i = 1
    BY <2>1 DEF IInv, OneToken
  <2>3. \A i \in 1 .. Len(ntfns') : ntfns'[i] # "finished"
    BY <1>2, <2>2
  <2>. QED
    BY <2>1, <2>3 DEF InNtfns
<1>5. /\ InRpc' <=> InRpc
      /\ InFinish' <=> InFinish
      /\ InTodo' <=> InTodo
      /\ InChan' <=> InChan
  BY <1>1 DEF InTodo, InChan, InRpc, InFinish, handlerVars, netVars
<1>6. \A i, k \in 1 .. Len(ntfns') :
        ntfns'[i] = "finished" /\ ntfns'[k] = "finished" => i = k
  <2>. SUFFICES ASSUME NEW i \in 1 .. Len(ntfns'), NEW k \in 1 .. Len(ntfns'),
                       ntfns'[i] = "finished", ntfns'[k] = "finished"
                PROVE  i = k
    OBVIOUS
  <2>1. i + 1 = k + 1
    BY <1>2 DEF IInv, OneToken
  <2>. QED
    BY <1>2, <2>1
<1>7. OneToken'
  BY <1>1, <1>3, <1>4, <1>5, <1>6 DEF IInv, OneToken, Empty, handlerVars
<1>8. Content'
  BY <1>1, <1>3, <1>4, <1>5 DEF IInv, Content, Ended, handlerVars, netVars, job
<1>9. (MessagesTrue /\ SyncedCovered)'
  BY <1>1 DEF IInv, MessagesTrue, MsgTrue, Covered, SyncedCovered, handlerVars, netVars, listenVars
<1>10. (BatchesOK /\ ClosedMeansEnded)'
  BY <1>1 DEF IInv, BatchesOK, ClosedMeansEnded, handlerVars, netVars
<1>. QED
  BY <1>7, <1>8, <1>9, <1>10 DEF IInv

LEMMA ListenerIInv == ASSUME IInv, TypeInv', Listen \/ ListenerMark PROVE IInv'
<1>1. UNCHANGED <<sendJob, status, handlerVars, netVars, ntfns>>
  BY DEF Listen, ListenerMark
<1>2. (OneToken /\ Content)'
  BY <1>1 DEF IInv, OneToken, Content, InTodo, InChan, InRpc, InNtfns, InStatus,
              InFinish, Ended, Empty, handlerVars, netVars
<1>3. (BatchesOK /\ ClosedMeansEnded)'
  BY <1>1 DEF IInv, BatchesOK, ClosedMeansEnded, handlerVars, netVars
<1>4. CASE Listen
  <2>1. listener' = msgs /\ msgs' = <<>> /\ sync' = sync
    BY <1>4 DEF Listen
  <2>2. (MessagesTrue /\ SyncedCovered)'
    BY <1>1, <2>1 DEF IInv, MessagesTrue, MsgTrue, Covered, SyncedCovered, handlerVars, netVars
  <2>. QED
    BY <1>2, <1>3, <2>2 DEF IInv
<1>5. CASE ListenerMark
  <2>1. /\ listener # <<>> /\ listener' = <<>> /\ msgs' = msgs
        /\ listener \in Seq(Msg)
    BY <1>5 DEF ListenerMark, IInv, TypeInv, TypeOK
  <2>2. Head(listener) = listener[1] /\ 1 \in 1 .. Len(listener)
    BY <2>1
  <2>3. MessagesTrue'
    BY <1>1, <2>1 DEF IInv, MessagesTrue, MsgTrue, Covered, handlerVars, netVars
  <2>4. MsgTrue(listener[1])
    BY <2>2 DEF IInv, MessagesTrue
  <2>5. SyncedCovered'
    <3>. SUFFICES ASSUME NEW j \in Job, sync'[j] = "full" PROVE Covered(j)
      BY <1>1 DEF SyncedCovered, Covered, netVars
    <3>1. (j \in listener[1].jobs /\ listener[1].kind = "finished") \/ sync[j] = "full"
      BY <1>5, <2>2 DEF ListenerMark
    <3>. QED
      BY <2>4, <3>1 DEF MsgTrue, Covered, IInv, SyncedCovered
  <2>. QED
    BY <1>2, <1>3, <2>3, <2>5 DEF IInv
<1>. QED
  BY <1>4, <1>5
-----------------------------------------------------------------------------
LEMMA NextIInv == IInv /\ [Next]_vars => IInv'
<1>. SUFFICES ASSUME IInv, [Next]_vars PROVE IInv'
  OBVIOUS
<1>1. TypeInv'
  BY TypeStep DEF IInv
<1>2. CASE UNCHANGED vars
  BY <1>1, <1>2, Frame DEF vars
<1>. QED
  BY <1>1, <1>2, CallerIInv, AddJobIInv, StatusIInv, HandlerSendIInv, NextBatchIInv,
     TakeIInv, RescanProgressIInv, RescanFinishedIInv, RescanErrorIInv,
     MarkFailedIInv, MarkIInv, ListenerIInv, Zenon DEF Next

(* With one token, a batch is rescanned alone and whole.                   *)
LEMMA IInvBatches == IInv => BatchesInTurn
<1>. SUFFICES ASSUME IInv PROVE OneAtATime
  BY DEF IInv, TypeInv, BatchesInTurn
<1>. DEFINE inRpc == IF InRpc THEN <<rpc.req>> ELSE <<>>
            inTodo == IF InTodo THEN <<todo[1].v>> ELSE <<>>
            reqs == inTodo \o sendJob \o inRpc
<1>1. sendJob \in Seq(Request) /\ Len(sendJob) <= 1
  BY DEF IInv, TypeInv, TypeOK
<1>2. curBatch.id \notin closed
  BY DEF IInv, BatchesOK, TypeInv, TypeOK, Batch
<1>3. Len(reqs) <= 1 /\ (reqs # <<>> => reqs[1] = job(curBatch))
  <2>1. CASE InTodo
    BY <2>1 DEF IInv, OneToken, Content, InChan
  <2>2. CASE ~InTodo /\ InChan
    BY <1>1, <2>2 DEF IInv, OneToken, Content, InChan
  <2>3. CASE ~InTodo /\ ~InChan
    BY <2>3 DEF IInv, OneToken, Content, InChan
  <2>. QED
    BY <2>1, <2>2, <2>3
<1>. QED
  BY <1>2, <1>3 DEF OneAtATime, InRpc, InTodo

(* jobHandler rescans one batch at a time (rescan.go 64-66), for any jobs: *)
(* whatever way SubmitJob calls, the chain server's replies and its        *)
(* notifications interleave, at most one request is on its way, it is the  *)
(* current batch's, and a batch's complete channel is closed only when     *)
(* each of its jobs was scanned or failed.                                 *)
THEOREM BatchesTakeTurns == Spec => []BatchesInTurn
BY InitIInv, NextIInv, IInvBatches, PTL DEF Spec

(* rescanListener marks an address synced only after a completed rescan    *)
(* that included it and started early enough, for any start heights:       *)
(* merge keeps the minimum and status is always about the current batch.   *)
THEOREM SyncIsCovered == Spec => []SyncedCovered
<1>1. IInv => SyncedCovered
  BY DEF IInv
<1>. QED
  BY InitIInv, NextIInv, <1>1, PTL DEF Spec
=============================================================================
