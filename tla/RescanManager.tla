--------------------------- MODULE RescanManager ---------------------------
(***************************************************************************)
(* The rescan manager (rescan.go) with the goroutines around it: the       *)
(* callers of SubmitJob, jobHandler, rpcHandler, the notification handler  *)
(* of rpcclient.go that passes on the chain server's rescanprogress and    *)
(* rescanfinished, and the account manager's rescanListener (acctmgr.go),  *)
(* which takes the account manager's semaphore for every message.          *)
(*                                                                         *)
(* A caller is the job it submits.  An import caller is an importprivkey   *)
(* request, which holds the semaphore while it submits; the others are     *)
(* handshakes, one per (re)connection, which do not.  The addresses of a   *)
(* job are the job; a batch is the set of the jobs merged into it.  All    *)
(* channels have a buffer of one.  A goroutine that is blocked sending is  *)
(* an action that is not enabled.  Stop is left out: the manager runs as   *)
(* long as the process.                                                    *)
(***************************************************************************)
EXTENDS Integers, Sequences, FiniteSetsExt

CONSTANTS
  Job,          \* rescan jobs, each submitted once
  Import,       \* the jobs submitted by importprivkey requests
  StartHeight,  \* StartHeight[j]: the height the rescan of j starts at
  MaxProgress   \* bound: rescanprogress notifications sent

ASSUME JobAssumption == /\ IsFiniteSet(Job)
                        /\ Import \subseteq Job
                        /\ StartHeight \in [Job -> Nat]
ASSUME MaxProgressAssumption == MaxProgress \in Nat

VARIABLES
  bsem,       \* the import request that holds the semaphore, or Free
  caller,     \* where each caller of SubmitJob is
  answer,     \* batch whose complete channel SubmitJob returned, 0 for none
  addJob, sendJob, status, msgs, jobCompleteChan,  \* the channels' buffers
  curBatch, nextBatch,
  todo,       \* what jobHandler has still to do for what it received
  rpc,        \* what rpcHandler does
  ntfns,      \* rescan notifications waiting for the notification handler
  listener,   \* the message rescanListener holds, as a sequence
  closed,     \* batches whose complete channel is closed
  sync,       \* sync status of each job's addresses in the key store
  progress,   \* number of rescanprogress notifications sent
  batchOf,    \* history: the batch each job was merged into, 0 for none
  scanned,    \* history: requests the chain server completed
  failed      \* history: jobs of requests that failed

callerVars == <<caller, answer>>
handlerVars == <<curBatch, nextBatch, todo, closed, batchOf>>
netVars == <<rpc, progress, scanned, failed>>
listenVars == <<listener, sync>>
vars == <<bsem, callerVars, addJob, sendJob, status, msgs, jobCompleteChan,
          handlerVars, netVars, ntfns, listenVars>>
-----------------------------------------------------------------------------
Free == "free"
Full(ch) == ch # <<>>

newRescanBatch(id) == [id |-> id, jobs |-> {}, height |-> -1]
Empty(b) == b.jobs = {}
MergeKeepsHeight(b, j) ==
  [id |-> b.id, jobs |-> b.jobs \cup {j},
   height |-> IF b.height = -1 THEN StartHeight[j] ELSE b.height]
merge(b, j) ==
  [id |-> b.id, jobs |-> b.jobs \cup {j},
   height |-> IF b.height = -1 \/ StartHeight[j] < b.height
                THEN StartHeight[j] ELSE b.height]
(* The RescanJob of a batch.                                               *)
job(b) == [jobs |-> b.jobs, height |-> b.height]

(* What jobHandler may still have to do: send v on channel ch, or finish   *)
(* the current batch.                                                      *)
SendOn(ch, v) == [ch |-> ch, v |-> v]
FinishBatch == [ch |-> "none", v |-> 0]

StartedMsg(b) == [kind |-> "started", jobs |-> b.jobs]
ProgressMsg(b) == [kind |-> "progress", jobs |-> b.jobs]
FinishedMsg(b, ok) == [kind |-> IF ok THEN "finished" ELSE "failed",
                       jobs |-> b.jobs]

Idle == [state |-> "idle", req |-> [jobs |-> {}, height |-> -1]]
-----------------------------------------------------------------------------
(* RequestHandler grabs the semaphore for an importprivkey request.        *)
GrabForImport(j) ==
  /\ j \in Import
  /\ caller[j] = "idle"
  /\ bsem = Free
  /\ bsem' = j
  /\ caller' = [caller EXCEPT ![j] = "ready"]
  /\ UNCHANGED <<answer, addJob, sendJob, status, msgs, jobCompleteChan,
                 handlerVars, netVars, ntfns, listenVars>>

(* SubmitJob: m.addJob <- job.                                             *)
Submit(j) ==
  /\ caller[j] = IF j \in Import THEN "ready" ELSE "idle"
  /\ ~Full(addJob)
  /\ addJob' = <<j>>
  /\ caller' = [caller EXCEPT ![j] = "submitted"]
  /\ UNCHANGED <<bsem, answer, sendJob, status, msgs, jobCompleteChan,
                 handlerVars, netVars, ntfns, listenVars>>

(* SubmitJob: return <-m.jobCompleteChan.  The channel says nothing about  *)
(* which caller an answer is for.  An import request then ends and gives   *)
(* the semaphore back.                                                     *)
Answered(j) ==
  /\ caller[j] = "submitted"
  /\ Full(jobCompleteChan)
  /\ answer' = [answer EXCEPT ![j] = Head(jobCompleteChan)]
  /\ jobCompleteChan' = <<>>
  /\ caller' = [caller EXCEPT ![j] = "returned"]
  /\ bsem' = IF j \in Import THEN Free ELSE bsem
  /\ UNCHANGED <<addJob, sendJob, status, msgs, handlerVars, netVars, ntfns,
                 listenVars>>
-----------------------------------------------------------------------------
(* jobHandler: case job := <-m.addJob.                                     *)
NeverBusy == FALSE
Busy == ~Empty(curBatch)
AddJob ==
  /\ todo = <<>>
  /\ Full(addJob)
  /\ LET j == Head(addJob) IN
     IF ~Busy
       THEN /\ curBatch' = merge(curBatch, j)
            /\ batchOf' = [batchOf EXCEPT ![j] = curBatch.id]
            /\ todo' = <<SendOn("sendJob", [jobs |-> {j}, height |-> StartHeight[j]]),
                         SendOn("complete", curBatch.id),
                         SendOn("msgs", StartedMsg([jobs |-> {j}]))>>
            /\ UNCHANGED nextBatch
       ELSE /\ nextBatch' = merge(nextBatch, j)
            /\ batchOf' = [batchOf EXCEPT ![j] = nextBatch.id]
            /\ todo' = <<SendOn("complete", nextBatch.id)>>
            /\ UNCHANGED curBatch
  /\ addJob' = <<>>
  /\ UNCHANGED <<bsem, callerVars, sendJob, status, msgs, jobCompleteChan,
                 closed, netVars, ntfns, listenVars>>

(* jobHandler: case status := <-m.status.                                  *)
Status ==
  /\ todo = <<>>
  /\ Full(status)
  /\ todo' = IF Head(status) = "progress"
               THEN <<SendOn("msgs", ProgressMsg(curBatch))>>
               ELSE <<SendOn("msgs", FinishedMsg(curBatch, Head(status) = "finished")),
                      FinishBatch>>
  /\ status' = <<>>
  /\ UNCHANGED <<bsem, callerVars, addJob, sendJob, msgs, jobCompleteChan,
                 curBatch, nextBatch, closed, batchOf, netVars, ntfns,
                 listenVars>>

(* jobHandler's next pending channel send, once the channel has room.      *)
Put(ch, name) ==
  IF todo[1].ch = name THEN ~Full(ch) /\ ch' = <<todo[1].v>> ELSE UNCHANGED ch
HandlerSend ==
  /\ todo # <<>>
  /\ todo[1] # FinishBatch
  /\ Put(sendJob, "sendJob")
  /\ Put(jobCompleteChan, "complete")
  /\ Put(msgs, "msgs")
  /\ todo' = Tail(todo)
  /\ UNCHANGED <<bsem, callerVars, addJob, status, curBatch, nextBatch,
                 closed, batchOf, netVars, ntfns, listenVars>>

(* curBatch.done(), then the waiting batch becomes the current one.        *)
Done == {curBatch.id}
StartNothing(b) == <<>>
StartBatch(b) == IF Empty(b) THEN <<>>
                 ELSE <<SendOn("sendJob", job(b)), SendOn("msgs", StartedMsg(b))>>
NextBatch ==
  /\ todo # <<>>
  /\ todo[1] = FinishBatch
  /\ closed' = closed \cup Done
  /\ curBatch' = nextBatch
  /\ nextBatch' = newRescanBatch(nextBatch.id + 1)
  /\ todo' = StartBatch(nextBatch)
  /\ UNCHANGED <<bsem, callerVars, addJob, sendJob, status, msgs,
                 jobCompleteChan, batchOf, netVars, ntfns, listenVars>>
-----------------------------------------------------------------------------
(* rpcHandler takes a job and calls Rescan; when accessClient has no       *)
(* client it marks the job finished with an error and then returns for     *)
(* good.                                                                   *)
CallRescan ==
  /\ rpc = Idle
  /\ Full(sendJob)
  /\ sendJob' = <<>>
  /\ rpc' = [state |-> "calling", req |-> Head(sendJob)]
  /\ UNCHANGED <<bsem, callerVars, addJob, status, msgs, jobCompleteChan,
                 handlerVars, progress, scanned, failed, ntfns, listenVars>>

NoClient ==
  /\ rpc = Idle
  /\ Full(sendJob)
  /\ sendJob' = <<>>
  /\ rpc' = [state |-> "noclient", req |-> Head(sendJob)]
  /\ failed' = failed \cup Head(sendJob).jobs
  /\ UNCHANGED <<bsem, callerVars, addJob, status, msgs, jobCompleteChan,
                 handlerVars, progress, scanned, ntfns, listenVars>>

(* The chain server: a rescan sends progress notifications, and ends       *)
(* either with a rescanfinished notification and a reply or with an error  *)
(* reply, on which rpcHandler marks it finished.                           *)
RescanProgress ==
  /\ rpc.state = "calling"
  /\ progress < MaxProgress
  /\ progress' = progress + 1
  /\ ntfns' = Append(ntfns, "progress")
  /\ UNCHANGED <<bsem, callerVars, addJob, sendJob, status, msgs,
                 jobCompleteChan, handlerVars, rpc, scanned, failed,
                 listenVars>>

RescanFinished ==
  /\ rpc.state = "calling"
  /\ scanned' = scanned \cup {rpc.req}
  /\ ntfns' = Append(ntfns, "finished")
  /\ rpc' = Idle
  /\ UNCHANGED <<bsem, callerVars, addJob, sendJob, status, msgs,
                 jobCompleteChan, handlerVars, progress, failed, listenVars>>

RescanError ==
  /\ rpc.state = "calling"
  /\ failed' = failed \cup rpc.req.jobs
  /\ rpc' = [rpc EXCEPT !.state = "error"]
  /\ UNCHANGED <<bsem, callerVars, addJob, sendJob, status, msgs,
                 jobCompleteChan, handlerVars, progress, scanned, ntfns,
                 listenVars>>

(* rpcHandler's m.MarkFinished(rescanFinished{err}).                       *)
MarkFailed ==
  /\ rpc.state \in {"error", "noclient"}
  /\ ~Full(status)
  /\ status' = <<"failed">>
  /\ rpc' = IF rpc.state = "error" THEN Idle ELSE [Idle EXCEPT !.state = "returned"]
  /\ UNCHANGED <<bsem, callerVars, addJob, sendJob, msgs, jobCompleteChan,
                 handlerVars, progress, scanned, failed, ntfns, listenVars>>

(* The notification handler's MarkProgress and MarkFinished.               *)
Mark ==
  /\ ntfns # <<>>
  /\ ~Full(status)
  /\ status' = <<Head(ntfns)>>
  /\ ntfns' = Tail(ntfns)
  /\ UNCHANGED <<bsem, callerVars, addJob, sendJob, msgs, jobCompleteChan,
                 handlerVars, netVars, listenVars>>
-----------------------------------------------------------------------------
(* rescanListener: range over the messages, then, for each one, Grab, mark *)
(* the addresses, Release.  Between Grab and Release it waits for none of  *)
(* the other goroutines here, so these are one step.                       *)
Listen ==
  /\ listener = <<>>
  /\ Full(msgs)
  /\ listener' = msgs
  /\ msgs' = <<>>
  /\ UNCHANGED <<bsem, callerVars, addJob, sendJob, status, jobCompleteChan,
                 handlerVars, netVars, ntfns, sync>>

ListenerMark ==
  /\ listener # <<>>
  /\ bsem = Free
  /\ LET m == Head(listener) IN
     sync' = [j \in Job |->
                CASE j \in m.jobs /\ m.kind = "progress" -> "partial"
                  [] j \in m.jobs /\ m.kind = "finished" -> "full"
                  [] OTHER                               -> sync[j]]
  /\ listener' = <<>>
  /\ UNCHANGED <<bsem, callerVars, addJob, sendJob, status, msgs, jobCompleteChan,
                 handlerVars, netVars, ntfns>>
-----------------------------------------------------------------------------
Init ==
  /\ bsem = Free
  /\ caller = [j \in Job |-> "idle"]
  /\ answer = [j \in Job |-> 0]
  /\ addJob = <<>>
  /\ sendJob = <<>>
  /\ status = <<>>
  /\ msgs = <<>>
  /\ jobCompleteChan = <<>>
  /\ curBatch = newRescanBatch(1)
  /\ nextBatch = newRescanBatch(2)
  /\ todo = <<>>
  /\ rpc = Idle
  /\ ntfns = <<>>
  /\ listener = <<>>
  /\ closed = {}
  /\ sync = [j \in Job |-> "none"]
  /\ progress = 0
  /\ batchOf = [j \in Job |-> 0]
  /\ scanned = {}
  /\ failed = {}

Next ==
  \/ \E j \in Job : GrabForImport(j) \/ Submit(j) \/ Answered(j)
  \/ AddJob
  \/ Status
  \/ HandlerSend
  \/ NextBatch
  \/ CallRescan
  \/ NoClient
  \/ RescanProgress
  \/ RescanFinished
  \/ RescanError
  \/ MarkFailed
  \/ Mark
  \/ Listen
  \/ ListenerMark

(* Every goroutine that can go on does, a select takes a case that stays   *)
(* ready, and the chain server ends every rescan.  Nobody has to submit a  *)
(* job, and the chain server need not send progress notifications.         *)
Fairness ==
  /\ \A j \in Job : WF_vars(Answered(j)) /\ WF_vars(caller[j] = "ready" /\ Submit(j))
  /\ WF_vars(AddJob) /\ WF_vars(Status)
  /\ WF_vars(HandlerSend) /\ WF_vars(NextBatch)
  /\ WF_vars(CallRescan \/ NoClient) /\ WF_vars(RescanFinished \/ RescanError)
  /\ WF_vars(MarkFailed) /\ WF_vars(Mark)
  /\ WF_vars(Listen) /\ WF_vars(ListenerMark)

Spec == Init /\ [][Next]_vars /\ Fairness
-----------------------------------------------------------------------------
Batch == [id : Nat, jobs : SUBSET Job, height : Nat \cup {-1}]
Request == [jobs : SUBSET Job, height : Nat \cup {-1}]
Msg == [kind : {"started", "progress", "finished", "failed"}, jobs : SUBSET Job]

(* Types; a batch has a start height exactly when it has jobs.             *)
TypeOK ==
  /\ bsem \in {Free} \cup Import
  /\ caller \in [Job -> {"idle", "ready", "submitted", "returned"}]
  /\ answer \in [Job -> Nat]
  /\ addJob \in Seq(Job) /\ Len(addJob) <= 1
  /\ sendJob \in Seq(Request) /\ Len(sendJob) <= 1
  /\ status \in Seq({"progress", "finished", "failed"}) /\ Len(status) <= 1
  /\ msgs \in Seq(Msg) /\ Len(msgs) <= 1
  /\ jobCompleteChan \in Seq(Nat) /\ Len(jobCompleteChan) <= 1
  /\ curBatch \in Batch /\ (Empty(curBatch) <=> curBatch.height = -1)
  /\ nextBatch \in Batch /\ (Empty(nextBatch) <=> nextBatch.height = -1)
  /\ rpc.state \in {"idle", "calling", "error", "noclient", "returned"}
  /\ rpc.req \in Request
  /\ ntfns \in Seq({"progress", "finished"})
  /\ listener \in Seq(Msg) /\ Len(listener) <= 1
  /\ closed \subseteq Nat
  /\ sync \in [Job -> {"none", "partial", "full"}]
  /\ progress \in Nat
  /\ batchOf \in [Job -> Nat]
  /\ scanned \subseteq Request
  /\ failed \subseteq Job

(* "Rescan requests are processed one at a time, and the next batch does   *)
(* not run until the current has finished" (rescan.go 64-66): whatever the *)
(* order of requests, replies and notifications, what rpcHandler has, or   *)
(* is about to get, is the current batch, nothing of it is closed yet and  *)
(* no second request is on the way.                                        *)
OneAtATime ==
  LET inRpc == IF rpc.state \in {"calling", "error", "noclient"}
                 THEN <<rpc.req>> ELSE <<>>
      inTodo == IF todo # <<>> /\ todo[1].ch = "sendJob" THEN <<todo[1].v>> ELSE <<>>
      reqs == inTodo \o sendJob \o inRpc
  IN  /\ Len(reqs) <= 1
      /\ reqs # <<>> => /\ reqs[1] = job(curBatch)
                        /\ curBatch.id \notin closed

(* An address is marked fully synced only after the chain server completed *)
(* a rescan that included it and started no later than its job asked for,  *)
(* although the finished notification names neither.                       *)
SyncedCovered ==
  \A j \in Job : sync[j] = "full" =>
    \E r \in scanned : j \in r.jobs /\ r.height <= StartHeight[j]

(* A batch's complete channel is closed only when the rescan of each job   *)
(* merged into it completed or failed.                                     *)
ClosedMeansEnded ==
  \A j \in Job : batchOf[j] \in closed =>
    j \in failed \/ \E r \in scanned : j \in r.jobs

(* jobHandler keeps batches whole and apart: the types, OneAtATime and     *)
(* ClosedMeansEnded together.                                              *)
BatchesInTurn == TypeOK /\ OneAtATime /\ ClosedMeansEnded

(* An import request holds the semaphore, the listener waits for it with   *)
(* one message in hand and one in the channel, and jobHandler, which alone *)
(* could answer the request, waits to send a third.                        *)
Wedged ==
  /\ bsem # Free
  /\ jobCompleteChan = <<>>
  /\ listener # <<>> /\ Full(msgs)
  /\ todo # <<>> /\ todo[1].ch = "msgs"

(* Every submitted job's batch is completed, however jobs, notifications   *)
(* and failing rescans interleave, except in these two cases: rpcHandler   *)
(* returned because it found no chain server client, or the goroutines     *)
(* wedged as above.                                                        *)
JobCompletes ==
  \A j \in Job :
    caller[j] = "submitted" ~>
      (batchOf[j] \in closed \/ rpc.state = "returned" \/ Wedged)
=============================================================================
