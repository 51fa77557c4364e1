------------------------- MODULE UploadQueueProofs --------------------------
(***************************************************************************)
(* No accepted upload is lost or doubled and no cancelled one is sent, for *)
(* any number of handlers, workers and uploads, any retry limit and any    *)
(* number of reconnects and restarts.                                      *)
(***************************************************************************)
EXTENDS UploadQueue, FiniteSetTheorems, TLAPS

\* The points of a thread, as functions.
Control ==
  /\ pc \in [Thread -> {"get", "got", "check", "upload", "cache", "save", "cache2", "save2",
                        "call", "put", "cancel", "ended"}]
  /\ saving \in [Thread -> SUBSET UploadItem]

\* A list of the queue names no upload twice.
Distinct(items) == \A i, j \in items : i.id = j.id => i = j
ListsOK == Distinct(upload_queue) /\ Distinct(AthenadUploadQueue) /\ \A t \in Thread : Distinct(saving[t])

\* What a handler holds is not in the queue, and no other handler has it.
HeldOK ==
  \A h \in Handler : Holds(h) =>
    /\ item[h] \in UploadItem /\ item[h].id \notin Ids(upload_queue)
    /\ \A g \in Handler : Holds(g) /\ item[g].id = item[h].id => g = h

\* What a worker is about to put into the queue is new to everyone; what it is
\* about to cancel is an upload.
Putting(w) == pc[w] = "put"
WorkerOK ==
  \A w \in Worker :
    /\ Putting(w) =>
         /\ item[w] \in UploadItem /\ item[w].id \notin Ids(upload_queue) \cup void
         /\ \A h \in Handler : Holds(h) => item[h].id # item[w].id
         /\ \A v \in Worker : Putting(v) /\ item[v].id = item[w].id => v = w
    /\ pc[w] = "cancel" => item[w] \in UploadItem

\* Nothing that is owed is lost.
OwedOK == \A x \in owed : x \in Ids(upload_queue) \/ \E h \in Handler : Holds(h) /\ item[h].id = x

\* A cancellation that found the file in the queue is remembered for as long as
\* the file can still be taken up.
VoidOK ==
  /\ Ids(upload_queue) \cap void \subseteq cancelled_uploads
  /\ \A h \in Handler : Holds(h) /\ item[h].id \in void =>
       pc[h] # "upload" /\ item[h].id \in cancelled_uploads

\* The inductive invariant.  OneOwner needs that items are found by their ids
\* in one place only, which an RPC worker about to put one could break, and a
\* saved list too, which a restart makes the queue.
QueueInv == TypeOK /\ Control /\ ListsOK /\ HeldOK /\ WorkerOK /\ OwedOK /\ VoidOK

-----------------------------------------------------------------------------
\* The parts about uploads depend on the queue, the cancellations and what the
\* threads have in hand: a step that leaves those alone preserves them, and one
\* that begins a transfer does too if the upload is not cancelled.
LEMMA SameHands ==
  ASSUME QueueInv, UNCHANGED <<upload_queue, cancelled_uploads, item, owed, void>>,
         \A h \in Handler :
           /\ Holds(h)' = Holds(h)
           /\ pc'[h] = "upload" => pc[h] = "upload" \/ item[h].id \notin cancelled_uploads,
         \A w \in Worker : Putting(w)' = Putting(w) /\ (pc'[w] = "cancel" => pc[w] = "cancel")
  PROVE  HeldOK' /\ WorkerOK' /\ OwedOK' /\ VoidOK'
<1> USE DEF QueueInv
<1>1. HeldOK' /\ OwedOK'
  BY DEF HeldOK, OwedOK
<1>2. WorkerOK'
  BY DEF WorkerOK
<1>3. VoidOK'
  BY DEF VoidOK
<1> QED
  BY <1>1, <1>2, <1>3

(***************************************************************************)
(* The steps of a thread.                                                  *)
(***************************************************************************)
\* UploadQueueCache.cache saves a list of the queue and moves nothing.
LEMMA CacheInv ==
  ASSUME QueueInv, NEW t \in Thread, cache(t)
  PROVE  QueueInv'
<1> USE UploadQueueAssumption DEF QueueInv, cache, ListQueue, SaveQueue, shared, Goto, LoopTop
<1>1. TypeOK' /\ Control'
  BY DEF TypeOK, Control, Thread, UploadItem, None, Holds
<1>2. ListsOK'
  BY DEF TypeOK, Control, ListsOK, Distinct, HeldOK, WorkerOK, Holds
<1>3. HeldOK' /\ WorkerOK' /\ OwedOK' /\ VoidOK'
  <2>1. UNCHANGED <<upload_queue, cancelled_uploads, item, owed, void>>
    OBVIOUS
  <2>2. \A h \in Handler :
          /\ Holds(h)' = Holds(h)
          /\ pc'[h] = "upload" => pc[h] = "upload" \/ item[h].id \notin cancelled_uploads
    BY DEF Control, Holds, Thread
  <2>3. \A w \in Worker : Putting(w)' = Putting(w) /\ (pc'[w] = "cancel" => pc[w] = "cancel")
    BY DEF Control, Putting, Thread
  <2> QED
    BY <2>1, <2>2, <2>3, SameHands
<1> QED
  BY <1>1, <1>2, <1>3

\* The item leaves the queue and is in the hands of this handler alone.
LEMMA GetInv ==
  ASSUME QueueInv, NEW h \in Handler, Get(h)
  PROVE  QueueInv'
<1> USE UploadQueueAssumption DEF QueueInv, Get, Goto, LoopTop
<1>1. TypeOK' /\ Control'
  BY DEF TypeOK, Control, Thread, UploadItem, None
<1>2. ListsOK'
  BY DEF TypeOK, Control, ListsOK, Distinct, HeldOK, WorkerOK, Holds
<1>3. HeldOK'
  BY DEF TypeOK, Control, ListsOK, HeldOK, Distinct, WorkerOK, Holds, Ids, Thread
<1>4. WorkerOK'
  BY DEF TypeOK, Control, HeldOK, WorkerOK, Holds, Putting, Ids, Thread
<1>5. OwedOK'
  BY DEF TypeOK, Control, HeldOK, OwedOK, Holds, Ids, Thread
<1>6. VoidOK'
  BY DEF TypeOK, Control, HeldOK, WorkerOK, VoidOK, Holds, Ids, Thread
<1> QED
  BY <1>1, <1>2, <1>3, <1>4, <1>5, <1>6

\* The handler keeps what it holds; a transfer begins only if the upload is not
\* cancelled.
LEMMA BeginInv ==
  ASSUME QueueInv, NEW h \in Handler, SetCurrent(h) \/ StartUpload(h)
  PROVE  QueueInv'
<1> USE UploadQueueAssumption DEF QueueInv, SetCurrent, StartUpload, shared, Goto
<1>1. TypeOK' /\ Control'
  BY DEF TypeOK, Control, Thread, UploadItem, None
<1>2. ListsOK'
  BY DEF TypeOK, Control, ListsOK, Distinct, HeldOK, WorkerOK, Holds
<1>3. HeldOK' /\ WorkerOK' /\ OwedOK' /\ VoidOK'
  <2>1. UNCHANGED <<upload_queue, cancelled_uploads, item, owed, void>>
    OBVIOUS
  <2>2. \A g \in Handler :
          /\ Holds(g)' = Holds(g)
          /\ pc'[g] = "upload" => pc[g] = "upload" \/ item[g].id \notin cancelled_uploads
    BY DEF Control, Holds, Thread
  <2>3. \A w \in Worker : Putting(w)' = Putting(w) /\ (pc'[w] = "cancel" => pc[w] = "cancel")
    BY DEF Control, Putting, Thread
  <2> QED
    BY <2>1, <2>2, <2>3, SameHands
<1> QED
  BY <1>1, <1>2, <1>3

\* The upload leaves the hands of the handler and is owed no longer; only that
\* upload's cancellation is forgotten.
LEMMA EndInv ==
  ASSUME QueueInv, NEW h \in Handler, Skip(h) \/ UploadDone(h)
  PROVE  QueueInv'
<1> USE UploadQueueAssumption DEF QueueInv, Skip, UploadDone, Settle, Forget, Goto, LoopTop
<1>1. TypeOK' /\ Control'
  BY DEF TypeOK, Control, Thread, UploadItem, None, Holds
<1>2. ListsOK'
  BY DEF TypeOK, Control, ListsOK, Distinct, HeldOK, WorkerOK, Holds
<1>3. HeldOK'
  BY DEF TypeOK, Control, ListsOK, HeldOK, Distinct, WorkerOK, Holds, Thread
<1>4. WorkerOK'
  BY DEF TypeOK, Control, HeldOK, WorkerOK, Holds, Putting, Thread
<1>5. OwedOK'
  BY DEF TypeOK, Control, HeldOK, OwedOK, Holds, Thread
<1>6. VoidOK'
  BY DEF TypeOK, Control, HeldOK, WorkerOK, VoidOK, Holds, Thread
<1> QED
  BY <1>1, <1>2, <1>3, <1>4, <1>5, <1>6

\* retry_upload: back into the queue with its id, or given up.
LEMMA RetryInv ==
  ASSUME QueueInv, NEW h \in Handler, Metered(h) \/ UploadFails(h)
  PROVE  QueueInv'
<1> USE UploadQueueAssumption DEF QueueInv, Metered, UploadFails, retry_upload, Settle, Forget, Goto, LoopTop
<1>1. TypeOK' /\ Control'
  BY DEF TypeOK, Control, Thread, UploadItem, None, HeldOK, Holds
<1>2. ListsOK'
  BY DEF TypeOK, Control, ListsOK, Distinct, HeldOK, WorkerOK, Holds, UploadItem, Ids
<1>3. HeldOK'
  BY DEF TypeOK, Control, ListsOK, HeldOK, Distinct, WorkerOK, Holds, Ids, Thread, UploadItem
<1>4. WorkerOK'
  BY DEF TypeOK, Control, HeldOK, WorkerOK, Holds, Putting, Ids, Thread, UploadItem
<1>5. OwedOK'
  <2>1. CASE item[h].retry_count < MAX_RETRY_COUNT
    <3>0. item[h] \in UploadItem
      BY DEF HeldOK, Holds
    <3>1. \E i \in upload_queue' : i.id = item[h].id
      <4> DEFINE n(b) == [item[h] EXCEPT !.retry_count = IF b THEN @ + 1 ELSE @]
      <4>1. \A b \in BOOLEAN : n(b).id = item[h].id
        BY <3>0 DEF UploadItem
      <4>2. \E b \in BOOLEAN : n(b) \in upload_queue'
        BY <2>1
      <4> QED
        BY <4>1, <4>2
    <3>2. upload_queue \subseteq upload_queue' /\ owed' = owed
      BY <2>1
    <3>3. \A g \in Handler : g # h => Holds(g)' = Holds(g) /\ item'[g] = item[g]
      BY DEF TypeOK, Control, Holds, Thread
    <3> QED
      BY <3>1, <3>2, <3>3 DEF OwedOK, Ids
  <2>2. CASE ~ (item[h].retry_count < MAX_RETRY_COUNT)
    BY <2>2 DEF TypeOK, Control, HeldOK, OwedOK, Holds, Thread
  <2> QED
    BY <2>1, <2>2
<1>6. VoidOK'
  BY DEF TypeOK, Control, HeldOK, WorkerOK, VoidOK, Holds, Ids, Thread, UploadItem
<1> QED
  BY <1>1, <1>2, <1>3, <1>4, <1>5, <1>6

\* A worker takes an unused id, or finds an upload to cancel, or ends.
LEMMA RpcInv ==
  ASSUME QueueInv, NEW w \in Worker, uploadFilesToUrls(w) \/ FindUpload(w) \/ WorkerEnds(w)
  PROVE  QueueInv'
<1> USE UploadQueueAssumption DEF QueueInv, uploadFilesToUrls, FindUpload, WorkerEnds, Unused, shared, Goto
<1>1. TypeOK'
  <2>1. CASE uploadFilesToUrls(w)
    BY <2>1 DEF TypeOK, Control, Thread, UploadItem
  <2>2. CASE FindUpload(w)
    BY <2>2 DEF TypeOK, Thread
  <2>3. CASE WorkerEnds(w)
    BY <2>3 DEF TypeOK
  <2> QED
    BY <2>1, <2>2, <2>3
<1>2. Control'
  BY DEF TypeOK, Control, Thread
<1>3. ListsOK'
  BY DEF TypeOK, Control, ListsOK, Distinct, HeldOK, WorkerOK, Holds
<1>4. HeldOK'
  BY DEF TypeOK, Control, ListsOK, HeldOK, Distinct, WorkerOK, Holds, Ids, Thread
<1>5. WorkerOK'
  BY DEF TypeOK, Control, HeldOK, WorkerOK, Holds, Putting, Ids, Thread, UploadItem
<1>6. OwedOK'
  BY DEF TypeOK, Control, HeldOK, OwedOK, Holds, Ids, Thread
<1>7. VoidOK'
  BY DEF TypeOK, Control, HeldOK, WorkerOK, VoidOK, Holds, Thread
<1> QED
  BY <1>1, <1>2, <1>3, <1>4, <1>5, <1>6, <1>7

\* The new upload enters the queue.
LEMMA EnqueueInv ==
  ASSUME QueueInv, NEW w \in Worker, Enqueue(w)
  PROVE  QueueInv'
<1> USE UploadQueueAssumption DEF QueueInv, Enqueue, Forget, Goto
<1>1. TypeOK' /\ Control'
  BY DEF TypeOK, Control, Thread, UploadItem, None, WorkerOK, Putting
<1>2. ListsOK'
  BY DEF TypeOK, Control, ListsOK, Distinct, HeldOK, WorkerOK, Holds, Putting, Ids
<1>3. HeldOK'
  BY DEF TypeOK, Control, ListsOK, HeldOK, Distinct, WorkerOK, Holds, Putting, Ids
<1>4. WorkerOK'
  BY DEF TypeOK, Control, HeldOK, WorkerOK, Holds, Putting, Ids, Thread
<1>5. OwedOK'
  BY DEF TypeOK, Control, HeldOK, OwedOK, Holds, Ids
<1>6. VoidOK'
  BY DEF TypeOK, Control, HeldOK, WorkerOK, VoidOK, Holds, Putting, Ids
<1> QED
  BY <1>1, <1>2, <1>3, <1>4, <1>5, <1>6

\* A cancellation counts only while the upload is in the queue.
LEMMA CancelUploadInv ==
  ASSUME QueueInv, NEW w \in Worker, CancelUpload(w)
  PROVE  QueueInv'
<1> USE UploadQueueAssumption DEF QueueInv, CancelUpload, Forget, Goto
<1>1. TypeOK' /\ Control'
  BY DEF TypeOK, Control, Thread, UploadItem, None, WorkerOK
<1>2. ListsOK'
  BY DEF TypeOK, Control, ListsOK, Distinct, HeldOK, WorkerOK, Holds
<1>3. HeldOK'
  BY DEF TypeOK, Control, ListsOK, HeldOK, Distinct, WorkerOK, Holds
<1>4. WorkerOK'
  BY DEF TypeOK, Control, HeldOK, WorkerOK, Holds, Putting
<1>5. OwedOK'
  BY DEF TypeOK, Control, HeldOK, OwedOK, Holds
<1>6. VoidOK'
  BY DEF TypeOK, Control, HeldOK, WorkerOK, VoidOK, Holds
<1> QED
  BY <1>1, <1>2, <1>3, <1>4, <1>5, <1>6

(***************************************************************************)
(* The connection and the process.                                         *)
(***************************************************************************)
\* end_event is set, or nothing more goes wrong.
LEMMA DisconnectInv ==
  ASSUME QueueInv, Disconnect \/ BecomeCalm
  PROVE  QueueInv'
<1> USE UploadQueueAssumption DEF QueueInv, Disconnect, BecomeCalm, shared
<1>1. TypeOK' /\ Control'
  BY DEF TypeOK, Control, Thread, UploadItem, None
<1>2. ListsOK'
  BY DEF TypeOK, Control, ListsOK, Distinct, HeldOK, WorkerOK, Holds
<1>3. HeldOK' /\ WorkerOK' /\ OwedOK' /\ VoidOK'
  <2>1. UNCHANGED <<upload_queue, cancelled_uploads, item, owed, void>>
    OBVIOUS
  <2>2. \A h \in Handler :
          /\ Holds(h)' = Holds(h)
          /\ pc'[h] = "upload" => pc[h] = "upload" \/ item[h].id \notin cancelled_uploads
    BY DEF Control, Holds, Thread
  <2>3. \A w \in Worker : Putting(w)' = Putting(w) /\ (pc'[w] = "cancel" => pc[w] = "cancel")
    BY DEF Control, Putting, Thread
  <2> QED
    BY <2>1, <2>2, <2>3, SameHands
<1> QED
  BY <1>1, <1>2, <1>3

\* New threads hold nothing.  They start when every thread has ended, and then
\* no upload was in a thread's hands; or athenad starts from the saved queue.
LEMMA StartInv ==
  ASSUME QueueInv, Reconnect \/ Restart
  PROVE  QueueInv'
<1> USE UploadQueueAssumption DEF QueueInv, Reconnect, Restart, StartThreads
<1>1. TypeOK'
  <2>1. CASE Reconnect
    BY <2>1 DEF TypeOK, Thread
  <2>2. CASE Restart
    BY <2>2 DEF TypeOK, Thread
  <2> QED
    BY <2>1, <2>2
<1>2. Control'
  BY DEF TypeOK, Control, Thread
<1>3. ListsOK'
  BY DEF TypeOK, Control, ListsOK, Distinct, HeldOK, WorkerOK, Holds
<1>4. HeldOK'
  BY DEF TypeOK, Control, ListsOK, HeldOK, Distinct, WorkerOK, Holds, Thread
<1>5. WorkerOK'
  BY DEF TypeOK, Control, HeldOK, WorkerOK, Holds, Putting, Thread
<1>6. OwedOK'
  BY DEF TypeOK, Control, HeldOK, OwedOK, Holds, Thread
<1>7. VoidOK'
  BY DEF TypeOK, Control, HeldOK, WorkerOK, VoidOK, Holds, Thread
<1> QED
  BY <1>1, <1>2, <1>3, <1>4, <1>5, <1>6, <1>7

-----------------------------------------------------------------------------
\* athenad starts with empty hands.
LEMMA InitInv == Init => QueueInv
<1> SUFFICES ASSUME Init PROVE QueueInv
  OBVIOUS
<1> USE UploadQueueAssumption DEF Init
<1>1. TypeOK /\ Control
  BY DEF TypeOK, Control, Thread, None
<1>2. ListsOK /\ HeldOK /\ WorkerOK /\ OwedOK /\ VoidOK
  BY DEF ListsOK, Distinct, HeldOK, WorkerOK, OwedOK, VoidOK, Holds, Putting, Thread
<1> QED
  BY <1>1, <1>2 DEF QueueInv

\* Every step of every thread, of the connection and of manager keeps it.
LEMMA Inductive == QueueInv /\ [Next]_vars => QueueInv'
<1> SUFFICES ASSUME QueueInv, [Next]_vars PROVE QueueInv'
  OBVIOUS
<1>1. CASE \E h \in Handler : UploadHandler(h)
  BY <1>1, GetInv, BeginInv, EndInv, RetryInv, CacheInv DEF UploadHandler, Thread
<1>2. CASE \E w \in Worker : JsonRpcHandler(w)
  BY <1>2, RpcInv, EnqueueInv, CancelUploadInv, CacheInv DEF JsonRpcHandler, Thread
<1>3. CASE Disconnect \/ Reconnect \/ Restart \/ BecomeCalm
  BY <1>3, DisconnectInv, StartInv
<1>4. CASE UNCHANGED vars
  BY <1>4 DEF vars, shared, QueueInv, TypeOK, Control, ListsOK, HeldOK, WorkerOK, OwedOK, VoidOK, Holds, Putting
<1> QED
  BY <1>1, <1>2, <1>3, <1>4 DEF Next

\* The invariant holds of every state athenad's upload queue can reach.
THEOREM Safety == Spec => []QueueInv
BY InitInv, Inductive, PTL DEF Spec

\* The variables keep their types: in particular no upload is tried more often
\* than MAX_RETRY_COUNT allows (retry_upload), and every point a thread can be
\* at has a step of upload_handler or jsonrpc_handler.
THEOREM TypeCorrect == Spec => []TypeOK
<1>1. QueueInv => TypeOK
  BY DEF QueueInv
<1> QED
  BY Safety, <1>1, PTL

\* An accepted upload is in one place only until something has come of it: in
\* the queue once, or in the hands of one handler (upload_handler,
\* retry_upload).
THEOREM OwnerSafe == Spec => []OneOwner
<1>1. QueueInv => OneOwner
  <2> SUFFICES ASSUME QueueInv, NEW x \in owed
               PROVE  Cardinality({i \in upload_queue : i.id = x})
                        + Cardinality({h \in Handler : Holds(h) /\ item[h].id = x}) = 1
    BY DEF OneOwner
  <2> DEFINE queued == {i \in upload_queue : i.id = x}
             holding == {h \in Handler : Holds(h) /\ item[h].id = x}
  <2>0. \A y : Cardinality({y}) = 1 /\ Cardinality({}) = 0
    BY FS_Singleton, FS_EmptySet
  <2> SUFFICES Cardinality(queued) + Cardinality(holding) = 1
    OBVIOUS
  <2> HIDE DEF queued, holding
  <2>1. CASE x \in Ids(upload_queue)
    <3>1. PICK i \in upload_queue : i.id = x
      BY <2>1 DEF Ids
    <3>2. queued = {i}
      BY <3>1 DEF queued, QueueInv, ListsOK, Distinct
    <3>3. holding = {}
      BY <2>1 DEF holding, QueueInv, HeldOK
    <3>4. Cardinality(queued) = 1 /\ Cardinality(holding) = 0
      BY <3>2, <3>3, <2>0
    <3> QED
      BY <3>4
  <2>2. CASE x \notin Ids(upload_queue)
    <3>1. PICK h \in Handler : Holds(h) /\ item[h].id = x
      BY <2>2 DEF QueueInv, OwedOK
    <3>2. holding = {h}
      BY <3>1 DEF holding, QueueInv, HeldOK
    <3>3. queued = {}
      BY <2>2 DEF queued, Ids
    <3> QED
      BY <3>2, <3>3, <2>0
  <2> QED
    BY <2>1, <2>2
<1> QED
  BY Safety, <1>1, PTL

\* A cancelled upload that was still in the queue is never sent (cancelUpload,
\* upload_handler): the id stays in cancelled_uploads until the handler that
\* takes the item skips it.
THEOREM CancelSafe == Spec => []CancelHolds
<1>1. QueueInv => CancelHolds
  BY DEF QueueInv, VoidOK, CancelHolds, Holds
<1> QED
  BY Safety, <1>1, PTL
=============================================================================
