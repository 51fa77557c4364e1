---------------------------- MODULE UploadQueue ----------------------------
(***************************************************************************)
(* athenad's upload queue: RPC workers put files into it and cancel them,  *)
(* handlers take them out, upload and put them back when that fails, and   *)
(* both save the queue in the param AthenadUploadQueue.  A step ends where *)
(* a thread next touches what the threads share.  The websocket may break, *)
(* upon which all threads end and start anew, and athenad may be killed.   *)
(***************************************************************************)
EXTENDS Integers, FiniteSets

CONSTANTS
  Handler,            \* the upload_handler threads
  Worker,             \* the jsonrpc_handler threads
  Id,                 \* upload ids
  Url,                \* the url of each, without its query
  MAX_RETRY_COUNT

ASSUME UploadQueueAssumption ==
  MAX_RETRY_COUNT \in Nat /\ "none" \notin Id /\ Handler \cap Worker = {}

UploadItem == [id : Id, retry_count : 0 .. MAX_RETRY_COUNT]
None == [id |-> "none", retry_count |-> 0]
Thread == Handler \cup Worker

VARIABLES
  upload_queue, cancelled_uploads, cur_upload_items,
  AthenadUploadQueue,  \* the param
  pc,                  \* where each thread is
  item,                \* the item a handler works on or a worker is given
  saving,              \* a thread's list of the queue, on its way to the param
  end_event,
  owed,                \* history: accepted, and nothing has come of it yet
  void,                \* history: cancelled while in the queue
  calm                 \* athenad and its connections stay up from now on

shared == <<upload_queue, cancelled_uploads, cur_upload_items, AthenadUploadQueue>>
vars == <<shared, pc, item, saving, end_event, owed, void, calm>>

\* The type invariant; no item is tried more often than MAX_RETRY_COUNT allows.
TypeOK ==
  /\ upload_queue \subseteq UploadItem /\ AthenadUploadQueue \subseteq UploadItem
  /\ cancelled_uploads \subseteq Id
  /\ cur_upload_items \in [Handler -> UploadItem \cup {None}]
  /\ \A h \in Handler : pc[h] \in {"get", "got", "check", "upload", "cache", "save", "cache2", "save2", "ended"}
  /\ \A w \in Worker : pc[w] \in {"call", "put", "cancel", "cache", "save", "ended"}
  /\ item \in [Thread -> UploadItem \cup {None}]
  /\ \A t \in Thread : saving[t] \subseteq UploadItem
  /\ end_event \in BOOLEAN /\ calm \in BOOLEAN /\ owed \subseteq Id /\ void \subseteq Id

Init ==
  /\ upload_queue = {} /\ cancelled_uploads = {} /\ AthenadUploadQueue = {}
  /\ cur_upload_items = [h \in Handler |-> None]
  /\ pc = [t \in Thread |-> IF t \in Handler THEN "get" ELSE "call"]
  /\ item = [t \in Thread |-> None] /\ saving = [t \in Thread |-> {}]
  /\ end_event = FALSE /\ owed = {} /\ void = {} /\ calm = FALSE

\* handle_long_poll starts its threads.
StartThreads ==
  /\ cur_upload_items' = [h \in Handler |-> None]
  /\ pc' = [t \in Thread |-> IF t \in Handler THEN "get" ELSE "call"]
  /\ item' = [t \in Thread |-> None] /\ saving' = [t \in Thread |-> {}]
  /\ end_event' = FALSE

Goto(t, to) == pc' = [pc EXCEPT ![t] = to]
Forget(t) == item' = [item EXCEPT ![t] = None]

\* Nothing will come of the item any more: uploaded, refused or given up.
Settle(t) == owed' = owed \ {item[t].id}

\* The top of upload_handler's loop: the thread ends with the connection, and
\* otherwise waits for an item and has none.
LoopTop(h) ==
  IF end_event THEN Goto(h, "ended") /\ UNCHANGED cur_upload_items
               ELSE Goto(h, "get") /\ cur_upload_items' = [cur_upload_items EXCEPT ![h] = None]

-----------------------------------------------------------------------------
(***************************************************************************)
(* UploadQueueCache.cache: the list, and then the param                    *)
(***************************************************************************)
ListQueue(t) ==
  /\ pc[t] \in {"cache", "cache2"} /\ Goto(t, IF pc[t] = "cache" THEN "save" ELSE "save2")
  /\ saving' = [saving EXCEPT ![t] = {i \in upload_queue : i.id \notin cancelled_uploads}]
  /\ UNCHANGED <<shared, item, end_event, owed, void, calm>>

SaveQueue(t) ==
  /\ pc[t] \in {"save", "save2"}
  /\ AthenadUploadQueue' = saving[t] /\ saving' = [saving EXCEPT ![t] = {}]
  /\ \/ pc[t] = "save" /\ t \in Handler /\ LoopTop(t)
     \/ pc[t] = "save" /\ t \in Worker /\ Goto(t, "call") /\ UNCHANGED cur_upload_items
     \/ /\ pc[t] = "save2" /\ Goto(t, "cache")
        /\ cur_upload_items' = [cur_upload_items EXCEPT ![t] = None]
  /\ UNCHANGED <<upload_queue, cancelled_uploads, item, end_event, owed, void, calm>>

cache(t) == ListQueue(t) \/ SaveQueue(t)

-----------------------------------------------------------------------------
(***************************************************************************)
(* upload_handler                                                          *)
(***************************************************************************)
\* upload_queue.get returns an item of the best priority, whichever that is,
\* or nothing in a second.
Get(h) ==
  /\ pc[h] = "get"
  /\ \/ \E i \in upload_queue :
          /\ Goto(h, "got") /\ item' = [item EXCEPT ![h] = i]
          /\ upload_queue' = upload_queue \ {i} /\ UNCHANGED cur_upload_items
     \/ upload_queue = {} /\ LoopTop(h) /\ UNCHANGED <<upload_queue, item>>
  /\ UNCHANGED <<cancelled_uploads, AthenadUploadQueue, saving, end_event, owed, void, calm>>

\* Only now is it the thread's current item.
SetCurrent(h) ==
  /\ pc[h] = "got" /\ Goto(h, "check")
  /\ cur_upload_items' = [cur_upload_items EXCEPT ![h] = item[h]]
  /\ UNCHANGED <<upload_queue, cancelled_uploads, AthenadUploadQueue, item, saving, end_event, owed, void, calm>>

\* It was cancelled, or it is too old.
Skip(h) ==
  /\ pc[h] = "check" /\ LoopTop(h) /\ Settle(h) /\ Forget(h)
  /\ cancelled_uploads' = cancelled_uploads \ {item[h].id}
  /\ UNCHANGED <<upload_queue, AthenadUploadQueue, saving, end_event, void, calm>>

\* Mutant: the retry count is carried over, never raised.
retry_upload_NoCount(h, increase_count, next) ==
  /\ Forget(h) /\ Goto(h, next) /\ UNCHANGED <<cur_upload_items, owed>>
  /\ upload_queue' = upload_queue \cup {item[h]}

\* Mutant: the limit is checked one off.
retry_upload_OffByOne(h, increase_count, next) ==
  /\ Forget(h) /\ Goto(h, next) /\ UNCHANGED <<cur_upload_items, owed>>
  /\ item[h].retry_count <= MAX_RETRY_COUNT
  /\ upload_queue' = upload_queue \cup {[item[h] EXCEPT !.retry_count = IF increase_count THEN @ + 1 ELSE @]}

\* Mutant: a transfer aborted by a reconnect is not put back.
retry_upload_NotAtEnd(h, increase_count, next) ==
  /\ Forget(h)
  /\ IF item[h].retry_count < MAX_RETRY_COUNT
     THEN /\ upload_queue' = IF end_event THEN upload_queue ELSE upload_queue \cup
                {[item[h] EXCEPT !.retry_count = IF increase_count THEN @ + 1 ELSE @]}
          /\ Goto(h, next) /\ UNCHANGED <<cur_upload_items, owed>>
     ELSE /\ Settle(h) /\ UNCHANGED upload_queue
          /\ IF next = "cache2" THEN Goto(h, "cache") /\ UNCHANGED cur_upload_items ELSE LoopTop(h)

\* retry_upload: back into the queue, and the queue is saved.  An item with no
\* tries left is given up, even when this failure is not one to count.
retry_upload(h, increase_count, next) ==
  /\ Forget(h)
  /\ IF item[h].retry_count < MAX_RETRY_COUNT
     THEN /\ upload_queue' = upload_queue \cup
                {[item[h] EXCEPT !.retry_count = IF increase_count THEN @ + 1 ELSE @]}
          /\ Goto(h, next) /\ UNCHANGED <<cur_upload_items, owed>>
     ELSE /\ Settle(h) /\ UNCHANGED upload_queue
          /\ IF next = "cache2" THEN Goto(h, "cache") /\ UNCHANGED cur_upload_items ELSE LoopTop(h)

\* The network is metered, and not for this item: it waits its turn again.
Metered(h) ==
  /\ pc[h] = "check" /\ item[h].id \notin cancelled_uploads /\ ~ calm
  /\ retry_upload(h, FALSE, "cache")
  /\ UNCHANGED <<cancelled_uploads, AthenadUploadQueue, saving, end_event, void, calm>>

\* Mutant: the check for a cancellation is forgotten.
StartUpload_Unchecked(h) ==
  /\ pc[h] = "check" /\ Goto(h, "upload")
  /\ UNCHANGED <<shared, item, saving, end_event, owed, void, calm>>

StartUpload(h) ==
  /\ pc[h] = "check" /\ item[h].id \notin cancelled_uploads /\ Goto(h, "upload")
  /\ UNCHANGED <<shared, item, saving, end_event, owed, void, calm>>

\* _do_upload returns: taken, or refused for good (401, 403, 412); or raises
\* what is not about the connection.
UploadDone(h) ==
  /\ pc[h] = "upload" /\ Settle(h) /\ Forget(h)
  /\ \/ Goto(h, "cache") /\ UNCHANGED cur_upload_items
     \/ LoopTop(h)
  /\ UNCHANGED <<upload_queue, cancelled_uploads, AthenadUploadQueue, saving, end_event, void, calm>>

\* A status that asks for a retry, after which the queue is saved once more; a
\* connection that breaks; cb, which aborts the transfer because the network
\* became metered or athenad reconnects.
UploadFails(h) ==
  /\ pc[h] = "upload"
  /\ \/ retry_upload(h, TRUE, "cache2")
     \/ retry_upload(h, TRUE, "cache")
     \/ (end_event \/ ~ calm) /\ retry_upload(h, FALSE, "cache")
  /\ UNCHANGED <<cancelled_uploads, AthenadUploadQueue, saving, end_event, void, calm>>

UploadHandler(h) ==
  \/ Get(h) \/ SetCurrent(h) \/ Skip(h) \/ Metered(h) \/ StartUpload(h) \/ UploadDone(h)
  \/ UploadFails(h) \/ cache(h)

-----------------------------------------------------------------------------
(***************************************************************************)
(* jsonrpc_handler                                                         *)
(***************************************************************************)
WorkerEnds(w) ==
  /\ end_event /\ pc[w] = "call" /\ Goto(w, "ended")
  /\ UNCHANGED <<shared, item, saving, end_event, owed, void, calm>>

Ids(items) == {i.id : i \in items}
Current == {cur_upload_items[h] : h \in Handler} \ {None}

\* listUploadQueue
listUploadQueue == Ids(upload_queue \cup Current) \ cancelled_uploads

\* An id is made from the time and so never used twice; the model reuses those
\* that nothing remembers.
Unused ==
  Id \ (cancelled_uploads \cup owed \cup void
        \cup Ids(upload_queue \cup Current \cup AthenadUploadQueue
                 \cup {item[t] : t \in Thread} \cup UNION {saving[t] : t \in Thread}))

\* uploadFilesToUrls with one file: skipped if its url is listed.
uploadFilesToUrls(w) ==
  \E x \in Id :
    /\ ~ calm /\ pc[w] = "call"
    /\ IF \E y \in listUploadQueue : Url[y] = Url[x]
       THEN Goto(w, "cache") /\ UNCHANGED item
       ELSE x \in Unused /\ Goto(w, "put") /\ item' = [item EXCEPT ![w] = [id |-> x, retry_count |-> 0]]
    /\ UNCHANGED <<shared, saving, end_event, owed, void, calm>>

Enqueue(w) ==
  /\ pc[w] = "put" /\ Goto(w, "cache") /\ Forget(w)
  /\ upload_queue' = upload_queue \cup {item[w]} /\ owed' = owed \cup {item[w].id}
  /\ UNCHANGED <<cancelled_uploads, cur_upload_items, AthenadUploadQueue, saving, end_event, void, calm>>

\* cancelUpload finds the id in the queue, and then adds it to the set; a
\* handler may have taken the item in between.
FindUpload(w) ==
  /\ ~ calm /\ pc[w] = "call" /\ Goto(w, "cancel")
  /\ \E i \in upload_queue : item' = [item EXCEPT ![w] = i]
  /\ UNCHANGED <<shared, saving, end_event, owed, void, calm>>

CancelUpload(w) ==
  /\ pc[w] = "cancel" /\ Goto(w, "call") /\ Forget(w)
  /\ cancelled_uploads' = cancelled_uploads \cup {item[w].id}
  /\ void' = void \cup ({item[w].id} \cap Ids(upload_queue))
  /\ UNCHANGED <<upload_queue, cur_upload_items, AthenadUploadQueue, saving, end_event, owed, calm>>

JsonRpcHandler(w) ==
  \/ WorkerEnds(w) \/ uploadFilesToUrls(w) \/ Enqueue(w) \/ FindUpload(w) \/ CancelUpload(w)
  \/ cache(w)

-----------------------------------------------------------------------------
(***************************************************************************)
(* The connection and the process                                          *)
(***************************************************************************)
Disconnect ==
  /\ ~ calm /\ ~ end_event /\ end_event' = TRUE
  /\ UNCHANGED <<shared, pc, item, saving, owed, void, calm>>

\* main's loop, after all threads are joined.
Reconnect ==
  /\ \A t \in Thread : pc[t] = "ended"
  /\ StartThreads
  /\ UNCHANGED <<upload_queue, cancelled_uploads, AthenadUploadQueue, owed, void, calm>>

\* athenad is killed and started again: UploadQueueCache.initialize.
Restart ==
  /\ ~ calm /\ StartThreads
  /\ upload_queue' = AthenadUploadQueue /\ cancelled_uploads' = {}
  /\ owed' = owed \cap Ids(AthenadUploadQueue) /\ void' = {}
  /\ UNCHANGED <<AthenadUploadQueue, calm>>

\* The stretch without calls and breakdowns that EveryUploadEnds speaks of.
BecomeCalm ==
  /\ ~ calm /\ calm' = TRUE
  /\ UNCHANGED <<shared, pc, item, saving, end_event, owed, void>>

Next ==
  \/ \E h \in Handler : UploadHandler(h)
  \/ \E w \in Worker : JsonRpcHandler(w)
  \/ Disconnect \/ Reconnect \/ Restart \/ BecomeCalm

Spec == Init /\ [][Next]_vars

\* Every thread goes on; a worker need not be given calls.
FairSpec ==
  /\ Spec /\ WF_vars(Reconnect)
  /\ \A h \in Handler : WF_vars(UploadHandler(h))
  /\ \A w \in Worker : WF_vars(WorkerEnds(w) \/ Enqueue(w) \/ CancelUpload(w) \/ cache(w))

-----------------------------------------------------------------------------
Holds(h) == pc[h] \in {"got", "check", "upload"}

\* While athenad lives, an accepted file is in the queue or in one handler's
\* hands until something has come of it, and in one place only; reconnects,
\* which end every thread, included (upload_handler, retry_upload).
OneOwner ==
  \A x \in owed :
    Cardinality({i \in upload_queue : i.id = x}) + Cardinality({h \in Handler : Holds(h) /\ item[h].id = x}) = 1

\* A file whose cancellation found it still in the queue is not uploaded
\* (cancelUpload, upload_handler).
CancelHolds == \A h \in Handler : pc[h] = "upload" => item[h].id \notin void

\* When athenad stays up and is not called, something comes of every accepted
\* file (upload_handler, retry_upload).
EveryUploadEnds == \A x \in Id : (calm /\ x \in owed) ~> (x \notin owed)
=============================================================================
