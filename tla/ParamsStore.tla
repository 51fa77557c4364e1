----------------------------- MODULE ParamsStore -----------------------------
(***************************************************************************)
(* common/params.cc: the store of settings and state that must survive a   *)
(* power loss.  A key is a file; put() writes a temporary file, fsyncs it, *)
(* renames it over the key and fsyncs the directory.  putNonBlocking()     *)
(* queues the write for a thread that is started on demand and that ends   *)
(* when it finds the queue empty.                                          *)
(*                                                                         *)
(* Modelled are the caller of a Params object and its writer thread; a     *)
(* system call may fail, and the power may be lost between any two.  The   *)
(* file system may keep or lose what was not fsynced: disk[k] is the set   *)
(* of contents that a power loss may leave in the file of k.               *)
(***************************************************************************)
EXTENDS Naturals, Sequences

CONSTANTS Keys, Values,
          Torn,          \* the content of a file that was only written in part
          Absent,        \* no such file
          ClearKeys,     \* the keys that carry the flag of clearAll
          MAX_PUTS,      \* bound: operations asked of the Params object
          MAX_FAILS      \* bound: system calls that fail

ASSUME ContentAssumption == {Torn, Absent} \cap Values = {} /\ Torn # Absent
ASSUME ClearAssumption == ClearKeys \subseteq Keys
ASSUME BoundsAssumption == MAX_PUTS \in Nat /\ MAX_FAILS \in Nat

Threads == {"caller", "writer"}
File == Values \cup {Torn, Absent}
None == [op |-> "none"]
Jobs == {None, [op |-> "clear"]}
          \cup [op : {"put"}, key : Keys, value : Values] \cup [op : {"remove"}, key : Keys]

VARIABLES
  files,       \* what every process reads: key -> content
  disk,        \* what a power loss may leave: key -> set of contents
  tmp,         \* thread -> what a power loss may leave of its temporary file
  job,         \* thread -> the operation it executes
  pc,          \* thread -> the system call it makes next
  lock,        \* the thread that holds the flock, or "none"
  queue,       \* the SafeQueue of putNonBlocking
  future,      \* "none", "running" or "ready"
  promised,    \* key -> what a returned put() or remove() has promised, or "none"
  budget       \* what the bounds count

vars == <<files, disk, tmp, job, pc, lock, queue, future, promised, budget>>

Init ==
  /\ files = [k \in Keys |-> Absent]
  /\ disk = [k \in Keys |-> {Absent}]
  /\ tmp = [t \in Threads |-> {}]
  /\ job = [t \in Threads |-> None]
  /\ pc = [t \in Threads |-> "idle"]
  /\ lock = "none"
  /\ queue = <<>>
  /\ future = "none"
  /\ promised = [k \in Keys |-> "none"]
  /\ budget = [puts |-> 0, fails |-> 0]

-----------------------------------------------------------------------------
(***************************************************************************)
(* put(), remove() and clearAll(), one system call per action.             *)
(***************************************************************************)
At(t, here, there) == pc[t] = here /\ pc' = [pc EXCEPT ![t] = there]

Start(t, j, there) ==
  /\ At(t, "idle", there)
  /\ job' = [job EXCEPT ![t] = j]

\* mkstemp and write(): the data is not durable yet.
Write(t) ==
  /\ At(t, "write", "fsync")
  /\ tmp' = [tmp EXCEPT ![t] = {job[t].value, Torn}]
  /\ UNCHANGED <<files, disk, job, lock, queue, future, promised, budget>>

\* Mutant: no fsync of the temporary file.
Fsync_Skipped(t) ==
  /\ At(t, "fsync", "lock")
  /\ UNCHANGED <<files, disk, tmp, job, lock, queue, future, promised, budget>>

Fsync(t) ==
  /\ At(t, "fsync", "lock")
  /\ tmp' = [tmp EXCEPT ![t] = {job[t].value}]
  /\ UNCHANGED <<files, disk, job, lock, queue, future, promised, budget>>

\* FileLock waits until no other file descriptor holds the lock.
Lock(t) ==
  /\ lock = "none"
  /\ lock' = t
  /\ At(t, "lock", job[t].op)
  /\ UNCHANGED <<files, disk, tmp, job, queue, future, promised, budget>>

\* A file of the directory is replaced; older promises about it are void.
Replaced(k, content, left) ==
  /\ files' = [files EXCEPT ![k] = content]
  /\ disk' = [disk EXCEPT ![k] = @ \cup left]
  /\ promised' = [promised EXCEPT ![k] = "none"]
  /\ UNCHANGED <<tmp, job, lock, queue, future, budget>>

Rename(t) ==
  /\ At(t, "put", "fsync_dir")
  /\ Replaced(job[t].key, job[t].value, tmp[t])

Unlink(t) ==
  /\ At(t, "remove", "fsync_dir")
  /\ files[job[t].key] # Absent
  /\ Replaced(job[t].key, Absent, {Absent})

\* clearAll deletes the files one by one.
ClearOne(t) ==
  /\ pc[t] = "clear"
  /\ \E k \in ClearKeys : files[k] # Absent /\ Replaced(k, Absent, {Absent})
  /\ UNCHANGED pc

ClearDone(t) ==
  /\ \A k \in ClearKeys : files[k] = Absent
  /\ At(t, "clear", "fsync_dir")
  /\ UNCHANGED <<files, disk, tmp, job, lock, queue, future, promised, budget>>

\* Mutant: the lock is not released.
Released_Never(t) == lock

Released(t) == IF lock = t THEN "none" ELSE lock

\* close(), the lock's destructor, and the return to the caller or the loop.
Return(t) ==
  /\ job' = [job EXCEPT ![t] = None]
  /\ tmp' = [tmp EXCEPT ![t] = {}]
  /\ lock' = Released(t)
  /\ UNCHANGED <<files, queue, future>>

\* What the operation of t has written or removed.
Written(j) == IF j.op = "clear" THEN ClearKeys ELSE {j.key}

\* Mutant: the directory is not fsynced.
fsync_dir_Skipped == disk

\* fsync() of the directory makes every rename and unlink in it durable, but
\* not the data of the files.
fsync_dir ==
  [k \in Keys |-> {files[k]} \cup (IF files[k] = Absent THEN {} ELSE disk[k] \cap {Torn})]

FsyncDir(t) ==
  /\ At(t, "fsync_dir", "idle")
  /\ disk' = fsync_dir
  /\ promised' = [k \in Keys |-> IF k \in Written(job[t]) THEN files[k] ELSE promised[k]]
  /\ Return(t)
  /\ UNCHANGED budget

\* A system call fails, or unlink() finds no file.  put() and remove() return an
\* error, which the writer thread ignores; clearAll() is void and returns as
\* ever, its files removed, but maybe not on the disk.
Fail(t) ==
  /\ \/ /\ pc[t] \in {"write", "fsync", "put", "fsync_dir"}
        /\ budget.fails < MAX_FAILS
        /\ budget' = [budget EXCEPT !.fails = @ + 1]
     \/ /\ pc[t] = "remove" /\ files[job[t].key] = Absent
        /\ UNCHANGED budget
  /\ pc' = [pc EXCEPT ![t] = "idle"]
  /\ Return(t)
  /\ UNCHANGED <<disk, promised>>

Call(t) ==
  \/ Write(t) \/ Fsync(t) \/ Lock(t) \/ Rename(t) \/ Unlink(t)
  \/ ClearOne(t) \/ ClearDone(t) \/ FsyncDir(t) \/ Fail(t)

-----------------------------------------------------------------------------
(***************************************************************************)
(* The caller.                                                             *)
(***************************************************************************)
Asked ==
  /\ budget.puts < MAX_PUTS
  /\ budget' = [budget EXCEPT !.puts = @ + 1]

Put(k, v) ==
  /\ Asked
  /\ Start("caller", [op |-> "put", key |-> k, value |-> v], "write")
  /\ UNCHANGED <<files, disk, tmp, lock, queue, future, promised>>

RemoveOrClear ==
  /\ Asked
  /\ \E j \in Jobs : j.op \in {"remove", "clear"} /\ Start("caller", j, "lock")
  /\ UNCHANGED <<files, disk, tmp, lock, queue, future, promised>>

\* putNonBlocking: push, and then a look at the future.
PutNonBlocking(k, v) ==
  /\ Asked
  /\ At("caller", "idle", "pushed")
  /\ queue' = Append(queue, [op |-> "put", key |-> k, value |-> v])
  /\ UNCHANGED <<files, disk, tmp, job, lock, future, promised>>

\* Mutant: a thread that has ended is not started again.
Started_Once == IF future = "none" THEN "running" ELSE future

Started == IF future \in {"none", "ready"} THEN "running" ELSE future

StartOnDemand ==
  /\ At("caller", "pushed", "idle")
  /\ future' = Started
  /\ UNCHANGED <<files, disk, tmp, job, lock, queue, promised, budget>>

(***************************************************************************)
(* asyncWriteThread: between finding the queue empty and the future being  *)
(* ready, the thread is on its way out ("leaving").                        *)
(***************************************************************************)
Pop ==
  /\ future = "running"
  /\ queue # <<>>
  /\ Start("writer", Head(queue), "write")
  /\ queue' = Tail(queue)
  /\ UNCHANGED <<files, disk, tmp, lock, future, promised, budget>>

FoundEmpty ==
  /\ future = "running"
  /\ queue = <<>>
  /\ At("writer", "idle", "leaving")
  /\ UNCHANGED <<files, disk, tmp, job, lock, queue, future, promised, budget>>

Leave ==
  /\ At("writer", "leaving", "idle")
  /\ future' = "ready"
  /\ UNCHANGED <<files, disk, tmp, job, lock, queue, promised, budget>>

-----------------------------------------------------------------------------
\* The power is lost and the process starts again.
PowerLoss ==
  /\ files' \in {f \in [Keys -> File] : \A k \in Keys : f[k] \in disk[k]}
  /\ disk' = [k \in Keys |-> {files'[k]}]
  /\ tmp' = [t \in Threads |-> {}]
  /\ job' = [t \in Threads |-> None]
  /\ pc' = [t \in Threads |-> "idle"]
  /\ lock' = "none"
  /\ queue' = <<>>
  /\ future' = "none"
  /\ UNCHANGED <<promised, budget>>

Writer == Call("writer") \/ Pop \/ FoundEmpty \/ Leave
Caller == Call("caller") \/ StartOnDemand

Next ==
  \/ Writer \/ Caller \/ RemoveOrClear \/ PowerLoss
  \/ \E k \in Keys, v \in Values : Put(k, v) \/ PutNonBlocking(k, v)

Spec == Init /\ [][Next]_vars

\* Both threads go on while they have something to do; nothing is assumed of
\* what is asked of them.
Fairness == WF_vars(Writer) /\ WF_vars(Caller)
FairSpec == Spec /\ Fairness

-----------------------------------------------------------------------------
TypeOK ==
  /\ files \in [Keys -> File]
  /\ disk \in [Keys -> SUBSET File]
  /\ tmp \in [Threads -> SUBSET File]
  /\ job \in [Threads -> Jobs]
  /\ pc \in [Threads -> {"idle", "write", "fsync", "lock", "put", "remove", "clear", "fsync_dir",
                         "pushed", "leaving"}]
  /\ lock \in Threads \cup {"none"}
  /\ \A t \in Threads : lock = t <=> pc[t] \in {"put", "remove", "clear", "fsync_dir"}
  /\ queue \in Seq(Jobs)
  /\ future \in {"none", "running", "ready"}
  /\ promised \in [Keys -> File \cup {"none"}]
  /\ budget \in [puts : 0 .. MAX_PUTS, fails : 0 .. MAX_FAILS]

\* No reader and no restart ever finds a param that was written in part, at
\* whichever system call of put() the power is lost or an error returned.
NeverTorn == \A k \in Keys : files[k] # Torn /\ Torn \notin disk[k]

\* Once put() or remove() has returned without error, or clearAll() has fsynced
\* the directory, its effect survives every power loss until the next write to
\* that key.  (A clearAll() whose fsync fails returns like any other,
\* params.cc:226: its caller cannot know that nothing is promised.)
PromiseKept ==
  \A k \in Keys : promised[k] # "none" => files[k] = promised[k] /\ disk[k] = {promised[k]}

\* Two threads that contend for the lock do not wait for each other for ever.
OperationsReturn == \A t \in Threads : job[t] # None ~> job[t] = None

\* A queued write is carried out, and so are those that were queued before,
\* unless the writer has just found the queue empty (see QueueEmptyAtEnd).
QueueDrains ==
  pc["caller"] = "pushed" /\ pc["writer"] # "leaving" ~> queue = <<>>

-----------------------------------------------------------------------------
\* params.cc:103, in the destructor after waiting for the future:
\* "assert(queue.empty())".
QueueEmptyAtEnd ==
  pc["caller"] = "idle" /\ future # "running" => queue = <<>>
=============================================================================
