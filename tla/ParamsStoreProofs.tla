------------------------- MODULE ParamsStoreProofs --------------------------
(***************************************************************************)
(* The Params store survives power loss, for every set of keys and values  *)
(* and any number of operations, failing system calls and losses: no param *)
(* is torn, and what a returned operation has done is not undone.          *)
(***************************************************************************)
EXTENDS ParamsStore, TLAPS

PutJobs == [op : {"put"}, key : Keys, value : Values]
RemoveJobs == [op : {"remove"}, key : Keys]
ClearJob == [op |-> "clear"]

\* What a thread is working on when it is at a system call.  At the rename, and
\* while it waits for the lock before it, the data is on the disk.
JobOK(t) ==
  /\ pc[t] \in {"write", "fsync", "put"} => job[t] \in PutJobs
  /\ pc[t] = "remove" => job[t] \in RemoveJobs
  /\ pc[t] = "clear" => job[t] = ClearJob
  /\ pc[t] \in {"lock", "fsync_dir"} => job[t] \in PutJobs \cup RemoveJobs \cup {ClearJob}
  /\ pc[t] \in {"lock", "put"} /\ job[t] \in PutJobs => tmp[t] = {job[t].value}

JobInv == queue \in Seq(PutJobs) /\ \A t \in Threads : JobOK(t)

\* NeverTorn depends on what a rename finds in the temporary file, PromiseKept
\* on NeverTorn: the fsync of the directory does not repair torn data.
StoreInv == TypeOK /\ JobInv /\ NeverTorn /\ PromiseKept

-----------------------------------------------------------------------------
\* The kinds of operation, and how their fields tell them apart.
LEMMA JobKinds ==
  /\ PutJobs \cup RemoveJobs \cup {ClearJob} \subseteq Jobs /\ None \in Jobs
  /\ \A j \in PutJobs : j.op = "put" /\ j.key \in Keys /\ j.value \in Values
  /\ \A j \in RemoveJobs : j.op = "remove" /\ j.key \in Keys
  /\ ClearJob.op = "clear"
  /\ \A j \in Jobs : j.op \in {"remove", "clear"} => j \in RemoveJobs \cup {ClearJob}
BY DEF Jobs, PutJobs, RemoveJobs, ClearJob, None

LEMMA InitInv == Init => StoreInv
<1> SUFFICES ASSUME Init PROVE StoreInv
  OBVIOUS
<1>1. TypeOK
  BY BoundsAssumption DEF Init, TypeOK, File, Jobs, Threads
<1>2. JobInv
  BY DEF Init, JobInv, JobOK
<1>3. NeverTorn /\ PromiseKept
  BY ContentAssumption DEF Init, NeverTorn, PromiseKept
<1> QED
  BY <1>1, <1>2, <1>3 DEF StoreInv

(***************************************************************************)
(* One lemma per system call.                                              *)
(***************************************************************************)
\* write() and fsync() touch the thread's own temporary file only.
LEMMA WriteInv == ASSUME StoreInv, NEW t \in Threads, Write(t) \/ Fsync(t) PROVE StoreInv'
<1> USE DEF StoreInv, JobInv, JobOK, Write, Fsync, At
<1>1. job[t] \in PutJobs /\ job[t].value \in Values
  BY JobKinds DEF TypeOK
<1>2. tmp' \in [Threads -> SUBSET File]
  BY <1>1 DEF TypeOK, File
<1>3. TypeOK'
  BY <1>2 DEF TypeOK
<1>4. JobInv'
  BY <1>1 DEF TypeOK
<1>5. NeverTorn' /\ PromiseKept'
  BY DEF NeverTorn, PromiseKept
<1> QED
  BY <1>3, <1>4, <1>5

\* FileLock: the critical section of one thread begins when no other is in one.
LEMMA LockInv == ASSUME StoreInv, NEW t \in Threads, Lock(t) PROVE StoreInv'
<1> USE DEF StoreInv, JobInv, JobOK, Lock, At
<1>1. job[t].op \in {"put", "remove", "clear"}
  BY JobKinds
<1>2. \A u \in Threads : lock' = u <=> pc'[u] \in {"put", "remove", "clear", "fsync_dir"}
  <2>1. \A u \in Threads : pc[u] \notin {"put", "remove", "clear", "fsync_dir"}
    BY DEF TypeOK, Threads
  <2> QED
    BY <1>1, <2>1 DEF TypeOK
<1>3. TypeOK'
  BY <1>1, <1>2 DEF TypeOK
<1>4. JobInv'
  BY JobKinds DEF TypeOK
<1>5. NeverTorn' /\ PromiseKept'
  BY DEF NeverTorn, PromiseKept
<1> QED
  BY <1>3, <1>4, <1>5

\* A file is replaced by contents that are whole.
LEMMA ReplacedInv ==
  ASSUME TypeOK, NeverTorn, PromiseKept, NEW k \in Keys, NEW content \in File \ {Torn},
         NEW left \in SUBSET (File \ {Torn}), Replaced(k, content, left)
  PROVE  /\ files' \in [Keys -> File] /\ disk' \in [Keys -> SUBSET File]
         /\ promised' \in [Keys -> File \cup {"none"}]
         /\ NeverTorn' /\ PromiseKept'
BY DEF TypeOK, NeverTorn, PromiseKept, Replaced

LEMMA RenameInv == ASSUME StoreInv, NEW t \in Threads, Rename(t) PROVE StoreInv'
<1> USE DEF StoreInv, JobInv, JobOK, Rename, At
<1>1. job[t] \in PutJobs /\ job[t].key \in Keys /\ job[t].value \in Values /\ tmp[t] = {job[t].value}
  BY JobKinds
<1>2. job[t].value \in File \ {Torn} /\ tmp[t] \in SUBSET (File \ {Torn})
  BY <1>1, ContentAssumption DEF File
<1>3. /\ files' \in [Keys -> File] /\ disk' \in [Keys -> SUBSET File]
      /\ promised' \in [Keys -> File \cup {"none"}]
      /\ NeverTorn' /\ PromiseKept'
  BY <1>1, <1>2, ReplacedInv
<1>4. TypeOK'
  BY <1>3 DEF TypeOK, Replaced
<1>5. JobInv'
  BY <1>1 DEF TypeOK, Replaced
<1> QED
  BY <1>3, <1>4, <1>5

\* unlink(), of remove() and of clearAll().
LEMMA UnlinkInv == ASSUME StoreInv, NEW t \in Threads, Unlink(t) \/ ClearOne(t) PROVE StoreInv'
<1> USE DEF StoreInv, JobInv, JobOK, Unlink, ClearOne, At
<1>1. PICK k \in Keys : Replaced(k, Absent, {Absent})
  BY JobKinds, ClearAssumption
<1>2. Absent \in File \ {Torn} /\ {Absent} \in SUBSET (File \ {Torn})
  BY ContentAssumption DEF File
<1>3. /\ files' \in [Keys -> File] /\ disk' \in [Keys -> SUBSET File]
      /\ promised' \in [Keys -> File \cup {"none"}]
      /\ NeverTorn' /\ PromiseKept'
  BY <1>1, <1>2, ReplacedInv
<1>4. UNCHANGED <<tmp, job, lock, queue, future, budget>>
  BY <1>1 DEF Replaced
<1>5. UNCHANGED pc \/ (pc[t] = "remove" /\ pc' = [pc EXCEPT ![t] = "fsync_dir"])
  OBVIOUS
<1>6. TypeOK'
  BY <1>3, <1>4, <1>5 DEF TypeOK
<1>7. JobInv'
  BY <1>4, <1>5 DEF TypeOK
<1> QED
  BY <1>3, <1>6, <1>7

LEMMA ClearDoneInv == ASSUME StoreInv, NEW t \in Threads, ClearDone(t) PROVE StoreInv'
<1> USE DEF StoreInv, JobInv, JobOK, ClearDone, At
<1>1. TypeOK'
  BY DEF TypeOK
<1>2. JobInv'
  BY DEF TypeOK
<1>3. NeverTorn' /\ PromiseKept'
  BY DEF NeverTorn, PromiseKept
<1> QED
  BY <1>1, <1>2, <1>3

\* The end of an operation releases the lock if the thread holds it.
LEMMA ReturnType ==
  ASSUME TypeOK, NEW t \in Threads, Return(t), pc' = [pc EXCEPT ![t] = "idle"]
  PROVE  /\ job' \in [Threads -> Jobs] /\ tmp' \in [Threads -> SUBSET File]
         /\ lock' \in Threads \cup {"none"}
         /\ \A u \in Threads : lock' = u <=> pc'[u] \in {"put", "remove", "clear", "fsync_dir"}
<1>1. job' \in [Threads -> Jobs] /\ tmp' \in [Threads -> SUBSET File]
  BY JobKinds DEF TypeOK, Return
<1>2. lock' \in Threads \cup {"none"} /\ lock' # t
  BY DEF TypeOK, Return, Released, Threads
<1>3. \A u \in Threads \ {t} : lock' = u <=> lock = u
  BY DEF TypeOK, Return, Released, Threads
<1>4. pc'[t] = "idle" /\ \A u \in Threads \ {t} : pc'[u] = pc[u]
  BY DEF TypeOK
<1> QED
  BY <1>1, <1>2, <1>3, <1>4 DEF TypeOK

LEMMA ReturnJobs ==
  ASSUME TypeOK, JobInv, NEW t \in Threads, Return(t), pc' = [pc EXCEPT ![t] = "idle"]
  PROVE  JobInv'
BY DEF TypeOK, JobInv, JobOK, Return

\* fsync() of the directory: as no data is torn, the files are what a power loss leaves.
LEMMA FsyncDirInv == ASSUME StoreInv, NEW t \in Threads, FsyncDir(t) PROVE StoreInv'
<1> USE DEF StoreInv, FsyncDir, At
<1>1. disk' = [k \in Keys |-> {files[k]}]
  BY DEF NeverTorn, fsync_dir
<1>2. files' = files /\ queue' = queue /\ future' = future
  BY DEF Return
<1>3. promised' \in [Keys -> File \cup {"none"}] /\ disk' \in [Keys -> SUBSET File]
  BY <1>1 DEF TypeOK
<1>4. TypeOK'
  BY <1>2, <1>3, ReturnType DEF TypeOK
<1>5. JobInv'
  BY ReturnJobs
<1>6. NeverTorn'
  BY <1>1, <1>2 DEF NeverTorn, TypeOK
<1>7. PromiseKept'
  <2> SUFFICES ASSUME NEW k \in Keys, promised'[k] # "none"
               PROVE  files'[k] = promised'[k] /\ disk'[k] = {promised'[k]}
    BY DEF PromiseKept
  <2>1. promised'[k] = files[k] \/ promised'[k] = promised[k]
    OBVIOUS
  <2> QED
    BY <1>1, <1>2, <2>1 DEF PromiseKept
<1> QED
  BY <1>4, <1>5, <1>6, <1>7

\* An operation one of whose system calls fails.
LEMMA FailInv == ASSUME StoreInv, NEW t \in Threads, Fail(t) PROVE StoreInv'
<1> USE DEF StoreInv, Fail
<1>1. budget' \in [puts : 0 .. MAX_PUTS, fails : 0 .. MAX_FAILS]
  BY BoundsAssumption DEF TypeOK
<1>2. files' = files /\ queue' = queue /\ future' = future
  BY DEF Return
<1>3. TypeOK'
  BY <1>1, <1>2, ReturnType DEF TypeOK
<1>4. JobInv'
  BY ReturnJobs
<1>5. NeverTorn' /\ PromiseKept'
  BY <1>2 DEF NeverTorn, PromiseKept
<1> QED
  BY <1>3, <1>4, <1>5

LEMMA CallInv == ASSUME StoreInv, NEW t \in Threads, Call(t) PROVE StoreInv'
BY WriteInv, LockInv, RenameInv, UnlinkInv, ClearDoneInv, FsyncDirInv, FailInv DEF Call

(***************************************************************************)
(* The caller, the writer and the power.                                   *)
(***************************************************************************)
LEMMA AskedType ==
  ASSUME TypeOK, Asked
  PROVE  budget' \in [puts : 0 .. MAX_PUTS, fails : 0 .. MAX_FAILS]
BY BoundsAssumption DEF TypeOK, Asked

\* An operation starts, outside of the critical section.
LEMMA StartInv ==
  ASSUME StoreInv, NEW t \in Threads, NEW j, NEW there,
         Start(t, j, there),
         \/ there = "write" /\ j \in PutJobs
         \/ there = "lock" /\ j \in RemoveJobs \cup {ClearJob},
         UNCHANGED <<files, disk, tmp, lock, future, promised>>,
         queue' \in Seq(PutJobs),
         budget' \in [puts : 0 .. MAX_PUTS, fails : 0 .. MAX_FAILS]
  PROVE  StoreInv'
<1> USE DEF StoreInv, Start, At
<1>0. queue' \in Seq(Jobs) /\ j \in Jobs
  BY JobKinds
<1>1. TypeOK'
  BY <1>0 DEF TypeOK
<1>2. JobInv'
  <2>1. j \in RemoveJobs \cup {ClearJob} => j \notin PutJobs
    BY JobKinds
  <2> QED
    BY <2>1 DEF TypeOK, JobInv, JobOK
<1>3. NeverTorn' /\ PromiseKept'
  BY DEF NeverTorn, PromiseKept
<1> QED
  BY <1>1, <1>2, <1>3

LEMMA CallerInv ==
  ASSUME StoreInv,
         \/ RemoveOrClear \/ StartOnDemand
         \/ \E k \in Keys, v \in Values : Put(k, v) \/ PutNonBlocking(k, v)
  PROVE  StoreInv'
<1> USE DEF StoreInv
<1>a. "caller" \in Threads
  BY DEF Threads
<1>1. CASE RemoveOrClear
  <2>1. PICK j \in Jobs : j.op \in {"remove", "clear"} /\ Start("caller", j, "lock")
    BY <1>1 DEF RemoveOrClear
  <2>2. j \in RemoveJobs \cup {ClearJob}
    BY <2>1, JobKinds
  <2>3. queue' \in Seq(PutJobs) /\ UNCHANGED <<files, disk, tmp, lock, future, promised>>
    BY <1>1 DEF RemoveOrClear, JobInv
  <2>4. budget' \in [puts : 0 .. MAX_PUTS, fails : 0 .. MAX_FAILS]
    BY <1>1, AskedType DEF RemoveOrClear
  <2> QED
    BY <1>a, <2>1, <2>2, <2>3, <2>4, StartInv
<1>2. ASSUME NEW k \in Keys, NEW v \in Values, Put(k, v)
      PROVE  StoreInv'
  <2>1. [op |-> "put", key |-> k, value |-> v] \in PutJobs
    BY DEF PutJobs
  <2>2. budget' \in [puts : 0 .. MAX_PUTS, fails : 0 .. MAX_FAILS]
    BY <1>2, AskedType DEF Put
  <2> QED
    BY <1>a, <1>2, <2>1, <2>2, StartInv DEF Put, JobInv
<1>3. ASSUME NEW k \in Keys, NEW v \in Values, PutNonBlocking(k, v)
      PROVE  StoreInv'
  <2>1. [op |-> "put", key |-> k, value |-> v] \in PutJobs
    BY DEF PutJobs
  <2>2. queue' \in Seq(PutJobs)
    BY <1>3, <2>1 DEF PutNonBlocking, JobInv
  <2>3. queue' \in Seq(Jobs)
    BY <2>2, JobKinds
  <2>4. budget' \in [puts : 0 .. MAX_PUTS, fails : 0 .. MAX_FAILS]
    BY <1>3, AskedType DEF PutNonBlocking
  <2>5. TypeOK'
    BY <1>a, <1>3, <2>3, <2>4 DEF PutNonBlocking, At, TypeOK
  <2>6. JobInv'
    BY <1>3, <2>2 DEF PutNonBlocking, At, TypeOK, JobInv, JobOK
  <2>7. NeverTorn' /\ PromiseKept'
    BY <1>3 DEF PutNonBlocking, NeverTorn, PromiseKept
  <2> QED
    BY <2>5, <2>6, <2>7
<1>4. CASE StartOnDemand
  <2>1. TypeOK'
    BY <1>a, <1>4 DEF StartOnDemand, At, Started, TypeOK
  <2>2. JobInv'
    BY <1>4 DEF StartOnDemand, At, TypeOK, JobInv, JobOK
  <2>3. NeverTorn' /\ PromiseKept'
    BY <1>4 DEF StartOnDemand, NeverTorn, PromiseKept
  <2> QED
    BY <2>1, <2>2, <2>3
<1> QED
  BY <1>1, <1>2, <1>3, <1>4

LEMMA WriterInv == ASSUME StoreInv, Pop \/ FoundEmpty \/ Leave PROVE StoreInv'
<1> USE DEF StoreInv
<1>a. "writer" \in Threads
  BY DEF Threads
<1>1. CASE Pop
  <2>1. Head(queue) \in PutJobs /\ Tail(queue) \in Seq(PutJobs)
    BY <1>1 DEF Pop, JobInv
  <2> QED
    BY <1>a, <1>1, <2>1, StartInv DEF Pop, TypeOK
<1>2. CASE FoundEmpty \/ Leave
  <2>1. TypeOK'
    BY <1>a, <1>2 DEF FoundEmpty, Leave, At, TypeOK
  <2>2. JobInv'
    BY <1>2 DEF FoundEmpty, Leave, At, TypeOK, JobInv, JobOK
  <2>3. NeverTorn' /\ PromiseKept'
    BY <1>2 DEF FoundEmpty, Leave, NeverTorn, PromiseKept
  <2> QED
    BY <2>1, <2>2, <2>3
<1> QED
  BY <1>1, <1>2

\* A power loss leaves one of the contents that the disk may have.
LEMMA PowerLossInv == ASSUME StoreInv, PowerLoss PROVE StoreInv'
<1> USE DEF StoreInv, PowerLoss
<1>1. files' \in [Keys -> File] /\ \A k \in Keys : files'[k] \in disk[k]
  OBVIOUS
<1>2. TypeOK'
  BY <1>1, JobKinds DEF TypeOK, Threads
<1>3. JobInv'
  BY DEF JobInv, JobOK
<1>4. NeverTorn'
  BY <1>1 DEF NeverTorn
<1>5. PromiseKept'
  BY <1>1 DEF PromiseKept
<1> QED
  BY <1>2, <1>3, <1>4, <1>5

LEMMA NextInv == StoreInv /\ [Next]_vars => StoreInv'
<1> SUFFICES ASSUME StoreInv, [Next]_vars PROVE StoreInv'
  OBVIOUS
<1>1. CASE UNCHANGED vars
  BY <1>1 DEF vars, StoreInv, TypeOK, JobInv, JobOK, NeverTorn, PromiseKept
<1> QED
  BY <1>1, CallInv, CallerInv, WriterInv, PowerLossInv DEF Next, Writer, Caller, Threads

-----------------------------------------------------------------------------
\* Type correctness and the lock discipline: the flock is held exactly in the
\* critical sections of put(), remove() and clearAll(), errors and power losses
\* included (params.cc, FileLock).
THEOREM TypeCorrect == Spec => []TypeOK
<1>1. StoreInv => TypeOK
  BY DEF StoreInv
<1> QED
  BY <1>1, InitInv, NextInv, PTL DEF Spec

\* No reader and no restart finds a param that was written in part.
THEOREM TornSafe == Spec => []NeverTorn
<1>1. StoreInv => NeverTorn
  BY DEF StoreInv
<1> QED
  BY <1>1, InitInv, NextInv, PTL DEF Spec

\* What put(), remove() or clearAll() has returned survives every power loss
\* until the key is written again.
THEOREM PromiseSafe == Spec => []PromiseKept
<1>1. StoreInv => PromiseKept
  BY DEF StoreInv
<1> QED
  BY <1>1, InitInv, NextInv, PTL DEF Spec
=============================================================================
