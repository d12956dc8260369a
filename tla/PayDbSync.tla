------------------------------ MODULE PayDbSync ------------------------------
(***************************************************************************)
(* common/PayDb.h with PostgreSQL configured: PostgreSQL is the leader,    *)
(* SQLite the follower.                                                    *)
(*                                                                         *)
(* exec sends a statement to PostgreSQL and, once it was accepted, puts a  *)
(* copy into syncQueue_; one worker thread takes batches off the queue and *)
(* runs each in an SQLite transaction.  Repeated failures of the driver    *)
(* make a thread of a handler switch to libpq, or to SQLite alone.         *)
(*                                                                         *)
(* A statement is "set row k to a new value"; the value is the statement's *)
(* place in the order in which the databases accepted them (seq), so a     *)
(* larger number in a row is a newer write.  0 is the row as it was first. *)
(***************************************************************************)
EXTENDS Naturals, Sequences, FiniteSets

CONSTANTS
  Keys,             \* rows
  Writers,          \* threads of handlers inside PayDb::exec
  QueueLimit,       \* SYNC_QUEUE_LIMIT
  BatchSize,        \* SYNC_BATCH_SIZE
  FailThreshold,    \* DRIVER_FAIL_THRESHOLD
  NoRow,            \* the row of a thread that is not in exec
  Exclusive,        \* TRUE: no two handlers write one row at a time
  MaxWrites         \* bound of the model: statements the databases accept

ASSUME SyncAssumption ==
  /\ NoRow \notin Keys
  /\ QueueLimit \in Nat \ {0}
  /\ BatchSize \in Nat \ {0}
  /\ FailThreshold \in Nat \ {0}
  /\ Exclusive \in BOOLEAN
  /\ MaxWrites \in Nat

VARIABLES
  backend,          \* pgBackend_
  failCount,        \* driverFailCount_
  pc,               \* where each thread is in exec
  key,              \* the row its statement writes
  got,              \* the place of its accepted write, or the count it loaded
  queue,            \* syncQueue_
  running,          \* syncRunning_
  worker,           \* where the worker thread is
  batch,            \* the worker's batch
  done,             \* statements of the batch already run
  image,            \* SQLite as the worker's open transaction sees it
  sqlite,           \* committed rows of SQLite
  pg,               \* committed rows of PostgreSQL
  seq,              \* statements accepted so far by either database
  missed,           \* history: accepted by PostgreSQL, never to reach SQLite
  direct,           \* history: SQLite took a statement itself since the start
  atStop            \* history: what was waiting when stopSyncWorker was called

writerVars == <<pc, key, got>>
workerVars == <<worker, batch, done, image>>
history    == <<missed, direct, atStop>>
vars == <<backend, failCount, writerVars, queue, running, workerVars, sqlite,
          pg, seq, history>>

Backends == {"DRIVER", "LIBPQ", "NONE"}
Calls    == {"driver", "libpq", "direct", "reset", "sync", "load", "store",
             "reconnect"}
Writes   == [key : Keys, seq : Nat]         \* SyncTask

Untouched == [k \in Keys |-> 0]

InFlight == {w \in Writers : pc[w] # "idle"}

\* Threads whose write PostgreSQL has accepted and the queue has not.
InHand == {w \in Writers : pc[w] \in {"reset", "sync"}}

\* The write a thread holds, and the newest write of a row.
Held(w) == [key |-> key[w], seq |-> got[w]]
Newest(k) == [key |-> k, seq |-> pg[k]]

Elements(q) == {q[i] : i \in DOMAIN q}

\* The writes PostgreSQL accepted that are on their way to SQLite.
Pending == {Held(w) : w \in InHand} \cup Elements(queue) \cup Elements(batch)

\* The worker holds sqliteMtx_ from BEGIN to COMMIT.
SqliteLocked == worker \in {"txn", "drain"}

\* Thread w returns from exec.
Return(w) ==
  /\ pc' = [pc EXCEPT ![w] = "idle"]
  /\ key' = [key EXCEPT ![w] = NoRow]
  /\ got' = [got EXCEPT ![w] = 0]

-----------------------------------------------------------------------------
(***************************************************************************)
(* main calls connectPg once: the driver, else libpq, else SQLite alone;   *)
(* the worker is started with either of the first two.                     *)
(***************************************************************************)
Connected(b, r, wk) ==
  /\ b \in Backends
  /\ r = (b # "NONE")
  /\ wk = IF b = "NONE" THEN "none" ELSE "wait"

Init ==
  /\ Connected(backend, running, worker)
  /\ failCount = 0
  /\ pc = [w \in Writers |-> "idle"]
  /\ key = [w \in Writers |-> NoRow]
  /\ got = [w \in Writers |-> 0]
  /\ queue = << >> /\ batch = << >> /\ done = 0
  /\ image = Untouched /\ sqlite = Untouched /\ pg = Untouched
  /\ seq = 0
  /\ missed = {} /\ direct = FALSE /\ atStop = {}

\* The process ends, for any reason and at any point, and is started again.
\* Memory is lost; an open SQLite transaction is rolled back.
Restart ==
  /\ \E b \in Backends : /\ backend' = b
                         /\ Connected(b, running', worker')
  /\ failCount' = 0
  /\ pc' = [w \in Writers |-> "idle"]
  /\ key' = [w \in Writers |-> NoRow]
  /\ got' = [w \in Writers |-> 0]
  /\ queue' = << >> /\ batch' = << >> /\ done' = 0 /\ image' = Untouched
  /\ missed' = missed \cup Pending
  /\ direct' = FALSE /\ atStop' = {}
  /\ UNCHANGED <<sqlite, pg, seq>>

Crash == worker # "off" /\ Restart

\* main has returned and the destructor has joined the worker.
Exit == worker = "off" /\ Restart

-----------------------------------------------------------------------------
(***************************************************************************)
(* exec                                                                    *)
(***************************************************************************)

\* exec is called and reads pgBackend_.
Start(w, k) ==
  /\ pc[w] = "idle"
  /\ running \/ worker = "none"
  /\ Exclusive => \A v \in InFlight : key[v] # k
  /\ seq + Cardinality(InFlight) < MaxWrites
  /\ key' = [key EXCEPT ![w] = k]
  /\ pc' = [pc EXCEPT ![w] = CASE backend = "DRIVER" -> "driver"
                               [] backend = "LIBPQ"  -> "libpq"
                               [] backend = "NONE"   -> "direct"]
  /\ UNCHANGED <<backend, failCount, got, queue, running, workerVars, sqlite,
                 pg, seq, history>>

\* PostgreSQL takes the statement of thread w.
Accept(w) ==
  /\ seq' = seq + 1
  /\ pg' = [pg EXCEPT ![key[w]] = seq + 1]

\* PostgreSQL takes the statement and the answer arrives.
Accepted(w, from, to) ==
  /\ pc[w] = from
  /\ Accept(w)
  /\ got' = [got EXCEPT ![w] = seq + 1]
  /\ pc' = [pc EXCEPT ![w] = to]
  /\ UNCHANGED <<backend, failCount, key, queue, running, workerVars, sqlite,
                 history>>

\* exec is told of a failure: PostgreSQL did not take the statement, or it
\* did and the answer was lost; either way no copy is queued.
Failed(w, from) ==
  /\ pc[w] = from
  /\ \/ UNCHANGED <<pg, seq, missed>>
     \/ Accept(w) /\ missed' = missed \cup {[key |-> key[w], seq |-> seq + 1]}
  /\ UNCHANGED <<backend, failCount, queue, running, workerVars, sqlite, direct,
                 atStop>>

DriverExec(w) == Accepted(w, "driver", "reset")
DriverFails(w) ==
  /\ Failed(w, "driver")
  /\ pc' = [pc EXCEPT ![w] = "load"]
  /\ UNCHANGED <<key, got>>
LibpqExec(w) == Accepted(w, "libpq", "sync")
LibpqFails(w) == Failed(w, "libpq") /\ Return(w)

\* A success of the driver resets driverFailCount_.
Reset(w) ==
  /\ pc[w] = "reset"
  /\ failCount' = 0
  /\ pc' = [pc EXCEPT ![w] = "sync"]
  /\ UNCHANGED <<backend, key, got, queue, running, workerVars, sqlite, pg,
                 seq, history>>

\* syncToSqlite, under syncMtx_: a full queue loses its oldest write.
SyncToSqlite(w) ==
  /\ pc[w] = "sync"
  /\ worker # "drain"
  /\ LET full == Len(queue) >= QueueLimit
         kept == IF full THEN Tail(queue) ELSE queue
     IN  /\ queue' = Append(kept, Held(w))
         /\ missed' = IF full THEN missed \cup {Head(queue)} ELSE missed
  /\ Return(w)
  /\ UNCHANGED <<backend, failCount, running, workerVars, sqlite, pg, seq,
                 direct, atStop>>

\* execSqliteDirect, under sqliteMtx_; the statement may fail.
ExecSqliteDirect(w) ==
  /\ pc[w] = "direct"
  /\ ~SqliteLocked
  /\ \/ UNCHANGED <<sqlite, seq, direct>>
     \/ /\ seq' = seq + 1
        /\ sqlite' = [sqlite EXCEPT ![key[w]] = seq + 1]
        /\ direct' = TRUE
  /\ Return(w)
  /\ UNCHANGED <<backend, failCount, queue, running, workerVars, pg, missed,
                 atStop>>

-----------------------------------------------------------------------------
(***************************************************************************)
(* onDriverFailure.  driverFailCount_ and pgBackend_ are plain variables   *)
(* that several threads use without a lock: ++driverFailCount_ is a load   *)
(* and a store.                                                            *)
(***************************************************************************)
LoadFailCount(w) ==
  /\ pc[w] = "load"
  /\ got' = [got EXCEPT ![w] = failCount]
  /\ pc' = [pc EXCEPT ![w] = "store"]
  /\ UNCHANGED <<backend, failCount, key, queue, running, workerVars, sqlite,
                 pg, seq, history>>

\* The count is stored and compared; the backend is looked at before pgMtx_
\* is taken.
StoreFailCount(w) ==
  /\ pc[w] = "store"
  /\ failCount' = got[w] + 1
  /\ IF got[w] + 1 >= FailThreshold /\ backend = "DRIVER"
     THEN pc' = [pc EXCEPT ![w] = "reconnect"] /\ UNCHANGED <<key, got>>
     ELSE Return(w)
  /\ UNCHANGED <<backend, queue, running, workerVars, sqlite, pg, seq, history>>

\* With pgMtx_: PQconnectdb, and pgBackend_ is set by its result.
Reconnect(w) ==
  /\ pc[w] = "reconnect"
  /\ \/ backend' = "LIBPQ" /\ failCount' = 0
     \/ backend' = "NONE" /\ UNCHANGED failCount
  /\ Return(w)
  /\ UNCHANGED <<queue, running, workerVars, sqlite, pg, seq, history>>

-----------------------------------------------------------------------------
(***************************************************************************)
(* The worker.                                                             *)
(***************************************************************************)

\* As TakeBatch, with the last write taken left in the queue.
TakeLeavesOne ==
  /\ worker = "wait"
  /\ queue # << >>
  /\ LET n == IF Len(queue) < BatchSize THEN Len(queue) ELSE BatchSize
     IN  /\ batch' = SubSeq(queue, 1, n)
         /\ queue' = SubSeq(queue, n, Len(queue))
  /\ worker' = "write"
  /\ UNCHANGED <<backend, failCount, writerVars, running, done, image, sqlite,
                 pg, seq, history>>

\* As TakeBatch, waiting until there is a whole batch.
TakeFullBatch ==
  /\ worker = "wait"
  /\ Len(queue) >= BatchSize
  /\ batch' = SubSeq(queue, 1, BatchSize)
  /\ queue' = SubSeq(queue, BatchSize + 1, Len(queue))
  /\ worker' = "write"
  /\ UNCHANGED <<backend, failCount, writerVars, running, done, image, sqlite,
                 pg, seq, history>>

\* Under syncMtx_ the oldest BatchSize writes leave the queue.
TakeBatch ==
  /\ worker = "wait"
  /\ queue # << >>
  /\ LET n == IF Len(queue) < BatchSize THEN Len(queue) ELSE BatchSize
     IN  /\ batch' = SubSeq(queue, 1, n)
         /\ queue' = SubSeq(queue, n + 1, Len(queue))
  /\ worker' = "write"
  /\ UNCHANGED <<backend, failCount, writerVars, running, done, image, sqlite,
                 pg, seq, history>>

\* sqliteMtx_ is taken and BEGIN executed.
Begin ==
  /\ worker = "write"
  /\ worker' = "txn"
  /\ image' = sqlite
  /\ UNCHANGED <<backend, failCount, writerVars, queue, running, batch, done,
                 sqlite, pg, seq, history>>

\* As RunStatement, with a failed statement put back into the queue.
RunStatementRetried ==
  /\ SqliteLocked
  /\ done < Len(batch)
  /\ LET t == batch[done + 1]
     IN  \/ image' = [image EXCEPT ![t.key] = t.seq] /\ UNCHANGED queue
         \/ queue' = Append(queue, t) /\ UNCHANGED image
  /\ done' = done + 1
  /\ UNCHANGED <<backend, failCount, writerVars, running, worker, batch, sqlite,
                 pg, seq, history>>

\* As RunStatement, with the batch given up at the first failure.
RunStatementAborts ==
  /\ SqliteLocked
  /\ done < Len(batch)
  /\ LET t == batch[done + 1]
     IN  \/ /\ image' = [image EXCEPT ![t.key] = t.seq]
            /\ done' = done + 1
            /\ UNCHANGED missed
         \/ /\ missed' = missed \cup {t}
            /\ done' = Len(batch)
            /\ UNCHANGED image
  /\ UNCHANGED <<backend, failCount, writerVars, queue, running, worker, batch,
                 sqlite, pg, seq, direct, atStop>>

\* The next statement of the batch, which may fail: the others go on.
RunStatement ==
  /\ SqliteLocked
  /\ done < Len(batch)
  /\ LET t == batch[done + 1]
     IN  \/ image' = [image EXCEPT ![t.key] = t.seq] /\ UNCHANGED missed
         \/ missed' = missed \cup {t} /\ UNCHANGED image
  /\ done' = done + 1
  /\ UNCHANGED <<backend, failCount, writerVars, queue, running, worker, batch,
                 sqlite, pg, seq, direct, atStop>>

\* As Commit, with the loop left as soon as the flag is down.
CommitThenEnd ==
  /\ SqliteLocked
  /\ done = Len(batch)
  /\ sqlite' = image
  /\ image' = Untouched
  /\ batch' = << >>
  /\ done' = 0
  /\ worker' = IF worker = "txn" /\ running THEN "wait" ELSE "off"
  /\ UNCHANGED <<backend, failCount, writerVars, queue, running, pg, seq,
                 history>>

\* COMMIT; both mutexes are free.
Commit ==
  /\ SqliteLocked
  /\ done = Len(batch)
  /\ sqlite' = image
  /\ image' = Untouched
  /\ batch' = << >>
  /\ done' = 0
  /\ worker' = IF worker = "txn" THEN "wait" ELSE "off"
  /\ UNCHANGED <<backend, failCount, writerVars, queue, running, pg, seq,
                 history>>

\* stopSyncWorker, by the destructor.  Threads inside exec go on.
StopSyncWorker ==
  /\ running
  /\ running' = FALSE
  /\ atStop' = Elements(queue) \cup Elements(batch)
  /\ UNCHANGED <<backend, failCount, writerVars, queue, workerVars, sqlite, pg,
                 seq, missed, direct>>

\* The worker finds the queue empty and the flag down.
LeaveLoop ==
  /\ worker = "wait"
  /\ queue = << >>
  /\ ~running
  /\ worker' = "exit"
  /\ UNCHANGED <<backend, failCount, writerVars, queue, running, batch, done,
                 image, sqlite, pg, seq, history>>

\* drainSyncQueue holds syncMtx_ until all that is left has been run.
DrainSyncQueue ==
  /\ worker = "exit"
  /\ IF queue = << >>
     THEN worker' = "off" /\ UNCHANGED <<queue, batch, image>>
     ELSE /\ worker' = "drain"
          /\ batch' = queue
          /\ queue' = << >>
          /\ image' = sqlite
  /\ UNCHANGED <<backend, failCount, writerVars, running, done, sqlite, pg, seq,
                 history>>

-----------------------------------------------------------------------------
Writer(w) ==
  \/ DriverExec(w) \/ DriverFails(w) \/ Reset(w)
  \/ LibpqExec(w) \/ LibpqFails(w)
  \/ SyncToSqlite(w)
  \/ ExecSqliteDirect(w)
  \/ LoadFailCount(w) \/ StoreFailCount(w) \/ Reconnect(w)

Worker ==
  \/ TakeBatch \/ Begin \/ RunStatement \/ Commit
  \/ LeaveLoop \/ DrainSyncQueue

Next ==
  \/ \E w \in Writers, k \in Keys : Start(w, k)
  \/ \E w \in Writers : Writer(w)
  \/ Worker
  \/ StopSyncWorker
  \/ Crash
  \/ Exit

Spec == Init /\ [][Next]_vars

\* The scheduler runs every thread, a call to a database returns, and a
\* process whose destructor has returned ends.
Fairness ==
  /\ \A w \in Writers : WF_vars(Writer(w))
  /\ WF_vars(Worker)
  /\ WF_vars(Exit)

FairSpec == Spec /\ Fairness

-----------------------------------------------------------------------------
TypeOK ==
  /\ backend \in Backends
  /\ failCount \in Nat
  /\ pc \in [Writers -> Calls \cup {"idle"}]
  /\ key \in [Writers -> Keys \cup {NoRow}]
  /\ got \in [Writers -> Nat]
  /\ queue \in Seq(Writes)
  /\ running \in BOOLEAN
  /\ worker \in {"none", "wait", "write", "txn", "exit", "drain", "off"}
  /\ batch \in Seq(Writes)
  /\ done \in 0 .. Len(batch)
  /\ image \in [Keys -> Nat]
  /\ sqlite \in [Keys -> Nat]
  /\ pg \in [Keys -> Nat]
  /\ seq \in Nat
  /\ missed \subseteq Writes
  /\ direct \in BOOLEAN
  /\ atStop \subseteq Writes

(***************************************************************************)
(* The inductive invariant of the proofs.  It follows the writes of one    *)
(* row through the pipeline: hand, queue, batch, transaction, SQLite.      *)
(***************************************************************************)

\* What is still to be run: the batch from its next statement on.
Remaining == {Held(w) : w \in InHand} \cup Elements(queue)
               \cup {batch[i] : i \in done + 1 .. Len(batch)}

Ordered(q) == \A i, j \in DOMAIN q :
                i < j /\ q[i].key = q[j].key => q[i].seq < q[j].seq

Before(p, q) == \A i \in DOMAIN p, j \in DOMAIN q :
                  p[i].key = q[j].key => p[i].seq < q[j].seq

\* One thread a row, and what it holds is the newest write of the row.
HandsInv ==
  /\ \A w \in Writers : pc[w] # "idle" => key[w] \in Keys
  /\ \A v, w \in InFlight : v # w => key[v] # key[w]
  /\ \A w \in InHand : got[w] = pg[key[w]]

NumbersInv ==
  \A k \in Keys : pg[k] <= seq /\ sqlite[k] <= seq /\ image[k] <= seq

\* The writes of a row keep the order in which PostgreSQL took them.
OrderInv ==
  /\ Ordered(queue) /\ Ordered(batch) /\ Before(batch, queue)
  /\ \A i \in DOMAIN queue : queue[i].seq <= pg[queue[i].key]
  /\ \A i \in DOMAIN batch : batch[i].seq <= pg[batch[i].key]
  /\ \A w \in InHand :
       /\ \A i \in DOMAIN queue : queue[i].key = key[w] => queue[i].seq < got[w]
       /\ \A i \in DOMAIN batch : batch[i].key = key[w] => batch[i].seq < got[w]

BatchInv ==
  /\ done # 0 => SqliteLocked
  /\ batch # << >> => worker \in {"write", "txn", "drain"}

\* Behind any write still to be run is the newest one of its row.
NewestInv ==
  /\ \A i \in DOMAIN queue : Newest(queue[i].key) \in Remaining \cup missed
  /\ \A i \in done + 1 .. Len(batch) :
       Newest(batch[i].key) \in Remaining \cup missed

\* LagIsKnown for the image the open transaction has made so far.
ImageInv ==
  SqliteLocked =>
    \A k \in Keys : image[k] < pg[k] => Newest(k) \in Remaining \cup missed

\* What is still to come is newer than what is there.
FreshInv ==
  ~direct =>
    /\ \A i \in DOMAIN queue : sqlite[queue[i].key] < queue[i].seq
    /\ \A i \in DOMAIN batch : sqlite[batch[i].key] < batch[i].seq
    /\ \A w \in InHand : sqlite[key[w]] < got[w]
    /\ SqliteLocked =>
         /\ \A k \in Keys : sqlite[k] <= image[k]
         /\ \A i \in DOMAIN queue : image[queue[i].key] < queue[i].seq
         /\ \A i \in done + 1 .. Len(batch) :
              image[batch[i].key] < batch[i].seq
         /\ \A w \in InHand : image[key[w]] < got[w]

(***************************************************************************)
(* Properties.                                                             *)
(***************************************************************************)

\* As long as SQLite takes statements from the worker only, no row of it ever
\* goes back to an older value: not through a full queue, a failed statement,
\* a switch of the backend or a restart.  Needs Exclusive: two threads may
\* queue their copies in the other order.
NeverGoesBack ==
  [][~direct => \A k \in Keys : sqlite'[k] >= sqlite[k]]_vars

\* A row of SQLite that is behind PostgreSQL is behind for a known reason: the
\* newest write of the row is on its way, or is one of those that were dropped,
\* failed, or lost in a restart or with an answer.
LagIsKnown ==
  \A k \in Keys : sqlite[k] < pg[k] => Newest(k) \in Pending \cup missed

SyncInv ==
  /\ TypeOK
  /\ HandsInv
  /\ NumbersInv
  /\ OrderInv
  /\ BatchInv
  /\ NewestInv
  /\ LagIsKnown
  /\ ImageInv
  /\ FreshInv

\* When the worker has ended, nothing that waited when it was told to stop is
\* left in the queue ("drain 剩余任务").
StopDrains == worker = "off" => Pending \cap atStop = {}

\* Every write PostgreSQL accepted leaves the pipeline: it reaches SQLite or is
\* missed for good.
EveryWriteSettles ==
  \A n \in 1 .. MaxWrites :
    (\E e \in Pending : e.seq = n) ~> (\A e \in Pending : e.seq # n)
=============================================================================
