--------------------------- MODULE PayDbSyncProofs ---------------------------
(***************************************************************************)
(* Theorems about PayDbSync: while no two handlers write one row at a      *)
(* time, SQLite never takes an older value for a newer one, and it is      *)
(* behind PostgreSQL only for a known reason; and a process that stops     *)
(* leaves none of what waited in its queue, whoever writes what; for any   *)
(* number of rows and threads, any size of queue and batch, and any crash. *)
(***************************************************************************)
EXTENDS PayDbSync, SequenceTheorems, TLAPS

USE SyncAssumption

LEMMA SeqNumbers ==
  ASSUME NEW q \in Seq(Writes), NEW i \in DOMAIN q
  PROVE  q[i].key \in Keys /\ q[i].seq \in Nat
<1>1. q[i] \in Writes
  OBVIOUS
<1>2. QED
  BY <1>1 DEF Writes

LEMMA ElementsOf ==
  ASSUME NEW q \in Seq(Writes)
  PROVE  Elements(q) \subseteq Writes
BY DEF Elements

\* PostgreSQL's side of a statement.
LEMMA AcceptType ==
  ASSUME seq \in Nat, pg \in [Keys -> Nat], NEW w \in Writers, key[w] \in Keys,
         Accept(w)
  PROVE  seq' \in Nat /\ pg' \in [Keys -> Nat]
BY DEF Accept

LEMMA FailedType ==
  ASSUME seq \in Nat, pg \in [Keys -> Nat], missed \subseteq Writes,
         NEW w \in Writers, key[w] \in Keys, NEW from, Failed(w, from)
  PROVE  seq' \in Nat /\ pg' \in [Keys -> Nat] /\ missed' \subseteq Writes
<1>1. CASE UNCHANGED <<pg, seq, missed>>
  BY <1>1
<1>2. CASE Accept(w) /\ missed' = missed \cup {[key |-> key[w], seq |-> seq + 1]}
  <2>1. seq' \in Nat /\ pg' \in [Keys -> Nat]
    BY <1>2, AcceptType
  <2>2. [key |-> key[w], seq |-> seq + 1] \in Writes
    BY DEF Writes
  <2>3. QED
    BY <1>2, <2>1, <2>2
<1>3. QED
  BY <1>1, <1>2 DEF Failed

\* What TakeBatch leaves and takes, write by write.
LEMMA Taken ==
  ASSUME queue \in Seq(Writes), TakeBatch
  PROVE  \E n \in 1 .. Len(queue) :
           /\ batch' \in Seq(Writes) /\ queue' \in Seq(Writes)
           /\ Len(batch') = n /\ Len(queue') = Len(queue) - n
           /\ \A i \in 1 .. n : batch'[i] = queue[i]
           /\ \A i \in 1 .. Len(queue) - n : queue'[i] = queue[n + i]
<1>1. Len(queue) \in Nat \ {0}
  BY EmptySeq DEF TakeBatch
<1> DEFINE n == IF Len(queue) < BatchSize THEN Len(queue) ELSE BatchSize
<1>2. n \in 1 .. Len(queue)
  BY <1>1
<1>3. batch' = SubSeq(queue, 1, n) /\ queue' = SubSeq(queue, n + 1, Len(queue))
  BY DEF TakeBatch
<1> HIDE DEF n
<1>4. \A i \in 1 .. Len(queue) : queue[i] \in Writes
  OBVIOUS
<1>5. /\ batch' \in Seq(Writes) /\ Len(batch') = n
      /\ \A i \in 1 .. n : batch'[i] = queue[i]
  BY <1>1, <1>2, <1>3, <1>4, SubSeqProperties
<1>6. /\ queue' \in Seq(Writes) /\ Len(queue') = Len(queue) - n
      /\ \A i \in 1 .. Len(queue) - n : queue'[i] = queue[n + i]
  BY <1>1, <1>2, <1>3, <1>4, SubSeqProperties
<1>7. QED
  BY <1>2, <1>5, <1>6

\* The shape of the pipeline in the next state, read off the current one.
LEMMA TypeStep ==
  ASSUME TypeOK, \A w \in Writers : pc[w] # "idle" => key[w] \in Keys, BatchInv, Next
  PROVE  TypeOK'
<1> USE DEF TypeOK, Calls, Backends, Return, writerVars, workerVars,
            history
<1>1. ASSUME NEW w \in Writers, NEW k \in Keys, Start(w, k) PROVE TypeOK'
  BY <1>1 DEF Start
<1>2. ASSUME NEW w \in Writers, pc[w] # "idle", Writer(w) PROVE TypeOK'
  <2>0. key[w] \in Keys
    BY <1>2
  <2>1. CASE DriverExec(w)
    BY <2>0, <2>1 DEF DriverExec, Accepted, Accept
  <2>2. CASE LibpqExec(w)
    BY <2>0, <2>2 DEF LibpqExec, Accepted, Accept
  <2>3. CASE DriverFails(w)
    <3>1. /\ seq' \in Nat /\ pg' \in [Keys -> Nat]
          /\ missed' \subseteq Writes
      BY <2>0, <2>3, FailedType DEF DriverFails
    <3>2. QED
      BY <2>3, <3>1 DEF DriverFails, Failed
  <2>4. CASE LibpqFails(w)
    <3>1. /\ seq' \in Nat /\ pg' \in [Keys -> Nat]
          /\ missed' \subseteq Writes
      BY <2>0, <2>4, FailedType DEF LibpqFails
    <3>2. QED
      BY <2>4, <3>1 DEF LibpqFails, Failed
  <2>5. CASE Reset(w)
    BY <2>5 DEF Reset
  <2>6. CASE SyncToSqlite(w)
    <3>1. queue' \in Seq(Writes)
      <4>1. Held(w) \in Writes
        BY <2>0 DEF Held, Writes
      <4>2. Tail(queue) \in Seq(Writes) \/ queue = << >>
        BY HeadTailProperties
      <4>3. Len(queue) >= QueueLimit => queue # << >>
        OBVIOUS
      <4>4. QED
        BY <2>6, <4>1, <4>2, <4>3, AppendProperties DEF SyncToSqlite
    <3>2. missed' \subseteq Writes
      <4>1. Len(queue) >= QueueLimit => queue # << >>
        OBVIOUS
      <4>2. queue # << >> => Head(queue) \in Writes
        BY HeadTailProperties
      <4>3. QED
        BY <2>6, <4>1, <4>2 DEF SyncToSqlite
    <3>3. QED
      BY <2>6, <3>1, <3>2 DEF SyncToSqlite
  <2>7. CASE ExecSqliteDirect(w)
    <3>1. seq' \in Nat /\ sqlite' \in [Keys -> Nat] /\ direct' \in BOOLEAN
      <4>1. CASE UNCHANGED <<sqlite, seq, direct>>
        BY <4>1
      <4>2. CASE /\ seq' = seq + 1
                 /\ sqlite' = [sqlite EXCEPT ![key[w]] = seq + 1]
                 /\ direct' = TRUE
        BY <2>0, <4>2
      <4>3. QED
        BY <2>7, <4>1, <4>2 DEF ExecSqliteDirect
    <3>2. QED
      BY <2>7, <3>1 DEF ExecSqliteDirect
  <2>8. CASE LoadFailCount(w)
    BY <2>8 DEF LoadFailCount
  <2>9. CASE StoreFailCount(w)
    <3>1. failCount' \in Nat
      BY <2>9 DEF StoreFailCount
    <3>2. CASE got[w] + 1 >= FailThreshold /\ backend = "DRIVER"
      BY <2>9, <3>1, <3>2 DEF StoreFailCount
    <3>3. CASE ~(got[w] + 1 >= FailThreshold /\ backend = "DRIVER")
      <4>1. Return(w)
        BY <2>9, <3>3, Zenon DEF StoreFailCount
      <4>2. pc' \in [Writers -> Calls \cup {"idle"}] /\ got' \in [Writers -> Nat]
        BY <4>1
      <4>3. key' \in [Writers -> Keys \cup {NoRow}]
        BY <4>1
      <4>4. QED
        BY <2>9, <3>1, <4>2, <4>3 DEF StoreFailCount
    <3>4. QED
      BY <3>2, <3>3
  <2>10. CASE Reconnect(w)
    BY <2>10 DEF Reconnect
  <2>11. QED
    BY <1>2, <2>1, <2>2, <2>3, <2>4, <2>5, <2>6, <2>7, <2>8, <2>9, <2>10
    DEF Writer
<1>3. CASE TakeBatch
  <2>1. batch' \in Seq(Writes) /\ queue' \in Seq(Writes)
    BY <1>3, Taken
  <2>2. done' \in 0 .. Len(batch')
    <3>1. done' = 0
      BY <1>3 DEF TakeBatch, BatchInv, SqliteLocked
    <3>2. QED
      BY <2>1, <3>1, LenProperties
  <2>3. QED
    BY <1>3, <2>1, <2>2 DEF TakeBatch
<1>4. CASE Begin
  BY <1>4 DEF Begin
<1>5. CASE RunStatement
  <2>1. /\ done + 1 \in 1 .. Len(batch)
        /\ batch[done + 1] \in Writes
    <3>1. done < Len(batch) /\ done \in Nat /\ Len(batch) \in Nat
      BY <1>5, LenProperties DEF RunStatement
    <3>2. done + 1 \in 1 .. Len(batch)
      BY <3>1
    <3>3. QED
      BY <3>2, ElementOfSeq
  <2>2. batch[done + 1].key \in Keys /\ batch[done + 1].seq \in Nat
    BY <2>1 DEF Writes
  <2>3. image' \in [Keys -> Nat] /\ missed' \subseteq Writes
    BY <1>5, <2>1, <2>2 DEF RunStatement
  <2>4. done' \in 0 .. Len(batch')
    BY <1>5, <2>1 DEF RunStatement
  <2>5. QED
    BY <1>5, <2>3, <2>4 DEF RunStatement
<1>6. CASE Commit
  BY <1>6 DEF Commit, Untouched
<1>7. CASE StopSyncWorker
  <2>1. Elements(queue) \subseteq Writes /\ Elements(batch) \subseteq Writes
    BY ElementsOf
  <2>2. atStop' \subseteq Writes
    BY <1>7, <2>1, Zenon DEF StopSyncWorker
  <2>3. QED
    BY <1>7, <2>2 DEF StopSyncWorker
<1>8. CASE LeaveLoop
  BY <1>8 DEF LeaveLoop
<1>9. CASE DrainSyncQueue
  <2>1. CASE queue = << >>
    BY <1>9, <2>1 DEF DrainSyncQueue
  <2>2. CASE queue # << >>
    <3>1. done' \in 0 .. Len(batch')
      BY <1>9, <2>2 DEF DrainSyncQueue, BatchInv
    <3>2. QED
      BY <1>9, <2>2, <3>1 DEF DrainSyncQueue
  <2>3. QED
    BY <2>1, <2>2
<1>10. CASE Restart
  <2>1. Elements(queue) \subseteq Writes /\ Elements(batch) \subseteq Writes
    BY ElementsOf
  <2>2. Pending \subseteq Writes
    <3>1. {Held(w) : w \in InHand} \subseteq Writes
      BY DEF InHand, Held, Writes
    <3>2. QED
      BY <2>1, <3>1, Zenon DEF Pending
  <2>3. missed' \subseteq Writes
    BY <1>10, <2>2 DEF Restart
  <2>4. /\ backend' \in Backends /\ running' \in BOOLEAN
        /\ worker' \in {"none", "wait"}
    BY <1>10 DEF Restart, Connected
  <2>5. QED
    <3>1. /\ pc' \in [Writers -> Calls \cup {"idle"}]
          /\ got' \in [Writers -> Nat]
          /\ key' \in [Writers -> Keys \cup {NoRow}]
      BY <1>10 DEF Restart
    <3>2. /\ queue' \in Seq(Writes) /\ batch' \in Seq(Writes)
          /\ done' \in 0 .. Len(batch')
      BY <1>10 DEF Restart
    <3>3. /\ image' \in [Keys -> Nat] /\ sqlite' \in [Keys -> Nat]
          /\ pg' \in [Keys -> Nat] /\ seq' \in Nat
          /\ failCount' \in Nat /\ direct' \in BOOLEAN /\ atStop' \subseteq Writes
      BY <1>10 DEF Restart, Untouched
    <3>4. QED
      BY <2>3, <2>4, <3>1, <3>2, <3>3
<1>11. \A w \in Writers : Writer(w) => pc[w] # "idle"
  BY DEF Writer, DriverExec, LibpqExec, Accepted, DriverFails, LibpqFails, Failed, Reset,
         SyncToSqlite, ExecSqliteDirect, LoadFailCount, StoreFailCount, Reconnect
<1>12. QED
  BY <1>1, <1>2, <1>3, <1>4, <1>5, <1>6, <1>7, <1>8, <1>9, <1>10, <1>11
  DEF Next, Worker, Crash, Exit

-----------------------------------------------------------------------------
(***************************************************************************)
(* Steps that leave the writes in the pipeline where they are.             *)
(***************************************************************************)
Data == <<queue, batch, done, image, sqlite, pg, seq, missed, direct>>

SameHands ==
  /\ InHand' = InHand
  /\ \A w \in InHand : key'[w] = key[w] /\ got'[w] = got[w]

\* The invariant but for its types and the threads.
PipeInv ==
  NumbersInv /\ OrderInv /\ BatchInv /\ NewestInv /\ LagIsKnown /\ ImageInv
  /\ FreshInv

LEMMA StillPipe ==
  ASSUME TypeOK, PipeInv, UNCHANGED Data, SameHands,
         SqliteLocked' = SqliteLocked, BatchInv'
  PROVE  PipeInv'
<1>1. Pending' = Pending /\ Remaining' = Remaining
  <2>1. {Held(w) : w \in InHand}' = {Held(w) : w \in InHand}
    BY DEF SameHands, Held
  <2>2. QED
    BY <2>1 DEF Pending, Remaining, Data, Elements
<1>2. NumbersInv'
  BY DEF PipeInv, NumbersInv, Data
<1>3. OrderInv'
  BY DEF PipeInv, OrderInv, Ordered, Before, Data, SameHands
<1>4. NewestInv'
  BY <1>1 DEF PipeInv, NewestInv, Data, Newest
<1>5. LagIsKnown'
  BY <1>1 DEF PipeInv, LagIsKnown, Data, Newest
<1>6. ImageInv'
  BY <1>1 DEF PipeInv, ImageInv, Data, Newest
<1>7. FreshInv'
  BY DEF PipeInv, FreshInv, Data, SameHands
<1>8. QED
  BY <1>2, <1>3, <1>4, <1>5, <1>6, <1>7 DEF PipeInv

\* One thread moves within exec, or leaves it, and PostgreSQL stays as it is.
LEMMA MoveKeepsHands ==
  ASSUME TypeOK, HandsInv, NEW w \in Writers, NEW at \in Calls,
         pc[w] \notin {"idle", "reset", "sync"}, at \notin {"reset", "sync"},
         pc' = [pc EXCEPT ![w] = at], UNCHANGED <<key, pg>>,
         \A v \in Writers \ {w} : got'[v] = got[v]
  PROVE  HandsInv' /\ SameHands
<1>1. InHand' = InHand /\ InFlight' = InFlight
  BY DEF InHand, InFlight, TypeOK, Calls
<1>2. w \notin InHand
  BY DEF InHand
<1>3. SameHands
  BY <1>1, <1>2 DEF SameHands, InHand
<1>4. QED
  BY <1>1, <1>2, <1>3 DEF HandsInv, InHand, TypeOK, Calls, InFlight

LEMMA ReturnKeepsHands ==
  ASSUME TypeOK, HandsInv, NEW w \in Writers,
         pc[w] \notin {"reset", "sync"}, Return(w), UNCHANGED pg
  PROVE  HandsInv' /\ SameHands
<1>1. InHand' = InHand /\ InFlight' = InFlight \ {w}
  BY DEF InHand, InFlight, TypeOK, Return
<1>2. w \notin InHand
  BY DEF InHand
<1>3. \A v \in Writers \ {w} : key'[v] = key[v] /\ got'[v] = got[v] /\ pc'[v] = pc[v]
  BY DEF TypeOK, Return
<1>4. QED
  BY <1>1, <1>2, <1>3 DEF HandsInv, InHand, TypeOK, Calls, InFlight, SameHands, Return

LEMMA StartStep ==
  ASSUME SyncInv, Exclusive, NEW w \in Writers, NEW k \in Keys, Start(w, k), TypeOK'
  PROVE  SyncInv'
<1>1. pc[w] = "idle" /\ pc'[w] \in {"driver", "libpq", "direct"} /\ key'[w] = k
  BY DEF Start, SyncInv, TypeOK, Backends
<1>2. \A v \in Writers \ {w} : pc'[v] = pc[v] /\ key'[v] = key[v]
  BY DEF Start, SyncInv, TypeOK
<1>3. InHand' = InHand /\ InFlight' = InFlight \cup {w} /\ got' = got /\ w \notin InHand
  BY <1>1, <1>2 DEF InHand, InFlight, Start
<1>4. \A v \in InFlight : key[v] # k
  BY DEF Start
<1>5. HandsInv'
  <2>1. \A v \in Writers : pc'[v] # "idle" => key'[v] \in Keys
    BY <1>1, <1>2 DEF HandsInv, SyncInv
  <2>2. \A u, v \in InFlight' : u # v => key'[u] # key'[v]
    BY <1>1, <1>2, <1>3, <1>4 DEF HandsInv, InFlight, SyncInv
  <2>3. \A v \in InHand' : got'[v] = pg'[key'[v]]
    <3>1. pg' = pg
      BY DEF Start
    <3>2. QED
      BY <1>2, <1>3, <3>1 DEF HandsInv, InHand, SyncInv
  <2>4. QED
    BY <2>1, <2>2, <2>3 DEF HandsInv
<1>6. SameHands
  BY <1>2, <1>3 DEF SameHands, InHand
<1>7. UNCHANGED Data /\ worker' = worker
  BY DEF Start, Data, workerVars, history
<1>8. SqliteLocked' = SqliteLocked /\ BatchInv'
  BY <1>7 DEF SqliteLocked, SyncInv, BatchInv, Data
<1>9. QED
  BY <1>5, <1>6, <1>7, <1>8, StillPipe DEF SyncInv, PipeInv

\* PostgreSQL does not take the statement, or a thread is in onDriverFailure.
LEMMA QuietWriterStep ==
  ASSUME SyncInv, NEW w \in Writers, TypeOK', UNCHANGED <<Data, worker>>,
         HandsInv', SameHands
  PROVE  SyncInv'
<1>1. SqliteLocked' = SqliteLocked /\ BatchInv'
  BY DEF SqliteLocked, SyncInv, BatchInv, Data
<1>2. QED
  BY <1>1, StillPipe DEF SyncInv, PipeInv

LEMMA ResetStep ==
  ASSUME SyncInv, NEW w \in Writers, Reset(w), TypeOK'
  PROVE  SyncInv'
<1>1. InHand' = InHand /\ InFlight' = InFlight /\ UNCHANGED <<key, got, pg>>
  BY DEF Reset, InHand, InFlight, SyncInv, TypeOK
<1>2. HandsInv' /\ SameHands
  BY <1>1 DEF SyncInv, HandsInv, SameHands, Reset, TypeOK, InFlight
<1>3. UNCHANGED <<Data, worker>>
  BY DEF Reset, Data, workerVars, history
<1>4. QED
  BY <1>2, <1>3, QuietWriterStep

LEMMA FailureStep ==
  ASSUME SyncInv, NEW w \in Writers, TypeOK',
         LoadFailCount(w) \/ StoreFailCount(w) \/ Reconnect(w)
  PROVE  SyncInv'
<1>1. UNCHANGED <<Data, worker>>
  BY DEF LoadFailCount, StoreFailCount, Reconnect, Data, workerVars, history
<1>2. TypeOK /\ HandsInv
  BY DEF SyncInv
<1>3. CASE LoadFailCount(w)
  BY <1>1, <1>2, <1>3, MoveKeepsHands, QuietWriterStep
  DEF LoadFailCount, Calls, Data, TypeOK
<1>4. CASE StoreFailCount(w)
  <2>1. CASE pc' = [pc EXCEPT ![w] = "reconnect"] /\ UNCHANGED <<key, got>>
    BY <1>1, <1>2, <1>4, <2>1, MoveKeepsHands, QuietWriterStep
    DEF StoreFailCount, Calls, Data
  <2>2. CASE Return(w)
    BY <1>1, <1>2, <1>4, <2>2, ReturnKeepsHands, QuietWriterStep
    DEF StoreFailCount, Data
  <2>3. QED
    BY <1>4, <2>1, <2>2 DEF StoreFailCount
<1>5. CASE Reconnect(w)
  BY <1>1, <1>2, <1>5, ReturnKeepsHands, QuietWriterStep DEF Reconnect, Data
<1>6. QED
  BY <1>3, <1>4, <1>5

-----------------------------------------------------------------------------
(***************************************************************************)
(* PostgreSQL takes a statement: its number is the largest of all, and the *)
(* thread holds it, or it is missed because the answer was lost.           *)
(***************************************************************************)
LEMMA AcceptPipe ==
  ASSUME TypeOK, PipeInv, NEW w \in Writers, key[w] \in Keys, Accept(w),
         UNCHANGED <<queue, worker, batch, done, image, sqlite, direct>>,
         missed \subseteq missed',
         \A v \in InHand : /\ v \in InHand' /\ v # w /\ key[v] # key[w]
                           /\ key'[v] = key[v] /\ got'[v] = got[v],
         \A v \in InHand' \ InHand : v = w /\ key'[w] = key[w] /\ got'[w] = seq + 1,
         \/ w \in InHand' \ InHand
         \/ [key |-> key[w], seq |-> seq + 1] \in missed'
  PROVE  PipeInv'
<1> DEFINE n == seq + 1
<1>k. PICK k \in Keys : k = key[w]
  OBVIOUS
<1>1. /\ pg'[k] = n /\ \A j \in Keys : j # k => pg'[j] = pg[j]
      /\ seq' = n /\ n \in Nat /\ n > seq
  BY <1>k DEF Accept, TypeOK
<1>2. /\ Remaining \subseteq Remaining' /\ Pending \subseteq Pending'
      /\ Remaining' \subseteq Pending'
  <2>1. \A v \in InHand : v \in InHand' /\ Held(v)' = Held(v)
    BY DEF Held
  <2>2. \A i \in done + 1 .. Len(batch) : i \in DOMAIN batch
    BY LenProperties DEF TypeOK
  <2>3. QED
    BY <2>1, <2>2 DEF Remaining, Pending, Elements
<1>3. Newest(k)' \in Remaining' \cup missed'
  <2>0. Newest(k)' = [key |-> k, seq |-> n]
    BY <1>1 DEF Newest
  <2>1. CASE w \in InHand' \ InHand
    <3>1. Held(w)' = [key |-> k, seq |-> n]
      BY <1>k, <2>1 DEF Held
    <3>2. QED
      BY <2>0, <2>1, <3>1 DEF Remaining
  <2>2. QED
    BY <1>k, <2>0, <2>1
<1>4. /\ \A i \in DOMAIN queue : queue[i] \in Writes
      /\ \A i \in DOMAIN batch : batch[i] \in Writes
      /\ \A i \in DOMAIN queue : queue[i].key \in Keys /\ queue[i].seq \in Nat
      /\ \A i \in DOMAIN batch : batch[i].key \in Keys /\ batch[i].seq \in Nat
  <2>1. queue \in Seq(Writes) /\ batch \in Seq(Writes)
    BY DEF TypeOK
  <2>2. QED
    BY <2>1, SeqNumbers
<1> HIDE DEF n
<1>0. /\ pg \in [Keys -> Nat] /\ sqlite \in [Keys -> Nat] /\ image \in [Keys -> Nat]
      /\ seq \in Nat
  BY DEF TypeOK
<1>5. NumbersInv'
  <2>1. \A j \in Keys : /\ pg[j] <= seq /\ sqlite[j] <= seq /\ image[j] <= seq
                        /\ pg[j] \in Nat /\ sqlite[j] \in Nat /\ image[j] \in Nat
    BY <1>0 DEF PipeInv, NumbersInv
  <2>2. \A j \in Keys : pg'[j] <= n /\ sqlite'[j] <= n /\ image'[j] <= n
    BY <1>0, <1>1, <2>1
  <2>3. QED
    BY <1>1, <2>2 DEF NumbersInv
<1>6. /\ \A i \in DOMAIN queue : queue[i].seq <= seq
      /\ \A i \in DOMAIN batch : batch[i].seq <= seq
  <2>1. \A j \in Keys : pg[j] <= seq /\ pg[j] \in Nat
    BY <1>0 DEF PipeInv, NumbersInv
  <2>2. /\ \A i \in DOMAIN queue : queue[i].seq <= pg[queue[i].key]
        /\ \A i \in DOMAIN batch : batch[i].seq <= pg[batch[i].key]
    BY DEF PipeInv, OrderInv
  <2>3. QED
    BY <1>0, <1>4, <2>1, <2>2
<1>7. OrderInv'
  <2>1. \A i \in DOMAIN queue : queue[i].seq <= pg'[queue[i].key]
    <3>1. \A i \in DOMAIN queue : queue[i].seq <= pg[queue[i].key]
      BY DEF PipeInv, OrderInv
    <3>2. QED
      BY <1>0, <1>1, <1>4, <1>6, <3>1
  <2>2. \A i \in DOMAIN batch : batch[i].seq <= pg'[batch[i].key]
    <3>1. \A i \in DOMAIN batch : batch[i].seq <= pg[batch[i].key]
      BY DEF PipeInv, OrderInv
    <3>2. QED
      BY <1>0, <1>1, <1>4, <1>6, <3>1
  <2>3. \A v \in InHand' :
          /\ \A i \in DOMAIN queue : queue[i].key = key'[v] => queue[i].seq < got'[v]
          /\ \A i \in DOMAIN batch : batch[i].key = key'[v] => batch[i].seq < got'[v]
    <3>1. TAKE v \in InHand'
    <3>2. CASE v \in InHand
      BY <3>2 DEF PipeInv, OrderInv
    <3>3. CASE v \notin InHand
      <4>1. key'[v] = k /\ got'[v] = seq + 1 /\ seq \in Nat
        BY <1>k, <3>1, <3>3 DEF TypeOK
      <4>2. QED
        BY <1>4, <1>6, <4>1
    <3>4. QED
      BY <3>2, <3>3
  <2>4. QED
    BY <2>1, <2>2, <2>3 DEF PipeInv, OrderInv, Ordered, Before
<1>8. BatchInv'
  BY DEF PipeInv, BatchInv, SqliteLocked
<1>9. \A j \in Keys : Newest(j) \in Remaining \cup missed
                        => Newest(j)' \in Remaining' \cup missed'
  BY <1>1, <1>2, <1>3 DEF Newest
<1>10. \A j \in Keys : Newest(j) \in Pending \cup missed
                        => Newest(j)' \in Pending' \cup missed'
  BY <1>1, <1>2, <1>3 DEF Newest
<1>11. NewestInv'
  <2>1. \A i \in done + 1 .. Len(batch) : i \in DOMAIN batch
    BY LenProperties DEF TypeOK
  <2>2. QED
    BY <1>4, <1>9, <2>1 DEF PipeInv, NewestInv
<1>12. LagIsKnown'
  BY <1>1, <1>2, <1>3, <1>10 DEF PipeInv, LagIsKnown
<1>13. ImageInv'
  BY <1>1, <1>3, <1>9 DEF PipeInv, ImageInv, SqliteLocked
<1>14. FreshInv'
  <2>1. sqlite[k] < n /\ image[k] < n
    BY <1>1 DEF PipeInv, NumbersInv, TypeOK
  <2>2. ASSUME ~direct, NEW v \in InHand'
        PROVE  /\ sqlite[key'[v]] < got'[v]
               /\ SqliteLocked => image[key'[v]] < got'[v]
    <3>1. CASE v \in InHand
      BY <2>2, <3>1 DEF PipeInv, FreshInv
    <3>2. CASE v \notin InHand
      BY <1>k, <2>1, <3>2 DEF n
    <3>3. QED
      BY <3>1, <3>2
  <2>3. QED
    BY <2>2 DEF PipeInv, FreshInv, SqliteLocked
<1>15. QED
  BY <1>5, <1>7, <1>8, <1>11, <1>12, <1>13, <1>14 DEF PipeInv

LEMMA AcceptedStep ==
  ASSUME SyncInv, Exclusive, NEW w \in Writers, NEW from \in {"driver", "libpq"},
         NEW to \in {"reset", "sync"}, Accepted(w, from, to), TypeOK'
  PROVE  SyncInv'
<1>1. pc[w] = from /\ pc' = [pc EXCEPT ![w] = to] /\ key' = key /\ Accept(w)
      /\ got' = [got EXCEPT ![w] = seq + 1]
  BY DEF Accepted
<1>2. /\ InFlight' = InFlight /\ InHand' = InHand \cup {w} /\ w \notin InHand
      /\ w \in InFlight /\ InHand \subseteq InFlight
  BY <1>1 DEF InFlight, InHand, SyncInv, TypeOK
<1>3. /\ key[w] \in Keys
      /\ \A v \in InHand : v # w /\ key[v] # key[w] /\ got'[v] = got[v]
  BY <1>1, <1>2 DEF SyncInv, HandsInv, InFlight, TypeOK
<1>4. got'[w] = seq + 1
  BY <1>1 DEF SyncInv, TypeOK
<1>5. HandsInv'
  <2>1. pg'[key[w]] = seq + 1 /\ \A v \in InHand : pg'[key[v]] = pg[key[v]]
    <3>1. pg \in [Keys -> Nat] /\ \A v \in InHand : key[v] \in Keys
      BY <1>2 DEF SyncInv, TypeOK, HandsInv, InFlight
    <3>2. QED
      BY <1>1, <1>3, <3>1 DEF Accept
  <2>2. \A v \in InHand' : got'[v] = pg'[key'[v]]
    BY <1>1, <1>2, <1>3, <1>4, <2>1 DEF SyncInv, HandsInv
  <2>3. \A v \in Writers : pc'[v] # "idle" => key'[v] \in Keys
    BY <1>1, <1>3 DEF SyncInv, HandsInv, TypeOK
  <2>4. QED
    BY <1>1, <1>2, <2>2, <2>3 DEF SyncInv, HandsInv
<1>6. UNCHANGED <<queue, worker, batch, done, image, sqlite, direct, missed>>
  BY DEF Accepted, workerVars, history
<1>7. PipeInv'
  BY <1>1, <1>2, <1>3, <1>4, <1>6, AcceptPipe DEF SyncInv, PipeInv
<1>8. QED
  BY <1>5, <1>7 DEF SyncInv, PipeInv

LEMMA FailedStep ==
  ASSUME SyncInv, Exclusive, NEW w \in Writers, TypeOK',
         DriverFails(w) \/ LibpqFails(w)
  PROVE  SyncInv'
<1>1. /\ pc[w] \in {"driver", "libpq"}
      /\ UNCHANGED <<queue, worker, batch, done, image, sqlite, direct>>
  BY DEF DriverFails, LibpqFails, Failed, workerVars
<1>2. \/ pc' = [pc EXCEPT ![w] = "load"] /\ UNCHANGED <<key, got>>
      \/ Return(w)
  BY DEF DriverFails, LibpqFails
<1>3. CASE UNCHANGED <<pg, seq, missed>>
  <2>1. UNCHANGED <<Data, worker>>
    BY <1>1, <1>3 DEF Data
  <2>2. HandsInv' /\ SameHands
    BY <1>1, <1>2, <1>3, MoveKeepsHands, ReturnKeepsHands DEF SyncInv, Calls
  <2>3. QED
    BY <2>1, <2>2, QuietWriterStep
<1>4. CASE Accept(w) /\ missed' = missed \cup {[key |-> key[w], seq |-> seq + 1]}
  <2>1. /\ InHand' = InHand /\ w \notin InHand /\ w \in InFlight
        /\ InFlight' \subseteq InFlight /\ InHand \subseteq InFlight
        /\ \A v \in Writers \ {w} : /\ key'[v] = key[v] /\ got'[v] = got[v]
                                    /\ pc'[v] = pc[v]
    BY <1>1, <1>2 DEF InHand, InFlight, SyncInv, TypeOK, Return
  <2>2. key[w] \in Keys /\ \A v \in InHand : v # w /\ key[v] # key[w]
    BY <1>1, <2>1 DEF SyncInv, HandsInv, InFlight
  <2>3. HandsInv'
    <3>1. \A v \in InHand : pg'[key[v]] = pg[key[v]]
      <4>1. pg \in [Keys -> Nat] /\ \A v \in InHand : key[v] \in Keys
        BY <2>1 DEF SyncInv, TypeOK, HandsInv, InFlight
      <4>2. QED
        BY <1>4, <2>2, <4>1 DEF Accept
    <3>2. \A v \in InHand' : got'[v] = pg'[key'[v]]
      BY <2>1, <2>2, <3>1 DEF SyncInv, HandsInv, InHand
    <3>3. pc'[w] # "idle" => key'[w] \in Keys /\ key'[w] = key[w]
      BY <1>2, <2>2 DEF SyncInv, TypeOK, Return
    <3>4. \A v \in Writers : pc'[v] # "idle" => key'[v] \in Keys
      BY <2>1, <3>3 DEF SyncInv, HandsInv
    <3>5. \A v \in InFlight' : key'[v] = key[v]
      BY <2>1, <3>3 DEF InFlight
    <3>6. QED
      BY <2>1, <3>2, <3>4, <3>5 DEF SyncInv, HandsInv
  <2>4. PipeInv'
    <3>1. \A v \in InHand : key'[v] = key[v] /\ got'[v] = got[v]
      BY <2>1, <2>2 DEF InHand
    <3>2. /\ [key |-> key[w], seq |-> seq + 1] \in missed'
          /\ missed \subseteq missed'
      BY <1>4
    <3>3. QED
      BY <1>1, <1>4, <2>1, <2>2, <3>1, <3>2, AcceptPipe DEF SyncInv, PipeInv
  <2>5. QED
    BY <2>3, <2>4 DEF SyncInv, PipeInv
<1>5. QED
  BY <1>3, <1>4 DEF DriverFails, LibpqFails, Failed

-----------------------------------------------------------------------------
(***************************************************************************)
(* A write is queued: it goes behind all others of its row, and a full     *)
(* queue has first lost its head.                                          *)
(***************************************************************************)
LEMMA Queued ==
  ASSUME queue \in Seq(Writes), NEW w \in Writers, key[w] \in Keys, got[w] \in Nat,
         SyncToSqlite(w)
  PROVE  \E d \in {0, 1} :
           /\ d <= Len(queue)
           /\ Len(queue') = Len(queue) - d + 1
           /\ \A i \in 1 .. Len(queue) - d : queue'[i] = queue[i + d]
           /\ queue'[Len(queue')] = Held(w)
           /\ missed \subseteq missed'
           /\ d = 1 => queue[1] \in missed'
<1> DEFINE e == Held(w)
<1>1. e \in Writes /\ Len(queue) \in Nat
  BY DEF Writes, Held
<1>2. CASE Len(queue) >= QueueLimit
  <2>1. queue # << >>
    BY <1>2
  <2>2. queue' = Append(Tail(queue), e) /\ missed' = missed \cup {Head(queue)}
    BY <1>2 DEF SyncToSqlite
  <2>3. /\ Tail(queue) \in Seq(Writes) /\ Len(Tail(queue)) = Len(queue) - 1
        /\ \A i \in 1 .. Len(queue) - 1 : Tail(queue)[i] = queue[i + 1]
    BY <2>1, HeadTailProperties
  <2>4. /\ Len(queue') = Len(queue) /\ queue'[Len(queue)] = e
        /\ \A i \in 1 .. Len(queue) - 1 : queue'[i] = queue[i + 1]
    <3> HIDE DEF e
    <3>1. QED
      BY <1>1, <2>2, <2>3, AppendProperties
  <2>5. Head(queue) = queue[1] /\ Len(queue) >= 1
    BY <1>1, <2>1, <1>2
  <2>6. QED
    <3>1. /\ 1 <= Len(queue) /\ Len(queue') = Len(queue) - 1 + 1
          /\ queue[1] \in missed' /\ missed \subseteq missed'
      BY <1>1, <2>2, <2>4, <2>5
    <3>2. QED
      BY <2>4, <3>1
<1>3. CASE ~(Len(queue) >= QueueLimit)
  <2>1. queue' = Append(queue, e) /\ missed' = missed
    BY <1>3 DEF SyncToSqlite
  <2>2. /\ Len(queue') = Len(queue) + 1 /\ queue'[Len(queue) + 1] = e
        /\ \A i \in 1 .. Len(queue) : queue'[i] = queue[i]
    <3> HIDE DEF e
    <3>1. QED
      BY <1>1, <2>1, AppendProperties
  <2>3. /\ 0 <= Len(queue) /\ Len(queue') = Len(queue) - 0 + 1
        /\ \A i \in 1 .. Len(queue) - 0 : queue'[i] = queue[i + 0]
    BY <1>1, <2>2
  <2>4. QED
    BY <1>1, <2>1, <2>2, <2>3
<1>4. QED
  BY <1>2, <1>3

LEMMA SyncToSqliteStep ==
  ASSUME SyncInv, NEW w \in Writers, SyncToSqlite(w), TypeOK'
  PROVE  SyncInv'
<1> DEFINE k == key[w]
           n == got[w]
           new == Len(queue')
<1>1. /\ pc[w] = "sync" /\ Return(w) /\ worker # "drain"
      /\ UNCHANGED <<worker, batch, done, image, sqlite, pg, seq, direct>>
  BY DEF SyncToSqlite, workerVars
<1>2. /\ w \in InHand /\ InHand' = InHand \ {w} /\ InFlight' = InFlight \ {w}
      /\ \A v \in Writers \ {w} : pc'[v] = pc[v] /\ key'[v] = key[v] /\ got'[v] = got[v]
      /\ InHand \subseteq InFlight /\ pc'[w] = "idle"
  BY <1>1 DEF InHand, InFlight, Return, SyncInv, TypeOK
<1>3. /\ k \in Keys /\ n \in Nat /\ n = pg[k]
      /\ \A v \in InHand' : key[v] # k
  BY <1>1, <1>2 DEF SyncInv, HandsInv, TypeOK, InFlight
<1>4. queue \in Seq(Writes) /\ queue' \in Seq(Writes) /\ batch \in Seq(Writes)
  BY DEF SyncInv, TypeOK
<1>5. PICK d \in {0, 1} :
           /\ d <= Len(queue)
           /\ Len(queue') = Len(queue) - d + 1
           /\ \A i \in 1 .. Len(queue) - d : queue'[i] = queue[i + d]
           /\ queue'[new] = Held(w)
           /\ missed \subseteq missed'
           /\ d = 1 => queue[1] \in missed'
  BY <1>3, <1>4, Queued
<1>6. /\ new \in Nat /\ Len(queue) \in Nat /\ new = Len(queue) - d + 1
      /\ DOMAIN queue = 1 .. Len(queue) /\ DOMAIN queue' = 1 .. new
      /\ DOMAIN batch = 1 .. Len(batch)
      /\ queue'[new].key = k /\ queue'[new].seq = n
  BY <1>4, <1>5, LenProperties DEF Held
<1> HIDE DEF k, n, new
\* A write of the new queue is one of the old queue, or the new one.
<1>7. \A i \in DOMAIN queue' : i # new =>
        /\ i + d \in DOMAIN queue /\ queue'[i] = queue[i + d]
  <2>1. TAKE i \in DOMAIN queue'
  <2>2. HAVE i # new
  <2>3. i \in 1 .. new /\ d \in {0, 1}
    BY <1>6
  <2>4. i \in 1 .. Len(queue) - d
    BY <1>6, <2>2, <2>3
  <2>5. i + d \in 1 .. Len(queue)
    BY <1>6, <2>3, <2>4
  <2>6. QED
    BY <1>5, <1>6, <2>4, <2>5
<1>8. \A i \in DOMAIN queue : \/ queue[i] \in missed'
                              \/ \E j \in DOMAIN queue' : queue'[j] = queue[i]
  <2>1. TAKE i \in DOMAIN queue
  <2>2. CASE d = 1 /\ i = 1
    BY <1>5, <2>2
  <2>3. CASE ~(d = 1 /\ i = 1)
    <3>1. i - d \in 1 .. Len(queue) - d
      BY <1>5, <1>6, <2>3
    <3>2. queue'[i - d] = queue[i]
      BY <1>5, <1>6, <3>1
    <3>3. i - d \in DOMAIN queue'
      BY <1>6, <3>1
    <3>4. QED
      BY <3>2, <3>3
  <2>4. QED
    BY <2>2, <2>3
<1>9. /\ \A i \in DOMAIN queue : queue[i].key \in Keys /\ queue[i].seq \in Nat
      /\ \A i \in DOMAIN batch : batch[i].key \in Keys /\ batch[i].seq \in Nat
  BY <1>4, SeqNumbers
<1>10. /\ Remaining \cup missed \subseteq Remaining' \cup missed'
       /\ Pending \cup missed \subseteq Pending' \cup missed'
  <2>1. \A v \in InHand : v # w => v \in InHand' /\ Held(v)' = Held(v)
    <3>1. \A v \in InHand : v \in Writers
      BY DEF InHand
    <3>2. \A v \in InHand : v # w =>
            v \in InHand' /\ key'[v] = key[v] /\ got'[v] = got[v]
      BY <1>2, <3>1
    <3>3. QED
      BY <3>2 DEF Held
  <2>2. Held(w) \in Elements(queue)'
    <3>1. new \in DOMAIN queue'
      BY <1>5, <1>6
    <3>2. QED
      BY <1>5, <3>1 DEF Elements
  <2>3. Elements(queue) \subseteq Elements(queue)' \cup missed'
    BY <1>8 DEF Elements
  <2>4. UNCHANGED <<batch, done>> /\ Elements(batch)' = Elements(batch)
    BY <1>1 DEF Elements
  <2>5. {Held(v) : v \in InHand} \subseteq {Held(v) : v \in InHand}' \cup {Held(w)}
    BY <2>1
  <2>6. QED
    BY <1>5, <2>2, <2>3, <2>4, <2>5 DEF Remaining, Pending
<1>12. HandsInv'
  <2>1. \A v \in Writers : pc'[v] # "idle" => key'[v] \in Keys
    BY <1>2 DEF SyncInv, HandsInv
  <2>2. \A u, v \in InFlight' : u # v => key'[u] # key'[v]
    BY <1>2 DEF SyncInv, HandsInv, InFlight
  <2>3. \A v \in InHand' : got'[v] = pg'[key'[v]]
    BY <1>1, <1>2 DEF SyncInv, HandsInv, InHand
  <2>4. QED
    BY <2>1, <2>2, <2>3 DEF HandsInv
<1>13. NumbersInv'
  BY <1>1 DEF SyncInv, NumbersInv
<1>14. OrderInv'
  <2>1. /\ \A i \in DOMAIN queue : queue[i].key = k => queue[i].seq < n
        /\ \A i \in DOMAIN batch : batch[i].key = k => batch[i].seq < n
    BY <1>2 DEF SyncInv, OrderInv, k, n
  <2>2. Ordered(queue')
    <3>1. SUFFICES ASSUME NEW i \in DOMAIN queue', NEW j \in DOMAIN queue', i < j,
                          queue'[i].key = queue'[j].key
                   PROVE  queue'[i].seq < queue'[j].seq
      BY DEF Ordered
    <3>2. i # new
      BY <1>6, <3>1
    <3>3. CASE j = new
      BY <1>6, <1>7, <2>1, <3>1, <3>2, <3>3
    <3>4. CASE j # new
      <4>1. i + d \in DOMAIN queue /\ j + d \in DOMAIN queue /\ i + d < j + d
        BY <1>6, <1>7, <3>1, <3>2, <3>4
      <4>2. QED
        BY <1>7, <3>1, <3>2, <3>4, <4>1 DEF SyncInv, OrderInv, Ordered
    <3>5. QED
      BY <3>3, <3>4
  <2>3. Before(batch, queue')
    <3>1. SUFFICES ASSUME NEW i \in DOMAIN batch, NEW j \in DOMAIN queue',
                          batch[i].key = queue'[j].key
                   PROVE  batch[i].seq < queue'[j].seq
      BY DEF Before
    <3>2. CASE j = new
      BY <1>6, <2>1, <3>1, <3>2
    <3>3. CASE j # new
      BY <1>7, <3>1, <3>3 DEF SyncInv, OrderInv, Before
    <3>4. QED
      BY <3>2, <3>3
  <2>4. \A i \in DOMAIN queue' : queue'[i].seq <= pg[queue'[i].key]
    <3>1. TAKE i \in DOMAIN queue'
    <3>2. CASE i = new
      BY <1>3, <1>6, <3>2 DEF k, n
    <3>3. CASE i # new
      BY <1>7, <3>3 DEF SyncInv, OrderInv
    <3>4. QED
      BY <3>2, <3>3
  <2>5. ASSUME NEW v \in InHand', NEW i \in DOMAIN queue', queue'[i].key = key[v]
        PROVE  queue'[i].seq < got[v]
    <3>1. i # new
      BY <1>3, <1>6, <2>5
    <3>2. QED
      BY <1>2, <1>7, <2>5, <3>1 DEF SyncInv, OrderInv
  <2>6. \A v \in InHand' :
          /\ key'[v] = key[v] /\ got'[v] = got[v]
          /\ \A i \in DOMAIN batch : batch[i].key = key[v] => batch[i].seq < got[v]
    BY <1>2 DEF SyncInv, OrderInv, InHand
  <2>7. QED
    BY <1>1, <2>2, <2>3, <2>4, <2>5, <2>6 DEF SyncInv, OrderInv
<1>15. BatchInv'
  BY <1>1 DEF SyncInv, BatchInv, SqliteLocked
<1>16. NewestInv'
  <2>1. ASSUME NEW i \in DOMAIN queue'
        PROVE  Newest(queue'[i].key) \in Remaining' \cup missed'
    <3>1. CASE i = new
      <4>1. Newest(queue'[i].key) = queue'[i]
        BY <1>3, <1>5, <1>6, <3>1 DEF k, n, Newest, Held
      <4>2. QED
        BY <4>1 DEF Remaining, Elements
    <3>2. CASE i # new
      BY <1>7, <1>10, <3>2 DEF SyncInv, NewestInv
    <3>3. QED
      BY <3>1, <3>2
  <2>2. QED
    BY <1>1, <1>10, <2>1 DEF SyncInv, NewestInv, Newest
<1>17. LagIsKnown'
  BY <1>1, <1>10 DEF SyncInv, LagIsKnown, Newest
<1>18. ImageInv'
  BY <1>1, <1>10 DEF SyncInv, ImageInv, SqliteLocked, Newest
<1>19. FreshInv'
  <2>1. ASSUME ~direct, NEW i \in DOMAIN queue'
        PROVE  /\ sqlite[queue'[i].key] < queue'[i].seq
               /\ SqliteLocked => image[queue'[i].key] < queue'[i].seq
    <3>1. CASE i = new
      BY <1>2, <1>6, <2>1, <3>1 DEF SyncInv, FreshInv, k, n
    <3>2. CASE i # new
      BY <1>7, <2>1, <3>2 DEF SyncInv, FreshInv
    <3>3. QED
      BY <3>1, <3>2
  <2>2. ASSUME ~direct, NEW v \in InHand'
        PROVE  /\ sqlite[key'[v]] < got'[v]
               /\ SqliteLocked => image[key'[v]] < got'[v]
    BY <1>2, <2>2 DEF SyncInv, FreshInv, InHand
  <2>3. QED
    BY <1>1, <2>1, <2>2 DEF SyncInv, FreshInv, SqliteLocked
<1>20. QED
  BY <1>12, <1>13, <1>14, <1>15, <1>16, <1>17, <1>18, <1>19 DEF SyncInv

LEMMA DirectStep ==
  ASSUME SyncInv, NEW w \in Writers, ExecSqliteDirect(w), TypeOK'
  PROVE  SyncInv'
<1>1. /\ pc[w] = "direct" /\ Return(w) /\ ~SqliteLocked
      /\ UNCHANGED <<queue, worker, batch, done, image, pg, missed>>
  BY DEF ExecSqliteDirect, workerVars
<1>2. HandsInv' /\ SameHands
  BY <1>1, ReturnKeepsHands DEF SyncInv
<1>3. CASE UNCHANGED <<sqlite, seq, direct>>
  BY <1>1, <1>2, <1>3, QuietWriterStep DEF Data
<1>4. CASE /\ seq' = seq + 1 /\ direct' = TRUE
           /\ sqlite' = [sqlite EXCEPT ![key[w]] = seq + 1]
  <2>1. Pending' = Pending /\ Remaining' = Remaining /\ ~SqliteLocked'
    <3>1. {Held(v) : v \in InHand}' = {Held(v) : v \in InHand}
      BY <1>2 DEF SameHands, Held
    <3>2. QED
      BY <1>1, <3>1 DEF Pending, Remaining, SqliteLocked, Elements
  <2>2. /\ pg \in [Keys -> Nat] /\ sqlite \in [Keys -> Nat] /\ image \in [Keys -> Nat]
        /\ seq \in Nat
        /\ \A k \in Keys : pg[k] <= seq /\ sqlite[k] <= seq /\ image[k] <= seq
    BY DEF SyncInv, TypeOK, NumbersInv
  <2>3. \A k \in Keys : sqlite'[k] <= seq + 1 /\ (sqlite'[k] = sqlite[k] \/ sqlite'[k] = seq + 1)
    BY <1>4, <2>2
  <2>4. NumbersInv'
    <3>1. \A k \in Keys : pg[k] <= seq + 1 /\ image[k] <= seq + 1
      BY <2>2
    <3>2. QED
      BY <1>1, <1>4, <2>3, <3>1 DEF NumbersInv
  <2>5. LagIsKnown'
    <3>1. \A k \in Keys : sqlite'[k] < pg[k] => sqlite[k] < pg[k]
      BY <2>2, <2>3
    <3>2. QED
      BY <1>1, <2>1, <3>1 DEF SyncInv, LagIsKnown, Newest
  <2>6. OrderInv' /\ BatchInv' /\ NewestInv' /\ ImageInv' /\ FreshInv'
    <3>1. OrderInv'
      BY <1>1, <1>2 DEF SyncInv, OrderInv, Ordered, Before, SameHands
    <3>2. BatchInv'
      BY <1>1 DEF SyncInv, BatchInv, SqliteLocked
    <3>3. NewestInv'
      BY <1>1, <2>1 DEF SyncInv, NewestInv, Newest
    <3>4. ImageInv' /\ FreshInv'
      BY <1>4, <2>1 DEF ImageInv, FreshInv
    <3>5. QED
      BY <3>1, <3>2, <3>3, <3>4
  <2>7. QED
    BY <1>2, <2>4, <2>5, <2>6 DEF SyncInv
<1>5. QED
  BY <1>3, <1>4 DEF ExecSqliteDirect

-----------------------------------------------------------------------------
(***************************************************************************)
(* The worker takes writes over, in order, and runs them in order.         *)
(***************************************************************************)

\* The worker does not touch the threads, so neither what they hold.
LEMMA WorkerKeepsHands ==
  ASSUME HandsInv, UNCHANGED <<writerVars, pg>>
  PROVE  HandsInv' /\ SameHands /\ {Held(w) : w \in InHand}' = {Held(w) : w \in InHand}
BY DEF HandsInv, InFlight, InHand, SameHands, writerVars, Held

LEMMA TakeBatchStep ==
  ASSUME SyncInv, TakeBatch, TypeOK'
  PROVE  SyncInv'
<1>1. /\ worker = "wait" /\ worker' = "write" /\ UNCHANGED writerVars
      /\ UNCHANGED <<done, image, sqlite, pg, seq, missed, direct>>
  BY DEF TakeBatch, history
<1>2. /\ queue \in Seq(Writes) /\ queue' \in Seq(Writes) /\ batch' \in Seq(Writes)
      /\ batch = << >> /\ done = 0
  BY <1>1 DEF SyncInv, TypeOK, BatchInv, SqliteLocked
<1>3. PICK n \in 1 .. Len(queue) :
           /\ Len(batch') = n /\ Len(queue') = Len(queue) - n
           /\ \A i \in 1 .. n : batch'[i] = queue[i]
           /\ \A i \in 1 .. Len(queue) - n : queue'[i] = queue[n + i]
  BY <1>2, Taken
<1>4. /\ Len(queue) \in Nat /\ DOMAIN queue = 1 .. Len(queue)
      /\ DOMAIN batch' = 1 .. n /\ DOMAIN queue' = 1 .. Len(queue) - n
      /\ DOMAIN batch = {} /\ n \in Nat
  BY <1>2, <1>3, LenProperties
<1>5. /\ \A i \in DOMAIN batch' : i \in DOMAIN queue /\ i <= n /\ batch'[i] = queue[i]
      /\ \A i \in DOMAIN queue' : n + i \in DOMAIN queue /\ queue'[i] = queue[n + i]
  <2>1. \A i \in DOMAIN queue' : n + i \in 1 .. Len(queue)
    BY <1>4
  <2>2. \A i \in DOMAIN batch' : i \in 1 .. Len(queue) /\ i <= n
    BY <1>4
  <2>3. QED
    BY <1>3, <1>4, <2>1, <2>2
<1>6. \A i \in DOMAIN queue : \/ i \in DOMAIN batch' /\ batch'[i] = queue[i]
                              \/ i - n \in DOMAIN queue' /\ queue'[i - n] = queue[i]
  <2>1. TAKE i \in DOMAIN queue
  <2>2. CASE i <= n
    BY <1>3, <1>4, <2>2
  <2>3. CASE i > n
    <3>1. i - n \in 1 .. Len(queue) - n /\ n + (i - n) = i
      BY <1>4, <2>3
    <3>2. QED
      BY <1>3, <1>4, <3>1
  <2>4. QED
    BY <1>4, <2>2, <2>3
<1>7. HandsInv' /\ SameHands /\ {Held(w) : w \in InHand}' = {Held(w) : w \in InHand}
  BY <1>1, WorkerKeepsHands DEF SyncInv
<1>8. Remaining \subseteq Remaining' /\ Pending \subseteq Pending'
  <2>1. done' + 1 .. Len(batch') = DOMAIN batch'
    BY <1>1, <1>2, <1>3, <1>4
  <2>2. Elements(queue) \subseteq Elements(queue)' \cup Elements(batch)'
    BY <1>6 DEF Elements
  <2>3. done + 1 .. Len(batch) = {}
    BY <1>2
  <2>4. QED
    BY <1>4, <1>7, <2>1, <2>2, <2>3 DEF Remaining, Pending, Elements
<1>9. NumbersInv'
  BY <1>1 DEF SyncInv, NumbersInv
<1>10. OrderInv'
  <2>1. Ordered(queue') /\ Ordered(batch') /\ Before(batch', queue')
    <3>1. Ordered(queue')
      <4>1. \A i, j \in DOMAIN queue' : i < j => n + i < n + j
        BY <1>4
      <4>2. QED
        BY <1>5, <4>1 DEF Ordered, SyncInv, OrderInv
    <3>2. Ordered(batch')
      BY <1>5 DEF Ordered, SyncInv, OrderInv
    <3>3. Before(batch', queue')
      <4>1. \A i \in DOMAIN batch', j \in DOMAIN queue' : i < n + j
        BY <1>4, <1>5
      <4>2. QED
        BY <1>5, <4>1 DEF Before, Ordered, SyncInv, OrderInv
    <3>4. QED
      BY <3>1, <3>2, <3>3
  <2>2. QED
    BY <1>1, <1>5, <1>7, <2>1 DEF SyncInv, OrderInv, SameHands
<1>11. BatchInv'
  BY <1>1, <1>2 DEF BatchInv
<1>12. NewestInv'
  <2>1. done' + 1 .. Len(batch') = DOMAIN batch'
    BY <1>1, <1>2, <1>3, <1>4
  <2>2. QED
    BY <1>1, <1>5, <1>8, <2>1 DEF SyncInv, NewestInv, Newest
<1>13. LagIsKnown'
  BY <1>1, <1>8 DEF SyncInv, LagIsKnown, Newest
<1>14. ImageInv'
  BY <1>1 DEF ImageInv, SqliteLocked
<1>15. FreshInv'
  BY <1>1, <1>5, <1>7 DEF SyncInv, FreshInv, SqliteLocked, SameHands
<1>16. QED
  BY <1>7, <1>9, <1>10, <1>11, <1>12, <1>13, <1>14, <1>15 DEF SyncInv

\* An open transaction starts from what SQLite holds.
LEMMA BeginStep ==
  ASSUME SyncInv, Begin, TypeOK'
  PROVE  SyncInv'
<1>1. /\ worker = "write" /\ worker' = "txn" /\ image' = sqlite
      /\ UNCHANGED writerVars
      /\ UNCHANGED <<queue, batch, done, sqlite, pg, seq, missed, direct>>
  BY DEF Begin, history
<1>2. done = 0
  BY <1>1 DEF SyncInv, BatchInv, SqliteLocked
<1>3. HandsInv' /\ SameHands /\ {Held(w) : w \in InHand}' = {Held(w) : w \in InHand}
  BY <1>1, WorkerKeepsHands DEF SyncInv
<1>4. /\ Remaining' = Remaining /\ Pending' = Pending /\ Pending = Remaining
      /\ done + 1 .. Len(batch) = DOMAIN batch
  <2>1. done + 1 .. Len(batch) = DOMAIN batch
    BY <1>2, LenProperties DEF SyncInv, TypeOK
  <2>2. QED
    BY <1>1, <1>3, <2>1 DEF Remaining, Pending, Elements
<1>5. NumbersInv' /\ OrderInv' /\ BatchInv'
  BY <1>1, <1>3 DEF SyncInv, NumbersInv, OrderInv, Ordered, Before, BatchInv,
                    SqliteLocked, SameHands
<1>6. NewestInv' /\ LagIsKnown'
  BY <1>1, <1>4 DEF SyncInv, NewestInv, LagIsKnown, Newest
<1>7. ImageInv'
  BY <1>1, <1>4 DEF SyncInv, LagIsKnown, ImageInv, Newest
<1>8. FreshInv'
  <2>1. \A k \in Keys : sqlite[k] <= image'[k]
    BY <1>1 DEF SyncInv, TypeOK
  <2>2. QED
    BY <1>1, <1>3, <1>4, <2>1 DEF SyncInv, FreshInv, SameHands
<1>9. QED
  BY <1>3, <1>5, <1>6, <1>7, <1>8 DEF SyncInv

\* A statement is run, or fails: its write is no longer to come.
LEMMA RunStatementStep ==
  ASSUME SyncInv, RunStatement, TypeOK'
  PROVE  SyncInv'
<1>1. /\ SqliteLocked /\ done < Len(batch) /\ done' = done + 1
      /\ UNCHANGED writerVars
      /\ UNCHANGED <<queue, worker, batch, sqlite, pg, seq, direct>>
  BY DEF RunStatement
<1>2. PICK t \in Writes : t = batch[done + 1] /\ done + 1 \in DOMAIN batch
  <2>1. done \in Nat /\ Len(batch) \in Nat /\ DOMAIN batch = 1 .. Len(batch)
    BY LenProperties DEF SyncInv, TypeOK
  <2>2. done + 1 \in DOMAIN batch
    BY <1>1, <2>1
  <2>3. batch[done + 1] \in Writes
    BY <2>2 DEF SyncInv, TypeOK
  <2>4. QED
    BY <2>2, <2>3
<1>3. \/ image' = [image EXCEPT ![t.key] = t.seq] /\ UNCHANGED missed
      \/ missed' = missed \cup {t} /\ UNCHANGED image
  BY <1>2 DEF RunStatement
<1>4. t.key \in Keys /\ t.seq \in Nat /\ t = [key |-> t.key, seq |-> t.seq]
  BY DEF Writes
<1>5. /\ done \in Nat /\ done + 1 \in done + 1 .. Len(batch)
      /\ done' + 1 .. Len(batch) \subseteq (done + 1 .. Len(batch)) \ {done + 1}
      /\ done + 1 .. Len(batch) \subseteq (done' + 1 .. Len(batch)) \cup {done + 1}
      /\ done + 1 .. Len(batch) \subseteq DOMAIN batch
      /\ \A i \in done' + 1 .. Len(batch) : done + 1 < i
  <2>1. done \in Nat /\ Len(batch) \in Nat /\ DOMAIN batch = 1 .. Len(batch)
    BY LenProperties DEF SyncInv, TypeOK
  <2>2. QED
    BY <1>1, <2>1
<1>6. HandsInv' /\ SameHands /\ {Held(w) : w \in InHand}' = {Held(w) : w \in InHand}
  BY <1>1, WorkerKeepsHands DEF SyncInv
<1>7. /\ Remaining \subseteq Remaining' \cup {t} /\ Pending' = Pending
      /\ SqliteLocked' = SqliteLocked /\ missed \subseteq missed'
  <2>1. {batch[i] : i \in done + 1 .. Len(batch)}
          \subseteq {batch[i] : i \in done' + 1 .. Len(batch)} \cup {t}
    BY <1>2, <1>5
  <2>2. Elements(queue)' = Elements(queue) /\ Elements(batch)' = Elements(batch)
    BY <1>1 DEF Elements
  <2>3. QED
    BY <1>1, <1>3, <1>6, <2>1, <2>2 DEF Remaining, Pending, SqliteLocked
\* Of the row of t, only newer writes are still to come.
<1>8. /\ \A i \in DOMAIN queue : queue[i].key = t.key => t.seq < queue[i].seq
      /\ \A i \in done' + 1 .. Len(batch) :
           batch[i].key = t.key => t.seq < batch[i].seq
      /\ \A w \in InHand : key[w] = t.key => t.seq < got[w]
      /\ t.seq <= pg[t.key]
  <2>1. \A i \in done' + 1 .. Len(batch) : i \in DOMAIN batch /\ done + 1 < i
    BY <1>5
  <2>2. QED
    BY <1>2, <2>1 DEF SyncInv, OrderInv, Ordered, Before
<1>9. \A k \in Keys : pg[k] \in Nat /\ sqlite[k] \in Nat /\ image[k] \in Nat
  BY DEF SyncInv, TypeOK
<1>10. NumbersInv'
  <2>1. t.seq <= seq
    <3>1. pg[t.key] <= seq /\ seq \in Nat
      BY <1>4 DEF SyncInv, NumbersInv, TypeOK
    <3>2. QED
      BY <1>4, <1>8, <1>9, <3>1
  <2>2. \A k \in Keys : image'[k] = image[k] \/ image'[k] = t.seq
    BY <1>3 DEF SyncInv, TypeOK
  <2>3. QED
    BY <1>1, <2>1, <2>2 DEF SyncInv, NumbersInv
<1>11. OrderInv'
  BY <1>1, <1>6 DEF SyncInv, OrderInv, Ordered, Before, SameHands
<1>12. BatchInv'
  BY <1>1, <1>7 DEF SyncInv, BatchInv
\* If t was the newest write of its row, no other of the row is left.
<1>13. ASSUME NEW e \in Writes, Newest(e.key) \in Remaining \cup missed,
              e.key = t.key => t.seq < e.seq, e.seq <= pg[e.key]
       PROVE  Newest(e.key)' \in Remaining' \cup missed'
  <2>1. Newest(e.key)' = Newest(e.key)
    BY <1>1 DEF Newest
  <2>2. CASE Newest(e.key) = t
    <3>1. e.key = t.key /\ pg[e.key] = t.seq
      BY <2>2 DEF Newest
    <3>2. e.seq \in Nat
      BY DEF Writes
    <3>3. QED
      BY <1>4, <1>13, <3>1, <3>2
  <2>3. CASE Newest(e.key) # t
    BY <1>7, <1>13, <2>1, <2>3
  <2>4. QED
    BY <2>2, <2>3
<1>14. NewestInv'
  <2>1. ASSUME NEW i \in DOMAIN queue
        PROVE  Newest(queue[i].key)' \in Remaining' \cup missed'
    <3>1. PICK e \in Writes : e = queue[i]
      BY DEF SyncInv, TypeOK
    <3>2. /\ Newest(e.key) \in Remaining \cup missed /\ e.seq <= pg[e.key]
          /\ e.key = t.key => t.seq < e.seq
      BY <1>8, <3>1 DEF SyncInv, NewestInv, OrderInv
    <3>3. Newest(e.key)' \in Remaining' \cup missed'
      BY <1>13, <3>2
    <3>4. QED
      BY <1>1, <3>1, <3>3 DEF Newest
  <2>2. ASSUME NEW i \in done' + 1 .. Len(batch)
        PROVE  Newest(batch[i].key)' \in Remaining' \cup missed'
    <3>1. PICK e \in Writes : e = batch[i] /\ i \in DOMAIN batch
                              /\ i \in done + 1 .. Len(batch)
      <4>1. i \in DOMAIN batch /\ i \in done + 1 .. Len(batch)
        BY <1>5
      <4>2. batch[i] \in Writes
        BY <4>1 DEF SyncInv, TypeOK
      <4>3. QED
        BY <4>1, <4>2
    <3>2. /\ Newest(e.key) \in Remaining \cup missed /\ e.seq <= pg[e.key]
          /\ e.key = t.key => t.seq < e.seq
      BY <1>8, <3>1 DEF SyncInv, NewestInv, OrderInv
    <3>3. Newest(e.key)' \in Remaining' \cup missed'
      BY <1>13, <3>2
    <3>4. QED
      BY <1>1, <3>1, <3>3 DEF Newest
  <2>3. QED
    BY <1>1, <2>1, <2>2 DEF NewestInv
<1>15. LagIsKnown'
  BY <1>1, <1>7 DEF SyncInv, LagIsKnown, Newest
<1>16. ImageInv'
  <2>1. SUFFICES ASSUME NEW k \in Keys, image'[k] < pg[k]
                 PROVE  Newest(k)' \in Remaining' \cup missed'
    BY <1>1 DEF ImageInv
  <2>2. Newest(k)' = Newest(k) /\ Newest(k) = [key |-> k, seq |-> pg[k]]
    BY <1>1 DEF Newest
  <2>3. CASE missed' = missed \cup {t} /\ UNCHANGED image
    BY <1>1, <1>7, <2>1, <2>2, <2>3 DEF SyncInv, ImageInv
  <2>4. CASE image' = [image EXCEPT ![t.key] = t.seq] /\ UNCHANGED missed
    <3>1. CASE k = t.key
      <4>1. image'[k] = t.seq
        BY <2>4, <3>1 DEF SyncInv, TypeOK
      <4>2. Newest(k) # t
        BY <1>4, <1>9, <2>1, <2>2, <4>1
      <4>3. Newest(k) \in Remaining \cup missed
        <5>1. Newest(batch[done + 1].key) \in Remaining \cup missed
          BY <1>5 DEF SyncInv, NewestInv
        <5>2. QED
          BY <1>2, <3>1, <5>1
      <4>4. QED
        BY <1>7, <2>2, <4>2, <4>3
    <3>2. CASE k # t.key
      <4>1. image'[k] = image[k]
        BY <2>4, <3>2 DEF SyncInv, TypeOK
      <4>2. Newest(k) \in Remaining \cup missed
        BY <1>1, <2>1, <4>1 DEF SyncInv, ImageInv
      <4>3. Newest(k) # t
        BY <2>2, <3>2
      <4>4. QED
        BY <1>7, <2>2, <4>2, <4>3
    <3>3. QED
      BY <3>1, <3>2
  <2>5. QED
    BY <1>3, <2>3, <2>4
<1>17. FreshInv'
  <2>1. SUFFICES ASSUME ~direct PROVE FreshInv'
    BY <1>1 DEF FreshInv
  <2>2. sqlite[t.key] < t.seq
    BY <1>2, <2>1 DEF SyncInv, FreshInv
  <2>3. \A k \in Keys : image'[k] = image[k] \/ (k = t.key /\ image'[k] = t.seq)
    BY <1>3 DEF SyncInv, TypeOK
  <2>4. /\ \A i \in DOMAIN queue : queue[i].key \in Keys
        /\ \A i \in DOMAIN batch : batch[i].key \in Keys
        /\ \A w \in InHand : key[w] \in Keys
    BY SeqNumbers DEF SyncInv, TypeOK, HandsInv, InHand
  <2>5. \A k \in Keys : sqlite[k] <= image'[k]
    BY <1>1, <1>4, <1>9, <2>1, <2>2, <2>3 DEF SyncInv, FreshInv
  <2>6. \A i \in DOMAIN queue : image'[queue[i].key] < queue[i].seq
    BY <1>1, <1>8, <2>1, <2>3, <2>4 DEF SyncInv, FreshInv
  <2>7. \A i \in done' + 1 .. Len(batch) : image'[batch[i].key] < batch[i].seq
    BY <1>1, <1>5, <1>8, <2>1, <2>3, <2>4 DEF SyncInv, FreshInv
  <2>8. \A w \in InHand : image'[key[w]] < got[w]
    BY <1>1, <1>8, <2>1, <2>3, <2>4 DEF SyncInv, FreshInv
  <2>9. /\ \A i \in DOMAIN queue : sqlite[queue[i].key] < queue[i].seq
        /\ \A i \in DOMAIN batch : sqlite[batch[i].key] < batch[i].seq
        /\ \A w \in InHand : sqlite[key[w]] < got[w]
    BY <2>1 DEF SyncInv, FreshInv
  <2>10. QED
    BY <1>1, <1>6, <2>5, <2>6, <2>7, <2>8, <2>9 DEF FreshInv, SameHands
<1>18. QED
  BY <1>6, <1>10, <1>11, <1>12, <1>14, <1>15, <1>16, <1>17 DEF SyncInv

\* COMMIT makes the image what SQLite holds; the batch is over.
LEMMA CommitStep ==
  ASSUME SyncInv, Commit, TypeOK'
  PROVE  SyncInv'
<1>1. /\ SqliteLocked /\ ~SqliteLocked' /\ done = Len(batch)
      /\ sqlite' = image /\ image' = Untouched /\ batch' = << >> /\ done' = 0
      /\ UNCHANGED writerVars
      /\ UNCHANGED <<queue, pg, seq, missed, direct>>
  BY DEF Commit, SqliteLocked, history
<1>2. HandsInv' /\ SameHands /\ {Held(w) : w \in InHand}' = {Held(w) : w \in InHand}
  BY <1>1, WorkerKeepsHands DEF SyncInv
<1>3. /\ Len(batch) \in Nat /\ done + 1 .. Len(batch) = {}
      /\ Len(batch') = 0 /\ DOMAIN batch' = {} /\ done' + 1 .. Len(batch') = {}
  BY <1>1 DEF SyncInv, TypeOK
<1>4. Remaining' = Remaining /\ Pending' = Remaining
  <2>1. Elements(queue)' = Elements(queue) /\ Elements(batch)' = {}
    BY <1>1, <1>3 DEF Elements
  <2>2. QED
    BY <1>2, <1>3, <2>1 DEF Remaining, Pending
<1>5. NumbersInv'
  <2>1. \A k \in Keys : Untouched[k] = 0 /\ seq \in Nat
    BY DEF Untouched, SyncInv, TypeOK
  <2>2. QED
    BY <1>1, <2>1 DEF SyncInv, NumbersInv
<1>6. OrderInv'
  BY <1>1, <1>2, <1>3 DEF SyncInv, OrderInv, Ordered, Before, SameHands
<1>7. BatchInv'
  BY <1>1 DEF BatchInv
<1>8. NewestInv'
  BY <1>1, <1>3, <1>4 DEF SyncInv, NewestInv, Newest
<1>9. LagIsKnown'
  BY <1>1, <1>4 DEF SyncInv, ImageInv, LagIsKnown, Newest
<1>10. ImageInv'
  BY <1>1 DEF ImageInv
<1>11. FreshInv'
  BY <1>1, <1>2, <1>3 DEF SyncInv, FreshInv, SameHands
<1>12. QED
  BY <1>2, <1>5, <1>6, <1>7, <1>8, <1>9, <1>10, <1>11 DEF SyncInv

\* drainSyncQueue: what is left becomes one last batch.
LEMMA DrainStep ==
  ASSUME SyncInv, DrainSyncQueue, TypeOK'
  PROVE  SyncInv'
<1>1. /\ worker = "exit" /\ UNCHANGED writerVars
      /\ UNCHANGED <<done, sqlite, pg, seq, missed, direct>>
  BY DEF DrainSyncQueue, history
<1>2. /\ batch = << >> /\ done = 0 /\ ~SqliteLocked /\ DOMAIN batch = {}
      /\ queue \in Seq(Writes)
  BY <1>1 DEF SyncInv, BatchInv, SqliteLocked, TypeOK
<1>3. HandsInv' /\ SameHands /\ {Held(w) : w \in InHand}' = {Held(w) : w \in InHand}
  BY <1>1, WorkerKeepsHands DEF SyncInv
<1>4. CASE queue = << >>
  <2>1. UNCHANGED Data /\ worker' = "off"
    BY <1>1, <1>4 DEF DrainSyncQueue, Data
  <2>2. SqliteLocked' = SqliteLocked /\ BatchInv'
    BY <1>2, <2>1 DEF SqliteLocked, BatchInv, Data
  <2>3. QED
    BY <1>3, <2>1, <2>2, StillPipe DEF SyncInv, PipeInv
<1>5. CASE queue # << >>
  <2>1. batch' = queue /\ queue' = << >> /\ image' = sqlite /\ worker' = "drain"
    BY <1>5 DEF DrainSyncQueue
  <2>2. /\ DOMAIN queue' = {} /\ done' + 1 .. Len(batch') = DOMAIN batch'
        /\ done + 1 .. Len(batch) = {} /\ SqliteLocked'
    <3>1. DOMAIN queue = 1 .. Len(queue)
      BY <1>2, LenProperties
    <3>2. QED
      BY <1>1, <1>2, <2>1, <3>1 DEF SqliteLocked
  <2>3. Remaining' = Remaining /\ Pending = Remaining /\ Pending' = Remaining
    <3>1. /\ Elements(queue)' = {} /\ Elements(batch)' = Elements(queue)
          /\ Elements(batch) = {}
      BY <1>2, <2>1, <2>2 DEF Elements
    <3>2. {batch[i] : i \in done + 1 .. Len(batch)}' = Elements(queue)
      BY <2>1, <2>2 DEF Elements
    <3>3. QED
      BY <1>3, <2>2, <3>1, <3>2 DEF Remaining, Pending
  <2>4. NumbersInv'
    BY <1>1, <2>1 DEF SyncInv, NumbersInv
  <2>5. OrderInv'
    BY <1>1, <1>3, <2>1, <2>2 DEF SyncInv, OrderInv, Ordered, Before, SameHands
  <2>6. BatchInv'
    BY <2>1, <2>2 DEF BatchInv
  <2>7. NewestInv'
    BY <1>1, <2>1, <2>2, <2>3 DEF SyncInv, NewestInv, Newest
  <2>8. LagIsKnown' /\ ImageInv'
    BY <1>1, <2>1, <2>3 DEF SyncInv, LagIsKnown, ImageInv, Newest
  <2>9. FreshInv'
    <3>1. \A k \in Keys : sqlite[k] <= image'[k]
      BY <2>1 DEF SyncInv, TypeOK
    <3>2. QED
      BY <1>1, <1>3, <2>1, <2>2, <3>1 DEF SyncInv, FreshInv, SameHands
  <2>10. QED
    BY <1>3, <2>4, <2>5, <2>6, <2>7, <2>8, <2>9 DEF SyncInv
<1>6. QED
  BY <1>4, <1>5

\* The flag goes down, or the loop is left: no write moves.
LEMMA StopStep ==
  ASSUME SyncInv, StopSyncWorker \/ LeaveLoop, TypeOK'
  PROVE  SyncInv'
<1>1. UNCHANGED Data /\ UNCHANGED writerVars /\ SqliteLocked' = SqliteLocked
  BY DEF StopSyncWorker, LeaveLoop, Data, workerVars, history, SqliteLocked
<1>2. HandsInv' /\ SameHands
  BY <1>1, WorkerKeepsHands DEF SyncInv, Data
<1>3. BatchInv'
  BY <1>1 DEF StopSyncWorker, LeaveLoop, workerVars, SyncInv, BatchInv, Data
<1>4. QED
  BY <1>1, <1>2, <1>3, StillPipe DEF SyncInv, PipeInv

\* A restart empties the pipeline: all that was in it is missed.
LEMMA RestartStep ==
  ASSUME SyncInv, Restart, TypeOK'
  PROVE  SyncInv'
<1>1. /\ InHand' = {} /\ InFlight' = {}
      /\ queue' = << >> /\ batch' = << >> /\ done' = 0 /\ image' = Untouched
      /\ missed' = missed \cup Pending /\ ~SqliteLocked'
      /\ UNCHANGED <<sqlite, pg, seq>> /\ \A w \in Writers : pc'[w] = "idle"
  BY DEF Restart, Connected, InHand, InFlight, SqliteLocked
<1>2. /\ DOMAIN queue' = {} /\ DOMAIN batch' = {} /\ Len(batch') = 0
      /\ done' + 1 .. Len(batch') = {}
  BY <1>1
<1>3. NumbersInv'
  <2>1. \A k \in Keys : Untouched[k] = 0 /\ seq \in Nat
    BY DEF Untouched, SyncInv, TypeOK
  <2>2. QED
    BY <1>1, <2>1 DEF SyncInv, NumbersInv
<1>4. HandsInv' /\ OrderInv' /\ BatchInv' /\ NewestInv'
  BY <1>1, <1>2 DEF HandsInv, OrderInv, Ordered, Before, BatchInv, NewestInv
<1>5. LagIsKnown'
  BY <1>1 DEF SyncInv, LagIsKnown, Newest
<1>6. ImageInv' /\ FreshInv'
  BY <1>1, <1>2 DEF ImageInv, FreshInv
<1>7. QED
  BY <1>3, <1>4, <1>5, <1>6 DEF SyncInv

-----------------------------------------------------------------------------
(***************************************************************************)
(* The theorems.                                                           *)
(***************************************************************************)
LEMMA SyncInit == ASSUME Init PROVE SyncInv
<1>1. /\ InHand = {} /\ InFlight = {} /\ queue = << >> /\ batch = << >> /\ done = 0
      /\ Len(batch) = 0 /\ ~SqliteLocked
      /\ \A k \in Keys : Untouched[k] = 0
  BY DEF Init, InHand, InFlight, Connected, SqliteLocked, Untouched
<1>2. TypeOK
  <2>1. /\ backend \in Backends /\ running \in BOOLEAN
        /\ worker \in {"none", "wait"}
    BY DEF Init, Connected
  <2>2. /\ pc \in [Writers -> Calls \cup {"idle"}] /\ got \in [Writers -> Nat]
        /\ key \in [Writers -> Keys \cup {NoRow}]
    BY DEF Init
  <2>3. /\ image \in [Keys -> Nat] /\ sqlite \in [Keys -> Nat]
        /\ pg \in [Keys -> Nat]
    BY DEF Init, Untouched
  <2>4. queue \in Seq(Writes) /\ batch \in Seq(Writes) /\ done \in 0 .. Len(batch)
    BY <1>1
  <2>5. /\ failCount \in Nat /\ seq \in Nat /\ missed \subseteq Writes
        /\ direct \in BOOLEAN /\ atStop \subseteq Writes
    BY DEF Init
  <2>6. QED
    BY <2>1, <2>2, <2>3, <2>4, <2>5 DEF TypeOK
<1>3. HandsInv /\ OrderInv /\ BatchInv /\ NewestInv
  BY <1>1 DEF Init, HandsInv, OrderInv, Ordered, Before, BatchInv, NewestInv
<1>4. NumbersInv /\ LagIsKnown /\ ImageInv /\ FreshInv
  BY <1>1 DEF Init, NumbersInv, LagIsKnown, ImageInv, FreshInv
<1>5. QED
  BY <1>2, <1>3, <1>4 DEF SyncInv

LEMMA SyncStep ==
  ASSUME Exclusive, SyncInv, [Next]_vars
  PROVE  SyncInv'
<1>1. CASE Next
  <2>0. TypeOK'
    BY <1>1, TypeStep DEF SyncInv, HandsInv
  <2>1. ASSUME NEW w \in Writers, NEW k \in Keys, Start(w, k) PROVE SyncInv'
    BY <2>0, <2>1, StartStep
  <2>2. ASSUME NEW w \in Writers, Writer(w) PROVE SyncInv'
    <3>1. CASE DriverExec(w) \/ LibpqExec(w)
      BY <2>0, <3>1, AcceptedStep DEF DriverExec, LibpqExec
    <3>2. CASE DriverFails(w) \/ LibpqFails(w)
      BY <2>0, <3>2, FailedStep
    <3>3. CASE Reset(w)
      BY <2>0, <3>3, ResetStep
    <3>4. CASE SyncToSqlite(w)
      BY <2>0, <3>4, SyncToSqliteStep
    <3>5. CASE ExecSqliteDirect(w)
      BY <2>0, <3>5, DirectStep
    <3>6. CASE LoadFailCount(w) \/ StoreFailCount(w) \/ Reconnect(w)
      BY <2>0, <3>6, FailureStep
    <3>7. QED
      BY <2>2, <3>1, <3>2, <3>3, <3>4, <3>5, <3>6 DEF Writer
  <2>3. CASE Worker
    BY <2>0, <2>3, TakeBatchStep, BeginStep, RunStatementStep, CommitStep,
       StopStep, DrainStep
    DEF Worker
  <2>4. CASE StopSyncWorker
    BY <2>0, <2>4, StopStep
  <2>5. CASE Crash \/ Exit
    BY <2>0, <2>5, RestartStep DEF Crash, Exit
  <2>6. QED
    BY <1>1, <2>1, <2>2, <2>3, <2>4, <2>5 DEF Next
<1>2. CASE UNCHANGED vars
  <2>1. /\ UNCHANGED Data /\ UNCHANGED writerVars /\ SqliteLocked' = SqliteLocked
        /\ UNCHANGED <<worker, backend, failCount, running, atStop>>
    BY <1>2 DEF vars, Data, workerVars, history, SqliteLocked
  <2>2. TypeOK'
    BY <2>1 DEF SyncInv, TypeOK, Data, writerVars
  <2>3. HandsInv' /\ SameHands
    BY <2>1, WorkerKeepsHands DEF SyncInv, Data
  <2>4. BatchInv'
    BY <2>1 DEF SyncInv, BatchInv, Data
  <2>5. QED
    BY <2>1, <2>2, <2>3, <2>4, StillPipe DEF SyncInv, PipeInv
<1>3. QED
  BY <1>1, <1>2

\* The invariant holds of every run in which no two handlers write one row at
\* a time (PayDb::exec, the worker and onDriverFailure in any interleaving).
THEOREM SyncInvariant ==
  ASSUME Exclusive
  PROVE  Spec => []SyncInv
<1>1. Init => SyncInv
  BY SyncInit
<1>2. SyncInv /\ [Next]_vars => SyncInv'
  BY SyncStep
<1>3. QED
  BY <1>1, <1>2, PTL DEF Spec

\* SQLite is behind PostgreSQL in a row only while the row's newest write is on
\* its way, or because that write was dropped, failed or lost.
THEOREM LagIsAlwaysKnown ==
  ASSUME Exclusive
  PROVE  Spec => []LagIsKnown
<1>1. SyncInv => LagIsKnown
  BY DEF SyncInv
<1>2. QED
  BY <1>1, SyncInvariant, PTL

\* The worker never replaces a value of SQLite by an older one, as long as no
\* statement has gone to SQLite directly.
THEOREM ReplicaNeverGoesBack ==
  ASSUME Exclusive
  PROVE  Spec => NeverGoesBack
<1>1. ASSUME SyncInv, [Next]_vars, ~direct
      PROVE  \A k \in Keys : sqlite'[k] >= sqlite[k]
  <2>1. \A k \in Keys : sqlite[k] \in Nat /\ image[k] \in Nat /\ sqlite[k] <= seq
        /\ seq \in Nat
    BY <1>1 DEF SyncInv, TypeOK, NumbersInv
  <2>2. CASE sqlite' = sqlite
    BY <2>1, <2>2
  <2>3. CASE Commit
    BY <1>1, <2>1, <2>3 DEF Commit, SyncInv, FreshInv
  <2>4. ASSUME NEW w \in Writers, ExecSqliteDirect(w)
        PROVE  \A k \in Keys : sqlite'[k] >= sqlite[k]
    <3>1. sqlite' = sqlite \/ sqlite' = [sqlite EXCEPT ![key[w]] = seq + 1]
      BY <2>4 DEF ExecSqliteDirect
    <3>2. sqlite \in [Keys -> Nat]
      BY <1>1 DEF SyncInv, TypeOK
    <3>3. QED
      BY <2>1, <3>1, <3>2
  <2>5. QED
    <3>1. \/ sqlite' = sqlite \/ Commit
          \/ \E w \in Writers : ExecSqliteDirect(w)
      BY <1>1 DEF Next, Writer, Worker, Start, DriverExec, LibpqExec, Accepted,
         DriverFails, LibpqFails, Failed, Reset, SyncToSqlite, LoadFailCount,
         StoreFailCount, Reconnect, TakeBatch, Begin, RunStatement,
         StopSyncWorker, LeaveLoop, DrainSyncQueue, Crash, Exit, Restart, vars
    <3>2. QED
      BY <2>2, <2>3, <2>4, <3>1
<1>2. SyncInv /\ [Next]_vars
        => [~direct => \A k \in Keys : sqlite'[k] >= sqlite[k]]_vars
  BY <1>1
<1>3. QED
  BY <1>2, SyncInvariant, PTL DEF Spec, NeverGoesBack
-----------------------------------------------------------------------------
(***************************************************************************)
(* Stopping: what waited when the worker was told to stop is not left, with *)
(* or without two handlers that write one row.  Each write PostgreSQL took  *)
(* is in one place only, so none that was waiting comes back from a hand.   *)
(***************************************************************************)
Waiting == Elements(queue) \cup Elements(batch) \cup atStop

OneWriteEach ==
  /\ \A w \in Writers : pc[w] # "idle" => key[w] \in Keys
  /\ \A x \in Waiting : x.seq <= seq
  /\ \A w \in InHand : got[w] <= seq /\ \A x \in Waiting : x.seq # got[w]
  /\ \A v, w \in InHand : got[v] = got[w] => v = w

StopInv ==
  /\ TypeOK /\ BatchInv /\ OneWriteEach
  /\ running => worker \in {"wait", "write", "txn"}
  /\ running \/ worker = "none" => atStop = {}
  /\ worker \in {"exit", "drain", "off"} => Elements(queue) \cap atStop = {}

LEMMA WaitingNumbers ==
  ASSUME TypeOK
  PROVE  /\ Waiting \subseteq Writes /\ seq \in Nat
         /\ \A x \in Waiting : x.seq \in Nat
         /\ \A w \in Writers : got[w] \in Nat
<1>1. Elements(queue) \subseteq Writes /\ Elements(batch) \subseteq Writes
  BY ElementsOf DEF TypeOK
<1>2. Waiting \subseteq Writes
  BY <1>1 DEF TypeOK, Waiting
<1>3. QED
  BY <1>2 DEF TypeOK, Writes

\* A step after which no write waits, and no thread holds one, that did not before.
LEMMA NothingComesBack ==
  ASSUME StopInv, TypeOK', BatchInv',
         \A w \in Writers : pc'[w] # "idle" => key'[w] \in Keys,
         InHand' \subseteq InHand, \A w \in InHand' : got'[w] = got[w],
         seq' >= seq, Waiting' \subseteq Waiting,
         running' => running /\ worker' \in {"wait", "write", "txn"},
         atStop' = atStop, worker' = "none" => worker = "none",
         worker' \in {"exit", "drain", "off"} =>
           \/ worker \in {"exit", "drain", "off"} /\ Elements(queue)' \subseteq Elements(queue)
           \/ Elements(queue)' = {}
  PROVE  StopInv'
<1>1. /\ seq \in Nat /\ seq' \in Nat /\ \A x \in Waiting : x.seq \in Nat
      /\ \A w \in Writers : got[w] \in Nat
  BY WaitingNumbers DEF StopInv, TypeOK
<1>2. \A x \in Waiting' : x.seq <= seq'
  BY <1>1 DEF StopInv, OneWriteEach
<1>3. \A w \in InHand' : got'[w] <= seq' /\ \A x \in Waiting' : x.seq # got'[w]
  BY <1>1 DEF StopInv, OneWriteEach, InHand
<1>4. \A v, w \in InHand' : got'[v] = got'[w] => v = w
  BY DEF StopInv, OneWriteEach
<1>5. OneWriteEach'
  BY <1>2, <1>3, <1>4 DEF OneWriteEach
<1>6. running' \/ worker' = "none" => atStop' = {}
  BY DEF StopInv
<1>7. worker' \in {"exit", "drain", "off"} => Elements(queue)' \cap atStop' = {}
  BY DEF StopInv
<1>8. QED
  BY <1>5, <1>6, <1>7 DEF StopInv

\* The pipeline is left alone but for a number that grows.
LEMMA ThreadMoves ==
  ASSUME StopInv, TypeOK',
         \A w \in Writers : pc'[w] # "idle" => key'[w] \in Keys,
         InHand' \subseteq InHand, \A w \in InHand' : got'[w] = got[w], seq' >= seq,
         UNCHANGED <<queue, batch, done, worker, running, atStop>>
  PROVE  StopInv'
<1>1. BatchInv'
  BY DEF StopInv, BatchInv, SqliteLocked
<1>2. Waiting' = Waiting /\ Elements(queue)' = Elements(queue)
  BY DEF Waiting, Elements
<1>3. QED
  BY <1>1, <1>2, NothingComesBack DEF StopInv

LEMMA StopInvStart ==
  ASSUME StopInv, TypeOK', NEW w \in Writers, NEW k \in Keys, Start(w, k)
  PROVE  StopInv'
<1>1. pc[w] = "idle" /\ pc'[w] \notin {"idle", "reset", "sync"} /\ key'[w] = k
  BY DEF Start, StopInv, TypeOK, Backends
<1>2. \A v \in Writers \ {w} : pc'[v] = pc[v] /\ key'[v] = key[v]
  BY DEF Start, StopInv, TypeOK
<1>3. InHand' \subseteq InHand
  BY <1>1, <1>2 DEF InHand
<1>4. /\ got' = got /\ seq' = seq
      /\ UNCHANGED <<queue, batch, done, worker, running, atStop>>
  BY DEF Start, workerVars, history
<1>5. \A v \in Writers : pc'[v] # "idle" => key'[v] \in Keys
  BY <1>1, <1>2 DEF StopInv, OneWriteEach
<1>6. QED
  <2>1. seq' >= seq /\ \A v \in InHand' : got'[v] = got[v]
    BY <1>4 DEF StopInv, TypeOK
  <2>2. QED
    BY <1>3, <1>4, <1>5, <2>1, ThreadMoves

\* A write of w that has just been accepted has a number nothing else has.
LEMMA StopInvAccepted ==
  ASSUME StopInv, TypeOK', NEW w \in Writers, NEW from \in {"driver", "libpq"},
         NEW to \in {"reset", "sync"}, Accepted(w, from, to)
  PROVE  StopInv'
<1>1. /\ pc[w] = from /\ seq' = seq + 1
      /\ pc'[w] = to /\ got'[w] = seq + 1 /\ key' = key
      /\ \A v \in Writers \ {w} : pc'[v] = pc[v] /\ got'[v] = got[v]
      /\ UNCHANGED <<queue, batch, done, worker, running, atStop>>
  BY DEF Accepted, Accept, workerVars, history, StopInv, TypeOK
<1>2. /\ seq \in Nat /\ \A x \in Waiting : x.seq \in Nat
      /\ \A v \in Writers : got[v] \in Nat
  BY WaitingNumbers DEF StopInv
<1>3. Waiting' = Waiting /\ Elements(queue)' = Elements(queue)
  BY <1>1 DEF Waiting, Elements
<1>4. \A v \in InHand' : v = w \/ v \in InHand
  BY <1>1 DEF InHand
<1>5. \A v \in Writers : pc'[v] # "idle" => key'[v] \in Keys
  BY <1>1 DEF StopInv, OneWriteEach
<1>6. \A x \in Waiting' : x.seq <= seq'
  BY <1>1, <1>2, <1>3 DEF StopInv, OneWriteEach
<1>7. \A v \in InHand' : got'[v] <= seq' /\ \A x \in Waiting' : x.seq # got'[v]
  <2> SUFFICES ASSUME NEW v \in InHand'
               PROVE  got'[v] <= seq' /\ \A x \in Waiting' : x.seq # got'[v]
    OBVIOUS
  <2>1. CASE v = w
    BY <1>1, <1>2, <1>3, <2>1 DEF StopInv, OneWriteEach
  <2>2. CASE v # w
    BY <1>1, <1>2, <1>3, <1>4, <2>2 DEF StopInv, OneWriteEach, InHand
  <2>3. QED
    BY <2>1, <2>2
<1>8. \A u, v \in InHand' : got'[u] = got'[v] => u = v
  <2>1. \A v \in InHand : v # w => got'[v] = got[v] /\ got[v] <= seq /\ got[v] \in Nat
    BY <1>1, <1>2 DEF StopInv, OneWriteEach, InHand
  <2>2. \A v \in InHand' : v # w => got'[v] # seq + 1 /\ v \in InHand
    BY <1>2, <1>4, <2>1
  <2>3. QED
    BY <1>1, <2>1, <2>2 DEF StopInv, OneWriteEach
<1>9. OneWriteEach'
  BY <1>5, <1>6, <1>7, <1>8 DEF OneWriteEach
<1>10. BatchInv'
  BY <1>1 DEF StopInv, BatchInv, SqliteLocked
<1>11. QED
  BY <1>1, <1>3, <1>9, <1>10 DEF StopInv

\* The write leaves the hand for the queue; what a full queue loses is gone.
LEMMA StopInvQueued ==
  ASSUME StopInv, TypeOK', NEW w \in Writers, SyncToSqlite(w)
  PROVE  StopInv'
<1>1. /\ pc[w] = "sync" /\ pc'[w] = "idle" /\ worker # "drain"
      /\ \A v \in Writers \ {w} : pc'[v] = pc[v] /\ got'[v] = got[v] /\ key'[v] = key[v]
      /\ UNCHANGED <<batch, done, worker, running, atStop, seq>>
  BY DEF SyncToSqlite, Return, workerVars, StopInv, TypeOK
<1>2. w \in InHand /\ InHand' = InHand \ {w}
  BY <1>1 DEF InHand
<1>3. Elements(queue') \subseteq Elements(queue) \cup {Held(w)}
  <2>1. PICK kept : /\ kept = IF Len(queue) >= QueueLimit THEN Tail(queue) ELSE queue
                    /\ queue' = Append(kept, Held(w))
    BY DEF SyncToSqlite
  <2>2. queue \in Seq(Writes) /\ Held(w) \in Writes
    BY <1>1 DEF StopInv, OneWriteEach, TypeOK, Held, Writes
  <2>3. kept \in Seq(Writes) /\ \A i \in DOMAIN kept : kept[i] \in Elements(queue)
    <3>1. CASE Len(queue) >= QueueLimit
      <4>1. queue # << >>
        BY <2>2, <3>1
      <4>2. /\ Tail(queue) \in Seq(Writes) /\ Len(Tail(queue)) = Len(queue) - 1
            /\ \A i \in 1 .. Len(Tail(queue)) : Tail(queue)[i] = queue[i + 1]
        BY <2>2, <4>1, HeadTailProperties
      <4>3. \A i \in 1 .. Len(Tail(queue)) : i + 1 \in DOMAIN queue
        BY <2>2, <4>2
      <4>4. QED
        BY <2>1, <3>1, <4>2, <4>3 DEF Elements
    <3>2. CASE ~(Len(queue) >= QueueLimit)
      BY <2>1, <2>2, <3>2 DEF Elements
    <3>3. QED
      BY <3>1, <3>2
  <2>4. /\ DOMAIN queue' = 1 .. Len(kept) + 1
        /\ \A i \in 1 .. Len(kept) : queue'[i] = kept[i]
        /\ queue'[Len(kept) + 1] = Held(w)
    BY <2>1, <2>2, <2>3, AppendProperties
  <2>5. \A i \in DOMAIN queue' : i \in DOMAIN kept \/ i = Len(kept) + 1
    BY <2>3, <2>4
  <2>6. QED
    BY <2>3, <2>4, <2>5 DEF Elements
<1>4. Elements(queue)' = Elements(queue') /\ Elements(batch)' = Elements(batch)
  BY <1>1 DEF Elements
<1>5. Waiting' \subseteq Waiting \cup {Held(w)} /\ Held(w).seq = got[w]
  BY <1>1, <1>3, <1>4 DEF Waiting, Held
<1>6. OneWriteEach'
  <2>1. \A v \in Writers : pc'[v] # "idle" => key'[v] \in Keys
    BY <1>1 DEF StopInv, OneWriteEach
  <2>2. \A x \in Waiting' : x.seq <= seq'
    BY <1>1, <1>2, <1>5 DEF StopInv, OneWriteEach
  <2>3. \A v \in InHand' : v \in InHand /\ v # w /\ got'[v] = got[v]
    BY <1>1, <1>2 DEF InHand
  <2>4. \A v \in InHand' : got'[v] <= seq' /\ \A x \in Waiting' : x.seq # got'[v]
    BY <1>1, <1>2, <1>5, <2>3 DEF StopInv, OneWriteEach
  <2>5. \A u, v \in InHand' : got'[u] = got'[v] => u = v
    BY <2>3 DEF StopInv, OneWriteEach
  <2>6. QED
    BY <2>1, <2>2, <2>4, <2>5 DEF OneWriteEach
<1>7. Held(w) \notin atStop
  BY <1>2, <1>5 DEF StopInv, OneWriteEach, Waiting
<1>8. worker' \in {"exit", "drain", "off"} => Elements(queue)' \cap atStop' = {}
  BY <1>1, <1>3, <1>4, <1>7 DEF StopInv
<1>9. BatchInv'
  BY <1>1 DEF StopInv, BatchInv, SqliteLocked
<1>10. QED
  BY <1>1, <1>6, <1>8, <1>9 DEF StopInv

LEMMA StopInvWriter ==
  ASSUME StopInv, TypeOK', NEW w \in Writers, Writer(w)
  PROVE  StopInv'
<1>1. CASE DriverExec(w) \/ LibpqExec(w)
  BY <1>1, StopInvAccepted DEF DriverExec, LibpqExec
<1>2. CASE SyncToSqlite(w)
  BY <1>2, StopInvQueued
<1>3. CASE Reset(w)
  <2>1. /\ pc[w] = "reset" /\ pc' = [pc EXCEPT ![w] = "sync"]
        /\ UNCHANGED <<key, got, seq, queue, batch, done, worker, running, atStop>>
    BY <1>3 DEF Reset, workerVars, history
  <2>2. InHand' \subseteq InHand /\ \A v \in Writers : pc'[v] # "idle" => key'[v] \in Keys
    BY <2>1 DEF InHand, StopInv, TypeOK, OneWriteEach
  <2>3. seq' >= seq /\ \A v \in InHand' : got'[v] = got[v]
    BY <2>1 DEF StopInv, TypeOK
  <2>4. QED
    BY <2>1, <2>2, <2>3, ThreadMoves
<1>4. CASE DriverFails(w) \/ LibpqFails(w) \/ ExecSqliteDirect(w) \/ LoadFailCount(w)
             \/ StoreFailCount(w) \/ Reconnect(w)
  <2>1. /\ pc[w] \notin {"idle", "reset", "sync"}
        /\ UNCHANGED <<queue, batch, done, worker, running, atStop>>
    BY <1>4 DEF DriverFails, LibpqFails, Failed, ExecSqliteDirect, LoadFailCount,
         StoreFailCount, Reconnect, workerVars, history
  <2>2. seq' = seq \/ seq' = seq + 1
    BY <1>4 DEF DriverFails, LibpqFails, Failed, Accept, ExecSqliteDirect, LoadFailCount,
         StoreFailCount, Reconnect
  <2>3. \/ pc' = [pc EXCEPT ![w] = "load"] /\ UNCHANGED <<key, got>>
        \/ pc' = [pc EXCEPT ![w] = "store"] /\ UNCHANGED key /\ \E n \in Nat : got' = [got EXCEPT ![w] = n]
        \/ pc' = [pc EXCEPT ![w] = "reconnect"] /\ UNCHANGED <<key, got>>
        \/ Return(w)
    BY <1>4 DEF DriverFails, LibpqFails, ExecSqliteDirect, LoadFailCount,
         StoreFailCount, Reconnect, StopInv, TypeOK
  <2>4. /\ pc'[w] \notin {"reset", "sync"}
        /\ pc'[w] # "idle" => key'[w] = key[w]
        /\ \A v \in Writers \ {w} : pc'[v] = pc[v] /\ got'[v] = got[v] /\ key'[v] = key[v]
    BY <2>3 DEF Return, StopInv, TypeOK
  <2>5. /\ InHand' \subseteq InHand /\ \A v \in InHand' : got'[v] = got[v]
    BY <2>4 DEF InHand
  <2>6. \A v \in Writers : pc'[v] # "idle" => key'[v] \in Keys
    BY <2>1, <2>4 DEF StopInv, OneWriteEach
  <2>7. seq' >= seq
    BY <2>2 DEF StopInv, TypeOK
  <2>8. QED
    BY <2>1, <2>5, <2>6, <2>7, ThreadMoves
<1>5. QED
  BY <1>1, <1>2, <1>3, <1>4 DEF Writer

LEMMA StopInvTake ==
  ASSUME StopInv, TypeOK', TakeBatch
  PROVE  StopInv'
<1>1. PICK n \in 1 .. Len(queue) :
        /\ batch' \in Seq(Writes) /\ queue' \in Seq(Writes)
        /\ Len(batch') = n /\ Len(queue') = Len(queue) - n
        /\ \A i \in 1 .. n : batch'[i] = queue[i]
        /\ \A i \in 1 .. Len(queue) - n : queue'[i] = queue[n + i]
  BY Taken DEF StopInv, TypeOK
<1>2. DOMAIN queue = 1 .. Len(queue) /\ Len(queue) \in Nat
  BY DEF StopInv, TypeOK
<1>3. Elements(batch)' \subseteq Elements(queue) /\ Elements(queue)' \subseteq Elements(queue)
  <2>1. \A i \in DOMAIN batch' : batch'[i] = queue[i] /\ i \in DOMAIN queue
    BY <1>1, <1>2
  <2>2. \A i \in DOMAIN queue' : queue'[i] = queue[n + i] /\ n + i \in DOMAIN queue
    BY <1>1, <1>2
  <2>3. QED
    BY <2>1, <2>2 DEF Elements
<1>4. /\ worker = "wait" /\ worker' = "write"
      /\ UNCHANGED <<pc, key, got, running, done, seq, atStop>>
  BY DEF TakeBatch, writerVars, history
<1>5. Waiting' \subseteq Waiting
  BY <1>3, <1>4 DEF Waiting
<1>6. BatchInv'
  BY <1>4 DEF StopInv, BatchInv, SqliteLocked
<1>7. InHand' = InHand /\ \A w \in Writers : pc'[w] # "idle" => key'[w] \in Keys
  BY <1>4 DEF InHand, StopInv, OneWriteEach
<1>8. QED
  BY <1>4, <1>5, <1>6, <1>7, NothingComesBack DEF StopInv, TypeOK

LEMMA StopInvWorker ==
  ASSUME StopInv, TypeOK', Begin \/ RunStatement \/ Commit \/ LeaveLoop \/ DrainSyncQueue
  PROVE  StopInv'
<1>1. /\ UNCHANGED <<pc, key, got, running, seq, atStop>>
      /\ worker # "none" /\ worker' # "none"
  BY DEF Begin, RunStatement, Commit, LeaveLoop, DrainSyncQueue, writerVars, history, SqliteLocked
<1>2. InHand' = InHand /\ \A w \in Writers : pc'[w] # "idle" => key'[w] \in Keys
  BY <1>1 DEF InHand, StopInv, OneWriteEach
<1>3. Elements(<< >>) = {}
  BY DEF Elements
<1>4. /\ BatchInv'
      /\ queue' = queue \/ (queue' = << >> /\ batch' = queue)
      /\ batch' = batch \/ batch' = << >> \/ batch' = queue
      /\ running => worker' \in {"wait", "write", "txn"}
      /\ worker' \in {"exit", "drain", "off"} =>
           \/ worker \in {"exit", "drain", "off"}
           \/ queue' = << >>
  <2>1. CASE Begin
    BY <2>1 DEF Begin, StopInv, BatchInv, SqliteLocked
  <2>2. CASE RunStatement
    BY <2>2 DEF RunStatement, StopInv, BatchInv, SqliteLocked
  <2>3. CASE Commit
    BY <2>3 DEF Commit, StopInv, BatchInv, SqliteLocked
  <2>4. CASE LeaveLoop
    BY <2>4 DEF LeaveLoop, StopInv, BatchInv, SqliteLocked
  <2>5. CASE DrainSyncQueue
    BY <2>5 DEF DrainSyncQueue, StopInv, BatchInv, SqliteLocked
  <2>6. QED
    BY <2>1, <2>2, <2>3, <2>4, <2>5
<1>5. /\ Elements(queue)' = Elements(queue') /\ Elements(batch)' = Elements(batch')
  BY DEF Elements
<1>6. Elements(queue') \subseteq Elements(queue) /\ Elements(batch') \subseteq Elements(queue) \cup Elements(batch)
  BY <1>3, <1>4
<1>7. Waiting' \subseteq Waiting
  BY <1>1, <1>5, <1>6 DEF Waiting
<1>8. seq' >= seq
  BY <1>1 DEF StopInv, TypeOK
<1>9. running' => running /\ worker' \in {"wait", "write", "txn"}
  BY <1>1, <1>4
<1>10. worker' \in {"exit", "drain", "off"} =>
           \/ worker \in {"exit", "drain", "off"} /\ Elements(queue)' \subseteq Elements(queue)
           \/ Elements(queue)' = {}
  BY <1>3, <1>4, <1>5, <1>6
<1>11. QED
  BY <1>1, <1>2, <1>4, <1>7, <1>8, <1>9, <1>10, NothingComesBack

LEMMA StopInvStop ==
  ASSUME StopInv, TypeOK', StopSyncWorker
  PROVE  StopInv'
<1>1. /\ running /\ ~running' /\ atStop' = Elements(queue) \cup Elements(batch)
      /\ UNCHANGED <<pc, key, got, queue, worker, batch, done, seq>>
  BY DEF StopSyncWorker, writerVars, workerVars
<1>2. Waiting' \subseteq Waiting
  BY <1>1 DEF Waiting, Elements
<1>3. InHand' = InHand
  BY <1>1 DEF InHand
<1>4. OneWriteEach'
  BY <1>1, <1>2, <1>3 DEF StopInv, OneWriteEach
<1>5. BatchInv'
  BY <1>1 DEF StopInv, BatchInv, SqliteLocked
<1>6. QED
  BY <1>1, <1>4, <1>5 DEF StopInv

LEMMA StopInvRestart ==
  ASSUME TypeOK', Restart
  PROVE  StopInv'
<1>1. /\ \A w \in Writers : pc'[w] = "idle"
      /\ queue' = << >> /\ batch' = << >> /\ done' = 0 /\ atStop' = {}
      /\ worker' = (IF running' THEN "wait" ELSE "none")
  BY DEF Restart, Connected
<1>2. InHand' = {} /\ Waiting' = {}
  BY <1>1 DEF InHand, Waiting, Elements
<1>3. OneWriteEach' /\ BatchInv'
  BY <1>1, <1>2 DEF OneWriteEach, BatchInv
<1>4. QED
  BY <1>1, <1>3 DEF StopInv

LEMMA StopInvInit == ASSUME Init PROVE StopInv
<1>1. /\ \A w \in Writers : pc[w] = "idle"
      /\ queue = << >> /\ batch = << >> /\ done = 0 /\ atStop = {}
      /\ worker = (IF running THEN "wait" ELSE "none")
  BY DEF Init, Connected
<1>2. TypeOK
  BY SyncInit DEF SyncInv
<1>3. InHand = {} /\ Waiting = {}
  BY <1>1 DEF InHand, Waiting, Elements
<1>4. OneWriteEach /\ BatchInv
  BY <1>1, <1>3 DEF OneWriteEach, BatchInv
<1>5. QED
  BY <1>1, <1>2, <1>4 DEF StopInv

LEMMA StopInvStep ==
  ASSUME StopInv, [Next]_vars
  PROVE  StopInv'
<1>1. CASE Next
  <2>1. TypeOK'
    BY <1>1, TypeStep DEF StopInv, OneWriteEach
  <2>2. CASE \E w \in Writers, k \in Keys : Start(w, k)
    BY <2>1, <2>2, StopInvStart
  <2>3. CASE \E w \in Writers : Writer(w)
    BY <2>1, <2>3, StopInvWriter
  <2>4. CASE Worker
    BY <2>1, <2>4, StopInvTake, StopInvWorker DEF Worker
  <2>5. CASE StopSyncWorker
    BY <2>1, <2>5, StopInvStop
  <2>6. CASE Crash \/ Exit
    BY <2>1, <2>6, StopInvRestart DEF Crash, Exit
  <2>7. QED
    BY <1>1, <2>2, <2>3, <2>4, <2>5, <2>6 DEF Next
<1>2. CASE UNCHANGED vars
  <2>1. UNCHANGED <<backend, failCount, pc, key, got, queue, running, worker, batch, done,
                    image, sqlite, pg, seq, missed, direct, atStop>>
    BY <1>2 DEF vars, writerVars, workerVars, history
  <2>2. TypeOK'
    BY <2>1 DEF StopInv, TypeOK
  <2>3. InHand' = InHand /\ \A w \in Writers : pc'[w] # "idle" => key'[w] \in Keys
    BY <2>1 DEF InHand, StopInv, OneWriteEach
  <2>4. QED
    BY <2>1, <2>2, <2>3, ThreadMoves DEF StopInv, TypeOK
<1>3. QED
  BY <1>1, <1>2

\* A destructor that has joined the worker leaves nothing of what was queued or in a
\* batch when it told the worker to stop, whatever the threads still inside exec add
\* meanwhile, and even where two handlers write one row.
THEOREM StopLosesNothing == Spec => []StopDrains
<1>1. StopInv => StopDrains
  <2> SUFFICES ASSUME StopInv, worker = "off" PROVE Pending \cap atStop = {}
    BY DEF StopDrains
  <2>1. batch = << >> /\ Elements(queue) \cap atStop = {}
    BY DEF StopInv, BatchInv
  <2>2. Elements(batch) = {}
    BY <2>1 DEF Elements
  <2>3. \A w \in InHand : Held(w) \notin atStop
    BY DEF StopInv, OneWriteEach, Waiting, Held
  <2>4. QED
    BY <2>1, <2>2, <2>3 DEF Pending
<1>2. Init => StopInv
  BY StopInvInit
<1>3. StopInv /\ [Next]_vars => StopInv'
  BY StopInvStep
<1>4. QED
  BY <1>1, <1>2, <1>3, PTL DEF Spec
=============================================================================
