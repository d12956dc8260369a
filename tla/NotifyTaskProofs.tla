-------------------------- MODULE NotifyTaskProofs --------------------------
(***************************************************************************)
(* Theorems about NotifyTask, for every number of orders, threads, calls   *)
(* and restarts: a notification is given up only after MAX_RETRY failed    *)
(* calls, as long as nobody uses OpsCtrl's retry (which counts an attempt  *)
(* nobody made), and the timer never has two calls for one task out, as    *)
(* long as a call and a pass end before next_retry_at comes round.         *)
(***************************************************************************)
EXTENDS NotifyTask, TLAPS

\* The empty table satisfies the invariant.
LEMMA InitRetryInv == Init => RetryInv
BY NotifyAssumption DEF Init, RetryInv, TypeOK, RowsCovered, HandlersCovered, BatchCovered,
   SendsCovered, Exists, NothingSelected

\* A call that leaves with a retry_cnt the failures cover keeps the calls covered.
LEMMA SendTaskKeeps ==
  ASSUME RetryInv, NEW o \in Orders, NEW retry \in Nat, NEW b \in BOOLEAN,
         SendTask(o, retry, b), Exists(o), Failed(o, retry)
  PROVE  /\ sends' \in [Slots -> Send \cup {NoSend}]
         /\ \A s \in Slots : sends'[s] # NoSend => /\ sends'[s].order \in Orders
                                                  /\ Exists(sends'[s].order)
                                                  /\ Failed(sends'[s].order, sends'[s].retry)
BY DEF SendTask, RetryInv, TypeOK, SendsCovered, Send

\* A captured backoff is a number of ticks.
LEMMA BackoffType == \A n \in Nat : backoffSeconds(n) \in Nat
BY NotifyAssumption DEF backoffSeconds

\* A row that is written is a task again.
LEMMA RowIsTask ==
  ASSUME NEW st \in 0..2, NEW n \in Nat, NEW d \in Int
  PROVE  Row(st, n, d) \in Task /\ Row(st, n, d) # NoTask
BY NotifyAssumption DEF Row, Task, PENDING, SUCCESS, FAIL_MAX_RETRY

\* The columns of a row that is there have their types.
LEMMA Columns ==
  ASSUME TypeOK, NEW o \in Orders, Exists(o)
  PROVE  task[o].status \in 0..2 /\ task[o].retry \in Nat /\ task[o].due \in Int
BY DEF TypeOK, Exists, Task, PENDING, SUCCESS, FAIL_MAX_RETRY

\* Writing one row of the table keeps its type, and its other rows.
LEMMA WriteRow ==
  ASSUME TypeOK, NEW o \in Orders, NEW st \in 0..2, NEW n \in Nat, NEW d \in Int,
         task' = [task EXCEPT ![o] = Row(st, n, d)]
  PROVE  /\ task' \in [Orders -> Task \cup {NoTask}]
         /\ task'[o] # NoTask /\ task'[o].status = st /\ task'[o].retry = n
         /\ \A p \in Orders \ {o} : task'[p] = task[p]
         /\ \A p \in Orders : Exists(p) => Exists(p)'
BY RowIsTask DEF TypeOK, Exists, Row

\* What handlers, batch and calls have captured stays covered when tasks stay and
\* failures only grow.
LEMMA CapturedStayCovered ==
  ASSUME RetryInv,
         \A o \in Orders : Exists(o) => Exists(o)',
         \A o \in Orders : \A n \in Nat : Failed(o, n) => Failed(o, n)'
  PROVE  /\ UNCHANGED <<pc, cur, got>> => HandlersCovered'
         /\ UNCHANGED batch => BatchCovered'
         /\ UNCHANGED sends => SendsCovered'
BY DEF RetryInv, TypeOK, HandlersCovered, BatchCovered, SendsCovered, Send

\* UpdateUrl(o) keeps the invariant.
LEMMA UpdateUrlStep ==
  ASSUME RetryInv, NEW o \in Orders, UpdateUrl(o)
  PROVE  RetryInv'
<1> USE DEF RetryInv, UpdateUrl
<1>1. task[o].retry \in Nat /\ -MaxLate \in Int /\ PENDING \in 0..2
  BY Columns, NotifyAssumption DEF PENDING
<1>2. /\ task' \in [Orders -> Task \cup {NoTask}]
      /\ task'[o] # NoTask /\ task'[o].status = PENDING /\ task'[o].retry = task[o].retry
      /\ \A p \in Orders \ {o} : task'[p] = task[p]
      /\ \A p \in Orders : Exists(p) => Exists(p)'
  BY <1>1, WriteRow
<1>3. \A p \in Orders : \A n \in Nat : Failed(p, n) => Failed(p, n)'
  BY DEF Failed
<1>4. TypeOK'
  BY <1>2 DEF TypeOK
<1>5. RowsCovered'
  BY <1>2, <1>3 DEF RowsCovered, Exists, Failed, PENDING, FAIL_MAX_RETRY
<1>6. HandlersCovered' /\ BatchCovered' /\ SendsCovered'
  BY <1>2, <1>3, CapturedStayCovered
<1>7. QED
  BY <1>4, <1>5, <1>6

\* Create(t, o) keeps the invariant.
LEMMA CreateStep ==
  ASSUME RetryInv, NEW t \in Threads, NEW o \in Orders, Create(t, o)
  PROVE  RetryInv'
<1> USE DEF RetryInv, Create, Begin
<1>1. TypeOK'
  BY DEF TypeOK
<1>2. RowsCovered' /\ BatchCovered' /\ SendsCovered'
  BY DEF RowsCovered, BatchCovered, SendsCovered, Exists, Failed
<1>3. HandlersCovered'
  BY DEF TypeOK, HandlersCovered, Exists, Failed
<1>4. QED
  BY <1>1, <1>2, <1>3

\* RetryNow(t, o) keeps the invariant.
LEMMA RetryNowStep ==
  ASSUME RetryInv, NEW t \in Threads, NEW o \in Orders, RetryNow(t, o)
  PROVE  RetryInv'
<1> USE DEF RetryInv, RetryNow, Begin
<1>1. TypeOK'
  BY Columns DEF TypeOK
<1>2. RowsCovered' /\ BatchCovered' /\ SendsCovered'
  BY DEF RowsCovered, BatchCovered, SendsCovered, Exists, Failed
<1>3. HandlersCovered'
  BY DEF TypeOK, HandlersCovered, RowsCovered, Exists, Failed
<1>4. QED
  BY <1>1, <1>2, <1>3

\* CreateInsert(t) keeps the invariant.
LEMMA CreateInsertStep ==
  ASSUME RetryInv, NEW t \in Threads, CreateInsert(t)
  PROVE  RetryInv'
<1> USE DEF RetryInv, CreateInsert
<1>1. cur[t] \in Orders
  BY DEF HandlersCovered
<1>2. /\ task' \in [Orders -> Task \cup {NoTask}]
      /\ task'[cur[t]] # NoTask
      /\ \A p \in Orders : Exists(p) => task'[p] = task[p] /\ Exists(p)'
      /\ ~Exists(cur[t]) => /\ task'[cur[t]].status = PENDING
                            /\ task'[cur[t]].retry = 0
                            /\ \A p \in Orders \ {cur[t]} : task'[p] = task[p]
  <2>1. CASE Exists(cur[t])
    BY <1>1, <2>1 DEF TypeOK, Exists
  <2>2. CASE ~Exists(cur[t])
    <3>1. task' = [task EXCEPT ![cur[t]] = Row(PENDING, 0, 0)]
      BY <2>2
    <3>2. PENDING \in 0..2 /\ 0 \in Nat /\ 0 \in Int
      BY DEF PENDING
    <3> HIDE DEF CreateInsert
    <3>3. /\ task' \in [Orders -> Task \cup {NoTask}]
          /\ task'[cur[t]] # NoTask /\ task'[cur[t]].status = PENDING /\ task'[cur[t]].retry = 0
          /\ \A p \in Orders \ {cur[t]} : task'[p] = task[p]
          /\ \A p \in Orders : Exists(p) => Exists(p)'
      BY <1>1, <3>1, <3>2, WriteRow
    <3>4. QED
      BY <2>2, <3>3
  <2>3. QED
    BY <2>1, <2>2
<1>3. \A o \in Orders : \A n \in Nat : Failed(o, n) => Failed(o, n)'
  BY DEF Failed
<1>4. TypeOK'
  BY <1>2 DEF TypeOK
<1>5. RowsCovered'
  <2>1. CASE Exists(cur[t])
    BY <2>1 DEF RowsCovered, Exists, Failed
  <2>2. CASE ~Exists(cur[t])
    BY <1>1, <1>2, <2>2 DEF TypeOK, RowsCovered, Exists, Failed, PENDING, FAIL_MAX_RETRY
  <2>3. QED
    BY <2>1, <2>2
<1>6. HandlersCovered'
  BY <1>1, <1>2, <1>3 DEF TypeOK, HandlersCovered, Exists
<1>7. BatchCovered' /\ SendsCovered'
  BY <1>2, <1>3, CapturedStayCovered
<1>8. QED
  BY <1>4, <1>5, <1>6, <1>7

\* CreateSend(t) keeps the invariant.
LEMMA CreateSendStep ==
  ASSUME RetryInv, NEW t \in Threads, CreateSend(t)
  PROVE  RetryInv'
<1> USE DEF RetryInv, CreateSend
<1>1. /\ cur[t] \in Orders /\ Exists(cur[t])
      /\ task[cur[t]].retry \in Nat /\ Failed(cur[t], task[cur[t]].retry)
  <2>1. cur[t] \in Orders /\ Exists(cur[t])
    BY DEF HandlersCovered
  <2>2. QED
    BY <2>1, Columns DEF RowsCovered
<1>2. /\ sends' \in [Slots -> Send \cup {NoSend}]
      /\ \A s \in Slots : sends'[s] # NoSend => /\ sends'[s].order \in Orders
                                               /\ Exists(sends'[s].order)
                                               /\ Failed(sends'[s].order, sends'[s].retry)
  BY <1>1, SendTaskKeeps
<1>3. TypeOK'
  BY <1>2 DEF TypeOK
<1>4. RowsCovered' /\ BatchCovered'
  BY DEF RowsCovered, BatchCovered, Exists, Failed
<1>5. HandlersCovered'
  BY DEF TypeOK, HandlersCovered, Exists, Failed
<1>6. SendsCovered'
  BY <1>2 DEF SendsCovered, Exists, Failed
<1>7. QED
  BY <1>3, <1>4, <1>5, <1>6

\* RetryReset(t) keeps the invariant.
LEMMA RetryResetStep ==
  ASSUME RetryInv, NEW t \in Threads, RetryReset(t)
  PROVE  RetryInv'
<1> USE DEF RetryInv, RetryReset
<1>1. /\ cur[t] \in Orders /\ Exists(cur[t])
      /\ got[t] \in Nat /\ Failed(cur[t], got[t])
  BY DEF TypeOK, HandlersCovered
<1>2. /\ sends' \in [Slots -> Send \cup {NoSend}]
      /\ \A s \in Slots : sends'[s] # NoSend => /\ sends'[s].order \in Orders
                                               /\ Exists(sends'[s].order)
                                               /\ Failed(sends'[s].order, sends'[s].retry)
  BY <1>1, SendTaskKeeps
<1>3. task[cur[t]].retry \in Nat /\ PENDING \in 0..2 /\ 0 \in Int /\ TypeOK
  BY <1>1, Columns DEF PENDING
<1>4. /\ task' \in [Orders -> Task \cup {NoTask}]
      /\ task'[cur[t]] # NoTask /\ task'[cur[t]].status = PENDING
      /\ task'[cur[t]].retry = task[cur[t]].retry
      /\ \A p \in Orders \ {cur[t]} : task'[p] = task[p]
      /\ \A p \in Orders : Exists(p) => Exists(p)'
  <2> DEFINE o == cur[t]
             n == task[o].retry
  <2>1. o \in Orders /\ n \in Nat /\ task' = [task EXCEPT ![o] = Row(PENDING, n, 0)]
    BY <1>1, <1>3
  <2> HIDE DEF RetryReset, RetryInv, o, n
  <2>2. /\ task' \in [Orders -> Task \cup {NoTask}]
        /\ task'[o] # NoTask /\ task'[o].status = PENDING /\ task'[o].retry = n
        /\ \A p \in Orders \ {o} : task'[p] = task[p]
        /\ \A p \in Orders : Exists(p) => Exists(p)'
    BY <1>3, <2>1, WriteRow
  <2>3. QED
    BY <2>2 DEF o, n
<1>5. \A o \in Orders : \A n \in Nat : Failed(o, n) => Failed(o, n)'
  BY DEF Failed
<1>6. TypeOK'
  BY <1>2, <1>4 DEF TypeOK
<1>7. RowsCovered'
  BY <1>1, <1>4, <1>5 DEF RowsCovered, Exists, Failed, PENDING, FAIL_MAX_RETRY
<1>8. HandlersCovered'
  BY <1>4, <1>5 DEF TypeOK, HandlersCovered
<1>9. BatchCovered'
  BY <1>4, <1>5, CapturedStayCovered
<1>10. SendsCovered'
  BY <1>2, <1>4, <1>5 DEF SendsCovered, TypeOK, Send, Failed
<1>11. QED
  BY <1>6, <1>7, <1>8, <1>9, <1>10

\* ProcessPending keeps the invariant.
LEMMA ProcessPendingStep ==
  ASSUME RetryInv, ProcessPending
  PROVE  RetryInv'
<1> USE DEF RetryInv
<1>1. PICK S \in Selections : batch' = [o \in S |-> task[o].retry]
  BY DEF ProcessPending
<1>2. \A o \in S : o \in Orders /\ Exists(o) /\ task[o].retry \in Nat /\ Failed(o, task[o].retry)
  BY Columns DEF Selections, DueTasks, RowsCovered
<1>3. TypeOK'
  BY <1>1, <1>2 DEF ProcessPending, TypeOK
<1>4. BatchCovered'
  BY <1>1, <1>2 DEF ProcessPending, BatchCovered, Exists, Failed
<1>5. RowsCovered' /\ HandlersCovered' /\ SendsCovered'
  BY DEF ProcessPending, RowsCovered, HandlersCovered, SendsCovered, Exists, Failed
<1>6. QED
  BY <1>3, <1>4, <1>5

\* ProcessOne keeps the invariant.
LEMMA ProcessOneStep ==
  ASSUME RetryInv, ProcessOne
  PROVE  RetryInv'
<1> USE DEF RetryInv
<1>1. PICK o \in DOMAIN batch :
        /\ task' = IF task[o].due <= -late
                     THEN [task EXCEPT ![o] = Row(@.status, @.retry, Due(LockTime - late))]
                     ELSE task
        /\ SendTask(o, batch[o], TRUE)
        /\ batch' = Restrict(batch, DOMAIN batch \ {o})
        /\ late' = IF DOMAIN batch = {o} THEN 0 ELSE late
        /\ UNCHANGED <<pc, cur, got, failures, calls, crashes, operated>>
  BY DEF ProcessOne
<1>2. o \in Orders /\ Exists(o) /\ batch[o] \in Nat /\ Failed(o, batch[o])
  BY DEF TypeOK, BatchCovered
<1>3. /\ sends' \in [Slots -> Send \cup {NoSend}]
      /\ \A s \in Slots : sends'[s] # NoSend => /\ sends'[s].order \in Orders
                                               /\ Exists(sends'[s].order)
                                               /\ Failed(sends'[s].order, sends'[s].retry)
  BY <1>1, <1>2, SendTaskKeeps
<1>4. /\ task' \in [Orders -> Task \cup {NoTask}]
      /\ \A p \in Orders : Exists(p) => /\ Exists(p)'
                                        /\ task'[p].status = task[p].status
                                        /\ task'[p].retry = task[p].retry
      /\ \A p \in Orders : Exists(p)' => Exists(p)
  <2>1. CASE task[o].due <= -late
    <3>1. /\ task[o].status \in 0..2 /\ task[o].retry \in Nat
          /\ Due(LockTime - late) \in Int
      BY <1>2, Columns, NotifyAssumption DEF Due, TypeOK
    <3>2. task' = [task EXCEPT ![o] = Row(task[o].status, task[o].retry, Due(LockTime - late))]
      BY <1>1, <2>1
    <3>3. /\ task' \in [Orders -> Task \cup {NoTask}]
          /\ task'[o] # NoTask /\ task'[o].status = task[o].status /\ task'[o].retry = task[o].retry
          /\ \A p \in Orders \ {o} : task'[p] = task[p]
          /\ \A p \in Orders : Exists(p) => Exists(p)'
      BY <1>2, <3>1, <3>2, WriteRow
    <3>4. QED
      BY <1>2, <3>3 DEF Exists
  <2>2. CASE ~(task[o].due <= -late)
    BY <1>1, <2>2 DEF TypeOK, Exists
  <2>3. QED
    BY <2>1, <2>2
<1>5. \A p \in Orders : \A n \in Nat : Failed(p, n) => Failed(p, n)'
  BY <1>1 DEF Failed
<1>6. TypeOK'
  BY <1>1, <1>3, <1>4 DEF TypeOK, Restrict
<1>7. RowsCovered'
  BY <1>1, <1>4 DEF RowsCovered, Failed
<1>8. HandlersCovered'
  BY <1>1, <1>4, <1>5, CapturedStayCovered
<1>9. BatchCovered'
  BY <1>1, <1>4, <1>5 DEF TypeOK, BatchCovered, Restrict
<1>10. SendsCovered'
  BY <1>3, <1>4, <1>5 DEF SendsCovered, TypeOK, Send
<1>11. QED
  BY <1>6, <1>7, <1>8, <1>9, <1>10

\* ResultOk(s) keeps the invariant.
LEMMA ResultOkStep ==
  ASSUME RetryInv, NEW s \in Slots, ResultOk(s)
  PROVE  RetryInv'
<1> DEFINE o == sends[s].order
<1> USE DEF RetryInv
<1>1. o \in Orders /\ Exists(o)
  BY DEF ResultOk, TypeOK, SendsCovered, Send
<1>2. task' = [task EXCEPT ![o] = Row(SUCCESS, task[o].retry, task[o].due)]
  BY DEF ResultOk
<1>3. SUCCESS \in 0..2 /\ task[o].retry \in Nat /\ task[o].due \in Int
  BY <1>1, Columns DEF SUCCESS
<1> HIDE DEF o
<1>4. /\ task' \in [Orders -> Task \cup {NoTask}]
      /\ task'[o] # NoTask /\ task'[o].status = SUCCESS /\ task'[o].retry = task[o].retry
      /\ \A p \in Orders \ {o} : task'[p] = task[p]
      /\ \A p \in Orders : Exists(p) => Exists(p)'
  BY <1>1, <1>2, <1>3, WriteRow
<1>5. \A p \in Orders : \A n \in Nat : Failed(p, n) => Failed(p, n)'
  BY DEF ResultOk, Failed
<1>6. TypeOK'
  BY <1>4 DEF ResultOk, TypeOK
<1>7. RowsCovered'
  BY <1>1, <1>4 DEF ResultOk, RowsCovered, Exists, Failed, SUCCESS, FAIL_MAX_RETRY
<1>8. HandlersCovered' /\ BatchCovered'
  BY <1>4, <1>5, CapturedStayCovered DEF ResultOk
<1>9. SendsCovered'
  BY <1>4, <1>5 DEF ResultOk, TypeOK, Send, SendsCovered
<1>10. QED
  BY <1>6, <1>7, <1>8, <1>9

\* ResultFailed(s) keeps the invariant.
LEMMA ResultFailedStep ==
  ASSUME RetryInv, NEW s \in Slots, ResultFailed(s)
  PROVE  RetryInv'
<1> DEFINE o == sends[s].order
           newRetry == sends[s].retry + 1
           st == IF newRetry >= MaxRetry THEN FAIL_MAX_RETRY ELSE PENDING
           d == IF newRetry >= MaxRetry THEN task[o].due ELSE backoffSeconds(newRetry)
<1> USE DEF RetryInv
<1>1. o \in Orders /\ Exists(o) /\ newRetry \in Nat /\ Failed(o, sends[s].retry)
  BY DEF ResultFailed, TypeOK, SendsCovered, Send
<1>2. task' = [task EXCEPT ![o] = Row(st, newRetry, d)]
  BY DEF ResultFailed
<1>3. st \in 0..2 /\ d \in Int
  BY <1>1, Columns, BackoffType DEF FAIL_MAX_RETRY, PENDING
<1>4. /\ failures'[o] = IF failures[o] < MaxRetry THEN failures[o] + 1 ELSE failures[o]
      /\ failures' \in [Orders -> 0..MaxRetry]
      /\ \A p \in Orders \ {o} : failures'[p] = failures[p]
  BY <1>1, NotifyAssumption DEF ResultFailed, TypeOK
<1>5. st = FAIL_MAX_RETRY => newRetry >= MaxRetry
  BY DEF FAIL_MAX_RETRY, PENDING
<1>6. sends[s].retry \in Nat /\ newRetry = sends[s].retry + 1
  BY DEF ResultFailed, TypeOK, Send
<1> HIDE DEF o, newRetry, st, d
<1>7. /\ task' \in [Orders -> Task \cup {NoTask}]
      /\ task'[o] # NoTask /\ task'[o].status = st /\ task'[o].retry = newRetry
      /\ \A p \in Orders \ {o} : task'[p] = task[p]
      /\ \A p \in Orders : Exists(p) => Exists(p)'
  BY <1>1, <1>2, <1>3, WriteRow
<1>8. \A p \in Orders : \A n \in Nat : Failed(p, n) => Failed(p, n)'
  <2>1. ASSUME NEW n \in Nat, Failed(o, n)
        PROVE  n <= failures'[o] \/ failures'[o] = MaxRetry
    BY <1>1, <1>4, <2>1, NotifyAssumption DEF TypeOK, Failed
  <2>2. QED
    BY <1>4, <2>1 DEF Failed
<1>9. /\ newRetry <= failures'[o] \/ failures'[o] = MaxRetry
      /\ newRetry >= MaxRetry => failures'[o] = MaxRetry
  BY <1>1, <1>4, <1>6, NotifyAssumption DEF TypeOK, Failed
<1>10. TypeOK'
  BY <1>4, <1>7 DEF ResultFailed, TypeOK
<1>11. RowsCovered'
  BY <1>1, <1>4, <1>5, <1>7, <1>8, <1>9 DEF RowsCovered, Exists, Failed
<1>12. HandlersCovered' /\ BatchCovered'
  BY <1>7, <1>8, CapturedStayCovered DEF ResultFailed
<1>13. SendsCovered'
  BY <1>7, <1>8 DEF ResultFailed, TypeOK, Send, SendsCovered
<1>14. QED
  BY <1>10, <1>11, <1>12, <1>13

\* Tick keeps the invariant.
LEMMA TickStep ==
  ASSUME RetryInv, Tick
  PROVE  RetryInv'
<1> USE DEF RetryInv
<1>1. ASSUME NEW p \in Orders
      PROVE  /\ task'[p] \in Task \cup {NoTask}
             /\ Exists(p)' <=> Exists(p)
             /\ Exists(p) => /\ task'[p].status = task[p].status
                             /\ task'[p].retry = task[p].retry
  <2>1. CASE Exists(p)
    <3>1. task[p].status \in 0..2 /\ task[p].retry \in Nat /\ Due(task[p].due - 1) \in Int
      BY <2>1, Columns, NotifyAssumption DEF Due
    <3>2. task'[p] = Row(task[p].status, task[p].retry, Due(task[p].due - 1))
      BY <2>1 DEF Tick
    <3>3. QED
      BY <2>1, <3>1, <3>2, RowIsTask DEF Exists, Row
  <2>2. CASE ~Exists(p)
    BY <2>2 DEF Tick, Exists
  <2>3. QED
    BY <2>1, <2>2
<1>2. ASSUME NEW s \in Slots
      PROVE  /\ sends'[s] \in Send \cup {NoSend}
             /\ sends'[s] # NoSend => /\ sends[s] # NoSend
                                      /\ sends'[s].order = sends[s].order
                                      /\ sends'[s].retry = sends[s].retry
  BY DEF Tick, TypeOK, Send
<1>3. TypeOK'
  BY <1>1, <1>2 DEF Tick, TypeOK
<1>4. RowsCovered'
  BY <1>1 DEF Tick, RowsCovered, Failed
<1>5. \A p \in Orders : \A n \in Nat : Failed(p, n) => Failed(p, n)'
  BY DEF Tick, Failed
<1>6. HandlersCovered' /\ BatchCovered'
  BY <1>1, <1>5, CapturedStayCovered DEF Tick
<1>7. SendsCovered'
  BY <1>1, <1>2, <1>5 DEF TypeOK, Send, SendsCovered
<1>8. QED
  BY <1>3, <1>4, <1>6, <1>7

\* Crash keeps the invariant.
LEMMA CrashStep ==
  ASSUME RetryInv, Crash
  PROVE  RetryInv'
<1> USE DEF RetryInv, Crash
<1>1. TypeOK'
  BY DEF TypeOK, NothingSelected
<1>2. RowsCovered'
  BY DEF RowsCovered, Exists, Failed
<1>3. HandlersCovered' /\ BatchCovered' /\ SendsCovered'
  BY DEF HandlersCovered, BatchCovered, SendsCovered, NothingSelected
<1>4. QED
  BY <1>1, <1>2, <1>3

-----------------------------------------------------------------------------
\* Every step of the specification keeps the invariant.
LEMMA NextRetryInv ==
  ASSUME "ops" \notin Handlers, RetryInv, [Next]_vars
  PROVE  RetryInv'
<1>1. ASSUME NEW t \in Threads, Continue(t) \/ \E o \in Orders : Arrive(t, o)
      PROVE  RetryInv'
  BY <1>1, CreateStep, RetryNowStep, CreateInsertStep, CreateSendStep, RetryResetStep
     DEF Continue, Arrive
<1>2. ASSUME NEW o \in Orders, UpdateUrl(o)
      PROVE  RetryInv'
  BY <1>2, UpdateUrlStep
<1>3. CASE ProcessPending \/ ProcessOne
  BY <1>3, ProcessPendingStep, ProcessOneStep
<1>4. ASSUME NEW s \in Slots, Result(s)
      PROVE  RetryInv'
  BY <1>4, ResultOkStep, ResultFailedStep DEF Result
<1>5. CASE Tick \/ Crash
  BY <1>5, TickStep, CrashStep
<1>6. CASE UNCHANGED vars
  BY <1>6 DEF vars, RetryInv, TypeOK, RowsCovered, HandlersCovered, BatchCovered, SendsCovered,
     Exists, Failed
<1>7. QED
  BY <1>1, <1>2, <1>3, <1>4, <1>5, <1>6 DEF Next

\* RetryInv, and with it the type invariant, holds in every reachable state of a
\* system whose operators do not use OpsCtrl's retry.
THEOREM RetryInvHolds ==
  ASSUME "ops" \notin Handlers
  PROVE  Spec => []RetryInv
<1>1. RetryInv /\ [Next]_vars => RetryInv'
  BY NextRetryInv
<1>2. QED
  BY <1>1, InitRetryInv, PTL DEF Spec

\* A merchant is given up only after MAX_RETRY of the calls for the order have
\* failed, however many calls overlap and whatever is restarted in between.
THEOREM NotGivenUpEarly ==
  ASSUME "ops" \notin Handlers
  PROVE  Spec => []GivenUpAfterMaxFailures
<1>1. RetryInv => GivenUpAfterMaxFailures
  BY DEF RetryInv, RowsCovered, GivenUpAfterMaxFailures
<1>2. QED
  BY <1>1, RetryInvHolds, PTL

-----------------------------------------------------------------------------
(* The timer's calls.  As long as a call it made is out, next_retry_at lies so *)
(* far ahead that the call ends first, and the task is not in the batch.       *)

HandlersKnown ==
  \A t \in Threads :
    /\ pc[t] # "idle" => cur[t] \in Orders
    /\ pc[t] \in {"read", "reset"} => Exists(cur[t])
TasksKnown ==
  /\ \A o \in DOMAIN batch : Exists(o)
  /\ \A s \in Slots : sends[s] # NoSend => Exists(sends[s].order)
InTime == late <= MaxLate /\ \A s \in Slots : sends[s] # NoSend => sends[s].age <= SendTime

\* A call of the timer that no operator has asked to repeat
Watched(s) == sends[s] # NoSend /\ sends[s].byTimer /\ sends[s].order \notin operated
PutOff ==
  \A s \in Slots : Watched(s) =>
    task[sends[s].order].due + sends[s].age > SendTime /\ sends[s].order \notin DOMAIN batch

\* A task of the batch is as it was selected, or an answer has put it off since.
BatchDue ==
  \A o \in DOMAIN batch \ operated :
    task[o].due <= -late \/ task[o].due > SendTime + MaxLate - late

ApartInv == TypeOK /\ HandlersKnown /\ TasksKnown /\ InTime /\ PutOff /\ BatchDue /\ TimerCallsApart

LEMMA Times == /\ SendTime \in Nat /\ MaxLate \in Nat /\ LockTime \in Nat
               /\ \A o \in Orders : TypeOK /\ Exists(o) => task[o].due \in Int
               /\ \A s \in Slots : TypeOK /\ sends[s] # NoSend =>
                    sends[s].age \in Nat /\ sends[s].order \in Orders /\ sends[s].retry \in Nat
BY NotifyAssumption DEF TypeOK, Exists, Task, Send

\* The steps that leave the batch alone: no task that is nobody's business becomes
\* due earlier, and no call of the timer is added.
LEMMA CallsStay ==
  ASSUME ApartInv, TypeOK', HandlersKnown',
         \A o \in Orders : Exists(o) => Exists(o)',
         operated \subseteq operated',
         \A o \in Orders \ operated' :
           Exists(o) => task'[o].due = task[o].due \/ task'[o].due > SendTime + MaxLate,
         \A s \in Slots : sends'[s] # NoSend =>
           \/ sends'[s] = sends[s]
           \/ ~sends'[s].byTimer /\ sends'[s].age = 0 /\ Exists(sends[s].order)',
         batch' = batch, late' = late
  PROVE  ApartInv'
<1>1. TypeOK /\ DOMAIN batch \subseteq Orders /\ late \in Nat
  BY DEF ApartInv, TypeOK
<1>2. TasksKnown'
  <2>1. ASSUME NEW o \in DOMAIN batch' PROVE Exists(o)'
    BY <1>1 DEF ApartInv, TasksKnown
  <2>2. ASSUME NEW s \in Slots, sends'[s] # NoSend PROVE Exists(sends[s].order)'
    <3>1. CASE sends'[s] = sends[s]
      <4>1. PICK o : o = sends[s].order
        OBVIOUS
      <4>2. o \in Orders /\ Exists(o)
        BY <1>1, <2>2, <3>1, <4>1, Times DEF ApartInv, TasksKnown
      <4>3. Exists(o)'
        BY <4>2
      <4> QED
        BY <3>1, <4>1, <4>3 DEF Exists
    <3> QED
      BY <2>2, <3>1
  <2> QED
    BY <2>1, <2>2 DEF TasksKnown
<1>3. InTime'
  BY Times DEF ApartInv, InTime
<1>4. ASSUME NEW s \in Slots, Watched(s)' PROVE Watched(s) /\ sends'[s] = sends[s]
  BY <1>4 DEF Watched
<1>5. PutOff'
  <2> SUFFICES ASSUME NEW s \in Slots, Watched(s)'
               PROVE  /\ task'[sends'[s].order].due + sends'[s].age > SendTime
                      /\ sends'[s].order \notin DOMAIN batch'
    BY DEF PutOff
  <2>1. PICK o, a : o = sends[s].order /\ a = sends[s].age
    OBVIOUS
  <2>2. Watched(s) /\ sends'[s] = sends[s]
    BY <1>4
  <2>3. o \in Orders \ operated' /\ Exists(o) /\ a \in Nat /\ task[o].due \in Int
    BY <1>1, <2>1, <2>2, Times DEF Watched, ApartInv, TasksKnown
  <2>4. task[o].due + a > SendTime /\ o \notin DOMAIN batch
    BY <2>1, <2>2 DEF ApartInv, PutOff
  <2>5. task'[o].due \in Int
    <3>1. Exists(o)'
      BY <2>3
    <3> QED
      BY <2>3, <3>1 DEF TypeOK, Exists, Task
  <2>6. task'[o].due + a > SendTime
    BY <2>3, <2>4, <2>5, Times
  <2> QED
    BY <2>1, <2>2, <2>4, <2>6
<1>6. BatchDue'
  <2> SUFFICES ASSUME NEW o \in DOMAIN batch \ operated'
               PROVE  task'[o].due <= -late \/ task'[o].due > SendTime + MaxLate - late
    BY DEF BatchDue
  <2>1. o \in Orders \ operated' /\ o \notin operated /\ Exists(o)
    BY <1>1 DEF ApartInv, TasksKnown
  <2>2. task[o].due <= -late \/ task[o].due > SendTime + MaxLate - late
    BY <2>1 DEF ApartInv, BatchDue
  <2>3. task'[o].due \in Int
    BY <2>1 DEF TypeOK, Exists, Task
  <2> QED
    BY <1>1, <2>1, <2>2, <2>3, Times
<1>7. TimerCallsApart'
  <2> SUFFICES ASSUME NEW r \in Slots, NEW s \in Slots, r # s, sends'[r] # NoSend, sends'[s] # NoSend,
                      sends'[r].byTimer, sends'[s].byTimer, sends'[r].order = sends'[s].order
               PROVE  sends'[r].order \in operated'
    BY DEF TimerCallsApart
  <2>1. sends'[r] = sends[r] /\ sends'[s] = sends[s]
    OBVIOUS
  <2> QED
    BY <2>1 DEF ApartInv, TimerCallsApart
<1> QED
  BY <1>2, <1>3, <1>5, <1>6, <1>7 DEF ApartInv

\* A call leaves, in a slot that was free.
LEMMA CallLeaves ==
  ASSUME TypeOK, NEW o \in Orders, NEW retry \in Nat, NEW b \in BOOLEAN, SendTask(o, retry, b)
  PROVE  \E s \in Slots :
           /\ sends' \in [Slots -> Send \cup {NoSend}]
           /\ sends[s] = NoSend /\ sends'[s] # NoSend
           /\ sends'[s].order = o /\ sends'[s].age = 0 /\ sends'[s].byTimer = b
           /\ \A r \in Slots \ {s} : sends'[r] = sends[r]
<1>1. PICK call : call = [order |-> o, retry |-> retry, age |-> 0, byTimer |-> b]
  OBVIOUS
<1>2. call \in Send /\ call # NoSend /\ call.order = o /\ call.age = 0 /\ call.byTimer = b
  BY <1>1, NotifyAssumption DEF Send
<1>3. PICK s \in Slots : sends[s] = NoSend /\ sends' = [sends EXCEPT ![s] = call]
  BY <1>1 DEF SendTask
<1> QED
  BY <1>2, <1>3 DEF TypeOK

LEMMA ApartInit == Init => ApartInv
BY NotifyAssumption DEF Init, ApartInv, TypeOK, HandlersKnown, TasksKnown, InTime, PutOff, Watched, BatchDue,
   TimerCallsApart, NothingSelected, Exists

\* A handler looks at a task, or reads its retry_cnt.
LEMMA BeginApart ==
  ASSUME ApartInv, NEW t \in Threads, NEW o \in Orders, Create(t, o) \/ RetryNow(t, o)
  PROVE  ApartInv'
<1>1. /\ TypeOK /\ UNCHANGED <<task, sends, batch, late, failures, crashes, operated>>
      /\ calls' = calls + 1
      /\ got' = got \/ (Exists(o) /\ got' = [got EXCEPT ![t] = task[o].retry])
      /\ \E step \in {"read", "insert", "reset"} :
           /\ pc' = [pc EXCEPT ![t] = step] /\ cur' = [cur EXCEPT ![t] = o]
           /\ step # "insert" => Exists(o)
  BY DEF Create, RetryNow, Begin, ApartInv
<1>2. Exists(o) => task[o].retry \in Nat
  BY <1>1, Columns
<1>3. TypeOK'
  BY <1>1, <1>2 DEF TypeOK
<1>4. HandlersKnown'
  BY <1>1 DEF TypeOK, ApartInv, HandlersKnown, Exists
<1>5. \A q : Exists(q) => Exists(q)'
  BY <1>1 DEF Exists
<1> QED
  BY <1>1, <1>3, <1>4, <1>5, CallsStay

LEMMA CreateInsertApart ==
  ASSUME ApartInv, NEW t \in Threads, CreateInsert(t)
  PROVE  ApartInv'
<1>1. PICK o : o = cur[t]
  OBVIOUS
<1>2. /\ TypeOK /\ o \in Orders /\ pc' = [pc EXCEPT ![t] = "read"]
      /\ UNCHANGED <<sends, cur, got, batch, late, failures, calls, crashes, operated>>
  BY <1>1 DEF CreateInsert, ApartInv, HandlersKnown
<1>3. /\ task' \in [Orders -> Task \cup {NoTask}]
      /\ Exists(o)'
      /\ \A p \in Orders : Exists(p) => Exists(p)' /\ task'[p] = task[p]
  <2>1. CASE Exists(o)
    BY <1>1, <1>2, <2>1 DEF CreateInsert, TypeOK, Exists
  <2>2. CASE ~Exists(o)
    <3>1. task' = [task EXCEPT ![o] = Row(PENDING, 0, 0)]
      BY <1>1, <2>2 DEF CreateInsert
    <3>2. PENDING \in 0..2 /\ 0 \in Nat /\ 0 \in Int
      BY DEF PENDING
    <3>3. /\ task' \in [Orders -> Task \cup {NoTask}] /\ task'[o] # NoTask
          /\ \A p \in Orders \ {o} : task'[p] = task[p]
          /\ \A p \in Orders : Exists(p) => Exists(p)'
      BY <1>2, <3>1, <3>2, WriteRow
    <3> QED
      BY <2>2, <3>3 DEF Exists
  <2> QED
    BY <2>1, <2>2
<1>4. TypeOK'
  BY <1>2, <1>3 DEF TypeOK
<1>5. HandlersKnown'
  BY <1>1, <1>2, <1>3 DEF TypeOK, ApartInv, HandlersKnown
<1> QED
  BY <1>2, <1>3, <1>4, <1>5, CallsStay

LEMMA CreateSendApart ==
  ASSUME ApartInv, NEW t \in Threads, CreateSend(t)
  PROVE  ApartInv'
<1>1. PICK o : o = cur[t]
  OBVIOUS
<1>2. /\ TypeOK /\ o \in Orders /\ Exists(o) /\ SendTask(o, task[o].retry, FALSE)
      /\ pc' = [pc EXCEPT ![t] = "idle"] /\ cur' = [cur EXCEPT ![t] = NoOrder]
      /\ UNCHANGED <<task, got, batch, late, failures, calls, crashes, operated>>
  BY <1>1 DEF CreateSend, ApartInv, HandlersKnown
<1>3. task[o].retry \in Nat
  BY <1>2, Columns
<1>4. PICK s \in Slots :
        /\ sends' \in [Slots -> Send \cup {NoSend}]
        /\ sends[s] = NoSend /\ sends'[s] # NoSend
        /\ sends'[s].order = o /\ sends'[s].age = 0 /\ sends'[s].byTimer = FALSE
        /\ \A r \in Slots \ {s} : sends'[r] = sends[r]
  BY <1>2, <1>3, CallLeaves
<1>5. TypeOK'
  BY <1>2, <1>4 DEF TypeOK
<1>6. HandlersKnown'
  BY <1>2 DEF TypeOK, ApartInv, HandlersKnown, Exists
<1>7. \A q : Exists(q) => Exists(q)'
  BY <1>2 DEF Exists
<1>8. ASSUME NEW r \in Slots, sends'[r] # NoSend
      PROVE  \/ sends'[r] = sends[r]
             \/ ~sends'[r].byTimer /\ sends'[r].age = 0 /\ Exists(sends[r].order)'
  <2>1. CASE r = s
    BY <1>2, <1>4, <2>1 DEF Exists
  <2>2. CASE r # s
    BY <1>4, <2>2
  <2> QED
    BY <2>1, <2>2
<1> QED
  BY <1>2, <1>5, <1>6, <1>7, <1>8, CallsStay

\* Writing a row: WriteRow, and what next_retry_at is.
LEMMA WriteDue ==
  ASSUME TypeOK, NEW o \in Orders, Exists(o), NEW st \in 0..2, NEW n \in Nat, NEW d \in Int,
         task' = [task EXCEPT ![o] = Row(st, n, d)]
  PROVE  /\ task' \in [Orders -> Task \cup {NoTask}]
         /\ task'[o].due = d
         /\ \A p \in Orders \ {o} : task'[p] = task[p]
         /\ \A p \in Orders : Exists(p) <=> Exists(p)'
<1>1. /\ task' \in [Orders -> Task \cup {NoTask}] /\ task'[o] # NoTask
      /\ \A p \in Orders \ {o} : task'[p] = task[p]
      /\ \A p \in Orders : Exists(p) => Exists(p)'
  BY WriteRow
<1>2. task'[o].due = d
  BY DEF TypeOK, Row
<1>3. \A p \in Orders : Exists(p)' => Exists(p)
  BY <1>1 DEF Exists
<1> QED
  BY <1>1, <1>2, <1>3

\* An operator makes a task due: from then on its calls are no longer watched.
LEMMA OperatorApart ==
  ASSUME ApartInv, NEW o \in Orders, UpdateUrl(o) \/ OpsRetry(o)
  PROVE  ApartInv'
<1>1. /\ TypeOK /\ Exists(o) /\ calls' = calls + 1 /\ operated' = operated \cup {o}
      /\ UNCHANGED <<sends, pc, cur, got, batch, late, failures, crashes>>
  BY DEF UpdateUrl, OpsRetry, ApartInv
<1>2. task[o].retry \in Nat /\ PENDING \in 0..2 /\ -MaxLate \in Int /\ 0 \in Int
  BY <1>1, Columns, NotifyAssumption DEF PENDING
<1>3. PICK n \in Nat, d \in Int : task' = [task EXCEPT ![o] = Row(PENDING, n, d)]
  BY <1>2 DEF UpdateUrl, OpsRetry
<1>4. /\ task' \in [Orders -> Task \cup {NoTask}]
      /\ \A p \in Orders \ {o} : task'[p] = task[p]
      /\ \A p \in Orders : Exists(p) => Exists(p)'
  BY <1>1, <1>2, <1>3, WriteDue
<1>5. TypeOK'
  BY <1>1, <1>4 DEF TypeOK
<1>6. HandlersKnown'
  BY <1>1, <1>4 DEF TypeOK, ApartInv, HandlersKnown
<1> QED
  BY <1>1, <1>4, <1>5, <1>6, CallsStay

LEMMA RetryResetApart ==
  ASSUME ApartInv, NEW t \in Threads, RetryReset(t)
  PROVE  ApartInv'
<1>1. PICK o, n, m : o = cur[t] /\ n = got[t] /\ m = task[cur[t]].retry
  OBVIOUS
<1>2. /\ TypeOK /\ o \in Orders /\ Exists(o) /\ SendTask(o, n, FALSE) /\ n \in Nat
      /\ task' = [task EXCEPT ![o] = Row(PENDING, m, 0)]
      /\ pc' = [pc EXCEPT ![t] = "idle"] /\ cur' = [cur EXCEPT ![t] = NoOrder]
      /\ got' = [got EXCEPT ![t] = 0]
      /\ operated' = operated \cup {o}
      /\ UNCHANGED <<batch, late, failures, calls, crashes>>
  BY <1>1 DEF RetryReset, ApartInv, HandlersKnown, TypeOK
<1>3. m \in Nat /\ PENDING \in 0..2 /\ 0 \in Int
  BY <1>1, <1>2, Columns DEF PENDING
<1>4. PICK s \in Slots :
        /\ sends' \in [Slots -> Send \cup {NoSend}]
        /\ sends[s] = NoSend /\ sends'[s] # NoSend
        /\ sends'[s].order = o /\ sends'[s].age = 0 /\ sends'[s].byTimer = FALSE
        /\ \A r \in Slots \ {s} : sends'[r] = sends[r]
  BY <1>2, <1>3, CallLeaves
<1>5. /\ task' \in [Orders -> Task \cup {NoTask}]
      /\ \A p \in Orders \ {o} : task'[p] = task[p]
      /\ \A p \in Orders : Exists(p) => Exists(p)'
  BY <1>2, <1>3, WriteDue
<1>6. TypeOK'
  BY <1>2, <1>4, <1>5 DEF TypeOK
<1>7. HandlersKnown'
  BY <1>2, <1>5 DEF TypeOK, ApartInv, HandlersKnown
<1>8. ASSUME NEW r \in Slots, sends'[r] # NoSend
      PROVE  \/ sends'[r] = sends[r]
             \/ ~sends'[r].byTimer /\ sends'[r].age = 0 /\ Exists(sends[r].order)'
  <2>1. CASE r = s
    <3>1. Exists(o)'
      BY <1>2, <1>5
    <3> QED
      BY <1>4, <2>1, <3>1 DEF Exists
  <2>2. CASE r # s
    BY <1>4, <2>2
  <2> QED
    BY <2>1, <2>2
<1> QED
  BY <1>2, <1>5, <1>6, <1>7, <1>8, CallsStay

\* An answer: a success leaves next_retry_at alone, a failure puts it off.
LEMMA ResultApart ==
  ASSUME SpacedOut, ApartInv, NEW s \in Slots, Result(s)
  PROVE  ApartInv'
<1>1. PICK o : o = sends[s].order
  OBVIOUS
<1>2. /\ TypeOK /\ o \in Orders /\ Exists(o) /\ sends[s] # NoSend /\ sends[s].retry \in Nat
      /\ sends' = [sends EXCEPT ![s] = NoSend]
      /\ UNCHANGED <<pc, cur, got, batch, late, calls, crashes, operated>>
  BY <1>1, Times DEF Result, ResultOk, ResultFailed, ApartInv, TasksKnown
<1>3. task[o].retry \in Nat /\ task[o].due \in Int /\ SUCCESS \in 0..2 /\ PENDING \in 0..2 /\ FAIL_MAX_RETRY \in 0..2
  BY <1>2, Columns DEF SUCCESS, PENDING, FAIL_MAX_RETRY
<1>4. PICK m : m = sends[s].retry + 1
  OBVIOUS
<1>5. m \in Nat \ {0} /\ backoffSeconds(m) \in Int /\ backoffSeconds(m) > SendTime + MaxLate
  BY <1>2, <1>4, BackoffType DEF SpacedOut
<1>6. PICK st \in 0..2, n \in Nat, d \in Int :
        /\ task' = [task EXCEPT ![o] = Row(st, n, d)]
        /\ d = task[o].due \/ d > SendTime + MaxLate
  <2>1. CASE ResultOk(s)
    <3>1. task' = [task EXCEPT ![o] = Row(SUCCESS, task[o].retry, task[o].due)]
      BY <1>1, <2>1 DEF ResultOk
    <3> QED
      BY <1>3, <3>1
  <2>2. CASE ResultFailed(s)
    <3>1. \/ task' = [task EXCEPT ![o] = Row(FAIL_MAX_RETRY, m, task[o].due)]
          \/ task' = [task EXCEPT ![o] = Row(PENDING, m, backoffSeconds(m))]
      BY <1>1, <1>4, <2>2 DEF ResultFailed
    <3> QED
      BY <1>3, <1>5, <3>1
  <2> QED
    BY <2>1, <2>2 DEF Result
<1>7. /\ task' \in [Orders -> Task \cup {NoTask}]
      /\ task'[o].due = d
      /\ \A p \in Orders \ {o} : task'[p] = task[p]
      /\ \A p \in Orders : Exists(p) <=> Exists(p)'
  BY <1>2, <1>6, WriteDue
<1>8. failures' \in [Orders -> 0..MaxRetry]
  <2>1. CASE ResultOk(s)
    BY <1>2, <2>1 DEF ResultOk, TypeOK
  <2>2. CASE ResultFailed(s)
    <3>1. failures' = [failures EXCEPT ![o] = IF @ < MaxRetry THEN @ + 1 ELSE @]
      BY <1>1, <2>2 DEF ResultFailed
    <3> QED
      BY <1>2, <3>1, NotifyAssumption DEF TypeOK
  <2> QED
    BY <2>1, <2>2 DEF Result
<1>9. TypeOK'
  BY <1>2, <1>7, <1>8 DEF TypeOK
<1>10. HandlersKnown'
  BY <1>2, <1>7 DEF TypeOK, ApartInv, HandlersKnown
<1>11. \A r \in Slots : sends'[r] # NoSend => sends'[r] = sends[r]
  BY <1>2 DEF TypeOK
<1>12. \A p \in Orders : task'[p].due = task[p].due \/ task'[p].due > SendTime + MaxLate
  BY <1>6, <1>7
<1> QED
  BY <1>2, <1>7, <1>9, <1>10, <1>11, <1>12, CallsStay

\* The timer's SELECT: a task with one of its calls out is not due.
LEMMA ProcessPendingApart ==
  ASSUME ApartInv, ProcessPending
  PROVE  ApartInv'
<1>1. PICK S \in Selections : batch' = [o \in S |-> task[o].retry]
  BY DEF ProcessPending
<1>2. /\ TypeOK /\ late' = 0 /\ DOMAIN batch' = S
      /\ UNCHANGED <<task, sends, pc, cur, got, failures, calls, crashes, operated>>
  BY <1>1 DEF ProcessPending, ApartInv
<1>3. \A o \in S : o \in Orders /\ Exists(o) /\ task[o].retry \in Nat /\ task[o].due \in Int /\ task[o].due <= 0
  BY <1>2, Columns DEF Selections, DueTasks
<1>4. TypeOK'
  BY <1>1, <1>2, <1>3 DEF TypeOK
<1>5. HandlersKnown' /\ TasksKnown' /\ InTime' /\ TimerCallsApart'
  BY <1>2, <1>3, Times DEF ApartInv, HandlersKnown, TasksKnown, InTime, TimerCallsApart, Exists
<1>6. PutOff'
  <2> SUFFICES ASSUME NEW s \in Slots, Watched(s)'
               PROVE  task[sends[s].order].due + sends[s].age > SendTime /\ sends[s].order \notin S
    BY <1>2 DEF PutOff
  <2>1. PICK o, a : o = sends[s].order /\ a = sends[s].age
    OBVIOUS
  <2>2. Watched(s) /\ sends[s] # NoSend
    BY <1>2 DEF Watched
  <2>3. task[o].due + a > SendTime /\ a <= SendTime /\ a \in Nat
    BY <1>2, <2>1, <2>2, Times DEF ApartInv, PutOff, InTime
  <2>4. o \in S => FALSE
    BY <1>3, <2>3, Times
  <2> QED
    BY <2>1, <2>3, <2>4
<1>7. BatchDue'
  BY <1>2, <1>3 DEF BatchDue
<1> QED
  BY <1>4, <1>5, <1>6, <1>7 DEF ApartInv

\* The timer's UPDATE and call: next_retry_at is pushed back, or an answer has put
\* it off already; either way the call ends before it comes round.
LEMMA ProcessOneApart ==
  ASSUME SpacedOut, ApartInv, ProcessOne
  PROVE  ApartInv'
<1>1. PICK o \in DOMAIN batch :
        /\ task' = IF task[o].due <= -late
                     THEN [task EXCEPT ![o] = Row(@.status, @.retry, Due(LockTime - late))]
                     ELSE task
        /\ SendTask(o, batch[o], TRUE)
        /\ batch' = Restrict(batch, DOMAIN batch \ {o})
        /\ late' = IF DOMAIN batch = {o} THEN 0 ELSE late
        /\ UNCHANGED <<pc, cur, got, failures, calls, crashes, operated>>
  BY DEF ProcessOne
<1>2. /\ TypeOK /\ o \in Orders /\ Exists(o) /\ batch[o] \in Nat /\ DOMAIN batch \subseteq Orders
      /\ late \in Nat /\ late <= MaxLate
  BY DEF ApartInv, TasksKnown, TypeOK, InTime
<1>3. /\ task' \in [Orders -> Task \cup {NoTask}]
      /\ \A p \in Orders \ {o} : task'[p] = task[p]
      /\ \A p \in Orders : Exists(p) <=> Exists(p)'
      /\ o \notin operated => task'[o].due > SendTime
  <2>1. CASE task[o].due <= -late
    <3>1. PICK st, n, d : st = task[o].status /\ n = task[o].retry /\ d = Due(LockTime - late)
      OBVIOUS
    <3>2. st \in 0..2 /\ n \in Nat /\ d \in Int /\ d > SendTime
      <4>1. LockTime - late \in Int /\ LockTime - late > SendTime
        BY <1>2, Times DEF SpacedOut
      <4>2. d = LockTime - late
        BY <3>1, <4>1, Times DEF Due
      <4> QED
        BY <1>2, <3>1, <4>1, <4>2, Columns
    <3>3. task' = [task EXCEPT ![o] = Row(st, n, d)]
      BY <1>1, <2>1, <3>1
    <3>4. /\ task' \in [Orders -> Task \cup {NoTask}]
          /\ task'[o].due = d
          /\ \A p \in Orders \ {o} : task'[p] = task[p]
          /\ \A p \in Orders : Exists(p) <=> Exists(p)'
      BY <1>2, <3>2, <3>3, WriteDue
    <3> QED
      BY <3>2, <3>4
  <2>2. CASE ~(task[o].due <= -late)
    <3>1. task' = task
      BY <1>1, <2>2
    <3>2. o \notin operated => task[o].due > SendTime
      <4>1. o \notin operated => task[o].due > SendTime + MaxLate - late
        BY <1>2, <2>2 DEF ApartInv, BatchDue
      <4> QED
        BY <1>2, <4>1, Times
    <3> QED
      BY <1>2, <3>1, <3>2 DEF TypeOK, Exists
  <2> QED
    BY <2>1, <2>2
<1>4. PICK s \in Slots :
        /\ sends' \in [Slots -> Send \cup {NoSend}]
        /\ sends[s] = NoSend /\ sends'[s] # NoSend
        /\ sends'[s].order = o /\ sends'[s].age = 0 /\ sends'[s].byTimer = TRUE
        /\ \A r \in Slots \ {s} : sends'[r] = sends[r]
  <2>1. SendTask(o, batch[o], TRUE)
    BY <1>1
  <2> QED
    BY <1>2, <2>1, CallLeaves
<1>5. DOMAIN batch' = DOMAIN batch \ {o} /\ \A p \in DOMAIN batch' : batch'[p] = batch[p]
  BY <1>1 DEF Restrict
<1>6. late' \in Nat /\ (DOMAIN batch' = {} \/ late' = late) /\ late' <= MaxLate
  <2>1. CASE DOMAIN batch = {o}
    BY <1>1, <1>5, <2>1, Times
  <2>2. CASE DOMAIN batch # {o}
    BY <1>1, <1>2, <2>2
  <2> QED
    BY <2>1, <2>2
<1>7. UNCHANGED <<pc, cur, got, failures, calls, crashes, operated>>
  BY <1>1
<1>8. TypeOK'
  BY <1>2, <1>3, <1>4, <1>5, <1>6, <1>7 DEF TypeOK
<1>9. HandlersKnown'
  BY <1>3, <1>7 DEF TypeOK, ApartInv, HandlersKnown
<1>10. ASSUME NEW r \in Slots, sends'[r] # NoSend
       PROVE  sends'[r].order \in Orders /\ Exists(sends[r].order)'
  <2>1. CASE r = s
    <3>1. Exists(o)'
      BY <1>2, <1>3
    <3> QED
      BY <1>2, <1>4, <2>1, <3>1 DEF Exists
  <2>2. CASE r # s
    <3>1. PICK p : p = sends[r].order
      OBVIOUS
    <3>2. p \in Orders /\ Exists(p) /\ sends'[r] = sends[r]
      BY <1>2, <1>4, <1>10, <2>2, <3>1, Times DEF ApartInv, TasksKnown
    <3>3. Exists(p)'
      BY <1>3, <3>2
    <3> QED
      BY <3>1, <3>2, <3>3 DEF Exists
  <2> QED
    BY <2>1, <2>2
<1>11. TasksKnown'
  <2>1. \A p \in DOMAIN batch' : Exists(p)'
    BY <1>2, <1>3, <1>5 DEF ApartInv, TasksKnown
  <2> QED
    BY <1>10, <2>1 DEF TasksKnown
<1>12. InTime'
  <2>1. ASSUME NEW r \in Slots, sends'[r] # NoSend PROVE sends'[r].age <= SendTime
    <3>1. CASE r = s
      BY <1>4, <3>1, Times
    <3>2. CASE r # s
      BY <1>4, <2>1, <3>2 DEF ApartInv, InTime
    <3> QED
      BY <3>1, <3>2
  <2> QED
    BY <1>6, <2>1 DEF InTime
<1>13. ASSUME NEW r \in Slots, r # s, Watched(r)' PROVE Watched(r) /\ sends[r].order # o /\ sends'[r] = sends[r]
  <2>1. sends'[r] = sends[r] /\ Watched(r)
    BY <1>4, <1>7, <1>13 DEF Watched
  <2> QED
    BY <2>1 DEF ApartInv, PutOff
<1>14. PutOff'
  <2> SUFFICES ASSUME NEW r \in Slots, Watched(r)'
               PROVE  /\ task'[sends'[r].order].due + sends'[r].age > SendTime
                      /\ sends'[r].order \notin DOMAIN batch'
    BY DEF PutOff
  <2>1. CASE r = s
    <3>1. o \notin operated
      BY <1>4, <1>7, <2>1 DEF Watched
    <3>2. task'[o].due > SendTime /\ task'[o].due \in Int
      <4>1. Exists(o)'
        BY <1>2, <1>3
      <4> QED
        BY <1>2, <1>3, <3>1, <4>1 DEF Exists, Task
    <3>3. task'[o].due + 0 > SendTime
      BY <3>2, Times
    <3> QED
      BY <1>4, <1>5, <2>1, <3>3
  <2>2. CASE r # s
    <3>1. Watched(r) /\ sends[r].order # o /\ sends'[r] = sends[r]
      BY <1>13, <2>2
    <3>2. sends[r].order \in Orders
      BY <1>2, <3>1, Times DEF Watched
    <3>3. task'[sends[r].order] = task[sends[r].order]
      BY <1>3, <3>1, <3>2
    <3> QED
      BY <1>5, <3>1, <3>3 DEF ApartInv, PutOff
  <2> QED
    BY <2>1, <2>2
<1>15. BatchDue'
  <2> SUFFICES ASSUME NEW p \in DOMAIN batch' \ operated'
               PROVE  task'[p].due <= -late' \/ task'[p].due > SendTime + MaxLate - late'
    BY DEF BatchDue
  <2>1. p \in DOMAIN batch \ operated /\ task'[p] = task[p] /\ late' = late
    BY <1>2, <1>3, <1>5, <1>6, <1>7
  <2> QED
    BY <2>1 DEF ApartInv, BatchDue
<1>16. TimerCallsApart'
  <2> SUFFICES ASSUME NEW q \in Slots, NEW r \in Slots, q # r, sends'[q] # NoSend, sends'[r] # NoSend,
                      sends'[q].byTimer, sends'[r].byTimer, sends'[q].order = sends'[r].order,
                      sends'[q].order \notin operated'
               PROVE  FALSE
    BY DEF TimerCallsApart
  <2>1. Watched(q)' /\ Watched(r)'
    BY DEF Watched
  <2>2. CASE q = s
    <3>1. sends[r].order # o /\ sends'[r] = sends[r]
      BY <1>13, <2>1, <2>2
    <3> QED
      BY <1>4, <2>2, <3>1
  <2>3. CASE r = s
    <3>1. sends[q].order # o /\ sends'[q] = sends[q]
      BY <1>13, <2>1, <2>3
    <3> QED
      BY <1>4, <2>3, <3>1
  <2>4. CASE q # s /\ r # s
    <3>1. sends'[q] = sends[q] /\ sends'[r] = sends[r] /\ operated' = operated
      BY <1>4, <1>7, <2>4
    <3> QED
      BY <3>1 DEF ApartInv, TimerCallsApart
  <2> QED
    BY <2>2, <2>3, <2>4
<1> QED
  BY <1>8, <1>9, <1>11, <1>12, <1>14, <1>15, <1>16 DEF ApartInv

\* Time passes for the tasks, the calls and the pass alike.
LEMMA TickApart ==
  ASSUME ApartInv, Tick
  PROVE  ApartInv'
<1>1. /\ TypeOK /\ late \in Nat /\ DOMAIN batch \subseteq Orders
      /\ UNCHANGED <<pc, cur, got, batch, failures, calls, crashes, operated>>
  BY DEF Tick, ApartInv, TypeOK
<1>2. ASSUME NEW p \in Orders
      PROVE  /\ task'[p] \in Task \cup {NoTask}
             /\ Exists(p)' <=> Exists(p)
             /\ Exists(p) => task'[p].due = Due(task[p].due - 1) /\ task[p].due \in Int
  <2>1. CASE Exists(p)
    <3>1. task[p].status \in 0..2 /\ task[p].retry \in Nat /\ Due(task[p].due - 1) \in Int /\ task[p].due \in Int
      BY <1>1, <2>1, Columns, NotifyAssumption DEF Due
    <3>2. task'[p] = Row(task[p].status, task[p].retry, Due(task[p].due - 1))
      BY <2>1 DEF Tick
    <3> QED
      BY <2>1, <3>1, <3>2, RowIsTask DEF Exists, Row
  <2>2. CASE ~Exists(p)
    BY <2>2 DEF Tick, Exists
  <2> QED
    BY <2>1, <2>2
<1>3. ASSUME NEW s \in Slots
      PROVE  /\ sends'[s] \in Send \cup {NoSend}
             /\ sends'[s] # NoSend =>
                  /\ sends[s] # NoSend /\ sends'[s].order = sends[s].order
                  /\ sends'[s].byTimer = sends[s].byTimer /\ sends'[s].age = sends[s].age + 1
                  /\ sends[s].age < SendTime
  BY <1>1 DEF Tick, TypeOK, Send
<1>4. sends' = [s \in Slots |-> sends'[s]] /\ task' = [p \in Orders |-> task'[p]]
  BY DEF Tick
<1>5. /\ late' \in Nat
      /\ batch # NothingSelected => late' = late + 1 /\ late < MaxLate
      /\ batch = NothingSelected => late' = late
  BY <1>1 DEF Tick
<1>6. TypeOK'
  BY <1>1, <1>2, <1>3, <1>4, <1>5 DEF TypeOK
<1>7. HandlersKnown'
  BY <1>1, <1>2 DEF ApartInv, HandlersKnown
<1>8. TasksKnown'
  <2>1. \A p \in DOMAIN batch' : Exists(p)'
    BY <1>1, <1>2 DEF ApartInv, TasksKnown
  <2>2. ASSUME NEW s \in Slots, sends'[s] # NoSend PROVE Exists(sends[s].order)'
    <3>1. PICK p : p = sends[s].order
      OBVIOUS
    <3>2. p \in Orders /\ Exists(p) /\ sends'[s].order = p
      BY <1>1, <1>3, <2>2, <3>1, Times DEF ApartInv, TasksKnown
    <3>3. Exists(p)'
      BY <1>2, <3>2
    <3> QED
      BY <3>2, <3>3 DEF Exists
  <2> QED
    BY <2>1, <2>2 DEF TasksKnown
<1>9. InTime'
  <2>1. late' <= MaxLate
    BY <1>1, <1>5, Times DEF ApartInv, InTime
  <2>2. \A s \in Slots : sends'[s] # NoSend => sends'[s].age <= SendTime
    BY <1>1, <1>3, Times
  <2> QED
    BY <2>1, <2>2 DEF InTime
<1>10. PutOff'
  <2> SUFFICES ASSUME NEW s \in Slots, Watched(s)'
               PROVE  /\ task'[sends'[s].order].due + sends'[s].age > SendTime
                      /\ sends'[s].order \notin DOMAIN batch'
    BY DEF PutOff
  <2>1. PICK p, a : p = sends[s].order /\ a = sends[s].age
    OBVIOUS
  <2>2. Watched(s) /\ sends[s] # NoSend /\ sends'[s].order = p /\ sends'[s].age = a + 1
    BY <1>1, <1>3, <2>1 DEF Watched
  <2>3. p \in Orders /\ Exists(p) /\ a \in Nat
    BY <1>1, <2>1, <2>2, Times DEF ApartInv, TasksKnown
  <2>4. task[p].due + a > SendTime /\ p \notin DOMAIN batch
    BY <2>1, <2>2 DEF ApartInv, PutOff
  <2>5. PICK d \in Int : d = task[p].due /\ task'[p].due = Due(d - 1)
    BY <1>2, <2>3
  <2>6. Due(d - 1) \in Int /\ Due(d - 1) >= d - 1
    BY Times DEF Due
  <2>7. Due(d - 1) + (a + 1) > SendTime
    BY <2>3, <2>4, <2>5, <2>6, Times
  <2> QED
    BY <1>1, <2>2, <2>4, <2>5, <2>7
<1>11. BatchDue'
  <2> SUFFICES ASSUME NEW p \in DOMAIN batch \ operated
               PROVE  task'[p].due <= -late' \/ task'[p].due > SendTime + MaxLate - late'
    BY <1>1 DEF BatchDue
  <2>1. batch # NothingSelected
    BY DEF NothingSelected
  <2>2. p \in Orders /\ Exists(p)
    BY <1>1 DEF ApartInv, TasksKnown
  <2>3. PICK d \in Int : d = task[p].due /\ task'[p].due = Due(d - 1)
    BY <1>2, <2>2
  <2>4. d <= -late \/ d > SendTime + MaxLate - late
    BY <2>3 DEF ApartInv, BatchDue
  <2>5. late' = late + 1 /\ late + 1 <= MaxLate
    BY <1>1, <1>5, <2>1, Times
  <2>6. Due(d - 1) <= -(late + 1) \/ Due(d - 1) > SendTime + MaxLate - (late + 1)
    BY <1>1, <2>4, <2>5, Times DEF Due
  <2> QED
    BY <2>3, <2>5, <2>6
<1>12. TimerCallsApart'
  BY <1>1, <1>3 DEF ApartInv, TimerCallsApart
<1> QED
  BY <1>6, <1>7, <1>8, <1>9, <1>10, <1>11, <1>12 DEF ApartInv

LEMMA CrashApart ==
  ASSUME ApartInv, Crash
  PROVE  ApartInv'
<1>1. TypeOK'
  BY DEF Crash, ApartInv, TypeOK, NothingSelected
<1>2. HandlersKnown' /\ TasksKnown' /\ PutOff' /\ BatchDue' /\ TimerCallsApart'
  BY DEF Crash, HandlersKnown, TasksKnown, PutOff, Watched, BatchDue, TimerCallsApart, NothingSelected
<1>3. InTime'
  BY Times DEF Crash, InTime
<1> QED
  BY <1>1, <1>2, <1>3 DEF ApartInv

LEMMA NextApart ==
  ASSUME SpacedOut, ApartInv, [Next]_vars
  PROVE  ApartInv'
<1>1. ASSUME NEW t \in Threads, Continue(t) \/ \E o \in Orders : Arrive(t, o)
      PROVE  ApartInv'
  BY <1>1, BeginApart, CreateInsertApart, CreateSendApart, RetryResetApart DEF Continue, Arrive
<1>2. ASSUME NEW o \in Orders, UpdateUrl(o) \/ OpsRetry(o)
      PROVE  ApartInv'
  BY <1>2, OperatorApart
<1>3. ASSUME NEW s \in Slots, Result(s)
      PROVE  ApartInv'
  BY <1>3, ResultApart
<1>4. CASE UNCHANGED vars
  BY <1>4 DEF vars, ApartInv, TypeOK, HandlersKnown, TasksKnown, InTime, PutOff, Watched, BatchDue,
     TimerCallsApart, Exists
<1> QED
  BY <1>1, <1>2, <1>3, <1>4, ProcessPendingApart, ProcessOneApart, TickApart, CrashApart DEF Next

\* Two calls of the timer for one task are never out together, whatever calls,
\* answers, operators and restarts come between, for any number of orders, threads
\* and calls: a call and a pass together end before next_retry_at comes round.
THEOREM TimerSendsOnce ==
  ASSUME SpacedOut
  PROVE  Spec => []TimerCallsApart
<1>1. ApartInv /\ [Next]_vars => ApartInv'
  BY NextApart
<1>2. ApartInv => TimerCallsApart
  BY DEF ApartInv
<1> QED
  BY <1>1, <1>2, ApartInit, PTL DEF Spec
=============================================================================
