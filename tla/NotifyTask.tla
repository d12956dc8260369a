----------------------------- MODULE NotifyTask -----------------------------
(***************************************************************************)
(* Merchant notifications (common/NotifyTaskService.h): one task per order *)
(* in table pay_notify_task, a first call as soon as the order is paid,    *)
(* and a timer that repeats the calls that failed.                         *)
(*                                                                         *)
(* Request handlers and the timer run on threads of their own; each        *)
(* database statement is one step.  The calls are asynchronous: a call is  *)
(* out until the merchant answers, fails or is given up after 15 s, and    *)
(* its answer may arrive at any moment.  Times are in ticks; due is        *)
(* next_retry_at seen from now.                                            *)
(***************************************************************************)
EXTENDS Integers, FiniteSets, Functions, Sequences

CONSTANTS
  Orders,     \* order_id of the paid orders
  Handlers,   \* bound: the handlers that run ("create", "retry", "url", "ops")
  Threads,    \* request handler threads
  Slots,      \* bound: calls that can be out at once
  MaxRetry,   \* MAX_RETRY (5 in the code)
  Delays,     \* backoffSeconds(0), (1), ...: the last for all later ones
  LockTime,   \* what processPending adds to next_retry_at (60 s)
  SendTime,   \* HttpCaller's timeout (15 s)
  MaxLate,    \* bound: ticks one pass of processPending takes
  Limit,      \* tasks one pass takes (20 in the code)
  MaxCalls,   \* bound: handler calls that arrive
  MaxCrashes, \* bound: restarts of the process
  NoTask, NoSend, NoOrder

ASSUME NotifyAssumption ==
  /\ MaxRetry \in Nat \ {0}
  /\ Delays \in Seq(Nat) /\ Len(Delays) > 0
  /\ LockTime \in Nat /\ SendTime \in Nat /\ MaxLate \in Nat
  /\ Limit \in Nat \ {0}
  /\ MaxCalls \in Nat /\ MaxCrashes \in Nat
  /\ NoTask \notin [status : 0..2, retry : Nat, due : Int]
  /\ NoSend \notin [order : Orders, retry : Nat, age : Nat, byTimer : BOOLEAN]

VARIABLES
  task,      \* pay_notify_task: the row of each order
  sends,     \* the calls that are out: order, captured retry_cnt, age
  pc,        \* what each thread does next
  cur,       \* the order it works on
  got,       \* the retry_cnt it has read
  batch,     \* processPending: retry_cnt of the selected tasks still to send
  late,      \* ticks since processPending's SELECT
  failures,  \* history: failed calls of each order, counted up to MaxRetry
  calls,     \* handler calls so far
  crashes,   \* restarts so far
  operated   \* history: tasks an operator has made due

vars == <<task, sends, pc, cur, got, batch, late, failures, calls, crashes, operated>>

PENDING == 0
SUCCESS == 1
FAIL_MAX_RETRY == 2

Task == [status : {PENDING, SUCCESS, FAIL_MAX_RETRY}, retry : Nat, due : Int]
Send == [order : Orders, retry : Nat, age : Nat, byTimer : BOOLEAN]


Row(status, retry, due) == [status |-> status, retry |-> retry, due |-> due]
Exists(o) == task[o] # NoTask
NothingSelected == [o \in {} |-> 0]

\* next_retry_at = a moment d ticks from now (the past is one value)
Due(d) == IF d < -MaxLate THEN -MaxLate ELSE d

backoffSeconds(n) == Delays[IF n < Len(Delays) THEN n + 1 ELSE Len(Delays)]

-----------------------------------------------------------------------------
\* sendTask: the call leaves with the retry_cnt the caller has read.
SendTask(o, retry, byTimer) ==
  \E s \in Slots :
    /\ sends[s] = NoSend
    /\ sends' = [sends EXCEPT ![s] = [order |-> o, retry |-> retry, age |-> 0, byTimer |-> byTimer]]

Init ==
  /\ task = [o \in Orders |-> NoTask]
  /\ sends = [s \in Slots |-> NoSend]
  /\ pc = [t \in Threads |-> "idle"]
  /\ cur = [t \in Threads |-> NoOrder]
  /\ got = [t \in Threads |-> 0]
  /\ batch = NothingSelected
  /\ late = 0
  /\ failures = [o \in Orders |-> 0]
  /\ calls = 0
  /\ crashes = 0
  /\ operated = {}

Begin(t, o, step) ==
  /\ pc[t] = "idle"
  /\ calls < MaxCalls
  /\ calls' = calls + 1
  /\ pc' = [pc EXCEPT ![t] = step]
  /\ cur' = [cur EXCEPT ![t] = o]

-----------------------------------------------------------------------------
(* createTaskAndSend: look, insert when there is no row, read the row, send. *)

Create(t, o) ==
  /\ Begin(t, o, IF Exists(o) THEN "read" ELSE "insert")
  /\ UNCHANGED <<task, sends, got, batch, late, failures, crashes, operated>>

\* order_id is UNIQUE: a second INSERT fails and leaves the row that is there
CreateInsert(t) ==
  /\ pc[t] = "insert"
  /\ task' = IF Exists(cur[t]) THEN task
             ELSE [task EXCEPT ![cur[t]] = Row(PENDING, 0, 0)]
  /\ pc' = [pc EXCEPT ![t] = "read"]
  /\ UNCHANGED <<sends, cur, got, batch, late, failures, calls, crashes, operated>>

CreateSend(t) ==
  /\ pc[t] = "read"
  /\ SendTask(cur[t], task[cur[t]].retry, FALSE)
  /\ pc' = [pc EXCEPT ![t] = "idle"]
  /\ cur' = [cur EXCEPT ![t] = NoOrder]
  /\ UNCHANGED <<task, got, batch, late, failures, calls, crashes, operated>>

-----------------------------------------------------------------------------
(* The operators' handlers: retryNow, updateUrl, and OpsCtrl's retry. *)

RetryNow(t, o) ==
  /\ Exists(o)
  /\ Begin(t, o, "reset")
  /\ got' = [got EXCEPT ![t] = task[o].retry]
  /\ UNCHANGED <<task, sends, batch, late, failures, crashes, operated>>

RetryReset(t) ==
  /\ pc[t] = "reset"
  /\ task' = [task EXCEPT ![cur[t]] = Row(PENDING, @.retry, 0)]
  /\ SendTask(cur[t], got[t], FALSE)
  /\ pc' = [pc EXCEPT ![t] = "idle"]
  /\ cur' = [cur EXCEPT ![t] = NoOrder]
  /\ got' = [got EXCEPT ![t] = 0]
  /\ operated' = operated \cup {cur[t]}
  /\ UNCHANGED <<batch, late, failures, calls, crashes>>

\* next_retry_at becomes 0: overdue
UpdateUrl(o) ==
  /\ Exists(o) /\ calls < MaxCalls
  /\ calls' = calls + 1
  /\ task' = [task EXCEPT ![o] = Row(PENDING, @.retry, -MaxLate)]
  /\ operated' = operated \cup {o}
  /\ UNCHANGED <<sends, pc, cur, got, batch, late, failures, crashes>>

\* OpsCtrl's retry counts as an attempt: retry_cnt=retry_cnt+1
OpsRetry(o) ==
  /\ Exists(o) /\ calls < MaxCalls
  /\ calls' = calls + 1
  /\ task' = [task EXCEPT ![o] = Row(PENDING, @.retry + 1, 0)]
  /\ operated' = operated \cup {o}
  /\ UNCHANGED <<sends, pc, cur, got, batch, late, failures, crashes>>

-----------------------------------------------------------------------------
(* processPending: one SELECT, then for each row the UPDATE that pushes       *)
(* next_retry_at back and the call, whether the UPDATE changed the row or not. *)

\* (faulty variant: a task that is overdue is no longer found)
DueTasksExactly == {o \in Orders : Exists(o) /\ task[o].status = PENDING /\ task[o].due = 0}

DueTasks == {o \in Orders : Exists(o) /\ task[o].status = PENDING /\ task[o].due <= 0}

\* SELECT ... LIMIT without ORDER BY: any of them
Selections ==
  {S \in SUBSET DueTasks :
     Cardinality(S) = IF Cardinality(DueTasks) < Limit THEN Cardinality(DueTasks) ELSE Limit}

\* (faulty variant: the attempt is counted when the task is selected)
ProcessPendingCounts ==
  /\ batch = NothingSelected
  /\ DueTasks # {}
  /\ \E S \in Selections : batch' = [o \in S |-> task[o].retry + 1]
  /\ late' = 0
  /\ UNCHANGED <<task, sends, pc, cur, got, failures, calls, crashes, operated>>

ProcessPending ==
  /\ batch = NothingSelected
  /\ DueTasks # {}
  /\ \E S \in Selections : batch' = [o \in S |-> task[o].retry]
  /\ late' = 0
  /\ UNCHANGED <<task, sends, pc, cur, got, failures, calls, crashes, operated>>

\* (faulty variant: next_retry_at is left alone)
ProcessOneUnlocked ==
  \E o \in DOMAIN batch :
    /\ SendTask(o, batch[o], TRUE)
    /\ batch' = Restrict(batch, DOMAIN batch \ {o})
    /\ late' = IF DOMAIN batch = {o} THEN 0 ELSE late
    /\ UNCHANGED <<task, pc, cur, got, failures, calls, crashes, operated>>

\* next_retry_at = SELECT's now + 60, if it is not after SELECT's now
ProcessOne ==
  \E o \in DOMAIN batch :
    /\ task' = IF task[o].due <= -late
                 THEN [task EXCEPT ![o] = Row(@.status, @.retry, Due(LockTime - late))] ELSE task
    /\ SendTask(o, batch[o], TRUE)
    /\ batch' = Restrict(batch, DOMAIN batch \ {o})
    /\ late' = IF DOMAIN batch = {o} THEN 0 ELSE late
    /\ UNCHANGED <<pc, cur, got, failures, calls, crashes, operated>>

-----------------------------------------------------------------------------
(* onResult: the answer to a call. *)

ResultOk(s) ==
  /\ sends[s] # NoSend
  /\ task' = [task EXCEPT ![sends[s].order] = Row(SUCCESS, @.retry, @.due)]
  /\ sends' = [sends EXCEPT ![s] = NoSend]
  /\ UNCHANGED <<pc, cur, got, batch, late, failures, calls, crashes, operated>>

\* (faulty variant: gives up one failure early)
ResultFailedEarly(s) ==
  /\ sends[s] # NoSend
  /\ LET o        == sends[s].order
         newRetry == sends[s].retry + 1
     IN  /\ task' = IF newRetry + 1 >= MaxRetry
                      THEN [task EXCEPT ![o] = Row(FAIL_MAX_RETRY, newRetry, @.due)]
                      ELSE [task EXCEPT ![o] = Row(PENDING, newRetry, backoffSeconds(newRetry))]
         /\ failures' = [failures EXCEPT ![o] = IF @ < MaxRetry THEN @ + 1 ELSE @]
  /\ sends' = [sends EXCEPT ![s] = NoSend]
  /\ UNCHANGED <<pc, cur, got, batch, late, calls, crashes, operated>>

ResultFailed(s) ==
  /\ sends[s] # NoSend
  /\ LET o        == sends[s].order
         newRetry == sends[s].retry + 1
     IN  /\ task' = IF newRetry >= MaxRetry
                      THEN [task EXCEPT ![o] = Row(FAIL_MAX_RETRY, newRetry, @.due)]
                      ELSE [task EXCEPT ![o] = Row(PENDING, newRetry, backoffSeconds(newRetry))]
         /\ failures' = [failures EXCEPT ![o] = IF @ < MaxRetry THEN @ + 1 ELSE @]
  /\ sends' = [sends EXCEPT ![s] = NoSend]
  /\ UNCHANGED <<pc, cur, got, batch, late, calls, crashes, operated>>

-----------------------------------------------------------------------------
(* Time passes; a call out for SendTime must end first, and a pass of the    *)
(* timer takes at most MaxLate ticks.  A restart loses the calls that are out. *)

Tick ==
  /\ \A s \in Slots : sends[s] # NoSend => sends[s].age < SendTime
  /\ batch # NothingSelected => late < MaxLate
  /\ task' = [o \in Orders |->
                IF Exists(o) THEN Row(task[o].status, task[o].retry, Due(task[o].due - 1))
                ELSE NoTask]
  /\ sends' = [s \in Slots |->
                 IF sends[s] = NoSend THEN NoSend ELSE [sends[s] EXCEPT !.age = @ + 1]]
  /\ late' = IF batch = NothingSelected THEN late ELSE late + 1
  /\ UNCHANGED <<pc, cur, got, batch, failures, calls, crashes, operated>>

Crash ==
  /\ crashes < MaxCrashes
  /\ crashes' = crashes + 1
  /\ sends' = [s \in Slots |-> NoSend]
  /\ pc' = [t \in Threads |-> "idle"]
  /\ cur' = [t \in Threads |-> NoOrder]
  /\ got' = [t \in Threads |-> 0]
  /\ batch' = NothingSelected
  /\ late' = 0
  /\ UNCHANGED <<task, failures, calls, operated>>

-----------------------------------------------------------------------------
Arrive(t, o) ==
  \/ "create" \in Handlers /\ Create(t, o)
  \/ "retry" \in Handlers /\ RetryNow(t, o)

Continue(t) == CreateInsert(t) \/ CreateSend(t) \/ RetryReset(t)

Result(s) == ResultOk(s) \/ ResultFailed(s)

Next ==
  \/ \E t \in Threads : Continue(t) \/ \E o \in Orders : Arrive(t, o)
  \/ \E o \in Orders : \/ "url" \in Handlers /\ UpdateUrl(o)
                       \/ "ops" \in Handlers /\ OpsRetry(o)
  \/ ProcessPending
  \/ ProcessOne
  \/ \E s \in Slots : Result(s)
  \/ Tick
  \/ Crash

Spec == Init /\ [][Next]_vars

\* Threads run on, the timer fires every 30 s, every call ends within its
\* timeout, time passes.
FairSpec ==
  /\ Spec
  /\ \A t \in Threads : WF_vars(Continue(t))
  /\ WF_vars(ProcessPending) /\ WF_vars(ProcessOne)
  /\ \A s \in Slots : WF_vars(Result(s))
  /\ WF_vars(Tick)

-----------------------------------------------------------------------------
(* Properties *)

TypeOK ==
  /\ task \in [Orders -> Task \cup {NoTask}]
  /\ sends \in [Slots -> Send \cup {NoSend}]
  /\ pc \in [Threads -> {"idle", "insert", "read", "reset"}]
  /\ cur \in [Threads -> Orders \cup {NoOrder}]
  /\ got \in [Threads -> Nat]
  /\ DOMAIN batch \subseteq Orders /\ \A o \in DOMAIN batch : batch[o] \in Nat
  /\ late \in Nat
  /\ failures \in [Orders -> 0..MaxRetry]
  /\ calls \in Nat /\ crashes \in Nat
  /\ operated \subseteq Orders

\* n failed calls of o have happened (failures is counted up to MaxRetry)
Failed(o, n) == n <= failures[o] \/ failures[o] = MaxRetry

\* A task is given up (FAIL_MAX_RETRY) only after MAX_RETRY of its calls have
\* failed, whatever calls overlap and however late their answers come.
GivenUpAfterMaxFailures ==
  \A o \in Orders :
    Exists(o) /\ task[o].status = FAIL_MAX_RETRY => failures[o] = MaxRetry

\* The same, inductively: no retry_cnt, in the table or captured by a call, a
\* handler or the timer, is ahead of the failures that have happened.
RowsCovered ==
  \A o \in Orders :
    Exists(o) => /\ Failed(o, task[o].retry)
                 /\ task[o].status = FAIL_MAX_RETRY => failures[o] = MaxRetry
HandlersCovered ==
  \A t \in Threads :
    /\ pc[t] # "idle" => cur[t] \in Orders
    /\ pc[t] \in {"read", "reset"} => Exists(cur[t])
    /\ pc[t] = "reset" => Failed(cur[t], got[t])
BatchCovered == \A o \in DOMAIN batch : Exists(o) /\ Failed(o, batch[o])
SendsCovered ==
  \A s \in Slots :
    sends[s] # NoSend => Exists(sends[s].order) /\ Failed(sends[s].order, sends[s].retry)
RetryInv == TypeOK /\ RowsCovered /\ HandlersCovered /\ BatchCovered /\ SendsCovered

\* Two calls the timer makes for one task are never out together, unless an
\* operator asked for another: pushing next_retry_at back ("to avoid sending
\* twice") keeps the next pass away until the call has ended, however long a
\* pass takes and whatever answers arrive meanwhile.
TimerCallsApart ==
  \A r, s \in Slots :
    (r # s /\ sends[r] # NoSend /\ sends[s] # NoSend /\ sends[r].byTimer /\ sends[s].byTimer)
      => sends[r].order # sends[s].order \/ sends[r].order \in operated

\* What it takes: a call ends, and a pass of the timer is over, before
\* next_retry_at comes round (15 s and a pass, against 60 s and 5 min).
SpacedOut ==
  /\ SendTime + MaxLate < LockTime
  /\ \A n \in Nat \ {0} : SendTime + MaxLate < backoffSeconds(n)

\* Every task comes to rest, delivered or given up, through lost calls, late
\* answers, operators and restarts.
Settled(o) == Exists(o) /\ task[o].status # PENDING
EveryTaskSettles == \A o \in Orders : Exists(o) ~> Settled(o)
=============================================================================
