----------------------------- MODULE PrintTask -----------------------------
(***************************************************************************)
(* The queue of the cloud printer: admin/PrintCtrl.h (cloudPrint) enters a *)
(* task in table print_task and calls the printing service;                *)
(* common/PrintTaskService.h repeats, every 30 s, the calls that failed    *)
(* and those nothing was heard of.                                         *)
(*                                                                         *)
(* processPending and the answers to all calls run on the main event loop, *)
(* so a pass is one step; cloudPrint runs on request threads, which do two *)
(* things: INSERT, and call.  The calls have no timeout.  Times are ticks. *)
(***************************************************************************)
EXTENDS Integers, FiniteSets, FiniteSetsExt

CONSTANTS
  Tasks,     \* task_id: the order and the second cloudPrint was asked
  Threads,   \* request handler threads
  MaxRetry,  \* MAX_RETRY (5 in the code)
  Stale,     \* age at which processPending repeats a call (300 s)
  Limit,     \* tasks one pass takes of either kind (20 and 10 in the code)
  MaxOut,    \* bound: calls of a task the timer has out
  MaxPrints, \* bound: times cloudPrint is asked
  MaxCrashes, \* bound: restarts of the process
  NoTask

ASSUME PrintAssumption ==
  /\ MaxRetry \in Nat \ {0} /\ Stale \in Nat /\ Limit \in Nat \ {0}
  /\ MaxOut \in Nat \ {0} /\ MaxPrints \in Nat /\ MaxCrashes \in Nat

VARIABLES
  task,     \* print_task: state, retry_cnt, and the age of updated_at
  first,    \* calls of cloudPrint that are out, of each task
  calls,    \* calls of the timer that are out: how many with each captured retry_cnt
  asked,    \* the task each request thread has inserted and not called for yet
  now,      \* tasks that were entered in the present second
  failures, \* history: failed calls of the timer, counted up to MaxRetry
  overlaid, \* history: tasks called for while a call of theirs was out or about to go
  prints,   \* times cloudPrint was asked
  crashes   \* restarts so far

vars == <<task, first, calls, asked, now, failures, overlaid, prints, crashes>>

QUEUED == 0
PRINTED == 1
FAILED == -1

\* retry_cnt as a call captures it
Captured == 0..(MaxRetry - 1)
Row(s, r, a) == [state |-> s, retry |-> r, age |-> a]
RowType == [state : {QUEUED, PRINTED, FAILED}, retry : 0..MaxRetry, age : 0..Stale]

ASSUME PrintNullAssumption == NoTask \notin RowType /\ NoTask \notin Tasks

Exists(k) == task[k] # NoTask
Out(k) ==
  \/ first[k] > 0 \/ \E n \in Captured : calls[k][n] > 0
  \/ \E t \in Threads : asked[t] = k

Init ==
  /\ task = [k \in Tasks |-> NoTask]
  /\ first = [k \in Tasks |-> 0]
  /\ calls = [k \in Tasks |-> [n \in Captured |-> 0]]
  /\ asked = [t \in Threads |-> NoTask]
  /\ now = {}
  /\ failures = [k \in Tasks |-> 0]
  /\ overlaid = {}
  /\ prints = 0 /\ crashes = 0

-----------------------------------------------------------------------------
(* cloudPrint *)

\* INSERT INTO print_task, which leaves updated_at 0: as old as can be.  The
\* second request for an order within a second has the task_id of the first; its
\* INSERT fails and nobody looks.
CloudPrint(t, k) ==
  /\ asked[t] = NoTask
  /\ prints < MaxPrints
  /\ Exists(k) => k \in now
  /\ task' = IF Exists(k) THEN task ELSE [task EXCEPT ![k] = Row(QUEUED, 0, Stale)]
  /\ asked' = [asked EXCEPT ![t] = k]
  /\ now' = now \cup {k}
  /\ overlaid' = IF Exists(k) THEN overlaid \cup {k} ELSE overlaid
  /\ prints' = prints + 1
  /\ UNCHANGED <<first, calls, failures, crashes>>

CloudCall(t) ==
  /\ asked[t] # NoTask
  /\ first' = [first EXCEPT ![asked[t]] = @ + 1]
  /\ asked' = [asked EXCEPT ![t] = NoTask]
  /\ UNCHANGED <<task, calls, now, failures, overlaid, prints, crashes>>

-----------------------------------------------------------------------------
(* processPending *)

FailedTasks == {k \in Tasks : Exists(k) /\ task[k].state = FAILED /\ task[k].retry < MaxRetry}
\* (faulty variant: only what has failed is repeated)
StaleNone == {}
\* (faulty variant: the state is not asked for)
StaleAny == {k \in Tasks : Exists(k) /\ task[k].retry < MaxRetry /\ task[k].age = Stale}
StaleTasks ==
  {k \in Tasks : Exists(k) /\ task[k].state = QUEUED /\ task[k].retry < MaxRetry /\ task[k].age = Stale}

\* SELECT ... ORDER BY updated_at LIMIT: the oldest
Oldest(S) ==
  {T \in SUBSET S :
     /\ Cardinality(T) = IF Cardinality(S) < Limit THEN Cardinality(S) ELSE Limit
     /\ \A k \in T, l \in S \ T : task[k].age >= task[l].age}

\* (faulty variant: the attempt is counted when the call is made)
SendAndCount(S) ==
  calls' = [k \in Tasks |->
              IF k \in S THEN [calls[k] EXCEPT ![IF task[k].retry + 1 < MaxRetry THEN task[k].retry + 1 ELSE 0] = @ + 1]
              ELSE calls[k]]

\* sendToFeie: the call leaves with the retry_cnt the SELECT has read.
Send(S) ==
  calls' = [k \in Tasks |-> IF k \in S THEN [calls[k] EXCEPT ![task[k].retry] = @ + 1] ELSE calls[k]]

\* (faulty variant: a task that has failed is not queued again)
ProcessPendingUnlocked ==
  /\ FailedTasks \cup StaleTasks # {}
  /\ \E F \in Oldest(FailedTasks), S \in Oldest(StaleTasks) :
       /\ \A k \in F \cup S : MapThenSumSet(LAMBDA n : calls[k][n], Captured) < MaxOut
       /\ Send(F \cup S)
       /\ overlaid' = overlaid \cup {k \in S : Out(k)}
  /\ UNCHANGED <<task, first, asked, now, failures, prints, crashes>>

\* First the failed tasks, which are queued again; then the tasks that have been
\* queued for too long, which are not touched: they stay as old as they are.
ProcessPending ==
  /\ FailedTasks \cup StaleTasks # {}
  /\ \E F \in Oldest(FailedTasks), S \in Oldest(StaleTasks) :
       /\ \A k \in F \cup S : MapThenSumSet(LAMBDA n : calls[k][n], Captured) < MaxOut
       /\ task' = [k \in Tasks |-> IF k \in F THEN Row(QUEUED, task[k].retry, 0) ELSE task[k]]
       /\ Send(F \cup S)
       /\ overlaid' = overlaid \cup {k \in S : Out(k)}
  /\ UNCHANGED <<first, asked, now, failures, prints, crashes>>

-----------------------------------------------------------------------------
(* The answers *)

\* The service has printed: state 1, and the captured retry_cnt
Printed(k, n) ==
  /\ calls[k][n] > 0
  /\ calls' = [calls EXCEPT ![k][n] = @ - 1]
  /\ task' = [task EXCEPT ![k] = Row(PRINTED, n, 0)]
  /\ UNCHANGED <<first, asked, now, failures, overlaid, prints, crashes>>

\* (faulty variant: the attempts are added to those of the row)
NotPrintedAdded(k, n) ==
  /\ calls[k][n] > 0
  /\ calls' = [calls EXCEPT ![k][n] = @ - 1]
  /\ task' = [task EXCEPT ![k] = Row(FAILED, task[k].retry + n + 1, 0)]
  /\ failures' = [failures EXCEPT ![k] = IF @ < MaxRetry THEN @ + 1 ELSE @]
  /\ UNCHANGED <<first, asked, now, overlaid, prints, crashes>>

\* The service refuses or the connection fails: state -1, one attempt more
NotPrinted(k, n) ==
  /\ calls[k][n] > 0
  /\ calls' = [calls EXCEPT ![k][n] = @ - 1]
  /\ task' = [task EXCEPT ![k] = Row(FAILED, n + 1, 0)]
  /\ failures' = [failures EXCEPT ![k] = IF @ < MaxRetry THEN @ + 1 ELSE @]
  /\ UNCHANGED <<first, asked, now, overlaid, prints, crashes>>

\* The answer to cloudPrint's own call: retry_cnt stays as it is.
FirstAnswer(k) ==
  /\ first[k] > 0
  /\ first' = [first EXCEPT ![k] = @ - 1]
  /\ \E s \in {PRINTED, FAILED} : task' = [task EXCEPT ![k] = Row(s, @.retry, 0)]
  /\ UNCHANGED <<calls, asked, now, failures, overlaid, prints, crashes>>

Answer(k) == FirstAnswer(k) \/ \E n \in Captured : Printed(k, n) \/ NotPrinted(k, n)

-----------------------------------------------------------------------------
Tick ==
  /\ now' = {}
  /\ task' = [k \in Tasks |->
                IF Exists(k) /\ task[k].age < Stale THEN [task[k] EXCEPT !.age = @ + 1] ELSE task[k]]
  /\ UNCHANGED <<first, calls, asked, failures, overlaid, prints, crashes>>

\* A restart loses the calls that are out and the requests.
Crash ==
  /\ crashes < MaxCrashes
  /\ crashes' = crashes + 1
  /\ first' = [k \in Tasks |-> 0]
  /\ calls' = [k \in Tasks |-> [n \in Captured |-> 0]]
  /\ asked' = [t \in Threads |-> NoTask]
  /\ UNCHANGED <<task, now, failures, overlaid, prints>>

Next ==
  \/ \E t \in Threads : CloudCall(t) \/ \E k \in Tasks : CloudPrint(t, k)
  \/ ProcessPending
  \/ \E k \in Tasks : Answer(k)
  \/ Tick
  \/ Crash

Spec == Init /\ [][Next]_vars

\* Request threads run on, the timer fires every 30 s, time passes, and the
\* service (not the code, which sets no timeout) ends every call.
FairSpec ==
  /\ Spec
  /\ \A t \in Threads : WF_vars(CloudCall(t))
  /\ WF_vars(ProcessPending)
  /\ \A k \in Tasks : WF_vars(Answer(k))
  /\ WF_vars(Tick)

-----------------------------------------------------------------------------
(* Properties *)

TypeOK ==
  /\ task \in [Tasks -> RowType \cup {NoTask}]
  /\ first \in [Tasks -> Nat]
  /\ calls \in [Tasks -> [Captured -> Nat]]
  /\ asked \in [Threads -> Tasks \cup {NoTask}]
  /\ now \subseteq Tasks /\ overlaid \subseteq Tasks
  /\ failures \in [Tasks -> 0..MaxRetry]
  /\ prints \in Nat /\ crashes \in Nat

\* A task is given up (failed, with retry_cnt at MAX_RETRY) only after so many of
\* the timer's calls for it have failed, whatever calls overlap.
GivenUp(k) == Exists(k) /\ task[k].state = FAILED /\ task[k].retry = MaxRetry
GivenUpAfterMaxFailures == \A k \in Tasks : GivenUp(k) => failures[k] = MaxRetry

\* Repeating the failed never puts two calls of a task out together: only the
\* rule for stale tasks does (at once for a task just entered, whose updated_at is
\* 0), and two requests for one order in the same second.
TwoOut(k) ==
  \/ first[k] > 1
  \/ \E n \in Captured : calls[k][n] > 1 \/ (first[k] > 0 /\ calls[k][n] > 0)
  \/ \E m, n \in Captured : m # n /\ calls[k][m] > 0 /\ calls[k][n] > 0
CallsApart == \A k \in Tasks : TwoOut(k) => k \in overlaid

\* What is printed or given up stays so, unless calls of the task have overlapped
\* (then the late failure of one makes the timer print the task again).
Ended(k) == Exists(k) /\ (task[k].state = PRINTED \/ GivenUp(k))
EndIsKept == [][\A k \in Tasks : Ended(k) /\ k \notin overlaid => task'[k].state = task[k].state]_vars

\* Every task is printed or given up in the end, through overlapping calls and
\* restarts, if the service ends every call.
EveryTaskEnds == \A k \in Tasks : Exists(k) ~> Ended(k)
=============================================================================
