-------------------------- MODULE PrintTaskProofs --------------------------
(***************************************************************************)
(* Theorems about PrintTask: no task is given up early, whatever calls     *)
(* overlap; and calls overlap for two known reasons only, without which a  *)
(* task that is printed or given up is left alone.                         *)
(***************************************************************************)
EXTENDS PrintTask, TLAPS

\* n calls of the timer for k have failed (failures is counted up to MaxRetry)
Failed(k, n) == n <= failures[k] \/ failures[k] = MaxRetry

\* No retry_cnt, stored or captured, is ahead of the failures.
Covered(k) ==
  /\ Exists(k) => Failed(k, task[k].retry)
  /\ \A n \in Captured : calls[k][n] > 0 => Failed(k, n)

\* A call of k is out, in the hand of a request thread or of the timer
AskedFor(k) == \E t \in Threads : asked[t] = k
Called(k) == \E n \in Captured : calls[k][n] > 0

\* Where calls of k have not overlapped there is one at most, and none once the
\* task has left state QUEUED.
Lone(k) ==
  /\ first[k] <= 1 /\ \A n \in Captured : calls[k][n] <= 1
  /\ \A m, n \in Captured : calls[k][m] > 0 /\ calls[k][n] > 0 => m = n
  /\ \A t, u \in Threads : asked[t] = k /\ asked[u] = k => t = u
  /\ ~(first[k] > 0 /\ Called(k)) /\ ~(first[k] > 0 /\ AskedFor(k)) /\ ~(Called(k) /\ AskedFor(k))
  /\ Exists(k) /\ task[k].state # QUEUED => ~Out(k)

PrintInv ==
  /\ TypeOK
  /\ \A k \in Tasks : Out(k) => Exists(k)
  /\ \A k \in Tasks : Covered(k)
  /\ \A k \in Tasks \ overlaid : Lone(k)

LEMMA Facts ==
  /\ MaxRetry \in Nat \ {0} /\ Stale \in Nat
  /\ \A n \in Captured : n \in Nat /\ n + 1 \in 0..MaxRetry /\ n \in 0..MaxRetry
  /\ 0 \in Captured /\ NoTask \notin RowType /\ NoTask \notin Tasks
BY PrintAssumption, PrintNullAssumption DEF Captured

LEMMA Rows ==
  ASSUME NEW s \in {QUEUED, PRINTED, FAILED}, NEW r \in 0..MaxRetry, NEW a \in 0..Stale
  PROVE  /\ Row(s, r, a) \in RowType /\ Row(s, r, a) # NoTask
         /\ Row(s, r, a).state = s /\ Row(s, r, a).retry = r /\ Row(s, r, a).age = a
BY Facts DEF Row, RowType

LEMMA RowAt ==
  ASSUME PrintInv, NEW k \in Tasks, Exists(k)
  PROVE  /\ task[k] \in RowType /\ task[k].state \in {QUEUED, PRINTED, FAILED}
         /\ task[k].retry \in 0..MaxRetry /\ task[k].age \in 0..Stale
BY DEF PrintInv, TypeOK, Exists, RowType

LEMMA OutParts == \A k : Out(k) <=> first[k] > 0 \/ Called(k) \/ AskedFor(k)
BY DEF Out, Called, AskedFor

LEMMA States == QUEUED # PRINTED /\ QUEUED # FAILED /\ PRINTED # FAILED
BY DEF QUEUED, PRINTED, FAILED

-----------------------------------------------------------------------------
(* cloudPrint *)

LEMMA CloudPrintStep ==
  ASSUME PrintInv, NEW t \in Threads, NEW k \in Tasks, CloudPrint(t, k)
  PROVE  PrintInv'
<1> DEFINE new == Row(QUEUED, 0, Stale)
<1>1. /\ new \in RowType /\ new # NoTask /\ new.state = QUEUED /\ new.retry = 0
  BY Rows, Facts
<1> HIDE DEF new
<1>2. /\ asked[t] = NoTask /\ asked' = [asked EXCEPT ![t] = k]
      /\ task' = IF Exists(k) THEN task ELSE [task EXCEPT ![k] = new]
      /\ overlaid' = IF Exists(k) THEN overlaid \cup {k} ELSE overlaid
      /\ now' = now \cup {k} /\ prints' = prints + 1
      /\ UNCHANGED <<first, calls, failures, crashes>>
  BY DEF CloudPrint, new
<1>3. /\ task \in [Tasks -> RowType \cup {NoTask}] /\ asked \in [Threads -> Tasks \cup {NoTask}]
      /\ first \in [Tasks -> Nat] /\ calls \in [Tasks -> [Captured -> Nat]]
      /\ overlaid \subseteq Tasks /\ now \subseteq Tasks /\ prints \in Nat /\ crashes \in Nat
      /\ failures \in [Tasks -> 0..MaxRetry]
  BY DEF PrintInv, TypeOK
<1>4. /\ task' \in [Tasks -> RowType \cup {NoTask}]
      /\ \A l \in Tasks : task'[l] = IF l = k /\ ~Exists(k) THEN new ELSE task[l]
  BY <1>1, <1>2, <1>3
<1>5. /\ asked' \in [Threads -> Tasks \cup {NoTask}]
      /\ \A u \in Threads : asked'[u] = IF u = t THEN k ELSE asked[u]
  BY <1>2, <1>3
<1>6. TypeOK'
  BY <1>2, <1>3, <1>4, <1>5 DEF TypeOK
<1>7. ASSUME NEW l \in Tasks PROVE (Out(l) => Exists(l))' /\ Covered(l)'
  <2>1. Exists(l)' <=> l = k \/ Exists(l)
    BY <1>1, <1>4 DEF Exists
  <2>2. Out(l)' => Out(l) \/ l = k
    BY <1>2, <1>5 DEF Out
  <2>3. Covered(l)'
    <3>1. CASE l = k /\ ~Exists(k)
      BY <1>1, <1>2, <1>3, <1>4, <3>1, Facts DEF Covered, Failed, PrintInv
    <3>2. CASE l # k \/ Exists(k)
      BY <1>2, <1>4, <2>1, <3>2 DEF Covered, Failed, PrintInv
    <3>3. QED
      BY <3>1, <3>2
  <2>4. QED
    BY <2>1, <2>2, <2>3 DEF PrintInv
<1>8. ASSUME NEW l \in Tasks \ overlaid' PROVE Lone(l)'
  <2>1. l \in Tasks \ overlaid /\ Lone(l) /\ (l = k => ~Exists(k))
    BY <1>2 DEF PrintInv
  <2>2. CASE l = k
    <3>1. ~Out(k) /\ first[k] = 0
      BY <1>3, <2>1, <2>2 DEF PrintInv, Out
    <3>2. task'[k].state = QUEUED /\ k # NoTask
      BY <1>1, <1>4, <2>1, <2>2, Facts
    <3>3. first'[k] = 0 /\ ~Called(k)' /\ \A u \in Threads : asked'[u] = k => u = t
      BY <1>2, <1>5, <3>1 DEF Out, Called
    <3>4. \A n \in Captured : calls'[k][n] <= 1
      BY <1>2, <2>1, <2>2 DEF Lone
    <3>5. QED
      BY <2>2, <3>2, <3>3, <3>4 DEF Lone, Called
  <2>3. CASE l # k
    <3>1. task'[l] = task[l] /\ (AskedFor(l)' <=> AskedFor(l)) /\ \A u \in Threads : asked'[u] = l => asked[u] = l
      BY <1>2, <1>4, <1>5, <2>3, Facts DEF AskedFor
    <3>2. QED
      BY <1>2, <2>1, <3>1, OutParts DEF Lone, Called, Exists, Out, AskedFor
  <2>4. QED
    BY <2>2, <2>3
<1>9. QED
  BY <1>6, <1>7, <1>8 DEF PrintInv

LEMMA CloudCallStep ==
  ASSUME PrintInv, NEW t \in Threads, CloudCall(t)
  PROVE  PrintInv'
<1>1. PICK k : k = asked[t]
  OBVIOUS
<1>2. /\ k # NoTask /\ first' = [first EXCEPT ![k] = @ + 1] /\ asked' = [asked EXCEPT ![t] = NoTask]
      /\ UNCHANGED <<task, calls, now, failures, overlaid, prints, crashes>>
  BY <1>1 DEF CloudCall
<1>3. /\ asked \in [Threads -> Tasks \cup {NoTask}] /\ first \in [Tasks -> Nat] /\ k \in Tasks
      /\ calls \in [Tasks -> [Captured -> Nat]]
  BY <1>1, <1>2 DEF PrintInv, TypeOK
<1>4. /\ first' \in [Tasks -> Nat] /\ first'[k] = first[k] + 1 /\ \A l \in Tasks \ {k} : first'[l] = first[l]
  <2>1. first[k] + 1 \in Nat
    BY <1>3
  <2>2. QED
    BY <1>2, <1>3, <2>1
<1>5. /\ asked' \in [Threads -> Tasks \cup {NoTask}]
      /\ \A u \in Threads : asked'[u] = IF u = t THEN NoTask ELSE asked[u]
  BY <1>2, <1>3
<1>6. TypeOK'
  BY <1>2, <1>4, <1>5 DEF PrintInv, TypeOK
<1>7. AskedFor(k) /\ Out(k) /\ Exists(k)
  BY <1>1, <1>3 DEF AskedFor, Out, PrintInv
<1>8. ASSUME NEW l \in Tasks PROVE (Out(l) => Exists(l))' /\ Covered(l)'
  <2>1. Out(l)' => Out(l)
    BY <1>2, <1>4, <1>5, <1>7, Facts DEF Out
  <2>2. QED
    BY <1>2, <2>1 DEF PrintInv, Exists, Covered, Failed
<1>9. ASSUME NEW l \in Tasks \ overlaid' PROVE Lone(l)'
  <2>1. l \in Tasks \ overlaid /\ Lone(l)
    BY <1>2 DEF PrintInv
  <2>2. CASE l = k
    <3>1. first[k] = 0 /\ ~Called(k)
      BY <1>3, <1>7, <2>1, <2>2 DEF Lone
    <3>2. first'[k] = 1 /\ ~Called(k)'
      BY <1>2, <1>4, <3>1 DEF Called
    <3>3. ~AskedFor(k)'
      BY <1>1, <1>3, <1>5, <2>1, <2>2, Facts DEF AskedFor, Lone
    <3>4. task[k].state = QUEUED
      BY <1>7, <2>1, <2>2 DEF Lone
    <3>5. QED
      BY <1>2, <2>1, <2>2, <3>2, <3>3, <3>4 DEF Lone, Called, AskedFor
  <2>3. CASE l # k
    <3>1. first'[l] = first[l] /\ (AskedFor(l)' <=> AskedFor(l)) /\ \A u \in Threads : asked'[u] = l => asked[u] = l
      BY <1>1, <1>2, <1>4, <1>5, <2>3, Facts DEF AskedFor
    <3>2. QED
      BY <1>2, <2>1, <3>1, OutParts DEF Lone, Called, Exists, Out, AskedFor
  <2>4. QED
    BY <2>2, <2>3
<1>10. QED
  BY <1>6, <1>8, <1>9 DEF PrintInv

-----------------------------------------------------------------------------
(* processPending *)

LEMMA ProcessPendingStep ==
  ASSUME PrintInv, ProcessPending
  PROVE  PrintInv'
<1>1. PICK F \in Oldest(FailedTasks), S \in Oldest(StaleTasks) :
        /\ task' = [k \in Tasks |-> IF k \in F THEN Row(QUEUED, task[k].retry, 0) ELSE task[k]]
        /\ Send(F \cup S)
        /\ overlaid' = overlaid \cup {k \in S : Out(k)}
  BY DEF ProcessPending
<1>2. F \subseteq FailedTasks /\ S \subseteq StaleTasks /\ UNCHANGED <<first, asked, now, failures, prints, crashes>>
  BY DEF ProcessPending, Oldest
<1>3. /\ task \in [Tasks -> RowType \cup {NoTask}] /\ calls \in [Tasks -> [Captured -> Nat]]
      /\ first \in [Tasks -> Nat] /\ overlaid \subseteq Tasks
  BY DEF PrintInv, TypeOK
<1>4. ASSUME NEW k \in F \cup S
      PROVE  k \in Tasks /\ Exists(k) /\ task[k].retry \in Captured
    <2>1. k \in Tasks /\ Exists(k) /\ task[k].retry < MaxRetry
      BY <1>2 DEF FailedTasks, StaleTasks
    <2>2. QED
      BY <2>1, RowAt, Facts DEF Captured
<1>5. ASSUME NEW k \in Tasks
      PROVE  /\ task'[k] \in RowType \cup {NoTask} /\ (Exists(k)' <=> Exists(k))
             /\ Exists(k) => task'[k].retry = task[k].retry
             /\ k \in F => task'[k].state = QUEUED
             /\ k \notin F => task'[k] = task[k]
  <2>1. CASE k \in F
    <3>1. task'[k] = Row(QUEUED, task[k].retry, 0) /\ task[k].retry \in 0..MaxRetry /\ 0 \in 0..Stale /\ Exists(k)
      BY <1>1, <1>4, <2>1, RowAt, Facts
    <3>2. QED
      BY <2>1, <3>1, Rows DEF Exists
  <2>2. CASE k \notin F
    BY <1>1, <1>3, <2>2 DEF Exists
  <2>3. QED
    BY <2>1, <2>2
<1>6. ASSUME NEW k \in Tasks
      PROVE  /\ calls'[k] \in [Captured -> Nat]
             /\ k \notin F \cup S => calls'[k] = calls[k]
             /\ k \in F \cup S => \A n \in Captured :
                  calls'[k][n] = IF n = task[k].retry THEN calls[k][n] + 1 ELSE calls[k][n]
  <2>1. calls'[k] = IF k \in F \cup S THEN [calls[k] EXCEPT ![task[k].retry] = @ + 1] ELSE calls[k]
    BY <1>1 DEF Send
  <2>2. calls[k] \in [Captured -> Nat]
    BY <1>3
  <2>3. CASE k \in F \cup S
    <3>1. PICK r \in Captured : r = task[k].retry
      BY <1>4, <2>3
    <3>2. calls'[k] = [calls[k] EXCEPT ![r] = calls[k][r] + 1] /\ calls[k][r] + 1 \in Nat
      BY <2>1, <2>2, <2>3, <3>1
    <3>3. QED
      BY <2>2, <2>3, <3>1, <3>2
  <2>4. QED
    BY <2>1, <2>2, <2>3
<1>7. TypeOK'
  <2>1. task' \in [Tasks -> RowType \cup {NoTask}]
    BY <1>1, <1>5
  <2>2. calls' \in [Tasks -> [Captured -> Nat]]
    BY <1>1, <1>6 DEF Send
  <2>3. QED
    BY <1>1, <1>2, <2>1, <2>2 DEF PrintInv, TypeOK, StaleTasks
<1>8. ASSUME NEW k \in Tasks PROVE (Out(k) => Exists(k))'
  <2>1. CASE k \in F \cup S
    BY <1>4, <1>5, <2>1
  <2>2. CASE k \notin F \cup S
    BY <1>2, <1>5, <1>6, <2>2 DEF PrintInv, Out
  <2>3. QED
    BY <2>1, <2>2
<1>9. ASSUME NEW k \in Tasks PROVE Covered(k)'
  <2>1. Covered(k)
    BY DEF PrintInv
  <2>2. CASE k \in F \cup S
    BY <1>2, <1>4, <1>5, <1>6, <2>1, <2>2 DEF Covered, Failed
  <2>3. CASE k \notin F \cup S
    BY <1>2, <1>5, <1>6, <2>1, <2>3 DEF Covered, Failed
  <2>4. QED
    BY <2>2, <2>3
<1>10. ASSUME NEW k \in Tasks \ overlaid' PROVE Lone(k)'
  <2>1. k \in Tasks \ overlaid /\ Lone(k) /\ (k \in S => ~Out(k))
    BY <1>1 DEF PrintInv
  <2>2. CASE k \in F \cup S
    <3>1. ~Out(k)
      BY <1>2, <2>1, <2>2, States DEF FailedTasks, Lone
    <3>2. first[k] = 0 /\ ~AskedFor(k) /\ \A n \in Captured : calls[k][n] = 0
      BY <1>3, <2>1, <3>1 DEF Out, AskedFor
    <3>3. first'[k] = 0 /\ ~AskedFor(k)'
      BY <1>2, <3>2 DEF AskedFor
    <3>4. \A n \in Captured : calls'[k][n] = IF n = task[k].retry THEN 1 ELSE 0
      BY <1>6, <2>1, <2>2, <3>2
    <3>5. task'[k].state = QUEUED
      BY <1>2, <1>5, <2>1, <2>2 DEF StaleTasks
    <3>6. QED
      BY <3>3, <3>4, <3>5 DEF Lone, AskedFor
  <2>3. CASE k \notin F \cup S
    <3>1. calls'[k] = calls[k] /\ task'[k] = task[k]
      BY <1>5, <1>6, <2>1, <2>3
    <3>2. QED
      BY <1>2, <2>1, <3>1 DEF Lone, Called, AskedFor, Exists, Out
  <2>4. QED
    BY <2>2, <2>3
<1>11. QED
  BY <1>7, <1>8, <1>9, <1>10 DEF PrintInv

-----------------------------------------------------------------------------
(* The answers *)

\* What an answer of the timer's calls leaves of the invariant, whatever it says
LEMMA AnswerStep ==
  ASSUME PrintInv, NEW k \in Tasks, NEW n \in Captured, calls[k][n] > 0,
         NEW s \in {PRINTED, FAILED}, NEW r \in 0..MaxRetry,
         calls' = [calls EXCEPT ![k][n] = @ - 1], task' = [task EXCEPT ![k] = Row(s, r, 0)],
         failures' \in [Tasks -> 0..MaxRetry],
         \A l \in Tasks : failures'[l] = failures[l] \/ (failures'[l] = failures[l] + 1 /\ failures[l] < MaxRetry),
         r <= failures'[k] \/ failures'[k] = MaxRetry,
         UNCHANGED <<first, asked, now, overlaid, prints, crashes>>
  PROVE  PrintInv'
<1> DEFINE new == Row(s, r, 0)
<1>1. /\ new \in RowType /\ new # NoTask /\ new.state = s /\ new.retry = r
  BY Rows, Facts
<1>2. task' = [task EXCEPT ![k] = new]
  OBVIOUS
<1> HIDE DEF new
<1>3. /\ task \in [Tasks -> RowType \cup {NoTask}] /\ calls \in [Tasks -> [Captured -> Nat]]
      /\ first \in [Tasks -> Nat] /\ overlaid \subseteq Tasks /\ failures \in [Tasks -> 0..MaxRetry]
  BY DEF PrintInv, TypeOK
<1>4. Out(k) /\ Exists(k) /\ Called(k)
  BY DEF Out, Called, PrintInv
<1>5. /\ task' \in [Tasks -> RowType \cup {NoTask}] /\ task'[k] = new
      /\ \A l \in Tasks \ {k} : task'[l] = task[l]
  BY <1>1, <1>2, <1>3
<1>6. /\ calls' \in [Tasks -> [Captured -> Nat]]
      /\ \A l \in Tasks \ {k} : calls'[l] = calls[l]
      /\ \A m \in Captured : calls'[k][m] = IF m = n THEN calls[k][m] - 1 ELSE calls[k][m]
  <2>1. calls[k] \in [Captured -> Nat] /\ calls[k][n] - 1 \in Nat
    BY <1>3
  <2>2. PICK c : c = [calls[k] EXCEPT ![n] = calls[k][n] - 1]
    OBVIOUS
  <2>3. c \in [Captured -> Nat] /\ \A m \in Captured : c[m] = IF m = n THEN calls[k][m] - 1 ELSE calls[k][m]
    BY <2>1, <2>2
  <2>4. calls' = [calls EXCEPT ![k] = c]
    BY <2>2
  <2>5. QED
    BY <1>3, <2>3, <2>4
<1>7. TypeOK'
  BY <1>5, <1>6 DEF PrintInv, TypeOK
<1>8. ASSUME NEW l \in Tasks PROVE (Out(l) => Exists(l))' /\ Covered(l)'
  <2>1. \A m \in Captured : calls'[l][m] > 0 => calls[l][m] > 0
    BY <1>3, <1>6
  <2>2. Out(l)' => Out(l)
    BY <2>1 DEF Out
  <2>3. \A m \in Nat : Failed(l, m) => Failed(l, m)'
    BY <1>3, Facts DEF Failed
  <2>4. \A m \in Captured : calls'[l][m] > 0 => Failed(l, m)'
    BY <2>1, <2>3, Facts DEF PrintInv, Covered
  <2>5. CASE l = k
    BY <1>1, <1>5, <2>4, <2>5 DEF Covered, Exists, Failed
  <2>6. CASE l # k
    <3>1. task'[l] = task[l] /\ (Exists(l)' <=> Exists(l))
      BY <1>5, <2>6 DEF Exists
    <3>2. Exists(l) => Failed(l, task[l].retry) /\ task[l].retry \in Nat
      BY RowAt, Facts DEF PrintInv, Covered
    <3>3. \A m \in Nat : m = task[l].retry => m = task'[l].retry
      BY <3>1
    <3>4. Exists(l)' => Failed(l, task[l].retry)'
      BY <2>3, <3>1, <3>2, <3>3 DEF Failed
    <3>5. QED
      BY <2>2, <2>4, <3>1, <3>4 DEF Covered, PrintInv
  <2>7. QED
    BY <2>5, <2>6
<1>9. ASSUME NEW l \in Tasks \ overlaid' PROVE Lone(l)'
  <2>1. l \in Tasks \ overlaid /\ Lone(l)
    BY DEF PrintInv
  <2>2. CASE l = k
    <3>1. first[k] <= 0 /\ ~AskedFor(k)
      BY <1>3, <1>4, <2>1, <2>2 DEF Lone
    <3>2. \A m \in Captured : calls[k][m] <= 1 /\ (calls[k][m] > 0 => m = n)
      BY <2>1, <2>2 DEF Lone
    <3>3. \A m \in Captured : calls'[k][m] = 0
      BY <1>3, <1>6, <3>2
    <3>4. first'[k] <= 0 /\ first'[k] \in Nat /\ ~AskedFor(k)' /\ ~Called(k)'
      BY <1>3, <3>1, <3>3 DEF AskedFor, Called
    <3>5. QED
      BY <2>2, <3>3, <3>4 DEF Lone, AskedFor, Called, Out
  <2>3. CASE l # k
    <3>1. calls'[l] = calls[l] /\ task'[l] = task[l]
      BY <1>5, <1>6, <2>1, <2>3
    <3>2. QED
      BY <2>1, <3>1 DEF Lone, Called, AskedFor, Exists, Out
  <2>4. QED
    BY <2>2, <2>3
<1>10. QED
  BY <1>7, <1>8, <1>9 DEF PrintInv

LEMMA PrintedStep ==
  ASSUME PrintInv, NEW k \in Tasks, NEW n \in Captured, Printed(k, n)
  PROVE  PrintInv'
<1>1. /\ calls[k][n] > 0 /\ calls' = [calls EXCEPT ![k][n] = @ - 1]
      /\ task' = [task EXCEPT ![k] = Row(PRINTED, n, 0)]
      /\ UNCHANGED <<first, asked, now, failures, overlaid, prints, crashes>>
  BY DEF Printed
<1>2. n \in 0..MaxRetry /\ (n <= failures[k] \/ failures[k] = MaxRetry)
  BY <1>1, Facts DEF PrintInv, Covered, Failed
<1>3. /\ failures' \in [Tasks -> 0..MaxRetry] /\ \A l \in Tasks : failures'[l] = failures[l]
      /\ n <= failures'[k] \/ failures'[k] = MaxRetry
  BY <1>1, <1>2 DEF PrintInv, TypeOK
<1>4. /\ PRINTED \in {PRINTED, FAILED} /\ UNCHANGED <<first, asked, now, overlaid, prints, crashes>>
      /\ \A l \in Tasks : failures'[l] = failures[l] \/ (failures'[l] = failures[l] + 1 /\ failures[l] < MaxRetry)
  BY <1>1, <1>3
<1>5. QED
  BY <1>1, <1>2, <1>3, <1>4, AnswerStep

LEMMA NotPrintedStep ==
  ASSUME PrintInv, NEW k \in Tasks, NEW n \in Captured, NotPrinted(k, n)
  PROVE  PrintInv'
<1>1. /\ calls[k][n] > 0 /\ calls' = [calls EXCEPT ![k][n] = @ - 1]
      /\ task' = [task EXCEPT ![k] = Row(FAILED, n + 1, 0)]
      /\ failures' = [failures EXCEPT ![k] = IF @ < MaxRetry THEN @ + 1 ELSE @]
      /\ UNCHANGED <<first, asked, now, overlaid, prints, crashes>>
  BY DEF NotPrinted
<1>2. /\ n \in Nat /\ n + 1 \in 0..MaxRetry /\ MaxRetry \in Nat
      /\ failures \in [Tasks -> 0..MaxRetry] /\ (n <= failures[k] \/ failures[k] = MaxRetry)
  BY <1>1, Facts DEF PrintInv, TypeOK, Covered, Failed
<1>3. PICK f \in 0..MaxRetry : f = IF failures[k] < MaxRetry THEN failures[k] + 1 ELSE failures[k]
  BY <1>2
<1>4. failures' = [failures EXCEPT ![k] = f]
  BY <1>1, <1>3
<1>5. /\ failures' \in [Tasks -> 0..MaxRetry] /\ failures'[k] = f
      /\ \A l \in Tasks \ {k} : failures'[l] = failures[l]
  BY <1>2, <1>3, <1>4
<1>6. \A l \in Tasks : failures'[l] = failures[l] \/ (failures'[l] = failures[l] + 1 /\ failures[l] < MaxRetry)
  BY <1>2, <1>3, <1>5
<1>7. n + 1 <= failures'[k] \/ failures'[k] = MaxRetry
  <2>1. failures[k] \in 0..MaxRetry
    BY <1>2
  <2>2. QED
    BY <1>2, <1>3, <1>5, <2>1
<1>8. FAILED \in {PRINTED, FAILED} /\ UNCHANGED <<first, asked, now, overlaid, prints, crashes>>
  BY <1>1
<1>9. QED
  BY <1>1, <1>2, <1>5, <1>6, <1>7, <1>8, AnswerStep

LEMMA FirstAnswerStep ==
  ASSUME PrintInv, NEW k \in Tasks, FirstAnswer(k)
  PROVE  PrintInv'
<1>1. PICK s \in {PRINTED, FAILED} : task' = [task EXCEPT ![k] = Row(s, task[k].retry, 0)]
  BY DEF FirstAnswer
<1>2. /\ first[k] > 0 /\ first' = [first EXCEPT ![k] = first[k] - 1]
      /\ UNCHANGED <<calls, asked, now, failures, overlaid, prints, crashes>>
  BY DEF FirstAnswer
<1>3. Out(k) /\ Exists(k) /\ task[k].retry \in 0..MaxRetry
  BY <1>2, RowAt DEF Out, PrintInv
<1>4. PICK new \in RowType : new # NoTask /\ new.state = s /\ new.retry = task[k].retry
                             /\ task' = [task EXCEPT ![k] = new]
  <2>1. PICK r \in 0..MaxRetry : r = task[k].retry
    BY <1>3
  <2>2. /\ Row(s, r, 0) \in RowType /\ Row(s, r, 0) # NoTask
        /\ Row(s, r, 0).state = s /\ Row(s, r, 0).retry = r
    BY Rows, Facts
  <2>3. QED
    BY <1>1, <2>1, <2>2
<1>5. /\ task \in [Tasks -> RowType \cup {NoTask}] /\ first \in [Tasks -> Nat]
      /\ calls \in [Tasks -> [Captured -> Nat]]
  BY DEF PrintInv, TypeOK
<1>6. /\ task' \in [Tasks -> RowType \cup {NoTask}] /\ task'[k] = new
      /\ \A l \in Tasks \ {k} : task'[l] = task[l]
  BY <1>4, <1>5
<1>7. first' \in [Tasks -> Nat] /\ first'[k] = first[k] - 1 /\ \A l \in Tasks \ {k} : first'[l] = first[l]
  <2>1. first[k] - 1 \in Nat
    BY <1>2, <1>5
  <2>2. QED
    BY <1>2, <1>5, <2>1
<1>8. TypeOK'
  BY <1>2, <1>6, <1>7 DEF PrintInv, TypeOK
<1>9. ASSUME NEW l \in Tasks PROVE (Out(l) => Exists(l))' /\ Covered(l)'
  <2>1. Exists(l)' <=> Exists(l)
    BY <1>3, <1>4, <1>6 DEF Exists
  <2>2. Exists(l) => task'[l].retry = task[l].retry
    BY <1>4, <1>6
  <2>3. Out(l)' => Out(l)
    BY <1>2, <1>7 DEF Out
  <2>4. QED
    BY <1>2, <2>1, <2>2, <2>3 DEF PrintInv, Covered, Failed
<1>10. ASSUME NEW l \in Tasks \ overlaid' PROVE Lone(l)'
  <2>1. l \in Tasks \ overlaid /\ Lone(l)
    BY <1>2 DEF PrintInv
  <2>2. CASE l = k
    <3>1. first[k] = 1 /\ ~Called(k) /\ ~AskedFor(k)
      BY <1>2, <1>5, <2>1, <2>2 DEF Lone
    <3>2. first'[k] = 0 /\ ~Called(k)' /\ ~AskedFor(k)'
      BY <1>2, <1>7, <3>1 DEF Called, AskedFor
    <3>3. QED
      BY <1>2, <2>1, <2>2, <3>2 DEF Lone, Called, AskedFor, Out
  <2>3. CASE l # k
    <3>1. first'[l] = first[l] /\ task'[l] = task[l]
      BY <1>6, <1>7, <2>1, <2>3
    <3>2. QED
      BY <1>2, <2>1, <3>1 DEF Lone, Called, AskedFor, Exists, Out
  <2>4. QED
    BY <2>2, <2>3
<1>11. QED
  BY <1>8, <1>9, <1>10 DEF PrintInv

-----------------------------------------------------------------------------
(* Time, restarts, and the theorems *)

LEMMA TickStep ==
  ASSUME PrintInv, Tick
  PROVE  PrintInv'
<1>1. /\ now' = {} /\ UNCHANGED <<first, calls, asked, failures, overlaid, prints, crashes>>
      /\ task' = [k \in Tasks |->
            IF Exists(k) /\ task[k].age < Stale THEN [task[k] EXCEPT !.age = task[k].age + 1] ELSE task[k]]
  BY DEF Tick
<1>2. ASSUME NEW k \in Tasks
      PROVE  /\ task'[k] \in RowType \cup {NoTask} /\ (Exists(k)' <=> Exists(k))
             /\ Exists(k) => (task'[k].state = task[k].state /\ task'[k].retry = task[k].retry)
  <2>1. CASE Exists(k) /\ task[k].age < Stale
    <3>1. task[k] \in RowType /\ task[k].age + 1 \in 0..Stale
      BY <2>1, RowAt, Facts
    <3>2. PICK new : new = [task[k] EXCEPT !.age = task[k].age + 1]
      OBVIOUS
    <3>3. new \in RowType /\ new.state = task[k].state /\ new.retry = task[k].retry
      BY <3>1, <3>2 DEF RowType
    <3>4. QED
      BY <1>1, <2>1, <3>2, <3>3, Facts DEF Exists
  <2>2. CASE ~(Exists(k) /\ task[k].age < Stale)
    BY <1>1, <2>2 DEF Exists, PrintInv, TypeOK
  <2>3. QED
    BY <2>1, <2>2
<1>3. TypeOK'
  <2>1. task' \in [Tasks -> RowType \cup {NoTask}]
    BY <1>1, <1>2
  <2>2. QED
    BY <1>1, <2>1 DEF PrintInv, TypeOK
<1>4. ASSUME NEW k \in Tasks PROVE (Out(k) => Exists(k))' /\ Covered(k)'
  <2>1. Out(k)' <=> Out(k)
    BY <1>1 DEF Out
  <2>2. QED
    BY <1>1, <1>2, <2>1 DEF PrintInv, Covered, Failed
<1>5. ASSUME NEW k \in Tasks \ overlaid' PROVE Lone(k)'
  <2>1. Lone(k) /\ (Out(k)' <=> Out(k))
    BY <1>1 DEF PrintInv, Out
  <2>2. QED
    BY <1>1, <1>2, <2>1 DEF Lone, Called, AskedFor
<1>6. QED
  BY <1>3, <1>4, <1>5 DEF PrintInv

LEMMA CrashStep ==
  ASSUME PrintInv, Crash
  PROVE  PrintInv'
<1>1. /\ first' = [k \in Tasks |-> 0] /\ calls' = [k \in Tasks |-> [n \in Captured |-> 0]]
      /\ asked' = [t \in Threads |-> NoTask] /\ crashes' = crashes + 1
      /\ UNCHANGED <<task, now, failures, overlaid, prints>>
  BY DEF Crash
<1>2. TypeOK'
  <2>1. crashes + 1 \in Nat
    BY DEF PrintInv, TypeOK
  <2>2. QED
    BY <1>1, <2>1 DEF PrintInv, TypeOK
<1>3. ASSUME NEW k \in Tasks PROVE ~Out(k)' /\ ~Called(k)' /\ ~AskedFor(k)' /\ first'[k] = 0
  <2>1. k # NoTask
    BY Facts
  <2>2. \A n \in Captured : calls'[k][n] = 0
    BY <1>1
  <2>3. QED
    BY <1>1, <2>1, <2>2 DEF Out, Called, AskedFor
<1>4. ASSUME NEW k \in Tasks PROVE Covered(k)'
  BY <1>1 DEF PrintInv, Covered, Failed, Exists
<1>5. ASSUME NEW k \in Tasks PROVE Lone(k)'
  <2>1. \A n \in Captured : calls'[k][n] = 0
    BY <1>1
  <2>2. QED
    BY <1>3, <2>1 DEF Lone, Called, AskedFor
<1>6. QED
  BY <1>2, <1>3, <1>4, <1>5 DEF PrintInv

LEMMA InitInv ==
  ASSUME Init
  PROVE  PrintInv
<1>1. TypeOK
  <2>1. [n \in Captured |-> 0] \in [Captured -> Nat] /\ 0 \in 0..MaxRetry
    BY Facts
  <2>2. QED
    BY <2>1 DEF Init, TypeOK
<1>2. ASSUME NEW k \in Tasks
      PROVE  /\ ~Exists(k) /\ first[k] = 0 /\ (\A n \in Captured : calls[k][n] = 0)
             /\ \A t \in Threads : asked[t] # k
  BY Facts DEF Init, Exists
<1>3. QED
  BY <1>1, <1>2 DEF PrintInv, Out, Covered, Lone, Called, AskedFor

LEMMA NextKeeps ==
  ASSUME PrintInv, [Next]_vars
  PROVE  PrintInv'
<1>1. CASE UNCHANGED vars
  <2>1. UNCHANGED <<task, first, calls, asked, now, failures, overlaid, prints, crashes>>
    BY <1>1 DEF vars
  <2>2. TypeOK'
    BY <2>1 DEF PrintInv, TypeOK
  <2>3. ASSUME NEW k \in Tasks
        PROVE  (Out(k) => Exists(k))' /\ Covered(k)' /\ (k \notin overlaid' => Lone(k)')
    BY <2>1 DEF PrintInv, Out, Exists, Covered, Failed, Lone, Called, AskedFor
  <2>4. QED
    BY <2>2, <2>3 DEF PrintInv
<1>2. CASE \E t \in Threads : CloudCall(t) \/ \E k \in Tasks : CloudPrint(t, k)
  BY <1>2, CloudCallStep, CloudPrintStep
<1>3. CASE \E k \in Tasks : Answer(k)
  BY <1>3, FirstAnswerStep, PrintedStep, NotPrintedStep DEF Answer
<1>4. QED
  BY <1>1, <1>2, <1>3, ProcessPendingStep, TickStep, CrashStep DEF Next

LEMMA AlwaysInv == Spec => []PrintInv
<1>1. Init => PrintInv
  BY InitInv
<1>2. PrintInv /\ [Next]_vars => PrintInv'
  BY NextKeeps
<1>3. QED
  BY <1>1, <1>2, PTL DEF Spec

\* The table, the calls and the counts keep their types: no attempt is counted
\* past MAX_RETRY.
THEOREM PrintTypes == Spec => []TypeOK
<1>1. PrintInv => TypeOK
  BY DEF PrintInv
<1>2. QED
  BY <1>1, AlwaysInv, PTL

\* processPending gives no task up before MAX_RETRY of its calls have failed, for
\* every number of tasks, threads, attempts and overlapping calls.
THEOREM NotGivenUpEarly == Spec => []GivenUpAfterMaxFailures
<1>1. PrintInv => GivenUpAfterMaxFailures
  <2> SUFFICES ASSUME PrintInv, NEW k \in Tasks, GivenUp(k)
               PROVE  failures[k] = MaxRetry
    BY DEF GivenUpAfterMaxFailures
  <2>1. failures[k] \in 0..MaxRetry /\ MaxRetry \in Nat
    BY Facts DEF PrintInv, TypeOK
  <2>2. MaxRetry <= failures[k] \/ failures[k] = MaxRetry
    BY DEF PrintInv, Covered, Failed, GivenUp
  <2>3. QED
    BY <2>1, <2>2
<1>2. QED
  BY <1>1, AlwaysInv, PTL

\* Two calls of a task are out together only where the rule for stale tasks or a
\* second request within the second has put them.
THEOREM CallsStayApart == Spec => []CallsApart
<1>1. PrintInv => CallsApart
  <2> SUFFICES ASSUME PrintInv, NEW k \in Tasks, k \notin overlaid, TwoOut(k)
               PROVE  FALSE
    BY DEF CallsApart
  <2>1. Lone(k) /\ first[k] \in Nat /\ \A n \in Captured : calls[k][n] \in Nat
    BY DEF PrintInv, TypeOK
  <2>2. QED
    BY <2>1 DEF TwoOut, Lone, Called
<1>2. QED
  BY <1>1, AlwaysInv, PTL

\* What is printed or given up is left alone, where its calls have not overlapped.
THEOREM EndForGood == Spec => EndIsKept
<1>1. ASSUME PrintInv, [Next]_vars, NEW k \in Tasks, Ended(k), k \notin overlaid
      PROVE  task'[k].state = task[k].state
  <2>1. ~Out(k) /\ Exists(k) /\ task[k].state # QUEUED
    BY <1>1, States DEF PrintInv, Lone, Ended, GivenUp
  <2>2. k \notin FailedTasks /\ k \notin StaleTasks
    BY <1>1, <2>1, States, Facts DEF Ended, GivenUp, FailedTasks, StaleTasks
  <2>3. task \in [Tasks -> RowType \cup {NoTask}]
    BY <1>1 DEF PrintInv, TypeOK
  <2>4. CASE UNCHANGED vars
    BY <2>4 DEF vars
  <2>5. CASE \E t \in Threads : CloudCall(t) \/ \E l \in Tasks : CloudPrint(t, l)
    <3>1. ASSUME NEW t \in Threads, NEW l \in Tasks, CloudPrint(t, l) PROVE task'[k] = task[k]
      BY <2>1, <2>3, <3>1 DEF CloudPrint
    <3>2. QED
      BY <2>5, <3>1 DEF CloudCall
  <2>6. CASE ProcessPending
    <3>1. PICK F \in Oldest(FailedTasks) :
            task' = [l \in Tasks |-> IF l \in F THEN Row(QUEUED, task[l].retry, 0) ELSE task[l]]
      BY <2>6 DEF ProcessPending
    <3>2. k \notin F
      BY <2>2, <3>1 DEF Oldest
    <3>3. QED
      BY <3>1, <3>2
  <2>7. CASE \E l \in Tasks : Answer(l)
    <3>1. PICK l \in Tasks : Answer(l)
      BY <2>7
    <3>2. Out(l)
      BY <3>1 DEF Answer, FirstAnswer, Printed, NotPrinted, Out
    <3>3. k # l
      BY <2>1, <3>2
    <3>4. QED
      BY <2>3, <3>1, <3>3 DEF Answer, FirstAnswer, Printed, NotPrinted
  <2>8. CASE Tick
    <3>1. task'[k] = task[k] \/ (task'[k] = [task[k] EXCEPT !.age = task[k].age + 1] /\ task[k] \in RowType)
      BY <2>1, <2>3, <2>8 DEF Tick, Exists
    <3>2. QED
      BY <3>1 DEF RowType
  <2>9. CASE Crash
    BY <2>9 DEF Crash
  <2>10. QED
    BY <1>1, <2>4, <2>5, <2>6, <2>7, <2>8, <2>9 DEF Next
<1>2. PrintInv /\ [Next]_vars => [\A k \in Tasks : Ended(k) /\ k \notin overlaid => task'[k].state = task[k].state]_vars
  BY <1>1
<1>3. QED
  BY <1>2, AlwaysInv, PTL DEF Spec, EndIsKept
=============================================================================
