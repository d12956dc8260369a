---------------------------- MODULE RefundProofs ----------------------------
(***************************************************************************)
(* Theorems about Refund: a refund that is done has been charged and stays *)
(* done, its fee is given back once, what is refunded stays within what    *)
(* was paid, the two books of refunds agree, and frozen money belongs to   *)
(* frozen orders, whatever else is going on at other orders and wherever   *)
(* the process is restarted.                                               *)
(***************************************************************************)
EXTENDS Refund, SumProofs, TLAPS

-----------------------------------------------------------------------------
(* The inductive invariant. *)

\* A handler whose row is not inserted yet; a handler that has still to charge.
Unborn(j) == j.pc \in {"sum", "insert"}
Owing(j) == j.kind \in Sources /\ j.pc \in {"order", "channel", "money"}
Owed(r) == \E t \in Threads : job[t] # NoJob /\ Owing(job[t]) /\ job[t].ref = r

StepsOf(j) ==
  /\ j.kind \in {"gateway", "api"} => j.pc \in {"insert", "order", "money"}
  /\ j.kind = "apply" => j.pc # "order"
  /\ j.kind = "retry" => j.pc \in {"channel", "final"}
  /\ j.kind = "notify" => j.pc \in {"final", "money"}
  /\ j.kind \in {"freeze", "unfreeze"} => j.pc \in {"money", "final"} /\ j.ref = NoRow
  /\ j.kind \notin {"freeze", "unfreeze"} => j.ref \in Refunds
  /\ j.kind \in Sources => j.amount \in Amounts

\* A handler has its row, the channel it needs, and its charge before it.
Steady(j) ==
  /\ StepsOf(j)
  /\ Unborn(j) => refund[j.ref] = NoRow
  /\ ~Unborn(j) /\ j.ref \in Refunds => refund[j.ref] # NoRow /\ refund[j.ref].order = j.order
  /\ j.pc = "channel" \/ j.kind \in {"retry", "notify"} => order[j.order].channel
  /\ Owing(j) =>
       /\ refund[j.ref].amount = j.amount /\ refund[j.ref].fee = Fee(j)
       /\ charged[j.ref] = 0
       /\ ~order[j.order].channel => refund[j.ref].state = "pending"
  /\ j.kind = "apply" /\ j.pc = "final" /\ ~order[j.order].channel =>
       charged[j.ref] = refund[j.ref].amount - refund[j.ref].fee

\* Two handlers never book one refund, and none shares an order unnoticed.
Apart ==
  \A t, u \in Threads :
    t # u /\ job[t] # NoJob /\ job[u] # NoJob =>
      /\ job[t].kind \in Sources /\ job[u].kind \in Sources => job[t].ref # job[u].ref
      /\ job[t].order = job[u].order => "raced" \in doubt[job[t].order]

\* What a handler that has its order to itself knows of its refund.
Settled(j) ==
  "raced" \notin doubt[j.order] =>
    /\ j.kind = "retry" \/ (j.kind = "notify" /\ j.pc = "final") \/ (j.kind = "apply" /\ ~Unborn(j)) =>
         refund[j.ref].state # "done"
    /\ j.kind = "notify" /\ j.pc = "money" =>
         refund[j.ref].state = "done" /\ feeBack[j.ref] = 0

\* What the log says of a refund.
Booked(r) ==
  /\ refund[r] = NoRow => charged[r] = 0 /\ feeBack[r] = 0
  /\ r \in known => refund[r] # NoRow /\ order[refund[r].order].channel
  /\ refund[r] # NoRow /\ "raced" \notin doubt[refund[r].order] =>
       feeBack[r] <= 1 /\ (refund[r].state # "done" => feeBack[r] = 0)
  /\ refund[r] # NoRow /\ doubt[refund[r].order] \cap {"revived", "charge"} = {} /\ ~Owed(r) =>
       \/ refund[r].state = "failed"
       \/ charged[r] = refund[r].amount - refund[r].fee
       \/ refund[r].state = "pending" /\ ~order[refund[r].order].channel

RefundInv ==
  /\ TypeOK
  /\ \A t \in Threads : job[t] # NoJob => Steady(job[t]) /\ Settled(job[t])
  /\ Apart
  /\ \A r \in Refunds : Booked(r)

-----------------------------------------------------------------------------
(* One thread takes a step. *)

\* What every step of a thread leaves alone: other threads, other refunds, the
\* rows it has found and the marks of doubt.
Local(t) ==
  LET j == job[t]
  IN  /\ j # NoJob
      /\ \A u \in Threads \ {t} : job'[u] = job[u]
      /\ job'[t] # NoJob =>
           /\ job'[t].kind = j.kind /\ job'[t].order = j.order
           /\ job'[t].ref = j.ref /\ job'[t].amount = j.amount
      /\ \A r \in Refunds \ {j.ref} :
           refund'[r] = refund[r] /\ charged'[r] = charged[r] /\ feeBack'[r] = feeBack[r]
      /\ known \subseteq known' /\ known' \subseteq known \cup {j.ref}
      /\ \A o \in Orders : order'[o].channel = order[o].channel /\ doubt[o] \subseteq doubt'[o]
      /\ j.ref \in Refunds /\ refund[j.ref] # NoRow =>
           /\ refund'[j.ref] # NoRow
           /\ refund'[j.ref].order = refund[j.ref].order
           /\ refund'[j.ref].amount = refund[j.ref].amount
           /\ refund'[j.ref].fee = refund[j.ref].fee
           /\ j.kind \notin Sources =>
                /\ charged'[j.ref] = charged[j.ref]
                /\ refund'[j.ref].state = refund[j.ref].state \/ order[j.order].channel

LEMMA LocalKeeps ==
  ASSUME RefundInv, NEW t \in Threads, Local(t), TypeOK',
         job'[t] # NoJob => Steady(job[t])' /\ Settled(job[t])',
         \A r \in Refunds : r = job[t].ref => Booked(r)'
  PROVE  RefundInv'
<1>1. job[t] # NoJob /\ Steady(job[t]) /\ job[t] \in Job
  BY DEF Local, RefundInv, TypeOK
<1>2. ASSUME NEW u \in Threads, job'[u] # NoJob PROVE Steady(job[u])' /\ Settled(job[u])'
  <2>1. CASE u = t
    BY <1>2, <2>1
  <2>2. CASE u # t
    <3>1. job'[u] = job[u] /\ Steady(job[u]) /\ Settled(job[u]) /\ job[u] \in Job
      BY <1>2, <2>2 DEF Local, RefundInv, TypeOK
    <3>2. job[u].order \in Orders /\ job[t].order \in Orders
      BY <1>1, <3>1 DEF Job
    <3>3. CASE job[u].ref # job[t].ref
      <4>1. job[u].ref \in Refunds =>
              /\ refund'[job[u].ref] = refund[job[u].ref]
              /\ charged'[job[u].ref] = charged[job[u].ref] /\ feeBack'[job[u].ref] = feeBack[job[u].ref]
        BY <3>3 DEF Local
      <4>2. order'[job[u].order].channel = order[job[u].order].channel
            /\ ("raced" \notin doubt'[job[u].order] => "raced" \notin doubt[job[u].order])
        BY <3>2 DEF Local
      <4>3. Steady(job[u])'
        BY <3>1, <4>1, <4>2 DEF Steady, StepsOf, Unborn, Owing, Fee, Sources
      <4>4. Settled(job[u])'
        BY <3>1, <4>1, <4>2 DEF Settled, Steady, StepsOf, Unborn
      <4>5. QED
        BY <4>3, <4>4
    <3>4. CASE job[u].ref = job[t].ref /\ job[u].ref \in Refunds
      <4>1. ~(job[t].kind \in Sources /\ job[u].kind \in Sources)
        BY <1>1, <1>2, <2>2, <3>1, <3>4 DEF RefundInv, Apart
      <4>2. ~Unborn(job[u]) /\ ~Unborn(job[t])
        BY <1>1, <3>1, <3>4, <4>1 DEF Steady, StepsOf, Unborn, Job, Kinds, Sources
      <4>3. refund[job[u].ref] # NoRow /\ job[u].order = job[t].order
        BY <1>1, <3>1, <3>4, <4>2 DEF Steady
      <4>4. "raced" \in doubt'[job[u].order] /\ order'[job[u].order].channel = order[job[u].order].channel
        BY <1>1, <1>2, <2>2, <3>1, <3>2, <4>3 DEF RefundInv, Apart, Local
      <4>5. Settled(job[u])'
        BY <3>1, <4>4 DEF Settled
      <4>6. /\ refund'[job[u].ref] # NoRow
            /\ refund'[job[u].ref].order = refund[job[u].ref].order
            /\ refund'[job[u].ref].amount = refund[job[u].ref].amount
            /\ refund'[job[u].ref].fee = refund[job[u].ref].fee
        BY <3>4, <4>3 DEF Local
      <4>7. job[u].kind \in Sources =>
              /\ charged'[job[u].ref] = charged[job[u].ref]
              /\ refund'[job[u].ref].state = refund[job[u].ref].state \/ order[job[u].order].channel
        BY <3>4, <4>1, <4>3 DEF Local
      <4>8. Steady(job[u])'
        BY <3>1, <4>2, <4>3, <4>4, <4>6, <4>7 DEF Steady, StepsOf, Unborn, Owing, Fee, Sources
      <4>9. QED
        BY <4>5, <4>8
    <3>5. CASE job[u].ref \notin Refunds
      <4>1. order'[job[u].order].channel = order[job[u].order].channel
        BY <3>2 DEF Local
      <4>2. job[u].kind \in {"freeze", "unfreeze"} /\ ~Unborn(job[u])
        BY <3>1, <3>5 DEF Steady, StepsOf, Unborn, Job, Kinds
      <4>3. QED
        BY <3>1, <3>5, <4>1, <4>2 DEF Steady, StepsOf, Settled, Owing, Sources, Unborn
    <3>6. QED
      BY <3>3, <3>4, <3>5
  <2>3. QED
    BY <2>1, <2>2
<1>3. Apart'
  <2>1. SUFFICES ASSUME NEW u \in Threads, NEW v \in Threads,
                        u # v, job'[u] # NoJob, job'[v] # NoJob
                 PROVE  /\ job'[u].kind \in Sources /\ job'[v].kind \in Sources => job'[u].ref # job'[v].ref
                        /\ job'[u].order = job'[v].order => "raced" \in doubt'[job'[u].order]
    BY DEF Apart
  <2>2. /\ job[u] # NoJob /\ job'[u].kind = job[u].kind /\ job'[u].ref = job[u].ref /\ job'[u].order = job[u].order
        /\ job[v] # NoJob /\ job'[v].kind = job[v].kind /\ job'[v].ref = job[v].ref /\ job'[v].order = job[v].order
    BY <2>1 DEF Local
  <2>3. job[u].order \in Orders
    BY <2>2 DEF RefundInv, TypeOK, Job
  <2>4. QED
    BY <2>1, <2>2, <2>3 DEF RefundInv, Apart, Local
<1>4. ASSUME NEW r \in Refunds PROVE Booked(r)'
  <2>1. CASE r = job[t].ref
    BY <2>1
  <2>2. CASE r # job[t].ref
    <3>1. refund'[r] = refund[r] /\ charged'[r] = charged[r] /\ feeBack'[r] = feeBack[r] /\ (r \in known' <=> r \in known)
      BY <2>2 DEF Local
    <3>2. Owed(r)' <=> Owed(r)
      BY <2>2 DEF Owed, Local
    <3>3. Booked(r)
      BY DEF RefundInv
    <3>4. refund[r] # NoRow => refund[r].order \in Orders
      BY DEF RefundInv, TypeOK, Rows
    <3>5. refund[r] # NoRow =>
            /\ order'[refund[r].order].channel = order[refund[r].order].channel
            /\ doubt[refund[r].order] \subseteq doubt'[refund[r].order]
      BY <3>4 DEF Local
    <3>6. QED
      BY <3>1, <3>2, <3>3, <3>5 DEF Booked
  <2>3. QED
    BY <2>1, <2>2
<1>5. QED
  BY <1>2, <1>3, <1>4 DEF RefundInv

\* A request arrives: a thread that was idle has a job.
LEMMA BeginKeeps ==
  ASSUME RefundInv, NEW t \in Threads, NEW kind \in Kinds, NEW o \in Orders,
         NEW r \in Refunds \cup {NoRow}, NEW a \in Nat,
         NEW pc \in {"sum", "insert", "channel", "money", "final"},
         Begin(t, kind, o, r, a, pc),
         kind \in Sources => pc \in {"sum", "insert"} /\ \A u \in Threads : job[u] # NoJob => job[u].ref # r,
         \A j \in Job :
           j.kind = kind /\ j.order = o /\ j.ref = r /\ j.amount = a /\ j.pc = pc => Steady(j) /\ Settled(j)
  PROVE  RefundInv'
<1>0. PICK j : j = [kind |-> kind, order |-> o, ref |-> r, amount |-> a, state |-> order[o].state,
                    refunded |-> order[o].refunded, answer |-> "pending", pc |-> pc]
  OBVIOUS
<1>1. /\ job' = [job EXCEPT ![t] = j] /\ job[t] = NoJob
      /\ doubt' = [doubt EXCEPT ![o] = @ \cup (IF Busy(o) THEN {"raced"} ELSE {})]
      /\ UNCHANGED <<order, refund, balance, frozen, charged, feeBack, held, known, crashes>>
      /\ requests' = requests + 1
  BY <1>0 DEF Begin, Doubted, tables
<1>2. order[o] \in OrderRows
  BY DEF RefundInv, TypeOK
<1>3. j \in Job
  BY <1>0, <1>2 DEF Job, OrderRows
<1>4. TypeOK'
  <2>1. job' \in [Threads -> Job \cup {NoJob}]
    BY <1>1, <1>3 DEF RefundInv, TypeOK
  <2>2. doubt' \in [Orders -> SUBSET Doubts]
    BY <1>1 DEF RefundInv, TypeOK, Doubts
  <2>3. QED
    BY <1>1, <2>1, <2>2 DEF RefundInv, TypeOK
<1>5. /\ j.kind = kind /\ j.order = o /\ j.ref = r /\ j.pc = pc
      /\ Steady(j) /\ Settled(j)
  BY <1>0, <1>3
<1>6. /\ \A p \in Orders : doubt[p] \subseteq doubt'[p]
      /\ Busy(o) => "raced" \in doubt'[o]
  BY <1>1 DEF RefundInv, TypeOK
<1>7. ASSUME NEW u \in Threads, job'[u] # NoJob PROVE Steady(job[u])' /\ Settled(job[u])'
  <2>1. CASE u = t
    <3>1. job'[u] = j
      BY <1>1, <2>1 DEF RefundInv, TypeOK
    <3>2. Steady(job[u])'
      BY <1>1, <1>5, <3>1 DEF Steady, StepsOf, Unborn, Owing, Fee, Sources
    <3>3. Settled(job[u])'
      BY <1>1, <1>5, <1>6, <3>1 DEF Settled, Unborn
    <3>4. QED
      BY <3>2, <3>3
  <2>2. CASE u # t
    <3>1. job'[u] = job[u] /\ Steady(job[u]) /\ Settled(job[u]) /\ job[u].order \in Orders
      BY <1>1, <1>7, <2>2 DEF RefundInv, TypeOK, Job
    <3>2. Steady(job[u])'
      BY <1>1, <3>1 DEF Steady, StepsOf, Unborn, Owing, Fee, Sources
    <3>3. Settled(job[u])'
      BY <1>1, <1>6, <3>1 DEF Settled, Unborn
    <3>4. QED
      BY <3>2, <3>3
  <2>3. QED
    BY <2>1, <2>2
<1>8. Apart'
  <2>1. \A u \in Threads : job'[u] = IF u = t THEN j ELSE job[u]
    BY <1>1 DEF RefundInv, TypeOK
  <2>2. \A u \in Threads \ {t} : job[u] # NoJob =>
          /\ kind \in Sources => job[u].ref # r
          /\ job[u].order = o => "raced" \in doubt'[o]
          /\ job[u].order \in Orders
    BY <1>6 DEF Busy, OnOrder, RefundInv, TypeOK, Job
  <2>3. QED
    BY <1>5, <1>6, <2>1, <2>2 DEF RefundInv, Apart
<1>9. ASSUME NEW q \in Refunds PROVE Booked(q)'
  <2>1. Booked(q) /\ (refund[q] # NoRow => refund[q].order \in Orders)
    BY DEF RefundInv, TypeOK, Rows
  <2>2. Owed(q)' <=> Owed(q)
    <3>1. \A u \in Threads : job'[u] = IF u = t THEN j ELSE job[u]
      BY <1>1 DEF RefundInv, TypeOK
    <3>2. ~Owing(j) /\ job[t] = NoJob
      BY <1>1, <1>5 DEF Owing
    <3>3. QED
      BY <3>1, <3>2 DEF Owed, Owing
  <2>3. QED
    BY <1>1, <1>6, <2>1, <2>2 DEF Booked
<1>10. QED
  BY <1>4, <1>7, <1>8, <1>9 DEF RefundInv

LEMMA Numbers == ASSUME RefundInv PROVE
  /\ Amounts \subseteq Nat /\ \A o \in Orders : Income[o] \in Nat
  /\ \A r \in Refunds : refund[r] # NoRow => refund[r] \in Rows
  /\ Fresh \subseteq Refunds
  /\ NoRow \notin Refunds
BY RefundAssumption, RefundNullAssumption DEF RefundInv, TypeOK, Fresh

\* A booking begins with a number nobody has.
LEMMA BookingBegins ==
  ASSUME RefundInv, NEW t \in Threads, NEW kind \in Sources, NEW o \in Orders,
         NEW a \in Amounts, NEW r \in Fresh, Begin(t, kind, o, r, a, IF kind = "apply" THEN "sum" ELSE "insert")
  PROVE  RefundInv'
<1>1. PICK pc : /\ pc = IF kind = "apply" THEN "sum" ELSE "insert"
                /\ Begin(t, kind, o, r, a, pc)
  OBVIOUS
<1>2. pc \in {"sum", "insert"} /\ (kind # "apply" => pc = "insert")
  BY <1>1
<1>3. r \in Refunds /\ refund[r] = NoRow /\ \A u \in Threads : job[u] # NoJob => job[u].ref # r
  BY Numbers DEF Fresh
<1>4. ASSUME NEW j \in Job, j.kind = kind, j.order = o, j.ref = r, j.amount = a, j.pc = pc
      PROVE  Steady(j) /\ Settled(j)
  BY <1>2, <1>3, <1>4 DEF Steady, StepsOf, Settled, Unborn, Owing, Sources
<1>5. kind \in Kinds /\ a \in Nat
  BY Numbers DEF Kinds
<1>6. QED
  BY <1>1, <1>2, <1>3, <1>4, <1>5, BeginKeeps

\* The channel is asked again, or reports.
LEMMA ChannelBegins ==
  ASSUME RefundInv, NEW t \in Threads, NEW r \in Refunds,
         refund[r] # NoRow, refund[r].state # "done", order[refund[r].order].channel,
         NEW kind \in {"retry", "notify"}, NEW pc \in {"channel", "final"}, kind = "notify" => pc = "final",
         Begin(t, kind, refund[r].order, r, refund[r].amount, pc)
  PROVE  RefundInv'
<1>1. refund[r].order \in Orders /\ refund[r].amount \in Nat
  BY Numbers DEF Rows
<1>2. ASSUME NEW j \in Job, j.kind = kind, j.order = refund[r].order, j.ref = r, j.amount = refund[r].amount, j.pc = pc
      PROVE  Steady(j) /\ Settled(j)
  BY <1>2 DEF Steady, StepsOf, Settled, Unborn, Owing, Sources
<1>3. kind \in Kinds /\ kind \notin Sources
  BY DEF Kinds, Sources
<1>4. QED
  BY <1>1, <1>2, <1>3, BeginKeeps

LEMMA FreezingBegins ==
  ASSUME RefundInv, NEW t \in Threads, NEW o \in Orders, NEW kind \in {"freeze", "unfreeze"},
         Begin(t, kind, o, NoRow, Income[o], "money")
  PROVE  RefundInv'
<1>1. ASSUME NEW j \in Job, j.kind = kind, j.order = o, j.ref = NoRow, j.amount = Income[o], j.pc = "money"
      PROVE  Steady(j) /\ Settled(j)
  BY <1>1, Numbers DEF Steady, StepsOf, Settled, Unborn, Owing, Sources
<1>2. kind \in Kinds /\ kind \notin Sources /\ Income[o] \in Nat
  BY Numbers DEF Kinds, Sources
<1>3. QED
  BY <1>1, <1>2, BeginKeeps

LEMMA ArriveStep ==
  ASSUME RefundInv, NEW t \in Threads, Arrive(t)
  PROVE  RefundInv'
<1>1. ASSUME NEW o \in Orders, Freeze(t, o) \/ Unfreeze(t, o) PROVE RefundInv'
  BY <1>1, FreezingBegins DEF Freeze, Unfreeze
<1>2. ASSUME NEW o \in Orders, NEW a \in Amounts, Apply(t, o, a) \/ Gateway(t, o, a) \/ Api(t, o, a)
      PROVE  RefundInv'
  <2>1. CASE Apply(t, o, a)
    <3>1. PICK r \in Fresh : Begin(t, "apply", o, r, a, "sum")
      BY <2>1 DEF Apply
    <3>2. QED
      BY <3>1, BookingBegins DEF Sources
  <2>2. CASE Gateway(t, o, a)
    <3>1. PICK r \in Fresh : Begin(t, "gateway", o, r, a, "insert")
      BY <2>2 DEF Gateway
    <3>2. QED
      BY <3>1, BookingBegins DEF Sources
  <2>3. CASE Api(t, o, a)
    <3>1. PICK r \in Fresh : Begin(t, "api", o, r, a, "insert")
      BY <2>3 DEF Api
    <3>2. QED
      BY <3>1, BookingBegins DEF Sources
  <2>4. QED
    BY <1>2, <2>1, <2>2, <2>3
<1>3. ASSUME NEW r \in Refunds, Retry(t, r) \/ Notify(t, r) PROVE RefundInv'
  <2>1. CASE Retry(t, r)
    BY <2>1, ChannelBegins DEF Retry
  <2>2. CASE Notify(t, r)
    <3>1. order[refund[r].order].channel
      BY <2>2 DEF Notify, RefundInv, Booked
    <3>2. QED
      BY <2>2, <3>1, ChannelBegins DEF Notify
  <2>3. QED
    BY <1>3, <2>1, <2>2
<1>4. QED
  BY <1>1, <1>2, <1>3 DEF Arrive

-----------------------------------------------------------------------------
(* The steps of a handler. *)

LEMMA JobAt ==
  ASSUME RefundInv, NEW t \in Threads, job[t] # NoJob
  PROVE  /\ job[t] \in Job /\ Steady(job[t]) /\ Settled(job[t])
         /\ job[t].order \in Orders
         /\ ~Unborn(job[t]) /\ job[t].ref \in Refunds =>
              refund[job[t].ref] \in Rows /\ refund[job[t].ref].order = job[t].order
         /\ job[t].ref \in Refunds => Booked(job[t].ref)
BY DEF RefundInv, TypeOK, Job, Steady

\* The job goes on, or ends.
LEMMA GoToJob ==
  ASSUME RefundInv, NEW t \in Threads, job[t] # NoJob,
         NEW pc \in {"sum", "insert", "order", "channel", "money", "final"}, GoTo(t, pc)
  PROVE  /\ job' \in [Threads -> Job \cup {NoJob}]
         /\ \A u \in Threads \ {t} : job'[u] = job[u]
         /\ job'[t] \in Job /\ job'[t] # NoJob
         /\ job'[t].kind = job[t].kind /\ job'[t].order = job[t].order /\ job'[t].ref = job[t].ref
         /\ job'[t].amount = job[t].amount /\ job'[t].answer = job[t].answer /\ job'[t].pc = pc
<1>1. PICK j : j = [job[t] EXCEPT !.pc = pc]
  OBVIOUS
<1>2. j \in Job /\ j.kind = job[t].kind /\ j.order = job[t].order /\ j.ref = job[t].ref
      /\ j.amount = job[t].amount /\ j.answer = job[t].answer /\ j.pc = pc
  BY <1>1, JobAt DEF Job
<1>3. job' = [job EXCEPT ![t] = j]
  BY <1>1 DEF GoTo
<1>4. QED
  BY <1>2, <1>3, RefundNullAssumption DEF RefundInv, TypeOK

LEMMA FinishJob ==
  ASSUME RefundInv, NEW t \in Threads, Finish(t)
  PROVE  /\ job' \in [Threads -> Job \cup {NoJob}]
         /\ \A u \in Threads \ {t} : job'[u] = job[u]
         /\ job'[t] = NoJob
BY DEF Finish, RefundInv, TypeOK

LEMMA DoubtGrows ==
  ASSUME RefundInv, NEW o \in Orders, NEW marks \in SUBSET Doubts, Doubted(o, marks)
  PROVE  /\ doubt' \in [Orders -> SUBSET Doubts]
         /\ \A p \in Orders : doubt[p] \subseteq doubt'[p]
         /\ marks \subseteq doubt'[o]
BY DEF RefundInv, TypeOK, Doubted

LEMMA ApplySumStep ==
  ASSUME RefundInv, NEW t \in Threads, ApplySum(t)
  PROVE  RefundInv'
<1>1. /\ job[t] # NoJob /\ job[t].kind = "apply" /\ job[t].pc = "sum"
      /\ Finish(t) \/ GoTo(t, "insert")
      /\ UNCHANGED <<order, refund, balance, frozen, charged, feeBack, held, known, doubt, requests, crashes>>
  BY DEF ApplySum, At, tables
<1>2. /\ job' \in [Threads -> Job \cup {NoJob}] /\ \A u \in Threads \ {t} : job'[u] = job[u]
      /\ job'[t] # NoJob =>
           /\ job'[t].kind = "apply" /\ job'[t].order = job[t].order /\ job'[t].ref = job[t].ref
           /\ job'[t].amount = job[t].amount /\ job'[t].pc = "insert"
  BY <1>1, GoToJob, FinishJob
<1>3. TypeOK'
  BY <1>1, <1>2 DEF RefundInv, TypeOK
<1>4. job'[t] # NoJob => Steady(job[t])' /\ Settled(job[t])'
  BY <1>1, <1>2, JobAt DEF Steady, StepsOf, Settled, Unborn, Owing
<1>5. \A r \in Refunds : r = job[t].ref => Booked(r)'
  BY <1>1, JobAt DEF Steady, Unborn, Booked
<1>6. Local(t)
  BY <1>1, <1>2 DEF Local
<1>7. QED
  BY <1>3, <1>4, <1>5, <1>6, LocalKeeps

\* The new row is owed by its handler, or is charged already.
LEMMA InsertStep ==
  ASSUME RefundInv, NEW t \in Threads, Insert(t)
  PROVE  RefundInv'
<1> DEFINE j == job[t]
<1>1. /\ j # NoJob /\ j.kind \in Sources /\ j.pc = "insert"
      /\ UNCHANGED <<order, balance, frozen, charged, feeBack, held, known, requests, crashes>>
  BY DEF Insert, At
<1>2. j \in Job /\ j.ref \in Refunds /\ refund[j.ref] = NoRow /\ j.order \in Orders /\ j.amount \in Amounts
      /\ charged[j.ref] = 0 /\ feeBack[j.ref] = 0 /\ j.ref \notin known
  BY <1>1, JobAt DEF Steady, StepsOf, Unborn, Sources, Booked
<1>3. PICK row : row = [order |-> j.order, via |-> j.kind, amount |-> j.amount, fee |-> Fee(j), state |-> "pending"]
  OBVIOUS
<1>4. /\ row \in Rows /\ row # NoRow /\ row.order = j.order /\ row.amount = j.amount
      /\ row.fee = Fee(j) /\ row.state = "pending"
  <2>1. Fee(j) \in Nat /\ j.amount \in Nat
    BY <1>2, RefundAssumption DEF Fee
  <2>2. QED
    BY <1>1, <1>2, <1>3, <2>1, RefundNullAssumption DEF Rows
<1>5. refund' = [refund EXCEPT ![j.ref] = row]
  BY <1>3 DEF Insert
<1>6. PICK pc : /\ pc = IF j.kind # "apply" THEN "order" ELSE IF order[j.order].channel THEN "channel" ELSE "money"
                /\ GoTo(t, pc)
  BY DEF Insert
<1>7. /\ pc \in {"order", "channel", "money"}
      /\ j.kind # "apply" => pc = "order" /\ (j.kind = "apply" => pc # "order")
      /\ pc = "channel" => j.kind = "apply" /\ order[j.order].channel
  BY <1>6
<1>8. /\ job' \in [Threads -> Job \cup {NoJob}] /\ \A u \in Threads \ {t} : job'[u] = job[u]
      /\ job'[t] # NoJob /\ job'[t].kind = j.kind /\ job'[t].order = j.order /\ job'[t].ref = j.ref
      /\ job'[t].amount = j.amount /\ job'[t].pc = pc
  BY <1>1, <1>6, <1>7, GoToJob
<1>9. PICK marks \in SUBSET {"mixed"} : Doubted(j.order, marks)
  BY DEF Insert
<1>10. doubt' \in [Orders -> SUBSET Doubts] /\ \A p \in Orders : doubt[p] \subseteq doubt'[p]
  BY <1>2, <1>9, DoubtGrows DEF Doubts
<1>11. refund' \in [Refunds -> Rows \cup {NoRow}] /\ refund'[j.ref] = row
       /\ \A r \in Refunds \ {j.ref} : refund'[r] = refund[r]
  BY <1>2, <1>4, <1>5 DEF RefundInv, TypeOK
<1>12. TypeOK'
  BY <1>1, <1>8, <1>10, <1>11 DEF RefundInv, TypeOK
<1>13. Steady(job[t])'
  <2>1. /\ j.kind # "apply" => pc = "order"
        /\ j.kind = "apply" => pc # "order"
    BY <1>6
  <2>2. Fee(job'[t]) = Fee(j)
    BY <1>8 DEF Fee
  <2>3. QED
    BY <1>1, <1>2, <1>4, <1>7, <1>8, <1>11, <2>1, <2>2 DEF Steady, StepsOf, Unborn, Owing, Sources, Fee
<1>14. Settled(job[t])'
  BY <1>1, <1>4, <1>8, <1>11 DEF Settled, Sources
<1>15. \A r \in Refunds : r = j.ref => Owed(r)'
  BY <1>1, <1>7, <1>8 DEF Owed, Owing
<1>16. \A r \in Refunds : r = j.ref => Booked(r)'
  BY <1>1, <1>2, <1>4, <1>11, <1>15 DEF Booked
<1>17. Local(t)
  BY <1>1, <1>2, <1>8, <1>10, <1>11 DEF Local
<1>18. QED
  BY <1>12, <1>13, <1>14, <1>16, <1>17, LocalKeeps

\* The gateway's total: nothing of the refund itself changes.
LEMMA OrderStep ==
  ASSUME RefundInv, NEW t \in Threads, OrderTotal(t)
  PROVE  RefundInv'
<1> DEFINE j == job[t]
<1>1. /\ j # NoJob /\ j.kind \in {"gateway", "api"} /\ j.pc = "order" /\ GoTo(t, "money")
      /\ UNCHANGED <<refund, balance, frozen, charged, feeBack, held, known, requests, crashes>>
  BY DEF OrderTotal, At
<1>2. /\ j \in Job /\ j.order \in Orders /\ j.amount \in Nat /\ j.refunded \in Nat
      /\ Steady(j) /\ Settled(j) /\ j.ref \in Refunds /\ Booked(j.ref)
  BY <1>1, JobAt DEF Job, Steady, StepsOf
<1>3. /\ job' \in [Threads -> Job \cup {NoJob}] /\ \A u \in Threads \ {t} : job'[u] = job[u]
      /\ job'[t] # NoJob /\ job'[t].kind = j.kind /\ job'[t].order = j.order /\ job'[t].ref = j.ref
      /\ job'[t].amount = j.amount /\ job'[t].pc = "money"
  BY <1>1, GoToJob
<1>4. PICK total, state : /\ total = j.refunded + j.amount
                          /\ state = IF j.kind = "api" \/ total >= Paid[j.order] THEN "refunded" ELSE j.state
    OBVIOUS
<1>5. order' = [order EXCEPT ![j.order].refunded = total, ![j.order].state = state]
      /\ total \in Nat /\ state \in {"paid", "refunded", "frozen"}
  BY <1>2, <1>4 DEF OrderTotal, Job
<1>6. order' \in [Orders -> OrderRows] /\ \A o \in Orders : order'[o].channel = order[o].channel
  BY <1>2, <1>5 DEF RefundInv, TypeOK, OrderRows
<1>7. PICK marks \in SUBSET {"held"} : Doubted(j.order, marks)
  BY DEF OrderTotal
<1>8. doubt' \in [Orders -> SUBSET Doubts] /\ \A p \in Orders : doubt[p] \subseteq doubt'[p]
  BY <1>2, <1>7, DoubtGrows DEF Doubts
<1>9. TypeOK'
  BY <1>1, <1>3, <1>6, <1>8 DEF RefundInv, TypeOK
<1>10. Steady(job[t])'
  BY <1>1, <1>2, <1>3, <1>6 DEF Steady, StepsOf, Unborn, Owing, Sources, Fee
<1>11. Settled(job[t])'
  BY <1>1, <1>3 DEF Settled
<1>12. \A r \in Refunds : r = j.ref => Booked(r)'
  <2>1. \A r \in Refunds : r = j.ref => Owed(r)'
    BY <1>1, <1>3 DEF Owed, Owing, Sources
  <2>2. refund[j.ref] # NoRow /\ refund[j.ref].order \in Orders
    BY <1>1, <1>2 DEF Steady, Unborn
  <2>3. QED
    BY <1>1, <1>2, <1>6, <1>8, <2>1, <2>2 DEF Booked
<1>13. Local(t)
  BY <1>1, <1>3, <1>6, <1>8 DEF Local
<1>14. QED
  BY <1>9, <1>10, <1>11, <1>12, <1>13, LocalKeeps

\* The job goes on with an answer.
LEMMA AnswerJob ==
  ASSUME RefundInv, NEW t \in Threads, job[t] # NoJob,
         NEW pc \in {"money", "final"}, NEW a \in {"pending", "done"},
         job' = [job EXCEPT ![t].answer = a, ![t].pc = pc]
  PROVE  /\ job' \in [Threads -> Job \cup {NoJob}]
         /\ \A u \in Threads \ {t} : job'[u] = job[u]
         /\ job'[t] \in Job /\ job'[t] # NoJob
         /\ job'[t].kind = job[t].kind /\ job'[t].order = job[t].order /\ job'[t].ref = job[t].ref
         /\ job'[t].amount = job[t].amount /\ job'[t].answer = a /\ job'[t].pc = pc
<1>1. PICK j : j = [job[t] EXCEPT !.answer = a, !.pc = pc]
  OBVIOUS
<1>2. j \in Job /\ j.kind = job[t].kind /\ j.order = job[t].order /\ j.ref = job[t].ref
      /\ j.amount = job[t].amount /\ j.answer = a /\ j.pc = pc
  BY <1>1, JobAt DEF Job
<1>3. job' = [job EXCEPT ![t] = j]
  BY <1>1 DEF RefundInv, TypeOK
<1>4. job \in [Threads -> Job \cup {NoJob}] /\ j # NoJob
  BY <1>2, RefundNullAssumption DEF RefundInv, TypeOK
<1>5. job'[t] = j /\ job' \in [Threads -> Job \cup {NoJob}] /\ \A u \in Threads \ {t} : job'[u] = job[u]
  BY <1>2, <1>3, <1>4
<1>6. QED
  BY <1>2, <1>4, <1>5

\* The refund is charged now, or will never be and is marked, or stays pending
\* without a channel.
LEMMA ChargeStep ==
  ASSUME RefundInv, NEW t \in Threads, Charge(t)
  PROVE  RefundInv'
<1> DEFINE j == job[t]
           paid == j.kind = "apply" => balance >= j.amount
           local == ~order[j.order].channel
           cost == j.amount - Fee(j)
<1>1. /\ j # NoJob /\ j.kind \in Sources /\ j.pc = "money"
      /\ UNCHANGED <<order, refund, frozen, feeBack, held, known, requests, crashes>>
  BY DEF Charge, At
<1>2. /\ j \in Job /\ j.order \in Orders /\ j.amount \in Amounts /\ j.ref \in Refunds
      /\ Steady(j) /\ Settled(j) /\ Booked(j.ref)
      /\ refund[j.ref] \in Rows /\ refund[j.ref] # NoRow /\ refund[j.ref].order = j.order
      /\ refund[j.ref].amount = j.amount /\ refund[j.ref].fee = Fee(j) /\ charged[j.ref] = 0
      /\ local => refund[j.ref].state = "pending"
  BY <1>1, JobAt DEF Steady, StepsOf, Unborn, Owing, Sources
<1>3. cost \in Nat /\ j.amount \in Nat /\ balance \in Int
  <2>1. j.amount \in Nat /\ FeeOf[j.amount] \in Nat /\ FeeOf[j.amount] <= j.amount
    BY <1>2, RefundAssumption
  <2>2. Fee(j) \in Nat /\ Fee(j) <= j.amount
    BY <2>1 DEF Fee
  <2>3. QED
    BY <2>1, <2>2 DEF RefundInv, TypeOK
<1>4. /\ balance' = IF paid THEN balance - cost ELSE balance
      /\ charged' = IF paid THEN [charged EXCEPT ![j.ref] = @ + j.amount - Fee(j)] ELSE charged
      /\ Doubted(j.order, IF paid \/ local THEN {} ELSE {"charge"})
      /\ IF j.kind = "apply" /\ (paid \/ ~local)
           THEN job' = [job EXCEPT ![t].pc = "final", ![t].answer = IF local THEN "done" ELSE @]
           ELSE Finish(t)
  BY DEF Charge
<1>5. /\ charged' \in [Refunds -> Nat] /\ balance' \in Int
      /\ charged'[j.ref] = IF paid THEN cost ELSE 0
      /\ \A r \in Refunds \ {j.ref} : charged'[r] = charged[r]
  <2>1. charged \in [Refunds -> Nat]
    BY DEF RefundInv, TypeOK
  <2>2. CASE paid
    <3>1. Fee(j) \in Nat
      BY <1>2, RefundAssumption DEF Fee
    <3>2. charged[j.ref] + j.amount - Fee(j) = cost
      BY <1>2, <1>3, <3>1
    <3>3. charged' = [charged EXCEPT ![j.ref] = cost]
      BY <1>4, <2>2, <3>2
    <3>4. QED
      BY <1>2, <1>3, <1>4, <2>1, <2>2, <3>3
  <2>3. CASE ~paid
    BY <1>2, <1>3, <1>4, <2>1, <2>3
  <2>4. QED
    BY <2>2, <2>3
<1>6. PICK marks \in SUBSET Doubts : Doubted(j.order, marks) /\ (paid \/ local \/ "charge" \in marks)
  BY <1>4 DEF Doubts
<1>7. /\ doubt' \in [Orders -> SUBSET Doubts] /\ \A p \in Orders : doubt[p] \subseteq doubt'[p]
      /\ paid \/ local \/ "charge" \in doubt'[j.order]
  BY <1>2, <1>6, DoubtGrows
<1>8. /\ job' \in [Threads -> Job \cup {NoJob}] /\ \A u \in Threads \ {t} : job'[u] = job[u]
      /\ job'[t] # NoJob =>
           /\ j.kind = "apply" /\ (paid \/ ~local)
           /\ job'[t].kind = j.kind /\ job'[t].order = j.order /\ job'[t].ref = j.ref
           /\ job'[t].amount = j.amount /\ job'[t].pc = "final"
  <2>1. CASE j.kind = "apply" /\ (paid \/ ~local)
    <3>1. PICK a \in {"pending", "done"} : job' = [job EXCEPT ![t].answer = a, ![t].pc = "final"]
      <4>1. j.answer \in {"pending", "done"}
        BY <1>2 DEF Job
      <4>2. job' = [job EXCEPT ![t].answer = IF local THEN "done" ELSE j.answer, ![t].pc = "final"]
        BY <1>4, <2>1 DEF RefundInv, TypeOK
      <4>3. QED
        BY <4>1, <4>2
    <3>2. QED
      BY <1>1, <2>1, <3>1, AnswerJob
  <2>2. CASE ~(j.kind = "apply" /\ (paid \/ ~local))
    BY <1>4, <2>2, FinishJob
  <2>3. QED
    BY <2>1, <2>2
<1>9. TypeOK'
  BY <1>1, <1>5, <1>7, <1>8 DEF RefundInv, TypeOK
<1>10. job'[t] # NoJob => Steady(job[t])' /\ Settled(job[t])'
  <2>1. SUFFICES ASSUME job'[t] # NoJob PROVE Steady(job[t])' /\ Settled(job[t])'
    OBVIOUS
  <2>2. Steady(job[t])'
    BY <1>1, <1>2, <1>5, <1>8, <2>1 DEF Steady, StepsOf, Unborn, Owing, Sources
  <2>3. Settled(job[t])'
    BY <1>1, <1>2, <1>7, <1>8, <2>1 DEF Settled, Unborn
  <2>4. QED
    BY <2>2, <2>3
<1>11. \A r \in Refunds : r = j.ref => Booked(r)'
  <2>1. /\ refund'[j.ref] = refund[j.ref] /\ feeBack'[j.ref] = feeBack[j.ref]
        /\ order' = order /\ known' = known
    BY <1>1
  <2>2. CASE paid
    BY <1>2, <1>5, <1>7, <2>1, <2>2 DEF Booked
  <2>3. CASE ~paid /\ local
    BY <1>2, <1>5, <1>7, <2>1, <2>3 DEF Booked
  <2>4. CASE ~paid /\ ~local
    BY <1>2, <1>5, <1>7, <2>1, <2>4 DEF Booked
  <2>5. QED
    BY <2>2, <2>3, <2>4
<1>12. Local(t)
  BY <1>1, <1>5, <1>7, <1>8 DEF Local
<1>13. QED
  BY <1>9, <1>10, <1>11, <1>12, LocalKeeps

LEMMA AcceptStep ==
  ASSUME RefundInv, NEW t \in Threads, ChannelAccepts(t)
  PROVE  RefundInv'
<1> DEFINE j == job[t]
<1>1. /\ j # NoJob /\ j.kind \in {"apply", "retry"} /\ j.pc = "channel" /\ known' = known \cup {j.ref}
      /\ UNCHANGED <<order, refund, balance, frozen, charged, feeBack, held, doubt, requests, crashes>>
  BY DEF ChannelAccepts, At, tables
<1>2. /\ j \in Job /\ j.order \in Orders /\ j.ref \in Refunds /\ Steady(j) /\ Settled(j) /\ Booked(j.ref)
      /\ refund[j.ref] # NoRow /\ refund[j.ref].order = j.order /\ order[j.order].channel
  BY <1>1, JobAt DEF Steady, StepsOf, Unborn
<1>3. PICK a \in {"pending", "done"}, pc \in {"money", "final"} :
        /\ pc = (IF j.kind = "apply" THEN "money" ELSE "final")
        /\ job' = [job EXCEPT ![t].answer = a, ![t].pc = pc]
  BY DEF ChannelAccepts
<1>4. /\ job' \in [Threads -> Job \cup {NoJob}] /\ \A u \in Threads \ {t} : job'[u] = job[u]
      /\ job'[t] # NoJob /\ job'[t].kind = j.kind /\ job'[t].order = j.order /\ job'[t].ref = j.ref
      /\ job'[t].amount = j.amount /\ job'[t].pc = pc
  BY <1>1, <1>3, AnswerJob
<1>5. known' \subseteq Refunds
  BY <1>1, <1>2 DEF RefundInv, TypeOK
<1>6. TypeOK'
  BY <1>1, <1>4, <1>5 DEF RefundInv, TypeOK
<1>7. Steady(job[t])'
  BY <1>1, <1>2, <1>3, <1>4 DEF Steady, StepsOf, Unborn, Owing, Sources, Fee
<1>8. Settled(job[t])'
  BY <1>1, <1>2, <1>3, <1>4 DEF Settled, Unborn
<1>9. \A r \in Refunds : r = j.ref => Booked(r)'
  <2>1. Owed(j.ref) => \A r \in Refunds : r = j.ref => Owed(r)'
    <3>1. CASE j.kind = "apply"
      BY <1>3, <1>4, <3>1 DEF Owed, Owing, Sources
    <3>2. CASE j.kind = "retry"
      BY <1>4, <3>2 DEF Owed, Owing, Sources
    <3>3. QED
      BY <1>1, <3>1, <3>2
  <2>2. QED
    BY <1>1, <1>2, <2>1 DEF Booked
<1>10. Local(t)
  BY <1>1, <1>2, <1>4 DEF Local
<1>11. QED
  BY <1>6, <1>7, <1>8, <1>9, <1>10, LocalKeeps

\* One row gets another state.
LEMMA StateOfRow ==
  ASSUME RefundInv, NEW r \in Refunds, refund[r] # NoRow, NEW s \in {"pending", "done", "failed"},
         refund' = [refund EXCEPT ![r].state = s]
  PROVE  /\ refund' \in [Refunds -> Rows \cup {NoRow}]
         /\ refund'[r] # NoRow /\ refund'[r].state = s
         /\ refund'[r].order = refund[r].order /\ refund'[r].amount = refund[r].amount
         /\ refund'[r].fee = refund[r].fee
         /\ \A q \in Refunds \ {r} : refund'[q] = refund[q]
<1>1. PICK row : row = [refund[r] EXCEPT !.state = s]
  OBVIOUS
<1>2. row \in Rows /\ row.state = s /\ row.order = refund[r].order /\ row.amount = refund[r].amount /\ row.fee = refund[r].fee
  BY <1>1, Numbers DEF Rows
<1>3. refund' = [refund EXCEPT ![r] = row] /\ refund \in [Refunds -> Rows \cup {NoRow}] /\ row # NoRow
  BY <1>1, <1>2, RefundNullAssumption DEF RefundInv, TypeOK
<1>4. QED
  BY <1>2, <1>3

\* A step of a handler that owes nothing before or after does not change who does.
LEMMA OwedStays ==
  ASSUME NEW t \in Threads, \A u \in Threads \ {t} : job'[u] = job[u],
         job[t] # NoJob => ~Owing(job[t]), job'[t] # NoJob => ~Owing(job'[t]), NEW r
  PROVE  Owed(r)' <=> Owed(r)
BY DEF Owed, Owing

LEMMA FailStep ==
  ASSUME RefundInv, NEW t \in Threads, ChannelFails(t)
  PROVE  RefundInv'
<1> DEFINE j == job[t]
<1>1. /\ j # NoJob /\ j.kind \in {"apply", "retry"} /\ j.pc = "channel" /\ Finish(t)
      /\ known \subseteq known' /\ known' \subseteq known \cup {j.ref}
      /\ refund' = IF j.kind = "apply" THEN [refund EXCEPT ![j.ref].state = "failed"] ELSE refund
      /\ UNCHANGED <<order, balance, frozen, charged, feeBack, held, doubt, requests, crashes>>
  BY DEF ChannelFails, At
<1>2. /\ j \in Job /\ j.order \in Orders /\ j.ref \in Refunds /\ Steady(j) /\ Settled(j) /\ Booked(j.ref)
      /\ refund[j.ref] # NoRow /\ refund[j.ref].order = j.order /\ order[j.order].channel
  BY <1>1, JobAt DEF Steady, StepsOf, Unborn
<1>3. /\ job' \in [Threads -> Job \cup {NoJob}] /\ \A u \in Threads \ {t} : job'[u] = job[u]
      /\ job'[t] = NoJob
  BY <1>1, FinishJob
<1>4. /\ refund' \in [Refunds -> Rows \cup {NoRow}]
      /\ refund'[j.ref] # NoRow
      /\ refund'[j.ref].order = refund[j.ref].order /\ refund'[j.ref].amount = refund[j.ref].amount
      /\ refund'[j.ref].fee = refund[j.ref].fee
      /\ \A q \in Refunds \ {j.ref} : refund'[q] = refund[q]
      /\ j.kind = "apply" => refund'[j.ref].state = "failed"
      /\ j.kind = "retry" => refund'[j.ref] = refund[j.ref]
  <2>1. CASE j.kind = "apply"
    BY <1>1, <1>2, <2>1, StateOfRow
  <2>2. CASE j.kind = "retry"
    BY <1>1, <1>2, <2>2 DEF RefundInv, TypeOK
  <2>3. QED
    BY <1>1, <2>1, <2>2
<1>5. TypeOK'
  BY <1>1, <1>2, <1>3, <1>4 DEF RefundInv, TypeOK
<1>6. \A r \in Refunds : r = j.ref => Booked(r)'
  <2>1. CASE j.kind = "apply"
    BY <1>1, <1>2, <1>4, <2>1 DEF Booked, Settled, Unborn
  <2>2. CASE j.kind = "retry"
    <3>1. ~Owing(j)
      BY <2>2 DEF Owing, Sources
    <3>2. \A r \in Refunds : Owed(r)' <=> Owed(r)
      BY <1>3, <3>1, OwedStays
    <3>3. QED
      BY <1>1, <1>2, <1>4, <2>2, <3>2 DEF Booked
  <2>3. QED
    BY <1>1, <2>1, <2>2
<1>7. Local(t)
  BY <1>1, <1>2, <1>3, <1>4 DEF Local, Sources
<1>8. QED
  BY <1>3, <1>5, <1>6, <1>7, LocalKeeps

\* What a write of the state leaves alone.
LEMMA SetStateKeeps ==
  ASSUME RefundInv, NEW r \in Refunds, refund[r] # NoRow, NEW s \in {"pending", "done"}, SetState(r, s)
  PROVE  /\ refund' \in [Refunds -> Rows \cup {NoRow}]
         /\ refund'[r] # NoRow /\ refund'[r].state = s
         /\ refund'[r].order = refund[r].order /\ refund'[r].amount = refund[r].amount
         /\ refund'[r].fee = refund[r].fee
         /\ \A q \in Refunds \ {r} : refund'[q] = refund[q]
         /\ doubt' \in [Orders -> SUBSET Doubts] /\ \A p \in Orders : doubt[p] \subseteq doubt'[p]
         /\ refund[r].state = "failed" => "revived" \in doubt'[refund[r].order]
<1>1. refund[r].order \in Orders
  BY Numbers DEF Rows
<1>2. PICK marks \in SUBSET Doubts : /\ Doubted(refund[r].order, marks)
                                     /\ refund[r].state = "failed" => "revived" \in marks
  BY DEF SetState, Revives, Doubts
<1>3. /\ doubt' \in [Orders -> SUBSET Doubts] /\ \A p \in Orders : doubt[p] \subseteq doubt'[p]
      /\ marks \subseteq doubt'[refund[r].order]
  BY <1>1, <1>2, DoubtGrows
<1>4. refund' = [refund EXCEPT ![r].state = s]
  BY DEF SetState
<1>5. QED
  BY <1>2, <1>3, <1>4, StateOfRow

LEMMA AnsweredStep ==
  ASSUME RefundInv, NEW t \in Threads, Answered(t)
  PROVE  RefundInv'
<1> DEFINE j == job[t]
<1>1. /\ j # NoJob /\ j.kind \in {"apply", "retry"} /\ j.pc = "final" /\ SetState(j.ref, j.answer) /\ Finish(t)
      /\ UNCHANGED <<order, balance, frozen, charged, feeBack, held, known, requests, crashes>>
  BY DEF Answered, At
<1>2. /\ j \in Job /\ j.order \in Orders /\ j.ref \in Refunds /\ Steady(j) /\ Settled(j) /\ Booked(j.ref)
      /\ refund[j.ref] # NoRow /\ refund[j.ref].order = j.order /\ j.answer \in {"pending", "done"}
  BY <1>1, JobAt DEF Steady, StepsOf, Unborn, Job
<1>3. /\ job' \in [Threads -> Job \cup {NoJob}] /\ \A u \in Threads \ {t} : job'[u] = job[u]
      /\ job'[t] = NoJob
  BY <1>1, FinishJob
<1>4. /\ refund' \in [Refunds -> Rows \cup {NoRow}]
      /\ refund'[j.ref] # NoRow /\ refund'[j.ref].state = j.answer
      /\ refund'[j.ref].order = refund[j.ref].order /\ refund'[j.ref].amount = refund[j.ref].amount
      /\ refund'[j.ref].fee = refund[j.ref].fee
      /\ \A q \in Refunds \ {j.ref} : refund'[q] = refund[q]
      /\ doubt' \in [Orders -> SUBSET Doubts] /\ \A p \in Orders : doubt[p] \subseteq doubt'[p]
      /\ refund[j.ref].state = "failed" => "revived" \in doubt'[j.order]
  BY <1>1, <1>2, SetStateKeeps
<1>5. TypeOK'
  BY <1>1, <1>3, <1>4 DEF RefundInv, TypeOK
<1>6. \A r \in Refunds : r = j.ref => Booked(r)'
  <2>1. ~Owing(j)
    BY <1>1 DEF Owing
  <2>2. \A r \in Refunds : Owed(r)' <=> Owed(r)
    BY <1>3, <2>1, OwedStays
  <2>3. "raced" \notin doubt[j.order] => feeBack[j.ref] = 0
    BY <1>1, <1>2 DEF Booked, Settled, Unborn
  <2>4. order[j.order].channel \/ charged[j.ref] = refund[j.ref].amount - refund[j.ref].fee
    BY <1>1, <1>2 DEF Steady
  <2>5. QED
    BY <1>1, <1>2, <1>4, <2>2, <2>3, <2>4 DEF Booked
<1>7. Local(t)
  <2>1. j.kind \notin Sources => order[j.order].channel
    BY <1>1, <1>2 DEF Steady, Sources
  <2>2. QED
    BY <1>1, <1>2, <1>3, <1>4, <2>1 DEF Local
<1>8. QED
  BY <1>3, <1>5, <1>6, <1>7, LocalKeeps

LEMMA NotifiedStep ==
  ASSUME RefundInv, NEW t \in Threads, Notified(t)
  PROVE  RefundInv'
<1> DEFINE j == job[t]
<1>1. /\ j # NoJob /\ j.kind = "notify" /\ j.pc = "final" /\ SetState(j.ref, "done")
      /\ Finish(t) \/ GoTo(t, "money")
      /\ UNCHANGED <<order, balance, frozen, charged, feeBack, held, known, requests, crashes>>
  BY DEF Notified, At
<1>2. /\ j \in Job /\ j.order \in Orders /\ j.ref \in Refunds /\ Steady(j) /\ Settled(j) /\ Booked(j.ref)
      /\ refund[j.ref] # NoRow /\ refund[j.ref].order = j.order /\ order[j.order].channel
  BY <1>1, JobAt DEF Steady, StepsOf, Unborn
<1>3. /\ job' \in [Threads -> Job \cup {NoJob}] /\ \A u \in Threads \ {t} : job'[u] = job[u]
      /\ job'[t] # NoJob =>
           /\ job'[t].kind = "notify" /\ job'[t].order = j.order /\ job'[t].ref = j.ref
           /\ job'[t].amount = j.amount /\ job'[t].pc = "money"
  BY <1>1, GoToJob, FinishJob
<1>4. /\ refund' \in [Refunds -> Rows \cup {NoRow}]
      /\ refund'[j.ref] # NoRow /\ refund'[j.ref].state = "done"
      /\ refund'[j.ref].order = refund[j.ref].order /\ refund'[j.ref].amount = refund[j.ref].amount
      /\ refund'[j.ref].fee = refund[j.ref].fee
      /\ \A q \in Refunds \ {j.ref} : refund'[q] = refund[q]
      /\ doubt' \in [Orders -> SUBSET Doubts] /\ \A p \in Orders : doubt[p] \subseteq doubt'[p]
      /\ refund[j.ref].state = "failed" => "revived" \in doubt'[j.order]
  BY <1>1, <1>2, SetStateKeeps
<1>5. TypeOK'
  BY <1>1, <1>3, <1>4 DEF RefundInv, TypeOK
<1>6. "raced" \notin doubt[j.order] => feeBack[j.ref] = 0
  BY <1>1, <1>2 DEF Booked, Settled
<1>7. job'[t] # NoJob => Steady(job[t])' /\ Settled(job[t])'
  BY <1>1, <1>2, <1>3, <1>4, <1>6 DEF Steady, StepsOf, Unborn, Owing, Sources, Settled
<1>8. \A r \in Refunds : r = j.ref => Booked(r)'
  <2>1. ~Owing(j) /\ (job'[t] # NoJob => ~Owing(job'[t]))
    BY <1>1, <1>3 DEF Owing, Sources
  <2>2. \A r \in Refunds : Owed(r)' <=> Owed(r)
    BY <1>3, <2>1, OwedStays
  <2>3. QED
    BY <1>1, <1>2, <1>4, <1>6, <2>2 DEF Booked
<1>9. Local(t)
  BY <1>1, <1>2, <1>3, <1>4 DEF Local
<1>10. QED
  BY <1>5, <1>7, <1>8, <1>9, LocalKeeps

LEMMA ReturnFeeStep ==
  ASSUME RefundInv, NEW t \in Threads, ReturnFee(t)
  PROVE  RefundInv'
<1> DEFINE j == job[t]
<1>1. /\ j # NoJob /\ j.kind = "notify" /\ j.pc = "money" /\ Finish(t)
      /\ balance' = balance + refund[j.ref].fee
      /\ feeBack' = [feeBack EXCEPT ![j.ref] = @ + 1]
      /\ UNCHANGED <<order, refund, frozen, charged, held, known, doubt, requests, crashes>>
  BY DEF ReturnFee, At
<1>2. /\ j \in Job /\ j.order \in Orders /\ j.ref \in Refunds /\ Steady(j) /\ Settled(j) /\ Booked(j.ref)
      /\ refund[j.ref] \in Rows /\ refund[j.ref] # NoRow /\ refund[j.ref].order = j.order
  BY <1>1, JobAt, Numbers DEF Steady, StepsOf, Unborn
<1>3. /\ job' \in [Threads -> Job \cup {NoJob}] /\ \A u \in Threads \ {t} : job'[u] = job[u]
      /\ job'[t] = NoJob
  BY <1>1, FinishJob
<1>4. /\ feeBack' \in [Refunds -> Nat] /\ feeBack'[j.ref] = feeBack[j.ref] + 1
      /\ \A q \in Refunds \ {j.ref} : feeBack'[q] = feeBack[q]
  <2>1. feeBack \in [Refunds -> Nat] /\ feeBack[j.ref] + 1 \in Nat
    BY <1>2 DEF RefundInv, TypeOK
  <2>2. QED
    BY <1>1, <1>2, <2>1
<1>5. balance' \in Int
  BY <1>1, <1>2 DEF RefundInv, TypeOK, Rows
<1>6. TypeOK'
  BY <1>1, <1>3, <1>4, <1>5 DEF RefundInv, TypeOK
<1>7. \A r \in Refunds : r = j.ref => Booked(r)'
  <2>1. ~Owing(j)
    BY <1>1 DEF Owing, Sources
  <2>2. \A r \in Refunds : Owed(r)' <=> Owed(r)
    BY <1>3, <2>1, OwedStays
  <2>3. "raced" \notin doubt[j.order] => feeBack[j.ref] = 0 /\ refund[j.ref].state = "done"
    BY <1>1, <1>2 DEF Settled
  <2>4. QED
    BY <1>1, <1>2, <1>4, <2>2, <2>3 DEF Booked
<1>8. Local(t)
  BY <1>1, <1>2, <1>3, <1>4 DEF Local
<1>9. QED
  BY <1>3, <1>6, <1>7, <1>8, LocalKeeps

\* Freezing touches no refund.
LEMMA FreezingKeeps ==
  ASSUME RefundInv, NEW t \in Threads, job[t] # NoJob, job[t].kind \in {"freeze", "unfreeze"},
         Finish(t) \/ GoTo(t, "final"),
         UNCHANGED <<refund, charged, feeBack, known, doubt>>,
         \A o \in Orders : order'[o].channel = order[o].channel,
         order' \in [Orders -> OrderRows], balance' \in Int, frozen' \in Nat,
         held' \in [Orders -> Int], requests' \in Nat, crashes' \in Nat
  PROVE  RefundInv'
<1> DEFINE j == job[t]
<1>1. j.ref = NoRow /\ j.ref \notin Refunds /\ j.order \in Orders /\ Steady(j)
  BY JobAt, Numbers DEF Steady, StepsOf
<1>2. /\ job' \in [Threads -> Job \cup {NoJob}] /\ \A u \in Threads \ {t} : job'[u] = job[u]
      /\ job'[t] # NoJob =>
           /\ job'[t].kind = j.kind /\ job'[t].order = j.order /\ job'[t].ref = j.ref
           /\ job'[t].amount = j.amount /\ job'[t].pc = "final"
  BY GoToJob, FinishJob
<1>3. TypeOK'
  BY <1>2 DEF RefundInv, TypeOK
<1>4. job'[t] # NoJob => Steady(job[t])' /\ Settled(job[t])'
  BY <1>1, <1>2 DEF Steady, StepsOf, Unborn, Owing, Sources, Settled
<1>5. Local(t)
  BY <1>1, <1>2 DEF Local
<1>6. \A r \in Refunds : r = j.ref => Booked(r)'
  BY <1>1
<1>7. QED
  BY <1>3, <1>4, <1>5, <1>6, LocalKeeps

LEMMA FreezeSteps ==
  ASSUME RefundInv, NEW t \in Threads, FreezeMoney(t) \/ UnfreezeMoney(t) \/ FreezeFinal(t)
  PROVE  RefundInv'
<1> DEFINE j == job[t]
<1>1. /\ j # NoJob /\ j.kind \in {"freeze", "unfreeze"}
      /\ Finish(t) \/ GoTo(t, "final")
      /\ UNCHANGED <<refund, charged, feeBack, known, doubt, requests, crashes>>
  BY DEF FreezeMoney, UnfreezeMoney, FreezeFinal, At
<1>2. j.order \in Orders /\ j.amount \in Nat
  <2>1. j \in Job
    BY <1>1, JobAt
  <2>2. QED
    BY <2>1 DEF Job
<1>3. balance \in Int /\ frozen \in Nat /\ held \in [Orders -> Int] /\ order \in [Orders -> OrderRows]
      /\ requests \in Nat /\ crashes \in Nat
  BY DEF RefundInv, TypeOK
<1>4. balance' \in Int /\ frozen' \in Nat /\ held' \in [Orders -> Int]
  <2>1. CASE FreezeMoney(t)
    BY <1>2, <1>3, <2>1 DEF FreezeMoney
  <2>2. CASE UnfreezeMoney(t)
    BY <1>2, <1>3, <2>2 DEF UnfreezeMoney
  <2>3. CASE FreezeFinal(t)
    BY <1>3, <2>3 DEF FreezeFinal
  <2>4. QED
    BY <2>1, <2>2, <2>3
<1>5. order' \in [Orders -> OrderRows] /\ \A o \in Orders : order'[o].channel = order[o].channel
  BY <1>2, <1>3 DEF FreezeMoney, UnfreezeMoney, FreezeFinal, OrderRows
<1>6. QED
  BY <1>1, <1>3, <1>4, <1>5, FreezingKeeps

-----------------------------------------------------------------------------
(* The specification. *)

LEMMA ContinueStep ==
  ASSUME RefundInv, NEW t \in Threads, Continue(t)
  PROVE  RefundInv'
BY ApplySumStep, InsertStep, OrderStep, ChargeStep, AcceptStep, FailStep, AnsweredStep, NotifiedStep,
   ReturnFeeStep, FreezeSteps DEF Continue

\* A restart: what a handler owed is marked.
LEMMA CrashStep ==
  ASSUME RefundInv, Crash
  PROVE  RefundInv'
<1>1. /\ \A t \in Threads : job'[t] = NoJob
      /\ UNCHANGED <<order, refund, balance, frozen, charged, feeBack, held, known, requests>>
      /\ crashes' = crashes + 1
  BY DEF Crash, tables
<1>2. /\ doubt' \in [Orders -> SUBSET Doubts] /\ \A o \in Orders : doubt[o] \subseteq doubt'[o]
      /\ \A o \in Orders, t \in Threads : OnOrder(t, o) => Undone(job[t]) \subseteq doubt'[o]
  <2>1. \A o \in Orders : doubt'[o] = doubt[o] \cup UNION {Undone(job[t]) : t \in {u \in Threads : OnOrder(u, o)}}
    BY DEF Crash
  <2>2. \A t \in Threads : Undone(job[t]) \subseteq Doubts
    BY DEF Undone, Doubts
  <2>3. \A o \in Orders : doubt'[o] \in SUBSET Doubts
    BY <2>1, <2>2 DEF RefundInv, TypeOK
  <2>4. DOMAIN doubt' = Orders /\ doubt' = [o \in Orders |-> doubt'[o]]
    BY DEF Crash
  <2>5. QED
    BY <2>1, <2>3, <2>4
<1>3. TypeOK'
  <2>1. job' \in [Threads -> Job \cup {NoJob}]
    BY DEF Crash
  <2>2. QED
    BY <1>1, <1>2, <2>1 DEF RefundInv, TypeOK
<1>4. ASSUME NEW r \in Refunds PROVE Booked(r)'
  <2>1. Booked(r) /\ (refund[r] # NoRow => refund[r].order \in Orders)
    BY DEF RefundInv, TypeOK, Rows
  <2>2. CASE refund[r] = NoRow
    BY <1>1, <2>1, <2>2 DEF Booked
  <2>3. CASE refund[r] # NoRow /\ Owed(r)
    <3>1. PICK t \in Threads : job[t] # NoJob /\ Owing(job[t]) /\ job[t].ref = r
      BY <2>3 DEF Owed
    <3>2. OnOrder(t, refund[r].order)
      BY <2>3, <3>1, JobAt DEF OnOrder, Owing, Unborn
    <3>3. "charge" \in Undone(job[t])
      BY <3>1 DEF Undone, Owing
    <3>4. "charge" \in doubt'[refund[r].order]
      BY <1>2, <2>1, <2>3, <3>2, <3>3
    <3>5. QED
      BY <1>1, <1>2, <2>1, <2>3, <3>4 DEF Booked
  <2>4. CASE refund[r] # NoRow /\ ~Owed(r)
    BY <1>1, <1>2, <2>1, <2>4 DEF Booked
  <2>5. QED
    BY <2>2, <2>3, <2>4
<1>5. QED
  BY <1>1, <1>3, <1>4 DEF RefundInv, Apart

LEMMA InitHolds == Init => RefundInv
<1> SUFFICES ASSUME Init PROVE RefundInv
  OBVIOUS
<1>1. TypeOK
  BY RefundAssumption DEF Init, TypeOK, OrderRows
<1>2. QED
  BY <1>1, RefundNullAssumption DEF Init, RefundInv, Apart, Booked

LEMMA NextKeeps == RefundInv /\ [Next]_vars => RefundInv'
<1> SUFFICES ASSUME RefundInv, [Next]_vars PROVE RefundInv'
  OBVIOUS
<1>1. ASSUME NEW t \in Threads, Arrive(t) \/ Continue(t) PROVE RefundInv'
  BY <1>1, ArriveStep, ContinueStep
<1>2. CASE Crash
  BY <1>2, CrashStep
<1>3. CASE UNCHANGED vars
  BY <1>3 DEF vars, RefundInv, TypeOK, Steady, StepsOf, Unborn, Owing, Fee, Apart, Settled, Booked, Owed
<1>4. QED
  BY <1>1, <1>2, <1>3 DEF Next, AllServed

LEMMA RefundInvHolds == Spec => []RefundInv
BY InitHolds, NextKeeps, PTL DEF Spec

\* The variables have their types, for every number of orders and threads; in
\* particular merchant.frozen and what is charged for a refund are never negative.
THEOREM RefundTypes == Spec => []TypeOK
<1>1. RefundInv => TypeOK
  BY DEF RefundInv
<1>2. QED
  BY <1>1, RefundInvHolds, PTL

\* The fee of a refund is given back once at most while handlers of its order do
\* not overlap.
THEOREM FeeOnce == Spec => []FeeReturnedOnce
<1>1. RefundInv => FeeReturnedOnce
  BY DEF RefundInv, Booked, FeeReturnedOnce
<1>2. QED
  BY <1>1, RefundInvHolds, PTL

\* A refund that is done has been charged, with the exceptions DoneIsCharged names.
THEOREM DoneCharged == Spec => []DoneIsCharged
<1>1. RefundInv => DoneIsCharged
  <2>1. SUFFICES ASSUME RefundInv, NEW r \in Refunds, refund[r] # NoRow, refund[r].state = "done",
                        doubt[refund[r].order] \cap {"revived", "charge"} = {},
                        \A t \in Threads : ~WorksOn(t, r)
                 PROVE  charged[r] = refund[r].amount - refund[r].fee
    BY DEF DoneIsCharged
  <2>2. ~Owed(r)
    BY <2>1 DEF Owed, WorksOn
  <2>3. QED
    BY <2>1, <2>2 DEF RefundInv, Booked
<1>2. QED
  BY <1>1, RefundInvHolds, PTL

\* A step changes the state of a refund only if its handler is at it.
LEMMA DoneStays ==
  ASSUME RefundInv, Next, NEW r \in Refunds, refund[r] # NoRow, refund[r].state = "done",
         "raced" \notin doubt[refund[r].order]
  PROVE  refund'[r].state = "done"
<1>1. CASE refund' = refund
  BY <1>1
<1>2. ASSUME NEW t \in Threads, Insert(t) PROVE refund'[r].state = "done"
  <2>1. job[t] # NoJob /\ Steady(job[t]) /\ Unborn(job[t])
    BY <1>2, JobAt DEF Insert, At, Unborn
  <2>2. job[t].ref # r
    BY <2>1 DEF Steady
  <2>3. QED
    BY <1>2, <2>2 DEF Insert
<1>3. ASSUME NEW t \in Threads, ChannelFails(t) \/ Answered(t) \/ Notified(t) PROVE refund'[r].state = "done"
  <2>1. /\ job[t] # NoJob /\ Steady(job[t]) /\ Settled(job[t]) /\ job[t].order \in Orders
        /\ job[t].kind \in {"apply", "retry", "notify"} /\ ~Unborn(job[t])
        /\ job[t].kind = "notify" => job[t].pc = "final"
    BY <1>3, JobAt DEF ChannelFails, Answered, Notified, At, Unborn
  <2>2. job[t].ref # r
    BY <2>1 DEF Steady, Settled
  <2>3. QED
    BY <1>3, <2>2 DEF ChannelFails, Answered, Notified, SetState, RefundInv, TypeOK
<1>4. QED
  <2>1. ASSUME NEW t \in Threads, Arrive(t) PROVE refund' = refund
    BY <2>1 DEF Arrive, Freeze, Unfreeze, Apply, Gateway, Api, Retry, Notify, Begin, tables
  <2>2. ASSUME NEW t \in Threads, Continue(t),
               ~(Insert(t) \/ ChannelFails(t) \/ Answered(t) \/ Notified(t))
        PROVE  refund' = refund
    BY <2>2 DEF Continue, ApplySum, OrderTotal, Charge, ChannelAccepts, ReturnFee, FreezeMoney,
                UnfreezeMoney, FreezeFinal, tables
  <2>3. Crash \/ AllServed => refund' = refund
    BY DEF Crash, AllServed, vars, tables
  <2>4. QED
    BY <1>1, <1>2, <1>3, <2>1, <2>2, <2>3 DEF Next

\* A refund that is done stays done while handlers of its order do not overlap.
THEOREM DoneForGood == Spec => DoneIsKept
<1>1. RefundInv /\ [Next]_vars =>
        [\A r \in Refunds :
           /\ refund[r] # NoRow /\ refund[r].state = "done"
           /\ "raced" \notin doubt[refund[r].order]
           => refund'[r].state = "done"]_vars
  BY DoneStays
<1>2. QED
  BY <1>1, RefundInvHolds, PTL DEF Spec, DoneIsKept

-----------------------------------------------------------------------------
(* The books.  An order that no two handlers have worked on at once has one job *)
(* at work on it, or none; what that job has read of the order is still there,  *)
(* and the refunds add up once what it has still to write is counted.           *)

GateRows(o) == {r \in RowsOf(o) : refund[r].via # "apply"}
Undoubted == \A p \in Orders : doubt[p] \cap {"raced", "held"} = {}

\* What a job has still to add to refund_amount, and to insert.
Adding(j) == IF j # NoJob /\ j.pc = "order" THEN j.amount ELSE 0
Asking(j) == IF j # NoJob /\ j.kind = "apply" /\ j.pc = "insert" THEN j.amount ELSE 0

Read(o, j) ==
  j # NoJob /\ j.kind \in {"gateway", "api"} /\ j.pc \in {"insert", "order"} =>
    /\ j.refunded = order[o].refunded /\ j.state = order[o].state
    /\ j.pc = "insert" => j.amount + j.refunded <= Paid[o]
Totalled(o, j) == "total" \notin doubt[o] => Total(GateRows(o)) = order[o].refunded + Adding(j)
Within(o, j) ==
  doubt[o] \cap {"mixed", "revived", "total"} = {} => Total(Live(o)) + Asking(j) <= Paid[o]

\* The income of the order is frozen if the order is, but for the one handler
\* that changes both.
Freezing(o, j) ==
  IF j # NoJob /\ j.kind \in {"freeze", "unfreeze"}
    THEN /\ j.amount = Income[o]
         /\ order[o].state = IF j.kind = "freeze" THEN "paid" ELSE "frozen"
         /\ held[o] = IF (j.kind = "freeze") = (j.pc = "final") THEN Income[o] ELSE 0
    ELSE held[o] = IF order[o].state = "frozen" THEN Income[o] ELSE 0

Book(o, j) == Read(o, j) /\ Totalled(o, j) /\ Within(o, j) /\ (Undoubted => Freezing(o, j))
AtWork(o, j) == IF j = NoJob THEN ~Busy(o) ELSE \E t \in Threads : job[t] = j /\ j.order = o

BooksInv ==
  /\ \A o \in Orders, j \in Job \cup {NoJob} : AtWork(o, j) /\ "raced" \notin doubt[o] => Book(o, j)
  /\ frozen = SumFunctionOnSet(held, Orders)

\* What a row adds to the totals of order o.
GatePart(row, o) == IF row # NoRow /\ row.order = o /\ row.via # "apply" THEN row.amount ELSE 0
LivePart(row, o) == IF row # NoRow /\ row.order = o /\ row.state \in {"pending", "done"} THEN row.amount ELSE 0

\* A total of rows is the sum over any function that has their amounts.
LEMMA TotalIs ==
  ASSUME NEW S, S \subseteq Refunds, NEW f, \A r \in S : f[r] = refund[r].amount
  PROVE  Total(S) = SumFunctionOnSet(f, S)
<1>1. PICK g : g = [r \in S |-> refund[r].amount]
  OBVIOUS
<1>2. Total(S) = SumFunctionOnSet(g, S)
  <2>1. Total(S) = SumFunction(g)
    BY <1>1, Zenon DEF Total
  <2>2. DOMAIN g = S
    BY <1>1
  <2> QED
    BY <2>1, <2>2 DEF SumFunction
<1>3. IsFiniteSet(S) /\ \A r \in S : g[r] = f[r]
  <2>1. IsFiniteSet(S)
    BY RefundAssumption, FS_Subset
  <2> QED
    BY <1>1, <2>1
<1> QED
  BY <1>2, <1>3, SumSame

LEMMA TotalIsNext ==
  ASSUME NEW S, S \subseteq Refunds, NEW f, \A r \in S : f[r] = refund'[r].amount
  PROVE  SumFunction([r \in S |-> refund'[r].amount]) = SumFunctionOnSet(f, S)
<1>1. PICK g : g = [r \in S |-> refund'[r].amount]
  OBVIOUS
<1>2. SumFunction(g) = SumFunctionOnSet(g, S)
  <2>1. DOMAIN g = S
    BY <1>1
  <2> QED
    BY <2>1 DEF SumFunction
<1>3. IsFiniteSet(S) /\ \A r \in S : g[r] = f[r]
  <2>1. IsFiniteSet(S)
    BY RefundAssumption, FS_Subset
  <2> QED
    BY <1>1, <2>1
<1> QED
  BY <1>1, <1>2, <1>3, SumSame

LEMMA RowBooks ==
  ASSUME TypeOK, TypeOK', NEW r \in Refunds, \A q \in Refunds \ {r} : refund'[q] = refund[q], NEW o
  PROVE  /\ Total(GateRows(o)) \in Nat /\ Total(Live(o)) \in Nat
         /\ Total(GateRows(o))' = Total(GateRows(o)) - GatePart(refund[r], o) + GatePart(refund'[r], o)
         /\ Total(Live(o))' = Total(Live(o)) - LivePart(refund[r], o) + LivePart(refund'[r], o)
<1>1. \A q \in Refunds : /\ refund[q] # NoRow => refund[q] \in Rows /\ refund[q].amount \in Nat
                         /\ refund'[q] # NoRow => refund'[q] \in Rows /\ refund'[q].amount \in Nat
  BY DEF TypeOK, Rows
<1>2. PICK f, g : f = [q \in Refunds |-> refund[q].amount] /\ g = [q \in Refunds |-> refund'[q].amount]
  OBVIOUS
<1>3. \A q \in Refunds : f[q] = refund[q].amount /\ g[q] = refund'[q].amount
  BY <1>2
<1>4. ASSUME NEW S \in SUBSET Refunds, NEW T \in SUBSET Refunds, S \ {r} = T \ {r},
             \A q \in S : refund[q] # NoRow, \A q \in T : refund'[q] # NoRow
      PROVE  /\ SumFunctionOnSet(f, S) \in Nat
             /\ SumFunctionOnSet(g, T) = SumFunctionOnSet(f, S) - Part(f, S, r) + Part(g, T, r)
  <2>1. (\A q \in S : f[q] \in Nat) /\ \A q \in T : g[q] \in Nat
    BY <1>1, <1>3, <1>4
  <2>2. Integral(f, S) /\ Integral(g, T)
    BY <2>1 DEF Integral
  <2>3. Alike(f, S, g, T, r)
    BY <1>3, <1>4 DEF Alike
  <2>4. IsFiniteSet(Refunds)
    BY RefundAssumption
  <2>5. SumFunctionOnSet(g, T) = SumFunctionOnSet(f, S) - Part(f, S, r) + Part(g, T, r)
    BY <2>2, <2>3, <2>4, SumUpdate
  <2>6. IsFiniteSet(S)
    BY <2>4, FS_Subset
  <2>7. SumFunctionOnSet(f, S) \in Nat
    BY <2>1, <2>6, SumNat
  <2> QED
    BY <2>5, <2>7
<1>5. /\ Total(GateRows(o)) \in Nat
      /\ Total(GateRows(o))' = Total(GateRows(o)) - GatePart(refund[r], o) + GatePart(refund'[r], o)
  <2>1. PICK S, T : S = GateRows(o) /\ T = GateRows(o)'
    OBVIOUS
  <2>2. /\ S = {q \in Refunds : refund[q] # NoRow /\ refund[q].order = o /\ refund[q].via # "apply"}
        /\ T = {q \in Refunds : refund'[q] # NoRow /\ refund'[q].order = o /\ refund'[q].via # "apply"}
    BY <2>1 DEF GateRows, RowsOf
  <2>3. /\ SumFunctionOnSet(f, S) \in Nat
        /\ SumFunctionOnSet(g, T) = SumFunctionOnSet(f, S) - Part(f, S, r) + Part(g, T, r)
    <3>1. S \in SUBSET Refunds /\ T \in SUBSET Refunds /\ S \ {r} = T \ {r}
      BY <2>2
    <3>2. (\A q \in S : refund[q] # NoRow) /\ \A q \in T : refund'[q] # NoRow
      BY <2>2
    <3> QED
      BY <1>4, <3>1, <3>2
  <2>4. Part(f, S, r) = GatePart(refund[r], o) /\ Part(g, T, r) = GatePart(refund'[r], o)
    BY <1>3, <2>2 DEF Part, GatePart
  <2>5. Total(GateRows(o)) = SumFunctionOnSet(f, S) /\ Total(GateRows(o))' = SumFunctionOnSet(g, T)
    <3>1. Total(S) = SumFunctionOnSet(f, S)
      BY <1>3, <2>2, TotalIs
    <3>2. SumFunction([q \in T |-> refund'[q].amount]) = SumFunctionOnSet(g, T)
      BY <1>3, <2>2, TotalIsNext
    <3>3. Total(GateRows(o))' = SumFunction([q \in T |-> refund'[q].amount])
      BY <2>1, Zenon DEF Total
    <3> QED
      BY <2>1, <3>1, <3>2, <3>3
  <2> QED
    BY <2>3, <2>4, <2>5
<1>6. /\ Total(Live(o)) \in Nat
      /\ Total(Live(o))' = Total(Live(o)) - LivePart(refund[r], o) + LivePart(refund'[r], o)
  <2>1. PICK S, T : S = Live(o) /\ T = Live(o)'
    OBVIOUS
  <2>2. /\ S = {q \in Refunds : refund[q] # NoRow /\ refund[q].order = o /\ refund[q].state \in {"pending", "done"}}
        /\ T = {q \in Refunds : refund'[q] # NoRow /\ refund'[q].order = o /\ refund'[q].state \in {"pending", "done"}}
    BY <2>1 DEF Live, RowsOf
  <2>3. /\ SumFunctionOnSet(f, S) \in Nat
        /\ SumFunctionOnSet(g, T) = SumFunctionOnSet(f, S) - Part(f, S, r) + Part(g, T, r)
    <3>1. S \in SUBSET Refunds /\ T \in SUBSET Refunds /\ S \ {r} = T \ {r}
      BY <2>2
    <3>2. (\A q \in S : refund[q] # NoRow) /\ \A q \in T : refund'[q] # NoRow
      BY <2>2
    <3> QED
      BY <1>4, <3>1, <3>2
  <2>4. Part(f, S, r) = LivePart(refund[r], o) /\ Part(g, T, r) = LivePart(refund'[r], o)
    BY <1>3, <2>2 DEF Part, LivePart
  <2>5. Total(Live(o)) = SumFunctionOnSet(f, S) /\ Total(Live(o))' = SumFunctionOnSet(g, T)
    <3>1. Total(S) = SumFunctionOnSet(f, S)
      BY <1>3, <2>2, TotalIs
    <3>2. SumFunction([q \in T |-> refund'[q].amount]) = SumFunctionOnSet(g, T)
      BY <1>3, <2>2, TotalIsNext
    <3>3. Total(Live(o))' = SumFunction([q \in T |-> refund'[q].amount])
      BY <2>1, Zenon DEF Total
    <3> QED
      BY <2>1, <3>1, <3>2, <3>3
  <2> QED
    BY <2>3, <2>4, <2>5
<1> QED
  BY <1>5, <1>6

\* A step of thread t that touches order o and no other.
OnlyOrder(t, o) ==
  /\ job[t] # NoJob => job[t].order = o
  /\ job'[t] # NoJob => job'[t].order = o
  /\ \A u \in Threads \ {t} : job'[u] = job[u]
  /\ \A p \in Orders \ {o} : order'[p] = order[p] /\ held'[p] = held[p]
  /\ \/ refund' = refund
     \/ \E r \in Refunds :
          /\ \A q \in Refunds \ {r} : refund'[q] = refund[q]
          /\ refund[r] # NoRow => refund[r].order = o
          /\ refund'[r] # NoRow => refund'[r].order = o
  /\ \A p \in Orders : doubt[p] \subseteq doubt'[p]

LEMMA TotalsStay ==
  ASSUME refund' = refund, NEW o
  PROVE  /\ Total(GateRows(o))' = Total(GateRows(o))
         /\ Total(Live(o))' = Total(Live(o))
<1>1. GateRows(o)' = GateRows(o) /\ Live(o)' = Live(o)
  BY DEF GateRows, Live, RowsOf
<1>2. ASSUME NEW S PROVE Total(S)' = Total(S)
  BY <1>2 DEF Total
<1> QED
  BY <1>1 DEF Total

LEMMA OthersTotals ==
  ASSUME TypeOK, TypeOK', NEW t \in Threads, NEW o, OnlyOrder(t, o), NEW p, p # o
  PROVE  /\ Total(GateRows(p))' = Total(GateRows(p))
         /\ Total(Live(p))' = Total(Live(p))
<1>1. CASE refund' = refund
  BY <1>1, TotalsStay
<1>2. ASSUME NEW r \in Refunds,
             \A q \in Refunds \ {r} : refund'[q] = refund[q],
             refund[r] # NoRow => refund[r].order = o,
             refund'[r] # NoRow => refund'[r].order = o
      PROVE  /\ Total(GateRows(p))' = Total(GateRows(p))
             /\ Total(Live(p))' = Total(Live(p))
  <2>1. /\ GatePart(refund[r], p) = 0 /\ GatePart(refund'[r], p) = 0
        /\ LivePart(refund[r], p) = 0 /\ LivePart(refund'[r], p) = 0
    BY <1>2 DEF GatePart, LivePart
  <2>2. PICK g, l, g1, l1 : /\ g = Total(GateRows(p)) /\ l = Total(Live(p))
                            /\ g1 = Total(GateRows(p))' /\ l1 = Total(Live(p))'
    OBVIOUS
  <2>3. g \in Nat /\ l \in Nat /\ g1 = g - 0 + 0 /\ l1 = l - 0 + 0
    BY <1>2, <2>1, <2>2, RowBooks
  <2> QED
    BY <2>2, <2>3
<1> QED
  BY <1>1, <1>2 DEF OnlyOrder

\* Its books have to be looked at, those of the other orders stay right.
LEMMA BooksFrame ==
  ASSUME RefundInv, TypeOK', BooksInv, NEW t \in Threads, NEW o \in Orders, OnlyOrder(t, o),
         job[t] = NoJob /\ Busy(o) => "raced" \in doubt'[o],
         "raced" \notin doubt'[o] /\ Book(o, job[t]) => Book(o, job[t])',
         (frozen = SumFunctionOnSet(held, Orders))'
  PROVE  BooksInv'
<1>1. Undoubted' => Undoubted
  BY DEF Undoubted, OnlyOrder
<1>2. TypeOK /\ Apart
  BY DEF RefundInv
<1>3. job[t] \in Job \cup {NoJob} /\ \A u \in Threads : job'[u] \in Job \cup {NoJob}
  BY <1>2 DEF TypeOK
<1>4. ASSUME NEW p \in Orders, p # o, NEW j \in Job \cup {NoJob}, AtWork(p, j)', "raced" \notin doubt'[p]
      PROVE  Book(p, j)'
  <2>1. AtWork(p, j)
    <3>1. CASE j = NoJob
      BY <1>4, <3>1 DEF AtWork, Busy, OnOrder, OnlyOrder
    <3>2. CASE j # NoJob
      <4>1. PICK u \in Threads : job'[u] = j /\ j.order = p
        BY <1>4, <3>2 DEF AtWork
      <4>2. u # t
        BY <1>4, <3>2, <4>1 DEF OnlyOrder
      <4> QED
        BY <3>2, <4>1, <4>2 DEF AtWork, OnlyOrder
    <3> QED
      BY <3>1, <3>2
  <2>2. doubt[p] \subseteq doubt'[p] /\ order'[p] = order[p] /\ held'[p] = held[p]
    BY <1>4 DEF OnlyOrder
  <2>3. Book(p, j)
    BY <1>4, <2>1, <2>2 DEF BooksInv
  <2>4. Total(GateRows(p))' = Total(GateRows(p)) /\ Total(Live(p))' = Total(Live(p))
    BY <1>2, <1>4, OthersTotals
  <2>5. Read(p, j)'
    BY <2>2, <2>3 DEF Book, Read
  <2>6. Totalled(p, j)'
    BY <2>2, <2>3, <2>4 DEF Book, Totalled, Adding
  <2>7. Within(p, j)'
    BY <2>2, <2>3, <2>4 DEF Book, Within, Asking
  <2>8. Undoubted' => Freezing(p, j)'
    BY <1>1, <2>2, <2>3 DEF Book, Freezing
  <2> QED
    BY <2>5, <2>6, <2>7, <2>8 DEF Book
<1>5. ASSUME NEW j \in Job \cup {NoJob}, AtWork(o, j)', "raced" \notin doubt'[o]
      PROVE  Book(o, j)'
  <2>1. "raced" \notin doubt[o]
    BY <1>5 DEF OnlyOrder
  <2>2. ASSUME NEW u \in Threads \ {t} PROVE ~OnOrder(u, o)
    BY <1>2, <1>5, <2>1 DEF Apart, Busy, OnOrder, OnlyOrder
  <2>3. j = job'[t]
    <3>1. CASE j = NoJob
      BY <1>5, <3>1 DEF AtWork, Busy, OnOrder, OnlyOrder
    <3>2. CASE j # NoJob
      <4>1. PICK u \in Threads : job'[u] = j /\ j.order = o
        BY <1>5, <3>2 DEF AtWork
      <4>2. u = t
        BY <2>2, <3>2, <4>1 DEF OnlyOrder, OnOrder
      <4> QED
        BY <4>1, <4>2
    <3> QED
      BY <3>1, <3>2
  <2>4. AtWork(o, job[t])
    BY <2>2 DEF AtWork, Busy, OnOrder, OnlyOrder
  <2>5. Book(o, job[t])
    BY <1>3, <2>1, <2>4 DEF BooksInv
  <2>6. Book(o, job[t])'
    BY <1>5, <2>5
  <2> QED
    BY <2>3, <2>6 DEF Book, Read, Totalled, Within, Freezing, Adding, Asking
<1>6. \A p \in Orders, j \in Job \cup {NoJob} : AtWork(p, j)' /\ "raced" \notin doubt'[p] => Book(p, j)'
  BY <1>4, <1>5
<1> QED
  BY <1>6 DEF BooksInv, AtWork, Busy, OnOrder, Book, Read, Totalled, Within, Freezing, Adding, Asking, Undoubted

\* The same, with the job that the step leaves named.
LEMMA BookStep ==
  ASSUME RefundInv, TypeOK', BooksInv, NEW t \in Threads, NEW o \in Orders, OnlyOrder(t, o),
         job[t] = NoJob /\ Busy(o) => "raced" \in doubt'[o],
         NEW j, j = job'[t],
         "raced" \notin doubt'[o] /\ Book(o, job[t]) => Book(o, j)',
         (frozen = SumFunctionOnSet(held, Orders))'
  PROVE  BooksInv'
<1>1. ASSUME "raced" \notin doubt'[o], Book(o, job[t]) PROVE Book(o, job[t])'
  <2>1. Book(o, j)'
    BY <1>1
  <2> QED
    BY <2>1 DEF Book, Read, Totalled, Within, Freezing, Adding, Asking
<1> QED
  BY <1>1, BooksFrame

LEMMA LiveNat ==
  ASSUME TypeOK, NEW o
  PROVE  Total(Live(o)) \in Nat
<1>1. IsFiniteSet(Live(o)) /\ Live(o) \subseteq Refunds /\ \A q \in Live(o) : refund[q] \in Rows
  <2>1. Live(o) \subseteq Refunds /\ \A q \in Live(o) : refund[q] \in Rows
    BY DEF Live, RowsOf, TypeOK
  <2> QED
    BY <2>1, RefundAssumption, FS_Subset
<1>2. PICK f : f = [q \in Refunds |-> refund[q].amount]
  OBVIOUS
<1>3. \A q \in Live(o) : f[q] = refund[q].amount /\ f[q] \in Nat
  BY <1>1, <1>2 DEF Rows
<1>4. Total(Live(o)) = SumFunctionOnSet(f, Live(o))
  BY <1>1, <1>3, TotalIs
<1> QED
  BY <1>1, <1>3, <1>4, SumNat

\* No row and no total changes.
LEMMA BookKeeps ==
  ASSUME TypeOK, NEW o \in Orders, NEW i, NEW j, Book(o, i),
         \A p \in Orders : doubt[p] \subseteq doubt'[p],
         refund' = refund, order'[o].refunded = order[o].refunded,
         Adding(j) = Adding(i), Asking(i) \in Nat, Asking(j) = 0 \/ Asking(j) = Asking(i),
         Read(o, j)', Undoubted => Freezing(o, j)'
  PROVE  Book(o, j)'
<1>1. Undoubted' => Undoubted
  BY DEF Undoubted
<1>2. Total(GateRows(o))' = Total(GateRows(o)) /\ Total(Live(o))' = Total(Live(o))
  BY TotalsStay
<1>3. Adding(j)' = Adding(j) /\ Asking(j)' = Asking(j)
  BY DEF Adding, Asking
<1>4. Totalled(o, j)'
  BY <1>2, <1>3 DEF Book, Totalled
<1>5. Within(o, j)'
  <2>1. PICK l : l = Total(Live(o))
    OBVIOUS
  <2>2. l \in Nat /\ Paid[o] \in Nat
    <3>1. l \in Nat
      BY <2>1, LiveNat
    <3>2. Paid[o] \in Nat
      BY RefundAssumption
    <3> QED
      BY <3>1, <3>2
  <2>3. doubt'[o] \cap {"mixed", "revived", "total"} = {} => l + Asking(i) <= Paid[o]
    BY <2>1 DEF Book, Within
  <2>4. doubt'[o] \cap {"mixed", "revived", "total"} = {} => l + Asking(j) <= Paid[o]
    BY <2>2, <2>3
  <2> QED
    BY <1>2, <1>3, <2>1, <2>4 DEF Within
<1> QED
  BY <1>1, <1>4, <1>5 DEF Book

LEMMA AskingNat ==
  ASSUME NEW j \in Job \cup {NoJob}
  PROVE  Asking(j) \in Nat /\ Adding(j) \in Nat
BY DEF Asking, Adding, Job

\* A request arrives, and reads the order.
LEMMA BeginBooks ==
  ASSUME RefundInv, TypeOK', BooksInv, NEW t \in Threads, NEW kind \in Kinds, NEW o \in Orders, NEW r,
         NEW a \in Nat, NEW pc, Begin(t, kind, o, r, a, pc), pc # "order",
         kind = "apply" => pc = "sum",
         kind \in {"gateway", "api"} => a <= Paid[o] - order[o].refunded,
         kind \in {"freeze", "unfreeze"} =>
           /\ pc = "money" /\ a = Income[o]
           /\ order[o].state = IF kind = "freeze" THEN "paid" ELSE "frozen"
  PROVE  BooksInv'
<1>1. PICK j : j = [kind |-> kind, order |-> o, ref |-> r, amount |-> a, state |-> order[o].state,
                    refunded |-> order[o].refunded, answer |-> "pending", pc |-> pc]
  OBVIOUS
<1>2. /\ job' = [job EXCEPT ![t] = j] /\ job[t] = NoJob
      /\ UNCHANGED <<order, refund, frozen, held>>
  BY <1>1 DEF Begin, tables
<1>3. /\ j.kind = kind /\ j.order = o /\ j.amount = a /\ j.pc = pc
      /\ j.state = order[o].state /\ j.refunded = order[o].refunded
  BY <1>1
<1>4. job'[t] = j /\ \A u \in Threads \ {t} : job'[u] = job[u]
  BY <1>2 DEF RefundInv, TypeOK
<1>5. /\ \A p \in Orders : doubt[p] \subseteq doubt'[p]
      /\ Busy(o) => "raced" \in doubt'[o]
  BY DEF Begin, Doubted, RefundInv, TypeOK
<1>6. OnlyOrder(t, o)
  BY <1>2, <1>3, <1>4, <1>5 DEF OnlyOrder
<1>7. ASSUME Book(o, NoJob) PROVE Book(o, j)'
  <2>1. Adding(NoJob) = 0 /\ Asking(NoJob) = 0 /\ Adding(j) = 0 /\ Asking(j) = 0
    BY <1>3 DEF Adding, Asking
  <2>2. Read(o, j)'
    <3>1. order[o].refunded \in Nat /\ Paid[o] \in Nat
      BY RefundAssumption DEF RefundInv, TypeOK, OrderRows
    <3> QED
      BY <1>2, <1>3, <3>1 DEF Read
  <2>3. Undoubted => Freezing(o, j)'
    BY <1>2, <1>3, <1>7 DEF Book, Freezing
  <2> QED
    BY <1>2, <1>5, <1>7, <2>1, <2>2, <2>3, BookKeeps DEF RefundInv
<1>8. (frozen = SumFunctionOnSet(held, Orders))'
  BY <1>2 DEF BooksInv
<1> QED
  BY <1>2, <1>4, <1>5, <1>6, <1>7, <1>8, BookStep

LEMMA ArriveBooks ==
  ASSUME RefundInv, TypeOK', BooksInv, NEW t \in Threads, Arrive(t)
  PROVE  BooksInv'
<1>1. ASSUME NEW o \in Orders, Freeze(t, o) \/ Unfreeze(t, o) PROVE BooksInv'
  <2>1. Income[o] \in Nat
    BY Numbers
  <2>2. CASE Freeze(t, o)
    <3>1. order[o].state = "paid" /\ Begin(t, "freeze", o, NoRow, Income[o], "money")
      BY <2>2 DEF Freeze
    <3> QED
      BY <2>1, <3>1, BeginBooks DEF Kinds
  <2>3. CASE Unfreeze(t, o)
    <3>1. order[o].state = "frozen" /\ Begin(t, "unfreeze", o, NoRow, Income[o], "money")
      BY <2>3 DEF Unfreeze
    <3> QED
      BY <2>1, <3>1, BeginBooks DEF Kinds
  <2> QED
    BY <1>1, <2>2, <2>3
<1>2. ASSUME NEW o \in Orders, NEW a \in Amounts, Apply(t, o, a) \/ Gateway(t, o, a) \/ Api(t, o, a)
      PROVE  BooksInv'
  <2>1. a \in Nat
    BY Numbers
  <2>2. CASE Apply(t, o, a)
    <3>1. PICK r \in Fresh : Begin(t, "apply", o, r, a, "sum")
      BY <2>2 DEF Apply
    <3> QED
      BY <2>1, <3>1, BeginBooks DEF Kinds, Sources
  <2>3. CASE Gateway(t, o, a)
    <3>1. PICK r \in Fresh : Begin(t, "gateway", o, r, a, "insert")
      BY <2>3 DEF Gateway
    <3>2. a <= Paid[o] - order[o].refunded
      BY <2>3 DEF Gateway
    <3> QED
      BY <2>1, <3>1, <3>2, BeginBooks DEF Kinds, Sources
  <2>4. CASE Api(t, o, a)
    <3>1. PICK r \in Fresh : Begin(t, "api", o, r, a, "insert")
      BY <2>4 DEF Api
    <3>2. a <= Paid[o] - order[o].refunded
      BY <2>4 DEF Api
    <3> QED
      BY <2>1, <3>1, <3>2, BeginBooks DEF Kinds, Sources
  <2> QED
    BY <1>2, <2>2, <2>3, <2>4
<1>3. ASSUME NEW r \in Refunds, Retry(t, r) \/ Notify(t, r) PROVE BooksInv'
  <2>1. refund[r] # NoRow
    BY <1>3 DEF Retry, Notify
  <2>2. refund[r].order \in Orders /\ refund[r].amount \in Nat
    BY <2>1, Numbers DEF Rows
  <2>3. CASE Retry(t, r)
    <3>1. Begin(t, "retry", refund[r].order, r, refund[r].amount, "channel")
      BY <2>3 DEF Retry
    <3> QED
      BY <2>2, <3>1, BeginBooks DEF Kinds
  <2>4. CASE Notify(t, r)
    <3>1. Begin(t, "notify", refund[r].order, r, refund[r].amount, "final")
      BY <2>4 DEF Notify
    <3> QED
      BY <2>2, <3>1, BeginBooks DEF Kinds
  <2> QED
    BY <1>3, <2>3, <2>4
<1> QED
  BY <1>1, <1>2, <1>3 DEF Arrive

\* A job that goes on remembers what it has read.
LEMMA GoToReads ==
  ASSUME RefundInv, NEW t \in Threads, job[t] # NoJob, NEW pc, GoTo(t, pc)
  PROVE  job'[t].refunded = job[t].refunded /\ job'[t].state = job[t].state
<1>1. PICK j : j = [job[t] EXCEPT !.pc = pc]
  OBVIOUS
<1>2. j.refunded = job[t].refunded /\ j.state = job[t].state
  BY <1>1, JobAt DEF Job
<1>3. job' = [job EXCEPT ![t] = j]
  BY <1>1 DEF GoTo
<1> QED
  BY <1>2, <1>3 DEF RefundInv, TypeOK

\* The steps that write no row, no total and no freezing.
LEMMA QuietBooks ==
  ASSUME RefundInv, TypeOK', BooksInv, NEW t \in Threads, job[t] # NoJob,
         job[t].kind \notin {"freeze", "unfreeze"}, job[t].pc # "order",
         order' = order, refund' = refund, held' = held, frozen' = frozen,
         \A p \in Orders : doubt[p] \subseteq doubt'[p],
         \A u \in Threads \ {t} : job'[u] = job[u],
         job'[t] # NoJob =>
           /\ job'[t].order = job[t].order /\ job'[t].kind = job[t].kind
           /\ job'[t].pc \in {"money", "final", "channel"}
  PROVE  BooksInv'
<1>1. PICK i, j, o : i = job[t] /\ j = job'[t] /\ o = job[t].order
  OBVIOUS
<1>2. o \in Orders /\ i # NoJob /\ i \in Job
  BY <1>1, JobAt
<1>3. OnlyOrder(t, o)
  BY <1>1 DEF OnlyOrder
<1>4. ASSUME Book(o, i) PROVE Book(o, j)'
  <2>1. Adding(i) = 0 /\ Adding(j) = 0 /\ Asking(j) = 0 /\ Asking(i) \in Nat
    BY <1>1, <1>2, AskingNat DEF Adding, Asking
  <2>2. Read(o, j)'
    BY <1>1 DEF Read
  <2>3. Undoubted => Freezing(o, j)'
    BY <1>1, <1>4 DEF Book, Freezing
  <2> QED
    BY <1>2, <1>4, <2>1, <2>2, <2>3, BookKeeps DEF RefundInv
<1>5. (frozen = SumFunctionOnSet(held, Orders))'
  BY DEF BooksInv
<1> QED
  BY <1>1, <1>2, <1>3, <1>4, <1>5, BookStep

LEMMA ApplySumBooks ==
  ASSUME RefundInv, TypeOK', BooksInv, NEW t \in Threads, ApplySum(t)
  PROVE  BooksInv'
<1>1. PICK i, o : i = job[t] /\ o = job[t].order
  OBVIOUS
<1>2. /\ i # NoJob /\ i.kind = "apply" /\ i.pc = "sum" /\ i.order = o
      /\ UNCHANGED <<order, refund, frozen, held, doubt>>
      /\ IF Total(Live(o)) + i.amount > Paid[o] THEN Finish(t) ELSE GoTo(t, "insert")
  BY <1>1 DEF ApplySum, At, tables
<1>3. o \in Orders /\ i \in Job
  BY <1>1, <1>2, JobAt
<1>4. CASE Total(Live(o)) + i.amount > Paid[o]
  BY <1>1, <1>2, <1>4, FinishJob, QuietBooks
<1>5. CASE ~(Total(Live(o)) + i.amount > Paid[o])
  <2>1. PICK j : j = job'[t]
    OBVIOUS
  <2>2. /\ \A u \in Threads \ {t} : job'[u] = job[u]
        /\ j # NoJob /\ j.kind = "apply" /\ j.order = o /\ j.amount = i.amount /\ j.pc = "insert"
    BY <1>1, <1>2, <1>5, <2>1, GoToJob
  <2>3. OnlyOrder(t, o)
    BY <1>1, <1>2, <2>1, <2>2 DEF OnlyOrder
  <2>4. ASSUME Book(o, i) PROVE Book(o, j)'
    <3>1. Total(GateRows(o))' = Total(GateRows(o)) /\ Total(Live(o))' = Total(Live(o))
      BY <1>2, TotalsStay
    <3>2. Read(o, j)'
      BY <2>2 DEF Read
    <3>3. Totalled(o, j)'
      <4>1. Adding(i) = 0 /\ Adding(j)' = 0
        BY <1>2, <2>2 DEF Adding
      <4> QED
        BY <1>2, <2>4, <3>1, <4>1 DEF Book, Totalled
    <3>4. Within(o, j)'
      <4>1. PICK l : l = Total(Live(o))
        OBVIOUS
      <4>2. l \in Nat
        <5>1. TypeOK /\ i.ref \in Refunds
          BY <1>1, <1>2, JobAt DEF RefundInv, Steady, StepsOf
        <5> QED
          BY <1>2, <4>1, <5>1, RowBooks
      <4>3. l + i.amount <= Paid[o]
        BY <1>3, <1>5, <4>1, <4>2, RefundAssumption DEF Job
      <4>4. Asking(j)' = i.amount
        BY <2>2 DEF Asking
      <4> QED
        BY <3>1, <4>1, <4>3, <4>4 DEF Within
    <3>5. Undoubted' => Freezing(o, j)'
      BY <1>2, <2>2, <2>4 DEF Book, Freezing, Undoubted
    <3> QED
      BY <3>2, <3>3, <3>4, <3>5 DEF Book
  <2>5. (frozen = SumFunctionOnSet(held, Orders))'
    BY <1>2 DEF BooksInv
  <2> QED
    BY <1>1, <1>2, <1>3, <2>1, <2>3, <2>4, <2>5, BookStep
<1> QED
  BY <1>4, <1>5

LEMMA ChargeBooks ==
  ASSUME RefundInv, TypeOK', BooksInv, NEW t \in Threads, Charge(t)
  PROVE  BooksInv'
<1>1. /\ job[t] # NoJob /\ job[t].kind \in Sources /\ job[t].pc = "money"
      /\ UNCHANGED <<order, refund, frozen, held>>
      /\ \E marks \in SUBSET Doubts : Doubted(job[t].order, marks)
      /\ \/ \E a \in {"pending", "done"} : job' = [job EXCEPT ![t].answer = a, ![t].pc = "final"]
         \/ Finish(t)
  <2>1. job[t] # NoJob => job[t].answer \in {"pending", "done"}
    BY JobAt DEF Job
  <2>2. (IF (job[t].kind = "apply" => balance >= job[t].amount) \/ ~order[job[t].order].channel THEN {} ELSE {"charge"})
           \in SUBSET Doubts
    BY DEF Doubts
  <2>3. job[t] # NoJob => \A a : [job EXCEPT ![t].pc = "final", ![t].answer = a] = [job EXCEPT ![t].answer = a, ![t].pc = "final"]
    BY JobAt DEF RefundInv, TypeOK, Job
  <2>4. /\ job[t] # NoJob /\ job[t].kind \in Sources /\ job[t].pc = "money"
        /\ UNCHANGED <<order, refund, frozen, held>>
    BY DEF Charge, At
  <2>5. \E marks \in SUBSET Doubts : Doubted(job[t].order, marks)
    BY <2>2 DEF Charge
  <2>6. \/ job' = [job EXCEPT ![t].pc = "final", ![t].answer = IF ~order[job[t].order].channel THEN "done" ELSE @]
        \/ Finish(t)
    BY DEF Charge
  <2> QED
    BY <2>1, <2>3, <2>4, <2>5, <2>6 DEF RefundInv, TypeOK
<1>2. \A p \in Orders : doubt[p] \subseteq doubt'[p]
  BY <1>1, JobAt, DoubtGrows
<1>3. /\ \A u \in Threads \ {t} : job'[u] = job[u]
      /\ job'[t] # NoJob => job'[t].order = job[t].order /\ job'[t].kind = job[t].kind /\ job'[t].pc = "final"
  BY <1>1, AnswerJob, FinishJob
<1> QED
  BY <1>1, <1>2, <1>3, QuietBooks DEF Sources

LEMMA AcceptBooks ==
  ASSUME RefundInv, TypeOK', BooksInv, NEW t \in Threads, ChannelAccepts(t)
  PROVE  BooksInv'
<1>1. PICK a \in {"pending", "done"}, pc \in {"money", "final"} :
        job' = [job EXCEPT ![t].answer = a, ![t].pc = pc]
  BY DEF ChannelAccepts
<1>2. /\ job[t] # NoJob /\ job[t].kind \in {"apply", "retry"} /\ job[t].pc = "channel"
      /\ UNCHANGED <<order, refund, frozen, held, doubt>>
  BY DEF ChannelAccepts, At, tables
<1>3. /\ \A u \in Threads \ {t} : job'[u] = job[u]
      /\ job'[t].order = job[t].order /\ job'[t].kind = job[t].kind /\ job'[t].pc = pc
  BY <1>1, <1>2, AnswerJob
<1> QED
  BY <1>1, <1>2, <1>3, QuietBooks

LEMMA ReturnFeeBooks ==
  ASSUME RefundInv, TypeOK', BooksInv, NEW t \in Threads, ReturnFee(t)
  PROVE  BooksInv'
<1>1. /\ job[t] # NoJob /\ job[t].kind = "notify" /\ job[t].pc = "money" /\ Finish(t)
      /\ UNCHANGED <<order, refund, frozen, held, doubt>>
  BY DEF ReturnFee, At
<1> QED
  BY <1>1, FinishJob, QuietBooks

\* A row changes its state: the gateway's total does not, and what is booked
\* grows only when a refund that had failed is brought back.
LEMMA StateBooks ==
  ASSUME RefundInv, TypeOK', BooksInv, NEW t \in Threads, job[t] # NoJob,
         job[t].kind \notin {"freeze", "unfreeze"}, job[t].pc \in {"channel", "final"},
         NEW r \in Refunds, refund[r] # NoRow, refund[r].order = job[t].order,
         NEW s \in {"pending", "done", "failed"}, refund' = [refund EXCEPT ![r].state = s],
         refund[r].state = "failed" /\ s # "failed" => "revived" \in doubt'[job[t].order],
         order' = order, held' = held, frozen' = frozen,
         \A p \in Orders : doubt[p] \subseteq doubt'[p],
         \A u \in Threads \ {t} : job'[u] = job[u],
         job'[t] # NoJob =>
           /\ job'[t].order = job[t].order /\ job'[t].kind = job[t].kind /\ job'[t].pc = "money"
  PROVE  BooksInv'
<1>1. PICK i, j, o : i = job[t] /\ j = job'[t] /\ o = job[t].order
  OBVIOUS
<1>2. o \in Orders /\ i # NoJob /\ i \in Job
  BY <1>1, JobAt
<1>3. PICK row : row = [refund[r] EXCEPT !.state = s]
  OBVIOUS
<1>4. /\ row \in Rows /\ row # NoRow /\ row.order = o /\ row.via = refund[r].via
      /\ row.amount = refund[r].amount /\ row.state = s /\ refund[r] \in Rows
  BY <1>1, <1>3, Numbers, RefundNullAssumption DEF Rows
<1>5. refund'[r] = row /\ \A q \in Refunds \ {r} : refund'[q] = refund[q]
  BY <1>3 DEF RefundInv, TypeOK
<1>6. OnlyOrder(t, o)
  BY <1>1, <1>4, <1>5 DEF OnlyOrder
<1>7. PICK g, l, g1, l1 : /\ g = Total(GateRows(o)) /\ l = Total(Live(o))
                          /\ g1 = Total(GateRows(o))' /\ l1 = Total(Live(o))'
  OBVIOUS
<1>8. PICK a, b, b1 : a = GatePart(refund[r], o) /\ b = LivePart(refund[r], o) /\ b1 = LivePart(row, o)
  OBVIOUS
<1>9. /\ a \in Nat /\ b \in Nat /\ b1 \in Nat /\ GatePart(row, o) = a
      /\ b1 <= b \/ "revived" \in doubt'[o]
  <2>1. refund[r].amount \in Nat /\ refund[r].state \in {"pending", "done", "failed"}
    BY <1>4 DEF Rows
  <2>2. a \in Nat /\ GatePart(row, o) = a
    BY <1>1, <1>4, <1>8, <2>1 DEF GatePart
  <2>3. b \in Nat /\ b1 \in Nat
    BY <1>4, <1>8, <2>1 DEF LivePart
  <2>4. b1 <= b \/ "revived" \in doubt'[o]
    <3>1. CASE s = "failed"
      <4>1. b1 = 0
        BY <1>4, <1>8, <3>1 DEF LivePart
      <4> QED
        BY <2>3, <4>1
    <3>2. CASE s # "failed" /\ refund[r].state # "failed"
      <4>1. b1 = refund[r].amount /\ b = refund[r].amount
        BY <1>1, <1>4, <1>8, <2>1, <3>2 DEF LivePart
      <4> QED
        BY <2>1, <4>1
    <3> QED
      BY <1>1, <3>1, <3>2
  <2> QED
    BY <2>2, <2>3, <2>4
<1>10. g \in Nat /\ l \in Nat /\ g1 = g - a + a /\ l1 = l - b + b1
  <2>1. TypeOK
    BY DEF RefundInv
  <2> QED
    BY <1>5, <1>7, <1>8, <1>9, <2>1, RowBooks
<1>11. g1 = g /\ l1 \in Int /\ (l1 <= l \/ "revived" \in doubt'[o])
  BY <1>9, <1>10
<1>12. ASSUME Book(o, i) PROVE Book(o, j)'
  <2>1. Read(o, j)'
    BY <1>1 DEF Read
  <2>2. Adding(i) = 0 /\ Adding(j)' = 0 /\ Asking(i) = 0 /\ Asking(j)' = 0
    BY <1>1, <1>2 DEF Adding, Asking
  <2>3. doubt[o] \subseteq doubt'[o] /\ order' = order
    BY <1>2
  <2>4. Totalled(o, j)'
    BY <1>7, <1>11, <1>12, <2>2, <2>3 DEF Book, Totalled
  <2>5. Within(o, j)'
    <3>1. Paid[o] \in Nat
      BY <1>2, RefundAssumption
    <3>2. doubt'[o] \cap {"mixed", "revived", "total"} = {} => l + 0 <= Paid[o] /\ l1 <= l
      BY <1>7, <1>11, <1>12, <2>2, <2>3 DEF Book, Within
    <3>3. doubt'[o] \cap {"mixed", "revived", "total"} = {} => l1 + 0 <= Paid[o]
      BY <1>10, <1>11, <3>1, <3>2
    <3> QED
      BY <1>7, <2>2, <3>3 DEF Within
  <2>6. Undoubted' => Freezing(o, j)'
    BY <1>1, <1>12, <2>3 DEF Book, Freezing, Undoubted
  <2> QED
    BY <2>1, <2>4, <2>5, <2>6 DEF Book
<1>13. (frozen = SumFunctionOnSet(held, Orders))'
  BY DEF BooksInv
<1> QED
  BY <1>1, <1>2, <1>6, <1>12, <1>13, BookStep

LEMMA FailBooks ==
  ASSUME RefundInv, TypeOK', BooksInv, NEW t \in Threads, ChannelFails(t)
  PROVE  BooksInv'
<1>1. /\ job[t] # NoJob /\ job[t].kind \in {"apply", "retry"} /\ job[t].pc = "channel" /\ Finish(t)
      /\ refund' = IF job[t].kind = "apply" THEN [refund EXCEPT ![job[t].ref].state = "failed"] ELSE refund
      /\ UNCHANGED <<order, frozen, held, doubt>>
  BY DEF ChannelFails, At
<1>2. PICK r : r = job[t].ref
  OBVIOUS
<1>3. r \in Refunds /\ refund[r] # NoRow /\ refund[r].order = job[t].order
  BY <1>1, <1>2, JobAt DEF Steady, StepsOf, Unborn
<1>4. CASE job[t].kind = "apply"
  <2>1. refund' = [refund EXCEPT ![r].state = "failed"]
    BY <1>1, <1>2, <1>4
  <2> QED
    BY <1>1, <1>3, <2>1, FinishJob, StateBooks
<1>5. CASE job[t].kind = "retry"
  BY <1>1, <1>5, FinishJob, QuietBooks
<1> QED
  BY <1>1, <1>4, <1>5

LEMMA AnsweredBooks ==
  ASSUME RefundInv, TypeOK', BooksInv, NEW t \in Threads, Answered(t)
  PROVE  BooksInv'
<1>1. /\ job[t] # NoJob /\ job[t].kind \in {"apply", "retry"} /\ job[t].pc = "final" /\ Finish(t)
      /\ SetState(job[t].ref, job[t].answer)
      /\ UNCHANGED <<order, frozen, held>>
  BY DEF Answered, At
<1>2. PICK r, s : r = job[t].ref /\ s = job[t].answer
  OBVIOUS
<1>3. r \in Refunds /\ refund[r] # NoRow /\ refund[r].order = job[t].order /\ s \in {"pending", "done"}
  BY <1>1, <1>2, JobAt DEF Steady, StepsOf, Unborn, Job
<1>4. SetState(r, s)
  BY <1>1, <1>2
<1>5. refund' = [refund EXCEPT ![r].state = s]
  BY <1>4 DEF SetState
<1>6. (\A p \in Orders : doubt[p] \subseteq doubt'[p]) /\ (refund[r].state = "failed" => "revived" \in doubt'[refund[r].order])
  BY <1>3, <1>4, SetStateKeeps
<1> QED
  BY <1>1, <1>3, <1>5, <1>6, FinishJob, StateBooks

LEMMA NotifiedBooks ==
  ASSUME RefundInv, TypeOK', BooksInv, NEW t \in Threads, Notified(t)
  PROVE  BooksInv'
<1>1. /\ job[t] # NoJob /\ job[t].kind = "notify" /\ job[t].pc = "final"
      /\ Finish(t) \/ GoTo(t, "money")
      /\ SetState(job[t].ref, "done")
      /\ UNCHANGED <<order, frozen, held>>
  BY DEF Notified, At
<1>2. PICK r : r = job[t].ref
  OBVIOUS
<1>3. r \in Refunds /\ refund[r] # NoRow /\ refund[r].order = job[t].order
  BY <1>1, <1>2, JobAt DEF Steady, StepsOf, Unborn, Job
<1>4. SetState(r, "done")
  BY <1>1, <1>2
<1>5. refund' = [refund EXCEPT ![r].state = "done"]
  BY <1>4 DEF SetState
<1>6. (\A p \in Orders : doubt[p] \subseteq doubt'[p]) /\ (refund[r].state = "failed" => "revived" \in doubt'[refund[r].order])
  BY <1>3, <1>4, SetStateKeeps
<1>7. /\ \A u \in Threads \ {t} : job'[u] = job[u]
      /\ job'[t] # NoJob => job'[t].order = job[t].order /\ job'[t].kind = job[t].kind /\ job'[t].pc = "money"
  BY <1>1, GoToJob, FinishJob
<1> QED
  BY <1>1, <1>3, <1>5, <1>6, <1>7, StateBooks

\* Without a row of apply's, what is booked is part of the gateway's rows.
LEMMA LiveInGate ==
  ASSUME TypeOK, NEW o, Live(o) \subseteq GateRows(o)
  PROVE  Total(Live(o)) <= Total(GateRows(o))
<1>1. PICK f, S, T : f = [q \in Refunds |-> refund[q].amount] /\ S = Live(o) /\ T = GateRows(o)
  OBVIOUS
<1>2. /\ S \subseteq T /\ T \subseteq Refunds
      /\ \A q \in T : f[q] = refund[q].amount /\ f[q] \in Nat
  <2>1. T \subseteq Refunds /\ \A q \in T : refund[q] \in Rows
    BY <1>1 DEF GateRows, RowsOf, TypeOK
  <2> QED
    BY <1>1, <2>1 DEF Rows
<1>3. IsFiniteSet(T)
  BY <1>2, RefundAssumption, FS_Subset
<1>4. Total(S) = SumFunctionOnSet(f, S) /\ Total(T) = SumFunctionOnSet(f, T)
  BY <1>2, TotalIs
<1>5. SumFunctionOnSet(f, S) <= SumFunctionOnSet(f, T)
  BY <1>2, <1>3, SumFewer
<1> QED
  BY <1>1, <1>4, <1>5

\* The new row is what apply asked for, or what the gateway's total has still to
\* count.
LEMMA InsertBooks ==
  ASSUME RefundInv, TypeOK', BooksInv, NEW t \in Threads, Insert(t)
  PROVE  BooksInv'
<1>1. PICK i, j, o, r : i = job[t] /\ j = job'[t] /\ o = job[t].order /\ r = job[t].ref
  OBVIOUS
<1>2. /\ i # NoJob /\ i.kind \in Sources /\ i.pc = "insert" /\ i.order = o /\ i.ref = r
      /\ UNCHANGED <<order, frozen, held>>
  BY <1>1 DEF Insert, At
<1>3. i \in Job /\ r \in Refunds /\ refund[r] = NoRow /\ o \in Orders /\ i.amount \in Nat
  <2>1. i \in Job /\ Steady(i)
    BY <1>1, <1>2, JobAt
  <2> QED
    BY <1>2, <2>1 DEF Steady, StepsOf, Unborn, Sources, Job
<1>4. PICK row : row = [order |-> o, via |-> i.kind, amount |-> i.amount, fee |-> Fee(i), state |-> "pending"]
  OBVIOUS
<1>5. row.order = o /\ row.via = i.kind /\ row.amount = i.amount /\ row.state = "pending" /\ row # NoRow
  <2>1. Fee(i) \in Nat
    <3>1. i.amount \in Amounts
      BY <1>1, <1>2, JobAt DEF Steady, StepsOf
    <3> QED
      BY <3>1, RefundAssumption DEF Fee
  <2>2. row \in Rows
    BY <1>2, <1>3, <1>4, <2>1 DEF Rows
  <2> QED
    BY <1>4, <2>2, RefundNullAssumption
<1>6. refund'[r] = row /\ \A q \in Refunds \ {r} : refund'[q] = refund[q]
  <2>1. refund' = [refund EXCEPT ![r] = row]
    BY <1>1, <1>4 DEF Insert
  <2> QED
    BY <1>3, <2>1 DEF RefundInv, TypeOK
<1>7. PICK pc : /\ pc = IF i.kind # "apply" THEN "order" ELSE IF order[o].channel THEN "channel" ELSE "money"
                /\ GoTo(t, pc)
  BY <1>1 DEF Insert
<1>8. /\ pc \in {"order", "channel", "money"}
      /\ pc = "order" <=> i.kind # "apply"
  BY <1>7
<1>9. /\ \A u \in Threads \ {t} : job'[u] = job[u]
      /\ j # NoJob /\ j.kind = i.kind /\ j.order = o /\ j.amount = i.amount /\ j.pc = pc
      /\ j.refunded = i.refunded /\ j.state = i.state
  BY <1>1, <1>2, <1>7, <1>8, GoToJob, GoToReads
<1>10. /\ \A p \in Orders : doubt[p] \subseteq doubt'[p]
       /\ i.kind # "apply" /\ "mixed" \notin doubt'[o] => \A q \in Live(o) : refund[q].via # "apply"
  <2>1. PICK marks \in SUBSET {"mixed"} :
          /\ Doubted(o, marks)
          /\ i.kind # "apply" /\ (\E q \in Live(o) : refund[q].via = "apply") => "mixed" \in marks
    BY <1>1 DEF Insert
  <2>2. (\A p \in Orders : doubt[p] \subseteq doubt'[p]) /\ marks \subseteq doubt'[o]
    BY <1>3, <2>1, DoubtGrows DEF Doubts
  <2> QED
    BY <2>1, <2>2
<1>11. OnlyOrder(t, o)
  BY <1>1, <1>2, <1>3, <1>5, <1>6, <1>9, <1>10 DEF OnlyOrder
<1>12. PICK g, l, g1, l1 : /\ g = Total(GateRows(o)) /\ l = Total(Live(o))
                           /\ g1 = Total(GateRows(o))' /\ l1 = Total(Live(o))'
  OBVIOUS
<1>13. /\ GatePart(refund[r], o) = 0 /\ LivePart(refund[r], o) = 0
       /\ GatePart(row, o) = IF i.kind # "apply" THEN i.amount ELSE 0
       /\ LivePart(row, o) = i.amount
  BY <1>3, <1>5 DEF GatePart, LivePart
<1>14. g \in Nat /\ l \in Nat /\ l1 = l + i.amount /\ g1 = IF i.kind # "apply" THEN g + i.amount ELSE g
  <2>1. TypeOK
    BY DEF RefundInv
  <2>2. PICK a : a = IF i.kind # "apply" THEN i.amount ELSE 0
    OBVIOUS
  <2>3. g \in Nat /\ l \in Nat /\ g1 = g - 0 + a /\ l1 = l - 0 + i.amount
    BY <1>3, <1>6, <1>12, <1>13, <2>1, <2>2, RowBooks
  <2> QED
    BY <1>3, <2>2, <2>3
<1>15. ASSUME Book(o, i), "raced" \notin doubt'[o] PROVE Book(o, j)'
  <2>1. order[o].refunded \in Nat /\ Paid[o] \in Nat /\ doubt[o] \subseteq doubt'[o] /\ order' = order
    BY <1>2, <1>3, <1>10, RefundAssumption DEF RefundInv, TypeOK, OrderRows
  <2>2. i.kind # "apply" => i.refunded = order[o].refunded /\ i.state = order[o].state /\ i.amount + i.refunded <= Paid[o]
    BY <1>2, <1>15 DEF Book, Read, Sources
  <2>3. Read(o, j)'
    BY <1>2, <1>8, <1>9, <2>1, <2>2 DEF Read
  <2>4. /\ Adding(i) = 0 /\ Adding(j) = IF i.kind # "apply" THEN i.amount ELSE 0
        /\ Asking(i) = (IF i.kind = "apply" THEN i.amount ELSE 0) /\ Asking(j) = 0
    BY <1>2, <1>8, <1>9 DEF Adding, Asking
  <2>5. "total" \notin doubt'[o] => g = order[o].refunded
    BY <1>12, <1>15, <2>1, <2>4 DEF Book, Totalled
  <2>6. Totalled(o, j)'
    <3>1. "total" \notin doubt'[o] => g1 = order[o].refunded + Adding(j)
      BY <1>14, <2>1, <2>4, <2>5
    <3>2. Adding(j)' = Adding(j)
      BY DEF Adding
    <3> QED
      BY <1>12, <2>1, <3>1, <3>2 DEF Totalled
  <2>7. Within(o, j)'
    <3>1. ASSUME doubt'[o] \cap {"mixed", "revived", "total"} = {} PROVE l1 + 0 <= Paid[o]
      <4>1. CASE i.kind = "apply"
        <5>1. l + i.amount <= Paid[o]
          BY <1>12, <1>15, <2>1, <2>4, <3>1, <4>1 DEF Book, Within
        <5> QED
          BY <1>3, <1>14, <2>1, <5>1
      <4>2. CASE i.kind # "apply"
        <5>1. Live(o) \subseteq GateRows(o)
          BY <1>10, <3>1, <4>2 DEF Live, GateRows
        <5>2. l <= g
          BY <1>12, <5>1, LiveInGate DEF RefundInv
        <5>3. g = i.refunded
          BY <2>2, <2>5, <3>1, <4>2
        <5>4. i.amount + g <= Paid[o]
          BY <2>2, <4>2, <5>3
        <5> QED
          BY <1>3, <1>14, <2>1, <5>2, <5>4
      <4> QED
        BY <4>1, <4>2
    <3>2. Asking(j)' = 0
      BY <2>4 DEF Asking
    <3> QED
      BY <1>12, <2>1, <3>1, <3>2 DEF Within
  <2>8. Undoubted' => Freezing(o, j)'
    <3>1. i.kind \notin {"freeze", "unfreeze"}
      BY <1>2 DEF Sources
    <3>2. Undoubted' => Undoubted
      BY <1>10 DEF Undoubted
    <3> QED
      BY <1>2, <1>9, <1>15, <3>1, <3>2 DEF Book, Freezing
  <2> QED
    BY <2>3, <2>6, <2>7, <2>8 DEF Book
<1>16. (frozen = SumFunctionOnSet(held, Orders))'
  BY <1>2 DEF BooksInv
<1> QED
  BY <1>1, <1>2, <1>3, <1>11, <1>15, <1>16, BookStep

\* The gateway's total is written: what was read is still there, and the row is
\* counted now.
LEMMA OrderBooks ==
  ASSUME RefundInv, TypeOK', BooksInv, NEW t \in Threads, OrderTotal(t)
  PROVE  BooksInv'
<1>1. PICK i, j, o : i = job[t] /\ j = job'[t] /\ o = job[t].order
  OBVIOUS
<1>2. /\ i # NoJob /\ i.kind \in {"gateway", "api"} /\ i.pc = "order" /\ i.order = o /\ GoTo(t, "money")
      /\ UNCHANGED <<refund, frozen, held>>
  BY <1>1 DEF OrderTotal, At
<1>3. i \in Job /\ o \in Orders /\ i.amount \in Nat /\ i.refunded \in Nat /\ i.state \in {"paid", "refunded", "frozen"}
  BY <1>1, <1>2, JobAt DEF Job
<1>4. /\ \A u \in Threads \ {t} : job'[u] = job[u]
      /\ j # NoJob /\ j.kind = i.kind /\ j.order = o /\ j.amount = i.amount /\ j.pc = "money"
  BY <1>1, <1>2, GoToJob
<1>5. PICK total, state : /\ total = i.refunded + i.amount
                          /\ state = IF i.kind = "api" \/ total >= Paid[o] THEN "refunded" ELSE i.state
  OBVIOUS
<1>6. /\ order' = [order EXCEPT ![o].refunded = total, ![o].state = state]
      /\ Doubted(o, IF held[o] # 0 /\ state # "frozen" THEN {"held"} ELSE {})
  BY <1>1, <1>5 DEF OrderTotal
<1>7. /\ order'[o].refunded = total /\ order'[o].state = state
      /\ \A p \in Orders \ {o} : order'[p] = order[p]
  BY <1>3, <1>6 DEF RefundInv, TypeOK, OrderRows
<1>8. /\ \A p \in Orders : doubt[p] \subseteq doubt'[p]
      /\ held[o] # 0 /\ state # "frozen" => "held" \in doubt'[o]
  <2>1. PICK marks \in SUBSET {"held"} :
          /\ Doubted(o, marks)
          /\ held[o] # 0 /\ state # "frozen" => "held" \in marks
    BY <1>6
  <2>2. (\A p \in Orders : doubt[p] \subseteq doubt'[p]) /\ marks \subseteq doubt'[o]
    BY <1>3, <2>1, DoubtGrows DEF Doubts
  <2> QED
    BY <2>1, <2>2
<1>9. OnlyOrder(t, o)
  BY <1>1, <1>2, <1>4, <1>7, <1>8 DEF OnlyOrder
<1>10. Total(GateRows(o))' = Total(GateRows(o)) /\ Total(Live(o))' = Total(Live(o))
  BY <1>2, TotalsStay
<1>11. ASSUME Book(o, i), "raced" \notin doubt'[o] PROVE Book(o, j)'
  <2>1. i.refunded = order[o].refunded /\ i.state = order[o].state /\ doubt[o] \subseteq doubt'[o]
    BY <1>2, <1>3, <1>8, <1>11 DEF Book, Read
  <2>2. Read(o, j)'
    BY <1>4 DEF Read
  <2>3. Adding(i) = i.amount /\ Adding(j)' = 0 /\ Asking(i) = 0 /\ Asking(j)' = 0
    BY <1>2, <1>4 DEF Adding, Asking
  <2>4. Totalled(o, j)'
    <3>1. "total" \notin doubt'[o] => Total(GateRows(o)) = total
      BY <1>5, <1>11, <2>1, <2>3 DEF Book, Totalled
    <3>2. total = order'[o].refunded + 0
      BY <1>3, <1>5, <1>7
    <3> QED
      BY <1>10, <2>3, <3>1, <3>2 DEF Totalled
  <2>5. Within(o, j)'
    BY <1>10, <1>11, <2>1, <2>3 DEF Book, Within
  <2>6. ASSUME Undoubted' PROVE Freezing(o, j)'
    <3>1. Undoubted /\ "held" \notin doubt'[o]
      BY <1>3, <1>8, <2>6 DEF Undoubted
    <3>2. held[o] = IF order[o].state = "frozen" THEN Income[o] ELSE 0
      BY <1>2, <1>11, <3>1 DEF Book, Freezing
    <3>3. state = "frozen" => order[o].state = "frozen"
      BY <1>5, <2>1
    <3>4. held[o] = IF state = "frozen" THEN Income[o] ELSE 0
      BY <1>8, <3>1, <3>2, <3>3
    <3> QED
      BY <1>2, <1>4, <1>7, <3>4 DEF Freezing
  <2> QED
    BY <2>2, <2>4, <2>5, <2>6 DEF Book
<1>12. (frozen = SumFunctionOnSet(held, Orders))'
  BY <1>2 DEF BooksInv
<1> QED
  BY <1>1, <1>2, <1>3, <1>9, <1>11, <1>12, BookStep

\* What an order holds changes, and what the merchant has frozen with it.
LEMMA HeldChanges ==
  ASSUME TypeOK, NEW o \in Orders, NEW n \in Int, frozen = SumFunctionOnSet(held, Orders),
         held' = [held EXCEPT ![o] = n], frozen' = frozen - held[o] + n
  PROVE  (frozen = SumFunctionOnSet(held, Orders))'
<1>1. PICK f, g : f = held /\ g = held'
  OBVIOUS
<1>2. held \in [Orders -> Int]
  BY DEF TypeOK
<1>3. Integral(f, Orders) /\ Integral(g, Orders) /\ Alike(f, Orders, g, Orders, o)
  BY <1>1, <1>2 DEF Integral, Alike
<1>4. Part(f, Orders, o) = held[o] /\ Part(g, Orders, o) = n
  BY <1>1, <1>2 DEF Part
<1>5. IsFiniteSet(Orders)
  BY RefundAssumption
<1>6. SumFunctionOnSet(g, Orders) = SumFunctionOnSet(f, Orders) - Part(f, Orders, o) + Part(g, Orders, o)
  BY <1>3, <1>5, SumUpdate
<1> QED
  BY <1>1, <1>4, <1>6

\* Without a doubt about any order, each holds its income or nothing.
LEMMA HeldNat ==
  ASSUME RefundInv, BooksInv, Undoubted, NEW p \in Orders
  PROVE  held[p] \in {0, Income[p]}
<1>1. "raced" \notin doubt[p]
  BY DEF Undoubted
<1>2. PICK j \in Job \cup {NoJob} : AtWork(p, j)
  <2>1. CASE Busy(p)
    <3>1. PICK t \in Threads : OnOrder(t, p)
      BY <2>1 DEF Busy
    <3>2. PICK i : i = job[t]
      OBVIOUS
    <3>3. i \in Job /\ i # NoJob /\ i.order = p
      BY <3>1, <3>2, JobAt DEF OnOrder
    <3> QED
      BY <3>2, <3>3 DEF AtWork
  <2>2. CASE ~Busy(p)
    BY <2>2 DEF AtWork
  <2> QED
    BY <2>1, <2>2
<1>3. Freezing(p, j)
  BY <1>1, <1>2 DEF BooksInv, Book
<1> QED
  BY <1>3 DEF Freezing

\* Freezing: no row, no total and no mark changes; the order's state and what it
\* holds go together when the handler ends.
LEMMA FreezingBooks ==
  ASSUME RefundInv, TypeOK', BooksInv, NEW t \in Threads,
         job[t] # NoJob, job[t].kind \in {"freeze", "unfreeze"},
         Finish(t) \/ GoTo(t, "final"),
         UNCHANGED <<refund, doubt>>,
         NEW o \in Orders, o = job[t].order,
         \A p \in Orders \ {o} : order'[p] = order[p] /\ held'[p] = held[p],
         order'[o].refunded = order[o].refunded,
         NEW i, i = job[t], NEW j, j = job'[t],
         Undoubted /\ Freezing(o, i) => Freezing(o, j)',
         (frozen = SumFunctionOnSet(held, Orders))'
  PROVE  BooksInv'
<1>1. /\ \A u \in Threads \ {t} : job'[u] = job[u]
      /\ j # NoJob => j.kind = i.kind /\ j.order = o /\ j.pc = "final"
  BY GoToJob, FinishJob
<1>2. OnlyOrder(t, o)
  BY <1>1 DEF OnlyOrder
<1>3. ASSUME Book(o, i) PROVE Book(o, j)'
  <2>1. i \in Job /\ (i.pc \in {"money", "final"})
    BY JobAt DEF Steady, StepsOf
  <2>2. Adding(i) = 0 /\ Adding(j) = 0 /\ Asking(i) = 0 /\ Asking(j) = 0
    BY <1>1, <2>1 DEF Adding, Asking
  <2>3. Read(o, j)'
    BY <1>1 DEF Read
  <2>4. Undoubted => Freezing(o, j)'
    BY <1>3 DEF Book
  <2> QED
    BY <1>3, <2>2, <2>3, <2>4, BookKeeps DEF RefundInv
<1> QED
  BY <1>2, <1>3, BookStep

LEMMA FreezeMoneyBooks ==
  ASSUME RefundInv, TypeOK', BooksInv, NEW t \in Threads, FreezeMoney(t)
  PROVE  BooksInv'
<1>1. PICK i, j, o : i = job[t] /\ j = job'[t] /\ o = job[t].order
  OBVIOUS
<1>2. /\ i # NoJob /\ i.kind = "freeze" /\ i.pc = "money" /\ UNCHANGED <<order, refund, doubt>>
      /\ IF balance >= i.amount
           THEN /\ frozen' = frozen + i.amount
                /\ held' = [held EXCEPT ![o] = @ + i.amount]
                /\ GoTo(t, "final")
           ELSE Finish(t) /\ UNCHANGED <<frozen, held>>
  BY <1>1 DEF FreezeMoney, At
<1>3. i \in Job /\ o \in Orders /\ i.amount \in Nat
  BY <1>1, <1>2, JobAt DEF Job
<1>4. held \in [Orders -> Int] /\ frozen \in Nat /\ frozen = SumFunctionOnSet(held, Orders) /\ TypeOK
  BY DEF RefundInv, TypeOK, BooksInv
<1>5. CASE balance >= i.amount
  <2>1. PICK n : n = held[o] + i.amount
    OBVIOUS
  <2>2. n \in Int /\ held' = [held EXCEPT ![o] = n] /\ frozen' = frozen - held[o] + n
    BY <1>2, <1>3, <1>4, <1>5, <2>1
  <2>3. (frozen = SumFunctionOnSet(held, Orders))'
    BY <1>3, <1>4, <2>2, HeldChanges
  <2>4. held'[o] = n /\ \A p \in Orders \ {o} : held'[p] = held[p]
    BY <1>3, <1>4, <2>2
  <2>5. j # NoJob /\ j.kind = "freeze" /\ j.amount = i.amount /\ j.pc = "final"
    BY <1>1, <1>2, <1>5, GoToJob
  <2>6. Freezing(o, i) => Freezing(o, j)'
    <3>1. Freezing(o, i) => i.amount = Income[o] /\ order[o].state = "paid" /\ held[o] = 0
      BY <1>2 DEF Freezing
    <3>2. Freezing(o, i) => n = Income[o]
      BY <1>3, <2>1, <3>1
    <3> QED
      BY <1>2, <2>4, <2>5, <3>1, <3>2 DEF Freezing
  <2> QED
    BY <1>1, <1>2, <1>3, <1>5, <2>3, <2>4, <2>6, FreezingBooks
<1>6. CASE ~(balance >= i.amount)
  <2>1. j = NoJob /\ held' = held /\ frozen' = frozen /\ Finish(t)
    BY <1>1, <1>2, <1>6, FinishJob
  <2>2. Freezing(o, i) => Freezing(o, j)'
    BY <1>2, <2>1 DEF Freezing
  <2>3. (frozen = SumFunctionOnSet(held, Orders))'
    BY <1>4, <2>1
  <2> QED
    BY <1>1, <1>2, <1>3, <2>1, <2>2, <2>3, FreezingBooks
<1> QED
  BY <1>5, <1>6

\* The refusal nobody looks at does not come as long as no order is in doubt: all
\* that is frozen is at least what this order holds.
LEMMA UnfreezeMoneyBooks ==
  ASSUME RefundInv, TypeOK', BooksInv, NEW t \in Threads, UnfreezeMoney(t)
  PROVE  BooksInv'
<1>1. PICK i, j, o : i = job[t] /\ j = job'[t] /\ o = job[t].order
  OBVIOUS
<1>2. /\ i # NoJob /\ i.kind = "unfreeze" /\ i.pc = "money" /\ UNCHANGED <<order, refund, doubt>>
      /\ IF frozen >= i.amount
           THEN /\ frozen' = frozen - i.amount
                /\ held' = [held EXCEPT ![o] = @ - i.amount]
           ELSE UNCHANGED <<frozen, held>>
      /\ GoTo(t, "final")
  <2>1. UnfreezeMoney(t) => /\ At(t, {"unfreeze"}, "money")
                            /\ GoTo(t, "final") /\ UNCHANGED <<order, refund, doubt>>
    BY DEF UnfreezeMoney
  <2>2. IF frozen >= i.amount
           THEN /\ frozen' = frozen - i.amount
                /\ held' = [held EXCEPT ![o] = @ - i.amount]
           ELSE UNCHANGED <<frozen, held>>
    BY <1>1 DEF UnfreezeMoney
  <2> QED
    BY <1>1, <2>1, <2>2 DEF At
<1>3. i \in Job /\ o \in Orders /\ i.amount \in Nat
  BY <1>1, <1>2, JobAt DEF Job
<1>4. held \in [Orders -> Int] /\ frozen \in Nat /\ frozen = SumFunctionOnSet(held, Orders) /\ TypeOK
  BY DEF RefundInv, TypeOK, BooksInv
<1>5. j # NoJob /\ j.kind = "unfreeze" /\ j.amount = i.amount /\ j.pc = "final"
  BY <1>1, <1>2, GoToJob
<1>6. CASE frozen >= i.amount
  <2>1. PICK n : n = held[o] - i.amount
    OBVIOUS
  <2>2. n \in Int /\ held' = [held EXCEPT ![o] = n] /\ frozen' = frozen - held[o] + n
    BY <1>2, <1>3, <1>4, <1>6, <2>1
  <2>3. (frozen = SumFunctionOnSet(held, Orders))'
    BY <1>3, <1>4, <2>2, HeldChanges
  <2>4. held'[o] = n /\ \A p \in Orders \ {o} : held'[p] = held[p]
    BY <1>3, <1>4, <2>2
  <2>5. Freezing(o, i) => Freezing(o, j)'
    <3>1. Freezing(o, i) => i.amount = Income[o] /\ order[o].state = "frozen" /\ held[o] = Income[o]
      BY <1>2 DEF Freezing
    <3>2. Freezing(o, i) => n = 0
      BY <1>3, <2>1, <3>1
    <3> QED
      BY <1>2, <1>5, <2>4, <3>1, <3>2 DEF Freezing
  <2> QED
    BY <1>1, <1>2, <1>3, <2>3, <2>4, <2>5, FreezingBooks
<1>7. CASE ~(frozen >= i.amount)
  <2>1. held' = held /\ frozen' = frozen
    BY <1>2, <1>7
  <2>2. ~(Undoubted /\ Freezing(o, i))
    <3>1. SUFFICES ASSUME Undoubted, Freezing(o, i) PROVE FALSE
      OBVIOUS
    <3>2. i.amount = held[o]
      BY <1>2, <3>1 DEF Freezing
    <3>3. \A p \in Orders : held[p] \in Nat
      BY <3>1, HeldNat, Numbers
    <3>4. frozen >= held[o]
      BY <1>3, <1>4, <3>3, SumAtLeast, RefundAssumption
    <3> QED
      BY <1>7, <3>2, <3>4
  <2>3. (frozen = SumFunctionOnSet(held, Orders))'
    BY <1>4, <2>1
  <2> QED
    BY <1>1, <1>2, <1>3, <2>1, <2>2, <2>3, FreezingBooks
<1> QED
  BY <1>6, <1>7

LEMMA FreezeFinalBooks ==
  ASSUME RefundInv, TypeOK', BooksInv, NEW t \in Threads, FreezeFinal(t)
  PROVE  BooksInv'
<1>1. PICK i, j, o : i = job[t] /\ j = job'[t] /\ o = job[t].order
  OBVIOUS
<1>2. /\ i # NoJob /\ i.kind \in {"freeze", "unfreeze"} /\ i.pc = "final" /\ Finish(t)
      /\ order' = [order EXCEPT ![o].state = IF i.kind = "freeze" THEN "frozen" ELSE "paid"]
      /\ UNCHANGED <<refund, frozen, held, doubt>>
  BY <1>1 DEF FreezeFinal, At
<1>3. i \in Job /\ o \in Orders /\ j = NoJob
  BY <1>1, <1>2, JobAt, FinishJob
<1>4. /\ order'[o].refunded = order[o].refunded
      /\ order'[o].state = IF i.kind = "freeze" THEN "frozen" ELSE "paid"
      /\ \A p \in Orders \ {o} : order'[p] = order[p]
  BY <1>2, <1>3 DEF RefundInv, TypeOK, OrderRows
<1>5. Freezing(o, i) => Freezing(o, j)'
  <2>1. Freezing(o, i) => held[o] = IF i.kind = "freeze" THEN Income[o] ELSE 0
    BY <1>2 DEF Freezing
  <2> QED
    BY <1>2, <1>3, <1>4, <2>1 DEF Freezing
<1>6. (frozen = SumFunctionOnSet(held, Orders))'
  BY <1>2 DEF BooksInv
<1> QED
  BY <1>1, <1>2, <1>3, <1>4, <1>5, <1>6, FreezingBooks

LEMMA ContinueBooks ==
  ASSUME RefundInv, TypeOK', BooksInv, NEW t \in Threads, Continue(t)
  PROVE  BooksInv'
BY ApplySumBooks, InsertBooks, OrderBooks, ChargeBooks, AcceptBooks, FailBooks, AnsweredBooks,
   NotifiedBooks, ReturnFeeBooks, FreezeMoneyBooks, UnfreezeMoneyBooks, FreezeFinalBooks DEF Continue

-----------------------------------------------------------------------------
(* The books, for the specification. *)

\* A restart: a handler that had written its row but not its total, or had frozen
\* the money but not the order, has left its mark.
LEMMA CrashBooks ==
  ASSUME RefundInv, BooksInv, Crash
  PROVE  BooksInv'
<1>1. /\ \A t \in Threads : job'[t] = NoJob
      /\ UNCHANGED <<order, refund, frozen, held>>
  BY DEF Crash, tables
<1>2. \A o \in Orders : doubt'[o] = doubt[o] \cup UNION {Undone(job[t]) : t \in {u \in Threads : OnOrder(u, o)}}
  BY DEF Crash
<1>3. /\ \A o \in Orders : doubt[o] \subseteq doubt'[o]
      /\ \A o \in Orders, t \in Threads : OnOrder(t, o) => Undone(job[t]) \subseteq doubt'[o]
  BY <1>2
<1>4. ASSUME NEW o \in Orders, "raced" \notin doubt'[o] PROVE Book(o, NoJob)'
  <2>1. PICK i \in Job \cup {NoJob} : AtWork(o, i) /\ (i # NoJob => Steady(i) /\ Undone(i) \subseteq doubt'[o])
    <3>1. CASE Busy(o)
      <4>1. PICK t \in Threads : OnOrder(t, o)
        BY <3>1 DEF Busy
      <4>2. PICK i : i = job[t]
        OBVIOUS
      <4>3. i \in Job /\ i # NoJob /\ i.order = o /\ Steady(i) /\ Undone(i) \subseteq doubt'[o]
        BY <1>3, <4>1, <4>2, JobAt DEF OnOrder
      <4> QED
        BY <4>2, <4>3 DEF AtWork
    <3>2. CASE ~Busy(o)
      BY <3>2 DEF AtWork
    <3> QED
      BY <3>1, <3>2
  <2>2. Book(o, i) /\ doubt[o] \subseteq doubt'[o]
    BY <1>3, <1>4, <2>1 DEF BooksInv
  <2>3. Total(GateRows(o))' = Total(GateRows(o)) /\ Total(Live(o))' = Total(Live(o))
    BY <1>1, TotalsStay
  <2>4. Read(o, NoJob)' /\ Adding(NoJob)' = 0 /\ Asking(NoJob)' = 0
    BY DEF Read, Adding, Asking
  <2>5. Totalled(o, NoJob)'
    <3>1. "total" \notin doubt'[o] => Adding(i) = 0
      BY <2>1 DEF Adding, Undone
    <3> QED
      BY <1>1, <2>2, <2>3, <2>4, <3>1 DEF Book, Totalled
  <2>6. Within(o, NoJob)'
    <3>1. PICK l, a : l = Total(Live(o)) /\ a = Asking(i)
      OBVIOUS
    <3>2. a \in Nat /\ Paid[o] \in Nat
      BY <3>1, AskingNat, RefundAssumption
    <3>3. l \in Nat
      BY <3>1, LiveNat DEF RefundInv
    <3>4. doubt'[o] \cap {"mixed", "revived", "total"} = {} => l + a <= Paid[o]
      BY <2>2, <3>1 DEF Book, Within
    <3>5. doubt'[o] \cap {"mixed", "revived", "total"} = {} => l + 0 <= Paid[o]
      BY <3>2, <3>3, <3>4
    <3> QED
      BY <2>3, <2>4, <3>1, <3>5 DEF Within
  <2>7. ASSUME Undoubted' PROVE Freezing(o, NoJob)'
    <3>1. Undoubted /\ "held" \notin doubt'[o]
      BY <1>3, <2>7 DEF Undoubted
    <3>2. Freezing(o, i)
      BY <2>2, <3>1 DEF Book
    <3>3. i # NoJob /\ i.kind \in {"freeze", "unfreeze"} => i.pc = "money"
      BY <2>1, <3>1 DEF Undone, Steady, StepsOf
    <3> QED
      BY <1>1, <3>2, <3>3 DEF Freezing
  <2> QED
    BY <2>4, <2>5, <2>6, <2>7 DEF Book
<1>5. ASSUME NEW o \in Orders, NEW j \in Job \cup {NoJob}, AtWork(o, j)' PROVE j = NoJob
  BY <1>1, <1>5 DEF AtWork
<1>6. \A o \in Orders, j \in Job \cup {NoJob} : AtWork(o, j)' /\ "raced" \notin doubt'[o] => Book(o, j)'
  BY <1>4, <1>5
<1> QED
  BY <1>1, <1>6 DEF BooksInv, AtWork, Busy, OnOrder, Book, Read, Totalled, Within, Freezing, Adding, Asking, Undoubted

LEMMA BooksInit == Init => BooksInv
<1> SUFFICES ASSUME Init PROVE BooksInv
  OBVIOUS
<1>1. \A o \in Orders : RowsOf(o) = {} /\ GateRows(o) = {} /\ Live(o) = {}
  BY DEF Init, RowsOf, GateRows, Live
<1>2. Total({}) = 0
  <2>1. PICK f : f = [q \in {} |-> refund[q].amount]
    OBVIOUS
  <2>2. Total({}) = SumFunctionOnSet(f, {})
    BY TotalIs
  <2> QED
    BY <2>2, SumEmpty
<1>3. ASSUME NEW o \in Orders, NEW j \in Job \cup {NoJob}, AtWork(o, j) PROVE Book(o, j)
  <2>1. j = NoJob
    BY <1>3 DEF AtWork, Init
  <2>2. order[o].refunded = 0 /\ order[o].state = "paid" /\ held[o] = 0 /\ Paid[o] \in Nat
    BY RefundAssumption DEF Init
  <2>3. Read(o, j) /\ Adding(j) = 0 /\ Asking(j) = 0
    BY <2>1 DEF Read, Adding, Asking
  <2>4. Total(GateRows(o)) = 0 /\ Total(Live(o)) = 0
    BY <1>1, <1>2
  <2>5. Totalled(o, j) /\ Within(o, j)
    BY <2>2, <2>3, <2>4 DEF Totalled, Within
  <2>6. Freezing(o, j)
    BY <2>1, <2>2 DEF Freezing
  <2> QED
    BY <2>3, <2>5, <2>6 DEF Book
<1>4. frozen = SumFunctionOnSet(held, Orders)
  <2>1. frozen = 0 /\ \A o \in Orders : held[o] = 0
    BY DEF Init
  <2> QED
    BY <2>1, SumZero, RefundAssumption
<1> QED
  BY <1>3, <1>4 DEF BooksInv

LEMMA BooksNext == RefundInv /\ BooksInv /\ [Next]_vars => BooksInv'
<1> SUFFICES ASSUME RefundInv, BooksInv, [Next]_vars PROVE BooksInv'
  OBVIOUS
<1>1. TypeOK'
  BY NextKeeps DEF RefundInv
<1>2. ASSUME NEW t \in Threads, Arrive(t) \/ Continue(t) PROVE BooksInv'
  BY <1>1, <1>2, ArriveBooks, ContinueBooks
<1>3. CASE UNCHANGED vars
  <2>1. UNCHANGED <<order, refund, frozen, held, job, doubt>>
    BY <1>3 DEF vars
  <2>2. \A o : Total(GateRows(o))' = Total(GateRows(o)) /\ Total(Live(o))' = Total(Live(o))
    BY <2>1, TotalsStay
  <2>3. ASSUME NEW o, NEW j, Book(o, j) PROVE Book(o, j)'
    BY <2>1, <2>2, <2>3 DEF Book, Read, Totalled, Within, Freezing, Adding, Asking, Undoubted
  <2>4. \A o \in Orders, j \in Job \cup {NoJob} : AtWork(o, j)' /\ "raced" \notin doubt'[o] => Book(o, j)'
    BY <2>1, <2>3 DEF BooksInv, AtWork, Busy, OnOrder
  <2> QED
    BY <2>1, <2>4 DEF BooksInv, AtWork, Busy, OnOrder, Book, Read, Totalled, Within, Freezing, Adding, Asking, Undoubted
<1> QED
  BY <1>2, <1>3, CrashBooks DEF Next, AllServed

LEMMA BooksInvHolds == Spec => [](RefundInv /\ BooksInv)
<1>1. Init => RefundInv /\ BooksInv
  BY InitHolds, BooksInit
<1>2. RefundInv /\ BooksInv /\ [Next]_vars => (RefundInv /\ BooksInv)'
  BY NextKeeps, BooksNext
<1> QED
  BY <1>1, <1>2, PTL DEF Spec

\* Every order with at most one handler has a job that accounts for it.
LEMMA SomeBook ==
  ASSUME RefundInv, BooksInv, NEW o \in Orders, "raced" \notin doubt[o]
  PROVE  \E j \in Job \cup {NoJob} : Book(o, j) /\ (j # NoJob => \E t \in Threads : OnOrder(t, o) /\ job[t] = j)
<1>1. CASE Busy(o)
  <2>1. PICK t \in Threads : OnOrder(t, o)
    BY <1>1 DEF Busy
  <2>2. PICK j : j = job[t]
    OBVIOUS
  <2>3. j \in Job /\ j # NoJob /\ j.order = o
    BY <2>1, <2>2, JobAt DEF OnOrder
  <2>4. AtWork(o, j)
    BY <2>2, <2>3 DEF AtWork
  <2>5. Book(o, j)
    BY <2>3, <2>4 DEF BooksInv
  <2> QED
    BY <2>1, <2>2, <2>3, <2>5
<1>2. CASE ~Busy(o)
  BY <1>2 DEF AtWork, BooksInv
<1> QED
  BY <1>1, <1>2

\* What is refunded of an order, or waits to be, stays within what was paid for
\* it, whatever is asked for and however often the channel fails and reports:
\* apply's check of the rows and the gateway's check of the total are enough while
\* only one of the two books an order, one handler at a time.
THEOREM RefundsWithin == Spec => []RefundsWithinPaid
<1>1. RefundInv /\ BooksInv => RefundsWithinPaid
  <2> SUFFICES ASSUME RefundInv, BooksInv, NEW o \in Orders,
                      doubt[o] \cap {"raced", "mixed", "revived", "total"} = {}
               PROVE  Total(Live(o)) <= Paid[o]
    BY DEF RefundsWithinPaid
  <2>1. PICK j \in Job \cup {NoJob} : Book(o, j)
    BY SomeBook
  <2>2. PICK l, a : l = Total(Live(o)) /\ a = Asking(j)
    OBVIOUS
  <2>3. l + a <= Paid[o]
    BY <2>1, <2>2 DEF Book, Within
  <2>4. a \in Nat /\ Paid[o] \in Nat
    BY <2>2, AskingNat, RefundAssumption
  <2>5. l \in Nat
    BY <2>2, LiveNat DEF RefundInv
  <2> QED
    BY <2>2, <2>3, <2>4, <2>5
<1> QED
  BY <1>1, BooksInvHolds, PTL

\* pay_order.refund_amount, which the gateway overwrites with what it has read and
\* added to, is the sum of the gateway's rows in refund_order.
THEOREM TotalMatches == Spec => []TotalMatchesRows
<1>1. RefundInv /\ BooksInv => TotalMatchesRows
  <2> SUFFICES ASSUME RefundInv, BooksInv, NEW o \in Orders,
                      doubt[o] \cap {"raced", "total"} = {},
                      \A t \in Threads : OnOrder(t, o) => job[t].pc # "order"
               PROVE  order[o].refunded = Total(GateRows(o))
    BY DEF TotalMatchesRows, GateRows
  <2>1. PICK j \in Job \cup {NoJob} :
          Book(o, j) /\ (j # NoJob => \E t \in Threads : OnOrder(t, o) /\ job[t] = j)
    BY SomeBook
  <2>2. Adding(j) = 0
    BY <2>1 DEF Adding
  <2>3. Total(GateRows(o)) = order[o].refunded + 0
    BY <2>1, <2>2 DEF Book, Totalled
  <2>4. order[o].refunded \in Nat
    BY DEF RefundInv, TypeOK, OrderRows
  <2> QED
    BY <2>3, <2>4
<1> QED
  BY <1>1, BooksInvHolds, PTL

\* While no handler is at an order, its income is frozen if and only if the order
\* is.  The refusal that UnfreezeMoney does not look at never comes: the sum of
\* what the orders hold is what the merchant has frozen.
THEOREM HeldWithOrder == Spec => []HeldWhileFrozen
<1>1. RefundInv /\ BooksInv => HeldWhileFrozen
  <2> SUFFICES ASSUME RefundInv, BooksInv, NEW o \in Orders,
                      \A p \in Orders : doubt[p] \cap {"raced", "held"} = {}, ~Busy(o)
               PROVE  held[o] = IF order[o].state = "frozen" THEN Income[o] ELSE 0
    BY DEF HeldWhileFrozen
  <2>1. AtWork(o, NoJob) /\ Undoubted
    BY DEF AtWork, Undoubted
  <2>2. Freezing(o, NoJob)
    BY <2>1 DEF BooksInv, Book, Undoubted
  <2> QED
    BY <2>2 DEF Freezing
<1> QED
  BY <1>1, BooksInvHolds, PTL
=============================================================================
