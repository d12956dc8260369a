------------------------- MODULE GatewayOrderProofs -------------------------
(***************************************************************************)
(* Theorems about GatewayOrder: what the check for a repeated number and   *)
(* the daily quota of a channel do hold, given that nothing locks them;    *)
(* that no channel is asked for more than its quota was charged; and who   *)
(* can take a paid order's state away.                                     *)
(***************************************************************************)
EXTENDS GatewayOrder, FiniteSetTheorems, SumProofs, TLAPS

-----------------------------------------------------------------------------
(* The inductive invariant *)

\* j has passed the check for number n and not inserted.
ClaimOf(j, n) == j # NoJob /\ j.number = n /\ j.pc # "check" /\ j.order = NoOrder

\* Who checks has a number, who has yet to insert has no order, and no handler
\* that ends an order found it paid.
Plain(j) ==
  /\ ~j.paid /\ (j.pc = "check" => j.number \in Numbers)
  /\ j.pc \in {"check", "insert"} \/ j.kind = "epay" => j.order = NoOrder

\* Channels nobody has charged since j read them still have room for its amount.
Fits(j) ==
  Choosing(j) =>
    /\ j.pc # "turn" => j.channel \in j.open
    /\ \A c \in j.open : Limit[c] > 0 =>
         j.amount <= Limit[c] /\ (c \notin j.late => used[c] + j.amount <= Limit[c])

NumbersApart ==
  /\ \A t, u \in Threads, n \in Numbers :
       t # u /\ ClaimOf(job[t], n) /\ ClaimOf(job[u], n) => n \in twins
  /\ \A t \in Threads, o \in Orders, n \in Numbers :
       ClaimOf(job[t], n) /\ number[o] = n => n \in twins

GatewayInv ==
  /\ TypeOK
  /\ \A t \in Threads : job[t] # NoJob => Plain(job[t]) /\ Fits(job[t])
  /\ NumbersApart /\ NumberIsUnique
  /\ UsedWithinLimit

LEMMA Facts ==
  /\ \A a \in Amounts \cup {Probe} : a \in Nat
  /\ \A c \in Channels : Limit[c] \in Nat
  /\ IsFiniteSet(Channels)
  /\ NoChannel \notin Channels /\ NoOrder \notin Orders /\ NoNumber \notin Numbers /\ NoJob \notin Job
BY GatewayAssumption, GatewayNullAssumption

LEMMA JobParts ==
  ASSUME TypeOK, NEW t \in Threads, job[t] # NoJob
  PROVE  /\ job[t] \in Job /\ job[t].amount \in Nat /\ job[t].open \subseteq Channels
         /\ job[t].channel \in Channels \cup {NoChannel} /\ job[t].number \in Numbers \cup {NoNumber}
         /\ job[t].order \in Orders \cup {NoOrder}
BY Facts DEF TypeOK, Job

LEMMA JobUpdated ==
  ASSUME TypeOK, NEW t \in Threads, NEW j, job' = [job EXCEPT ![t] = j]
  PROVE  job'[t] = j /\ \A u \in Threads \ {t} : job'[u] = job[u]
BY DEF TypeOK

-----------------------------------------------------------------------------
(* Steps that change one job and neither numbers nor quotas *)

LEMMA OneJob ==
  ASSUME GatewayInv, NEW t \in Threads, NEW j \in Job \cup {NoJob},
         job' = [job EXCEPT ![t] = j],
         j # NoJob => Plain(j) /\ Fits(j),
         \A n \in Numbers : ClaimOf(j, n) => ClaimOf(job[t], n),
         UNCHANGED <<number, used, raced, twins>>,
         state' \in [Orders -> States], turn' \in Nat, placed' \in [Channels -> Nat],
         booked' \in [Orders -> Channels \cup {NoChannel}],
         requests' \in Nat, resets' \in Nat, crashes' \in Nat
  PROVE  GatewayInv'
<1>1. job'[t] = j /\ \A u \in Threads \ {t} : job'[u] = job[u]
  BY JobUpdated DEF GatewayInv
<1>2. TypeOK'
  BY DEF GatewayInv, TypeOK
<1>3. ASSUME NEW u \in Threads, job'[u] # NoJob PROVE Plain(job[u])' /\ Fits(job[u])'
  <2>1. Fits(j)' <=> Fits(j)
    BY DEF Fits, Choosing
  <2>2. CASE u = t
    <3>1. Fits(j) /\ Plain(j)
      BY <1>1, <1>3, <2>2
    <3>2. QED
      BY <1>1, <2>2, <3>1 DEF Plain, Fits, Choosing
  <2>3. CASE u # t
    BY <1>1, <1>3, <2>3 DEF GatewayInv, Plain, Fits, Choosing
  <2>4. QED
    BY <2>2, <2>3
<1>4. ASSUME NEW u \in Threads, NEW n \in Numbers, ClaimOf(job[u], n)' PROVE ClaimOf(job[u], n)
  <2>1. ClaimOf(job'[u], n)
    BY <1>4 DEF ClaimOf
  <2>2. QED
    BY <1>1, <2>1
<1>5. NumbersApart'
  BY <1>4 DEF GatewayInv, NumbersApart
<1>6. NumberIsUnique' /\ UsedWithinLimit'
  BY DEF GatewayInv, NumberIsUnique, UsedWithinLimit
<1>7. QED
  BY <1>2, <1>3, <1>5, <1>6 DEF GatewayInv

LEMMA BeginStep ==
  ASSUME GatewayInv, NEW t \in Threads, NEW kind \in Kinds, NEW n \in Numbers \cup {NoNumber},
         NEW a \in Amounts \cup {Probe}, NEW o \in Orders \cup {NoOrder},
         NEW pc \in {"check", "select", "insert", "write"},
         IF pc = "check" THEN n \in Numbers ELSE n = NoNumber, o # NoOrder => kind # "epay" /\ pc = "write" /\ state[o] # "paid",
         Begin(t, kind, n, a, o, pc), UNCHANGED twins
  PROVE  GatewayInv'
<1>1. PICK j : j = [kind |-> kind, pc |-> pc, number |-> n, amount |-> a, order |-> o, open |-> {},
                    channel |-> NoChannel, late |-> {}, old |-> FALSE,
                    paid |-> o # NoOrder /\ state[o] = "paid"]
  OBVIOUS
<1>2. /\ job' = [job EXCEPT ![t] = j] /\ requests' = requests + 1
      /\ UNCHANGED <<state, number, booked, used, turn, placed, raced, twins, resets, crashes>>
  BY <1>1 DEF Begin, tables
<1>3. j.number = n /\ j.pc = pc /\ j.order = o /\ j.kind = kind /\ ~j.paid
  BY <1>1
<1>4. j \in Job
  BY <1>1 DEF Job
<1>5. Plain(j) /\ Fits(j)
  BY <1>3 DEF Plain, Fits, Choosing
<1>6. \A m \in Numbers : ClaimOf(j, m) => ClaimOf(job[t], m)
  BY <1>3, Facts DEF ClaimOf
<1>7. requests' \in Nat
  BY <1>2 DEF GatewayInv, TypeOK
<1>8. QED
  BY <1>2, <1>3, <1>4, <1>5, <1>6, <1>7, OneJob DEF GatewayInv, TypeOK

\* A new claim for n, where twins grows by n if anybody has n already
LEMMA ClaimStep ==
  ASSUME GatewayInv, NEW t \in Threads, NEW j \in Job, NEW n \in Numbers,
         job' = [job EXCEPT ![t] = j], j.number = n, Plain(j), ~Choosing(j),
         twins' = twins \/ twins' = twins \cup {n},
         \A u \in Threads \ {t} : ClaimOf(job[u], n) => n \in twins',
         \A o \in Orders : number[o] = n => n \in twins',
         requests' \in Nat,
         UNCHANGED <<state, number, booked, used, turn, placed, raced, resets, crashes>>
  PROVE  GatewayInv'
<1>1. job'[t] = j /\ \A u \in Threads \ {t} : job'[u] = job[u]
  BY JobUpdated DEF GatewayInv
<1>2. TypeOK'
  BY DEF GatewayInv, TypeOK
<1>3. ASSUME NEW u \in Threads, job'[u] # NoJob PROVE Plain(job[u])' /\ Fits(job[u])'
  <2>1. CASE u = t
    BY <1>1, <2>1 DEF Plain, Fits, Choosing
  <2>2. CASE u # t
    BY <1>1, <1>3, <2>2 DEF GatewayInv, Plain, Fits, Choosing
  <2>3. QED
    BY <2>1, <2>2
<1>4. /\ \A u \in Threads \ {t}, m \in Numbers : ClaimOf(job'[u], m) => ClaimOf(job[u], m)
      /\ \A m \in Numbers : ClaimOf(job'[t], m) => m = n
      /\ twins \subseteq twins'
  BY <1>1 DEF ClaimOf
<1>5. \A u, v \in Threads, m \in Numbers :
        u # v /\ ClaimOf(job'[u], m) /\ ClaimOf(job'[v], m) => m \in twins'
  BY <1>4 DEF GatewayInv, NumbersApart
<1>6. \A u \in Threads, o \in Orders, m \in Numbers : ClaimOf(job'[u], m) /\ number'[o] = m => m \in twins'
  BY <1>4 DEF GatewayInv, NumbersApart
<1>7. NumbersApart'
  BY <1>5, <1>6 DEF NumbersApart, ClaimOf
<1>8. NumberIsUnique' /\ UsedWithinLimit'
  BY <1>4 DEF GatewayInv, NumberIsUnique, UsedWithinLimit
<1>9. QED
  BY <1>2, <1>3, <1>7, <1>8 DEF GatewayInv

LEMMA PhpStep ==
  ASSUME GatewayInv, NEW t \in Threads, NEW n \in Numbers, NEW a \in Amounts, CreatePhp(t, n, a)
  PROVE  GatewayInv'
<1>1. PICK j : j = [kind |-> "php", pc |-> "insert", number |-> n, amount |-> a, order |-> NoOrder, open |-> {},
                    channel |-> NoChannel, late |-> {}, old |-> FALSE,
                    paid |-> NoOrder # NoOrder /\ state[NoOrder] = "paid"]
  OBVIOUS
<1>2. /\ job' = [job EXCEPT ![t] = j] /\ requests' = requests + 1
      /\ UNCHANGED <<state, number, booked, used, turn, placed, raced, resets, crashes>>
  BY <1>1 DEF CreatePhp, Begin, tables
<1>3. twins' = IF (\E o \in Orders : number[o] = n) \/ \E u \in Threads : Claims(u, n)
                 THEN twins \cup {n} ELSE twins
  BY DEF CreatePhp
<1>4. j \in Job /\ j.number = n /\ j.pc = "insert" /\ ~j.paid /\ j.order = NoOrder
  BY <1>1 DEF Job, Kinds, Creators
<1>5. Plain(j) /\ ~Choosing(j)
  BY <1>4 DEF Plain, Choosing
<1>6. requests' \in Nat
  BY <1>2 DEF GatewayInv, TypeOK
<1>7. (\A u \in Threads : ClaimOf(job[u], n) => n \in twins') /\ (\A o \in Orders : number[o] = n => n \in twins')
  BY <1>3 DEF Claims, ClaimOf
<1>8. QED
  BY <1>2, <1>3, <1>4, <1>5, <1>6, <1>7, ClaimStep

LEMMA ArriveStep ==
  ASSUME GatewayInv, NEW t \in Threads, Arrive(t)
  PROVE  GatewayInv'
<1>1. CASE UNCHANGED twins /\ \E n \in Numbers, a \in Amounts :
             CreateOrder(t, n, a) \/ CreateEpayOrder(t, n, a) \/ CreateNewApi(t, n, a)
  BY <1>1, BeginStep DEF CreateOrder, CreateEpayOrder, CreateNewApi, Kinds, Creators
<1>2. CASE UNCHANGED twins /\ \E a \in Amounts : CreatePluginPayOrder(t, a) \/ CreateDirect(t, a)
  BY <1>2, BeginStep DEF CreatePluginPayOrder, CreateDirect, Kinds, Creators
<1>3. CASE UNCHANGED twins /\ AskPreference(t)
  BY <1>3, BeginStep DEF AskPreference, Kinds
<1>4. CASE UNCHANGED twins /\ \E o \in Orders : Close(t, o) \/ CloseApi(t, o)
  BY <1>4, BeginStep DEF Close, CloseApi, Kinds
<1>5. CASE \E n \in Numbers, a \in Amounts : CreatePhp(t, n, a)
  BY <1>5, PhpStep
<1>6. QED
  BY <1>1, <1>2, <1>3, <1>4, <1>5 DEF Arrive

\* Any pc may follow where nothing is being chosen and no claim begins.
LEMMA GoToStep ==
  ASSUME GatewayInv, NEW t \in Threads, job[t] # NoJob, NEW pc \in {"charge", "write"},
         job[t].pc # "check", pc = "charge" => job[t].pc = "store",
         GoTo(t, pc), UNCHANGED <<number, used, raced, twins, state, booked, bounds>>,
         turn' \in Nat, placed' \in [Channels -> Nat]
  PROVE  GatewayInv'
<1>1. PICK j : j = [job[t] EXCEPT !.pc = pc]
  OBVIOUS
<1>2. job' = [job EXCEPT ![t] = j]
  BY <1>1 DEF GoTo
<1>3. job[t] \in Job
  BY JobParts DEF GatewayInv
<1>4. /\ j \in Job /\ j.pc = pc /\ j.open = job[t].open /\ j.late = job[t].late /\ j.paid = job[t].paid
      /\ j.channel = job[t].channel /\ j.amount = job[t].amount /\ j.number = job[t].number
      /\ j.order = job[t].order /\ j.kind = job[t].kind
  BY <1>1, <1>3 DEF Job
<1>5. Plain(j) /\ Fits(j)
  BY <1>4 DEF GatewayInv, Plain, Fits, Choosing
<1>6. \A n \in Numbers : ClaimOf(j, n) => ClaimOf(job[t], n)
  BY <1>4 DEF ClaimOf
<1>7. QED
  BY <1>2, <1>4, <1>5, <1>6, OneJob DEF GatewayInv, TypeOK, bounds

LEMMA FinishStep ==
  ASSUME GatewayInv, NEW t \in Threads, Finish(t),
         UNCHANGED <<number, used, raced, twins, booked, turn, bounds>>,
         state' \in [Orders -> States], placed' \in [Channels -> Nat]
  PROVE  GatewayInv'
<1>1. job' = [job EXCEPT ![t] = NoJob]
  BY DEF Finish
<1>2. \A n \in Numbers : ClaimOf(NoJob, n) => ClaimOf(job[t], n)
  BY DEF ClaimOf
<1>3. QED
  BY <1>1, <1>2, OneJob DEF GatewayInv, TypeOK, bounds

-----------------------------------------------------------------------------
(* The check, and selectChannel *)

LEMMA CheckStep ==
  ASSUME GatewayInv, NEW t \in Threads, Check(t)
  PROVE  GatewayInv'
<1>1. PICK n : n = job[t].number
  OBVIOUS
<1>2. /\ job[t] # NoJob /\ job[t].pc = "check" /\ n \in Numbers
      /\ UNCHANGED <<state, number, booked, used, turn, placed, raced, requests, resets, crashes>>
  BY <1>1 DEF Check, At, GatewayInv, Plain, tables, bounds
<1>3. CASE \E o \in Orders : number[o] = n
  <2>1. Finish(t) /\ UNCHANGED twins
    BY <1>1, <1>3 DEF Check
  <2>2. QED
    BY <1>2, <2>1, FinishStep DEF bounds, GatewayInv, TypeOK
<1>4. CASE ~\E o \in Orders : number[o] = n
  <2>1. PICK j : j = [job[t] EXCEPT !.pc = "select"]
    OBVIOUS
  <2>2. /\ job' = [job EXCEPT ![t] = j]
        /\ twins' = IF \E u \in Threads \ {t} : Claims(u, n) THEN twins \cup {n} ELSE twins
    BY <1>1, <1>4, <2>1 DEF Check, GoTo
  <2>3. job[t] \in Job
    BY <1>2, JobParts DEF GatewayInv
  <2>4. /\ j \in Job /\ j.pc = "select" /\ j.paid = job[t].paid /\ j.number = n
        /\ j.kind = job[t].kind /\ j.order = job[t].order
    BY <1>1, <2>1, <2>3 DEF Job
  <2>5. Plain(j) /\ ~Choosing(j)
    BY <1>2, <2>4 DEF GatewayInv, Plain, Choosing
  <2>6. \A u \in Threads \ {t} : ClaimOf(job[u], n) => n \in twins'
    BY <2>2 DEF Claims, ClaimOf
  <2>7. QED
    BY <1>2, <1>4, <2>2, <2>4, <2>5, <2>6, ClaimStep DEF GatewayInv, TypeOK
<1>5. QED
  BY <1>3, <1>4

LEMMA SelectStep ==
  ASSUME GatewayInv, NEW t \in Threads, Select(t)
  PROVE  GatewayInv'
<1>1. PICK S : S = Available(job[t].amount)
  OBVIOUS
<1>2. PICK j : /\ j = [job[t] EXCEPT !.open = S, !.late = {}]
              /\ \/ j.open = {} /\ job' = [job EXCEPT ![t] = NoneAvailable(j)]
                 \/ \E f \in j.open, mode \in {"first", "random", "roundRobin"} :
                      /\ First(f, j.open) /\ mode \in Modes[f]
                      /\ IF mode = "roundRobin" /\ Cardinality(j.open) > 1
                           THEN job' = [job EXCEPT ![t] = [j EXCEPT !.pc = "turn"]]
                           ELSE \E c \in IF mode = "random" THEN j.open ELSE {f} :
                                  job' = [job EXCEPT ![t] = [j EXCEPT !.channel = c, !.pc = "charge"]]
  BY <1>1, Zenon DEF Select
<1>3. /\ job[t] # NoJob /\ job[t].pc = "select"
      /\ UNCHANGED <<state, number, booked, used, turn, placed, raced, twins, requests, resets, crashes>>
  BY DEF Select, At, tables, bounds
<1>4. job[t] \in Job /\ S \subseteq Channels /\ job[t].amount \in Nat /\ Plain(job[t])
  BY <1>1, <1>3, JobParts DEF GatewayInv, Available
<1>5. /\ j \in Job /\ j.pc = "select" /\ j.open = S /\ j.late = {} /\ j.amount = job[t].amount
      /\ j.number = job[t].number /\ j.order = job[t].order /\ j.paid = job[t].paid /\ j.kind = job[t].kind
  BY <1>2, <1>3, <1>4 DEF Job
<1>6. \A c \in S : Limit[c] > 0 => j.amount <= Limit[c] /\ used[c] + j.amount <= Limit[c]
  BY <1>1, <1>4, <1>5, Facts DEF Available, GatewayInv, TypeOK
<1>7. PICK k \in Job \cup {NoJob} :
        /\ job' = [job EXCEPT ![t] = k]
        /\ k # NoJob => /\ k.paid = j.paid /\ k.open = S /\ k.late = {} /\ k.amount = j.amount
                        /\ k.number = j.number /\ k.order = j.order /\ k.kind = j.kind
                        /\ k.pc = "insert" => k.kind = "epay"
                        /\ k.pc \in {"insert", "turn", "charge"}
                        /\ k.pc = "charge" => k.channel \in S
  <2>1. CASE job' = [job EXCEPT ![t] = NoneAvailable(j)]
    <3>1. CASE j.kind = "epay"
      <4>1. PICK k : k = [j EXCEPT !.pc = "insert"]
        OBVIOUS
      <4>2. k \in Job /\ k.pc = "insert" /\ k.open = S /\ k.late = {} /\ k.amount = j.amount
            /\ k.number = j.number /\ k.order = j.order /\ k.kind = j.kind /\ k.paid = j.paid
        BY <1>5, <4>1 DEF Job
      <4>3. QED
        BY <2>1, <3>1, <4>1, <4>2 DEF NoneAvailable
    <3>2. CASE j.kind # "epay"
      BY <2>1, <3>2 DEF NoneAvailable
    <3>3. QED
      BY <3>1, <3>2
  <2>2. CASE job' = [job EXCEPT ![t] = [j EXCEPT !.pc = "turn"]]
    <3>1. PICK k : k = [j EXCEPT !.pc = "turn"]
      OBVIOUS
    <3>2. k \in Job /\ k.pc = "turn" /\ k.open = S /\ k.late = {} /\ k.amount = j.amount
          /\ k.number = j.number /\ k.order = j.order /\ k.kind = j.kind /\ k.paid = j.paid
      BY <1>5, <3>1 DEF Job
    <3>3. QED
      BY <2>2, <3>1, <3>2
  <2>3. CASE \E c \in S : job' = [job EXCEPT ![t] = [j EXCEPT !.channel = c, !.pc = "charge"]]
    <3>1. PICK c \in S : job' = [job EXCEPT ![t] = [j EXCEPT !.channel = c, !.pc = "charge"]]
      BY <2>3
    <3>2. PICK k : k = [j EXCEPT !.channel = c, !.pc = "charge"]
      OBVIOUS
    <3>3. k \in Job /\ k.pc = "charge" /\ k.open = S /\ k.late = {} /\ k.amount = j.amount /\ k.channel = c
          /\ k.number = j.number /\ k.order = j.order /\ k.kind = j.kind /\ k.paid = j.paid
      BY <1>4, <1>5, <3>2 DEF Job
    <3>4. QED
      BY <3>1, <3>2, <3>3
  <2>4. \/ job' = [job EXCEPT ![t] = NoneAvailable(j)]
        \/ job' = [job EXCEPT ![t] = [j EXCEPT !.pc = "turn"]]
        \/ \E c \in S : job' = [job EXCEPT ![t] = [j EXCEPT !.channel = c, !.pc = "charge"]]
    <3>1. j.open = S
      BY <1>5
    <3>2. QED
      BY <1>2, <3>1, ZenonT(30)
  <2>5. QED
    BY <2>1, <2>2, <2>3, <2>4, Zenon
<1>8. k # NoJob => Plain(k) /\ Fits(k)
  BY <1>4, <1>5, <1>6, <1>7 DEF Plain, Fits, Choosing
<1>9. \A n \in Numbers : ClaimOf(k, n) => ClaimOf(job[t], n)
  BY <1>3, <1>5, <1>7 DEF ClaimOf
<1>10. QED
  BY <1>3, <1>7, <1>8, <1>9, OneJob DEF GatewayInv, TypeOK

LEMMA TurnStep ==
  ASSUME GatewayInv, NEW t \in Threads, Turn(t)
  PROVE  GatewayInv'
<1>1. PICK c \in job[t].open : job' = [job EXCEPT ![t].channel = c, ![t].pc = "store"]
  BY DEF Turn
<1>2. /\ job[t] # NoJob /\ job[t].pc = "turn"
      /\ UNCHANGED <<state, number, booked, used, turn, placed, raced, twins, requests, resets, crashes>>
  BY DEF Turn, At, tables, bounds
<1>3. job[t] \in Job /\ c \in Channels
  BY <1>1, <1>2, JobParts DEF GatewayInv
<1>4. PICK j : j = [job[t] EXCEPT !.channel = c, !.pc = "store"]
  OBVIOUS
<1>5. job' = [job EXCEPT ![t] = j]
  BY <1>1, <1>4 DEF GatewayInv, TypeOK
<1>6. /\ j \in Job /\ j.pc = "store" /\ j.channel = c /\ j.open = job[t].open /\ j.late = job[t].late
      /\ j.amount = job[t].amount /\ j.number = job[t].number /\ j.order = job[t].order
      /\ j.kind = job[t].kind /\ j.paid = job[t].paid
  BY <1>3, <1>4 DEF Job
<1>7. Plain(j) /\ Fits(j)
  BY <1>1, <1>2, <1>6 DEF GatewayInv, Plain, Fits, Choosing
<1>8. \A n \in Numbers : ClaimOf(j, n) => ClaimOf(job[t], n)
  BY <1>2, <1>6 DEF ClaimOf
<1>9. QED
  BY <1>2, <1>5, <1>6, <1>7, <1>8, OneJob DEF GatewayInv, TypeOK

LEMMA StoreTurnStep ==
  ASSUME GatewayInv, NEW t \in Threads, StoreTurn(t)
  PROVE  GatewayInv'
<1>1. /\ job[t] # NoJob /\ job[t].pc = "store" /\ GoTo(t, "charge")
      /\ turn' = (Position(job[t].channel, job[t].open) + 1) % Cardinality(job[t].open)
      /\ UNCHANGED <<state, number, booked, used, placed, raced, twins, bounds>>
  BY DEF StoreTurn, At
<1>2. job[t].open \subseteq Channels /\ job[t].channel \in job[t].open
  BY <1>1, JobParts DEF GatewayInv, Fits, Choosing
<1>3. IsFiniteSet(job[t].open)
  BY <1>2, Facts, FS_Subset
<1>4. Cardinality(job[t].open) \in Nat \ {0}
  BY <1>2, <1>3, FS_CardinalityType, FS_EmptySet
<1>5. Position(job[t].channel, job[t].open) \in Nat
  <2>1. {d \in job[t].open : d < job[t].channel} \in SUBSET job[t].open
    OBVIOUS
  <2>2. QED
    BY <1>3, <2>1, FS_Subset, FS_CardinalityType DEF Position
<1>6. turn' \in Nat
  BY <1>1, <1>4, <1>5
<1>7. QED
  BY <1>1, <1>6, GoToStep DEF GatewayInv, TypeOK

LEMMA ChargeStep ==
  ASSUME GatewayInv, NEW t \in Threads, Charge(t)
  PROVE  GatewayInv'
<1>1. PICK c : c = job[t].channel
  OBVIOUS
<1>2. /\ job[t] # NoJob /\ job[t].pc = "charge"
      /\ UNCHANGED <<state, number, booked, turn, placed, twins, requests, resets, crashes>>
  BY DEF Charge, At, bounds
<1>3. /\ used' = [used EXCEPT ![c] = used[c] + job[t].amount]
      /\ raced' = IF c \in job[t].late THEN raced \cup {c} ELSE raced
      /\ \A u \in Threads : job'[u] = IF u = t THEN AfterSelect(job[t])
                                    ELSE IF Choosing(job[u]) THEN [job[u] EXCEPT !.late = @ \cup {c}] ELSE job[u]
      /\ job' = [u \in Threads |-> job'[u]]
  BY <1>1 DEF Charge
<1>4. /\ job[t] \in Job /\ job[t].amount \in Nat /\ job[t].open \subseteq Channels /\ c \in job[t].open
      /\ c \in Channels /\ Plain(job[t]) /\ Fits(job[t])
  BY <1>1, <1>2, JobParts DEF GatewayInv, Fits, Choosing
<1>5. /\ AfterSelect(job[t]) \in Job \cup {NoJob}
      /\ AfterSelect(job[t]) # NoJob =>
           /\ Plain(AfterSelect(job[t])) /\ ~Choosing(AfterSelect(job[t]))
           /\ \A n \in Numbers : ClaimOf(AfterSelect(job[t]), n) => ClaimOf(job[t], n)
  <2>1. CASE job[t].kind \in {"lost", "probe"}
    BY <2>1 DEF AfterSelect
  <2>2. CASE job[t].kind \notin {"lost", "probe"}
    <3>1. PICK j : j = [job[t] EXCEPT !.pc = IF job[t].order = NoOrder THEN "insert" ELSE "ask",
                                      !.open = {}, !.late = {}]
      OBVIOUS
    <3>2. AfterSelect(job[t]) = j
      BY <2>2, <3>1 DEF AfterSelect
    <3>3. /\ j \in Job /\ j.pc = (IF job[t].order = NoOrder THEN "insert" ELSE "ask") /\ j.paid = job[t].paid
          /\ j.number = job[t].number /\ j.order = job[t].order /\ j.kind = job[t].kind
      BY <1>4, <3>1 DEF Job
    <3>4. Plain(j) /\ ~Choosing(j) /\ \A n \in Numbers : ClaimOf(j, n) => ClaimOf(job[t], n)
      BY <1>2, <1>4, <3>3 DEF Plain, Choosing, ClaimOf
    <3>5. QED
      BY <3>2, <3>3, <3>4
  <2>3. QED
    BY <2>1, <2>2
<1>6. ASSUME NEW u \in Threads \ {t}, job[u] # NoJob
      PROVE  /\ job'[u] \in Job /\ job'[u].pc = job[u].pc /\ job'[u].kind = job[u].kind
             /\ job'[u].paid = job[u].paid /\ job'[u].number = job[u].number /\ job'[u].order = job[u].order
             /\ job'[u].channel = job[u].channel /\ job'[u].open = job[u].open /\ job'[u].amount = job[u].amount
             /\ Choosing(job[u]) => job'[u].late = job[u].late \cup {c}
  <2>1. job[u] \in Job
    BY <1>6, JobParts DEF GatewayInv
  <2>2. CASE Choosing(job[u])
    <3>1. PICK j : j = [job[u] EXCEPT !.late = job[u].late \cup {c}]
      OBVIOUS
    <3>2. job'[u] = j
      BY <1>3, <2>2, <3>1
    <3>3. /\ j \in Job /\ j.pc = job[u].pc /\ j.kind = job[u].kind
          /\ j.paid = job[u].paid /\ j.number = job[u].number /\ j.order = job[u].order
          /\ j.channel = job[u].channel /\ j.open = job[u].open /\ j.amount = job[u].amount
          /\ j.late = job[u].late \cup {c}
      BY <1>4, <2>1, <3>1 DEF Job
    <3>4. QED
      BY <3>2, <3>3
  <2>3. CASE ~Choosing(job[u])
    BY <1>3, <2>1, <2>3
  <2>4. QED
    BY <2>2, <2>3
<1>7. ASSUME NEW u \in Threads \ {t}, job[u] = NoJob PROVE job'[u] = NoJob
  BY <1>3, <1>7 DEF Choosing
<1>8. /\ used \in [Channels -> Nat] /\ raced \subseteq Channels /\ used' \in [Channels -> Nat]
      /\ used'[c] = used[c] + job[t].amount /\ \A d \in Channels \ {c} : used'[d] = used[d]
  <2>1. used \in [Channels -> Nat] /\ raced \subseteq Channels
    BY DEF GatewayInv, TypeOK
  <2>2. used[c] + job[t].amount \in Nat
    BY <1>4, <2>1
  <2>3. QED
    BY <1>3, <1>4, <2>1, <2>2
<1>9. TypeOK'
  <2>1. \A u \in Threads : job'[u] \in Job \cup {NoJob}
    BY <1>3, <1>5, <1>6, <1>7
  <2>2. job' \in [Threads -> Job \cup {NoJob}]
    BY <1>3, <2>1
  <2>3. raced' \subseteq Channels
    BY <1>3, <1>4, <1>8
  <2>4. QED
    BY <1>2, <1>8, <2>2, <2>3 DEF GatewayInv, TypeOK
<1>10. ASSUME NEW u \in Threads, job'[u] # NoJob PROVE Plain(job[u])' /\ Fits(job[u])'
  <2>1. CASE u = t
    <3>1. job'[t] = AfterSelect(job[t])
      BY <1>3
    <3>2. Plain(job'[t]) /\ ~Choosing(job'[t])
      BY <1>5, <1>10, <2>1, <3>1
    <3>3. QED
      BY <2>1, <3>2 DEF Plain, Fits, Choosing
  <2>2. CASE u # t
    <3>1. job[u] # NoJob /\ Plain(job[u]) /\ Fits(job[u]) /\ job[u].open \subseteq Channels
      BY <1>7, <1>10, <2>2, JobParts DEF GatewayInv
    <3>2. Plain(job[u])'
      BY <1>6, <2>2, <3>1 DEF Plain
    <3>3. ASSUME Choosing(job[u])' PROVE Choosing(job[u]) /\ \A d \in job[u].open \ job'[u].late : used'[d] = used[d]
      BY <1>6, <1>8, <2>2, <3>1, <3>3 DEF Choosing
    <3>4. Fits(job[u])'
      BY <1>6, <2>2, <3>1, <3>3 DEF Fits, Choosing
    <3>5. QED
      BY <3>2, <3>4
  <2>3. QED
    BY <2>1, <2>2
<1>11. ASSUME NEW u \in Threads, NEW n \in Numbers, ClaimOf(job[u], n)' PROVE ClaimOf(job[u], n)
  <2>1. ClaimOf(job'[u], n)
    BY <1>11 DEF ClaimOf
  <2>2. CASE u = t
    BY <1>3, <1>5, <2>1, <2>2 DEF ClaimOf
  <2>3. CASE u # t
    BY <1>6, <1>7, <2>1, <2>3 DEF ClaimOf
  <2>4. QED
    BY <2>2, <2>3
<1>12. NumbersApart' /\ NumberIsUnique'
  BY <1>2, <1>11 DEF GatewayInv, NumbersApart, NumberIsUnique
<1>13. UsedWithinLimit'
  <2> SUFFICES ASSUME NEW d \in Channels, Limit[d] > 0, d \notin raced'
               PROVE  used'[d] <= Limit[d]
    BY DEF UsedWithinLimit
  <2>1. d \notin raced /\ used[d] <= Limit[d]
    BY <1>3 DEF GatewayInv, UsedWithinLimit
  <2>2. CASE d = c
    BY <1>2, <1>3, <1>4, <1>8, <2>2 DEF Fits, Choosing
  <2>3. CASE d # c
    BY <1>8, <2>1, <2>3
  <2>4. QED
    BY <2>2, <2>3
<1>14. QED
  BY <1>9, <1>10, <1>12, <1>13 DEF GatewayInv

-----------------------------------------------------------------------------
(* The order *)

LEMMA PlaceKeepsType ==
  ASSUME TypeOK, NEW t \in Threads, job[t] # NoJob, Place(job[t]) \/ UNCHANGED placed
  PROVE  placed' \in [Channels -> Nat]
<1>1. placed \in [Channels -> Nat] /\ job[t].amount \in Nat /\ job[t].channel \in Channels \cup {NoChannel}
  BY JobParts DEF TypeOK
<1>2. CASE placed' = placed
  BY <1>1, <1>2
<1>3. CASE job[t].channel # NoChannel /\ placed' = [placed EXCEPT ![job[t].channel] = @ + job[t].amount]
  <2>1. PICK c \in Channels : c = job[t].channel
    BY <1>1, <1>3
  <2>2. placed[c] + job[t].amount \in Nat
    BY <1>1
  <2>3. placed' = [placed EXCEPT ![c] = placed[c] + job[t].amount]
    BY <1>3, <2>1
  <2>4. QED
    BY <1>1, <2>2, <2>3
<1>4. QED
  BY <1>2, <1>3 DEF Place

LEMMA InsertStep ==
  ASSUME GatewayInv, NEW t \in Threads, Insert(t)
  PROVE  GatewayInv'
<1>1. PICK o \in Orders :
        /\ state[o] = "none" /\ state' = [state EXCEPT ![o] = "unpaid"]
        /\ number' = [number EXCEPT ![o] = job[t].number]
        /\ booked' = [booked EXCEPT ![o] = job[t].channel]
        /\ job' = [job EXCEPT ![t] = AfterInsert(job[t], o)]
  BY DEF Insert
<1>2. /\ job[t] # NoJob /\ job[t].pc = "insert" /\ (Place(job[t]) \/ UNCHANGED placed)
      /\ UNCHANGED <<used, turn, raced, twins, requests, resets, crashes>>
  BY DEF Insert, At, bounds
<1>3. job[t] \in Job /\ Plain(job[t]) /\ job[t].order = NoOrder
  BY <1>2, JobParts DEF GatewayInv, Plain
<1>4. PICK j \in Job \cup {NoJob} :
        /\ j = AfterInsert(job[t], o)
        /\ j # NoJob => /\ j.order = o /\ j.pc \in {"select", "ask"} /\ j.paid = job[t].paid /\ j.kind # "epay"
  <2>1. CASE job[t].kind = "epay"
    BY <2>1 DEF AfterInsert
  <2>2. CASE job[t].kind = "gateway"
    <3>1. PICK j : j = [job[t] EXCEPT !.order = o, !.pc = "select", !.channel = NoChannel, !.old = FALSE]
      OBVIOUS
    <3>2. j \in Job /\ j.order = o /\ j.pc = "select" /\ j.paid = job[t].paid /\ j.kind = "gateway"
      BY <1>3, <2>2, <3>1 DEF Job
    <3>3. QED
      BY <2>2, <3>1, <3>2 DEF AfterInsert
  <2>3. CASE job[t].kind \notin {"epay", "gateway"}
    <3>1. PICK j : j = [job[t] EXCEPT !.order = o, !.pc = "ask"]
      OBVIOUS
    <3>2. j \in Job /\ j.order = o /\ j.pc = "ask" /\ j.paid = job[t].paid /\ j.kind = job[t].kind
      BY <1>3, <3>1 DEF Job
    <3>3. QED
      BY <2>3, <3>1, <3>2 DEF AfterInsert
  <2>4. QED
    BY <2>1, <2>2, <2>3
<1>5. job'[t] = j /\ \A u \in Threads \ {t} : job'[u] = job[u]
  BY <1>1, <1>4, JobUpdated DEF GatewayInv
<1>6. /\ number \in [Orders -> Numbers \cup {NoNumber}] /\ twins \subseteq Numbers
      /\ number'[o] = job[t].number /\ \A p \in Orders \ {o} : number'[p] = number[p]
  BY <1>1, <1>3 DEF GatewayInv, TypeOK
<1>7. TypeOK'
  <2>1. state' \in [Orders -> States]
    BY <1>1 DEF GatewayInv, TypeOK, States
  <2>2. /\ number' \in [Orders -> Numbers \cup {NoNumber}] /\ booked' \in [Orders -> Channels \cup {NoChannel}]
        /\ job' \in [Threads -> Job \cup {NoJob}]
    BY <1>1, <1>2, <1>4, JobParts DEF GatewayInv, TypeOK
  <2>3. placed' \in [Channels -> Nat]
    BY <1>2, PlaceKeepsType DEF GatewayInv
  <2>4. QED
    BY <1>2, <2>1, <2>2, <2>3 DEF GatewayInv, TypeOK
<1>8. ASSUME NEW u \in Threads, job'[u] # NoJob PROVE Plain(job[u])' /\ Fits(job[u])'
  <2>1. CASE u = t
    BY <1>3, <1>4, <1>5, <1>8, <2>1 DEF Plain, Fits, Choosing
  <2>2. CASE u # t
    BY <1>2, <1>5, <1>8, <2>2 DEF GatewayInv, Plain, Fits, Choosing
  <2>3. QED
    BY <2>1, <2>2
<1>9. \A n \in Numbers : job[t].number = n => ClaimOf(job[t], n)
  BY <1>2, <1>3 DEF ClaimOf
<1>10. \A n \in Numbers : ~ClaimOf(job'[t], n)
  BY <1>4, <1>5, Facts DEF ClaimOf
<1>11. \A u \in Threads, n \in Numbers : ClaimOf(job'[u], n) => u # t /\ ClaimOf(job[u], n)
  BY <1>5, <1>10
<1>12. \A u \in Threads, p \in Orders, n \in Numbers : ClaimOf(job'[u], n) /\ number'[p] = n => n \in twins
  BY <1>6, <1>9, <1>11 DEF GatewayInv, NumbersApart
<1>13. NumbersApart'
  BY <1>2, <1>11, <1>12 DEF GatewayInv, NumbersApart, ClaimOf
<1>14. NumberIsUnique'
  <2> SUFFICES ASSUME NEW p \in Orders, NEW q \in Orders, number'[p] = number'[q],
                      number'[p] \notin twins' \cup {NoNumber}
               PROVE  p = q
    BY DEF NumberIsUnique
  <2>1. PICK n \in Numbers : n = number'[p] /\ n = number'[q] /\ n \notin twins
    BY <1>2, <1>6, <1>7 DEF TypeOK
  <2>2. CASE p # o /\ q # o
    BY <1>6, <2>1, <2>2, Facts DEF GatewayInv, NumberIsUnique
  <2>3. CASE (p = o /\ q # o) \/ (p # o /\ q = o)
    BY <1>6, <1>9, <2>1, <2>3 DEF GatewayInv, NumbersApart
  <2>4. QED
    BY <2>2, <2>3
<1>15. UsedWithinLimit'
  BY <1>2 DEF GatewayInv, UsedWithinLimit
<1>16. QED
  BY <1>7, <1>8, <1>13, <1>14, <1>15 DEF GatewayInv

LEMMA ContinueStep ==
  ASSUME GatewayInv, NEW t \in Threads, Continue(t)
  PROVE  GatewayInv'
<1>1. CASE InsertFails(t)
  BY <1>1, FinishStep DEF InsertFails, tables, GatewayInv, TypeOK
<1>2. CASE Placed(t)
  <2>1. job[t] # NoJob /\ placed' \in [Channels -> Nat]
    BY <1>2, PlaceKeepsType DEF Placed, At, GatewayInv
  <2>2. QED
    BY <1>2, <2>1, FinishStep DEF Placed, tables, GatewayInv, TypeOK
<1>3. CASE NotPlaced(t)
  <2>1. job[t] # NoJob /\ job[t].pc = "ask"
    BY <1>3 DEF NotPlaced, At
  <2>2. placed' \in [Channels -> Nat]
    BY <1>3, <2>1, PlaceKeepsType DEF NotPlaced, GatewayInv
  <2>3. CASE Finish(t)
    BY <1>3, <2>2, <2>3, FinishStep DEF NotPlaced, tables, GatewayInv, TypeOK
  <2>4. CASE GoTo(t, "write")
    BY <1>3, <2>1, <2>2, <2>4, GoToStep DEF NotPlaced, tables, GatewayInv, TypeOK
  <2>5. QED
    BY <1>3, <2>3, <2>4 DEF NotPlaced
<1>4. CASE CloseWrite(t)
  <2>1. state' \in [Orders -> States]
    BY <1>4 DEF CloseWrite, Set, GatewayInv, TypeOK, States
  <2>2. QED
    BY <1>4, <2>1, FinishStep DEF CloseWrite, Else, bounds, GatewayInv, TypeOK
<1>5. QED
  BY <1>1, <1>2, <1>3, <1>4, CheckStep, SelectStep, TurnStep, StoreTurnStep, ChargeStep, InsertStep DEF Continue

-----------------------------------------------------------------------------
(* What happens beside the handlers *)

LEMMA SameJobs ==
  ASSUME GatewayInv, TypeOK', UNCHANGED <<job, number, used, raced, twins>>
  PROVE  GatewayInv'
<1>1. \A t \in Threads : job'[t] # NoJob => Plain(job[t])' /\ Fits(job[t])'
  BY DEF GatewayInv, Plain, Fits, Choosing
<1>2. NumbersApart' /\ NumberIsUnique' /\ UsedWithinLimit'
  BY DEF GatewayInv, NumbersApart, ClaimOf, NumberIsUnique, UsedWithinLimit
<1>3. QED
  BY <1>1, <1>2 DEF GatewayInv

LEMMA ChangeStep ==
  ASSUME GatewayInv, NEW o \in Orders, Change(o)
  PROVE  GatewayInv'
<1>1. PICK s \in States : Set(o, s)
  BY DEF Change, Expire, ChannelNotify, MarkPaid, SyncUnpaid, States
<1>2. /\ UNCHANGED <<job, number, booked, used, turn, placed, raced, twins, resets, crashes>>
      /\ requests' \in Nat
  BY DEF Change, Expire, ChannelNotify, MarkPaid, SyncUnpaid, Count, Else, GatewayInv, TypeOK
<1>3. TypeOK'
  BY <1>1, <1>2 DEF Set, GatewayInv, TypeOK
<1>4. QED
  BY <1>2, <1>3, SameJobs

LEMMA ResetStep ==
  ASSUME GatewayInv, ResetQuota
  PROVE  GatewayInv'
<1>1. /\ used' = [c \in Channels |-> IF Limit[c] > 0 THEN 0 ELSE used[c]]
      /\ placed' = [c \in Channels |-> IF Limit[c] > 0 THEN 0 ELSE placed[c]]
      /\ raced' = {} /\ resets' = resets + 1
      /\ job' = [t \in Threads |-> job'[t]]
      /\ \A t \in Threads : job'[t] =
           IF job[t] # NoJob /\ job[t].pc \in {"insert", "ask"} THEN [job[t] EXCEPT !.old = TRUE]
           ELSE IF Choosing(job[t]) THEN [job[t] EXCEPT !.late = {}] ELSE job[t]
      /\ UNCHANGED <<state, number, booked, turn, twins, requests, crashes>>
  BY DEF ResetQuota
<1>2. ASSUME NEW t \in Threads, job[t] # NoJob
      PROVE  /\ job'[t] \in Job /\ job'[t].pc = job[t].pc /\ job'[t].kind = job[t].kind
             /\ job'[t].paid = job[t].paid /\ job'[t].number = job[t].number /\ job'[t].order = job[t].order
             /\ job'[t].channel = job[t].channel /\ job'[t].open = job[t].open /\ job'[t].amount = job[t].amount
  <2>1. job[t] \in Job
    BY <1>2, JobParts DEF GatewayInv
  <2>2. PICK j \in Job : j = [job[t] EXCEPT !.old = TRUE]
    BY <2>1 DEF Job
  <2>3. PICK k \in Job : k = [job[t] EXCEPT !.late = {}]
    BY <2>1 DEF Job
  <2>4. job'[t] \in {j, k, job[t]}
    BY <1>1, <2>2, <2>3
  <2>5. /\ j.pc = job[t].pc /\ j.kind = job[t].kind /\ j.paid = job[t].paid /\ j.number = job[t].number
        /\ j.order = job[t].order /\ j.channel = job[t].channel /\ j.open = job[t].open /\ j.amount = job[t].amount
    BY <2>1, <2>2 DEF Job
  <2>6. /\ k.pc = job[t].pc /\ k.kind = job[t].kind /\ k.paid = job[t].paid /\ k.number = job[t].number
        /\ k.order = job[t].order /\ k.channel = job[t].channel /\ k.open = job[t].open /\ k.amount = job[t].amount
    BY <2>1, <2>3 DEF Job
  <2>7. QED
    BY <2>1, <2>4, <2>5, <2>6
<1>3. ASSUME NEW t \in Threads, job[t] = NoJob PROVE job'[t] = NoJob
  BY <1>1, <1>3 DEF Choosing
<1>4. TypeOK'
  <2>1. used' \in [Channels -> Nat] /\ placed' \in [Channels -> Nat] /\ resets' \in Nat
    BY <1>1 DEF GatewayInv, TypeOK
  <2>2. \A t \in Threads : job'[t] \in Job \cup {NoJob}
    BY <1>2, <1>3
  <2>3. job' \in [Threads -> Job \cup {NoJob}]
    BY <1>1, <2>2
  <2>4. QED
    BY <1>1, <2>1, <2>3 DEF GatewayInv, TypeOK
<1>5. ASSUME NEW t \in Threads, job'[t] # NoJob PROVE Plain(job[t])' /\ Fits(job[t])'
  <2>1. job[t] # NoJob /\ Plain(job[t]) /\ Fits(job[t]) /\ job[t].open \subseteq Channels /\ job[t].amount \in Nat
    BY <1>3, <1>5, JobParts DEF GatewayInv
  <2>2. Plain(job[t])'
    BY <1>2, <2>1 DEF Plain
  <2>3. \A c \in Channels : Limit[c] > 0 => used'[c] = 0
    BY <1>1
  <2>4. Fits(job[t])'
    BY <1>2, <2>1, <2>3, Facts DEF Fits, Choosing
  <2>5. QED
    BY <2>2, <2>4
<1>6. ASSUME NEW t \in Threads, NEW n \in Numbers, ClaimOf(job[t], n)' PROVE ClaimOf(job[t], n)
  BY <1>2, <1>3, <1>6 DEF ClaimOf
<1>7. NumbersApart' /\ NumberIsUnique'
  BY <1>1, <1>6 DEF GatewayInv, NumbersApart, NumberIsUnique
<1>8. UsedWithinLimit'
  BY <1>1, Facts DEF UsedWithinLimit
<1>9. QED
  BY <1>4, <1>5, <1>7, <1>8 DEF GatewayInv

LEMMA CrashStep ==
  ASSUME GatewayInv, Crash
  PROVE  GatewayInv'
<1>1. /\ job' = [t \in Threads |-> NoJob] /\ crashes' = crashes + 1
      /\ UNCHANGED <<state, number, booked, used, turn, placed, raced, twins, requests, resets>>
  BY DEF Crash, tables
<1>2. TypeOK'
  BY <1>1 DEF GatewayInv, TypeOK
<1>3. \A t \in Threads : job'[t] = NoJob
  BY <1>1
<1>4. NumbersApart'
  BY <1>1, <1>3 DEF NumbersApart, ClaimOf
<1>5. NumberIsUnique' /\ UsedWithinLimit'
  BY <1>1 DEF GatewayInv, NumberIsUnique, UsedWithinLimit
<1>6. QED
  BY <1>2, <1>3, <1>4, <1>5 DEF GatewayInv

LEMMA InitInv ==
  ASSUME Init
  PROVE  GatewayInv
<1>1. TypeOK
  BY DEF Init, TypeOK, States
<1>2. \A t \in Threads : job[t] = NoJob
  BY DEF Init
<1>3. NumbersApart /\ NumberIsUnique
  BY <1>2 DEF Init, NumbersApart, ClaimOf, NumberIsUnique
<1>4. UsedWithinLimit
  BY Facts DEF Init, UsedWithinLimit
<1>5. QED
  BY <1>1, <1>2, <1>3, <1>4 DEF GatewayInv

LEMMA NextKeeps ==
  ASSUME GatewayInv, [Next]_vars
  PROVE  GatewayInv'
<1>1. CASE UNCHANGED vars
  <2>1. TypeOK'
    BY <1>1 DEF vars, tables, bounds, GatewayInv, TypeOK
  <2>2. QED
    BY <1>1, <2>1, SameJobs DEF vars, tables
<1>2. CASE \E t \in Threads : Arrive(t) \/ Continue(t)
  BY <1>2, ArriveStep, ContinueStep
<1>3. CASE \E o \in Orders : Change(o)
  BY <1>3, ChangeStep
<1>4. QED
  BY <1>1, <1>2, <1>3, ResetStep, CrashStep DEF Next, AllServed

LEMMA AlwaysInv == Spec => []GatewayInv
<1>1. Init => GatewayInv
  BY InitInv
<1>2. GatewayInv /\ [Next]_vars => GatewayInv'
  BY NextKeeps
<1>3. QED
  BY <1>1, <1>2, PTL DEF Spec

-----------------------------------------------------------------------------
(***************************************************************************)
(* What the channel is asked for is counted first: day_amount covers what a *)
(* channel was asked for since the reset together with what the handlers   *)
(* have charged and not placed yet.                                        *)
(***************************************************************************)

\* What j has charged channel c with since the reset and not placed
Owed(j, c) ==
  IF j # NoJob /\ j.pc \in {"insert", "ask"} /\ j.channel = c /\ ~j.old THEN j.amount ELSE 0

Due(c) == SumFunctionOnSet([t \in Threads |-> Owed(job[t], c)], Threads)

Unchosen(j) == j # NoJob /\ j.pc \in {"check", "select"} => j.channel = NoChannel

PlacedInv ==
  /\ \A t \in Threads : Unchosen(job[t])
  /\ \A c \in Channels : placed[c] + Due(c) <= used[c]

LEMMA OwedNat ==
  ASSUME NEW j \in Job \cup {NoJob}, NEW c
  PROVE  Owed(j, c) \in Nat
BY Facts DEF Owed, Job

\* The same of the jobs in any state
LEMMA SumOfOwed ==
  ASSUME NEW jobs \in [Threads -> Job \cup {NoJob}], NEW c
  PROVE  LET sum == SumFunctionOnSet([t \in Threads |-> Owed(jobs[t], c)], Threads)
         IN  sum \in Nat /\ ((\A t \in Threads : Owed(jobs[t], c) = 0) => sum = 0)
<1> DEFINE f == [t \in Threads |-> Owed(jobs[t], c)]
<1>1. IsFiniteSet(Threads) /\ \A t \in Threads : f[t] = Owed(jobs[t], c) /\ f[t] \in Nat
  BY OwedNat, GatewayAssumption
<1>2. SumFunctionOnSet(f, Threads) \in Nat
  <2> HIDE DEF f
  <2>1. QED
    BY <1>1, SumNat
<1>3. ASSUME \A t \in Threads : Owed(jobs[t], c) = 0 PROVE SumFunctionOnSet(f, Threads) = 0
  <2>1. \A t \in Threads : f[t] = 0
    BY <1>3
  <2> HIDE DEF f
  <2>2. QED
    BY <1>1, <2>1, SumZero
<1>4. QED
  BY <1>2, <1>3

LEMMA DueParts ==
  ASSUME TypeOK, NEW c \in Channels
  PROVE  /\ Due(c) \in Nat /\ placed[c] \in Nat /\ used[c] \in Nat
         /\ (\A t \in Threads : Owed(job[t], c) = 0) => Due(c) = 0
<1>1. job \in [Threads -> Job \cup {NoJob}] /\ placed[c] \in Nat /\ used[c] \in Nat
  BY DEF TypeOK
<1>2. QED
  BY <1>1, SumOfOwed DEF Due

\* Nobody owes anything in the next state.
LEMMA NothingDue ==
  ASSUME TypeOK', NEW c \in Channels, \A t \in Threads : Owed(job'[t], c) = 0
  PROVE  Due(c)' = 0
<1>1. job' \in [Threads -> Job \cup {NoJob}]
  BY DEF TypeOK
<1>2. Due(c)' = SumFunctionOnSet([t \in Threads |-> Owed(job'[t], c)], Threads)
  BY DEF Due, Owed
<1>3. QED
  BY <1>1, <1>2, SumOfOwed

\* One thread's share changes: so does the sum, by as much.
LEMMA DueMoves ==
  ASSUME TypeOK, TypeOK', NEW t \in Threads, NEW c \in Channels,
         \A u \in Threads \ {t} : Owed(job'[u], c) = Owed(job[u], c)
  PROVE  Due(c)' = Due(c) - Owed(job[t], c) + Owed(job'[t], c)
<1> DEFINE f == [u \in Threads |-> Owed(job[u], c)]
           g == [u \in Threads |-> Owed(job'[u], c)]
<1>1. \A u \in Threads : f[u] = Owed(job[u], c) /\ f[u] \in Nat
  BY OwedNat DEF TypeOK
<1>2. \A u \in Threads : g[u] = Owed(job'[u], c) /\ g[u] \in Nat
  BY OwedNat DEF TypeOK
<1>3. Due(c) = SumFunctionOnSet(f, Threads)
  BY DEF Due
<1>4. Due(c)' = SumFunctionOnSet(g, Threads)
  BY DEF Due, Owed
<1> HIDE DEF f, g
<1>5. Integral(f, Threads) /\ Integral(g, Threads)
  BY <1>1, <1>2 DEF Integral
<1>6. Alike(f, Threads, g, Threads, t)
  BY <1>1, <1>2 DEF Alike
<1>7. SumFunctionOnSet(g, Threads) = SumFunctionOnSet(f, Threads) - Part(f, Threads, t) + Part(g, Threads, t)
  BY <1>5, <1>6, GatewayAssumption, SumUpdate
<1>8. Part(f, Threads, t) = f[t] /\ Part(g, Threads, t) = g[t]
  BY DEF Part
<1>9. QED
  BY <1>1, <1>2, <1>3, <1>4, <1>7, <1>8

\* A step of one thread, which charges or places no more than it owes afterwards
LEMMA OneOwes ==
  ASSUME TypeOK, TypeOK', PlacedInv, NEW t \in Threads,
         \A u \in Threads \ {t} : Unchosen(job'[u]) /\ \A c \in Channels : Owed(job'[u], c) = Owed(job[u], c),
         Unchosen(job'[t]),
         \A c \in Channels :
           placed'[c] + Owed(job'[t], c) + used[c] <= placed[c] + Owed(job[t], c) + used'[c]
  PROVE  PlacedInv'
<1>1. \A u \in Threads : Unchosen(job[u])'
  BY DEF Unchosen
<1>2. ASSUME NEW c \in Channels PROVE (placed[c] + Due(c) <= used[c])'
  <2>1. /\ Due(c) \in Nat /\ placed[c] \in Nat /\ used[c] \in Nat
        /\ placed'[c] \in Nat /\ used'[c] \in Nat
    BY DueParts DEF TypeOK
  <2>2. Owed(job[t], c) \in Nat
    BY OwedNat DEF TypeOK
  <2>3. Owed(job'[t], c) \in Nat
    BY OwedNat DEF TypeOK
  <2>4. Due(c)' = Due(c) - Owed(job[t], c) + Owed(job'[t], c)
    BY DueMoves
  <2>5. placed[c] + Due(c) <= used[c]
    BY DEF PlacedInv
  <2>6. placed'[c] + Owed(job'[t], c) + used[c] <= placed[c] + Owed(job[t], c) + used'[c]
    OBVIOUS
  <2>7. placed'[c] + Due(c)' <= used'[c]
    BY <2>1, <2>2, <2>3, <2>4, <2>5, <2>6
  <2>8. QED
    BY <2>7
<1>3. QED
  BY <1>1, <1>2 DEF PlacedInv

\* A step of one thread that neither charges nor places, and owes no more after it
LEMMA QuietQuota ==
  ASSUME TypeOK, TypeOK', PlacedInv, NEW t \in Threads,
         \A u \in Threads \ {t} : job'[u] = job[u], UNCHANGED <<used, placed>>,
         Unchosen(job'[t]), \A c \in Channels : Owed(job'[t], c) \in {0, Owed(job[t], c)}
  PROVE  PlacedInv'
<1>1. \A u \in Threads \ {t} : Unchosen(job'[u]) /\ \A c \in Channels : Owed(job'[u], c) = Owed(job[u], c)
  BY DEF PlacedInv
<1>2. ASSUME NEW c \in Channels
      PROVE  placed'[c] + Owed(job'[t], c) + used[c] <= placed[c] + Owed(job[t], c) + used'[c]
  <2>1. placed[c] \in Nat /\ used[c] \in Nat /\ Owed(job[t], c) \in Nat
    BY OwedNat DEF TypeOK
  <2>2. placed'[c] = placed[c] /\ used'[c] = used[c] /\ Owed(job'[t], c) \in {0, Owed(job[t], c)}
    OBVIOUS
  <2>3. QED
    BY <2>1, <2>2
<1>3. QED
  BY <1>1, <1>2, OneOwes

LEMMA ArrivePlaced ==
  ASSUME TypeOK, TypeOK', PlacedInv, NEW t \in Threads, Arrive(t)
  PROVE  PlacedInv'
<1>1. ASSUME NEW kind, NEW n, NEW a, NEW o, NEW pc \in {"check", "select", "insert", "write"},
             Begin(t, kind, n, a, o, pc)
      PROVE  PlacedInv'
  <2>1. PICK j : j = [kind |-> kind, pc |-> pc, number |-> n, amount |-> a, order |-> o, open |-> {},
                      channel |-> NoChannel, late |-> {}, old |-> FALSE,
                      paid |-> o # NoOrder /\ state[o] = "paid"]
    OBVIOUS
  <2>2. job' = [job EXCEPT ![t] = j] /\ UNCHANGED <<used, placed>>
    BY <1>1, <2>1 DEF Begin, tables
  <2>3. j.channel = NoChannel
    BY <2>1
  <2>4. Unchosen(j) /\ \A c \in Channels : Owed(j, c) = 0
    BY <2>3, Facts DEF Unchosen, Owed
  <2>5. job'[t] = j /\ \A u \in Threads \ {t} : job'[u] = job[u]
    BY <2>2, JobUpdated
  <2>6. QED
    BY <2>2, <2>4, <2>5, QuietQuota
<1>2. QED
  BY <1>1 DEF Arrive, CreateOrder, CreateEpayOrder, CreateNewApi, CreatePluginPayOrder, CreateDirect,
       CreatePhp, AskPreference, Close, CloseApi

\* The check, the choice of a channel, and what ends a handler or leaves it with a write
LEMMA QuietPlaced ==
  ASSUME TypeOK, TypeOK', PlacedInv, NEW t \in Threads, job[t] # NoJob, UNCHANGED <<used, placed>>,
         \/ Finish(t) \/ GoTo(t, "charge") \/ GoTo(t, "write")
         \/ job[t].pc = "check" /\ GoTo(t, "select")
         \/ \E c : job' = [job EXCEPT ![t].channel = c, ![t].pc = "store"]
  PROVE  PlacedInv'
<1>1. job[t] \in Job /\ Unchosen(job[t])
  BY JobParts DEF PlacedInv
<1>2. PICK j : job' = [job EXCEPT ![t] = j] /\
               \/ j = NoJob
               \/ j.pc \in {"charge", "store", "write"}
               \/ j.pc = "select" /\ j.channel = NoChannel
  <2>1. CASE Finish(t)
    BY <2>1 DEF Finish
  <2>2. ASSUME NEW pc \in {"charge", "write"}, GoTo(t, pc)
        PROVE  \E j : job' = [job EXCEPT ![t] = j] /\ j.pc \in {"charge", "store", "write"}
    <3>1. PICK j : j = [job[t] EXCEPT !.pc = pc]
      OBVIOUS
    <3>2. j.pc = pc /\ job' = [job EXCEPT ![t] = j]
      BY <1>1, <2>2, <3>1 DEF Job, GoTo
    <3>3. QED
      BY <3>2
  <2>3. ASSUME job[t].pc = "check", GoTo(t, "select")
        PROVE  \E j : job' = [job EXCEPT ![t] = j] /\ j.pc = "select" /\ j.channel = NoChannel
    <3>1. PICK j : j = [job[t] EXCEPT !.pc = "select"]
      OBVIOUS
    <3>2. j.pc = "select" /\ j.channel = NoChannel /\ job' = [job EXCEPT ![t] = j]
      BY <1>1, <2>3, <3>1 DEF Job, GoTo, Unchosen
    <3>3. QED
      BY <3>2
  <2>4. ASSUME NEW c, job' = [job EXCEPT ![t].channel = c, ![t].pc = "store"]
        PROVE  \E j : job' = [job EXCEPT ![t] = j] /\ j.pc \in {"charge", "store", "write"}
    <3>1. PICK j : j = [job[t] EXCEPT !.channel = c, !.pc = "store"]
      OBVIOUS
    <3>2. j.pc = "store" /\ job' = [job EXCEPT ![t] = j]
      BY <1>1, <2>4, <3>1 DEF Job, TypeOK
    <3>3. QED
      BY <3>2
  <2>5. QED
    BY <2>1, <2>2, <2>3, <2>4
<1>3. job'[t] = j /\ \A u \in Threads \ {t} : job'[u] = job[u]
  BY <1>2, JobUpdated
<1>4. Unchosen(j) /\ \A c \in Channels : Owed(j, c) = 0
  BY <1>2 DEF Unchosen, Owed
<1>5. QED
  BY <1>3, <1>4, QuietQuota

LEMMA SelectPlaced ==
  ASSUME TypeOK, TypeOK', PlacedInv, NEW t \in Threads, Select(t)
  PROVE  PlacedInv'
<1>1. /\ job[t] # NoJob /\ job[t].pc = "select" /\ UNCHANGED <<used, placed>>
  BY DEF Select, At, tables
<1>2. job[t] \in Job /\ job[t].channel = NoChannel
  BY <1>1, JobParts DEF PlacedInv, Unchosen
<1>3. PICK i : /\ i = [job[t] EXCEPT !.open = Available(job[t].amount), !.late = {}]
              /\ \/ job' = [job EXCEPT ![t] = NoneAvailable(i)]
                 \/ job' = [job EXCEPT ![t] = [i EXCEPT !.pc = "turn"]]
                 \/ \E c : job' = [job EXCEPT ![t] = [i EXCEPT !.channel = c, !.pc = "charge"]]
  BY Zenon DEF Select
<1>4. DOMAIN i = DOMAIN job[t] /\ i.channel = NoChannel /\ i = [k \in DOMAIN job[t] |-> i[k]]
      /\ "pc" \in DOMAIN i /\ "channel" \in DOMAIN i
  BY <1>2, <1>3 DEF Job
<1>5. PICK j : job' = [job EXCEPT ![t] = j] /\
               \/ j = NoJob
               \/ j.pc \in {"turn", "charge"}
               \/ j.pc = "insert" /\ j.channel = NoChannel
  <2>1. CASE job' = [job EXCEPT ![t] = NoneAvailable(i)]
    <3>1. PICK j : j = [i EXCEPT !.pc = "insert"]
      OBVIOUS
    <3>2. j.pc = "insert" /\ j.channel = NoChannel
      BY <1>4, <3>1
    <3>3. NoneAvailable(i) \in {j, NoJob}
      BY <3>1 DEF NoneAvailable
    <3>4. QED
      BY <2>1, <3>2, <3>3
  <2>2. CASE job' = [job EXCEPT ![t] = [i EXCEPT !.pc = "turn"]]
    <3>1. PICK j : j = [i EXCEPT !.pc = "turn"]
      OBVIOUS
    <3>2. j.pc = "turn"
      BY <1>4, <3>1
    <3>3. QED
      BY <2>2, <3>1, <3>2
  <2>3. ASSUME NEW c, job' = [job EXCEPT ![t] = [i EXCEPT !.channel = c, !.pc = "charge"]]
        PROVE  \E j : job' = [job EXCEPT ![t] = j] /\ j.pc \in {"turn", "charge"}
    <3>1. PICK j : j = [i EXCEPT !.channel = c, !.pc = "charge"]
      OBVIOUS
    <3>2. j.pc = "charge"
      BY <1>4, <3>1
    <3>3. QED
      BY <2>3, <3>1, <3>2
  <2>4. QED
    BY <1>3, <2>1, <2>2, <2>3
<1>6. job'[t] = j /\ \A u \in Threads \ {t} : job'[u] = job[u]
  BY <1>5, JobUpdated
<1>7. Unchosen(j) /\ \A c \in Channels : Owed(j, c) = 0
  BY <1>5, Facts DEF Unchosen, Owed
<1>8. QED
  BY <1>1, <1>6, <1>7, QuietQuota

\* The quota is charged before anything is placed, and t owes at most what it charged.
LEMMA ChargePlaced ==
  ASSUME TypeOK, TypeOK', PlacedInv, NEW t \in Threads, Charge(t)
  PROVE  PlacedInv'
<1>1. PICK c : c = job[t].channel
  OBVIOUS
<1>2. /\ job[t] # NoJob /\ job[t].pc = "charge" /\ placed' = placed
      /\ used' = [used EXCEPT ![c] = used[c] + job[t].amount]
      /\ job'[t] = AfterSelect(job[t])
      /\ \A u \in Threads \ {t} :
           job'[u] = IF Choosing(job[u]) THEN [job[u] EXCEPT !.late = job[u].late \cup {c}] ELSE job[u]
  BY <1>1 DEF Charge, At
<1>3. job[t] \in Job /\ job[t].amount \in Nat
  BY <1>2, JobParts
<1>4. ASSUME NEW u \in Threads \ {t}
      PROVE  Unchosen(job'[u]) /\ \A d \in Channels : Owed(job'[u], d) = Owed(job[u], d)
  <2>1. CASE Choosing(job[u])
    <3>1. PICK j : j = [job[u] EXCEPT !.late = job[u].late \cup {c}]
      OBVIOUS
    <3>2. job[u] # NoJob /\ job[u].pc \in {"turn", "store", "charge"} /\ job[u] \in Job
      BY <2>1, JobParts DEF Choosing
    <3>3. j.pc = job[u].pc
      BY <3>1, <3>2 DEF Job
    <3>4. job'[u] = j
      BY <1>2, <2>1, <3>1
    <3>5. QED
      BY <3>2, <3>3, <3>4 DEF Unchosen, Owed
  <2>2. CASE ~Choosing(job[u])
    BY <1>2, <2>2 DEF PlacedInv
  <2>3. QED
    BY <2>1, <2>2
<1>5. /\ Unchosen(job'[t])
      /\ \A d \in Channels : Owed(job'[t], d) \in {0, job[t].amount} /\ (d # c => Owed(job'[t], d) = 0)
  <2>1. CASE AfterSelect(job[t]) = NoJob
    BY <1>2, <2>1 DEF Unchosen, Owed
  <2>2. CASE AfterSelect(job[t]) # NoJob
    <3>1. PICK j : j = [job[t] EXCEPT !.pc = IF job[t].order = NoOrder THEN "insert" ELSE "ask",
                                      !.open = {}, !.late = {}]
      OBVIOUS
    <3>2. job'[t] = j
      BY <1>2, <2>2, <3>1 DEF AfterSelect
    <3>3. j.pc \in {"insert", "ask"} /\ j.channel = c /\ j.amount = job[t].amount
      BY <1>1, <1>3, <3>1 DEF Job
    <3>4. QED
      BY <3>2, <3>3 DEF Unchosen, Owed
  <2>3. QED
    BY <2>1, <2>2
<1>6. ASSUME NEW d \in Channels
      PROVE  placed'[d] + Owed(job'[t], d) + used[d] <= placed[d] + Owed(job[t], d) + used'[d]
  <2>1. placed[d] \in Nat /\ used[d] \in Nat /\ placed'[d] = placed[d]
    BY <1>2 DEF TypeOK
  <2>2. Owed(job[t], d) = 0
    BY <1>2 DEF Owed
  <2>3. used'[d] = IF d = c THEN used[d] + job[t].amount ELSE used[d]
    BY <1>2 DEF TypeOK
  <2>4. Owed(job'[t], d) \in {0, job[t].amount} /\ (d # c => Owed(job'[t], d) = 0)
    BY <1>5
  <2>5. CASE d = c
    BY <1>3, <2>1, <2>2, <2>3, <2>4, <2>5
  <2>6. CASE d # c
    BY <1>3, <2>1, <2>2, <2>3, <2>4, <2>6
  <2>7. QED
    BY <2>5, <2>6
<1>7. QED
  BY <1>4, <1>5, <1>6, OneOwes

\* t places what it owes, or owes it on, or owes no more.
LEMMA PlaceStep ==
  ASSUME TypeOK, TypeOK', PlacedInv, NEW t \in Threads, job[t] # NoJob, job[t].pc \in {"insert", "ask"},
         \A u \in Threads \ {t} : job'[u] = job[u], used' = used, Unchosen(job'[t]),
         \/ /\ Place(job[t]) \/ UNCHANGED placed
            /\ \A c \in Channels : Owed(job'[t], c) = 0
         \/ UNCHANGED placed /\ \A c \in Channels : Owed(job'[t], c) \in {0, Owed(job[t], c)}
  PROVE  PlacedInv'
<1>1. CASE UNCHANGED placed
  <2>1. \A c \in Channels : Owed(job'[t], c) \in {0, Owed(job[t], c)}
    OBVIOUS
  <2>2. QED
    BY <1>1, <2>1, QuietQuota
<1>2. CASE Place(job[t]) /\ \A c \in Channels : Owed(job'[t], c) = 0
  <2>1. \A u \in Threads \ {t} : Unchosen(job'[u]) /\ \A c \in Channels : Owed(job'[u], c) = Owed(job[u], c)
    BY DEF PlacedInv
  <2>2. placed \in [Channels -> Nat] /\ used \in [Channels -> Nat] /\ job[t].amount \in Nat
    BY JobParts DEF TypeOK
  <2>3. \A c \in Channels : placed'[c] = placed[c] + Owed(job[t], c)
    <3>1. CASE job[t].channel = NoChannel \/ job[t].old
      <4>1. placed' = placed /\ \A c \in Channels : Owed(job[t], c) = 0
        BY <1>2, <3>1, Facts DEF Place, Owed
      <4>2. QED
        BY <2>2, <4>1
    <3>2. CASE ~(job[t].channel = NoChannel \/ job[t].old)
      <4>1. placed' = [placed EXCEPT ![job[t].channel] = placed[job[t].channel] + job[t].amount]
        BY <1>2, <3>2 DEF Place
      <4>2. \A c \in Channels : Owed(job[t], c) = IF job[t].channel = c THEN job[t].amount ELSE 0
        BY <3>2 DEF Owed
      <4>3. QED
        BY <2>2, <4>1, <4>2
    <3>3. QED
      BY <3>1, <3>2
  <2>4. \A c \in Channels :
          placed'[c] + Owed(job'[t], c) + used[c] <= placed[c] + Owed(job[t], c) + used'[c]
    <3> SUFFICES ASSUME NEW c \in Channels
                 PROVE  placed'[c] + Owed(job'[t], c) + used[c] <= placed[c] + Owed(job[t], c) + used'[c]
      OBVIOUS
    <3>1. Owed(job[t], c) \in Nat /\ placed[c] \in Nat /\ used[c] \in Nat
      BY <2>2, OwedNat DEF TypeOK
    <3>2. placed'[c] = placed[c] + Owed(job[t], c) /\ Owed(job'[t], c) = 0 /\ used'[c] = used[c]
      BY <1>2, <2>3
    <3>3. QED
      BY <3>1, <3>2
  <2>5. QED
    BY <2>1, <2>4, OneOwes
<1>3. QED
  BY <1>1, <1>2

LEMMA InsertPlaced ==
  ASSUME TypeOK, TypeOK', PlacedInv, NEW t \in Threads, Insert(t)
  PROVE  PlacedInv'
<1>1. PICK o \in Orders : job' = [job EXCEPT ![t] = AfterInsert(job[t], o)]
  BY DEF Insert
<1>2. /\ job[t] # NoJob /\ job[t].pc = "insert" /\ used' = used
      /\ IF job[t].kind = "epay" THEN Place(job[t]) ELSE UNCHANGED placed
  BY DEF Insert, At
<1>3. job[t] \in Job
  BY <1>2, JobParts
<1>4. job'[t] = AfterInsert(job[t], o) /\ \A u \in Threads \ {t} : job'[u] = job[u]
  BY <1>1, JobUpdated
<1>5. CASE job[t].kind = "epay"
  <2>1. job'[t] = NoJob
    BY <1>4, <1>5 DEF AfterInsert
  <2>2. Unchosen(job'[t]) /\ \A c \in Channels : Owed(job'[t], c) = 0
    BY <2>1 DEF Unchosen, Owed
  <2>3. QED
    BY <1>2, <1>4, <1>5, <2>2, PlaceStep
<1>6. CASE job[t].kind = "gateway"
  <2>1. PICK j : j = [job[t] EXCEPT !.order = o, !.pc = "select", !.channel = NoChannel, !.old = FALSE]
    OBVIOUS
  <2>2. j.pc = "select" /\ j.channel = NoChannel
    BY <1>3, <2>1 DEF Job
  <2>3. job'[t] = j
    BY <1>4, <1>6, <2>1 DEF AfterInsert
  <2>4. Unchosen(job'[t]) /\ \A c \in Channels : Owed(job'[t], c) = 0
    BY <2>2, <2>3 DEF Unchosen, Owed
  <2>5. QED
    BY <1>2, <1>4, <1>6, <2>4, PlaceStep
<1>7. CASE job[t].kind \notin {"epay", "gateway"}
  <2>1. PICK j : j = [job[t] EXCEPT !.order = o, !.pc = "ask"]
    OBVIOUS
  <2>2. /\ j.pc = "ask" /\ j.channel = job[t].channel /\ j.old = job[t].old /\ j.amount = job[t].amount
    BY <1>3, <2>1 DEF Job
  <2>3. job'[t] = j
    BY <1>4, <1>7, <2>1 DEF AfterInsert
  <2>4. Unchosen(job'[t]) /\ \A c \in Channels : Owed(job'[t], c) \in {0, Owed(job[t], c)}
    BY <1>2, <2>2, <2>3 DEF Unchosen, Owed
  <2>5. QED
    BY <1>2, <1>4, <1>7, <2>4, PlaceStep
<1>8. QED
  BY <1>5, <1>6, <1>7

LEMMA AskPlaced ==
  ASSUME TypeOK, TypeOK', PlacedInv, NEW t \in Threads, Placed(t) \/ NotPlaced(t)
  PROVE  PlacedInv'
<1>1. /\ job[t] # NoJob /\ job[t].pc = "ask" /\ used' = used
      /\ Place(job[t]) \/ UNCHANGED placed
      /\ Finish(t) \/ GoTo(t, "write")
  BY DEF Placed, NotPlaced, At, tables
<1>2. job[t] \in Job
  BY <1>1, JobParts
<1>3. PICK j : job' = [job EXCEPT ![t] = j] /\ (j = NoJob \/ j.pc = "write")
  <2>1. CASE Finish(t)
    BY <2>1 DEF Finish
  <2>2. CASE GoTo(t, "write")
    <3>1. PICK j : j = [job[t] EXCEPT !.pc = "write"]
      OBVIOUS
    <3>2. j.pc = "write" /\ job' = [job EXCEPT ![t] = j]
      BY <1>2, <2>2, <3>1 DEF Job, GoTo
    <3>3. QED
      BY <3>2
  <2>3. QED
    BY <1>1, <2>1, <2>2
<1>4. job'[t] = j /\ \A u \in Threads \ {t} : job'[u] = job[u]
  BY <1>3, JobUpdated
<1>5. Unchosen(job'[t]) /\ \A c \in Channels : Owed(job'[t], c) = 0
  BY <1>3, <1>4 DEF Unchosen, Owed
<1>6. QED
  BY <1>1, <1>4, <1>5, PlaceStep

LEMMA ContinuePlaced ==
  ASSUME TypeOK, TypeOK', PlacedInv, NEW t \in Threads, Continue(t)
  PROVE  PlacedInv'
<1>1. CASE Check(t)
  <2>1. job[t] # NoJob /\ job[t].pc = "check" /\ UNCHANGED <<used, placed>>
    BY <1>1 DEF Check, At, tables
  <2>2. Finish(t) \/ GoTo(t, "select")
    BY <1>1 DEF Check
  <2>3. QED
    BY <2>1, <2>2, QuietPlaced
<1>2. CASE Turn(t) \/ StoreTurn(t) \/ InsertFails(t) \/ CloseWrite(t)
  <2>1. job[t] # NoJob /\ UNCHANGED <<used, placed>>
    BY <1>2 DEF Turn, StoreTurn, InsertFails, CloseWrite, At, tables, Else
  <2>2. \/ Finish(t) \/ GoTo(t, "charge")
        \/ \E c : job' = [job EXCEPT ![t].channel = c, ![t].pc = "store"]
    BY <1>2 DEF Turn, StoreTurn, InsertFails, CloseWrite
  <2>3. QED
    BY <2>1, <2>2, QuietPlaced
<1>3. QED
  BY <1>1, <1>2, SelectPlaced, ChargePlaced, InsertPlaced, AskPlaced DEF Continue

LEMMA SameJobsPlaced ==
  ASSUME PlacedInv, UNCHANGED <<job, used, placed>>
  PROVE  PlacedInv'
<1>1. \A c \in Channels : Due(c)' = Due(c)
  BY DEF Due, Owed
<1>2. QED
  BY <1>1 DEF PlacedInv, Unchosen

\* What is asked for after a reset on the account of a charge before it is not counted.
LEMMA ResetPlaced ==
  ASSUME TypeOK, TypeOK', PlacedInv, ResetQuota
  PROVE  PlacedInv'
<1>1. /\ used' = [c \in Channels |-> IF Limit[c] > 0 THEN 0 ELSE used[c]]
      /\ placed' = [c \in Channels |-> IF Limit[c] > 0 THEN 0 ELSE placed[c]]
      /\ \A t \in Threads : job'[t] =
           IF job[t] # NoJob /\ job[t].pc \in {"insert", "ask"} THEN [job[t] EXCEPT !.old = TRUE]
           ELSE IF Choosing(job[t]) THEN [job[t] EXCEPT !.late = {}] ELSE job[t]
  BY DEF ResetQuota
<1>2. ASSUME NEW t \in Threads
      PROVE  Unchosen(job'[t]) /\ \A c \in Channels : Owed(job'[t], c) = 0
  <2>1. CASE job[t] # NoJob /\ job[t].pc \in {"insert", "ask"}
    <3>1. PICK j : j = [job[t] EXCEPT !.old = TRUE]
      OBVIOUS
    <3>2. j.old /\ j.pc = job[t].pc
      BY <2>1, <3>1, JobParts DEF Job
    <3>3. job'[t] = j
      BY <1>1, <2>1, <3>1
    <3>4. QED
      BY <2>1, <3>2, <3>3 DEF Unchosen, Owed
  <2>2. CASE Choosing(job[t])
    <3>1. PICK j : j = [job[t] EXCEPT !.late = {}]
      OBVIOUS
    <3>2. job[t] # NoJob /\ job[t].pc \in {"turn", "store", "charge"}
      BY <2>2 DEF Choosing
    <3>3. j.pc = job[t].pc
      BY <3>1, <3>2, JobParts DEF Job
    <3>4. job'[t] = j
      BY <1>1, <2>2, <3>1, <3>2
    <3>5. QED
      BY <3>2, <3>3, <3>4 DEF Unchosen, Owed
  <2>3. CASE ~(job[t] # NoJob /\ job[t].pc \in {"insert", "ask"}) /\ ~Choosing(job[t])
    <3>1. job'[t] = job[t]
      BY <1>1, <2>3
    <3>2. QED
      BY <2>3, <3>1 DEF PlacedInv, Owed
  <2>4. QED
    BY <2>1, <2>2, <2>3
<1>3. \A t \in Threads : Unchosen(job[t])'
  BY <1>2 DEF Unchosen
<1>4. ASSUME NEW c \in Channels PROVE (placed[c] + Due(c) <= used[c])'
  <2>1. Due(c)' = 0
    BY <1>2, NothingDue
  <2>2. Due(c) \in Nat /\ placed[c] \in Nat /\ used[c] \in Nat /\ placed[c] + Due(c) <= used[c]
    BY DueParts DEF PlacedInv
  <2>3. placed'[c] <= used'[c] /\ placed'[c] \in Nat /\ used'[c] \in Nat
    BY <1>1, <2>2
  <2>4. placed'[c] + Due(c)' <= used'[c]
    BY <2>1, <2>3
  <2>5. QED
    BY <2>4
<1>5. QED
  BY <1>3, <1>4 DEF PlacedInv

LEMMA CrashPlaced ==
  ASSUME TypeOK, TypeOK', PlacedInv, Crash
  PROVE  PlacedInv'
<1>1. (\A t \in Threads : job'[t] = NoJob) /\ UNCHANGED <<used, placed>>
  BY DEF Crash, tables
<1>2. \A t \in Threads : Unchosen(job[t])'
  BY <1>1 DEF Unchosen
<1>3. ASSUME NEW c \in Channels PROVE (placed[c] + Due(c) <= used[c])'
  <2>1. \A t \in Threads : Owed(job'[t], c) = 0
    BY <1>1 DEF Owed
  <2>2. Due(c)' = 0
    BY <2>1, NothingDue
  <2>3. Due(c) \in Nat /\ placed[c] \in Nat /\ used[c] \in Nat /\ placed[c] + Due(c) <= used[c]
    BY DueParts DEF PlacedInv
  <2>4. placed'[c] = placed[c] /\ used'[c] = used[c]
    BY <1>1
  <2>5. placed'[c] + Due(c)' <= used'[c]
    BY <2>2, <2>3, <2>4
  <2>6. QED
    BY <2>5
<1>4. QED
  BY <1>2, <1>3 DEF PlacedInv

LEMMA InitPlaced ==
  ASSUME Init
  PROVE  PlacedInv
<1>1. TypeOK
  BY InitInv DEF GatewayInv
<1>2. \A t \in Threads : job[t] = NoJob
  BY DEF Init
<1>3. \A c \in Channels : Due(c) = 0 /\ placed[c] = 0 /\ used[c] = 0
  <2>1. \A t \in Threads, c \in Channels : Owed(job[t], c) = 0
    BY <1>2 DEF Owed
  <2>2. QED
    BY <1>1, <2>1, DueParts DEF Init
<1>4. QED
  BY <1>2, <1>3 DEF PlacedInv, Unchosen

LEMMA AlwaysPlacedInv == Spec => []PlacedInv
<1>1. ASSUME TypeOK, TypeOK', PlacedInv, [Next]_vars PROVE PlacedInv'
  <2>1. CASE UNCHANGED vars \/ \E o \in Orders : Change(o)
    <3>1. UNCHANGED <<job, used, placed>>
      BY <2>1 DEF vars, tables, Change, Expire, ChannelNotify, MarkPaid, SyncUnpaid, Else
    <3>2. QED
      BY <1>1, <3>1, SameJobsPlaced
  <2>2. CASE \E t \in Threads : Arrive(t) \/ Continue(t)
    BY <1>1, <2>2, ArrivePlaced, ContinuePlaced
  <2>3. QED
    BY <1>1, <2>1, <2>2, ResetPlaced, CrashPlaced DEF Next, AllServed
<1>2. GatewayInv => TypeOK
  BY DEF GatewayInv
<1>3. QED
  BY <1>1, <1>2, AlwaysInv, InitPlaced, PTL DEF Spec

-----------------------------------------------------------------------------
(* Theorems *)

\* Rows, quotas and handlers keep their types; a quota is never negative.
THEOREM GatewayTypes == Spec => []TypeOK
<1>1. GatewayInv => TypeOK
  BY DEF GatewayInv
<1>2. QED
  BY <1>1, AlwaysInv, PTL

\* The check for a repeated number is enough for every merchant who does not send a
\* number again while the first request with it is between check and INSERT.
THEOREM NumberUnique == Spec => []NumberIsUnique
<1>1. GatewayInv => NumberIsUnique
  BY DEF GatewayInv
<1>2. QED
  BY <1>1, AlwaysInv, PTL

\* A channel's daily quota holds for every number of handlers that do not select it
\* at once, through resets, restarts and orders that fail.
THEOREM QuotaHolds == Spec => []UsedWithinLimit
<1>1. GatewayInv => UsedWithinLimit
  BY DEF GatewayInv
<1>2. QED
  BY <1>1, AlwaysInv, PTL

\* What a channel is asked for from one reset to the next stays within its limit, for
\* any number of channels, handlers, resets, restarts and failed orders, as long as no
\* two handlers selected it at once: nothing is asked of a channel that was not charged.
THEOREM PlacedHolds == Spec => []PlacedWithinLimit
<1>1. GatewayInv /\ PlacedInv => PlacedWithinLimit
  <2> SUFFICES ASSUME GatewayInv, PlacedInv, NEW c \in Channels, Limit[c] > 0, c \notin raced
               PROVE  placed[c] <= Limit[c]
    BY DEF PlacedWithinLimit
  <2>1. TypeOK /\ used[c] <= Limit[c] /\ placed[c] + Due(c) <= used[c]
    BY DEF GatewayInv, UsedWithinLimit, PlacedInv
  <2>2. Due(c) \in Nat /\ placed[c] \in Nat /\ used[c] \in Nat
    BY <2>1, DueParts
  <2>3. QED
    BY <2>1, <2>2, Facts
<1>2. QED
  BY <1>1, AlwaysInv, AlwaysPlacedInv, PTL

\* A paid order is ended only by a handler that has not looked since before it was
\* paid: nothing else overwrites the state, but syncStatus that makes it unpaid.
THEOREM PaidForGood == Spec => PaidIsKept
<1>1. ASSUME GatewayInv, [Next]_vars, NEW o \in Orders, state[o] = "paid", state'[o] \notin {"paid", "unpaid"}
      PROVE  \E t \in Threads : Outdated(t, o)
  <2>1. state \in [Orders -> States] /\ state'[o] # state[o]
    BY <1>1 DEF GatewayInv, TypeOK
  <2>2. CASE \E p \in Orders : Change(p)
    BY <1>1, <2>1, <2>2 DEF Change, Expire, ChannelNotify, MarkPaid, SyncUnpaid, Set
  <2>3. CASE \E t \in Threads : Insert(t)
    BY <1>1, <2>1, <2>3 DEF Insert
  <2>4. CASE \E t \in Threads : CloseWrite(t)
    <3>1. PICK t \in Threads : CloseWrite(t)
      BY <2>4
    <3>2. job[t].order = o
      BY <2>1, <3>1 DEF CloseWrite, Set
    <3>3. job[t] # NoJob /\ At(t, Kinds, "write")
      BY <3>1 DEF CloseWrite, At
    <3>4. QED
      BY <1>1, <3>2, <3>3 DEF Outdated, GatewayInv, Plain
  <2>5. ASSUME NEW t \in Threads, Arrive(t) PROVE state' = state
    BY <2>5 DEF Arrive, CreateOrder, CreateEpayOrder, CreateNewApi, CreatePluginPayOrder, CreateDirect, CreatePhp,
            AskPreference, Close, CloseApi, Begin, tables
  <2>6. ASSUME NEW t \in Threads, Continue(t), ~Insert(t), ~CloseWrite(t) PROVE state' = state
    BY <2>6 DEF Continue, Check, Select, Turn, StoreTurn, Charge, InsertFails, Placed, NotPlaced, tables
  <2>7. ResetQuota \/ Crash \/ UNCHANGED vars => state' = state
    BY DEF ResetQuota, Crash, vars, tables
  <2>8. QED
    BY <1>1, <2>1, <2>2, <2>3, <2>4, <2>5, <2>6, <2>7 DEF Next, AllServed
<1>2. GatewayInv /\ [Next]_vars =>
        [\A o \in Orders : state[o] = "paid" /\ state'[o] \notin {"paid", "unpaid"} =>
           \E t \in Threads : Outdated(t, o)]_vars
  BY <1>1
<1>3. QED
  BY <1>2, AlwaysInv, PTL DEF Spec, PaidIsKept
=============================================================================
