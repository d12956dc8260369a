---------------------------- MODULE GatewayOrder ----------------------------
(***************************************************************************)
(* How an order of a merchant gets its number, its channel and its state:  *)
(*                                                                         *)
(*   common/ChannelService.h        selectChannel and the daily quota      *)
(*   common/CronService.h           resetChannelDayQuota, closeExpiredOrders *)
(*   gateway/GatewayCtrl.h          create, createPhp, createEpayOrder, close, *)
(*                                  syncStatus, manualNotify, cashierState *)
(*   gateway/SimpleOrderCtrl.h, StandardPayCtrl.h, SecureGatewayCtrl.h     *)
(*   merchant/MerchantSourceCompatCtrl.h  createPluginPayOrder             *)
(*   channel/v3/OrderService.cpp    resolveQrPreference                    *)
(*                                                                         *)
(* A handler is split at each statement and at the call of the channel.    *)
(* One merchant, one pay_type.  What a payment brings the merchant is the  *)
(* subject of MchLedger.                                                   *)
(***************************************************************************)
EXTENDS Integers, FiniteSets

CONSTANTS
  Orders,      \* order numbers generateOrderId returns
  Numbers,     \* the merchant's own order numbers
  Amounts,     \* order amounts
  Probe,       \* the amount resolveQrPreference asks for (0.01)
  Channels,    \* pay_channel.id, in sort order
  Limit,       \* day_limit of each channel, 0: none
  Takes,       \* amounts from min_amount to max_amount of each channel
  Modes,       \* select_modes the administrator gives each channel in turn
  Threads,     \* request handler threads
  MaxRequests, \* bound: requests that arrive
  MaxResets,   \* bound: daily resets
  MaxCrashes,  \* bound: restarts of the process
  NoChannel, NoOrder, NoNumber, NoJob

ASSUME GatewayAssumption ==
  /\ Amounts \subseteq Nat \ {0} /\ Probe \in Nat \ {0}
  /\ Channels \subseteq Nat /\ IsFiniteSet(Channels) /\ IsFiniteSet(Threads)
  /\ Limit \in [Channels -> Nat]
  /\ Takes \in [Channels -> SUBSET (Amounts \cup {Probe})]
  /\ Modes \in [Channels -> SUBSET {"first", "random", "roundRobin"}]
  /\ MaxRequests \in Nat /\ MaxResets \in Nat /\ MaxCrashes \in Nat
  /\ NoChannel \notin Channels /\ NoOrder \notin Orders /\ NoNumber \notin Numbers

VARIABLES
  state,    \* pay_order.state, "none" before the INSERT
  number,   \* pay_order.mch_order_no
  booked,   \* pay_order.channel_id
  used,     \* pay_channel.day_amount
  turn,     \* setting rr_channel_<mch>_<pay_type>
  job,      \* what each thread is doing
  placed,   \* history: amounts the channel was asked for, of those counted since the reset
  raced,    \* history: channels whose quota two handlers used at once, since the reset
  twins,    \* history: numbers two handlers looked for at once, or createPhp took twice
  requests, resets, crashes

tables == <<state, number, booked, used, turn>>
bounds == <<requests, resets, crashes>>
vars == <<tables, job, placed, raced, twins, bounds>>

\* The handlers that create.  "direct" and "php" have no channel.
Creators == {"gateway", "epay", "source", "lost", "direct", "php"}
Kinds == Creators \cup {"probe", "close", "closeApi"}
States == {"none", "unpaid", "paid", "closed", "ended"}

\* late: channels charged by others since this handler read them; old: what it
\* charged was before the reset; paid: it has read that the order is paid.
Job == [kind : Kinds, pc : {"check", "select", "turn", "store", "charge", "insert", "ask", "write"},
        number : Numbers \cup {NoNumber}, amount : Amounts \cup {Probe}, order : Orders \cup {NoOrder},
        open : SUBSET Channels, channel : Channels \cup {NoChannel},
        late : SUBSET Channels, old : BOOLEAN, paid : BOOLEAN]

ASSUME GatewayNullAssumption == NoJob \notin Job

Init ==
  /\ state = [o \in Orders |-> "none"]
  /\ number = [o \in Orders |-> NoNumber]
  /\ booked = [o \in Orders |-> NoChannel]
  /\ used = [c \in Channels |-> 0]
  /\ turn = 0
  /\ job = [t \in Threads |-> NoJob]
  /\ placed = [c \in Channels |-> 0]
  /\ raced = {} /\ twins = {}
  /\ requests = 0 /\ resets = 0 /\ crashes = 0

-----------------------------------------------------------------------------
(* Thread bookkeeping *)

Begin(t, kind, n, a, o, pc) ==
  /\ requests < MaxRequests
  /\ requests' = requests + 1
  /\ job[t] = NoJob
  /\ job' = [job EXCEPT ![t] =
       [kind |-> kind, pc |-> pc, number |-> n, amount |-> a, order |-> o, open |-> {},
        channel |-> NoChannel, late |-> {}, old |-> FALSE,
        paid |-> o # NoOrder /\ state[o] = "paid"]]
  /\ UNCHANGED <<tables, placed, raced, resets, crashes>>

At(t, kinds, pc) == job[t] # NoJob /\ job[t].kind \in kinds /\ job[t].pc = pc
GoTo(t, pc) == job' = [job EXCEPT ![t].pc = pc]
Finish(t) == job' = [job EXCEPT ![t] = NoJob]

\* Two looking for one number: passed the check, and not inserted yet
Claims(t, n) ==
  job[t] # NoJob /\ job[t].number = n /\ job[t].pc # "check" /\ job[t].order = NoOrder

-----------------------------------------------------------------------------
(* Requests *)

CreateOrder(t, n, a) == Begin(t, "gateway", n, a, NoOrder, "check")

CreateEpayOrder(t, n, a) == Begin(t, "epay", n, a, NoOrder, "check")

\* The three newer APIs: their INSERT names columns that pay_order lacks.
CreateNewApi(t, n, a) == Begin(t, "lost", n, a, NoOrder, "check")

\* mch_order_no is a number of the program's own making.
CreatePluginPayOrder(t, a) == Begin(t, "source", NoNumber, a, NoOrder, "select")

\* create and createPhp for pay_type alipay_*: the merchant is a virtual one.
CreateDirect(t, a) == Begin(t, "direct", NoNumber, a, NoOrder, "insert")

\* createPhp for any other pay_type takes the number without looking for it.
CreatePhp(t, n, a) ==
  /\ Begin(t, "php", n, a, NoOrder, "insert")
  /\ twins' = IF (\E o \in Orders : number[o] = n) \/ \E u \in Threads : Claims(u, n)
                THEN twins \cup {n} ELSE twins

\* resolveQrPreference only wants to know which channel it would be.
AskPreference(t) == Begin(t, "probe", NoNumber, Probe, NoOrder, "select")

Close(t, o) == state[o] = "unpaid" /\ Begin(t, "close", NoNumber, Probe, o, "write")

\* In the newer APIs: only a paid order, and one closed by them, is left alone.
CloseApi(t, o) ==
  /\ state[o] \notin {"none", "paid", "ended"}
  /\ Begin(t, "closeApi", NoNumber, Probe, o, "write")

\* (faulty variant: rows that are closed do not count)
CheckOpen(t) ==
  /\ At(t, Creators, "check")
  /\ LET n == job[t].number
     IN  IF \E o \in Orders : number[o] = n /\ state[o] # "closed"
           THEN Finish(t) /\ UNCHANGED twins
           ELSE /\ GoTo(t, "select")
                /\ twins' = IF \E u \in Threads \ {t} : Claims(u, n) THEN twins \cup {n} ELSE twins
  /\ UNCHANGED <<tables, placed, raced, bounds>>

\* SELECT ... WHERE mch_id=? AND mch_order_no=?
Check(t) ==
  /\ At(t, Creators, "check")
  /\ LET n == job[t].number
     IN  IF \E o \in Orders : number[o] = n
           THEN Finish(t) /\ UNCHANGED twins
           ELSE /\ GoTo(t, "select")
                /\ twins' = IF \E u \in Threads \ {t} : Claims(u, n) THEN twins \cup {n} ELSE twins
  /\ UNCHANGED <<tables, placed, raced, bounds>>

-----------------------------------------------------------------------------
(* selectChannel *)

\* (faulty variant: the amount asked for is not added)
AvailableBefore(a) == {c \in Channels : a \in Takes[c] /\ (Limit[c] > 0 => used[c] <= Limit[c])}

Available(a) == {c \in Channels : a \in Takes[c] /\ (Limit[c] > 0 => used[c] + a <= Limit[c])}

First(c, S) == c \in S /\ \A d \in S : c <= d
Position(c, S) == Cardinality({d \in S : d < c})

\* Nothing to select: epay books the order with channel 0, create's second call goes
\* on without a plug-in, the others give up.
NoneAvailable(j) == IF j.kind = "epay" THEN [j EXCEPT !.pc = "insert"] ELSE NoJob

\* SELECT ... ORDER BY sort_order, and the mode of the first that is available
Select(t) ==
  /\ At(t, Kinds, "select")
  /\ LET j == [job[t] EXCEPT !.open = Available(job[t].amount), !.late = {}]
     IN  \/ j.open = {} /\ job' = [job EXCEPT ![t] = NoneAvailable(j)]
         \/ \E f \in j.open, mode \in {"first", "random", "roundRobin"} :
              /\ First(f, j.open) /\ mode \in Modes[f]
              /\ IF mode = "roundRobin" /\ Cardinality(j.open) > 1
                   THEN job' = [job EXCEPT ![t] = [j EXCEPT !.pc = "turn"]]
                   ELSE \E c \in IF mode = "random" THEN j.open ELSE {f} :
                          job' = [job EXCEPT ![t] = [j EXCEPT !.channel = c, !.pc = "charge"]]
  /\ UNCHANGED <<tables, placed, raced, twins, bounds>>

\* getSetting
Turn(t) ==
  /\ At(t, Kinds, "turn")
  /\ \E c \in job[t].open :
       /\ Position(c, job[t].open) = turn % Cardinality(job[t].open)
       /\ job' = [job EXCEPT ![t].channel = c, ![t].pc = "store"]
  /\ UNCHANGED <<tables, placed, raced, twins, bounds>>

\* setSetting
StoreTurn(t) ==
  /\ At(t, Kinds, "store")
  /\ turn' = (Position(job[t].channel, job[t].open) + 1) % Cardinality(job[t].open)
  /\ GoTo(t, "charge")
  /\ UNCHANGED <<state, number, booked, used, placed, raced, twins, bounds>>

\* What comes after selectChannel: create calls it a second time after the INSERT.
AfterSelect(j) ==
  IF j.kind \in {"lost", "probe"} THEN NoJob
  ELSE [j EXCEPT !.pc = IF j.order = NoOrder THEN "insert" ELSE "ask", !.open = {}, !.late = {}]

Choosing(j) == j # NoJob /\ j.pc \in {"turn", "store", "charge"}

\* (faulty variant: the second call does not charge)
ChargeOnce(t) ==
  /\ At(t, Kinds, "charge")
  /\ LET c == job[t].channel
     IN  /\ used' = IF job[t].order = NoOrder THEN [used EXCEPT ![c] = @ + job[t].amount] ELSE used
         /\ raced' = IF c \in job[t].late THEN raced \cup {c} ELSE raced
         /\ job' = [u \in Threads |->
              IF u = t THEN AfterSelect(job[t])
              ELSE IF Choosing(job[u]) THEN [job[u] EXCEPT !.late = @ \cup {c}] ELSE job[u]]
  /\ UNCHANGED <<state, number, booked, turn, placed, twins, bounds>>

\* UPDATE pay_channel SET day_amount=day_amount+?
Charge(t) ==
  /\ At(t, Kinds, "charge")
  /\ LET c == job[t].channel
     IN  /\ used' = [used EXCEPT ![c] = @ + job[t].amount]
         /\ raced' = IF c \in job[t].late THEN raced \cup {c} ELSE raced
         /\ job' = [u \in Threads |->
              IF u = t THEN AfterSelect(job[t])
              ELSE IF Choosing(job[u]) THEN [job[u] EXCEPT !.late = @ \cup {c}] ELSE job[u]]
  /\ UNCHANGED <<state, number, booked, turn, placed, twins, bounds>>

-----------------------------------------------------------------------------
(* The order and the channel's plug-in *)

Place(j) ==
  placed' = IF j.channel = NoChannel \/ j.old THEN placed
            ELSE [placed EXCEPT ![j.channel] = @ + j.amount]

AfterInsert(j, o) ==
  IF j.kind = "epay" THEN NoJob
  ELSE IF j.kind = "gateway" THEN [j EXCEPT !.order = o, !.pc = "select", !.channel = NoChannel, !.old = FALSE]
  ELSE [j EXCEPT !.order = o, !.pc = "ask"]

\* INSERT INTO pay_order.  An epay order is not placed by a plug-in: it is asked of
\* the channel by being shown to the payer.
Insert(t) ==
  /\ At(t, Creators, "insert")
  /\ \E o \in Orders :
       /\ state[o] = "none"
       /\ state' = [state EXCEPT ![o] = "unpaid"]
       /\ number' = [number EXCEPT ![o] = job[t].number]
       /\ booked' = [booked EXCEPT ![o] = job[t].channel]
       /\ job' = [job EXCEPT ![t] = AfterInsert(job[t], o)]
  /\ IF job[t].kind = "epay" THEN Place(job[t]) ELSE UNCHANGED placed
  /\ UNCHANGED <<used, turn, raced, twins, bounds>>

\* The INSERT fails: the quota stays charged.
InsertFails(t) ==
  /\ At(t, Creators, "insert")
  /\ Finish(t)
  /\ UNCHANGED <<tables, placed, raced, twins, bounds>>

\* plugin->createOrder succeeded, or there is no such plug-in
Placed(t) ==
  /\ At(t, Creators, "ask")
  /\ Place(job[t])
  /\ Finish(t)
  /\ UNCHANGED <<tables, raced, twins, bounds>>

\* It failed, or its answer was lost after the channel took the order: create closes
\* the order whatever has become of it, createPluginPayOrder leaves it.
NotPlaced(t) ==
  /\ At(t, Creators, "ask")
  /\ \E taken \in BOOLEAN : IF taken THEN Place(job[t]) ELSE UNCHANGED placed
  /\ IF job[t].kind = "source" THEN Finish(t) ELSE GoTo(t, "write")
  /\ UNCHANGED <<tables, raced, twins, bounds>>

-----------------------------------------------------------------------------
(* The state of an order *)

Set(o, s) == state[o] # "none" /\ state' = [state EXCEPT ![o] = s]
Else == <<number, booked, used, turn, placed, raced, twins, resets, crashes>>
Count == requests < MaxRequests /\ requests' = requests + 1

\* UPDATE pay_order SET state=?: no condition on the state
CloseWrite(t) ==
  /\ At(t, Kinds, "write")
  /\ Set(job[t].order, IF job[t].kind = "closeApi" THEN "ended" ELSE "closed")
  /\ Finish(t)
  /\ UNCHANGED <<Else, requests>>

\* (faulty variant: the UPDATE does not ask for the state)
ExpireAny(o) == Set(o, "closed") /\ UNCHANGED <<job, Else, requests>>

\* closeExpiredOrders: the UPDATE repeats the condition state=0
Expire(o) == state[o] = "unpaid" /\ Set(o, "closed") /\ UNCHANGED <<job, Else, requests>>

\* The channel's notification: so does this one
ChannelNotify(o) == state[o] = "unpaid" /\ Set(o, "paid") /\ UNCHANGED <<job, Else, requests>>

\* syncStatus with status 1, manualNotify, cashierState: in whatever state
MarkPaid(o) == Count /\ Set(o, "paid") /\ UNCHANGED <<job, Else>>

\* syncStatus with another status: the order is unpaid, whatever it was
SyncUnpaid(o) == Count /\ Set(o, "unpaid") /\ UNCHANGED <<job, Else>>

-----------------------------------------------------------------------------
\* (faulty variant: a day's allowance is given back)
ResetByLimit ==
  /\ resets < MaxResets
  /\ resets' = resets + 1
  /\ used' = [c \in Channels |-> used[c] - Limit[c]]
  /\ placed' = [c \in Channels |-> IF Limit[c] > 0 THEN 0 ELSE placed[c]]
  /\ raced' = {}
  /\ job' = [t \in Threads |->
       IF job[t] # NoJob /\ job[t].pc \in {"insert", "ask"} THEN [job[t] EXCEPT !.old = TRUE]
       ELSE IF Choosing(job[t]) THEN [job[t] EXCEPT !.late = {}] ELSE job[t]]
  /\ UNCHANGED <<state, number, booked, turn, twins, requests, crashes>>

\* resetChannelDayQuota.  A day begins on a channel that has a limit.
ResetQuota ==
  /\ resets < MaxResets
  /\ resets' = resets + 1
  /\ used' = [c \in Channels |-> IF Limit[c] > 0 THEN 0 ELSE used[c]]
  /\ placed' = [c \in Channels |-> IF Limit[c] > 0 THEN 0 ELSE placed[c]]
  /\ raced' = {}
  /\ job' = [t \in Threads |->
       IF job[t] # NoJob /\ job[t].pc \in {"insert", "ask"} THEN [job[t] EXCEPT !.old = TRUE]
       ELSE IF Choosing(job[t]) THEN [job[t] EXCEPT !.late = {}] ELSE job[t]]
  /\ UNCHANGED <<state, number, booked, turn, twins, requests, crashes>>

\* A restart: the tables stay, the handlers are gone.
Crash ==
  /\ crashes < MaxCrashes
  /\ crashes' = crashes + 1
  /\ job' = [t \in Threads |-> NoJob]
  /\ UNCHANGED <<tables, placed, raced, twins, requests, resets>>

Arrive(t) ==
  \/ /\ \/ \E n \in Numbers, a \in Amounts :
             CreateOrder(t, n, a) \/ CreateEpayOrder(t, n, a) \/ CreateNewApi(t, n, a)
        \/ \E a \in Amounts : CreatePluginPayOrder(t, a) \/ CreateDirect(t, a)
        \/ AskPreference(t)
        \/ \E o \in Orders : Close(t, o) \/ CloseApi(t, o)
     /\ UNCHANGED twins
  \/ \E n \in Numbers, a \in Amounts : CreatePhp(t, n, a)

Continue(t) ==
  \/ Check(t) \/ Select(t) \/ Turn(t) \/ StoreTurn(t) \/ Charge(t)
  \/ Insert(t) \/ InsertFails(t) \/ Placed(t) \/ NotPlaced(t) \/ CloseWrite(t)

Change(o) == Expire(o) \/ ChannelNotify(o) \/ MarkPaid(o) \/ SyncUnpaid(o)

\* Every handler has ended, and no request need come.
AllServed ==
  /\ \A t \in Threads : job[t] = NoJob
  /\ UNCHANGED vars

Next ==
  \/ \E t \in Threads : Arrive(t) \/ Continue(t)
  \/ \E o \in Orders : Change(o)
  \/ ResetQuota
  \/ Crash
  \/ AllServed

Spec == Init /\ [][Next]_vars

-----------------------------------------------------------------------------
(* Properties *)

TypeOK ==
  /\ state \in [Orders -> States]
  /\ number \in [Orders -> Numbers \cup {NoNumber}]
  /\ booked \in [Orders -> Channels \cup {NoChannel}]
  /\ used \in [Channels -> Nat]
  /\ turn \in Nat
  /\ job \in [Threads -> Job \cup {NoJob}]
  /\ placed \in [Channels -> Nat]
  /\ raced \subseteq Channels /\ twins \subseteq Numbers
  /\ requests \in Nat /\ resets \in Nat /\ crashes \in Nat

\* A merchant's order number names one order, unless two handlers looked for it at
\* once or createPhp, which does not look, took one that was taken: nothing but the
\* check keeps mch_order_no unique.
NumberIsUnique == \A o, p \in Orders :
  number[o] = number[p] /\ number[o] \notin twins \cup {NoNumber} => o = p

\* day_amount stays within day_limit from one reset to the next, through restarts
\* and failed orders, unless two handlers selected the channel at once.
UsedWithinLimit == \A c \in Channels :
  Limit[c] > 0 /\ c \notin raced => used[c] <= Limit[c]

\* What the channel is asked for from one reset to the next stays within day_limit
\* too: no order reaches a channel whose quota it is not counted against.
PlacedWithinLimit == \A c \in Channels :
  Limit[c] > 0 /\ c \notin raced => placed[c] <= Limit[c]

\* A paid order stays paid, unless syncStatus takes it back or a handler ends it that
\* has not looked since before it was paid.
Outdated(t, o) == At(t, Kinds, "write") /\ job[t].order = o /\ ~job[t].paid
PaidIsKept ==
  [][\A o \in Orders :
       state[o] = "paid" /\ state'[o] \notin {"paid", "unpaid"} => \E t \in Threads : Outdated(t, o)]_vars
=============================================================================
