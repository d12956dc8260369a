-------------------------- MODULE AmountLockProofs --------------------------
(***************************************************************************)
(* Proofs about AmountLock, for every number of orders, threads, amounts   *)
(* and restarts: LockInv is inductive, no two unpaid orders show the same  *)
(* amount, with fixed amounts no payment reaches the wrong order, and      *)
(* until the first restart no lock is forgotten.                           *)
(***************************************************************************)
EXTENDS AmountLock, TLAPS

\* Whatever shift createOrder tries, the amount it locks is positive.
LEMMA CandidatePositive ==
  ASSUME NEW cents \in Cents, NEW i \in Nat
  PROVE  Candidate(cents, i) \in Cents
<1> DEFINE j == i - 1
           shift == (IF j % 2 = 0 THEN 1 ELSE -1) * (j \div 2 + 1)
<1>1. CASE i = 0
  BY <1>1 DEF Candidate
<1>2. CASE i # 0
  <2>1. j \in Nat /\ j \div 2 \in Nat
    BY <1>2
  <2>2. shift \in Int
    BY <2>1
  <2>3. Candidate(cents, i) = IF cents + shift <= 0 THEN cents + j + 1 ELSE cents + shift
    BY <1>2 DEF Candidate
  <2> HIDE DEF j, shift
  <2>4. QED
    BY <2>1, <2>2, <2>3 DEF Cents
<1>3. QED
  BY <1>1, <1>2

\* The empty tables and idle threads of the start satisfy the invariant.
LEMMA InitLockInv == Init => LockInv
BY AmountLockAssumption DEF Init, LockInv, TypeOK, LocksByPrice, CreatorsAlone, InsertsHoldLock,
   PlacersApart, PlacesHoldLock,
   ReleasesAfterMark, UnpaidHoldsLock, Creating, Placing, Unpaid, States, Kinds, Steps, AllThreads

-----------------------------------------------------------------------------
(* LockInv is inductive: one lemma for each action. *)

\* CronClose keeps the invariant.
LEMMA CronCloseStep ==
  ASSUME LockInv, CronClose
  PROVE  LockInv'
<1> USE DEF LockInv, CronClose
<1>1. TypeOK'
    BY DEF TypeOK, Steps, Kinds, Begin, Expired, Unpaid, AllThreads
<1>2. LocksByPrice'
    BY DEF LocksByPrice
<1>3. CreatorsAlone'
    BY AmountLockAssumption DEF CreatorsAlone, Creating, Placing, TypeOK, Begin, Expired, Unpaid,
     AllThreads
<1>4. InsertsHoldLock'
    BY DEF InsertsHoldLock, HoldsLock, MyPrice, TypeOK, Begin, Expired, Unpaid
<1>5. ReleasesAfterMark'
    BY DEF ReleasesAfterMark, TypeOK, Begin, Expired, Unpaid
<1>6. UnpaidHoldsLock'
    BY DEF UnpaidHoldsLock, Unpaid
<1>7. PlacersApart'
    BY AmountLockAssumption DEF PlacersApart, Placing, TypeOK, Begin, Expired, Unpaid,
     AllThreads, CreatorsAlone, Creating, ReleasesAfterMark
<1>8. PlacesHoldLock'
    BY AmountLockAssumption DEF PlacesHoldLock, PlacersApart, Placing, HoldsFloat,
     MyFloat, Unpaid, TypeOK, Begin, Expired, AllThreads, CreatorsAlone, Creating,
     ReleasesAfterMark
<1>9. QED
  BY <1>1, <1>2, <1>3, <1>4, <1>5, <1>6, <1>7, <1>8

\* CloseExpired(t) keeps the invariant.
LEMMA CloseExpiredStep ==
  ASSUME LockInv, NEW t \in Threads, CloseExpired(t)
  PROVE  LockInv'
<1> USE DEF LockInv, CloseExpired
<1>1. TypeOK'
    BY DEF TypeOK, Steps, Kinds, Begin, Expired, Unpaid, AllThreads
<1>2. LocksByPrice'
    BY DEF LocksByPrice
<1>3. CreatorsAlone'
    BY AmountLockAssumption DEF CreatorsAlone, Creating, Placing, TypeOK, Begin, Expired, Unpaid,
     AllThreads
<1>4. InsertsHoldLock'
    BY DEF InsertsHoldLock, HoldsLock, MyPrice, TypeOK, Begin, Expired, Unpaid
<1>5. ReleasesAfterMark'
    BY DEF ReleasesAfterMark, TypeOK, Begin, Expired, Unpaid
<1>6. UnpaidHoldsLock'
    BY DEF UnpaidHoldsLock, Unpaid
<1>7. PlacersApart'
    BY AmountLockAssumption DEF PlacersApart, Placing, TypeOK, Begin, Expired, Unpaid,
     AllThreads, CreatorsAlone, Creating, ReleasesAfterMark
<1>8. PlacesHoldLock'
    BY AmountLockAssumption DEF PlacesHoldLock, PlacersApart, Placing, HoldsFloat,
     MyFloat, Unpaid, TypeOK, Begin, Expired, AllThreads, CreatorsAlone, Creating,
     ReleasesAfterMark
<1>9. QED
  BY <1>1, <1>2, <1>3, <1>4, <1>5, <1>6, <1>7, <1>8

\* CronSweep keeps the invariant.
LEMMA CronSweepStep ==
  ASSUME LockInv, CronSweep
  PROVE  LockInv'
<1> USE DEF LockInv, CronSweep
<1>1. TypeOK'
    BY DEF TypeOK, Steps, Kinds, States, At, SetStateIfUnpaid, Unpaid, AllThreads
<1>2. LocksByPrice'
    BY DEF LocksByPrice
<1>3. CreatorsAlone'
    BY AmountLockAssumption DEF CreatorsAlone, Creating, Placing, ReleasesAfterMark, TypeOK, At,
     SetStateIfUnpaid, Unpaid, AllThreads
<1>4. InsertsHoldLock'
    BY DEF InsertsHoldLock, HoldsLock, MyPrice, TypeOK, At, SetStateIfUnpaid, Unpaid
<1>5. ReleasesAfterMark'
    BY DEF ReleasesAfterMark, TypeOK, At, SetStateIfUnpaid, Unpaid
<1>6. UnpaidHoldsLock'
    BY DEF UnpaidHoldsLock, Unpaid, At, SetStateIfUnpaid
<1>7. PlacersApart'
    BY AmountLockAssumption DEF PlacersApart, Placing, TypeOK, At, SetStateIfUnpaid,
     Unpaid, AllThreads, CreatorsAlone, Creating, ReleasesAfterMark
<1>8. PlacesHoldLock'
    BY AmountLockAssumption DEF PlacesHoldLock, PlacersApart, Placing, HoldsFloat,
     MyFloat, Unpaid, TypeOK, At, SetStateIfUnpaid, AllThreads, CreatorsAlone,
     Creating, ReleasesAfterMark
<1>9. QED
  BY <1>1, <1>2, <1>3, <1>4, <1>5, <1>6, <1>7, <1>8

\* Sweep(t) keeps the invariant.
LEMMA SweepStep ==
  ASSUME LockInv, NEW t \in Threads, Sweep(t)
  PROVE  LockInv'
<1> USE DEF LockInv, Sweep
<1>1. TypeOK'
    BY DEF TypeOK, Steps, Kinds, States, At, SetState, Exists, AllThreads
<1>2. LocksByPrice'
    BY DEF LocksByPrice
<1>3. CreatorsAlone'
    BY AmountLockAssumption DEF CreatorsAlone, Creating, Placing, ReleasesAfterMark, TypeOK, At,
     SetState, Exists, AllThreads
<1>4. InsertsHoldLock'
    BY DEF InsertsHoldLock, HoldsLock, MyPrice, TypeOK, At, SetState, Exists
<1>5. ReleasesAfterMark'
    BY DEF ReleasesAfterMark, TypeOK, At, SetState, Exists
<1>6. UnpaidHoldsLock'
    BY DEF UnpaidHoldsLock, Unpaid, At, SetState, Exists
<1>7. PlacersApart'
    BY AmountLockAssumption DEF PlacersApart, Placing, TypeOK, At, SetState, Exists,
     AllThreads, CreatorsAlone, Creating, ReleasesAfterMark, Unpaid
<1>8. PlacesHoldLock'
    BY AmountLockAssumption DEF PlacesHoldLock, PlacersApart, Placing, HoldsFloat,
     MyFloat, Unpaid, TypeOK, At, SetState, Exists, AllThreads, CreatorsAlone,
     Creating, ReleasesAfterMark
<1>9. QED
  BY <1>1, <1>2, <1>3, <1>4, <1>5, <1>6, <1>7, <1>8

\* SweepUnlock(t) keeps the invariant.
LEMMA SweepUnlockStep ==
  ASSUME LockInv, NEW t \in AllThreads, SweepUnlock(t)
  PROVE  LockInv'
<1> USE DEF LockInv, SweepUnlock
<1>1. TypeOK'
    BY DEF TypeOK, Steps, ReleaseLocks
<1>2. LocksByPrice'
    BY DEF LocksByPrice, ReleaseLocks
<1>3. CreatorsAlone'
    BY AmountLockAssumption DEF CreatorsAlone, Creating, Placing, TypeOK, ReleaseLocks
<1>4. InsertsHoldLock'
    BY DEF InsertsHoldLock, HoldsLock, MyPrice, CreatorsAlone, Creating, TypeOK,
     ReleaseLocks
<1>5. ReleasesAfterMark'
    BY DEF ReleasesAfterMark, TypeOK, ReleaseLocks
<1>6. UnpaidHoldsLock'
    BY DEF UnpaidHoldsLock, Unpaid, TypeOK, ReleasesAfterMark, ReleaseLocks
<1>7. PlacersApart'
    BY AmountLockAssumption DEF PlacersApart, Placing, TypeOK, ReleaseLocks,
     CreatorsAlone, Creating, ReleasesAfterMark, Unpaid, AllThreads
<1>8. PlacesHoldLock'
    BY AmountLockAssumption DEF PlacesHoldLock, PlacersApart, Placing, HoldsFloat,
     MyFloat, Unpaid, TypeOK, ReleaseLocks, CreatorsAlone, Creating,
     ReleasesAfterMark, AllThreads
<1>9. QED
  BY <1>1, <1>2, <1>3, <1>4, <1>5, <1>6, <1>7, <1>8

\* SweepDone(t) keeps the invariant.
LEMMA SweepDoneStep ==
  ASSUME LockInv, NEW t \in AllThreads, SweepDone(t)
  PROVE  LockInv'
<1> USE DEF LockInv, SweepDone
<1>1. TypeOK'
    BY DEF TypeOK, Steps, Kinds, GoTo, Finish
<1>2. LocksByPrice'
    BY DEF LocksByPrice
<1>3. CreatorsAlone'
    BY AmountLockAssumption DEF CreatorsAlone, Creating, Placing, TypeOK, GoTo, Finish
<1>4. InsertsHoldLock'
    BY DEF InsertsHoldLock, HoldsLock, MyPrice, TypeOK, GoTo, Finish
<1>5. ReleasesAfterMark'
    BY DEF ReleasesAfterMark, TypeOK, GoTo, Finish
<1>6. UnpaidHoldsLock'
    BY DEF UnpaidHoldsLock, Unpaid
<1>7. PlacersApart'
    BY AmountLockAssumption DEF PlacersApart, Placing, TypeOK, GoTo, Finish,
     CreatorsAlone, Creating, ReleasesAfterMark, Unpaid, AllThreads
<1>8. PlacesHoldLock'
    BY AmountLockAssumption DEF PlacesHoldLock, PlacersApart, Placing, HoldsFloat,
     MyFloat, Unpaid, TypeOK, GoTo, Finish, CreatorsAlone, Creating,
     ReleasesAfterMark, AllThreads
<1>9. QED
  BY <1>1, <1>2, <1>3, <1>4, <1>5, <1>6, <1>7, <1>8

\* CronCleanup keeps the invariant.
LEMMA CronCleanupStep ==
  ASSUME LockInv, CronCleanup
  PROVE  LockInv'
<1> USE DEF LockInv, CronCleanup
<1>1. TypeOK'
    BY DEF TypeOK, Steps, Kinds, Begin, Old, AllThreads
<1>2. LocksByPrice'
    BY DEF LocksByPrice
<1>3. CreatorsAlone'
    BY AmountLockAssumption DEF CreatorsAlone, Creating, Placing, TypeOK, Begin, Old, AllThreads
<1>4. InsertsHoldLock'
    BY DEF InsertsHoldLock, HoldsLock, MyPrice, TypeOK, Begin, Old
<1>5. ReleasesAfterMark'
    BY DEF ReleasesAfterMark, TypeOK, Begin, Old
<1>6. UnpaidHoldsLock'
    BY DEF UnpaidHoldsLock, Unpaid
<1>7. PlacersApart'
    BY AmountLockAssumption DEF PlacersApart, Placing, TypeOK, Begin, Old, AllThreads,
     CreatorsAlone, Creating, ReleasesAfterMark, Unpaid
<1>8. PlacesHoldLock'
    BY AmountLockAssumption DEF PlacesHoldLock, PlacersApart, Placing, HoldsFloat,
     MyFloat, Unpaid, TypeOK, Begin, Old, AllThreads, CreatorsAlone, Creating,
     ReleasesAfterMark
<1>9. QED
  BY <1>1, <1>2, <1>3, <1>4, <1>5, <1>6, <1>7, <1>8

\* CleanRow keeps the invariant.
LEMMA CleanRowStep ==
  ASSUME LockInv, CleanRow
  PROVE  LockInv'
<1> USE DEF LockInv, CleanRow
<1>1. TypeOK'
    BY DEF TypeOK, ReleasesAfterMark, Steps, States, Row, AllThreads
<1>2. LocksByPrice'
    BY DEF LocksByPrice
<1>3. CreatorsAlone'
    BY AmountLockAssumption DEF CreatorsAlone, Creating, Placing, ReleasesAfterMark, TypeOK,
     AllThreads
<1>4. InsertsHoldLock'
    BY DEF InsertsHoldLock, HoldsLock, MyPrice, TypeOK
<1>5. ReleasesAfterMark'
    BY DEF ReleasesAfterMark, TypeOK
<1>6. UnpaidHoldsLock'
    BY DEF UnpaidHoldsLock, Unpaid
<1>7. PlacersApart'
    BY AmountLockAssumption DEF PlacersApart, Placing, TypeOK, ReleasesAfterMark,
     AllThreads, CreatorsAlone, Creating, Unpaid
<1>8. PlacesHoldLock'
    BY AmountLockAssumption DEF PlacesHoldLock, PlacersApart, Placing, HoldsFloat,
     MyFloat, Unpaid, TypeOK, ReleasesAfterMark, AllThreads, CreatorsAlone, Creating
<1>9. QED
  BY <1>1, <1>2, <1>3, <1>4, <1>5, <1>6, <1>7, <1>8

\* CleanLock keeps the invariant.
LEMMA CleanLockStep ==
  ASSUME LockInv, CleanLock
  PROVE  LockInv'
<1> USE DEF LockInv, CleanLock
<1>1. TypeOK'
    BY DEF TypeOK, Steps, ReleaseLocks
<1>2. LocksByPrice'
    BY DEF LocksByPrice, ReleaseLocks
<1>3. CreatorsAlone'
    BY AmountLockAssumption DEF CreatorsAlone, Creating, Placing, TypeOK, ReleaseLocks,
     AllThreads
<1>4. InsertsHoldLock'
    BY DEF InsertsHoldLock, HoldsLock, MyPrice, CreatorsAlone, Creating,
     ReleasesAfterMark, TypeOK, ReleaseLocks, AllThreads
<1>5. ReleasesAfterMark'
    BY DEF ReleasesAfterMark, TypeOK, ReleaseLocks
<1>6. UnpaidHoldsLock'
    BY DEF UnpaidHoldsLock, Unpaid, TypeOK, ReleasesAfterMark, ReleaseLocks, AllThreads
<1>7. PlacersApart'
    BY AmountLockAssumption DEF PlacersApart, Placing, TypeOK, ReleaseLocks,
     CreatorsAlone, Creating, AllThreads, ReleasesAfterMark, Unpaid
<1>8. PlacesHoldLock'
    BY AmountLockAssumption DEF PlacesHoldLock, PlacersApart, Placing, HoldsFloat,
     MyFloat, Unpaid, TypeOK, ReleaseLocks, CreatorsAlone, Creating, AllThreads,
     ReleasesAfterMark
<1>9. QED
  BY <1>1, <1>2, <1>3, <1>4, <1>5, <1>6, <1>7, <1>8

\* CleanDone keeps the invariant.
LEMMA CleanDoneStep ==
  ASSUME LockInv, CleanDone
  PROVE  LockInv'
<1> USE DEF LockInv, CleanDone
<1>1. TypeOK'
    BY DEF TypeOK, Steps, Kinds, Finish, AllThreads
<1>2. LocksByPrice'
    BY DEF LocksByPrice
<1>3. CreatorsAlone'
    BY AmountLockAssumption DEF CreatorsAlone, Creating, Placing, TypeOK, Finish, AllThreads
<1>4. InsertsHoldLock'
    BY DEF InsertsHoldLock, HoldsLock, MyPrice, TypeOK, Finish
<1>5. ReleasesAfterMark'
    BY DEF ReleasesAfterMark, TypeOK, Finish
<1>6. UnpaidHoldsLock'
    BY DEF UnpaidHoldsLock, Unpaid
<1>7. PlacersApart'
    BY AmountLockAssumption DEF PlacersApart, Placing, TypeOK, Finish, AllThreads,
     CreatorsAlone, Creating, ReleasesAfterMark, Unpaid
<1>8. PlacesHoldLock'
    BY AmountLockAssumption DEF PlacesHoldLock, PlacersApart, Placing, HoldsFloat,
     MyFloat, Unpaid, TypeOK, Finish, AllThreads, CreatorsAlone, Creating,
     ReleasesAfterMark
<1>9. QED
  BY <1>1, <1>2, <1>3, <1>4, <1>5, <1>6, <1>7, <1>8

\* CreateOrder(t, request) keeps the invariant.
LEMMA CreateOrderStep ==
  ASSUME LockInv, NEW t \in Threads, NEW request \in CreateRequest, CreateOrder(t, request)
  PROVE  LockInv'
<1> USE DEF LockInv, CreateOrder
<1>1. TypeOK'
    BY DEF TypeOK, Steps, Kinds, Begin, Expired, AllThreads, Unpaid
<1>2. LocksByPrice'
    BY DEF LocksByPrice
<1>3. CreatorsAlone'
    BY AmountLockAssumption DEF CreatorsAlone, Creating, Placing, TypeOK, Begin, Expired,
     AllThreads, Unpaid
<1>4. InsertsHoldLock'
    BY DEF InsertsHoldLock, HoldsLock, MyPrice, TypeOK, Begin, Expired, Unpaid
<1>5. ReleasesAfterMark'
    BY DEF ReleasesAfterMark, TypeOK, Begin, Expired, Unpaid
<1>6. UnpaidHoldsLock'
    BY DEF UnpaidHoldsLock, Unpaid
<1>7. PlacersApart'
    BY AmountLockAssumption DEF PlacersApart, Placing, TypeOK, Begin, Expired,
     AllThreads, Unpaid, CreatorsAlone, Creating, ReleasesAfterMark
<1>8. PlacesHoldLock'
    BY AmountLockAssumption DEF PlacesHoldLock, PlacersApart, Placing, HoldsFloat,
     MyFloat, Unpaid, TypeOK, Begin, Expired, AllThreads, CreatorsAlone, Creating,
     ReleasesAfterMark
<1>9. QED
  BY <1>1, <1>2, <1>3, <1>4, <1>5, <1>6, <1>7, <1>8

\* CreateCheck(t) keeps the invariant.
LEMMA CreateCheckStep ==
  ASSUME LockInv, NEW t \in Threads, CreateCheck(t)
  PROVE  LockInv'
<1> USE DEF LockInv, CreateCheck
<1>1. TypeOK'
    BY DEF TypeOK, Steps, Kinds, Finish, FreshIds, AllThreads
<1>2. LocksByPrice'
    BY DEF LocksByPrice
<1>3. CreatorsAlone'
    BY AmountLockAssumption DEF CreatorsAlone, Creating, Placing, TypeOK, Finish, FreshIds,
     AllThreads
<1>4. InsertsHoldLock'
    BY DEF InsertsHoldLock, HoldsLock, MyPrice, TypeOK, Finish, FreshIds
<1>5. ReleasesAfterMark'
    BY DEF ReleasesAfterMark, TypeOK, Finish, FreshIds
<1>6. UnpaidHoldsLock'
    BY DEF UnpaidHoldsLock, Unpaid
<1>7. PlacersApart'
    BY AmountLockAssumption DEF PlacersApart, Placing, TypeOK, Finish, FreshIds,
     AllThreads, CreatorsAlone, Creating, ReleasesAfterMark, Unpaid
<1>8. PlacesHoldLock'
    BY AmountLockAssumption DEF PlacesHoldLock, PlacersApart, Placing, HoldsFloat,
     MyFloat, Unpaid, TypeOK, Finish, FreshIds, AllThreads, CreatorsAlone, Creating,
     ReleasesAfterMark
<1>9. QED
  BY <1>1, <1>2, <1>3, <1>4, <1>5, <1>6, <1>7, <1>8

\* CreateLock(t) keeps the invariant.
LEMMA CreateLockStep ==
  ASSUME LockInv, NEW t \in Threads, CreateLock(t)
  PROVE  LockInv'
<1> USE DEF LockInv, CreateLock
<1>0. cur[t] \in OrderIds /\ arg[t] \in CreateRequest /\ MyPrice(t) \in Cents
  BY CandidatePositive DEF CreatorsAlone, Creating, MyPrice, TypeOK, AllThreads, CreateRequest
<1>1. TypeOK'
    BY <1>0 DEF TypeOK, CreatorsAlone, Creating, Row, Lock, CreateRequest, Steps,
     States, Kinds, GoTo, AllThreads
<1>2. LocksByPrice'
    BY <1>0 DEF LocksByPrice
<1>3. CreatorsAlone'
    BY <1>0 DEF CreatorsAlone, Creating, Placing, TypeOK, GoTo
<1>4. InsertsHoldLock'
    BY <1>0 DEF InsertsHoldLock, HoldsLock, MyPrice, TypeOK, GoTo
<1>5. ReleasesAfterMark'
    BY <1>0 DEF ReleasesAfterMark, TypeOK, GoTo
<1>6. UnpaidHoldsLock'
    BY <1>0 DEF UnpaidHoldsLock, Unpaid
<1>7. PlacersApart'
    BY <1>0 DEF PlacersApart, Placing, TypeOK, CreatorsAlone, Creating, GoTo,
     AllThreads, ReleasesAfterMark, Unpaid
<1>8. PlacesHoldLock'
    BY <1>0 DEF PlacesHoldLock, PlacersApart, Placing, HoldsFloat, MyFloat, Unpaid,
     TypeOK, CreatorsAlone, Creating, GoTo, AllThreads, ReleasesAfterMark
<1>9. QED
  BY <1>1, <1>2, <1>3, <1>4, <1>5, <1>6, <1>7, <1>8

\* CreateVerify(t) keeps the invariant.
LEMMA CreateVerifyStep ==
  ASSUME LockInv, NEW t \in Threads, CreateVerify(t)
  PROVE  LockInv'
<1> USE DEF LockInv, CreateVerify
<1>1. TypeOK'
    BY DEF TypeOK, Steps, Kinds, GoTo, Finish, AllThreads
<1>2. LocksByPrice'
    BY DEF LocksByPrice
<1>3. CreatorsAlone'
    BY AmountLockAssumption DEF CreatorsAlone, Creating, Placing, TypeOK, GoTo, Finish,
     AllThreads
<1>4. InsertsHoldLock'
    BY DEF InsertsHoldLock, HoldsLock, MyPrice, TypeOK, GoTo, Finish
<1>5. ReleasesAfterMark'
    BY DEF ReleasesAfterMark, TypeOK, GoTo, Finish
<1>6. UnpaidHoldsLock'
    BY DEF UnpaidHoldsLock, Unpaid
<1>7. PlacersApart'
    BY AmountLockAssumption DEF PlacersApart, Placing, TypeOK, GoTo, Finish,
     AllThreads, CreatorsAlone, Creating, ReleasesAfterMark, Unpaid
<1>8. PlacesHoldLock'
    BY AmountLockAssumption DEF PlacesHoldLock, PlacersApart, Placing, HoldsFloat,
     MyFloat, Unpaid, TypeOK, GoTo, Finish, AllThreads, CreatorsAlone, Creating,
     ReleasesAfterMark
<1>9. QED
  BY <1>1, <1>2, <1>3, <1>4, <1>5, <1>6, <1>7, <1>8

\* CreateInsert(t) keeps the invariant.
LEMMA CreateInsertStep ==
  ASSUME LockInv, NEW t \in Threads, CreateInsert(t)
  PROVE  LockInv'
<1> USE DEF LockInv, CreateInsert
<1>0. cur[t] \in OrderIds /\ arg[t] \in CreateRequest /\ MyPrice(t) \in Cents
  BY CandidatePositive DEF CreatorsAlone, Creating, MyPrice, TypeOK, AllThreads, CreateRequest
<1>1. TypeOK'
    BY <1>0, AmountLockAssumption DEF TypeOK, ReleasesAfterMark, CreatorsAlone,
     Creating, MyPrice, NewRow, Row, Lock, Steps, Kinds, States, Finish, AllThreads,
     CreateRequest
<1>2. LocksByPrice'
    BY <1>0 DEF LocksByPrice
<1>3. CreatorsAlone'
    BY <1>0, AmountLockAssumption DEF CreatorsAlone, Creating, Placing, TypeOK, Finish,
     AllThreads, CreateRequest
<1>4. InsertsHoldLock'
    BY <1>0 DEF InsertsHoldLock, HoldsLock, MyPrice, TypeOK, Finish, CreateRequest
<1>5. ReleasesAfterMark'
    BY <1>0 DEF ReleasesAfterMark, CreatorsAlone, Creating, TypeOK, Finish, AllThreads,
     CreateRequest
<1>6. UnpaidHoldsLock'
    BY <1>0, AmountLockAssumption DEF UnpaidHoldsLock, TypeOK, Unpaid,
     ReleasesAfterMark, CreatorsAlone, Creating, NewRow, Row, Lock, InsertsHoldLock, HoldsLock,
     Finish, AllThreads, CreateRequest
<1>7. PlacersApart'
    BY <1>0, AmountLockAssumption DEF PlacersApart, Placing, TypeOK,
     ReleasesAfterMark, CreatorsAlone, Creating, Finish, AllThreads, Unpaid
<1>8. PlacesHoldLock'
    BY <1>0, AmountLockAssumption DEF PlacesHoldLock, PlacersApart, Placing,
     HoldsFloat, MyFloat, Unpaid, TypeOK, ReleasesAfterMark, CreatorsAlone, Creating,
     Finish, AllThreads
<1>9. QED
  BY <1>1, <1>2, <1>3, <1>4, <1>5, <1>6, <1>7, <1>8

\* CreateInsertFails(t) keeps the invariant.
LEMMA CreateInsertFailsStep ==
  ASSUME LockInv, NEW t \in Threads, CreateInsertFails(t)
  PROVE  LockInv'
<1> USE DEF LockInv, CreateInsertFails
<1>1. TypeOK'
    BY DEF TypeOK, Steps, GoTo
<1>2. LocksByPrice'
    BY DEF LocksByPrice
<1>3. CreatorsAlone'
    BY DEF CreatorsAlone, Creating, Placing, TypeOK, GoTo
<1>4. InsertsHoldLock'
    BY DEF InsertsHoldLock, HoldsLock, MyPrice, TypeOK, GoTo
<1>5. ReleasesAfterMark'
    BY DEF ReleasesAfterMark, TypeOK, GoTo
<1>6. UnpaidHoldsLock'
    BY DEF UnpaidHoldsLock, Unpaid
<1>7. PlacersApart'
    BY DEF PlacersApart, Placing, TypeOK, GoTo, CreatorsAlone, Creating,
     ReleasesAfterMark, Unpaid, AllThreads
<1>8. PlacesHoldLock'
    BY DEF PlacesHoldLock, PlacersApart, Placing, HoldsFloat, MyFloat, Unpaid, TypeOK,
     GoTo, CreatorsAlone, Creating, ReleasesAfterMark, AllThreads
<1>9. QED
  BY <1>1, <1>2, <1>3, <1>4, <1>5, <1>6, <1>7, <1>8

\* CreateAbort(t) keeps the invariant.
LEMMA CreateAbortStep ==
  ASSUME LockInv, NEW t \in Threads, CreateAbort(t)
  PROVE  LockInv'
<1> USE DEF LockInv, CreateAbort
<1>1. TypeOK'
    BY DEF TypeOK, Steps, Kinds, Finish, ReleaseLocks, AllThreads
<1>2. LocksByPrice'
    BY DEF LocksByPrice, Finish, ReleaseLocks
<1>3. CreatorsAlone'
    BY AmountLockAssumption DEF CreatorsAlone, Creating, Placing, TypeOK, Finish, ReleaseLocks,
     AllThreads
<1>4. InsertsHoldLock'
    BY DEF InsertsHoldLock, HoldsLock, MyPrice, CreatorsAlone, Creating,
     ReleasesAfterMark, TypeOK, Finish, ReleaseLocks, AllThreads
<1>5. ReleasesAfterMark'
    BY DEF ReleasesAfterMark, TypeOK, Finish, ReleaseLocks
<1>6. UnpaidHoldsLock'
    BY DEF UnpaidHoldsLock, Unpaid, TypeOK, InsertsHoldLock, HoldsLock,
     ReleasesAfterMark, CreatorsAlone, Creating, Finish, ReleaseLocks, AllThreads
<1>7. PlacersApart'
    BY AmountLockAssumption DEF PlacersApart, Placing, TypeOK, Finish, ReleaseLocks,
     AllThreads, CreatorsAlone, Creating, ReleasesAfterMark, Unpaid
<1>8. PlacesHoldLock'
    BY AmountLockAssumption DEF PlacesHoldLock, PlacersApart, Placing, HoldsFloat,
     MyFloat, Unpaid, TypeOK, Finish, ReleaseLocks, AllThreads, CreatorsAlone,
     Creating, ReleasesAfterMark
<1>9. QED
  BY <1>1, <1>2, <1>3, <1>4, <1>5, <1>6, <1>7, <1>8

\* A plug-in places an order that has a row, at an amount that is positive.
LEMMA PlacerKnown ==
  ASSUME LockInv, NEW t \in AllThreads, Placing(t)
  PROVE  /\ t \in AllThreads /\ cur[t] \in OrderIds /\ state[cur[t]] # "absent"
         /\ row[cur[t]] \in Row /\ arg[t] \in CreateRequest /\ MyFloat(t) \in Cents
<1>1. cur[t] \in OrderIds /\ state[cur[t]] # "absent" /\ row[cur[t]] \in Row
  BY DEF LockInv, PlacersApart, TypeOK
<1>2. arg[t] \in CreateRequest /\ try[t] \in Nat
  BY DEF LockInv, CreatorsAlone, TypeOK
<1>3. QED
  BY <1>1, <1>2 DEF MyFloat, CreateRequest, Cents

\* GatewayInsert(t, request) keeps the invariant.
LEMMA GatewayInsertStep ==
  ASSUME LockInv, NEW t \in Threads, NEW request \in CreateRequest, GatewayInsert(t, request)
  PROVE  LockInv'
<1> USE DEF LockInv, GatewayInsert
<1>1. TypeOK'
    BY AmountLockAssumption DEF TypeOK, Steps, Kinds, States, PlacersApart, Placing,
     CreatorsAlone, Row, Lock, AllThreads, CreateRequest, Begin, FreshIds, NewRow,
     Cents
<1>2. LocksByPrice'
    BY DEF LocksByPrice, TypeOK, Begin, FreshIds, NewRow, Cents
<1>3. CreatorsAlone'
    BY AmountLockAssumption DEF CreatorsAlone, Creating, Placing, PlacersApart,
     TypeOK, AllThreads, Begin, FreshIds, NewRow, Cents
<1>4. InsertsHoldLock'
    BY AmountLockAssumption DEF InsertsHoldLock, HoldsLock, MyPrice, CreatorsAlone,
     Creating, PlacersApart, Placing, TypeOK, AllThreads, Begin, FreshIds, NewRow,
     Cents
<1>5. ReleasesAfterMark'
    BY AmountLockAssumption DEF ReleasesAfterMark, PlacersApart, Placing, TypeOK,
     AllThreads, Begin, FreshIds, NewRow, Cents
<1>6. UnpaidHoldsLock'
    BY AmountLockAssumption DEF UnpaidHoldsLock, Unpaid, PlacersApart, Placing,
     PlacesHoldLock, HoldsFloat, MyFloat, TypeOK, Row, AllThreads, Begin, FreshIds,
     NewRow, Cents
<1>7. PlacersApart'
    BY AmountLockAssumption DEF PlacersApart, Placing, CreatorsAlone, Creating,
     TypeOK, AllThreads, Begin, FreshIds, NewRow, Cents
<1>8. PlacesHoldLock'
    BY AmountLockAssumption DEF PlacesHoldLock, PlacersApart, Placing, HoldsFloat,
     MyFloat, Unpaid, TypeOK, AllThreads, Begin, FreshIds, NewRow, Cents
<1>9. QED
  BY <1>1, <1>2, <1>3, <1>4, <1>5, <1>6, <1>7, <1>8

\* PluginLock(t) keeps the invariant.
LEMMA PluginLockStep ==
  ASSUME LockInv, NEW t \in Threads, PluginLock(t)
  PROVE  LockInv'
<1> USE DEF LockInv, PluginLock
<1>0. /\ t \in AllThreads /\ cur[t] \in OrderIds /\ state[cur[t]] # "absent"
      /\ row[cur[t]] \in Row /\ arg[t] \in CreateRequest /\ MyFloat(t) \in Cents
  BY PlacerKnown DEF Placing, AllThreads
<1>1. TypeOK'
    BY <1>0, AmountLockAssumption DEF TypeOK, Steps, Kinds, States, PlacersApart,
     Placing, CreatorsAlone, Row, Lock, AllThreads, CreateRequest, GoTo
<1>2. LocksByPrice'
    BY <1>0 DEF LocksByPrice, TypeOK, GoTo
<1>3. CreatorsAlone'
    BY <1>0, AmountLockAssumption DEF CreatorsAlone, Creating, Placing, PlacersApart,
     TypeOK, AllThreads, GoTo
<1>4. InsertsHoldLock'
    BY <1>0, AmountLockAssumption DEF InsertsHoldLock, HoldsLock, MyPrice,
     CreatorsAlone, Creating, PlacersApart, Placing, TypeOK, AllThreads, GoTo
<1>5. ReleasesAfterMark'
    BY <1>0, AmountLockAssumption DEF ReleasesAfterMark, PlacersApart, Placing,
     TypeOK, AllThreads, GoTo
<1>6. UnpaidHoldsLock'
    BY <1>0, AmountLockAssumption DEF UnpaidHoldsLock, Unpaid, PlacersApart, Placing,
     PlacesHoldLock, HoldsFloat, MyFloat, TypeOK, Row, AllThreads, GoTo
<1>7. PlacersApart'
    BY <1>0, AmountLockAssumption DEF PlacersApart, Placing, CreatorsAlone, Creating,
     TypeOK, AllThreads, GoTo
<1>8. PlacesHoldLock'
    BY <1>0, AmountLockAssumption DEF PlacesHoldLock, PlacersApart, Placing,
     HoldsFloat, MyFloat, Unpaid, TypeOK, AllThreads, GoTo
<1>9. QED
  BY <1>1, <1>2, <1>3, <1>4, <1>5, <1>6, <1>7, <1>8

\* PluginVerify(t) keeps the invariant.
LEMMA PluginVerifyStep ==
  ASSUME LockInv, NEW t \in Threads, PluginVerify(t)
  PROVE  LockInv'
<1> USE DEF LockInv, PluginVerify
<1>0. /\ t \in AllThreads /\ cur[t] \in OrderIds /\ state[cur[t]] # "absent"
      /\ row[cur[t]] \in Row /\ arg[t] \in CreateRequest /\ MyFloat(t) \in Cents
  BY PlacerKnown DEF Placing, AllThreads
<1>1. TypeOK'
    BY <1>0, AmountLockAssumption DEF TypeOK, Steps, Kinds, States, PlacersApart,
     Placing, CreatorsAlone, Row, Lock, AllThreads, CreateRequest, GoTo, NextDelta,
     HoldsFloat, MyFloat
<1>2. LocksByPrice'
    BY <1>0 DEF LocksByPrice, TypeOK, GoTo, NextDelta, HoldsFloat, MyFloat
<1>3. CreatorsAlone'
    BY <1>0, AmountLockAssumption DEF CreatorsAlone, Creating, Placing, PlacersApart,
     TypeOK, AllThreads, GoTo, NextDelta, HoldsFloat, MyFloat
<1>4. InsertsHoldLock'
    BY <1>0, AmountLockAssumption DEF InsertsHoldLock, HoldsLock, MyPrice,
     CreatorsAlone, Creating, PlacersApart, Placing, TypeOK, AllThreads, GoTo,
     NextDelta, HoldsFloat, MyFloat
<1>5. ReleasesAfterMark'
    BY <1>0, AmountLockAssumption DEF ReleasesAfterMark, PlacersApart, Placing,
     TypeOK, AllThreads, GoTo, NextDelta, HoldsFloat, MyFloat
<1>6. UnpaidHoldsLock'
    BY <1>0, AmountLockAssumption DEF UnpaidHoldsLock, Unpaid, PlacersApart, Placing,
     PlacesHoldLock, HoldsFloat, MyFloat, TypeOK, Row, AllThreads, GoTo, NextDelta
<1>7. PlacersApart'
    BY <1>0, AmountLockAssumption DEF PlacersApart, Placing, CreatorsAlone, Creating,
     TypeOK, AllThreads, GoTo, NextDelta, HoldsFloat, MyFloat
<1>8. PlacesHoldLock'
    BY <1>0, AmountLockAssumption DEF PlacesHoldLock, PlacersApart, Placing,
     HoldsFloat, MyFloat, Unpaid, TypeOK, AllThreads, GoTo, NextDelta
<1>9. QED
  BY <1>1, <1>2, <1>3, <1>4, <1>5, <1>6, <1>7, <1>8

\* PluginExist(t) keeps the invariant.
LEMMA PluginExistStep ==
  ASSUME LockInv, NEW t \in Threads, PluginExist(t)
  PROVE  LockInv'
<1> USE DEF LockInv, PluginExist
<1>0. /\ t \in AllThreads /\ cur[t] \in OrderIds /\ state[cur[t]] # "absent"
      /\ row[cur[t]] \in Row /\ arg[t] \in CreateRequest /\ MyFloat(t) \in Cents
  BY PlacerKnown DEF Placing, AllThreads
<1>1. TypeOK'
    BY <1>0, AmountLockAssumption DEF TypeOK, Steps, Kinds, States, PlacersApart,
     Placing, CreatorsAlone, Row, Lock, AllThreads, CreateRequest, GoTo, NextDelta
<1>2. LocksByPrice'
    BY <1>0 DEF LocksByPrice, TypeOK, GoTo, NextDelta
<1>3. CreatorsAlone'
    BY <1>0, AmountLockAssumption DEF CreatorsAlone, Creating, Placing, PlacersApart,
     TypeOK, AllThreads, GoTo, NextDelta
<1>4. InsertsHoldLock'
    BY <1>0, AmountLockAssumption DEF InsertsHoldLock, HoldsLock, MyPrice,
     CreatorsAlone, Creating, PlacersApart, Placing, TypeOK, AllThreads, GoTo,
     NextDelta
<1>5. ReleasesAfterMark'
    BY <1>0, AmountLockAssumption DEF ReleasesAfterMark, PlacersApart, Placing,
     TypeOK, AllThreads, GoTo, NextDelta
<1>6. UnpaidHoldsLock'
    BY <1>0, AmountLockAssumption DEF UnpaidHoldsLock, Unpaid, PlacersApart, Placing,
     PlacesHoldLock, HoldsFloat, MyFloat, TypeOK, Row, AllThreads, GoTo, NextDelta
<1>7. PlacersApart'
    BY <1>0, AmountLockAssumption DEF PlacersApart, Placing, CreatorsAlone, Creating,
     TypeOK, AllThreads, GoTo, NextDelta
<1>8. PlacesHoldLock'
    BY <1>0, AmountLockAssumption DEF PlacesHoldLock, PlacersApart, Placing,
     HoldsFloat, MyFloat, Unpaid, TypeOK, AllThreads, GoTo, NextDelta
<1>9. QED
  BY <1>1, <1>2, <1>3, <1>4, <1>5, <1>6, <1>7, <1>8

\* PluginPlaced(t) keeps the invariant.
LEMMA PluginPlacedStep ==
  ASSUME LockInv, NEW t \in Threads, PluginPlaced(t)
  PROVE  LockInv'
<1> USE DEF LockInv, PluginPlaced
<1>0. /\ t \in AllThreads /\ cur[t] \in OrderIds /\ state[cur[t]] # "absent"
      /\ row[cur[t]] \in Row /\ arg[t] \in CreateRequest /\ MyFloat(t) \in Cents
  BY PlacerKnown DEF Placing, AllThreads
<1>1. TypeOK'
    BY <1>0, AmountLockAssumption DEF TypeOK, Steps, Kinds, States, PlacersApart,
     Placing, CreatorsAlone, Row, Lock, AllThreads, CreateRequest, Finish, HoldsFloat,
     MyFloat, Unpaid
<1>2. LocksByPrice'
    BY <1>0 DEF LocksByPrice, TypeOK, Finish, HoldsFloat, MyFloat, Unpaid
<1>3. CreatorsAlone'
    BY <1>0, AmountLockAssumption DEF CreatorsAlone, Creating, Placing, PlacersApart,
     TypeOK, AllThreads, Finish, HoldsFloat, MyFloat, Unpaid
<1>4. InsertsHoldLock'
    BY <1>0, AmountLockAssumption DEF InsertsHoldLock, HoldsLock, MyPrice,
     CreatorsAlone, Creating, PlacersApart, Placing, TypeOK, AllThreads, Finish,
     HoldsFloat, MyFloat, Unpaid
<1>5. ReleasesAfterMark'
    BY <1>0, AmountLockAssumption DEF ReleasesAfterMark, PlacersApart, Placing,
     TypeOK, AllThreads, Finish, HoldsFloat, MyFloat, Unpaid
<1>6. UnpaidHoldsLock'
    BY <1>0, AmountLockAssumption DEF UnpaidHoldsLock, Unpaid, PlacersApart, Placing,
     PlacesHoldLock, HoldsFloat, MyFloat, TypeOK, Row, AllThreads, Finish
<1>7. PlacersApart'
    BY <1>0, AmountLockAssumption DEF PlacersApart, Placing, CreatorsAlone, Creating,
     TypeOK, AllThreads, Finish, HoldsFloat, MyFloat, Unpaid
<1>8. PlacesHoldLock'
    BY <1>0, AmountLockAssumption DEF PlacesHoldLock, PlacersApart, Placing,
     HoldsFloat, MyFloat, Unpaid, TypeOK, AllThreads, Finish
<1>9. QED
  BY <1>1, <1>2, <1>3, <1>4, <1>5, <1>6, <1>7, <1>8

\* PluginBare(t) keeps the invariant.
LEMMA PluginBareStep ==
  ASSUME LockInv, NEW t \in Threads, PluginBare(t)
  PROVE  LockInv'
<1> USE DEF LockInv, PluginBare
<1>0. /\ t \in AllThreads /\ cur[t] \in OrderIds /\ state[cur[t]] # "absent"
      /\ row[cur[t]] \in Row /\ arg[t] \in CreateRequest /\ MyFloat(t) \in Cents
  BY PlacerKnown DEF Placing, AllThreads
<1>1. TypeOK'
    BY <1>0, AmountLockAssumption DEF TypeOK, Steps, Kinds, States, PlacersApart,
     Placing, CreatorsAlone, Row, Lock, AllThreads, CreateRequest, Finish
<1>2. LocksByPrice'
    BY <1>0 DEF LocksByPrice, TypeOK, Finish
<1>3. CreatorsAlone'
    BY <1>0, AmountLockAssumption DEF CreatorsAlone, Creating, Placing, PlacersApart,
     TypeOK, AllThreads, Finish
<1>4. InsertsHoldLock'
    BY <1>0, AmountLockAssumption DEF InsertsHoldLock, HoldsLock, MyPrice,
     CreatorsAlone, Creating, PlacersApart, Placing, TypeOK, AllThreads, Finish
<1>5. ReleasesAfterMark'
    BY <1>0, AmountLockAssumption DEF ReleasesAfterMark, PlacersApart, Placing,
     TypeOK, AllThreads, Finish
<1>6. UnpaidHoldsLock'
    BY <1>0, AmountLockAssumption DEF UnpaidHoldsLock, Unpaid, PlacersApart, Placing,
     PlacesHoldLock, HoldsFloat, MyFloat, TypeOK, Row, AllThreads, Finish
<1>7. PlacersApart'
    BY <1>0, AmountLockAssumption DEF PlacersApart, Placing, CreatorsAlone, Creating,
     TypeOK, AllThreads, Finish
<1>8. PlacesHoldLock'
    BY <1>0, AmountLockAssumption DEF PlacesHoldLock, PlacersApart, Placing,
     HoldsFloat, MyFloat, Unpaid, TypeOK, AllThreads, Finish
<1>9. QED
  BY <1>1, <1>2, <1>3, <1>4, <1>5, <1>6, <1>7, <1>8

\* PluginNoQrcode(t) keeps the invariant.
LEMMA PluginNoQrcodeStep ==
  ASSUME LockInv, NEW t \in Threads, PluginNoQrcode(t)
  PROVE  LockInv'
<1> USE DEF LockInv, PluginNoQrcode
<1>0. /\ t \in AllThreads /\ cur[t] \in OrderIds /\ state[cur[t]] # "absent"
      /\ row[cur[t]] \in Row /\ arg[t] \in CreateRequest /\ MyFloat(t) \in Cents
  BY PlacerKnown DEF Placing, AllThreads
<1>1. TypeOK'
    BY <1>0, AmountLockAssumption DEF TypeOK, Steps, Kinds, States, PlacersApart,
     Placing, CreatorsAlone, Row, Lock, AllThreads, CreateRequest, GoTo
<1>2. LocksByPrice'
    BY <1>0 DEF LocksByPrice, TypeOK, GoTo
<1>3. CreatorsAlone'
    BY <1>0, AmountLockAssumption DEF CreatorsAlone, Creating, Placing, PlacersApart,
     TypeOK, AllThreads, GoTo
<1>4. InsertsHoldLock'
    BY <1>0, AmountLockAssumption DEF InsertsHoldLock, HoldsLock, MyPrice,
     CreatorsAlone, Creating, PlacersApart, Placing, TypeOK, AllThreads, GoTo
<1>5. ReleasesAfterMark'
    BY <1>0, AmountLockAssumption DEF ReleasesAfterMark, PlacersApart, Placing,
     TypeOK, AllThreads, GoTo
<1>6. UnpaidHoldsLock'
    BY <1>0, AmountLockAssumption DEF UnpaidHoldsLock, Unpaid, PlacersApart, Placing,
     PlacesHoldLock, HoldsFloat, MyFloat, TypeOK, Row, AllThreads, GoTo
<1>7. PlacersApart'
    BY <1>0, AmountLockAssumption DEF PlacersApart, Placing, CreatorsAlone, Creating,
     TypeOK, AllThreads, GoTo
<1>8. PlacesHoldLock'
    BY <1>0, AmountLockAssumption DEF PlacesHoldLock, PlacersApart, Placing,
     HoldsFloat, MyFloat, Unpaid, TypeOK, AllThreads, GoTo
<1>9. QED
  BY <1>1, <1>2, <1>3, <1>4, <1>5, <1>6, <1>7, <1>8

\* PluginUnlock(t) keeps the invariant.
LEMMA PluginUnlockStep ==
  ASSUME LockInv, NEW t \in Threads, PluginUnlock(t)
  PROVE  LockInv'
<1> USE DEF LockInv, PluginUnlock
<1>0. /\ t \in AllThreads /\ cur[t] \in OrderIds /\ state[cur[t]] # "absent"
      /\ row[cur[t]] \in Row /\ arg[t] \in CreateRequest /\ MyFloat(t) \in Cents
  BY PlacerKnown DEF Placing, AllThreads
<1>1. TypeOK'
    BY <1>0, AmountLockAssumption DEF TypeOK, Steps, Kinds, States, PlacersApart,
     Placing, CreatorsAlone, Row, Lock, AllThreads, CreateRequest, GoTo, ReleaseLocks
<1>2. LocksByPrice'
    BY <1>0 DEF LocksByPrice, TypeOK, GoTo, ReleaseLocks
<1>3. CreatorsAlone'
    BY <1>0, AmountLockAssumption DEF CreatorsAlone, Creating, Placing, PlacersApart,
     TypeOK, AllThreads, GoTo, ReleaseLocks
<1>4. InsertsHoldLock'
    BY <1>0, AmountLockAssumption DEF InsertsHoldLock, HoldsLock, MyPrice,
     CreatorsAlone, Creating, PlacersApart, Placing, TypeOK, AllThreads, GoTo,
     ReleaseLocks
<1>5. ReleasesAfterMark'
    BY <1>0, AmountLockAssumption DEF ReleasesAfterMark, PlacersApart, Placing,
     TypeOK, AllThreads, GoTo, ReleaseLocks
<1>6. UnpaidHoldsLock'
    BY <1>0, AmountLockAssumption DEF UnpaidHoldsLock, Unpaid, PlacersApart, Placing,
     PlacesHoldLock, HoldsFloat, MyFloat, TypeOK, Row, AllThreads, GoTo, ReleaseLocks
<1>7. PlacersApart'
    BY <1>0, AmountLockAssumption DEF PlacersApart, Placing, CreatorsAlone, Creating,
     TypeOK, AllThreads, GoTo, ReleaseLocks
<1>8. PlacesHoldLock'
    BY <1>0, AmountLockAssumption DEF PlacesHoldLock, PlacersApart, Placing,
     HoldsFloat, MyFloat, Unpaid, TypeOK, AllThreads, GoTo, ReleaseLocks
<1>9. QED
  BY <1>1, <1>2, <1>3, <1>4, <1>5, <1>6, <1>7, <1>8

\* PluginRefused(t) keeps the invariant.
LEMMA PluginRefusedStep ==
  ASSUME LockInv, NEW t \in Threads, PluginRefused(t)
  PROVE  LockInv'
<1> USE DEF LockInv, PluginRefused
<1>0. /\ t \in AllThreads /\ cur[t] \in OrderIds /\ state[cur[t]] # "absent"
      /\ row[cur[t]] \in Row /\ arg[t] \in CreateRequest /\ MyFloat(t) \in Cents
  BY PlacerKnown DEF Placing, AllThreads
<1>1. TypeOK'
    BY <1>0, AmountLockAssumption DEF TypeOK, Steps, Kinds, States, PlacersApart,
     Placing, CreatorsAlone, Row, Lock, AllThreads, CreateRequest, Finish, SetState,
     Exists
<1>2. LocksByPrice'
    BY <1>0 DEF LocksByPrice, TypeOK, Finish, SetState, Exists
<1>3. CreatorsAlone'
    BY <1>0, AmountLockAssumption DEF CreatorsAlone, Creating, Placing, PlacersApart,
     TypeOK, AllThreads, Finish, SetState, Exists
<1>4. InsertsHoldLock'
    BY <1>0, AmountLockAssumption DEF InsertsHoldLock, HoldsLock, MyPrice,
     CreatorsAlone, Creating, PlacersApart, Placing, TypeOK, AllThreads, Finish,
     SetState, Exists
<1>5. ReleasesAfterMark'
    BY <1>0, AmountLockAssumption DEF ReleasesAfterMark, PlacersApart, Placing,
     TypeOK, AllThreads, Finish, SetState, Exists
<1>6. UnpaidHoldsLock'
    BY <1>0, AmountLockAssumption DEF UnpaidHoldsLock, Unpaid, PlacersApart, Placing,
     PlacesHoldLock, HoldsFloat, MyFloat, TypeOK, Row, AllThreads, Finish, SetState,
     Exists
<1>7. PlacersApart'
    BY <1>0, AmountLockAssumption DEF PlacersApart, Placing, CreatorsAlone, Creating,
     TypeOK, AllThreads, Finish, SetState, Exists
<1>8. PlacesHoldLock'
    BY <1>0, AmountLockAssumption DEF PlacesHoldLock, PlacersApart, Placing,
     HoldsFloat, MyFloat, Unpaid, TypeOK, AllThreads, Finish, SetState, Exists
<1>9. QED
  BY <1>1, <1>2, <1>3, <1>4, <1>5, <1>6, <1>7, <1>8

\* Push(t, k, request) keeps the invariant.
LEMMA PushStep ==
  ASSUME LockInv, NEW t \in Threads, NEW request \in PushRequest, NEW k \in {"push", "vmq"}, Push(t, k, request)
  PROVE  LockInv'
<1> USE DEF LockInv, Push
<1>1. TypeOK'
    BY DEF TypeOK, Steps, Kinds, Begin, OldestMatching, Matching, Unpaid, AllThreads
<1>2. LocksByPrice'
    BY DEF LocksByPrice
<1>3. CreatorsAlone'
    BY DEF CreatorsAlone, Creating, Placing, TypeOK, Begin, OldestMatching, Matching, Unpaid
<1>4. InsertsHoldLock'
    BY DEF InsertsHoldLock, HoldsLock, MyPrice, TypeOK, Begin, OldestMatching, Matching,
     Unpaid
<1>5. ReleasesAfterMark'
    BY DEF ReleasesAfterMark, TypeOK, Begin, OldestMatching, Matching, Unpaid
<1>6. UnpaidHoldsLock'
    BY DEF UnpaidHoldsLock, Unpaid
<1>7. PlacersApart'
    BY DEF PlacersApart, Placing, TypeOK, Begin, OldestMatching, Matching, Unpaid,
     AllThreads, CreatorsAlone, Creating, ReleasesAfterMark
<1>8. PlacesHoldLock'
    BY DEF PlacesHoldLock, PlacersApart, Placing, HoldsFloat, MyFloat, Unpaid, TypeOK,
     Begin, OldestMatching, Matching, AllThreads, CreatorsAlone, Creating,
     ReleasesAfterMark
<1>9. QED
  BY <1>1, <1>2, <1>3, <1>4, <1>5, <1>6, <1>7, <1>8

\* CloseOrder(t, o) keeps the invariant.
LEMMA CloseOrderStep ==
  ASSUME LockInv, NEW t \in Threads, NEW o \in OrderIds, CloseOrder(t, o)
  PROVE  LockInv'
<1> USE DEF LockInv, CloseOrder
<1>1. TypeOK'
    BY DEF TypeOK, Steps, Kinds, Begin, Unpaid, AllThreads
<1>2. LocksByPrice'
    BY DEF LocksByPrice
<1>3. CreatorsAlone'
    BY DEF CreatorsAlone, Creating, Placing, TypeOK, Begin, Unpaid
<1>4. InsertsHoldLock'
    BY DEF InsertsHoldLock, HoldsLock, MyPrice, TypeOK, Begin, Unpaid
<1>5. ReleasesAfterMark'
    BY DEF ReleasesAfterMark, TypeOK, Begin, Unpaid
<1>6. UnpaidHoldsLock'
    BY DEF UnpaidHoldsLock, Unpaid
<1>7. PlacersApart'
    BY DEF PlacersApart, Placing, TypeOK, Begin, Unpaid, AllThreads, CreatorsAlone,
     Creating, ReleasesAfterMark
<1>8. PlacesHoldLock'
    BY DEF PlacesHoldLock, PlacersApart, Placing, HoldsFloat, MyFloat, Unpaid, TypeOK,
     Begin, AllThreads, CreatorsAlone, Creating, ReleasesAfterMark
<1>9. QED
  BY <1>1, <1>2, <1>3, <1>4, <1>5, <1>6, <1>7, <1>8

\* Supplement(t, o) keeps the invariant.
LEMMA SupplementStep ==
  ASSUME LockInv, NEW t \in Threads, NEW o \in OrderIds, Supplement(t, o)
  PROVE  LockInv'
<1> USE DEF LockInv, Supplement
<1>1. TypeOK'
    BY DEF TypeOK, Steps, Kinds, Begin, Exists, AllThreads
<1>2. LocksByPrice'
    BY DEF LocksByPrice
<1>3. CreatorsAlone'
    BY DEF CreatorsAlone, Creating, Placing, TypeOK, Begin, Exists
<1>4. InsertsHoldLock'
    BY DEF InsertsHoldLock, HoldsLock, MyPrice, TypeOK, Begin, Exists
<1>5. ReleasesAfterMark'
    BY DEF ReleasesAfterMark, TypeOK, Begin, Exists
<1>6. UnpaidHoldsLock'
    BY DEF UnpaidHoldsLock, Unpaid
<1>7. PlacersApart'
    BY DEF PlacersApart, Placing, TypeOK, Begin, Exists, AllThreads, CreatorsAlone,
     Creating, ReleasesAfterMark, Unpaid
<1>8. PlacesHoldLock'
    BY DEF PlacesHoldLock, PlacersApart, Placing, HoldsFloat, MyFloat, Unpaid, TypeOK,
     Begin, Exists, AllThreads, CreatorsAlone, Creating, ReleasesAfterMark
<1>9. QED
  BY <1>1, <1>2, <1>3, <1>4, <1>5, <1>6, <1>7, <1>8

\* PushMark(t) keeps the invariant.
LEMMA PushMarkStep ==
  ASSUME LockInv, NEW t \in Threads, PushMark(t)
  PROVE  LockInv'
<1> USE DEF LockInv, PushMark
<1>1. TypeOK'
    BY DEF TypeOK, Steps, Kinds, States, At, SetStateIfUnpaid, Unpaid, GoTo, AllThreads
<1>2. LocksByPrice'
    BY DEF LocksByPrice
<1>3. CreatorsAlone'
    BY DEF CreatorsAlone, Creating, Placing, TypeOK, At, SetStateIfUnpaid, Unpaid, GoTo
<1>4. InsertsHoldLock'
    BY DEF InsertsHoldLock, HoldsLock, MyPrice, TypeOK, At, SetStateIfUnpaid, Unpaid,
     GoTo
<1>5. ReleasesAfterMark'
    BY DEF ReleasesAfterMark, TypeOK, At, SetStateIfUnpaid, Unpaid, GoTo
<1>6. UnpaidHoldsLock'
    BY DEF UnpaidHoldsLock, Unpaid, At, SetStateIfUnpaid, GoTo
<1>7. PlacersApart'
    BY DEF PlacersApart, Placing, TypeOK, At, SetStateIfUnpaid, Unpaid, GoTo,
     AllThreads, CreatorsAlone, Creating, ReleasesAfterMark
<1>8. PlacesHoldLock'
    BY DEF PlacesHoldLock, PlacersApart, Placing, HoldsFloat, MyFloat, Unpaid, TypeOK,
     At, SetStateIfUnpaid, GoTo, AllThreads, CreatorsAlone, Creating,
     ReleasesAfterMark
<1>9. QED
  BY <1>1, <1>2, <1>3, <1>4, <1>5, <1>6, <1>7, <1>8

\* CloseMark(t) keeps the invariant.
LEMMA CloseMarkStep ==
  ASSUME LockInv, NEW t \in Threads, CloseMark(t)
  PROVE  LockInv'
<1> USE DEF LockInv, CloseMark
<1>1. TypeOK'
    BY DEF TypeOK, Steps, Kinds, States, At, SetState, Exists, GoTo, AllThreads
<1>2. LocksByPrice'
    BY DEF LocksByPrice
<1>3. CreatorsAlone'
    BY DEF CreatorsAlone, Creating, Placing, TypeOK, At, SetState, Exists, GoTo
<1>4. InsertsHoldLock'
    BY DEF InsertsHoldLock, HoldsLock, MyPrice, TypeOK, At, SetState, Exists, GoTo
<1>5. ReleasesAfterMark'
    BY DEF ReleasesAfterMark, TypeOK, At, SetState, Exists, GoTo
<1>6. UnpaidHoldsLock'
    BY DEF UnpaidHoldsLock, Unpaid, At, SetState, Exists, GoTo
<1>7. PlacersApart'
    BY DEF PlacersApart, Placing, TypeOK, At, SetState, Exists, GoTo, AllThreads,
     CreatorsAlone, Creating, ReleasesAfterMark, Unpaid
<1>8. PlacesHoldLock'
    BY DEF PlacesHoldLock, PlacersApart, Placing, HoldsFloat, MyFloat, Unpaid, TypeOK,
     At, SetState, Exists, GoTo, AllThreads, CreatorsAlone, Creating,
     ReleasesAfterMark
<1>9. QED
  BY <1>1, <1>2, <1>3, <1>4, <1>5, <1>6, <1>7, <1>8

\* SupplementMark(t) keeps the invariant.
LEMMA SupplementMarkStep ==
  ASSUME LockInv, NEW t \in Threads, SupplementMark(t)
  PROVE  LockInv'
<1> USE DEF LockInv, SupplementMark
<1>1. TypeOK'
    BY DEF TypeOK, Steps, Kinds, States, At, SetState, Exists, GoTo, AllThreads
<1>2. LocksByPrice'
    BY DEF LocksByPrice
<1>3. CreatorsAlone'
    BY DEF CreatorsAlone, Creating, Placing, TypeOK, At, SetState, Exists, GoTo
<1>4. InsertsHoldLock'
    BY DEF InsertsHoldLock, HoldsLock, MyPrice, TypeOK, At, SetState, Exists, GoTo
<1>5. ReleasesAfterMark'
    BY DEF ReleasesAfterMark, TypeOK, At, SetState, Exists, GoTo
<1>6. UnpaidHoldsLock'
    BY DEF UnpaidHoldsLock, Unpaid, At, SetState, Exists, GoTo
<1>7. PlacersApart'
    BY DEF PlacersApart, Placing, TypeOK, At, SetState, Exists, GoTo, AllThreads,
     CreatorsAlone, Creating, ReleasesAfterMark, Unpaid
<1>8. PlacesHoldLock'
    BY DEF PlacesHoldLock, PlacersApart, Placing, HoldsFloat, MyFloat, Unpaid, TypeOK,
     At, SetState, Exists, GoTo, AllThreads, CreatorsAlone, Creating,
     ReleasesAfterMark
<1>9. QED
  BY <1>1, <1>2, <1>3, <1>4, <1>5, <1>6, <1>7, <1>8

\* Unlock(t) keeps the invariant.
LEMMA UnlockStep ==
  ASSUME LockInv, NEW t \in Threads, Unlock(t)
  PROVE  LockInv'
<1> USE DEF LockInv, Unlock
<1>1. TypeOK'
    BY DEF TypeOK, Steps, Kinds, ReleaseLocks, GoTo, Finish, AllThreads
<1>2. LocksByPrice'
    BY DEF LocksByPrice, ReleaseLocks, GoTo, Finish
<1>3. CreatorsAlone'
    BY AmountLockAssumption DEF CreatorsAlone, Creating, Placing, TypeOK, ReleaseLocks, GoTo,
     Finish, AllThreads
<1>4. InsertsHoldLock'
    BY DEF InsertsHoldLock, HoldsLock, MyPrice, CreatorsAlone, Creating,
     ReleasesAfterMark, TypeOK, ReleaseLocks, GoTo, Finish, AllThreads
<1>5. ReleasesAfterMark'
    BY DEF ReleasesAfterMark, TypeOK, ReleaseLocks, GoTo, Finish
<1>6. UnpaidHoldsLock'
    BY DEF UnpaidHoldsLock, Unpaid, TypeOK, ReleasesAfterMark, ReleaseLocks, GoTo,
     Finish, AllThreads
<1>7. PlacersApart'
    BY AmountLockAssumption DEF PlacersApart, Placing, TypeOK, ReleaseLocks, GoTo,
     Finish, AllThreads, CreatorsAlone, Creating, ReleasesAfterMark, Unpaid
<1>8. PlacesHoldLock'
    BY AmountLockAssumption DEF PlacesHoldLock, PlacersApart, Placing, HoldsFloat,
     MyFloat, Unpaid, TypeOK, ReleaseLocks, GoTo, Finish, AllThreads, CreatorsAlone,
     Creating, ReleasesAfterMark
<1>9. QED
  BY <1>1, <1>2, <1>3, <1>4, <1>5, <1>6, <1>7, <1>8

\* Notify(t) keeps the invariant.
LEMMA NotifyStep ==
  ASSUME LockInv, NEW t \in Threads, Notify(t)
  PROVE  LockInv'
<1> USE DEF LockInv, Notify
<1>1. TypeOK'
    BY AmountLockAssumption DEF TypeOK, ReleasesAfterMark, CreatorsAlone, Creating,
     MyPrice, Row, Lock, Steps, Kinds, States, Finish, AllThreads
<1>2. LocksByPrice'
    BY DEF LocksByPrice
<1>3. CreatorsAlone'
    BY AmountLockAssumption DEF CreatorsAlone, Creating, Placing, TypeOK, Finish, AllThreads
<1>4. InsertsHoldLock'
    BY DEF InsertsHoldLock, HoldsLock, MyPrice, TypeOK, Finish
<1>5. ReleasesAfterMark'
    BY DEF ReleasesAfterMark, TypeOK, Finish
<1>6. UnpaidHoldsLock'
    BY DEF UnpaidHoldsLock, Unpaid
<1>7. PlacersApart'
    BY AmountLockAssumption DEF PlacersApart, Placing, TypeOK, ReleasesAfterMark,
     CreatorsAlone, Creating, Finish, AllThreads, Unpaid
<1>8. PlacesHoldLock'
    BY AmountLockAssumption DEF PlacesHoldLock, PlacersApart, Placing, HoldsFloat,
     MyFloat, Unpaid, TypeOK, ReleasesAfterMark, CreatorsAlone, Creating, Finish,
     AllThreads
<1>9. QED
  BY <1>1, <1>2, <1>3, <1>4, <1>5, <1>6, <1>7, <1>8

\* DeleteOrder(t, o) keeps the invariant.
LEMMA DeleteOrderStep ==
  ASSUME LockInv, NEW t \in Threads, NEW o \in OrderIds, DeleteOrder(t, o)
  PROVE  LockInv'
<1> USE DEF LockInv, DeleteOrder
<1>1. TypeOK'
    BY DEF TypeOK, Steps, Kinds, Begin, Exists, AllThreads
<1>2. LocksByPrice'
    BY DEF LocksByPrice
<1>3. CreatorsAlone'
    BY DEF CreatorsAlone, Creating, Placing, TypeOK, Begin, Exists
<1>4. InsertsHoldLock'
    BY DEF InsertsHoldLock, HoldsLock, MyPrice, TypeOK, Begin, Exists
<1>5. ReleasesAfterMark'
    BY DEF ReleasesAfterMark, TypeOK, Begin, Exists
<1>6. UnpaidHoldsLock'
    BY DEF UnpaidHoldsLock, Unpaid
<1>7. PlacersApart'
    BY DEF PlacersApart, Placing, TypeOK, Begin, Exists, AllThreads, CreatorsAlone,
     Creating, ReleasesAfterMark, Unpaid
<1>8. PlacesHoldLock'
    BY DEF PlacesHoldLock, PlacersApart, Placing, HoldsFloat, MyFloat, Unpaid, TypeOK,
     Begin, Exists, AllThreads, CreatorsAlone, Creating, ReleasesAfterMark
<1>9. QED
  BY <1>1, <1>2, <1>3, <1>4, <1>5, <1>6, <1>7, <1>8

\* DeleteUnlock(t) keeps the invariant.
LEMMA DeleteUnlockStep ==
  ASSUME LockInv, NEW t \in Threads, DeleteUnlock(t)
  PROVE  LockInv'
<1> USE DEF LockInv, DeleteUnlock
<1>1. TypeOK'
    BY DEF TypeOK, ReleasesAfterMark, Steps, States, Row, ReleaseLocks, GoTo, AllThreads
<1>2. LocksByPrice'
    BY DEF LocksByPrice, ReleaseLocks, GoTo
<1>3. CreatorsAlone'
    BY DEF CreatorsAlone, Creating, Placing, TypeOK, ReleaseLocks, GoTo
<1>4. InsertsHoldLock'
    BY DEF InsertsHoldLock, HoldsLock, MyPrice, CreatorsAlone, Creating,
     ReleasesAfterMark, TypeOK, ReleaseLocks, GoTo, AllThreads
<1>5. ReleasesAfterMark'
    BY DEF ReleasesAfterMark, TypeOK, ReleaseLocks, GoTo
<1>6. UnpaidHoldsLock'
    BY DEF UnpaidHoldsLock, Unpaid, TypeOK, ReleasesAfterMark, ReleaseLocks, GoTo,
     AllThreads
<1>7. PlacersApart'
    BY DEF PlacersApart, Placing, TypeOK, ReleasesAfterMark, ReleaseLocks, GoTo,
     AllThreads, CreatorsAlone, Creating, Unpaid
<1>8. PlacesHoldLock'
    BY DEF PlacesHoldLock, PlacersApart, Placing, HoldsFloat, MyFloat, Unpaid, TypeOK,
     ReleasesAfterMark, ReleaseLocks, GoTo, AllThreads, CreatorsAlone, Creating
<1>9. QED
  BY <1>1, <1>2, <1>3, <1>4, <1>5, <1>6, <1>7, <1>8

\* DeleteRow(t) keeps the invariant.
LEMMA DeleteRowStep ==
  ASSUME LockInv, NEW t \in Threads, DeleteRow(t)
  PROVE  LockInv'
<1> USE DEF LockInv, DeleteRow
<1>1. TypeOK'
    BY AmountLockAssumption DEF TypeOK, ReleasesAfterMark, CreatorsAlone, Creating,
     MyPrice, Row, Lock, Steps, Kinds, States, Finish, AllThreads
<1>2. LocksByPrice'
    BY DEF LocksByPrice
<1>3. CreatorsAlone'
    BY AmountLockAssumption DEF CreatorsAlone, Creating, Placing, TypeOK, Finish, AllThreads
<1>4. InsertsHoldLock'
    BY DEF InsertsHoldLock, HoldsLock, MyPrice, TypeOK, Finish
<1>5. ReleasesAfterMark'
    BY DEF ReleasesAfterMark, TypeOK, Finish
<1>6. UnpaidHoldsLock'
    BY DEF UnpaidHoldsLock, Unpaid
<1>7. PlacersApart'
    BY AmountLockAssumption DEF PlacersApart, Placing, TypeOK, ReleasesAfterMark,
     CreatorsAlone, Creating, Finish, AllThreads, Unpaid
<1>8. PlacesHoldLock'
    BY AmountLockAssumption DEF PlacesHoldLock, PlacersApart, Placing, HoldsFloat,
     MyFloat, Unpaid, TypeOK, ReleasesAfterMark, CreatorsAlone, Creating, Finish,
     AllThreads
<1>9. QED
  BY <1>1, <1>2, <1>3, <1>4, <1>5, <1>6, <1>7, <1>8

\* Tick keeps the invariant.
LEMMA TickStep ==
  ASSUME LockInv, Tick
  PROVE  LockInv'
<1> USE DEF LockInv, Tick
<1>1. TypeOK'
    BY DEF TypeOK, Steps, thVars
<1>2. LocksByPrice'
    BY DEF LocksByPrice
<1>3. CreatorsAlone'
    BY DEF CreatorsAlone, Creating, Placing, TypeOK, thVars
<1>4. InsertsHoldLock'
    BY DEF InsertsHoldLock, HoldsLock, MyPrice, TypeOK, thVars
<1>5. ReleasesAfterMark'
    BY DEF ReleasesAfterMark, TypeOK, thVars
<1>6. UnpaidHoldsLock'
    BY DEF UnpaidHoldsLock, Unpaid
<1>7. PlacersApart'
    BY DEF PlacersApart, Placing, TypeOK, thVars, CreatorsAlone, Creating,
     ReleasesAfterMark, Unpaid, AllThreads
<1>8. PlacesHoldLock'
    BY DEF PlacesHoldLock, PlacersApart, Placing, HoldsFloat, MyFloat, Unpaid, TypeOK,
     thVars, CreatorsAlone, Creating, ReleasesAfterMark, AllThreads
<1>9. QED
  BY <1>1, <1>2, <1>3, <1>4, <1>5, <1>6, <1>7, <1>8

\* Crash keeps the invariant.
LEMMA CrashStep ==
  ASSUME LockInv, Crash
  PROVE  LockInv'
<1> USE DEF LockInv, Crash
<1>1. TypeOK'
    BY DEF TypeOK, Steps, Kinds, AllThreads
<1>2. LocksByPrice'
    BY DEF LocksByPrice
<1>3. CreatorsAlone'
    BY DEF CreatorsAlone, Creating, Placing, TypeOK
<1>4. InsertsHoldLock'
    BY DEF InsertsHoldLock, HoldsLock, MyPrice, TypeOK
<1>5. ReleasesAfterMark'
    BY DEF ReleasesAfterMark, TypeOK
<1>6. UnpaidHoldsLock'
    BY DEF UnpaidHoldsLock, Unpaid
<1>7. PlacersApart'
    BY DEF PlacersApart, Placing, TypeOK, AllThreads, CreatorsAlone, Creating,
     ReleasesAfterMark, Unpaid
<1>8. PlacesHoldLock'
    BY DEF PlacesHoldLock, PlacersApart, Placing, HoldsFloat, MyFloat, Unpaid, TypeOK,
     AllThreads, CreatorsAlone, Creating, ReleasesAfterMark
<1>9. QED
  BY <1>1, <1>2, <1>3, <1>4, <1>5, <1>6, <1>7, <1>8

-----------------------------------------------------------------------------
(* The theorems. *)

\* What an arriving request may be: the parameters the step lemmas ask for.
LEMMA Requests ==
  /\ \A p \in PayIds, ty \in PayTypes, c \in Amounts :
       [payId |-> p, type |-> ty, cents |-> c] \in CreateRequest
  /\ \A ty \in PayTypes, c \in PushAmounts : [type |-> ty, cents |-> c] \in PushRequest
BY AmountLockAssumption DEF CreateRequest, PushRequest, Cents

\* Every step of the specification keeps the invariant.
LEMMA NextLockInv == LockInv /\ [Next]_vars => LockInv'
<1> SUFFICES ASSUME LockInv, [Next]_vars
             PROVE  LockInv'
  OBVIOUS
<1>1. ASSUME NEW t \in Threads, Arrive(t)
      PROVE  LockInv'
  BY <1>1, Requests, CloseExpiredStep, CreateOrderStep, GatewayInsertStep, PushStep,
     CloseOrderStep, SupplementStep, DeleteOrderStep DEF Arrive
<1>2. ASSUME NEW t \in Threads, Continue(t)
      PROVE  LockInv'
  <2>0. t \in AllThreads
    BY DEF AllThreads
  <2>1. CASE Sweep(t) \/ SweepUnlock(t) \/ SweepDone(t)
    BY <2>0, <2>1, SweepStep, SweepUnlockStep, SweepDoneStep
  <2>2. CASE CreateCheck(t) \/ CreateLock(t) \/ CreateVerify(t)
    BY <2>2, CreateCheckStep, CreateLockStep, CreateVerifyStep
  <2>3. CASE CreateInsert(t) \/ CreateInsertFails(t) \/ CreateAbort(t)
    BY <2>3, CreateInsertStep, CreateInsertFailsStep, CreateAbortStep
  <2>4. CASE PushMark(t) \/ CloseMark(t) \/ SupplementMark(t)
    BY <2>4, PushMarkStep, CloseMarkStep, SupplementMarkStep
  <2>5. CASE Unlock(t) \/ Notify(t) \/ DeleteUnlock(t) \/ DeleteRow(t)
    BY <2>5, UnlockStep, NotifyStep, DeleteUnlockStep, DeleteRowStep
  <2>6. CASE PluginLock(t) \/ PluginVerify(t) \/ PluginExist(t) \/ PluginPlaced(t)
    BY <2>6, PluginLockStep, PluginVerifyStep, PluginExistStep, PluginPlacedStep
  <2>7. CASE PluginBare(t) \/ PluginNoQrcode(t) \/ PluginUnlock(t) \/ PluginRefused(t)
    BY <2>7, PluginBareStep, PluginNoQrcodeStep, PluginUnlockStep, PluginRefusedStep
  <2>8. QED
    BY <1>2, <2>1, <2>2, <2>3, <2>4, <2>5, <2>6, <2>7 DEF Continue
<1>3. CASE CronClose \/ CronSweep \/ SweepUnlock(Cron) \/ SweepDone(Cron)
  BY <1>3, CronCloseStep, CronSweepStep, SweepUnlockStep, SweepDoneStep DEF AllThreads
<1>4. CASE CronCleanup \/ CleanRow \/ CleanLock \/ CleanDone
  BY <1>4, CronCleanupStep, CleanRowStep, CleanLockStep, CleanDoneStep
<1>5. CASE Tick \/ Crash
  BY <1>5, TickStep, CrashStep
<1>6. CASE UNCHANGED vars
  BY <1>6 DEF vars, LockInv, TypeOK, LocksByPrice, CreatorsAlone, Creating, InsertsHoldLock,
     HoldsLock, MyPrice, PlacersApart, PlacesHoldLock, Placing, HoldsFloat, MyFloat,
     ReleasesAfterMark, UnpaidHoldsLock, Unpaid
<1>7. QED
  BY <1>1, <1>2, <1>3, <1>4, <1>5, <1>6 DEF Next

\* LockInv, and with it the type invariant, holds in every reachable state.
THEOREM LockInvHolds == Spec => []LockInv
<1>1. QED
  BY InitLockInv, NextLockInv, PTL DEF Spec

\* Two unpaid orders hold the locks of their two amounts, and a price has one
\* lock row: createOrder, the timers, the pushes and the admin never leave two
\* unpaid orders with one amount, whatever the number of threads and restarts.
THEOREM NoSharedAmount == Spec => []UniqueOpenAmount
<1>1. LockInv => UniqueOpenAmount
  BY DEF LockInv, LocksByPrice, UnpaidHoldsLock, UniqueOpenAmount
<1>2. QED
  BY <1>1, LockInvHolds, PTL

-----------------------------------------------------------------------------
(* Fixed amounts: with payQf = "0" a payment reaches its own order. *)

\* A handler that starts leaves the rows alone and tries no other amount.
LEMMA BeginFixed ==
  ASSUME LockInv, FixedPrice, NEW t \in AllThreads, NEW k, NEW step, NEW o, NEW rows,
         NEW request, Begin(t, k, step, o, rows, request), UNCHANGED <<state, row>>,
         (k \in {"push", "vmq"} /\ step = "mark") => row[o].amount = request.cents,
         step \notin FloatSteps
  PROVE  FixedPrice'
BY DEF LockInv, TypeOK, FixedPrice, Begin, At

\* So does a handler that ends or moves on to a step that is not "mark".
LEMMA MoveFixed ==
  ASSUME LockInv, FixedPrice, NEW t \in AllThreads, UNCHANGED <<row>>,
         \A o \in OrderIds : state'[o] # "absent" => state[o] # "absent",
         \A u \in AllThreads \ {t} : pc'[u] = pc[u] /\ kind'[u] = kind[u] /\ cur'[u] = cur[u]
                                      /\ arg'[u] = arg[u] /\ try'[u] = try[u],
         pc'[t] # "mark", pc'[t] \notin FloatSteps, try'[t] = 0
  PROVE  FixedPrice'
BY DEF FixedPrice, At

\* Without floating, every step keeps FixedPrice.
LEMMA NextFixed ==
  ASSUME PayQf = FALSE, LockInv, FixedPrice, [Next]_vars
  PROVE  FixedPrice'
<1>1. ASSUME NEW t \in Threads, Arrive(t)
      PROVE  FixedPrice'
  <2>0. t \in AllThreads
    BY DEF AllThreads
  <2>1. CASE CloseExpired(t)
    BY <2>0, <2>1, BeginFixed DEF FloatSteps, CloseExpired
  <2>2. ASSUME NEW request, CreateOrder(t, request)
        PROVE  FixedPrice'
    BY <2>0, <2>2, BeginFixed DEF FloatSteps, CreateOrder
  <2>3. ASSUME NEW k, NEW request, Push(t, k, request)
        PROVE  FixedPrice'
    <3>1. PICK o \in OldestMatching(request.type, request.cents) :
            Begin(t, k, "mark", o, {}, request)
      BY <2>3 DEF Push
    <3>2. row[o].amount = request.cents
      BY DEF OldestMatching, Matching, Unpaid, FixedPrice
    <3>3. QED
      BY <2>0, <2>3, <3>1, <3>2, BeginFixed DEF FloatSteps, Push
  <2>4. ASSUME NEW o \in OrderIds, CloseOrder(t, o) \/ Supplement(t, o) \/ DeleteOrder(t, o)
        PROVE  FixedPrice'
    BY <2>0, <2>4, BeginFixed DEF FloatSteps, CloseOrder, Supplement, DeleteOrder
  <2>5. ASSUME NEW request, GatewayInsert(t, request)
        PROVE  FixedPrice'
    BY <2>0, <2>5 DEF GatewayInsert, FreshIds, NewRow, Begin, FixedPrice, FloatSteps, At,
       LockInv, TypeOK
  <2>6. QED
    BY <1>1, <2>1, <2>2, <2>3, <2>4, <2>5 DEF Arrive
<1>2. ASSUME NEW t \in Threads, CreateInsert(t)
      PROVE  FixedPrice'
  <2>1. /\ t \in AllThreads
        /\ cur[t] \in OrderIds
        /\ \A u \in AllThreads \ {t} : cur[u] # cur[t]
        /\ arg[t] \in CreateRequest
    BY <1>2 DEF CreateInsert, LockInv, CreatorsAlone, Creating, AllThreads
  <2>2. MyPrice(t) = arg[t].cents
    BY <2>1 DEF MyPrice, Candidate, FixedPrice
  <2>3. QED
    BY <1>2, <2>1, <2>2 DEF CreateInsert, NewRow, Finish, FixedPrice, FloatSteps, At, LockInv,
       TypeOK
<1>3. ASSUME NEW t \in Threads,
             Sweep(t) \/ CreateCheck(t) \/ CreateLock(t) \/ CreateVerify(t)
             \/ CreateInsertFails(t) \/ CreateAbort(t)
      PROVE  FixedPrice'
  <2>1. t \in AllThreads
    BY DEF AllThreads
  <2>2. try[t] = 0
    BY <2>1 DEF FixedPrice
  <2>3. CASE Sweep(t)
    BY <2>1, <2>2, <2>3, MoveFixed DEF FloatSteps, Sweep, SetState, Exists, LockInv,
       TypeOK, ReleasesAfterMark
  <2>4. CASE CreateCheck(t)
    BY <2>1, <2>2, <2>4, MoveFixed DEF FloatSteps, CreateCheck, Finish, LockInv, TypeOK
  <2>5. CASE CreateLock(t) \/ CreateInsertFails(t)
    BY <2>1, <2>2, <2>5, MoveFixed DEF FloatSteps, CreateLock, CreateInsertFails, GoTo,
       LockInv, TypeOK
  <2>6. CASE CreateVerify(t) \/ CreateAbort(t)
    BY <2>1, <2>2, <2>6, MoveFixed DEF FloatSteps, CreateVerify, CreateAbort, GoTo,
       Finish, LockInv, TypeOK
  <2>7. QED
    BY <1>3, <2>3, <2>4, <2>5, <2>6
<1>4. ASSUME NEW t \in AllThreads, SweepUnlock(t) \/ SweepDone(t)
      PROVE  FixedPrice'
  BY <1>4, MoveFixed DEF FloatSteps, SweepUnlock, SweepDone, GoTo, Finish, FixedPrice,
     LockInv, TypeOK
<1>5. ASSUME NEW t \in Threads,
             PushMark(t) \/ CloseMark(t) \/ SupplementMark(t) \/ Unlock(t) \/ Notify(t)
             \/ DeleteUnlock(t) \/ DeleteRow(t)
      PROVE  FixedPrice'
  <2>1. t \in AllThreads /\ try[t] = 0
    BY DEF AllThreads, FixedPrice
  <2>2. CASE PushMark(t) \/ CloseMark(t) \/ SupplementMark(t)
    BY <2>1, <2>2, MoveFixed DEF FloatSteps, PushMark, CloseMark, SupplementMark, SetState,
       SetStateIfUnpaid, Exists, Unpaid, GoTo, LockInv, TypeOK
  <2>3. CASE Unlock(t) \/ Notify(t) \/ DeleteUnlock(t)
    BY <2>1, <2>3, MoveFixed DEF FloatSteps, Unlock, Notify, DeleteUnlock, GoTo,
       Finish, LockInv, TypeOK
  <2>4. CASE DeleteRow(t)
    BY <2>1, <2>4, MoveFixed DEF FloatSteps, DeleteRow, Finish, LockInv, TypeOK, ReleasesAfterMark
  <2>5. QED
    BY <1>5, <2>2, <2>3, <2>4
<1>6. CASE CronClose \/ CronCleanup
  BY <1>6, BeginFixed DEF FloatSteps, CronClose, CronCleanup, AllThreads
<1>7. CASE CronSweep \/ CleanRow \/ CleanLock \/ CleanDone
  <2>1. Cron \in AllThreads /\ try[Cron] = 0
    BY DEF AllThreads, FixedPrice
  <2>2. CASE CronSweep
    BY <2>1, <2>2, MoveFixed DEF FloatSteps, CronSweep, SetStateIfUnpaid, Unpaid, LockInv, TypeOK
  <2>3. CASE CleanRow
    BY <2>1, <2>3, MoveFixed DEF FloatSteps, CleanRow, LockInv, TypeOK, ReleasesAfterMark
  <2>4. CASE CleanLock \/ CleanDone
    BY <2>1, <2>4, MoveFixed DEF FloatSteps, CleanLock, CleanDone, Finish, LockInv, TypeOK
  <2>5. QED
    BY <1>7, <2>2, <2>3, <2>4
<1>8. CASE Tick \/ Crash \/ UNCHANGED vars
  BY <1>8 DEF Tick, Crash, vars, thVars, FixedPrice, FloatSteps, At
<1>9. ASSUME NEW t \in Threads,
             PluginLock(t) \/ PluginVerify(t) \/ PluginExist(t) \/ PluginPlaced(t)
             \/ PluginBare(t) \/ PluginNoQrcode(t) \/ PluginUnlock(t) \/ PluginRefused(t)
      PROVE  FixedPrice'
  <2>1. t \in AllThreads /\ try[t] = 0 /\ pc[t] \notin FloatSteps
    BY DEF AllThreads, FixedPrice
  <2>2. CASE PluginLock(t) \/ PluginVerify(t) \/ PluginExist(t) \/ PluginPlaced(t)
    BY <2>1, <2>2 DEF PluginLock, PluginVerify, PluginExist, PluginPlaced, FloatSteps
  <2>3. CASE PluginBare(t) \/ PluginNoQrcode(t) \/ PluginUnlock(t)
    BY <2>1, <2>3, MoveFixed DEF FloatSteps, PluginBare, PluginNoQrcode, PluginUnlock, GoTo,
       Finish, LockInv, TypeOK
  <2>4. CASE PluginRefused(t)
    BY <2>1, <2>4, MoveFixed, PlacerKnown DEF FloatSteps, PluginRefused, Placing, SetState,
       Exists, Finish, LockInv, TypeOK
  <2>5. QED
    BY <1>9, <2>2, <2>3, <2>4
<1>10. QED
  BY <1>1, <1>2, <1>3, <1>4, <1>5, <1>6, <1>7, <1>8, <1>9 DEF Next, Continue, AllThreads

\* With payQf = "0" a push never marks an order while another unpaid order
\* shows the pushed amount, for any number of orders, threads and restarts.
THEOREM FixedNoMisattribution ==
  ASSUME PayQf = FALSE
  PROVE  Spec => []NoMisattribution
<1>1. Init => FixedPrice
  BY DEF Init, FixedPrice, FloatSteps, At
<1>2. LockInv /\ FixedPrice /\ [Next]_vars => FixedPrice'
  BY NextFixed
<1>3. LockInv /\ FixedPrice => NoMisattribution
  <2> SUFFICES ASSUME LockInv, FixedPrice, NEW t \in AllThreads,
                      At(t, {"push", "vmq"}, "mark"), Unpaid(cur[t]), cur[t] \notin halfDeleted \cup unplaced,
                      NEW o \in OrderIds \ (halfDeleted \cup unplaced),
                      Unpaid(o), row[o].real = arg[t].cents
               PROVE  o = cur[t]
    BY DEF NoMisattribution
  <2>1. cur[t] \in OrderIds
    BY DEF LockInv, ReleasesAfterMark, At
  <2>2. row[cur[t]].real = arg[t].cents
    BY <2>1 DEF FixedPrice, Unpaid
  <2>3. /\ [price |-> row[o].real, oid |-> o] \in locks
        /\ [price |-> row[cur[t]].real, oid |-> cur[t]] \in locks
    BY <2>1 DEF LockInv, UnpaidHoldsLock
  <2>4. QED
    BY <2>2, <2>3 DEF LockInv, LocksByPrice
<1>4. QED
  BY <1>1, <1>2, <1>3, LockInvHolds, PTL DEF Spec

-----------------------------------------------------------------------------
(***************************************************************************)
(* Until the first restart no lock is forgotten.  Each handler knows of the *)
(* locks of the order it works on: the inductive invariant says which.     *)
(***************************************************************************)
NoLock(o) == \A l \in locks : l.oid # o

Releasing == {"lock", "verify", "insert", "abort", "sweepUnlock", "unlock", "delUnlock"}

\* Who has yet to lock holds no lock, who has tried holds none but the one it tried;
\* the clean-up has closed orders only, and deleteOrder has released what it deletes.
Tidy(t) ==
  /\ pc[t] \in {"lock", "pluginLock", "exist", "refused"} => NoLock(cur[t])
  /\ pc[t] \in {"verify", "insert", "abort"} =>
       \A l \in locks : l.oid = cur[t] => l.price = MyPrice(t)
  /\ pc[t] = "pluginVerify" => \A l \in locks : l.oid = cur[t] => l.price = MyFloat(t)
  /\ pc[t] = "delRow" => cur[t] \in halfDeleted
  /\ pc[t] \in {"cleanRow", "cleanLock"} => \A o \in todo[t] : ~Unpaid(o)

LeakInv ==
  /\ NoLeakedLock
  /\ \A o \in unplaced : state[o] # "absent"
  /\ \A l \in locks : l.oid \in halfDeleted => l.oid \in unplaced
  /\ \A t \in AllThreads : Tidy(t)

\* The other threads stay where they are.
Others(t) ==
  \A u \in AllThreads \ {t} :
    /\ pc'[u] = pc[u] /\ cur'[u] = cur[u] /\ todo'[u] = todo[u]
    /\ arg'[u] = arg[u] /\ try'[u] = try[u]

\* An order leaves the table for good, and is entered unpaid.
Onward ==
  /\ \A o \in OrderIds : state[o] # "absent" => state'[o] # "absent"
  /\ \A o \in OrderIds : Unpaid(o)' => state[o] \in {"absent", "unpaid"}

\* What t knew of a lock, or the table of orders, is still known.
StillKnown(t) ==
  \A l \in locks' :
    Unpaid(l.oid) \/ (cur[t] = l.oid /\ pc[t] \in Releasing) \/ l.oid \in unplaced =>
      Unpaid(l.oid)' \/ (cur'[t] = l.oid /\ pc'[t] \in Releasing) \/ l.oid \in unplaced'

\* A step of t that takes no lock
LEMMA NoneTaken ==
  ASSUME LockInv, LeakInv, NEW t \in AllThreads, Others(t), Onward, StillKnown(t), Tidy(t)',
         locks' \subseteq locks, halfDeleted \subseteq halfDeleted',
         \A o \in unplaced' : o \in unplaced \/ state'[o] # "absent",
         \A l \in locks' : l.oid \in halfDeleted' =>
           l.oid \in halfDeleted /\ (l.oid \in unplaced => l.oid \in unplaced')
  PROVE  LeakInv'
<1>0. unplaced \subseteq OrderIds /\ locks \subseteq Lock
      /\ \A u \in AllThreads : \A o \in todo[u] : o \in OrderIds /\ state[o] # "absent"
  BY DEF LockInv, TypeOK, ReleasesAfterMark
<1>1. NoLeakedLock'
  <2> SUFFICES ASSUME NEW l \in locks'
               PROVE  \/ Unpaid(l.oid)'
                      \/ \E u \in AllThreads : cur'[u] = l.oid /\ pc'[u] \in Releasing
                      \/ l.oid \in unplaced'
    BY DEF NoLeakedLock, Releasing
  <2>1. \/ Unpaid(l.oid)
        \/ \E u \in AllThreads : cur[u] = l.oid /\ pc[u] \in Releasing
        \/ l.oid \in unplaced
    BY DEF LeakInv, NoLeakedLock, Releasing
  <2>2. CASE \E u \in AllThreads \ {t} : cur[u] = l.oid /\ pc[u] \in Releasing
    BY <2>2 DEF Others
  <2>3. CASE Unpaid(l.oid) \/ (cur[t] = l.oid /\ pc[t] \in Releasing) \/ l.oid \in unplaced
    BY <2>3 DEF StillKnown
  <2>4. QED
    BY <2>1, <2>2, <2>3
<1>2. (\A o \in unplaced : state[o] # "absent")'
  BY <1>0 DEF LeakInv, Onward
<1>3. (\A l \in locks : l.oid \in halfDeleted => l.oid \in unplaced)'
  BY DEF LeakInv
<1>4. ASSUME NEW u \in AllThreads \ {t} PROVE Tidy(u)'
  <2>1. /\ pc'[u] = pc[u] /\ cur'[u] = cur[u] /\ todo'[u] = todo[u]
        /\ MyPrice(u)' = MyPrice(u) /\ MyFloat(u)' = MyFloat(u)
    BY DEF Others, MyPrice, MyFloat
  <2>2. Tidy(u)
    BY DEF LeakInv
  <2>3. \A o \in todo[u] : ~Unpaid(o) => ~Unpaid(o)'
    BY <1>0 DEF Onward, Unpaid
  <2>4. QED
    BY <2>1, <2>2, <2>3 DEF Tidy, NoLock
<1>5. QED
  BY <1>1, <1>2, <1>3, <1>4 DEF LeakInv

\* A step that leaves the tables alone
LEMMA QuietMove ==
  ASSUME LockInv, LeakInv, NEW t \in AllThreads, Others(t), Tidy(t)',
         UNCHANGED <<state, locks, halfDeleted, unplaced>>,
         \/ pc[t] \notin Releasing \/ NoLock(cur[t])
         \/ pc'[t] \in Releasing /\ cur'[t] = cur[t]
  PROVE  LeakInv'
<1>1. Onward
  BY DEF Onward, Unpaid
<1>2. StillKnown(t)
  BY DEF StillKnown, Unpaid, NoLock
<1>3. QED
  BY <1>1, <1>2, NoneTaken

\* A step that releases the locks of the order t works on
LEMMA ReleaseMove ==
  ASSUME LockInv, LeakInv, NEW t \in AllThreads, Others(t), Tidy(t)', ReleaseLocks(cur[t]),
         UNCHANGED <<state, unplaced>>, halfDeleted' = halfDeleted \/ halfDeleted' = halfDeleted \cup {cur[t]}
  PROVE  LeakInv'
<1>1. locks' \subseteq locks /\ \A l \in locks' : l.oid # cur[t]
  BY DEF ReleaseLocks
<1>2. Onward
  BY DEF Onward, Unpaid
<1>3. StillKnown(t)
  BY <1>1 DEF StillKnown, Unpaid
<1>4. \A l \in locks' : l.oid \in halfDeleted' => l.oid \in halfDeleted /\ (l.oid \in unplaced => l.oid \in unplaced')
  BY <1>1
<1>5. halfDeleted \subseteq halfDeleted' /\ \A o \in unplaced' : o \in unplaced \/ state'[o] # "absent"
  OBVIOUS
<1>6. QED
  BY <1>1, <1>2, <1>3, <1>4, <1>5, NoneTaken

\* A step that takes a lock for the order t creates or places
LEMMA LockMove ==
  ASSUME LockInv, LeakInv, NEW t \in AllThreads, Others(t), Tidy(t)',
         UNCHANGED <<state, halfDeleted, unplaced>>, cur'[t] = cur[t], todo'[t] = todo[t],
         pc[t] \in {"lock", "pluginLock"}, pc'[t] = IF pc[t] = "lock" THEN "verify" ELSE "pluginVerify",
         \A l \in locks' : l \in locks \/ l.oid = cur[t]
  PROVE  LeakInv'
<1>1. \A u \in AllThreads \ {t} : Creating(u) \/ Placing(u) => cur[u] # cur[t]
  BY DEF LockInv, CreatorsAlone, PlacersApart, Creating, Placing
<1>2. cur[t] \in OrderIds /\ (pc[t] = "lock" => state[cur[t]] = "absent") /\ (pc[t] = "pluginLock" => cur[t] \in unplaced)
  BY DEF LockInv, CreatorsAlone, PlacersApart, Creating, Placing, TypeOK
<1>3. NoLeakedLock'
  <2> SUFFICES ASSUME NEW l \in locks'
               PROVE  \/ Unpaid(l.oid)'
                      \/ \E u \in AllThreads : cur'[u] = l.oid /\ pc'[u] \in Releasing
                      \/ l.oid \in unplaced'
    BY DEF NoLeakedLock, Releasing
  <2>1. CASE l.oid = cur[t]
    BY <1>2, <2>1 DEF Releasing
  <2>2. CASE l.oid # cur[t]
    <3>1. \/ Unpaid(l.oid)
          \/ \E u \in AllThreads : cur[u] = l.oid /\ pc[u] \in Releasing
          \/ l.oid \in unplaced
      BY <2>2 DEF LeakInv, NoLeakedLock, Releasing
    <3>2. QED
      BY <2>2, <3>1 DEF Others, Unpaid
  <2>3. QED
    BY <2>1, <2>2
<1>4. (\A o \in unplaced : state[o] # "absent")'
  BY DEF LeakInv
<1>5. (\A l \in locks : l.oid \in halfDeleted => l.oid \in unplaced)'
  BY <1>2 DEF LeakInv, LockInv, UnpaidHoldsLock
<1>6. ASSUME NEW u \in AllThreads \ {t} PROVE Tidy(u)'
  <2>1. /\ pc'[u] = pc[u] /\ cur'[u] = cur[u] /\ todo'[u] = todo[u]
        /\ MyPrice(u)' = MyPrice(u) /\ MyFloat(u)' = MyFloat(u)
    BY DEF Others, MyPrice, MyFloat
  <2>2. Tidy(u)
    BY DEF LeakInv
  <2>3. pc[u] \in {"lock", "pluginLock", "exist", "refused", "verify", "insert", "abort", "pluginVerify"} =>
          \A l \in locks' : l.oid = cur[u] => l \in locks
    BY <1>1 DEF Creating, Placing
  <2>4. QED
    BY <2>1, <2>2, <2>3 DEF Tidy, NoLock, Unpaid
<1>7. QED
  BY <1>3, <1>4, <1>5, <1>6 DEF LeakInv

\* What the bookkeeping does to t, and that it leaves the others alone
LEMMA Bookkeeping ==
  ASSUME LockInv, NEW t \in AllThreads
  PROVE  /\ \A k, step, o, rows, request : Begin(t, k, step, o, rows, request) =>
              Others(t) /\ pc[t] = "idle" /\ pc'[t] = step /\ cur'[t] = o /\ todo'[t] = rows
         /\ \A step : GoTo(t, step) =>
              /\ Others(t) /\ pc'[t] = step /\ cur'[t] = cur[t] /\ todo'[t] = todo[t]
              /\ MyPrice(t)' = MyPrice(t) /\ MyFloat(t)' = MyFloat(t)
         /\ Finish(t) => Others(t) /\ pc'[t] = "idle"
<1>1. /\ pc \in [AllThreads -> Steps] /\ cur \in [AllThreads -> OrderIds \cup {NoOrder}]
      /\ todo \in [AllThreads -> SUBSET OrderIds] /\ try \in [AllThreads -> Nat]
      /\ arg \in [AllThreads -> CreateRequest \cup PushRequest \cup {NoRequest}]
  BY DEF LockInv, TypeOK
<1>2. ASSUME NEW k, NEW step, NEW o, NEW rows, NEW request, Begin(t, k, step, o, rows, request)
      PROVE  Others(t) /\ pc[t] = "idle" /\ pc'[t] = step /\ cur'[t] = o /\ todo'[t] = rows
  BY <1>1, <1>2 DEF Begin, Others
<1>3. ASSUME NEW step, GoTo(t, step)
      PROVE  /\ Others(t) /\ pc'[t] = step /\ cur'[t] = cur[t] /\ todo'[t] = todo[t]
             /\ MyPrice(t)' = MyPrice(t) /\ MyFloat(t)' = MyFloat(t)
  BY <1>1, <1>3 DEF GoTo, Others, MyPrice, MyFloat
<1>4. ASSUME Finish(t) PROVE Others(t) /\ pc'[t] = "idle"
  BY <1>1, <1>4 DEF Finish, Others
<1>5. QED
  BY <1>2, <1>3, <1>4

\* An order id that makeOrderId returns has no lock.
LEMMA FreshHasNone ==
  ASSUME LockInv, LeakInv, NEW o \in FreshIds
  PROVE  NoLock(o) /\ o \in OrderIds /\ state[o] = "absent" /\ o \notin unplaced /\ o \notin halfDeleted
<1>1. o \in OrderIds /\ state[o] = "absent" /\ \A u \in AllThreads : cur[u] # o
  BY DEF FreshIds
<1>2. o \notin unplaced /\ o \notin halfDeleted
  BY <1>1 DEF LeakInv, LockInv, UnpaidHoldsLock
<1>3. QED
  BY <1>1, <1>2 DEF LeakInv, NoLeakedLock, NoLock, Unpaid

\* Requests that only read when they arrive
LEMMA BeginLeak ==
  ASSUME LockInv, LeakInv, NEW t \in AllThreads, NEW k, NEW step \in {"sweep", "mark", "delUnlock"},
         NEW o, NEW rows, NEW request, Begin(t, k, step, o, rows, request),
         UNCHANGED <<state, locks, halfDeleted, unplaced>>
  PROVE  LeakInv'
<1>1. Others(t) /\ pc[t] = "idle" /\ pc'[t] = step
  BY Bookkeeping
<1>2. Tidy(t)'
  BY <1>1 DEF Tidy
<1>3. QED
  BY <1>1, <1>2, QuietMove DEF Releasing

LEMMA CleanupLeak ==
  ASSUME LockInv, LeakInv, CronCleanup
  PROVE  LeakInv'
<1>1. Cron \in AllThreads
  BY DEF AllThreads
<1>2. /\ Others(Cron) /\ pc[Cron] = "idle" /\ pc'[Cron] = "cleanRow" /\ todo'[Cron] = Old
      /\ UNCHANGED <<state, locks, halfDeleted, unplaced>>
  BY <1>1, Bookkeeping DEF CronCleanup
<1>3. Tidy(Cron)'
  BY <1>2 DEF Tidy, Old, Unpaid
<1>4. QED
  BY <1>1, <1>2, <1>3, QuietMove DEF Releasing

LEMMA GatewayInsertLeak ==
  ASSUME LockInv, LeakInv, NEW t \in Threads, NEW request, GatewayInsert(t, request)
  PROVE  LeakInv'
<1>0. t \in AllThreads
  BY DEF AllThreads
<1>1. PICK o \in FreshIds, step \in {"pluginLock", "bare", "refused"} :
        /\ Begin(t, "plugin", step, o, {}, request)
        /\ state' = [state EXCEPT ![o] = "unpaid"]
        /\ unplaced' = unplaced \cup {o}
  BY DEF GatewayInsert
<1>2. NoLock(o) /\ o \in OrderIds /\ state[o] = "absent" /\ o \notin unplaced /\ o \notin halfDeleted
  BY FreshHasNone
<1>3. Others(t) /\ pc[t] = "idle" /\ pc'[t] = step /\ cur'[t] = o /\ UNCHANGED <<locks, halfDeleted>>
  BY <1>0, <1>1, Bookkeeping DEF GatewayInsert
<1>4. state'[o] = "unpaid" /\ \A p \in OrderIds \ {o} : state'[p] = state[p]
  BY <1>1, <1>2 DEF LockInv, TypeOK
<1>5. Tidy(t)'
  BY <1>2, <1>3 DEF Tidy, NoLock
<1>6. Onward
  BY <1>2, <1>4 DEF Onward, Unpaid
<1>7. StillKnown(t)
  <2>1. \A l \in locks : l.oid \in OrderIds
    BY DEF LockInv, TypeOK, Lock
  <2>2. QED
    BY <1>1, <1>3, <1>4, <2>1 DEF StillKnown, Unpaid, Releasing
<1>8. /\ \A p \in unplaced' : p \in unplaced \/ state'[p] # "absent"
      /\ \A l \in locks' : l.oid \in halfDeleted' =>
           l.oid \in halfDeleted /\ (l.oid \in unplaced => l.oid \in unplaced')
  BY <1>1, <1>3, <1>4
<1>9. locks' \subseteq locks /\ halfDeleted \subseteq halfDeleted'
  BY <1>3
<1>10. QED
  BY <1>0, <1>3, <1>5, <1>6, <1>7, <1>8, <1>9, NoneTaken

\* The sweeps, and what marks an order before releasing its lock
LEMMA MarkLeak ==
  ASSUME LockInv, LeakInv, NEW t \in AllThreads, NEW o \in OrderIds, NEW s \in {"paid", "closed"},
         Others(t), SetState(o, s) \/ SetStateIfUnpaid(o, s),
         pc[t] \in {"sweep", "mark"}, pc'[t] \in {"sweepUnlock", "unlock"}, cur'[t] = o,
         UNCHANGED <<locks, halfDeleted, unplaced>>
  PROVE  LeakInv'
<1>1. Tidy(t)'
  BY DEF Tidy
<1>2. /\ state'[o] = state[o] \/ (Exists(o) /\ state'[o] = s)
      /\ \A p \in OrderIds \ {o} : state'[p] = state[p]
  BY DEF SetState, SetStateIfUnpaid, Exists, Unpaid, LockInv, TypeOK
<1>3. Onward
  BY <1>2 DEF Onward, Unpaid, Exists
<1>4. StillKnown(t)
  <2>1. \A l \in locks : l.oid \in OrderIds
    BY DEF LockInv, TypeOK, Lock
  <2>2. QED
    BY <1>2, <2>1 DEF StillKnown, Unpaid, Releasing
<1>5. /\ locks' \subseteq locks /\ halfDeleted \subseteq halfDeleted'
      /\ \A p \in unplaced' : p \in unplaced \/ state'[p] # "absent"
      /\ \A l \in locks' : l.oid \in halfDeleted' =>
           l.oid \in halfDeleted /\ (l.oid \in unplaced => l.oid \in unplaced')
  OBVIOUS
<1>6. QED
  BY <1>1, <1>3, <1>4, <1>5, NoneTaken

LEMMA SweepLeak ==
  ASSUME LockInv, LeakInv, NEW t \in AllThreads, Sweep(t) \/ (t = Cron /\ CronSweep)
  PROVE  LeakInv'
<1>1. PICK o \in todo[t] :
        /\ SetState(o, "closed") \/ SetStateIfUnpaid(o, "closed")
        /\ cur' = [cur EXCEPT ![t] = o]
        /\ todo' = [todo EXCEPT ![t] = todo[t] \ {o}]
        /\ pc' = [pc EXCEPT ![t] = "sweepUnlock"] /\ pc[t] = "sweep"
        /\ UNCHANGED <<locks, halfDeleted, unplaced, arg, try>>
  BY DEF Sweep, CronSweep, At
<1>2. o \in OrderIds
  BY DEF LockInv, TypeOK
<1>3. Others(t) /\ pc'[t] = "sweepUnlock" /\ cur'[t] = o
  BY <1>1 DEF Others, LockInv, TypeOK
<1>4. QED
  BY <1>1, <1>2, <1>3, MarkLeak

LEMMA HandlerMarkLeak ==
  ASSUME LockInv, LeakInv, NEW t \in AllThreads, PushMark(t) \/ CloseMark(t) \/ SupplementMark(t)
  PROVE  LeakInv'
<1>1. /\ pc[t] = "mark" /\ GoTo(t, "unlock") /\ UNCHANGED <<locks, halfDeleted, unplaced>>
      /\ \E s \in {"paid", "closed"} : SetState(cur[t], s) \/ SetStateIfUnpaid(cur[t], s)
  BY DEF PushMark, CloseMark, SupplementMark, At
<1>2. cur[t] \in OrderIds
  BY <1>1 DEF LockInv, ReleasesAfterMark
<1>3. Others(t) /\ pc'[t] = "unlock" /\ cur'[t] = cur[t]
  BY <1>1, Bookkeeping
<1>4. QED
  BY <1>1, <1>2, <1>3, MarkLeak

\* What releases locks
LEMMA ReleaseLeak ==
  ASSUME LockInv, LeakInv, NEW t \in AllThreads,
         \/ SweepUnlock(t) \/ (t = Cron /\ CleanLock) \/ CreateAbort(t)
         \/ PluginUnlock(t) \/ Unlock(t) \/ DeleteUnlock(t)
  PROVE  LeakInv'
<1>1. /\ ReleaseLocks(cur[t]) /\ UNCHANGED <<state, unplaced>>
      /\ (halfDeleted' = halfDeleted \/ halfDeleted' = halfDeleted \cup {cur[t]})
  BY DEF SweepUnlock, CleanLock, CreateAbort, PluginUnlock, Unlock, DeleteUnlock
<1>2. \A l \in locks' : l.oid # cur[t]
  BY <1>1 DEF ReleaseLocks
<1>3. CASE SweepUnlock(t)
  <2>1. Others(t) /\ pc'[t] = "sweep"
    BY <1>3 DEF SweepUnlock, Others, LockInv, TypeOK
  <2>2. Tidy(t)'
    BY <2>1 DEF Tidy
  <2>3. QED
    BY <1>1, <2>1, <2>2, ReleaseMove
<1>4. CASE t = Cron /\ CleanLock
  <2>1. Others(t) /\ pc[t] = "cleanLock" /\ pc'[t] = "cleanRow" /\ todo'[t] = todo[t]
    BY <1>4 DEF CleanLock, Others, LockInv, TypeOK
  <2>2. Tidy(t)'
    BY <1>1, <2>1 DEF Tidy, LeakInv, Unpaid
  <2>3. QED
    BY <1>1, <2>1, <2>2, ReleaseMove
<1>5. CASE CreateAbort(t) \/ Unlock(t)
  <2>1. Finish(t) \/ GoTo(t, "notify")
    BY <1>5 DEF CreateAbort, Unlock
  <2>2. Others(t) /\ pc'[t] \in {"idle", "notify"}
    BY <2>1, Bookkeeping
  <2>3. Tidy(t)'
    BY <2>2 DEF Tidy
  <2>4. QED
    BY <1>1, <2>2, <2>3, ReleaseMove
<1>6. CASE PluginUnlock(t) \/ DeleteUnlock(t)
  <2>1. \/ GoTo(t, "refused")
        \/ GoTo(t, "delRow") /\ cur[t] \in halfDeleted'
    BY <1>6 DEF PluginUnlock, DeleteUnlock
  <2>2. /\ Others(t) /\ cur'[t] = cur[t]
        /\ (pc'[t] = "refused" \/ (pc'[t] = "delRow" /\ cur[t] \in halfDeleted'))
    BY <2>1, Bookkeeping
  <2>3. Tidy(t)'
    BY <1>2, <2>2 DEF Tidy, NoLock
  <2>4. QED
    BY <1>1, <2>2, <2>3, ReleaseMove
<1>7. QED
  BY <1>3, <1>4, <1>5, <1>6

\* What takes one
LEMMA TakeLeak ==
  ASSUME LockInv, LeakInv, NEW t \in AllThreads, CreateLock(t) \/ PluginLock(t)
  PROVE  LeakInv'
<1> DEFINE price == IF pc[t] = "lock" THEN MyPrice(t) ELSE MyFloat(t)
           step == IF pc[t] = "lock" THEN "verify" ELSE "pluginVerify"
<1>1. /\ pc[t] \in {"lock", "pluginLock"} /\ GoTo(t, step)
      /\ locks' = locks \/ locks' = locks \cup {[price |-> price, oid |-> cur[t]]}
      /\ UNCHANGED <<state, halfDeleted, unplaced>>
  BY DEF CreateLock, PluginLock
<1>2. /\ Others(t) /\ pc'[t] = step /\ cur'[t] = cur[t] /\ todo'[t] = todo[t]
      /\ MyPrice(t)' = MyPrice(t) /\ MyFloat(t)' = MyFloat(t)
  BY <1>1, Bookkeeping
<1>3. NoLock(cur[t])
  BY <1>1 DEF LeakInv, Tidy
<1>4. \A l \in locks' : l \in locks \/ (l.oid = cur[t] /\ l.price = price)
  BY <1>1
<1>5. Tidy(t)'
  BY <1>1, <1>2, <1>3, <1>4 DEF Tidy, NoLock
<1>6. QED
  BY <1>1, <1>2, <1>4, <1>5, LockMove

\* The rest of createOrder
LEMMA CreateLeak ==
  ASSUME LockInv, LeakInv, NEW t \in AllThreads,
         CreateCheck(t) \/ CreateVerify(t) \/ CreateInsertFails(t)
  PROVE  LeakInv'
<1>1. UNCHANGED <<state, locks, halfDeleted, unplaced>>
  BY DEF CreateCheck, CreateVerify, CreateInsertFails
<1>2. CASE CreateCheck(t)
  <2>1. CASE Finish(t)
    <3>1. Others(t) /\ pc'[t] = "idle" /\ pc[t] = "check"
      BY <1>2, <2>1, Bookkeeping DEF CreateCheck
    <3>2. Tidy(t)'
      BY <3>1 DEF Tidy
    <3>3. QED
      BY <1>1, <3>1, <3>2, QuietMove DEF Releasing
  <2>2. CASE \E o \in FreshIds :
               /\ cur' = [cur EXCEPT ![t] = o]
               /\ pc' = [pc EXCEPT ![t] = "lock"]
               /\ UNCHANGED <<kind, todo, arg, try>>
    <3>1. PICK o \in FreshIds :
            /\ cur' = [cur EXCEPT ![t] = o]
            /\ pc' = [pc EXCEPT ![t] = "lock"]
            /\ UNCHANGED <<kind, todo, arg, try>>
      BY <2>2
    <3>2. Others(t) /\ pc'[t] = "lock" /\ cur'[t] = o /\ pc[t] = "check"
      BY <1>2, <3>1 DEF CreateCheck, Others, LockInv, TypeOK
    <3>3. NoLock(o)
      BY FreshHasNone
    <3>4. Tidy(t)'
      BY <1>1, <3>2, <3>3 DEF Tidy, NoLock
    <3>5. QED
      BY <1>1, <3>2, <3>4, QuietMove DEF Releasing
  <2>3. QED
    BY <1>2, <2>1, <2>2 DEF CreateCheck
<1>3. CASE CreateVerify(t)
  <2>1. pc[t] = "verify" /\ \A l \in locks : l.oid = cur[t] => l.price = MyPrice(t)
    BY <1>3 DEF CreateVerify, LeakInv, Tidy
  <2>2. CASE HoldsLock(t)
    <3>1. /\ Others(t) /\ pc'[t] = "insert" /\ cur'[t] = cur[t] /\ MyPrice(t)' = MyPrice(t)
      BY <1>3, <2>2, Bookkeeping DEF CreateVerify
    <3>2. Tidy(t)'
      BY <1>1, <2>1, <3>1 DEF Tidy
    <3>3. QED
      BY <1>1, <3>1, <3>2, QuietMove DEF Releasing
  <2>3. CASE ~HoldsLock(t)
    <3>1. NoLock(cur[t])
      BY <2>1, <2>3 DEF HoldsLock, NoLock
    <3>2. CASE Finish(t)
      <4>1. Others(t) /\ pc'[t] = "idle"
        BY <3>2, Bookkeeping
      <4>2. Tidy(t)'
        BY <4>1 DEF Tidy
      <4>3. QED
        BY <1>1, <3>1, <4>1, <4>2, QuietMove
    <3>3. CASE ~Finish(t)
      <4>1. Others(t) /\ pc'[t] = "lock" /\ cur'[t] = cur[t]
        BY <1>3, <2>3, <3>3 DEF CreateVerify, Others, LockInv, TypeOK
      <4>2. Tidy(t)'
        BY <1>1, <3>1, <4>1 DEF Tidy, NoLock
      <4>3. QED
        BY <1>1, <3>1, <4>1, <4>2, QuietMove
    <3>4. QED
      BY <3>2, <3>3
  <2>4. QED
    BY <2>2, <2>3
<1>4. CASE CreateInsertFails(t)
  <2>1. /\ pc[t] = "insert" /\ Others(t) /\ pc'[t] = "abort" /\ cur'[t] = cur[t]
        /\ MyPrice(t)' = MyPrice(t)
    BY <1>4, Bookkeeping DEF CreateInsertFails
  <2>2. Tidy(t)'
    BY <1>1, <2>1 DEF Tidy, LeakInv
  <2>3. QED
    BY <1>1, <2>1, <2>2, QuietMove DEF Releasing
<1>5. QED
  BY <1>2, <1>3, <1>4

LEMMA InsertLeak ==
  ASSUME LockInv, LeakInv, NEW t \in AllThreads, CreateInsert(t)
  PROVE  LeakInv'
<1>1. /\ pc[t] = "insert" /\ state' = [state EXCEPT ![cur[t]] = "unpaid"]
      /\ Others(t) /\ pc'[t] = "idle" /\ UNCHANGED <<locks, halfDeleted, unplaced>>
  BY Bookkeeping DEF CreateInsert
<1>2. cur[t] \in OrderIds /\ state[cur[t]] = "absent"
  BY <1>1 DEF LockInv, CreatorsAlone, Creating
<1>3. state'[cur[t]] = "unpaid" /\ \A o \in OrderIds \ {cur[t]} : state'[o] = state[o]
  BY <1>1, <1>2 DEF LockInv, TypeOK
<1>4. Tidy(t)'
  BY <1>1 DEF Tidy
<1>5. Onward
  BY <1>2, <1>3 DEF Onward, Unpaid
<1>6. StillKnown(t)
  <2>1. \A l \in locks : l.oid \in OrderIds
    BY DEF LockInv, TypeOK, Lock
  <2>2. QED
    BY <1>1, <1>3, <2>1 DEF StillKnown, Unpaid
<1>7. /\ locks' \subseteq locks /\ halfDeleted \subseteq halfDeleted'
      /\ \A p \in unplaced' : p \in unplaced \/ state'[p] # "absent"
      /\ \A l \in locks' : l.oid \in halfDeleted' =>
           l.oid \in halfDeleted /\ (l.oid \in unplaced => l.oid \in unplaced')
  BY <1>1
<1>8. QED
  BY <1>1, <1>4, <1>5, <1>6, <1>7, NoneTaken

\* What ends or moves on from a step that has no part in a lock
LEMMA IdleLeak ==
  ASSUME LockInv, LeakInv, NEW t \in AllThreads,
         \/ SweepDone(t) \/ (t = Cron /\ CleanDone) \/ Notify(t)
         \/ PluginBare(t) \/ PluginNoQrcode(t)
  PROVE  LeakInv'
<1>1. /\ pc[t] \notin Releasing /\ UNCHANGED <<state, locks, halfDeleted, unplaced>>
      /\ Finish(t) \/ GoTo(t, "check") \/ GoTo(t, "noQrcode")
  BY DEF SweepDone, CleanDone, Notify, PluginBare, PluginNoQrcode, Releasing
<1>2. Others(t) /\ pc'[t] \in {"idle", "check", "noQrcode"}
  BY <1>1, Bookkeeping
<1>3. Tidy(t)'
  BY <1>2 DEF Tidy
<1>4. QED
  BY <1>1, <1>2, <1>3, QuietMove

\* The plug-in looks for an amount.
LEMMA FloatLeak ==
  ASSUME LockInv, LeakInv, NEW t \in AllThreads, PluginVerify(t) \/ PluginExist(t)
  PROVE  LeakInv'
<1>1. /\ pc[t] \in {"pluginVerify", "exist"} /\ UNCHANGED <<state, locks, halfDeleted, unplaced>>
  BY DEF PluginVerify, PluginExist
<1>2. NoLock(cur[t]) \/ GoTo(t, "qrcode")
  <2>1. CASE PluginExist(t)
    BY <2>1 DEF PluginExist, LeakInv, Tidy
  <2>2. CASE PluginVerify(t) /\ ~HoldsFloat(t)
    <3>1. \A l \in locks : l.oid = cur[t] => l.price = MyFloat(t)
      BY <2>2 DEF PluginVerify, LeakInv, Tidy
    <3>2. \A l \in locks : l = [price |-> l.price, oid |-> l.oid]
      BY DEF LockInv, TypeOK, Lock
    <3>3. QED
      BY <2>2, <3>1, <3>2 DEF HoldsFloat, NoLock
  <2>3. CASE PluginVerify(t) /\ HoldsFloat(t)
    BY <2>3 DEF PluginVerify
  <2>4. QED
    BY <2>1, <2>2, <2>3
<1>3. GoTo(t, "qrcode") \/ GoTo(t, "exist") \/ GoTo(t, "bare") \/ NextDelta(t)
  BY DEF PluginVerify, PluginExist
<1>4. NextDelta(t) => Others(t) /\ cur'[t] = cur[t] /\ pc'[t] \in {"pluginLock", "refused"}
  <2>1. CASE try[t] < MaxDelta
    BY <2>1 DEF NextDelta, Others, LockInv, TypeOK
  <2>2. CASE ~(try[t] < MaxDelta)
    BY <2>2, Bookkeeping DEF NextDelta
  <2>3. QED
    BY <2>1, <2>2
<1>5. \A step : GoTo(t, step) => Others(t) /\ cur'[t] = cur[t] /\ pc'[t] = step
  BY Bookkeeping
<1>6. /\ Others(t) /\ cur'[t] = cur[t]
      /\ pc'[t] = "qrcode" \/ (NoLock(cur[t]) /\ pc'[t] \in {"exist", "bare", "pluginLock", "refused"})
  BY <1>2, <1>3, <1>4, <1>5
<1>7. Tidy(t)'
  BY <1>1, <1>6 DEF Tidy, NoLock
<1>8. QED
  BY <1>1, <1>6, <1>7, QuietMove DEF Releasing

\* The order is placed, or refused: by then it holds no lock nobody knows of.
LEMMA PlacedLeak ==
  ASSUME LockInv, LeakInv, NEW t \in AllThreads, PluginPlaced(t)
  PROVE  LeakInv'
<1>1. /\ pc[t] = "qrcode" /\ Others(t) /\ pc'[t] = "idle" /\ UNCHANGED <<state, locks, halfDeleted>>
      /\ unplaced' = unplaced \ {o \in {cur[t]} : Unpaid(o) /\ o \notin halfDeleted}
  BY Bookkeeping DEF PluginPlaced
<1>2. Tidy(t)' /\ Onward
  BY <1>1 DEF Tidy, Onward, Unpaid
<1>3. StillKnown(t)
  BY <1>1 DEF StillKnown, Unpaid, Releasing
<1>4. /\ locks' \subseteq locks /\ halfDeleted \subseteq halfDeleted'
      /\ \A o \in unplaced' : o \in unplaced \/ state'[o] # "absent"
      /\ \A l \in locks' : l.oid \in halfDeleted' =>
           l.oid \in halfDeleted /\ (l.oid \in unplaced => l.oid \in unplaced')
  BY <1>1
<1>5. QED
  BY <1>1, <1>2, <1>3, <1>4, NoneTaken

LEMMA RefusedLeak ==
  ASSUME LockInv, LeakInv, NEW t \in AllThreads, PluginRefused(t)
  PROVE  LeakInv'
<1>1. /\ pc[t] = "refused" /\ SetState(cur[t], "closed") /\ unplaced' = unplaced \ {cur[t]}
      /\ Others(t) /\ pc'[t] = "idle" /\ UNCHANGED <<locks, halfDeleted>>
  BY Bookkeeping DEF PluginRefused
<1>2. cur[t] \in OrderIds /\ NoLock(cur[t])
  BY <1>1, PlacerKnown DEF LeakInv, Tidy, Placing
<1>3. /\ state'[cur[t]] = state[cur[t]] \/ (Exists(cur[t]) /\ state'[cur[t]] = "closed")
      /\ \A o \in OrderIds \ {cur[t]} : state'[o] = state[o]
  BY <1>1, <1>2 DEF SetState, LockInv, TypeOK
<1>4. Tidy(t)'
  BY <1>1 DEF Tidy
<1>5. Onward
  BY <1>2, <1>3 DEF Onward, Unpaid, Exists
<1>6. \A l \in locks : l.oid \in OrderIds /\ l.oid # cur[t]
  BY <1>2 DEF LockInv, TypeOK, Lock, NoLock
<1>7. StillKnown(t)
  BY <1>1, <1>3, <1>6 DEF StillKnown, Unpaid
<1>8. /\ locks' \subseteq locks /\ halfDeleted \subseteq halfDeleted'
      /\ \A o \in unplaced' : o \in unplaced \/ state'[o] # "absent"
      /\ \A l \in locks' : l.oid \in halfDeleted' =>
           l.oid \in halfDeleted /\ (l.oid \in unplaced => l.oid \in unplaced')
  BY <1>1, <1>6
<1>9. QED
  BY <1>1, <1>4, <1>5, <1>7, <1>8, NoneTaken

\* A row goes: a closed one, or one whose lock was released first.
LEMMA RowLeak ==
  ASSUME LockInv, LeakInv, NEW t \in AllThreads, DeleteRow(t) \/ (t = Cron /\ CleanRow)
  PROVE  LeakInv'
<1>1. PICK o \in OrderIds :
        /\ state' = [state EXCEPT ![o] = "deleted"] /\ state[o] # "absent"
        /\ pc[t] \in {"delRow", "cleanRow"} /\ pc'[t] \in {"idle", "cleanLock"} /\ Others(t)
        /\ pc'[t] = "cleanLock" => pc[t] = "cleanRow" /\ todo'[t] \subseteq todo[t]
        /\ ~Unpaid(o) \/ o \in halfDeleted
        /\ UNCHANGED <<locks, halfDeleted, unplaced>>
  <2>1. CASE DeleteRow(t)
    <3>1. /\ pc[t] = "delRow" /\ Finish(t) /\ state' = [state EXCEPT ![cur[t]] = "deleted"]
          /\ UNCHANGED <<locks, halfDeleted, unplaced>>
      BY <2>1 DEF DeleteRow
    <3>2. Others(t) /\ pc'[t] = "idle"
      BY <3>1, Bookkeeping
    <3>3. cur[t] \in OrderIds /\ state[cur[t]] # "absent" /\ cur[t] \in halfDeleted
      BY <3>1 DEF LockInv, ReleasesAfterMark, LeakInv, Tidy
    <3>4. QED
      BY <3>1, <3>2, <3>3
  <2>2. CASE t = Cron /\ CleanRow
    <3>1. PICK o \in todo[t] :
            /\ state' = [state EXCEPT ![o] = "deleted"]
            /\ cur' = [cur EXCEPT ![t] = o]
            /\ todo' = [todo EXCEPT ![t] = todo[t] \ {o}]
            /\ pc[t] = "cleanRow" /\ pc' = [pc EXCEPT ![t] = "cleanLock"]
            /\ UNCHANGED <<locks, halfDeleted, unplaced, arg, try>>
      BY <2>2 DEF CleanRow
    <3>2. o \in OrderIds /\ state[o] # "absent" /\ ~Unpaid(o)
      BY <3>1 DEF LockInv, TypeOK, ReleasesAfterMark, LeakInv, Tidy
    <3>3. Others(t) /\ pc'[t] = "cleanLock" /\ todo'[t] \subseteq todo[t]
      BY <3>1 DEF Others, LockInv, TypeOK
    <3>4. QED
      BY <3>1, <3>2, <3>3
  <2>3. QED
    BY <2>1, <2>2
<1>2. state'[o] = "deleted" /\ \A p \in OrderIds \ {o} : state'[p] = state[p]
  BY <1>1 DEF LockInv, TypeOK
<1>3. Onward
  BY <1>1, <1>2 DEF Onward, Unpaid
<1>4. Tidy(t)'
  <2>1. pc'[t] = "cleanLock" =>
          \A p \in todo'[t] : ~Unpaid(p) /\ p \in OrderIds /\ state[p] # "absent"
    BY <1>1 DEF LeakInv, Tidy, LockInv, TypeOK, ReleasesAfterMark
  <2>2. pc'[t] = "cleanLock" => \A p \in todo'[t] : ~Unpaid(p)'
    BY <1>3, <2>1 DEF Onward, Unpaid
  <2>3. QED
    BY <1>1, <2>2 DEF Tidy
<1>5. StillKnown(t)
  <2>1. \A l \in locks : l.oid \in OrderIds /\ (l.oid \in halfDeleted => l.oid \in unplaced)
    BY DEF LockInv, TypeOK, Lock, LeakInv
  <2>2. QED
    BY <1>1, <1>2, <2>1 DEF StillKnown, Unpaid, Releasing
<1>6. /\ locks' \subseteq locks /\ halfDeleted \subseteq halfDeleted'
      /\ \A p \in unplaced' : p \in unplaced \/ state'[p] # "absent"
      /\ \A l \in locks' : l.oid \in halfDeleted' =>
           l.oid \in halfDeleted /\ (l.oid \in unplaced => l.oid \in unplaced')
  BY <1>1
<1>7. QED
  BY <1>1, <1>3, <1>4, <1>5, <1>6, NoneTaken

\* Nothing that LeakInv is about changes.
LEMMA StillLeak ==
  ASSUME LeakInv, UNCHANGED <<state, locks, halfDeleted, unplaced, pc, cur, todo, arg, try>>
  PROVE  LeakInv'
BY DEF LeakInv, NoLeakedLock, Tidy, NoLock, MyPrice, MyFloat, Unpaid

\* Every step but a restart keeps the invariant.
LEMMA NextLeakInv ==
  ASSUME LockInv, LeakInv, [Next]_vars
  PROVE  LeakInv' \/ Crash
<1>1. ASSUME NEW t \in Threads, Arrive(t) PROVE LeakInv'
  <2>0. t \in AllThreads
    BY DEF AllThreads
  <2>1. CASE \E request : GatewayInsert(t, request)
    BY <2>1, GatewayInsertLeak
  <2>2. CASE CloseExpired(t) \/ \E request : CreateOrder(t, request) \/ \E k : Push(t, k, request)
    BY <2>0, <2>2, BeginLeak DEF CloseExpired, CreateOrder, Push
  <2>3. CASE \E o \in OrderIds : CloseOrder(t, o) \/ Supplement(t, o) \/ DeleteOrder(t, o)
    BY <2>0, <2>3, BeginLeak DEF CloseOrder, Supplement, DeleteOrder
  <2>4. QED
    BY <1>1, <2>1, <2>2, <2>3 DEF Arrive
<1>2. ASSUME NEW t \in Threads, Continue(t) PROVE LeakInv'
  <2>0. t \in AllThreads
    BY DEF AllThreads
  <2>1. QED
    BY <1>2, <2>0, SweepLeak, HandlerMarkLeak, ReleaseLeak, TakeLeak, CreateLeak, InsertLeak, IdleLeak,
       FloatLeak, PlacedLeak, RefusedLeak, RowLeak DEF Continue
<1>3. CASE CronClose
  BY <1>3, BeginLeak DEF CronClose, AllThreads
<1>4. CASE CronSweep \/ SweepUnlock(Cron) \/ SweepDone(Cron) \/ CleanRow \/ CleanLock \/ CleanDone
  BY <1>4, SweepLeak, ReleaseLeak, IdleLeak, RowLeak DEF AllThreads
<1>5. CASE Tick \/ UNCHANGED vars
  BY <1>5, StillLeak DEF Tick, thVars, vars
<1>6. QED
  BY <1>1, <1>2, <1>3, <1>4, <1>5, CleanupLeak DEF Next

\* Restarts are counted, and nothing else counts as one.
LEMMA OnlyCrashCounts ==
  ASSUME [Next]_vars, ~Crash
  PROVE  crashes' = crashes
<1>1. ASSUME NEW t \in AllThreads, Continue(t) PROVE crashes' = crashes
  BY <1>1 DEF Continue, Sweep, SweepUnlock, SweepDone, CreateCheck, CreateLock, CreateVerify, CreateInsert,
       CreateInsertFails, CreateAbort, PluginLock, PluginVerify, PluginExist, PluginPlaced, PluginBare,
       PluginNoQrcode, PluginUnlock, PluginRefused, PushMark, CloseMark, SupplementMark, Unlock, Notify,
       DeleteUnlock, DeleteRow
<1>2. ASSUME NEW t \in Threads, Arrive(t) PROVE crashes' = crashes
  BY <1>2 DEF Arrive, CloseExpired, CreateOrder, GatewayInsert, Push, CloseOrder, Supplement, DeleteOrder
<1>3. QED
  BY <1>1, <1>2 DEF Next, AllThreads, CronClose, CronSweep, SweepUnlock, SweepDone, CronCleanup, CleanRow,
       CleanLock, CleanDone, Tick, vars

\* Until the process is restarted no lock row outlives the handlers that know of it,
\* for any number of orders and threads: no path of createOrder, VmqPlugin, the timers,
\* the pushes and the admin forgets one, in whatever order their statements run.  (A
\* restart between taking the lock and entering the order does leave one.)
THEOREM NothingLeaksBeforeRestart == Spec => [](crashes = 0 => NoLeakedLock)
<1>1. Init => LeakInv
  BY DEF Init, LeakInv, NoLeakedLock, Tidy, NoLock, Unpaid
<1>2. LockInv /\ (crashes = 0 => LeakInv) /\ [Next]_vars => (crashes = 0 => LeakInv)'
  <2> SUFFICES ASSUME LockInv, crashes = 0 => LeakInv, [Next]_vars, crashes' = 0
               PROVE  LeakInv'
    OBVIOUS
  <2>1. crashes \in Nat /\ ~Crash
    BY DEF LockInv, TypeOK, Crash
  <2>2. crashes = 0
    BY <2>1, OnlyCrashCounts
  <2>3. QED
    BY <2>1, <2>2, NextLeakInv
<1>3. LeakInv => NoLeakedLock
  BY DEF LeakInv
<1>4. QED
  BY <1>1, <1>2, <1>3, LockInvHolds, PTL DEF Spec

=============================================================================
