--------------------------- MODULE ForwarderProofs ---------------------------
(***************************************************************************)
(* Theorems about Forwarder, for every value of its constants.             *)
(***************************************************************************)
EXTENDS ForwarderOutbox, FiniteSetTheorems, WellFoundedInduction, TLAPS

USE TargetsAssumption, ParametersAssumption

-----------------------------------------------------------------------------
(* Type correctness *)

\* The message being posted still has a number left for each of its targets.
IdsLeft == counter + Cardinality(posting.targets) <= MaxTransactions

TypeInv == TypeOK /\ IdsLeft

LEMMA TruncationType ==
    ASSUME NEW a \in Nat, NEW b \in Nat \ {0}
    PROVE  a - (a % b) \in Nat
  OBVIOUS

LEMMA IncrementType ==
    ASSUME NEW S, NEW f \in [S -> Nat], NEW x
    PROVE  [f EXCEPT ![x] = @ + 1] \in [S -> Nat]
<1>1. CASE x \in S
  BY <1>1
<1>2. CASE x \notin S
  BY <1>2
<1> QED
  BY <1>1, <1>2

LEMMA ReplayTimeType ==
    ASSUME ClockType, NEW n \in Nat
    PROVE  ReplayTime(n) \in Nat
<1> DEFINE delay == IF n * ReplayDelay > MaxWaitForReplay
                    THEN MaxWaitForReplay ELSE n * ReplayDelay
<1>1. n * ReplayDelay \in Nat
  OBVIOUS
<1>2. delay \in Nat
  BY <1>1
<1>3. now + delay \in Nat
  BY <1>2 DEF ClockType
<1> HIDE DEF delay
<1>4. (now + delay) - ((now + delay) % TicksPerSecond) \in Nat
  BY <1>3, TruncationType
<1> QED
  BY <1>4 DEF ReplayTime, delay

LEMMA RemoveType ==
    ASSUME TxnType, QueueType, NEW t, Remove(t), counter' = counter
    PROVE  QueueType'
<1>1. CASE t \in transactions
  <2>1. t \in Ids
    BY <1>1 DEF TxnType, QueueType, Ids
  <2>2. size[t] \in Nat
    BY <2>1 DEF TxnType
  <2>3. /\ transactions' = transactions \ {t}
        /\ totalCount' = totalCount - 1
        /\ totalSize' = totalSize - size[t]
    BY <1>1 DEF Remove
  <2>4. transactions' \subseteq 1..counter'
    BY <2>3 DEF QueueType
  <2>5. totalCount' \in Int
    BY <2>3 DEF QueueType
  <2>6. totalSize' \in Int
    BY <2>2, <2>3 DEF QueueType
  <2> QED
    BY <2>4, <2>5, <2>6 DEF QueueType
<1>2. CASE t \notin transactions
  BY <1>2 DEF QueueType, Remove, queueVars
<1> QED
  BY <1>1, <1>2

LEMMA InitTypeInv == Init => TypeInv
<1> SUFFICES ASSUME Init PROVE TypeInv
  OBVIOUS
<1> USE DEF Init
<1>1. ClockType
  BY DEF ClockType
<1>2. CallsType
  BY DEF CallsType, NoMessage
<1>3. TxnType
  BY DEF TxnType, NoTarget, Ids
<1>4. QueueType
  BY DEF QueueType
<1>5. FlushType
  BY DEF FlushType
<1>6. HttpType
  BY DEF HttpType, Ids
<1>7. StatType
  BY DEF StatType
<1>8. IdsLeft
  BY FS_EmptySet DEF IdsLeft, NoMessage
<1> QED
  BY <1>1, <1>2, <1>3, <1>4, <1>5, <1>6, <1>7, <1>8 DEF TypeInv, TypeOK

LEMMA NewMessageType ==
    ASSUME TypeInv, NEW sz \in Sizes, NEW todo \in Seq({"append", "flush", "flush_next"}), NewMessage(sz, todo)
    PROVE  TypeInv'
<1> USE DEF TypeInv, TypeOK
<1>1. ClockType'
  BY DEF NewMessage, ClockType, clockVars
<1>2. CallsType'
  <2>1. calls' \in Seq({"append", "flush", "flush_next"})
    BY DEF NewMessage
  <2>2. posting' \in [targets : SUBSET Targets, size : Nat, created : Nat]
    BY DEF NewMessage, ClockType
  <2> QED
    BY <2>1, <2>2 DEF CallsType
<1>3. TxnType'
  BY DEF NewMessage, TxnType, txnVars
<1>4. QueueType'
  BY DEF NewMessage, QueueType, queueVars, txnVars
<1>5. FlushType'
  BY DEF NewMessage, FlushType, flushVars, txnVars
<1>6. HttpType'
  BY DEF NewMessage, HttpType, httpVars, txnVars
<1>7. StatType'
  BY DEF NewMessage, StatType, statVars, txnVars
<1>8. IdsLeft'
  BY DEF NewMessage, IdsLeft, txnVars
<1> QED
  BY <1>1, <1>2, <1>3, <1>4, <1>5, <1>6, <1>7, <1>8

LEMMA EvictType ==
    ASSUME TypeInv, Evict
    PROVE  TypeInv'
<1> USE DEF TypeInv, TypeOK
<1>1. ClockType'
  BY DEF Evict, ClockType, clockVars
<1>2. CallsType'
  BY DEF Evict, CallsType
<1>3. TxnType'
  BY DEF Evict, TxnType, txnVars
<1>4. QueueType'
  <2>1. PICK t \in transactions : Remove(t)
    BY DEF Evict
  <2>2. counter' = counter
    BY DEF Evict, txnVars
  <2> QED
    BY <2>1, <2>2, RemoveType
<1>5. FlushType'
  BY DEF Evict, FlushType, flushVars, txnVars
<1>6. HttpType'
  BY DEF Evict, HttpType, httpVars, txnVars
<1>7. StatType'
  BY DEF Evict, StatType, QueueType, txnVars
<1>8. IdsLeft'
  BY DEF Evict, IdsLeft, txnVars
<1> QED
  BY <1>1, <1>2, <1>3, <1>4, <1>5, <1>6, <1>7, <1>8

LEMMA Append1Type ==
    ASSUME TypeInv, NEW tg \in Targets, Append1(tg)
    PROVE  TypeInv'
<1> USE DEF TypeInv, TypeOK
<1> DEFINE rest == posting.targets \ {tg}
<1>a. /\ counter' = counter + 1
      /\ posting' = [posting EXCEPT !.targets = rest]
      /\ tg \in posting.targets
  BY DEF Append1
<1>b. IsFiniteSet(posting.targets)
  BY FS_Subset DEF CallsType
<1>c. IsFiniteSet(rest) /\ Cardinality(rest) = Cardinality(posting.targets) - 1
  BY <1>a, <1>b, FS_RemoveElement
<1>d. Cardinality(rest) \in Nat /\ Cardinality(posting.targets) \in Nat
  BY <1>b, <1>c, FS_CardinalityType
<1>e. posting'.targets = rest
  BY <1>a DEF CallsType
<1> HIDE DEF rest
<1>f. IdsLeft'
  BY <1>a, <1>c, <1>d, <1>e DEF IdsLeft, TxnType
<1>g. counter' \in 0..MaxTransactions /\ GetTrId \in Ids
  BY SMTT(30), <1>a, <1>c, <1>d DEF IdsLeft, TxnType, GetTrId, Ids
<1>h. 1..counter \subseteq 1..counter' /\ GetTrId \in 1..counter'
  BY <1>a DEF TxnType, GetTrId
<1>1. ClockType'
  BY DEF Append1, GetTrId, ClockType, clockVars
<1>2. CallsType'
  BY DEF Append1, GetTrId, CallsType
<1>3. TxnType'
  <2>1. target' \in [Ids -> Targets \cup {NoTarget}]
    BY DEF Append1, TxnType
  <2>2. size' \in [Ids -> Nat]
    BY DEF Append1, TxnType, CallsType
  <2>3. nextFlush' \in [Ids -> Nat]
    BY DEF Append1, TxnType, CallsType
  <2>4. errorCount' \in [Ids -> Nat]
    BY DEF Append1, TxnType
  <2> QED
    BY <1>g, <2>1, <2>2, <2>3, <2>4 DEF TxnType
<1>4. QueueType'
  <2>1. transactions' \subseteq 1..counter'
    BY <1>h DEF Append1, QueueType
  <2>2. posting.size \in Nat
    BY DEF CallsType
  <2>3. totalCount' = totalCount + 1 /\ totalSize' = totalSize + posting.size
    BY DEF Append1
  <2>4. totalCount' \in Int /\ totalSize' \in Int
    BY <2>2, <2>3 DEF QueueType
  <2> QED
    BY <2>1, <2>4 DEF QueueType
<1>5. FlushType'
  <2>1. trsToFlush' \subseteq [tr : 1..counter', errors : Nat]
    BY <1>h DEF Append1, FlushType, flushVars
  <2> QED
    BY <2>1 DEF Append1, FlushType, flushVars
<1>6. HttpType'
  BY <1>h DEF Append1, HttpType, httpVars
<1>7. StatType'
  BY <1>h DEF Append1, StatType, statVars
<1>8. IdsLeft'
  BY <1>f
<1> QED
  BY <1>1, <1>2, <1>3, <1>4, <1>5, <1>6, <1>7, <1>8

LEMMA AppendDoneType ==
    ASSUME TypeInv, AppendDone
    PROVE  TypeInv'
<1> USE DEF TypeInv, TypeOK
<1>1. ClockType'
  BY DEF AppendDone, Return, Running, NoMessage, ClockType, clockVars
<1>2. CallsType'
  BY DEF AppendDone, Return, Running, NoMessage, CallsType
<1>3. TxnType'
  BY DEF AppendDone, Return, Running, NoMessage, TxnType, txnVars
<1>4. QueueType'
  BY DEF AppendDone, Return, Running, NoMessage, QueueType, queueVars, txnVars
<1>5. FlushType'
  BY DEF AppendDone, Return, Running, NoMessage, FlushType, flushVars, txnVars
<1>6. HttpType'
  BY DEF AppendDone, Return, Running, NoMessage, HttpType, httpVars, txnVars
<1>7. StatType'
  BY DEF AppendDone, Return, Running, NoMessage, StatType, statVars, txnVars
<1>8. IdsLeft'
  BY DEF AppendDone, Return, Running, NoMessage, IdsLeft, txnVars
<1> QED
  BY <1>1, <1>2, <1>3, <1>4, <1>5, <1>6, <1>7, <1>8

LEMMA FlushNothingType ==
    ASSUME TypeInv, FlushNothing
    PROVE  TypeInv'
<1> USE DEF TypeInv, TypeOK
<1>1. ClockType'
  BY DEF FlushNothing, Return, Running, ClockType, clockVars
<1>2. CallsType'
  BY DEF FlushNothing, Return, Running, CallsType
<1>3. TxnType'
  BY DEF FlushNothing, Return, Running, TxnType, txnVars
<1>4. QueueType'
  BY DEF FlushNothing, Return, Running, QueueType, queueVars, txnVars
<1>5. FlushType'
  BY DEF FlushNothing, Return, Running, FlushType, flushVars, txnVars
<1>6. HttpType'
  BY DEF FlushNothing, Return, Running, HttpType, httpVars, txnVars
<1>7. StatType'
  BY DEF FlushNothing, Return, Running, StatType, statVars, txnVars
<1>8. IdsLeft'
  BY DEF FlushNothing, Return, Running, IdsLeft, txnVars
<1> QED
  BY <1>1, <1>2, <1>3, <1>4, <1>5, <1>6, <1>7, <1>8

LEMMA FlushBeginType ==
    ASSUME TypeInv, FlushBegin
    PROVE  TypeInv'
<1> USE DEF TypeInv, TypeOK
<1>1. ClockType'
  BY DEF FlushBegin, Running, ClockType, clockVars
<1>2. CallsType'
  BY DEF FlushBegin, Running, CallsType
<1>3. TxnType'
  BY DEF FlushBegin, Running, TxnType, txnVars
<1>4. QueueType'
  BY DEF FlushBegin, Running, QueueType, queueVars, txnVars
<1>5. FlushType'
  <2>0. Due \subseteq transactions
    BY DEF Due
  <2>1. Due \subseteq 1..counter /\ Due \subseteq Ids
    <3>1. Due \subseteq 1..counter
      BY <2>0 DEF QueueType
    <3>2. 1..counter \subseteq Ids
      BY DEF TxnType, Ids
    <3> QED
      BY <3>1, <3>2
  <2>2. trsToFlush' \subseteq [tr : 1..counter', errors : Nat]
    <3>1. \A u \in Due : [tr |-> u, errors |-> errorCount[u]]
                              \in [tr : 1..counter, errors : Nat]
      BY <2>1 DEF TxnType
    <3>2. counter' = counter
      BY DEF FlushBegin, txnVars
    <3>3. trsToFlush' = {[tr |-> u, errors |-> errorCount[u]] : u \in Due}
      BY DEF FlushBegin
    <3> QED
      BY <3>1, <3>2, <3>3
  <2>3. endpointErrors' \in [Endpoints -> Nat]
    BY DEF FlushBegin
  <2> QED
    BY <2>2, <2>3 DEF FlushBegin, FlushType, ClockType
<1>6. HttpType'
  BY DEF FlushBegin, Running, HttpType, httpVars, txnVars
<1>7. StatType'
  BY DEF FlushBegin, Running, StatType, statVars, txnVars
<1>8. IdsLeft'
  BY DEF FlushBegin, Running, IdsLeft, txnVars
<1> QED
  BY <1>1, <1>2, <1>3, <1>4, <1>5, <1>6, <1>7, <1>8

-----------------------------------------------------------------------------
(* The end of a request keeps the types it can disturb *)

LEMMA TrErrorFinalType ==
    ASSUME TypeOK, NEW t \in 1..counter, NEW left \in SUBSET trsToFlush,
           TrErrorFinal(t, left), UNCHANGED <<counter, target, size, evicted>>
    PROVE  TxnType' /\ QueueType' /\ StatType'
<1> USE DEF TypeOK
<1>1. QueueType'
  BY RemoveType DEF TrErrorFinal
<1>2. TxnType'
  BY SMTT(30) DEF TrErrorFinal, TxnType, Ids
<1>3. StatType'
  BY DEF TrErrorFinal, StatType
<1> QED
  BY <1>1, <1>2, <1>3

LEMMA TrErrorReplayType ==
    ASSUME TypeOK, NEW t \in 1..counter, NEW left \in SUBSET trsToFlush,
           TrErrorReplay(t, left), UNCHANGED <<counter, target, size, evicted>>
    PROVE  TxnType' /\ QueueType' /\ StatType'
<1> USE DEF TypeOK
<1>1. QueueType'
  BY DEF TrErrorReplay, QueueType, queueVars
<1>2. StatType'
  BY DEF TrErrorReplay, StatType
<1>3. errorCount' \in [Ids -> Nat]
  <2>1. errorCount' = [errorCount EXCEPT ![t] = @ + 1]
    BY DEF TrErrorReplay
  <2> QED
    BY <2>1, IncrementType DEF TxnType
<1>4. \A u \in Ids : ReplayTime(errorCount'[u]) \in Nat
  BY <1>3, ReplayTimeType
<1>5. nextFlush' \in [Ids -> Nat]
  <2>1. nextFlush' = [u \in Ids |-> IF u \in {t} \cup Trs(Skipped(t, left))
                                     THEN ReplayTime(errorCount'[u])
                                     ELSE nextFlush[u]]
    BY DEF TrErrorReplay
  <2> QED
    BY <1>4, <2>1 DEF TxnType
<1> QED
  BY <1>1, <1>2, <1>3, <1>5 DEF TxnType

\* What an error leaves to send was to be sent.
LEMMA TrErrorLeaves ==
    ASSUME TypeOK, NEW t, NEW left \in SUBSET trsToFlush, TrError(t, left)
    PROVE  trsToFlush' \subseteq left /\ endpointErrors' \in [Endpoints -> Nat]
<1>1. CASE TrErrorFinal(t, left)
  BY <1>1 DEF TrErrorFinal, TypeOK, FlushType
<1>2. CASE TrErrorReplay(t, left)
  <2>1. trsToFlush' \subseteq left
    BY <1>2 DEF TrErrorReplay
  <2>2. endpointErrors' \in [Endpoints -> Nat]
    <3>1. endpointErrors' = [endpointErrors EXCEPT ![endpoint(t)] = @ + 1]
      BY <1>2 DEF TrErrorReplay
    <3> QED
      BY <3>1, IncrementType DEF TypeOK, FlushType
  <2> QED
    BY <2>1, <2>2
<1> QED
  BY <1>1, <1>2 DEF TrError

LEMMA TrErrorType ==
    ASSUME TypeOK, NEW t \in 1..counter, NEW left \in SUBSET trsToFlush,
           TrError(t, left), UNCHANGED <<counter, target, size, evicted>>
    PROVE  TxnType' /\ QueueType' /\ StatType'
  BY TrErrorFinalType, TrErrorReplayType DEF TrError

LEMMA TrRejectType ==
    ASSUME TypeOK, NEW t \in 1..counter, TrReject(t),
           UNCHANGED <<counter, target, size, evicted>>
    PROVE  TxnType' /\ QueueType' /\ StatType'
<1> USE DEF TypeOK
<1>1. QueueType'
  BY RemoveType DEF TrReject
<1>2. TxnType'
  BY SMTT(30) DEF TrReject, TxnType, Ids
<1>3. StatType'
  BY DEF TrReject, StatType
<1> QED
  BY <1>1, <1>2, <1>3

LEMMA TrSuccessType ==
    ASSUME TypeOK, NEW t \in 1..counter, TrSuccess(t),
           UNCHANGED <<counter, target, size, evicted>>
    PROVE  TxnType' /\ QueueType' /\ StatType'
<1> USE DEF TypeOK
<1>1. QueueType'
  BY RemoveType DEF TrSuccess
<1>2. TxnType'
  BY DEF TrSuccess, TxnType
<1>3. StatType'
  BY DEF TrSuccess, StatType
<1> QED
  BY <1>1, <1>2, <1>3

-----------------------------------------------------------------------------
(* The steps of flush_next() and the callbacks *)

LEMMA FlushNextAbortType ==
    ASSUME TypeInv, FlushNextAbort
    PROVE  TypeInv'
<1> USE DEF TypeInv, TypeOK
<1>1. ClockType'
  BY DEF FlushNextAbort, ClockType, clockVars
<1>2. CallsType'
  BY DEF FlushNextAbort, CallsType
<1>3. TxnType'
  <2>1. \A t \in Ids : ReplayTime(errorCount[t]) \in Nat
    BY ReplayTimeType DEF TxnType
  <2>2. nextFlush' \in [Ids -> Nat]
    BY <2>1 DEF FlushNextAbort, TxnType
  <2>3. counter' \in 0..MaxTransactions /\ errorCount' \in [Ids -> Nat]
    BY DEF FlushNextAbort, TxnType
  <2>4. target' \in [Ids -> Targets \cup {NoTarget}] /\ size' \in [Ids -> Nat]
    BY DEF FlushNextAbort, TxnType
  <2> QED
    BY <2>2, <2>3, <2>4 DEF TxnType
<1>4. QueueType'
  BY DEF FlushNextAbort, QueueType, queueVars, txnVars
<1>5. FlushType'
  BY DEF FlushNextAbort, FlushType, flushVars, txnVars
<1>6. HttpType'
  BY DEF FlushNextAbort, HttpType, httpVars, txnVars
<1>7. StatType'
  BY DEF FlushNextAbort, StatType, statVars, txnVars
<1>8. IdsLeft'
  BY DEF FlushNextAbort, IdsLeft, txnVars
<1> QED
  BY <1>1, <1>2, <1>3, <1>4, <1>5, <1>6, <1>7, <1>8

LEMMA FlushNextSendType ==
    ASSUME TypeInv, NEW e \in trsToFlush, FlushNextSend(e)
    PROVE  TypeInv'
<1> USE DEF TypeInv, TypeOK
<1>1. ClockType'
  BY DEF FlushNextSend, ClockType, clockVars
<1>2. CallsType'
  BY DEF FlushNextSend, CallsType
<1>3. TxnType'
  BY DEF FlushNextSend, TxnType, txnVars
<1>4. QueueType'
  BY DEF FlushNextSend, QueueType, queueVars, txnVars
<1>5. FlushType'
  BY DEF FlushNextSend, FlushType, flushVars, txnVars
<1>6. HttpType'
  <2>1. e.tr \in 1..counter
    BY DEF FlushType
  <2>2. inFlight' \subseteq 1..counter'
    BY <2>1 DEF FlushNextSend, HttpType, txnVars
  <2>4. runningFlushes' \in Int
    BY DEF FlushNextSend, HttpType
  <2>3. sentAt' \in [Ids -> Nat]
    BY DEF FlushNextSend, HttpType, ClockType
  <2> QED
    BY <2>2, <2>3, <2>4 DEF HttpType
<1>7. StatType'
  BY DEF FlushNextSend, StatType, statVars, txnVars
<1>8. IdsLeft'
  BY DEF FlushNextSend, IdsLeft, txnVars
<1> QED
  BY <1>1, <1>2, <1>3, <1>4, <1>5, <1>6, <1>7, <1>8

LEMMA FlushNextRaiseType ==
    ASSUME TypeInv, NEW e \in trsToFlush, FlushNextRaise(e)
    PROVE  TypeInv'
<1> USE DEF TypeInv, TypeOK
<1> DEFINE left == trsToFlush \ {e}
<1>a. e.tr \in 1..counter /\ left \in SUBSET trsToFlush
  BY DEF FlushType
<1>b. TrError(e.tr, left) /\ UNCHANGED <<counter, target, size, evicted>>
  BY DEF FlushNextRaise
<1>c. counter' = counter
  BY <1>b
<1>d. TxnType' /\ QueueType' /\ StatType'
  BY <1>a, <1>b, TrErrorType
<1>e. trsToFlush' \subseteq trsToFlush /\ endpointErrors' \in [Endpoints -> Nat]
  BY <1>a, <1>b, TrErrorLeaves
<1>1. ClockType'
  BY DEF FlushNextRaise, ClockType, clockVars
<1>2. CallsType'
  BY DEF FlushNextRaise, CallsType
<1>3. TxnType'
  BY <1>d
<1>4. QueueType'
  BY <1>d
<1>5. FlushType'
  BY <1>c, <1>e DEF FlushNextRaise, FlushType
<1>6. HttpType'
  BY DEF FlushNextRaise, HttpType, httpVars, txnVars
<1>7. StatType'
  BY <1>d
<1>8. IdsLeft'
  BY DEF FlushNextRaise, IdsLeft, txnVars
<1> QED
  BY <1>1, <1>2, <1>3, <1>4, <1>5, <1>6, <1>7, <1>8

LEMMA FlushNextWaitType ==
    ASSUME TypeInv, FlushNextWait
    PROVE  TypeInv'
<1> USE DEF TypeInv, TypeOK
<1>1. ClockType'
  BY DEF FlushNextWait, Return, Running, ClockType, clockVars
<1>2. CallsType'
  BY DEF FlushNextWait, Return, Running, CallsType
<1>3. TxnType'
  BY DEF FlushNextWait, Return, Running, TxnType, txnVars
<1>4. QueueType'
  BY DEF FlushNextWait, Return, Running, QueueType, queueVars, txnVars
<1>5. FlushType'
  BY DEF FlushNextWait, Return, Running, FlushType, flushVars, txnVars
<1>6. HttpType'
  BY DEF FlushNextWait, Return, Running, HttpType, httpVars, txnVars
<1>7. StatType'
  BY DEF FlushNextWait, Return, Running, StatType, statVars, txnVars
<1>8. IdsLeft'
  BY DEF FlushNextWait, Return, Running, IdsLeft, txnVars
<1> QED
  BY <1>1, <1>2, <1>3, <1>4, <1>5, <1>6, <1>7, <1>8

LEMMA FlushNextFullType ==
    ASSUME TypeInv, FlushNextFull
    PROVE  TypeInv'
<1> USE DEF TypeInv, TypeOK
<1>1. ClockType'
  BY DEF FlushNextFull, Return, Running, ClockType, clockVars
<1>2. CallsType'
  BY DEF FlushNextFull, Return, Running, CallsType
<1>3. TxnType'
  BY DEF FlushNextFull, Return, Running, TxnType, txnVars
<1>4. QueueType'
  BY DEF FlushNextFull, Return, Running, QueueType, queueVars, txnVars
<1>5. FlushType'
  BY DEF FlushNextFull, Return, Running, FlushType, flushVars, txnVars
<1>6. HttpType'
  BY DEF FlushNextFull, Return, Running, HttpType, httpVars, txnVars
<1>7. StatType'
  BY DEF FlushNextFull, Return, Running, StatType, statVars, txnVars
<1>8. IdsLeft'
  BY DEF FlushNextFull, Return, Running, IdsLeft, txnVars
<1> QED
  BY <1>1, <1>2, <1>3, <1>4, <1>5, <1>6, <1>7, <1>8

LEMMA FlushNextEndType ==
    ASSUME TypeInv, FlushNextEnd
    PROVE  TypeInv'
<1> USE DEF TypeInv, TypeOK
<1>1. ClockType'
  BY DEF FlushNextEnd, Return, Running, ClockType, clockVars
<1>2. CallsType'
  BY DEF FlushNextEnd, Return, Running, CallsType
<1>3. TxnType'
  BY DEF FlushNextEnd, Return, Running, TxnType, txnVars
<1>4. QueueType'
  BY DEF FlushNextEnd, Return, Running, QueueType, queueVars, txnVars
<1>5. FlushType'
  BY DEF FlushNextEnd, Return, Running, FlushType, flushVars, txnVars
<1>6. HttpType'
  BY DEF FlushNextEnd, Return, Running, HttpType, httpVars, txnVars
<1>7. StatType'
  BY DEF FlushNextEnd, Return, Running, StatType, statVars, txnVars
<1>8. IdsLeft'
  BY DEF FlushNextEnd, Return, Running, IdsLeft, txnVars
<1> QED
  BY <1>1, <1>2, <1>3, <1>4, <1>5, <1>6, <1>7, <1>8

LEMMA OnResponseType ==
    ASSUME TypeInv, NEW t \in Ids, OnResponse(t)
    PROVE  TypeInv'
<1> USE DEF TypeInv, TypeOK
<1>a. t \in 1..counter
  BY DEF OnResponse, HttpType
<1>b. UNCHANGED <<counter, target, size, evicted>> /\ counter' = counter
  BY DEF OnResponse
<1>c. TrSuccess(t) \/ TrError(t, trsToFlush) \/ TrReject(t)
  BY DEF OnResponse
<1>d. TxnType' /\ QueueType' /\ StatType'
  BY <1>a, <1>b, <1>c, TrErrorType, TrRejectType, TrSuccessType
<1>e. trsToFlush' \subseteq trsToFlush /\ endpointErrors' \in [Endpoints -> Nat]
  <2>1. CASE TrError(t, trsToFlush)
    BY <2>1, TrErrorLeaves
  <2>2. CASE TrSuccess(t) \/ TrReject(t)
    BY <2>2 DEF TrSuccess, TrReject, FlushType
  <2> QED
    BY <1>c, <2>1, <2>2
<1>1. ClockType'
  BY DEF OnResponse, Idle, ClockType, clockVars
<1>2. CallsType'
  BY DEF OnResponse, Idle, CallsType
<1>3. TxnType'
  BY <1>d
<1>4. QueueType'
  BY <1>d
<1>5. FlushType'
  BY <1>b, <1>e DEF OnResponse, FlushType
<1>6. HttpType'
  BY DEF OnResponse, Idle, HttpType, httpVars, txnVars
<1>7. StatType'
  BY <1>d
<1>8. IdsLeft'
  BY <1>b DEF OnResponse, IdsLeft
<1> QED
  BY <1>1, <1>2, <1>3, <1>4, <1>5, <1>6, <1>7, <1>8

LEMMA TimerFiresType ==
    ASSUME TypeInv, TimerFires
    PROVE  TypeInv'
<1> USE DEF TypeInv, TypeOK
<1>1. ClockType'
  BY DEF TimerFires, Idle, ClockType, clockVars
<1>2. CallsType'
  BY DEF TimerFires, Idle, CallsType
<1>3. TxnType'
  BY DEF TimerFires, Idle, TxnType, txnVars
<1>4. QueueType'
  BY DEF TimerFires, Idle, QueueType, queueVars, txnVars
<1>5. FlushType'
  BY DEF TimerFires, Idle, FlushType, flushVars, txnVars
<1>6. HttpType'
  BY DEF TimerFires, Idle, HttpType, httpVars, txnVars
<1>7. StatType'
  BY DEF TimerFires, Idle, StatType, statVars, txnVars
<1>8. IdsLeft'
  BY DEF TimerFires, Idle, IdsLeft, txnVars
<1> QED
  BY <1>1, <1>2, <1>3, <1>4, <1>5, <1>6, <1>7, <1>8

LEMMA PeriodicFlushType ==
    ASSUME TypeInv, PeriodicFlush
    PROVE  TypeInv'
<1> USE DEF TypeInv, TypeOK
<1>1. ClockType'
  BY DEF PeriodicFlush, Idle, ClockType, clockVars
<1>2. CallsType'
  BY DEF PeriodicFlush, Idle, CallsType
<1>3. TxnType'
  BY DEF PeriodicFlush, Idle, TxnType, txnVars
<1>4. QueueType'
  BY DEF PeriodicFlush, Idle, QueueType, queueVars, txnVars
<1>5. FlushType'
  BY DEF PeriodicFlush, Idle, FlushType, flushVars, txnVars
<1>6. HttpType'
  BY DEF PeriodicFlush, Idle, HttpType, httpVars, txnVars
<1>7. StatType'
  BY DEF PeriodicFlush, Idle, StatType, statVars, txnVars
<1>8. IdsLeft'
  BY DEF PeriodicFlush, Idle, IdsLeft, txnVars
<1> QED
  BY <1>1, <1>2, <1>3, <1>4, <1>5, <1>6, <1>7, <1>8

LEMMA TickType ==
    ASSUME TypeInv, Tick
    PROVE  TypeInv'
<1> USE DEF TypeInv, TypeOK
<1>1. ClockType'
  BY DEF Tick, ClockType, clockVars
<1>2. CallsType'
  BY DEF Tick, CallsType
<1>3. TxnType'
  BY DEF Tick, TxnType, txnVars
<1>4. QueueType'
  BY DEF Tick, QueueType, queueVars, txnVars
<1>5. FlushType'
  BY DEF Tick, FlushType, flushVars, txnVars
<1>6. HttpType'
  BY DEF Tick, HttpType, httpVars, txnVars
<1>7. StatType'
  BY DEF Tick, StatType, statVars, txnVars
<1>8. IdsLeft'
  BY DEF Tick, IdsLeft, txnVars
<1> QED
  BY <1>1, <1>2, <1>3, <1>4, <1>5, <1>6, <1>7, <1>8

-----------------------------------------------------------------------------

LEMMA PostType ==
    ASSUME TypeInv, Post \/ PostMetrics
    PROVE  TypeInv'
<1>1. <<"append", "flush">> \in Seq({"append", "flush", "flush_next"})
  OBVIOUS
<1>2. <<"append", "flush", "flush">> \in Seq({"append", "flush", "flush_next"})
  OBVIOUS
<1> QED
  BY <1>1, <1>2, NewMessageType DEF Post, PostMetrics

LEMMA StepTypeInv == TypeInv /\ [Next]_vars => TypeInv'
<1> SUFFICES ASSUME TypeInv, [Next]_vars PROVE TypeInv'
  OBVIOUS
<1>1. CASE CallStep
  BY <1>1, EvictType, Append1Type, AppendDoneType, FlushNothingType,
     FlushBeginType, FlushNextAbortType, FlushNextSendType, FlushNextRaiseType,
     FlushNextWaitType, FlushNextFullType, FlushNextEndType DEF CallStep
<1>2. CASE Next /\ ~CallStep
  BY <1>2, PostType, PeriodicFlushType, OnResponseType, TimerFiresType, TickType
     DEF Next
<1>3. CASE UNCHANGED vars
  BY <1>3 DEF vars, clockVars, queueVars, txnVars, flushVars, httpVars, statVars,
     TypeInv, TypeOK, IdsLeft, ClockType, CallsType, TxnType, QueueType,
     FlushType, HttpType, StatType
<1> QED
  BY <1>1, <1>2, <1>3

\* Type correctness: whatever the constants, the variables keep their types and
\* no transaction exists before append() has numbered it.
THEOREM TypeCorrect == Spec => []TypeOK
<1>1. TypeInv => TypeOK
  BY DEF TypeInv
<1> QED
  BY <1>1, InitTypeInv, StepTypeInv, PTL DEF Spec

-----------------------------------------------------------------------------
(* The flush in progress and its requests *)

\* A transaction is once in the list of the flush.
EntriesDistinct == \A e, f \in trsToFlush : e.tr = f.tr => e = f

\* No transaction is out twice, and the slots, the list and the requests agree.
FlushInv ==
    TypeInv /\ SlotsInUse /\ RequestsWithinFlush /\ EntriesDistinct /\ SentOnce

\* The steps that leave alone the flush in progress and its requests.
Quiet == UNCHANGED <<flushing, trsToFlush, runningFlushes, inFlight>>

LEMMA QuietSteps ==
    ASSUME Next
    PROVE  \/ Quiet \/ FlushBegin \/ FlushNextAbort
           \/ \E e \in trsToFlush : FlushNextSend(e) \/ FlushNextRaise(e)
           \/ FlushNextEnd \/ \E t \in Ids : OnResponse(t)
<1> USE DEF Quiet, flushVars, httpVars
<1>1. CASE Evict \/ \E tg \in Targets : Append1(tg)
  BY <1>1 DEF Evict, Append1
<1>2. CASE AppendDone \/ FlushNothing \/ FlushNextWait \/ FlushNextFull
  BY <1>2 DEF AppendDone, FlushNothing, FlushNextWait, FlushNextFull
<1>3. CASE Post \/ PostMetrics
  BY <1>3 DEF Post, PostMetrics, NewMessage
<1>4. CASE PeriodicFlush \/ TimerFires \/ Tick
  BY <1>4 DEF PeriodicFlush, TimerFires, Tick
<1> QED
  BY <1>1, <1>2, <1>3, <1>4 DEF Next, CallStep

LEMMA InFlightFinite ==
    ASSUME TypeOK
    PROVE  IsFiniteSet(inFlight)
<1>1. IsFiniteSet(1..counter)
  BY FS_Interval DEF TypeOK, TxnType
<1> QED
  BY <1>1, FS_Subset DEF TypeOK, HttpType

LEMMA FlushBeginInv ==
    ASSUME FlushInv, FlushBegin
    PROVE  SlotsInUse' /\ RequestsWithinFlush' /\ EntriesDistinct' /\ SentOnce'
<1>1. UNCHANGED <<runningFlushes, inFlight>> /\ flushing'
  BY DEF FlushBegin, httpVars
<1>2. inFlight = {}
  BY DEF FlushInv, RequestsWithinFlush, FlushBegin, InProgress
<1>3. trsToFlush' = {[tr |-> t, errors |-> errorCount[t]] : t \in Due}
  BY DEF FlushBegin
<1>4. EntriesDistinct'
  BY <1>3 DEF EntriesDistinct
<1>5. SlotsInUse' /\ RequestsWithinFlush' /\ SentOnce'
  BY <1>1, <1>2 DEF FlushInv, SlotsInUse, RequestsWithinFlush, SentOnce
<1> QED
  BY <1>4, <1>5

\* Dropping entries of the list disturbs nothing.
LEMMA FewerEntries ==
    ASSUME FlushInv, trsToFlush' \subseteq trsToFlush,
           UNCHANGED <<flushing, runningFlushes, inFlight>>
    PROVE  SlotsInUse' /\ RequestsWithinFlush' /\ EntriesDistinct' /\ SentOnce'
<1>1. SlotsInUse'
  BY DEF FlushInv, SlotsInUse
<1>2. RequestsWithinFlush'
  BY DEF FlushInv, RequestsWithinFlush
<1>3. EntriesDistinct'
  BY DEF FlushInv, EntriesDistinct
<1>4. SentOnce'
  BY DEF FlushInv, SentOnce, ToFlush, Trs
<1> QED
  BY <1>1, <1>2, <1>3, <1>4

LEMMA FlushNextRaiseInv ==
    ASSUME FlushInv, NEW e \in trsToFlush, FlushNextRaise(e)
    PROVE  SlotsInUse' /\ RequestsWithinFlush' /\ EntriesDistinct' /\ SentOnce'
<1>1. UNCHANGED <<flushing, runningFlushes, inFlight>>
  BY DEF FlushNextRaise, httpVars
<1>2. TrError(e.tr, trsToFlush \ {e})
  BY DEF FlushNextRaise
<1>3. trsToFlush' \subseteq trsToFlush
  BY <1>2, TrErrorLeaves DEF FlushInv, TypeInv
<1> QED
  BY <1>1, <1>3, FewerEntries

LEMMA FlushNextSendInv ==
    ASSUME FlushInv, NEW e \in trsToFlush, FlushNextSend(e)
    PROVE  SlotsInUse' /\ RequestsWithinFlush' /\ EntriesDistinct' /\ SentOnce'
<1>1. /\ trsToFlush' = trsToFlush \ {e} /\ inFlight' = inFlight \cup {e.tr}
      /\ runningFlushes' = runningFlushes + 1
      /\ runningFlushes < MaxParallelism /\ flushing' = flushing
  BY DEF FlushNextSend, MaySend
<1>2. e.tr \notin inFlight
  BY DEF FlushInv, SentOnce, ToFlush, Trs
<1>3. IsFiniteSet(inFlight)
  BY InFlightFinite DEF FlushInv, TypeInv
<1>4. Cardinality(inFlight') = Cardinality(inFlight) + 1
  BY <1>1, <1>2, <1>3, FS_AddElement
<1>5. SlotsInUse'
  <2>1. runningFlushes \in Int
    BY DEF FlushInv, TypeInv, TypeOK, HttpType
  <2> QED
    BY <1>1, <1>4, <2>1 DEF FlushInv, SlotsInUse
<1>6. RequestsWithinFlush'
  BY <1>1 DEF FlushInv, RequestsWithinFlush
<1>7. EntriesDistinct'
  BY <1>1 DEF FlushInv, EntriesDistinct
<1>8. SentOnce'
  <2>1. e.tr \notin ToFlush'
    BY <1>1 DEF FlushInv, EntriesDistinct, ToFlush, Trs
  <2>2. ToFlush' \subseteq ToFlush
    BY <1>1 DEF ToFlush, Trs
  <2> QED
    BY <1>1, <2>1, <2>2 DEF FlushInv, SentOnce
<1> QED
  BY <1>5, <1>6, <1>7, <1>8

LEMMA FlushNextEndInv ==
    ASSUME FlushInv, FlushNextEnd
    PROVE  SlotsInUse' /\ RequestsWithinFlush' /\ EntriesDistinct' /\ SentOnce'
<1>1. UNCHANGED <<trsToFlush, runningFlushes, inFlight>> /\ trsToFlush = {}
  BY DEF FlushNextEnd, httpVars
<1>2. SlotsInUse' /\ EntriesDistinct' /\ SentOnce'
  BY <1>1 DEF FlushInv, SlotsInUse, EntriesDistinct, SentOnce, ToFlush
<1>3. RequestsWithinFlush'
  <2>1. CASE runningFlushes = 0
    <3>1. inFlight = {}
      BY <2>1, InFlightFinite, FS_EmptySet DEF FlushInv, TypeInv, SlotsInUse
    <3> QED
      BY <1>1, <3>1 DEF RequestsWithinFlush
  <2>2. CASE runningFlushes # 0
    BY <1>1, <2>2 DEF FlushInv, RequestsWithinFlush, FlushNextEnd
  <2> QED
    BY <2>1, <2>2
<1> QED
  BY <1>2, <1>3

LEMMA OnResponseInv ==
    ASSUME FlushInv, NEW t \in Ids, OnResponse(t)
    PROVE  SlotsInUse' /\ RequestsWithinFlush' /\ EntriesDistinct' /\ SentOnce'
<1>1. /\ t \in inFlight /\ inFlight' = inFlight \ {t} /\ flushing' = flushing
      /\ runningFlushes' = runningFlushes - 1
  BY DEF OnResponse
<1>2. trsToFlush' \subseteq trsToFlush
  <2>1. CASE TrError(t, trsToFlush)
    BY <2>1, TrErrorLeaves DEF FlushInv, TypeInv
  <2>2. CASE TrSuccess(t) \/ TrReject(t)
    BY <2>2 DEF TrSuccess, TrReject
  <2> QED
    BY <2>1, <2>2 DEF OnResponse
<1>3. IsFiniteSet(inFlight)
  BY InFlightFinite DEF FlushInv, TypeInv
<1>4. Cardinality(inFlight') = Cardinality(inFlight) - 1
  BY <1>1, <1>3, FS_RemoveElement
<1>5. SlotsInUse'
  <2>1. runningFlushes \in Int
    BY DEF FlushInv, TypeInv, TypeOK, HttpType
  <2> QED
    BY <1>1, <1>4, <2>1 DEF FlushInv, SlotsInUse
<1>6. RequestsWithinFlush'
  BY <1>1, <1>2 DEF FlushInv, RequestsWithinFlush
<1>7. EntriesDistinct'
  BY <1>2 DEF FlushInv, EntriesDistinct
<1>8. SentOnce'
  BY <1>1, <1>2 DEF FlushInv, SentOnce, ToFlush, Trs
<1> QED
  BY <1>5, <1>6, <1>7, <1>8

LEMMA InitFlushInv == Init => FlushInv
<1> SUFFICES ASSUME Init PROVE FlushInv
  OBVIOUS
<1>1. TypeInv
  BY InitTypeInv
<1>2. SlotsInUse
  BY FS_EmptySet DEF Init, SlotsInUse
<1>3. RequestsWithinFlush /\ EntriesDistinct /\ SentOnce
  BY DEF Init, RequestsWithinFlush, EntriesDistinct, SentOnce, ToFlush, Trs
<1> QED
  BY <1>1, <1>2, <1>3 DEF FlushInv

LEMMA StepFlushInv == FlushInv /\ [Next]_vars => FlushInv'
<1> SUFFICES ASSUME FlushInv, [Next]_vars PROVE FlushInv'
  OBVIOUS
<1>1. TypeInv'
  BY StepTypeInv DEF FlushInv
<1>2. SlotsInUse' /\ RequestsWithinFlush' /\ EntriesDistinct' /\ SentOnce'
  <2>1. CASE Quiet \/ UNCHANGED vars
    <3>1. trsToFlush' = trsToFlush /\ UNCHANGED <<flushing, runningFlushes, inFlight>>
      BY <2>1 DEF Quiet, vars, flushVars, httpVars
    <3> QED
      BY <3>1, FewerEntries
  <2>2. CASE FlushBegin
    BY <2>2, FlushBeginInv
  <2>3. CASE FlushNextAbort
    <3>1. trsToFlush' = {} /\ UNCHANGED <<flushing, runningFlushes, inFlight>>
      BY <2>3 DEF FlushNextAbort, httpVars
    <3> QED
      BY <3>1, FewerEntries
  <2>4. CASE \E e \in trsToFlush : FlushNextSend(e) \/ FlushNextRaise(e)
    BY <2>4, FlushNextSendInv, FlushNextRaiseInv
  <2>5. CASE FlushNextEnd
    BY <2>5, FlushNextEndInv
  <2>6. CASE \E t \in Ids : OnResponse(t)
    BY <2>6, OnResponseInv
  <2> QED
    BY <2>1, <2>2, <2>3, <2>4, <2>5, <2>6, QuietSteps
<1> QED
  BY <1>1, <1>2 DEF FlushInv

\* For every number of endpoints and slots, flush_next() counts exactly the
\* requests that are out, never more than max_parallelism, all within a flush,
\* and none of a transaction that is about to be sent.
THEOREM RequestsCorrect == Spec => []RequestsSound
<1>1. FlushInv => RequestsSound
  BY DEF FlushInv, RequestsSound
<1> QED
  BY <1>1, InitFlushInv, StepFlushInv, PTL DEF Spec

-----------------------------------------------------------------------------
(* A flush in progress is always on its way to its end *)

DrivenInv == FlushInv /\ FlushDriven /\ ThrottleArmed

\* The steps of the callbacks that do not run flush_next(): timers, requests and
\* flush stay as they are.
Elsewhere == ~Running("flush_next") /\ Quiet /\ UNCHANGED timers

\* The steps after which flush_next() runs.
GoesOn == Running("flush_next")'

LEMMA DrivenSteps ==
    ASSUME TypeOK, Next
    PROVE  Elsewhere \/ GoesOn \/ FlushNextWait \/ FlushNextFull \/ FlushNextEnd
<1>1. CASE Evict \/ (\E tg \in Targets : Append1(tg)) \/ AppendDone \/ FlushNothing
  BY <1>1 DEF Evict, Append1, AppendDone, FlushNothing, Elsewhere, Quiet, Running,
     clockVars, flushVars, httpVars
<1>2. CASE Post \/ PostMetrics \/ PeriodicFlush \/ Tick
  BY <1>2 DEF Post, PostMetrics, NewMessage, PeriodicFlush, Tick, Idle,
     Elsewhere, Quiet, Running, clockVars, flushVars, httpVars
<1>3. CASE FlushBegin \/ TimerFires \/ \E t \in Ids : OnResponse(t)
  <2>1. calls' # <<>> /\ Head(calls') = "flush_next"
    <3>1. CASE FlushBegin
      <4>1. Tail(calls) \in Seq({"append", "flush", "flush_next"})
        BY <3>1 DEF FlushBegin, Running, TypeOK, CallsType
      <4>2. calls' = <<"flush_next">> \o Tail(calls)
        BY <3>1 DEF FlushBegin
      <4> QED
        BY <4>1, <4>2
    <3>2. CASE TimerFires \/ \E t \in Ids : OnResponse(t)
      BY <3>2 DEF TimerFires, OnResponse
    <3> QED
      BY <1>3, <3>1, <3>2
  <2> QED
    BY <2>1 DEF GoesOn, Running
<1>4. CASE FlushNextAbort
           \/ \E e \in trsToFlush : FlushNextSend(e) \/ FlushNextRaise(e)
  <2>1. Running("flush_next") /\ calls' = calls
    BY <1>4 DEF FlushNextAbort, FlushNextSend, FlushNextRaise, MaySend
  <2> QED
    BY <2>1 DEF GoesOn, Running
<1> QED
  BY <1>1, <1>2, <1>3, <1>4 DEF Next, CallStep

LEMMA InitDrivenInv == Init => DrivenInv
  BY InitFlushInv DEF DrivenInv, FlushDriven, ThrottleArmed, Init

LEMMA StepDrivenInv == DrivenInv /\ [Next]_vars => DrivenInv'
<1> SUFFICES ASSUME DrivenInv, [Next]_vars PROVE DrivenInv'
  OBVIOUS
<1>1. FlushInv'
  BY StepFlushInv DEF DrivenInv
<1>2. FlushDriven' /\ ThrottleArmed'
  <2>1. CASE Elsewhere
    BY <2>1 DEF Elsewhere, Quiet, DrivenInv, FlushDriven, ThrottleArmed
  <2>2. CASE GoesOn
    BY <2>2 DEF GoesOn, FlushDriven, ThrottleArmed
  <2>3. CASE FlushNextWait
    <3>1. timers' = Append(timers, lastFlush + ThrottlingDelay)
      BY <2>3 DEF FlushNextWait
    <3>2. timers' # <<>>
      BY <3>1 DEF DrivenInv, FlushInv, TypeInv, TypeOK, ClockType
    <3> QED
      BY <3>2 DEF FlushDriven, ThrottleArmed
  <2>4. CASE FlushNextFull
    <3>1. /\ UNCHANGED <<inFlight, runningFlushes>>
          /\ runningFlushes >= MaxParallelism
      BY <2>4 DEF FlushNextFull, httpVars
    <3>2. inFlight # {}
      BY <3>1, FS_EmptySet DEF DrivenInv, FlushInv, SlotsInUse
    <3>3. ~(runningFlushes < MaxParallelism)
      BY <3>1 DEF DrivenInv, FlushInv, TypeInv, TypeOK, HttpType
    <3> QED
      BY <3>1, <3>2, <3>3 DEF FlushDriven, ThrottleArmed
  <2>5. CASE FlushNextEnd
    <3>1. /\ UNCHANGED <<inFlight, runningFlushes, trsToFlush>>
          /\ trsToFlush = {}
          /\ flushing' = IF runningFlushes = 0 THEN FALSE ELSE flushing
      BY <2>5 DEF FlushNextEnd, httpVars
    <3>2. ThrottleArmed'
      BY <3>1 DEF ThrottleArmed
    <3>3. runningFlushes # 0 => inFlight # {}
      BY FS_EmptySet DEF DrivenInv, FlushInv, SlotsInUse
    <3>4. FlushDriven'
      BY <3>1, <3>3 DEF FlushDriven
    <3> QED
      BY <3>2, <3>4
  <2>6. CASE UNCHANGED vars
    BY <2>6 DEF vars, clockVars, flushVars, httpVars, DrivenInv, FlushDriven,
       ThrottleArmed, Running
  <2> QED
    BY <2>1, <2>2, <2>3, <2>4, <2>5, <2>6, DrivenSteps
       DEF DrivenInv, FlushInv, TypeInv
<1> QED
  BY <1>1, <1>2 DEF DrivenInv

-----------------------------------------------------------------------------
(* Transactions that are settled, and the errors of the others *)

\* The transactions that are, or may be, sent.
Held == transactions \cup ToFlush \cup inFlight

\* What a step does to them: it keeps them (some may be evicted), accepts one
\* more, replays or settles the one whose request ends.
Keeps ==
    /\ Held' \subseteq Held /\ Settled' = Settled
    /\ counter' = counter /\ errorCount' = errorCount

Accepts ==
    /\ Held' \subseteq Held \cup {counter'} /\ Settled' = Settled
    /\ counter' = counter + 1 /\ errorCount' = errorCount

Replays(t) ==
    /\ Held' \subseteq Held /\ Settled' = Settled /\ counter' = counter
    /\ errorCount[t] + 1 <= MaxEndpointErrors
    /\ errorCount' = [errorCount EXCEPT ![t] = @ + 1]

Settles(t) ==
    /\ Held' \subseteq Held \ {t} /\ Settled' = Settled \cup {t}
    /\ counter' = counter
    /\ \A u \in Ids \ {t} : errorCount'[u] = errorCount[u]

\* The steps of a request that ends, `left' being what remains to be sent and
\* `out' the requests that remain out.
LEMMA RequestEnds ==
    ASSUME FlushInv, NEW t \in 1..counter, NEW left \in SUBSET trsToFlush,
           t \notin Trs(left), t \notin inFlight', inFlight' \subseteq inFlight,
           TrError(t, left)
             \/ (left = trsToFlush /\ (TrSuccess(t) \/ TrReject(t))),
           counter' = counter
    PROVE  Replays(t) \/ Settles(t)
<1>1. errorCount \in [Ids -> Nat] /\ t \in Ids
  BY DEF FlushInv, TypeInv, TypeOK, TxnType, Ids
<1>2. Trs(left) \subseteq ToFlush
  BY DEF ToFlush, Trs
<1>3. CASE TrErrorFinal(t, left) \/ (left = trsToFlush /\ (TrSuccess(t) \/ TrReject(t)))
  <2>1. Remove(t) /\ trsToFlush' = left
    BY <1>3 DEF TrErrorFinal, TrSuccess, TrReject
  <2>2. transactions' \subseteq transactions \ {t}
    BY <2>1 DEF Remove, queueVars
  <2>3. Held' \subseteq Held \ {t}
    BY <1>2, <2>1, <2>2 DEF Held, ToFlush, Trs
  <2>4. Settled' = Settled \cup {t}
    BY <1>3 DEF TrErrorFinal, TrSuccess, TrReject, Settled
  <2>5. \A u \in Ids \ {t} : errorCount'[u] = errorCount[u]
    BY <1>1, <1>3 DEF TrErrorFinal, TrSuccess, TrReject
  <2> QED
    BY <2>3, <2>4, <2>5 DEF Settles
<1>4. CASE ~ErrorIsFinal(t) /\ TrErrorReplay(t, left)
  <2>1. transactions' = transactions /\ trsToFlush' \subseteq left
    BY <1>4 DEF TrErrorReplay, queueVars
  <2>2. Held' \subseteq Held
    BY <2>1 DEF Held, ToFlush, Trs
  <2>3. Settled' = Settled
    BY <1>4 DEF TrErrorReplay, Settled
  <2>4. errorCount' = [errorCount EXCEPT ![t] = @ + 1]
    BY <1>4 DEF TrErrorReplay
  <2>5. errorCount[t] + 1 <= MaxEndpointErrors
    BY <1>1, <1>4 DEF ErrorIsFinal
  <2> QED
    BY <2>2, <2>3, <2>4, <2>5 DEF Replays
<1> QED
  BY <1>3, <1>4 DEF TrError

LEMMA HistorySteps ==
    ASSUME FlushInv, Next
    PROVE  Keeps \/ Accepts \/ \E t \in 1..counter : Replays(t) \/ Settles(t)
<1> USE DEF txnVars, queueVars, flushVars, httpVars, statVars, Keeps, Held,
        Settled, ToFlush, Trs
<1>1. CASE Post \/ PostMetrics \/ PeriodicFlush \/ TimerFires \/ Tick
  BY <1>1 DEF Post, PostMetrics, NewMessage, PeriodicFlush, TimerFires, Tick
<1>2. CASE AppendDone \/ FlushNothing \/ FlushNextWait \/ FlushNextFull \/ FlushNextEnd
  BY <1>2 DEF AppendDone, FlushNothing, FlushNextWait, FlushNextFull, FlushNextEnd
<1>3. CASE Evict
  <2>1. PICK t \in transactions : Remove(t)
    BY <1>3 DEF Evict
  <2>2. transactions' \subseteq transactions
    BY <2>1 DEF Remove
  <2> QED
    BY <1>3, <2>2 DEF Evict
<1>4. CASE \E tg \in Targets : Append1(tg)
  <2>1. /\ transactions' = transactions \cup {counter'} /\ counter' = counter + 1
        /\ UNCHANGED <<trsToFlush, inFlight, errorCount, delivered, refused, givenUp>>
    BY <1>4 DEF Append1, GetTrId
  <2> QED
    BY <2>1 DEF Accepts
<1>5. CASE FlushBegin
  <2>1. ToFlush' \subseteq transactions
    BY <1>5 DEF FlushBegin, Due
  <2> QED
    BY <1>5, <2>1 DEF FlushBegin
<1>6. CASE FlushNextAbort
  BY <1>6 DEF FlushNextAbort
<1>7. ASSUME NEW e \in trsToFlush, FlushNextSend(e)
      PROVE  Keeps
  BY <1>7 DEF FlushNextSend
<1>8. ASSUME NEW e \in trsToFlush, FlushNextRaise(e)
      PROVE  \E t \in 1..counter : Replays(t) \/ Settles(t)
  <2> DEFINE left == trsToFlush \ {e}
  <2>1. e.tr \in 1..counter
    BY DEF FlushInv, TypeInv, TypeOK, FlushType
  <2>2. e.tr \notin Trs(left)
    BY DEF FlushInv, EntriesDistinct
  <2>3. e.tr \notin inFlight
    BY DEF FlushInv, SentOnce
  <2>4. TrError(e.tr, left) /\ inFlight' = inFlight /\ counter' = counter
    BY <1>8 DEF FlushNextRaise
  <2>5. left \in SUBSET trsToFlush
    OBVIOUS
  <2> HIDE DEF left, Trs
  <2> QED
    BY <2>1, <2>2, <2>3, <2>4, <2>5, RequestEnds
<1>9. ASSUME NEW t \in Ids, OnResponse(t)
      PROVE  \E u \in 1..counter : Replays(u) \/ Settles(u)
  <2>1. t \in 1..counter /\ t \notin Trs(trsToFlush)
    BY <1>9 DEF OnResponse, FlushInv, TypeInv, TypeOK, HttpType, SentOnce
  <2>2. inFlight' = inFlight \ {t} /\ counter' = counter
    BY <1>9 DEF OnResponse
  <2>3. TrError(t, trsToFlush) \/ TrSuccess(t) \/ TrReject(t)
    BY <1>9 DEF OnResponse
  <2> HIDE DEF Trs
  <2>4. Replays(t) \/ Settles(t)
    BY <2>1, <2>2, <2>3, RequestEnds
  <2> QED
    BY <2>1, <2>4
<1> QED
  BY <1>1, <1>2, <1>3, <1>4, <1>5, <1>6, <1>7, <1>8, <1>9 DEF Next, CallStep

\* No transaction has failed before it is created.
FreshErrors == \A t \in Ids : t > counter => errorCount[t] = 0

HistoryInv == FlushInv /\ SettledForGood /\ RetriesBounded /\ FreshErrors

LEMMA InitHistoryInv == Init => HistoryInv
<1> SUFFICES ASSUME Init PROVE HistoryInv
  OBVIOUS
<1>1. SettledForGood /\ RetriesBounded
  BY DEF Init, SettledForGood, RetriesBounded, Settled, ToFlush, Trs
<1>2. FreshErrors
  BY DEF Init, FreshErrors
<1> QED
  BY <1>1, <1>2, InitFlushInv DEF HistoryInv

LEMMA StepHistoryInv == HistoryInv /\ [Next]_vars => HistoryInv'
<1> SUFFICES ASSUME HistoryInv, [Next]_vars PROVE HistoryInv'
  OBVIOUS
<1>1. FlushInv'
  BY StepFlushInv DEF HistoryInv
<1>2. /\ errorCount \in [Ids -> Nat] /\ counter \in 0..MaxTransactions
      /\ Held \subseteq 1..counter /\ Settled \subseteq 1..counter
      /\ 1..counter \subseteq Ids
  <2>1. /\ errorCount \in [Ids -> Nat] /\ counter \in 0..MaxTransactions
        /\ 1..counter \subseteq Ids
    BY DEF HistoryInv, FlushInv, TypeInv, TypeOK, TxnType, Ids
  <2>2. transactions \subseteq 1..counter /\ inFlight \subseteq 1..counter
    BY DEF HistoryInv, FlushInv, TypeInv, TypeOK, QueueType, HttpType
  <2>3. ToFlush \subseteq 1..counter
    BY DEF HistoryInv, FlushInv, TypeInv, TypeOK, FlushType, ToFlush, Trs
  <2>4. Settled \subseteq 1..counter
    BY DEF HistoryInv, FlushInv, TypeInv, TypeOK, StatType, Settled
  <2> QED
    BY <2>1, <2>2, <2>3, <2>4 DEF Held
<1>3. /\ Settled \cap Held = {}
      /\ \A t \in Held : errorCount[t] <= MaxEndpointErrors
  BY DEF HistoryInv, SettledForGood, RetriesBounded, Held
<1>4. /\ Settled' \cap Held' = {}
      /\ \A t \in Held' : errorCount'[t] <= MaxEndpointErrors
      /\ FreshErrors'
  <2>1. CASE Keeps \/ UNCHANGED vars
    <3>1. Keeps
      BY <2>1 DEF Keeps, Held, Settled, ToFlush, vars, txnVars, queueVars,
         flushVars, httpVars, statVars
    <3> QED
      BY <1>3, <3>1 DEF Keeps, HistoryInv, FreshErrors
  <2>2. CASE Accepts
    <3>1. counter' \notin 1..counter /\ counter' > counter
      BY <1>2, <2>2 DEF Accepts
    <3>2. Settled' \cap Held' = {}
      BY <1>2, <1>3, <2>2, <3>1 DEF Accepts
    <3>3. counter' \in Ids
      BY <1>1, <1>2, <2>2 DEF Accepts, FlushInv, TypeInv, TypeOK, TxnType, Ids
    <3>4. errorCount'[counter'] = 0
      BY <2>2, <3>1, <3>3 DEF Accepts, HistoryInv, FreshErrors
    <3>5. \A t \in Held' : errorCount'[t] <= MaxEndpointErrors
      BY <1>3, <2>2, <3>4 DEF Accepts
    <3>6. FreshErrors'
      BY <1>2, <2>2 DEF Accepts, HistoryInv, FreshErrors, Ids
    <3> QED
      BY <3>2, <3>5, <3>6
  <2>3. ASSUME NEW t \in 1..counter, Replays(t)
        PROVE  /\ Settled' \cap Held' = {}
               /\ \A u \in Held' : errorCount'[u] <= MaxEndpointErrors
               /\ FreshErrors'
    <3>1. Settled' \cap Held' = {}
      BY <1>3, <2>3 DEF Replays
    <3>2. \A u \in Held' : errorCount'[u] <= MaxEndpointErrors
      BY <1>2, <1>3, <2>3 DEF Replays
    <3>3. FreshErrors'
      BY <1>2, <2>3 DEF Replays, HistoryInv, FreshErrors
    <3> QED
      BY <3>1, <3>2, <3>3
  <2>4. ASSUME NEW t \in 1..counter, Settles(t)
        PROVE  /\ Settled' \cap Held' = {}
               /\ \A u \in Held' : errorCount'[u] <= MaxEndpointErrors
               /\ FreshErrors'
    <3>1. Settled' \cap Held' = {}
      BY <1>3, <2>4 DEF Settles
    <3>2. \A u \in Held' : errorCount'[u] <= MaxEndpointErrors
      BY <1>2, <1>3, <2>4 DEF Settles
    <3>3. FreshErrors'
      BY <1>2, <2>4 DEF Settles, HistoryInv, FreshErrors
    <3> QED
      BY <3>1, <3>2, <3>3
  <2> QED
    BY <2>1, <2>2, <2>3, <2>4, HistorySteps DEF HistoryInv
<1> QED
  BY <1>1, <1>4 DEF HistoryInv, SettledForGood, RetriesBounded, Held

\* What an intake took or refused, or what failed too often, is never sent
\* again, and what may still be sent has a try left.
THEOREM SettlingCorrect == Spec => []SettlingSound
<1>1. HistoryInv => SettlingSound
  BY DEF HistoryInv, SettlingSound
<1> QED
  BY <1>1, InitHistoryInv, StepHistoryInv, PTL DEF Spec

-----------------------------------------------------------------------------
(* With one slot there is one timer *)

\* flush_next() is only ever the call that runs: nothing comes back to it.
FlushNextFirst == \A i \in 2..Len(calls) : calls[i] # "flush_next"

\* With one slot no timer is pending while flush_next() runs.
NoTimerInCall ==
    MaxParallelism = 1 /\ Running("flush_next") => timers = <<>>

TimerInv == DrivenInv /\ OneTimerAlone /\ NoTimerInCall /\ FlushNextFirst

LEMMA ReturnCalls ==
    ASSUME CallsType, FlushNextFirst, Return, calls # <<>>
    PROVE  FlushNextFirst' /\ ~Running("flush_next")'
<1> DEFINE Calls == {"append", "flush", "flush_next"}
<1>1. /\ calls \in Seq(Calls) /\ calls' = Tail(calls) /\ calls # <<>>
  BY DEF CallsType, Return
<1>2. /\ Len(calls') = Len(calls) - 1
      /\ \A i \in 1..Len(calls') : calls'[i] = calls[i + 1]
  BY <1>1
<1>3. \A i \in 1..Len(calls') : calls'[i] # "flush_next"
  BY <1>1, <1>2 DEF FlushNextFirst
<1>4. calls' # <<>> => Head(calls') # "flush_next"
  BY <1>1, <1>3
<1> QED
  BY <1>3, <1>4 DEF FlushNextFirst, Running

LEMMA StepFlushNextFirst ==
    ASSUME TypeOK, FlushNextFirst, [Next]_vars
    PROVE  FlushNextFirst'
<1>1. CASE AppendDone \/ FlushNothing \/ FlushNextWait \/ FlushNextFull \/ FlushNextEnd
  BY <1>1, ReturnCalls DEF AppendDone, FlushNothing, FlushNextWait,
     FlushNextFull, FlushNextEnd, Running, TypeOK
<1>2. CASE Post \/ PostMetrics \/ PeriodicFlush \/ TimerFires
           \/ \E t \in Ids : OnResponse(t)
  <2>1. calls' \in {<<"append", "flush">>, <<"append", "flush", "flush">>,
                    <<"flush">>, <<"flush_next">>}
    BY <1>2 DEF Post, PostMetrics, NewMessage, PeriodicFlush, TimerFires, OnResponse
  <2> QED
    BY <2>1 DEF FlushNextFirst
<1>3. CASE FlushBegin
  <2> DEFINE Calls == {"append", "flush", "flush_next"}
  <2>1. calls \in Seq(Calls) /\ calls # <<>>
    BY <1>3 DEF FlushBegin, Running, TypeOK, CallsType
  <2>2. calls' = <<"flush_next">> \o Tail(calls)
    BY <1>3 DEF FlushBegin
  <2>3. /\ Len(calls') = Len(calls)
        /\ \A i \in 2..Len(calls) : calls'[i] = calls[i]
    BY <2>1, <2>2
  <2> QED
    BY <2>3 DEF FlushNextFirst
<1>4. CASE UNCHANGED calls
  BY <1>4 DEF FlushNextFirst
<1>5. Evict \/ (\E tg \in Targets : Append1(tg)) \/ FlushNextAbort
      \/ (\E e \in trsToFlush : FlushNextSend(e) \/ FlushNextRaise(e)) \/ Tick
      \/ UNCHANGED vars
        => UNCHANGED calls
  BY DEF Evict, Append1, FlushNextAbort, FlushNextSend, FlushNextRaise, Tick, vars
<1> QED
  BY <1>1, <1>2, <1>3, <1>4, <1>5 DEF Next, CallStep

\* With one slot, a timer is only set for a flush that waits for the delay.
TimerWaits ==
    timers # <<>> => Len(timers) = 1 /\ inFlight = {} /\ trsToFlush # {}

LEMMA StepOneTimer ==
    ASSUME TimerInv, MaxParallelism = 1, Next
    PROVE  TimerWaits' /\ (Running("flush_next")' => timers' = <<>>)
<1>1. TimerWaits /\ (Running("flush_next") => timers = <<>>)
  BY DEF TimerInv, OneTimerAlone, NoTimerInCall, TimerWaits
<1>2. /\ TypeOK /\ timers \in Seq(Nat) /\ runningFlushes \in Int
      /\ FlushNextFirst /\ RequestsWithinFlush /\ SlotsInUse
  BY DEF TimerInv, DrivenInv, FlushInv, TypeInv, TypeOK, ClockType, HttpType
<1>3. CASE FlushNextWait
  <2>1. /\ timers' = Append(timers, lastFlush + ThrottlingDelay)
        /\ Running("flush_next") /\ runningFlushes < 1 /\ Return
        /\ UNCHANGED <<trsToFlush, inFlight, runningFlushes>> /\ trsToFlush # {}
    BY <1>3 DEF FlushNextWait, flushVars, httpVars
  <2>2. timers = <<>>
    BY <1>1, <2>1
  <2>3. Len(timers') = 1
    BY <2>1, <2>2
  <2>4. inFlight = {}
    <3>1. Cardinality(inFlight) < 1
      BY <1>2, <2>1 DEF SlotsInUse
    <3> QED
      BY <1>2, <3>1, InFlightFinite, FS_EmptySet, FS_CardinalityType
  <2>5. ~Running("flush_next")'
    BY <1>2, <2>1, ReturnCalls DEF Running, TypeOK
  <2> QED
    BY <2>1, <2>3, <2>4, <2>5 DEF TimerWaits
<1>4. CASE FlushNextFull \/ FlushNextEnd
  <2>1. Running("flush_next") /\ timers' = timers
    BY <1>4 DEF FlushNextFull, FlushNextEnd, clockVars
  <2> QED
    BY <1>1, <2>1 DEF TimerWaits
<1>5. CASE AppendDone \/ FlushNothing
  <2>1. Return /\ calls # <<>> /\ UNCHANGED <<timers, inFlight, trsToFlush>>
    BY <1>5 DEF AppendDone, FlushNothing, Running, clockVars, flushVars, httpVars
  <2>2. ~Running("flush_next")'
    BY <1>2, <2>1, ReturnCalls DEF TypeOK
  <2> QED
    BY <1>1, <2>1, <2>2 DEF TimerWaits
<1>6. CASE Evict \/ (\E tg \in Targets : Append1(tg)) \/ Tick
  <2>1. UNCHANGED <<calls, timers, inFlight, trsToFlush>>
    BY <1>6 DEF Evict, Append1, Tick, clockVars, flushVars, httpVars
  <2> QED
    BY <1>1, <2>1 DEF TimerWaits, Running
<1>7. CASE Post \/ PostMetrics \/ PeriodicFlush
  <2>1. /\ UNCHANGED <<timers, inFlight, trsToFlush>>
        /\ calls' \in {<<"append", "flush">>, <<"append", "flush", "flush">>,
                       <<"flush">>}
    BY <1>7 DEF Post, PostMetrics, NewMessage, PeriodicFlush, clockVars, flushVars,
       httpVars
  <2>2. ~Running("flush_next")'
    BY <2>1 DEF Running
  <2> QED
    BY <1>1, <2>1, <2>2 DEF TimerWaits
<1>8. CASE FlushBegin
  <2>1. ~flushing /\ timers' = timers
    BY <1>8 DEF FlushBegin, InProgress, clockVars
  <2>2. trsToFlush = {}
    BY <1>2, <2>1 DEF RequestsWithinFlush
  <2> QED
    BY <1>1, <2>1, <2>2 DEF TimerWaits
<1>9. CASE FlushNextAbort
           \/ \E e \in trsToFlush : FlushNextSend(e) \/ FlushNextRaise(e)
  <2>1. Running("flush_next") /\ timers' = timers
    BY <1>9 DEF FlushNextAbort, FlushNextSend, FlushNextRaise, MaySend, clockVars
  <2> QED
    BY <1>1, <2>1 DEF TimerWaits
<1>10. CASE TimerFires
  <2>1. timers # <<>> /\ timers' = Tail(timers)
    BY <1>10 DEF TimerFires
  <2>2. timers' = <<>>
    BY <1>1, <1>2, <2>1 DEF TimerWaits
  <2> QED
    BY <2>2 DEF TimerWaits
<1>11. CASE \E t \in Ids : OnResponse(t)
  <2>1. inFlight # {} /\ timers' = timers
    BY <1>11 DEF OnResponse, clockVars
  <2> QED
    BY <1>1, <2>1 DEF TimerWaits
<1> QED
  BY <1>3, <1>4, <1>5, <1>6, <1>7, <1>8, <1>9, <1>10, <1>11 DEF Next, CallStep

LEMMA InitTimerInv == Init => TimerInv
<1> SUFFICES ASSUME Init PROVE TimerInv
  OBVIOUS
<1>1. OneTimerAlone /\ NoTimerInCall /\ FlushNextFirst
  BY DEF Init, OneTimerAlone, NoTimerInCall, FlushNextFirst, Running
<1> QED
  BY <1>1, InitDrivenInv DEF TimerInv

LEMMA StepTimerInv == TimerInv /\ [Next]_vars => TimerInv'
<1> SUFFICES ASSUME TimerInv, [Next]_vars PROVE TimerInv'
  OBVIOUS
<1>1. DrivenInv'
  BY StepDrivenInv DEF TimerInv
<1>2. FlushNextFirst'
  BY StepFlushNextFirst DEF TimerInv, DrivenInv, FlushInv, TypeInv
<1>3. OneTimerAlone' /\ NoTimerInCall'
  <2>1. CASE Next
    BY <2>1, StepOneTimer DEF OneTimerAlone, NoTimerInCall, TimerWaits
  <2>2. CASE UNCHANGED vars
    BY <2>2 DEF vars, clockVars, flushVars, httpVars, TimerInv, OneTimerAlone,
       NoTimerInCall, Running
  <2> QED
    BY <2>1, <2>2
<1> QED
  BY <1>1, <1>2, <1>3 DEF TimerInv

\* flush() returns at once while a flush is in progress: that flush always has a
\* call, a timer or a request that will bring it to its end, a free slot is never
\* left to the answer of a slow endpoint, and with one slot no timers pile up.
THEOREM TimersCorrect == Spec => []TimersSound
<1>1. TimerInv => TimersSound
  BY DEF TimerInv, DrivenInv, TimersSound
<1> QED
  BY <1>1, InitTimerInv, StepTimerInv, PTL DEF Spec
-----------------------------------------------------------------------------
(* The forwarder implements an outbox *)

\* What may still be sent but is in no request.
Queued == transactions \cup ToFlush

Status == [t \in Ids |-> StatusOf(t)]

LEMMA WhatHasANumber ==
    ASSUME HistoryInv
    PROVE  /\ counter \in Nat /\ 1..counter \subseteq Ids
           /\ Queued \subseteq 1..counter /\ inFlight \subseteq 1..counter
           /\ Settled \subseteq 1..counter
           /\ Settled \cap Queued = {} /\ Settled \cap inFlight = {}
           /\ ToFlush \cap inFlight = {}
<1> USE DEF HistoryInv, FlushInv, TypeInv, TypeOK
<1>1. counter \in Nat /\ 1..counter \subseteq Ids
  BY DEF TxnType, Ids
<1>2. transactions \subseteq 1..counter /\ inFlight \subseteq 1..counter
  BY DEF QueueType, HttpType
<1>3. ToFlush \subseteq 1..counter
  BY DEF FlushType, ToFlush, Trs
<1>4. Settled \subseteq 1..counter
  BY DEF StatType, Settled
<1>5. Settled \cap Queued = {} /\ Settled \cap inFlight = {}
  BY DEF SettledForGood, Queued
<1>6. ToFlush \cap inFlight = {}
  BY DEF SentOnce
<1> QED
  BY <1>1, <1>2, <1>3, <1>4, <1>5, <1>6 DEF Queued

\* StatusOf() as sets, the way the steps below speak of it.
StatusTable ==
    \A t \in Ids :
        /\ Status[t] = "unknown" <=> t > counter
        /\ Status[t] = "sending" <=> t \in inFlight
        /\ Status[t] = "settled" <=> t \in Settled
        /\ Status[t] = "queued" <=> t \in Queued \ inFlight
        /\ Status[t] = "lost" <=>
              t <= counter /\ t \notin Queued \cup inFlight \cup Settled
        /\ Status[t] \in outbox!States

LEMMA StatusMeans == HistoryInv => StatusTable
<1> SUFFICES ASSUME HistoryInv, NEW t \in Ids
             PROVE  /\ Status[t] = "unknown" <=> t > counter
                    /\ Status[t] = "sending" <=> t \in inFlight
                    /\ Status[t] = "settled" <=> t \in Settled
                    /\ Status[t] = "queued" <=> t \in Queued \ inFlight
                    /\ Status[t] = "lost" <=>
                          t <= counter /\ t \notin Queued \cup inFlight \cup Settled
                    /\ Status[t] \in outbox!States
  BY DEF StatusTable
<1>1. \A u \in 1..counter : u <= counter
  BY WhatHasANumber
<1>2. t > counter <=> ~(t <= counter)
  BY WhatHasANumber DEF Ids
<1>3. Status[t] = StatusOf(t)
  BY DEF Status
<1> QED
  BY <1>1, <1>2, <1>3, WhatHasANumber DEF StatusOf, Queued, outbox!States

\* Transactions leave the queue and the flush: their messages are dropped.
LEMMA DropsQueued ==
    ASSUME HistoryInv, HistoryInv', Queued' \subseteq Queued,
           UNCHANGED <<counter, inFlight>>, Settled' = Settled
    PROVE  outbox!Drop
<1> DEFINE S == {t \in Ids : t \in Queued \ inFlight /\ t \notin Queued'}
<1>1. StatusTable /\ StatusTable'
  BY StatusMeans, PTL
<1>2. \A t \in Ids : Status'[t] = IF t \in S THEN "lost" ELSE Status[t]
  BY <1>1, WhatHasANumber DEF StatusTable, outbox!States
<1>3. S \subseteq {t \in Ids : Status[t] = "queued"}
  BY <1>1 DEF StatusTable
<1>4. S \in SUBSET Ids
  OBVIOUS
<1> HIDE DEF S
<1>5. Status' = [t \in Ids |-> IF t \in S THEN "lost" ELSE Status[t]]
  BY <1>2 DEF Status
<1> QED
  BY <1>3, <1>4, <1>5 DEF outbox!Drop, outbox!Move, outbox!In, Status

\* A transaction that append() numbers: its message is accepted.
LEMMA AcceptsNew ==
    ASSUME HistoryInv, HistoryInv', counter' = counter + 1,
           Queued' = Queued \cup {counter'}, inFlight' = inFlight, Settled' = Settled
    PROVE  outbox!Accept
<1> DEFINE n == counter'
<1>1. StatusTable /\ StatusTable'
  BY StatusMeans, PTL
<1>2. n \in Ids /\ n > counter /\ n \notin 1..counter
  BY WhatHasANumber DEF HistoryInv, FlushInv, TypeInv, TypeOK, TxnType, Ids
<1>3. \A t \in Ids : t # n => (t > counter' <=> t > counter)
  BY WhatHasANumber DEF Ids
<1>4. \A t \in Ids : Status'[t] = IF t \in {n} THEN "queued" ELSE Status[t]
  BY <1>1, <1>2, <1>3, WhatHasANumber DEF StatusTable, outbox!States
<1>5. {n} \subseteq {t \in Ids : Status[t] = "unknown"}
  BY <1>1, <1>2 DEF StatusTable
<1> HIDE DEF n
<1>6. Status' = [t \in Ids |-> IF t \in {n} THEN "queued" ELSE Status[t]]
  BY <1>4 DEF Status
<1> QED
  BY <1>2, <1>5, <1>6 DEF outbox!Accept, outbox!Move, outbox!In, Status

\* flush_next() makes a request, on a slot that is free.
LEMMA SendsOne ==
    ASSUME HistoryInv, HistoryInv', NEW t \in ToFlush, runningFlushes < MaxParallelism,
           Queued \ {t} \subseteq Queued', Queued' \subseteq Queued,
           inFlight' = inFlight \cup {t}, counter' = counter, Settled' = Settled
    PROVE  outbox!Send
<1>1. StatusTable /\ StatusTable'
  BY StatusMeans, PTL
<1>2. t \in Ids /\ t \in Queued \ inFlight
  BY WhatHasANumber DEF Queued
<1>3. \A u \in Ids : Status'[u] = IF u \in {t} THEN "sending" ELSE Status[u]
  BY <1>1, <1>2, WhatHasANumber DEF StatusTable, outbox!States
<1>4. {t} \subseteq {u \in Ids : Status[u] = "queued"}
  BY <1>1, <1>2 DEF StatusTable
<1>5. Status' = [u \in Ids |-> IF u \in {t} THEN "sending" ELSE Status[u]]
  BY <1>3 DEF Status
<1>6. {u \in Ids : Status[u] = "sending"} = inFlight
  BY <1>1, WhatHasANumber DEF StatusTable
<1>7. Cardinality(inFlight) < MaxParallelism
  BY DEF HistoryInv, FlushInv, SlotsInUse
<1>8. outbox!In("sending") = inFlight
  BY <1>6 DEF outbox!In, Status
<1>9. outbox!Move({t}, "queued", "sending")
  BY <1>4, <1>5 DEF outbox!Move, outbox!In, Status
<1>10. outbox!Cardinality(outbox!In("sending")) < MaxParallelism
  BY <1>7, <1>8 DEF outbox!Cardinality, Cardinality
<1>11. \E m \in Ids : outbox!Move({m}, "queued", "sending")
  BY <1>2, <1>9
<1> QED
  BY <1>10, <1>11 DEF outbox!Send

\* tr.flush() raised once too often.
LEMMA GivesUpOne ==
    ASSUME HistoryInv, HistoryInv', NEW t \in ToFlush,
           Queued' = Queued \ {t},
           inFlight' = inFlight, counter' = counter, Settled' = Settled \cup {t}
    PROVE  outbox!GiveUp
<1>1. StatusTable /\ StatusTable'
  BY StatusMeans, PTL
<1>2. t \in Ids /\ t \in Queued \ inFlight
  BY WhatHasANumber DEF Queued
<1>3. \A u \in Ids : Status'[u] = IF u \in {t} THEN "settled" ELSE Status[u]
  BY <1>1, <1>2, WhatHasANumber DEF StatusTable, outbox!States
<1>4. {t} \subseteq {u \in Ids : Status[u] = "queued"}
  BY <1>1, <1>2 DEF StatusTable
<1>5. Status' = [u \in Ids |-> IF u \in {t} THEN "settled" ELSE Status[u]]
  BY <1>3 DEF Status
<1> QED
  BY <1>2, <1>4, <1>5 DEF outbox!GiveUp, outbox!Move, outbox!In, Status

\* The answer of a request, or its timeout: the transaction is settled, or it waits
\* for another try if it was not evicted meanwhile.
LEMMA AnswersOne ==
    ASSUME HistoryInv, HistoryInv', NEW t \in inFlight, inFlight' = inFlight \ {t},
           Queued' \subseteq Queued, counter' = counter,
           Settled' = Settled \/ Settled' = Settled \cup {t}
    PROVE  outbox!Answer
<1> DEFINE S == {u \in Ids : u \in Queued \ inFlight /\ u \notin Queued'}
           st == Status'[t]
<1>1. StatusTable /\ StatusTable'
  BY StatusMeans, PTL
<1>2. t \in Ids
  BY WhatHasANumber
<1>3. st \in {"queued", "settled", "lost"}
  BY <1>1, <1>2, WhatHasANumber DEF StatusTable, outbox!States
<1>4. \A u \in Ids : Status'[u] = IF u = t THEN st ELSE IF u \in S THEN "lost" ELSE Status[u]
  BY <1>1, <1>2, WhatHasANumber DEF StatusTable, outbox!States
<1>5. t \in {u \in Ids : Status[u] = "sending"}
  BY <1>1, <1>2 DEF StatusTable
<1>6. S \in SUBSET {u \in Ids : Status[u] = "queued"}
  BY <1>1 DEF StatusTable
<1> HIDE DEF S, st
<1>7. Status' = [u \in Ids |-> IF u = t THEN st ELSE IF u \in S THEN "lost" ELSE Status[u]]
  BY <1>4 DEF Status
<1>8. t \in outbox!In("sending") /\ S \in SUBSET outbox!In("queued")
  BY <1>5, <1>6 DEF outbox!In, Status
<1>9. \E m \in outbox!In("sending"), R \in SUBSET outbox!In("queued"),
         s \in {"queued", "settled", "lost"} :
        Status' = [n \in Ids |-> IF n = m THEN s ELSE IF n \in R THEN "lost" ELSE Status[n]]
  BY <1>3, <1>7, <1>8
<1> QED
  BY <1>9 DEF outbox!Answer, Status

\* The rest leaves every message where it is.
LEMMA MovesNothing ==
    ASSUME Queued' = Queued, UNCHANGED <<counter, inFlight>>, Settled' = Settled
    PROVE  Status' = Status
  BY DEF Status, StatusOf, Queued

LEMMA StepOutbox ==
    ASSUME HistoryInv, HistoryInv', Next
    PROVE  outbox!Next \/ Status' = Status
<1> USE DEF outbox!Next
<1>1. CASE Post \/ PostMetrics \/ PeriodicFlush \/ TimerFires \/ Tick
  <2>1. Queued' = Queued /\ UNCHANGED <<counter, inFlight>> /\ Settled' = Settled
    BY <1>1 DEF Post, PostMetrics, NewMessage, PeriodicFlush, TimerFires, Tick, txnVars,
       queueVars, flushVars, httpVars, statVars, Queued, Settled, ToFlush
  <2> QED
    BY <2>1, MovesNothing
<1>2. CASE AppendDone \/ FlushNothing \/ FlushNextWait \/ FlushNextFull \/ FlushNextEnd
  <2>1. Queued' = Queued /\ UNCHANGED <<counter, inFlight>> /\ Settled' = Settled
    BY <1>2 DEF AppendDone, FlushNothing, FlushNextWait, FlushNextFull, FlushNextEnd, txnVars,
       queueVars, flushVars, httpVars, statVars, Queued, Settled, ToFlush
  <2> QED
    BY <2>1, MovesNothing
<1>3. CASE Evict
  <2>1. PICK t \in transactions : Remove(t)
    BY <1>3 DEF Evict
  <2>2. transactions' \subseteq transactions
    BY <2>1 DEF Remove
  <2>3. UNCHANGED <<counter, inFlight, trsToFlush, delivered, refused, givenUp>>
    BY <1>3 DEF Evict, txnVars, flushVars, httpVars
  <2>4. Queued' \subseteq Queued /\ Settled' = Settled
    BY <2>2, <2>3 DEF Queued, Settled, ToFlush
  <2> QED
    BY <2>3, <2>4, DropsQueued
<1>4. CASE \E tg \in Targets : Append1(tg)
  <2>1. /\ transactions' = transactions \cup {counter'} /\ counter' = counter + 1
        /\ UNCHANGED <<trsToFlush, inFlight, delivered, refused, givenUp>>
    BY <1>4 DEF Append1, GetTrId, flushVars, httpVars, statVars
  <2>2. Queued' = Queued \cup {counter'} /\ Settled' = Settled
    BY <2>1 DEF Queued, Settled, ToFlush
  <2> QED
    BY <2>1, <2>2, AcceptsNew
<1>5. CASE FlushBegin
  <2>1. ToFlush = {}
    BY <1>5 DEF FlushBegin, InProgress, HistoryInv, FlushInv, RequestsWithinFlush, ToFlush, Trs
  <2>2. ToFlush' \subseteq transactions
    BY <1>5 DEF FlushBegin, Due, ToFlush, Trs
  <2>3. UNCHANGED <<counter, inFlight, transactions, delivered, refused, givenUp>>
    BY <1>5 DEF FlushBegin, txnVars, queueVars, httpVars, statVars
  <2>4. Queued' = Queued /\ Settled' = Settled
    BY <2>1, <2>2, <2>3 DEF Queued, Settled
  <2> QED
    BY <2>3, <2>4, MovesNothing
<1>6. CASE FlushNextAbort
  <2>1. UNCHANGED <<counter, inFlight, transactions, delivered, refused, givenUp>> /\ trsToFlush' = {}
    BY <1>6 DEF FlushNextAbort, queueVars, httpVars, statVars
  <2>2. Queued' \subseteq Queued /\ Settled' = Settled
    BY <2>1 DEF Queued, Settled, ToFlush, Trs
  <2> QED
    BY <2>1, <2>2, DropsQueued
<1>7. ASSUME NEW e \in trsToFlush, FlushNextSend(e)
      PROVE  outbox!Send
  <2>1. /\ trsToFlush' = trsToFlush \ {e} /\ inFlight' = inFlight \cup {e.tr}
        /\ UNCHANGED <<counter, transactions, delivered, refused, givenUp>>
        /\ runningFlushes < MaxParallelism
    BY <1>7 DEF FlushNextSend, MaySend, queueVars, txnVars, statVars
  <2>2. e.tr \in ToFlush /\ ToFlush \ {e.tr} \subseteq ToFlush' /\ ToFlush' \subseteq ToFlush
    BY <2>1 DEF ToFlush, Trs
  <2>3. Queued \ {e.tr} \subseteq Queued' /\ Queued' \subseteq Queued /\ Settled' = Settled
    BY <2>1, <2>2 DEF Queued, Settled
  <2> QED
    BY <2>1, <2>2, <2>3, SendsOne
<1>8. ASSUME NEW e \in trsToFlush, FlushNextRaise(e)
      PROVE  outbox!Next
  <2>1. UNCHANGED <<counter, inFlight>> /\ TrError(e.tr, trsToFlush \ {e})
    BY <1>8 DEF FlushNextRaise, httpVars
  <2>2. e.tr \in ToFlush
    BY DEF ToFlush, Trs
  <2>3. CASE TrErrorFinal(e.tr, trsToFlush \ {e})
    <3>1. Remove(e.tr) /\ trsToFlush' = trsToFlush \ {e} /\ Settled' = Settled \cup {e.tr}
      BY <2>3 DEF TrErrorFinal, Settled
    <3>2. transactions' = transactions \ {e.tr}
      BY <3>1 DEF Remove, queueVars
    <3>3. ToFlush' = ToFlush \ {e.tr}
      BY <3>1 DEF ToFlush, Trs, HistoryInv, FlushInv, EntriesDistinct
    <3>4. Queued' = Queued \ {e.tr}
      BY <3>2, <3>3 DEF Queued
    <3> QED
      BY <2>1, <2>2, <3>1, <3>4, GivesUpOne
  <2>4. CASE TrErrorReplay(e.tr, trsToFlush \ {e})
    <3>1. /\ UNCHANGED <<transactions, delivered, refused, givenUp>>
          /\ trsToFlush' \subseteq trsToFlush
      BY <2>4 DEF TrErrorReplay, queueVars
    <3>2. Queued' \subseteq Queued /\ Settled' = Settled
      BY <3>1 DEF Queued, Settled, ToFlush, Trs
    <3> QED
      BY <2>1, <3>2, DropsQueued
  <2> QED
    BY <2>1, <2>3, <2>4 DEF TrError
<1>9. ASSUME NEW t \in Ids, OnResponse(t)
      PROVE  outbox!Answer
  <2>1. t \in inFlight /\ inFlight' = inFlight \ {t} /\ counter' = counter
    BY <1>9 DEF OnResponse
  <2>2. CASE TrErrorFinal(t, trsToFlush) \/ TrSuccess(t) \/ TrReject(t)
    <3>1. Remove(t) /\ trsToFlush' = trsToFlush /\ Settled' = Settled \cup {t}
      BY <2>2 DEF TrErrorFinal, TrSuccess, TrReject, Settled
    <3>2. transactions' \subseteq transactions
      BY <3>1 DEF Remove, queueVars
    <3>3. Queued' \subseteq Queued
      BY <3>1, <3>2 DEF Queued, ToFlush
    <3> QED
      BY <2>1, <3>1, <3>3, AnswersOne
  <2>3. CASE TrErrorReplay(t, trsToFlush)
    <3>1. /\ UNCHANGED <<transactions, delivered, refused, givenUp>>
          /\ trsToFlush' \subseteq trsToFlush
      BY <2>3 DEF TrErrorReplay, queueVars
    <3>2. Queued' \subseteq Queued /\ Settled' = Settled
      BY <3>1 DEF Queued, Settled, ToFlush, Trs
    <3> QED
      BY <2>1, <3>2, AnswersOne
  <2> QED
    BY <1>9, <2>2, <2>3 DEF OnResponse, TrError
<1> QED
  BY <1>1, <1>2, <1>3, <1>4, <1>5, <1>6, <1>7, <1>8, <1>9 DEF Next, CallStep

\* For all endpoints, sizes, slots and limits, every step of the transaction manager
\* is a step of an outbox: no message is invented, sent by two requests at once, on
\* more requests than there are slots, or again after it was settled or lost.
THEOREM OutboxCorrect == Spec => ImplementsOutbox
<1>1. Init => outbox!Init
  <2> SUFFICES ASSUME Init PROVE [t \in Ids |-> StatusOf(t)] = [t \in Ids |-> "unknown"]
    BY DEF outbox!Init
  <2>1. \A t \in Ids : StatusOf(t) = "unknown"
    BY DEF Init, StatusOf, Ids
  <2> QED
    BY <2>1
<1>2. HistoryInv /\ HistoryInv' /\ [Next]_vars => [outbox!Next]_([t \in Ids |-> StatusOf(t)])
  <2> SUFFICES ASSUME HistoryInv, HistoryInv', [Next]_vars
               PROVE  outbox!Next \/ Status' = Status
    BY DEF Status
  <2>1. CASE UNCHANGED vars
    BY <2>1, MovesNothing DEF vars, txnVars, queueVars, flushVars, httpVars, statVars,
       Queued, Settled, ToFlush
  <2> QED
    BY <2>1, StepOutbox
<1> QED
  BY <1>1, <1>2, InitHistoryInv, StepHistoryInv, PTL DEF Spec, ImplementsOutbox, outbox!Spec

-----------------------------------------------------------------------------
(* Nothing is lost but for lack of room *)

\* What has been received is in the queue, settled or evicted.
AccountedFor == 1..counter \subseteq transactions \cup Settled \cup evicted

AccountInv == HistoryInv /\ AccountedFor

\* The steps that change neither the queue nor what is settled or evicted.
QueueAlone ==
    UNCHANGED <<counter, size, transactions, totalCount, totalSize, flushed, rejected,
                delivered, refused, givenUp, evicted>>

\* The end of a request that settles its transaction.
Decides(t) ==
    /\ Remove(t) /\ flushed' = flushed + 1
    /\ \/ delivered' = delivered \cup {t} /\ UNCHANGED <<rejected, refused, givenUp>>
       \/ rejected' = rejected + 1 /\ refused' = refused \cup {t} /\ UNCHANGED <<delivered, givenUp>>
       \/ rejected' = rejected + 1 /\ givenUp' = givenUp \cup {t} /\ UNCHANGED <<delivered, refused>>
    /\ UNCHANGED <<counter, size, evicted>>

LEMMA QueueSteps ==
    ASSUME HistoryInv, Next
    PROVE  \/ QueueAlone \/ Evict \/ (\E tg \in Targets : Append1(tg))
           \/ \E t \in (1..counter) \ Settled : Decides(t)
<1> USE DEF QueueAlone, txnVars, queueVars, statVars
<1>1. CASE Post \/ PostMetrics \/ PeriodicFlush \/ TimerFires \/ Tick
  BY <1>1 DEF Post, PostMetrics, NewMessage, PeriodicFlush, TimerFires, Tick
<1>2. CASE AppendDone \/ FlushNothing \/ FlushBegin \/ FlushNextAbort
           \/ FlushNextWait \/ FlushNextFull \/ FlushNextEnd
  BY <1>2 DEF AppendDone, FlushNothing, FlushBegin, FlushNextAbort, FlushNextWait,
     FlushNextFull, FlushNextEnd
<1>3. ASSUME NEW e \in trsToFlush, FlushNextSend(e)
      PROVE  QueueAlone
  BY <1>3 DEF FlushNextSend
<1>4. ASSUME NEW t \in 1..counter, NEW left, TrErrorFinal(t, left) \/ TrSuccess(t) \/ TrReject(t),
             UNCHANGED <<counter, size, evicted>>
      PROVE  Decides(t)
  BY <1>4 DEF TrErrorFinal, TrSuccess, TrReject, Decides
<1>5. ASSUME NEW e \in trsToFlush, FlushNextRaise(e)
      PROVE  QueueAlone \/ \E t \in (1..counter) \ Settled : Decides(t)
  <2>1. TrError(e.tr, trsToFlush \ {e}) /\ UNCHANGED <<counter, size, evicted>>
    BY <1>5 DEF FlushNextRaise
  <2>2. e.tr \in (1..counter) \ Settled
    BY WhatHasANumber DEF Queued, ToFlush, Trs
  <2>3. CASE TrErrorFinal(e.tr, trsToFlush \ {e})
    BY <1>4, <2>1, <2>2, <2>3
  <2>4. CASE TrErrorReplay(e.tr, trsToFlush \ {e})
    BY <2>1, <2>4 DEF TrErrorReplay
  <2> QED
    BY <2>1, <2>3, <2>4 DEF TrError
<1>6. ASSUME NEW t \in Ids, OnResponse(t)
      PROVE  QueueAlone \/ \E u \in (1..counter) \ Settled : Decides(u)
  <2>1. UNCHANGED <<counter, size, evicted>> /\ t \in inFlight
    BY <1>6 DEF OnResponse
  <2>2. t \in (1..counter) \ Settled
    BY <2>1, WhatHasANumber
  <2>3. CASE TrErrorFinal(t, trsToFlush) \/ TrSuccess(t) \/ TrReject(t)
    BY <1>4, <2>1, <2>2, <2>3
  <2>4. CASE TrErrorReplay(t, trsToFlush)
    BY <2>1, <2>4 DEF TrErrorReplay
  <2> QED
    BY <1>6, <2>3, <2>4 DEF OnResponse, TrError
<1> QED
  BY <1>1, <1>2, <1>3, <1>5, <1>6 DEF Next, CallStep

LEMMA StepAccountInv == AccountInv /\ [Next]_vars => AccountInv'
<1> SUFFICES ASSUME AccountInv, [Next]_vars PROVE AccountInv'
  OBVIOUS
<1>1. HistoryInv'
  BY StepHistoryInv DEF AccountInv
<1>2. AccountedFor'
  <2> USE DEF AccountInv, AccountedFor, Settled
  <2>1. CASE QueueAlone \/ UNCHANGED vars
    BY <2>1 DEF QueueAlone, vars, txnVars, queueVars, statVars
  <2>2. CASE Evict
    <3>1. PICK t \in transactions : Remove(t) /\ evicted' = evicted \cup {t}
      BY <2>2 DEF Evict
    <3>2. transactions' = transactions \ {t}
      BY <3>1 DEF Remove
    <3>3. UNCHANGED <<counter, delivered, refused, givenUp>>
      BY <2>2 DEF Evict, txnVars
    <3> QED
      BY <3>1, <3>2, <3>3
  <2>3. ASSUME NEW tg \in Targets, Append1(tg) PROVE AccountedFor'
    <3>1. counter' = counter + 1 /\ transactions' = transactions \cup {counter'}
      BY <2>3 DEF Append1, GetTrId
    <3>2. 1..counter' = 1..counter \cup {counter'}
      BY <3>1, WhatHasANumber
    <3>3. UNCHANGED <<delivered, refused, givenUp, evicted>>
      BY <2>3 DEF Append1, statVars
    <3> QED
      BY <3>1, <3>2, <3>3
  <2>4. ASSUME NEW t, Decides(t) PROVE AccountedFor'
    <3>1. transactions \subseteq transactions' \cup {t} /\ UNCHANGED <<counter, evicted>>
      BY <2>4 DEF Decides, Remove, queueVars
    <3>2. Settled' = Settled \cup {t}
      BY <2>4 DEF Decides
    <3> QED
      BY <3>1, <3>2
  <2> QED
    BY <2>1, <2>2, <2>3, <2>4, QueueSteps
<1> QED
  BY <1>1, <1>2 DEF AccountInv

LEMMA InitAccountInv == Init => AccountInv
<1>1. Init => AccountedFor
  BY DEF Init, AccountedFor
<1> QED
  BY <1>1, InitHistoryInv DEF AccountInv

\* For every limit of the queue a transaction that is nowhere any more was evicted:
\* aborted flushes, spared endpoints, errors and late answers lose nothing.
THEOREM LostCorrect == Spec => []LostOnlyIfEvicted
<1>1. AccountInv => LostOnlyIfEvicted
  <2> SUFFICES ASSUME AccountInv, NEW t \in Ids, Status[t] = "lost" PROVE t \in evicted
    BY DEF LostOnlyIfEvicted, Status
  <2>1. t <= counter /\ t \notin Queued \cup inFlight \cup Settled
    BY StatusMeans DEF StatusTable, AccountInv
  <2>2. t \in 1..counter
    BY <2>1, WhatHasANumber DEF Ids, AccountInv
  <2> QED
    BY <2>1, <2>2 DEF AccountInv, AccountedFor, Queued
<1> QED
  BY <1>1, InitAccountInv, StepAccountInv, PTL DEF Spec

-----------------------------------------------------------------------------
(* Sums over finite sets *)

AnyOf(S) == CHOOSE x \in S : TRUE

\* g sums f over each subset of S, as MapThenSumSet() does.
Sums(f, S, g) ==
    g = [s \in SUBSET S |-> IF s = {} THEN 0 ELSE f[AnyOf(s)] + g[s \ {AnyOf(s)}]]

SumOf(f, S) == (CHOOSE g : Sums(f, S, g))[S]

\* The sum that MapThenSumSet() takes of a function.
LEMMA SumIsSumOf ==
    ASSUME NEW f, NEW S
    PROVE  MapThenSumSet(LAMBDA t : f[t], S) = SumOf(f, S)
  BY DEF MapThenSumSet, MapThenFoldSet, SumOf, Sums, AnyOf

\* Induction over the subsets of a finite set: if some are bad, one of them has no
\* bad subset but itself.
LEMMA MinimalSet ==
    ASSUME NEW S, IsFiniteSet(S), NEW Bad \in SUBSET (SUBSET S), Bad # {}
    PROVE  \E s \in Bad : \A u \in SUBSET s : u # s => u \notin Bad
<1>1. IsWellFoundedOn(StrictSubsetOrdering(S), FiniteSubsetsOf(S))
  BY FS_StrictSubsetOrderingWellFounded
<1>2. FiniteSubsetsOf(S) = SUBSET S
  BY FS_FiniteSubsetsOfFinite
<1>3. PICK s \in Bad : \A u \in Bad : ~(<<u, s>> \in StrictSubsetOrdering(S))
  BY <1>1, <1>2, WFMin
<1>4. ASSUME NEW u \in SUBSET s, u # s PROVE u \notin Bad
  BY <1>3, <1>4 DEF StrictSubsetOrdering
<1> QED
  BY <1>4

\* Such functions agree where both are defined, and there is one.
LEMMA SumsAgree ==
    ASSUME NEW f, NEW S, NEW r \in SUBSET S, IsFiniteSet(S), NEW g, NEW h, Sums(f, S, g), Sums(f, r, h)
    PROVE  \A u \in SUBSET r : g[u] = h[u]
<1> DEFINE Bad == {u \in SUBSET r : g[u] # h[u]}
<1>1. SUFFICES ASSUME Bad # {} PROVE FALSE
  OBVIOUS
<1>2. IsFiniteSet(r)
  BY FS_Subset
<1>0. Bad \in SUBSET (SUBSET r)
  OBVIOUS
<1> HIDE DEF Bad
<1>3. PICK u \in Bad : \A v \in SUBSET u : v # u => v \notin Bad
  BY <1>0, <1>1, <1>2, MinimalSet
<1> USE DEF Bad
<1>4. /\ g[u] = IF u = {} THEN 0 ELSE f[AnyOf(u)] + g[u \ {AnyOf(u)}]
      /\ h[u] = IF u = {} THEN 0 ELSE f[AnyOf(u)] + h[u \ {AnyOf(u)}]
  BY DEF Sums
<1>5. u # {}
  BY <1>4
<1>6. AnyOf(u) \in u
  BY <1>5 DEF AnyOf
<1>7. u \ {AnyOf(u)} \in SUBSET u /\ u \ {AnyOf(u)} # u
  BY <1>6
<1>8. g[u \ {AnyOf(u)}] = h[u \ {AnyOf(u)}]
  BY <1>3, <1>7
<1> QED
  BY <1>4, <1>8

LEMMA SumsExist ==
    ASSUME NEW f, NEW S, IsFiniteSet(S)
    PROVE  \E g : Sums(f, S, g)
<1> DEFINE Bad == {s \in SUBSET S : ~\E g : Sums(f, s, g)}
<1>1. SUFFICES ASSUME Bad # {} PROVE FALSE
  OBVIOUS
<1>2. Bad \in SUBSET (SUBSET S)
  OBVIOUS
<1> HIDE DEF Bad
<1>3. PICK s \in Bad : \A v \in SUBSET s : v # s => v \notin Bad
  BY <1>1, <1>2, MinimalSet
<1> USE DEF Bad
<1> DEFINE H(u) == CHOOSE h : Sums(f, u, h)
           Rest(u) == u \ {AnyOf(u)}
           G == [u \in SUBSET s |-> IF u = {} THEN 0 ELSE f[AnyOf(u)] + H(Rest(u))[Rest(u)]]
<1>4. ASSUME NEW u \in SUBSET s, u # s PROVE Sums(f, u, H(u))
  BY <1>3, <1>4
<1>5. ASSUME NEW u \in SUBSET s, u # {} PROVE Rest(u) \in SUBSET s /\ Rest(u) # s /\ Rest(u) \in SUBSET u
  BY <1>5 DEF AnyOf
<1>6. ASSUME NEW w \in SUBSET s, w # s PROVE G[w] = H(w)[w]
  <2>1. H(w)[w] = IF w = {} THEN 0 ELSE f[AnyOf(w)] + H(w)[Rest(w)]
    <3>1. Sums(f, w, H(w))
      BY <1>4, <1>6
    <3> HIDE DEF H
    <3> QED
      BY <3>1 DEF Sums
  <2>2. CASE w = {}
    BY <2>1, <2>2
  <2>3. CASE w # {}
    <3>1. Rest(w) \in SUBSET w /\ Rest(w) \in SUBSET s /\ Rest(w) # s
      BY <1>5, <2>3
    <3>2. Sums(f, w, H(w)) /\ Sums(f, Rest(w), H(Rest(w)))
      BY <1>4, <1>6, <3>1
    <3>3. IsFiniteSet(w)
      BY FS_Subset
    <3> HIDE DEF H, Rest
    <3>4. H(w)[Rest(w)] = H(Rest(w))[Rest(w)]
      BY <3>1, <3>2, <3>3, SumsAgree
    <3> QED
      BY <2>1, <2>3, <3>4
  <2> QED
    BY <2>2, <2>3
<1>7. Sums(f, s, G)
  <2>1. ASSUME NEW u \in SUBSET s, u # {} PROVE G[Rest(u)] = H(Rest(u))[Rest(u)]
    <3>1. Rest(u) \in SUBSET s /\ Rest(u) # s
      BY <1>5, <2>1
    <3> HIDE DEF G, H, Rest
    <3> QED
      BY <1>6, <3>1
  <2> HIDE DEF H
  <2> QED
    BY <2>1 DEF Sums
<1> QED
  BY <1>7

\* So the sum can be taken apart.
LEMMA SumOfRest ==
    ASSUME NEW f, NEW S, IsFiniteSet(S)
    PROVE  SumOf(f, S) = IF S = {} THEN 0 ELSE f[AnyOf(S)] + SumOf(f, S \ {AnyOf(S)})
<1> DEFINE g == CHOOSE h : Sums(f, S, h)
           T == S \ {AnyOf(S)}
           h == CHOOSE k : Sums(f, T, k)
<1>1. IsFiniteSet(T) /\ T \in SUBSET S
  BY FS_Subset
<1>2. Sums(f, S, g)
  BY SumsExist
<1>3. Sums(f, T, h)
  BY <1>1, SumsExist
<1>4. g[T] = h[T]
  <2> HIDE DEF g, h, T
  <2> QED
    BY <1>1, <1>2, <1>3, SumsAgree
<1>5. g[S] = IF S = {} THEN 0 ELSE f[AnyOf(S)] + g[T]
  BY <1>2 DEF Sums
<1> QED
  BY <1>4, <1>5 DEF SumOf

LEMMA SumOfType ==
    ASSUME NEW D, NEW f \in [D -> Nat], NEW S \in SUBSET D, IsFiniteSet(S)
    PROVE  SumOf(f, S) \in Nat
<1> DEFINE Bad == {s \in SUBSET S : SumOf(f, s) \notin Nat}
<1>1. SUFFICES ASSUME Bad # {} PROVE FALSE
  OBVIOUS
<1>2. Bad \in SUBSET (SUBSET S)
  OBVIOUS
<1> HIDE DEF Bad
<1>3. PICK s \in Bad : \A v \in SUBSET s : v # s => v \notin Bad
  BY <1>1, <1>2, MinimalSet
<1> USE DEF Bad
<1> DEFINE x == AnyOf(s)
<1>4. IsFiniteSet(s)
  BY FS_Subset
<1>5. SumOf(f, s) = IF s = {} THEN 0 ELSE f[x] + SumOf(f, s \ {x})
  BY <1>4, SumOfRest
<1>6. s # {}
  BY <1>5
<1>7. x \in s
  BY <1>6 DEF AnyOf
<1> HIDE DEF x
<1>8. SumOf(f, s \ {x}) \in Nat
  BY <1>3, <1>7
<1> QED
  BY <1>5, <1>6, <1>7, <1>8

\* Whichever element is taken first, the sum is the same.
LEMMA SumOfRemove ==
    ASSUME NEW D, NEW f \in [D -> Nat], NEW S \in SUBSET D, IsFiniteSet(S), NEW x \in S
    PROVE  SumOf(f, S) = f[x] + SumOf(f, S \ {x})
<1> DEFINE Bad == {s \in SUBSET S : \E z \in s : SumOf(f, s) # f[z] + SumOf(f, s \ {z})}
<1>1. SUFFICES ASSUME Bad # {} PROVE FALSE
  OBVIOUS
<1>2. Bad \in SUBSET (SUBSET S)
  OBVIOUS
<1> HIDE DEF Bad
<1>3. PICK s \in Bad : \A v \in SUBSET s : v # s => v \notin Bad
  BY <1>1, <1>2, MinimalSet
<1>4. PICK z \in s : SumOf(f, s) # f[z] + SumOf(f, s \ {z})
  BY DEF Bad
<1> DEFINE y == AnyOf(s)
<1>5. s \in SUBSET S /\ y \in s
  BY DEF AnyOf, Bad
<1> HIDE DEF y
<1>6. /\ IsFiniteSet(s) /\ IsFiniteSet(s \ {y}) /\ IsFiniteSet(s \ {z})
      /\ IsFiniteSet((s \ {y}) \ {z})
  BY <1>5, FS_Subset
<1>7. SumOf(f, s) = f[y] + SumOf(f, s \ {y})
  BY <1>5, <1>6, SumOfRest DEF y
<1>8. y # z
  BY <1>4, <1>7
<1>9. s \ {y} \notin Bad /\ s \ {z} \notin Bad
  BY <1>3, <1>5
<1>10. SumOf(f, s \ {y}) = f[z] + SumOf(f, (s \ {y}) \ {z})
  BY <1>5, <1>8, <1>9 DEF Bad
<1>11. SumOf(f, s \ {z}) = f[y] + SumOf(f, (s \ {z}) \ {y})
  BY <1>5, <1>8, <1>9 DEF Bad
<1>12. (s \ {z}) \ {y} = (s \ {y}) \ {z}
  OBVIOUS
<1>13. SumOf(f, (s \ {y}) \ {z}) \in Nat /\ f[y] \in Nat /\ f[z] \in Nat
  BY <1>5, <1>6, SumOfType
<1>14. \A a, b, c \in Nat : a + (b + c) = b + (a + c)
  OBVIOUS
<1>15. f[y] + (f[z] + SumOf(f, (s \ {y}) \ {z})) = f[z] + (f[y] + SumOf(f, (s \ {y}) \ {z}))
  BY <1>13, <1>14
<1> QED
  BY <1>4, <1>7, <1>10, <1>11, <1>12, <1>15

LEMMA SumOfSame ==
    ASSUME NEW f, NEW g, NEW S, IsFiniteSet(S), \A x \in S : f[x] = g[x]
    PROVE  SumOf(f, S) = SumOf(g, S)
<1> DEFINE Bad == {s \in SUBSET S : SumOf(f, s) # SumOf(g, s)}
<1>1. SUFFICES ASSUME Bad # {} PROVE FALSE
  OBVIOUS
<1>2. Bad \in SUBSET (SUBSET S)
  OBVIOUS
<1> HIDE DEF Bad
<1>3. PICK s \in Bad : \A v \in SUBSET s : v # s => v \notin Bad
  BY <1>1, <1>2, MinimalSet
<1> USE DEF Bad
<1>4. IsFiniteSet(s)
  BY FS_Subset
<1> DEFINE x == AnyOf(s)
<1>5. /\ SumOf(f, s) = IF s = {} THEN 0 ELSE f[x] + SumOf(f, s \ {x})
      /\ SumOf(g, s) = IF s = {} THEN 0 ELSE g[x] + SumOf(g, s \ {x})
  BY <1>4, SumOfRest
<1>6. s # {}
  BY <1>5
<1>7. x \in s
  BY <1>6 DEF AnyOf
<1> HIDE DEF x
<1>8. SumOf(f, s \ {x}) = SumOf(g, s \ {x})
  BY <1>3, <1>7
<1> QED
  BY <1>5, <1>6, <1>7, <1>8

-----------------------------------------------------------------------------
(* The queue and its counters *)

SizeCounted == totalSize = SumOf(size, transactions)

FlushedCounted == flushed = Cardinality(Settled) /\ flushed = rejected + Cardinality(delivered)

QueueInv ==
    /\ AccountInv /\ totalCount = Cardinality(transactions) /\ SizeCounted
    /\ QueueBounded /\ FlushedCounted

LEMMA QueueFinite ==
    ASSUME HistoryInv
    PROVE  /\ transactions \in SUBSET Ids /\ IsFiniteSet(transactions)
           /\ IsFiniteSet(Settled) /\ IsFiniteSet(delivered) /\ IsFiniteSet(evicted)
           /\ size \in [Ids -> Nat] /\ totalSize \in Int /\ totalCount \in Int
           /\ flushed \in Nat /\ rejected \in Nat
<1> USE DEF HistoryInv, FlushInv, TypeInv, TypeOK
<1>1. IsFiniteSet(1..counter) /\ 1..counter \subseteq Ids
  BY FS_Interval, WhatHasANumber
<1>2. transactions \subseteq 1..counter /\ delivered \subseteq 1..counter /\ evicted \subseteq 1..counter
  BY DEF QueueType, StatType
<1>3. Settled \subseteq 1..counter
  BY WhatHasANumber
<1>4. size \in [Ids -> Nat]
  BY DEF TxnType
<1> QED
  BY <1>1, <1>2, <1>3, <1>4, FS_Subset DEF QueueType, StatType

\* A transaction leaves the queue: a queue over its limit was that transaction.
LEMMA RemoveCounts ==
    ASSUME QueueInv, NEW t, Remove(t), size' = size
    PROVE  totalCount' = Cardinality(transactions)' /\ SizeCounted' /\ QueueBounded'
<1>1. HistoryInv
  BY DEF QueueInv, AccountInv
<1>2. CASE t \notin transactions
  BY <1>2 DEF Remove, queueVars, QueueInv, SizeCounted, QueueBounded
<1>3. CASE t \in transactions
  <2>1. /\ transactions' = transactions \ {t} /\ totalCount' = totalCount - 1
        /\ totalSize' = totalSize - size[t]
    BY <1>3 DEF Remove
  <2>2. IsFiniteSet(transactions) /\ Cardinality(transactions \ {t}) = Cardinality(transactions) - 1
    BY <1>1, <1>3, QueueFinite, FS_RemoveElement
  <2>3. totalCount' = Cardinality(transactions)'
    BY <2>1, <2>2 DEF QueueInv
  <2>4. SumOf(size, transactions) = size[t] + SumOf(size, transactions \ {t})
    BY <1>1, <1>3, QueueFinite, SumOfRemove
  <2>5. SumOf(size, transactions \ {t}) \in Nat /\ size[t] \in Nat
    <3>1. transactions \ {t} \in SUBSET Ids /\ IsFiniteSet(transactions \ {t})
      BY <1>1, QueueFinite, FS_Subset
    <3> QED
      BY <1>1, <1>3, <3>1, QueueFinite, SumOfType
  <2>6. SizeCounted'
    BY <2>1, <2>4, <2>5 DEF QueueInv, SizeCounted
  <2>7. QueueBounded'
    <3>1. SUFFICES ASSUME totalSize' > MaxQueueSize PROVE FALSE
      BY DEF QueueBounded
    <3>2. totalSize > MaxQueueSize
      BY <1>1, <2>1, <2>5, <3>1, QueueFinite
    <3>3. Cardinality(transactions) = 1
      BY <3>2 DEF QueueInv, QueueBounded
    <3>4. transactions \ {t} = {}
      BY <1>1, <1>3, <3>3, QueueFinite, FS_Singleton
    <3>5. SumOf(size, {}) = 0
      BY SumOfRest, FS_EmptySet
    <3> QED
      BY <2>1, <2>6, <3>1, <3>4, <3>5 DEF SizeCounted
  <2> QED
    BY <2>3, <2>6, <2>7
<1> QED
  BY <1>2, <1>3

\* append() puts one more in the queue, alone or where there is room.
LEMMA AppendCounts ==
    ASSUME QueueInv, NEW tg \in Targets, Append1(tg)
    PROVE  totalCount' = Cardinality(transactions)' /\ SizeCounted' /\ QueueBounded'
<1> DEFINE n == counter + 1
           more == transactions \cup {n}
<1>1. HistoryInv
  BY DEF QueueInv, AccountInv
<1>2. /\ transactions' = more /\ totalCount' = totalCount + 1
      /\ totalSize' = totalSize + posting.size /\ counter' = n
      /\ size' = [size EXCEPT ![n] = posting.size]
      /\ ~NoRoom \/ transactions = {}
  BY DEF Append1, GetTrId
<1>3. posting.size \in Nat
  BY <1>1 DEF HistoryInv, FlushInv, TypeInv, TypeOK, CallsType
<1>4. n \in Ids
  <2>1. TypeInv'
    BY <1>1, StepTypeInv DEF HistoryInv, FlushInv, Next, CallStep
  <2> QED
    BY <1>1, <1>2, <2>1, WhatHasANumber DEF TypeInv, TypeOK, TxnType, Ids
<1>5. n \notin transactions
  <2>1. n \notin 1..counter
    BY <1>1, WhatHasANumber
  <2> QED
    BY <2>1, <1>1, WhatHasANumber DEF Queued
<1> HIDE DEF n
<1>6. IsFiniteSet(more) /\ Cardinality(more) = Cardinality(transactions) + 1
  BY <1>1, <1>5, QueueFinite, FS_AddElement
<1>7. totalCount' = Cardinality(transactions)'
  BY <1>2, <1>6 DEF QueueInv
<1>8. size' \in [Ids -> Nat] /\ size'[n] = posting.size /\ \A x \in transactions : size'[x] = size[x]
  BY <1>1, <1>2, <1>3, <1>4, <1>5, QueueFinite
<1>9. SumOf(size', transactions) = SumOf(size, transactions)
  BY <1>1, <1>8, QueueFinite, SumOfSame
<1>10. more \ {n} = transactions
  BY <1>5
<1>11. SumOf(size', more) = size'[n] + SumOf(size', more \ {n})
  <2>1. n \in more /\ more \in SUBSET Ids
    BY <1>1, <1>4, QueueFinite
  <2> HIDE DEF more
  <2> QED
    BY <1>6, <1>8, <2>1, SumOfRemove
<1>12. SumOf(size, transactions) \in Nat
  BY <1>1, QueueFinite, SumOfType
<1>13. SizeCounted'
  <2>1. totalSize = SumOf(size, transactions)
    BY DEF QueueInv, SizeCounted
  <2> HIDE DEF more
  <2>2. SumOf(size', more) = posting.size + SumOf(size, transactions)
    BY <1>8, <1>9, <1>10, <1>11
  <2>3. totalSize' = SumOf(size', more)
    BY <1>2, <1>3, <1>12, <2>1, <2>2
  <2> QED
    BY <1>2, <2>3 DEF SizeCounted
<1>14. QueueBounded'
  <2>1. CASE ~NoRoom
    BY <1>1, <1>2, <1>3, <2>1, QueueFinite DEF NoRoom, QueueBounded
  <2>2. CASE transactions = {}
    <3>1. Cardinality(transactions') = 1
      BY SMTT(30), <1>2, <2>2, FS_Singleton
    <3> QED
      BY <3>1 DEF QueueBounded
  <2> QED
    BY <1>2, <2>1, <2>2
<1> QED
  BY <1>7, <1>13, <1>14

\* A transaction is settled once, and counted then.
LEMMA DecidesCounts ==
    ASSUME QueueInv, NEW t \in (1..counter) \ Settled, Decides(t)
    PROVE  FlushedCounted'
<1>1. HistoryInv
  BY DEF QueueInv, AccountInv
<1>2. Settled' = Settled \cup {t} /\ flushed' = flushed + 1
  BY DEF Decides, Settled
<1>3. Cardinality(Settled') = Cardinality(Settled) + 1
  BY <1>1, <1>2, QueueFinite, FS_AddElement
<1>4. \/ delivered' = delivered \cup {t} /\ rejected' = rejected
      \/ delivered' = delivered /\ rejected' = rejected + 1
  BY DEF Decides
<1>5. t \notin delivered
  BY DEF Settled
<1>6. Cardinality(delivered \cup {t}) = Cardinality(delivered) + 1 /\ Cardinality(delivered) \in Nat
  BY <1>1, <1>5, QueueFinite, FS_AddElement, FS_CardinalityType
<1>7. /\ flushed = Cardinality(Settled) /\ flushed = rejected + Cardinality(delivered)
      /\ flushed \in Nat /\ rejected \in Nat
  BY <1>1, QueueFinite DEF QueueInv, FlushedCounted
<1>8. flushed' = Cardinality(Settled')
  BY <1>2, <1>3, <1>7
<1>9. flushed' = rejected' + Cardinality(delivered')
  <2>1. CASE delivered' = delivered \cup {t} /\ rejected' = rejected
    BY <1>2, <1>6, <1>7, <2>1
  <2>2. CASE delivered' = delivered /\ rejected' = rejected + 1
    BY <1>2, <1>6, <1>7, <2>2
  <2> QED
    BY <1>4, <2>1, <2>2
<1> QED
  BY <1>8, <1>9 DEF FlushedCounted

LEMMA StepQueueInv == QueueInv /\ [Next]_vars => QueueInv'
<1> SUFFICES ASSUME QueueInv, [Next]_vars PROVE QueueInv'
  OBVIOUS
<1>1. AccountInv'
  BY StepAccountInv DEF QueueInv
<1>2. totalCount' = Cardinality(transactions)' /\ SizeCounted' /\ QueueBounded' /\ FlushedCounted'
  <2>1. CASE QueueAlone \/ UNCHANGED vars
    BY <2>1 DEF QueueAlone, vars, txnVars, queueVars, statVars, QueueInv, SizeCounted,
       QueueBounded, FlushedCounted, Settled
  <2>2. CASE Evict
    <3>1. (\E t \in transactions : Remove(t)) /\ UNCHANGED <<size, flushed, rejected, delivered, refused, givenUp>>
      BY <2>2 DEF Evict, txnVars
    <3>2. FlushedCounted'
      BY <3>1 DEF QueueInv, FlushedCounted, Settled
    <3> QED
      BY <3>1, <3>2, RemoveCounts
  <2>3. ASSUME NEW tg \in Targets, Append1(tg)
        PROVE  totalCount' = Cardinality(transactions)' /\ SizeCounted' /\ QueueBounded' /\ FlushedCounted'
    <3>1. FlushedCounted'
      BY <2>3 DEF Append1, statVars, QueueInv, FlushedCounted, Settled
    <3> QED
      BY <2>3, <3>1, AppendCounts
  <2>4. ASSUME NEW t \in (1..counter) \ Settled, Decides(t)
        PROVE  totalCount' = Cardinality(transactions)' /\ SizeCounted' /\ QueueBounded' /\ FlushedCounted'
    BY <2>4, RemoveCounts, DecidesCounts DEF Decides
  <2> QED
    BY <2>1, <2>2, <2>3, <2>4, QueueSteps DEF QueueInv, AccountInv
<1> QED
  BY <1>1, <1>2 DEF QueueInv

LEMMA InitQueueInv == Init => QueueInv
<1> SUFFICES ASSUME Init PROVE QueueInv
  OBVIOUS
<1>1. transactions = {} /\ totalCount = 0 /\ totalSize = 0 /\ flushed = 0 /\ rejected = 0
      /\ Settled = {} /\ delivered = {}
  BY DEF Init, Settled
<1>2. Cardinality({}) = 0 /\ SumOf(size, {}) = 0
  BY FS_EmptySet, SumOfRest
<1> QED
  BY <1>1, <1>2, InitAccountInv DEF QueueInv, SizeCounted, QueueBounded, FlushedCounted

\* The counts of the status page and what was received: the queue and what is
\* settled are disjoint, and with the evicted they are everything.
LEMMA StatusAdds ==
    ASSUME QueueInv
    PROVE  StatusConserved
<1>1. HistoryInv /\ counter \in Nat
  BY WhatHasANumber DEF QueueInv, AccountInv
<1>2. /\ IsFiniteSet(transactions) /\ IsFiniteSet(Settled) /\ IsFiniteSet(evicted)
      /\ transactions \cap Settled = {} /\ transactions \cup Settled \subseteq 1..counter
  BY <1>1, QueueFinite, WhatHasANumber DEF Queued
<1>3. IsFiniteSet(1..counter) /\ Cardinality(1..counter) = counter
  BY <1>1, FS_Interval
<1> DEFINE known == transactions \cup Settled
<1>4. IsFiniteSet(known) /\ Cardinality(known) = Cardinality(transactions) + Cardinality(Settled)
  <2>1. Cardinality(transactions \cap Settled) = 0
    BY <1>2, FS_EmptySet
  <2>2. Cardinality(transactions) \in Nat /\ Cardinality(Settled) \in Nat
    BY <1>2, FS_CardinalityType
  <2> QED
    BY <1>2, <2>1, <2>2, FS_Union
<1>5. Cardinality(known) <= counter
  <2>1. known \in SUBSET (1..counter)
    BY <1>2
  <2> HIDE DEF known
  <2>2. Cardinality(known) <= Cardinality(1..counter)
    BY <1>3, <2>1, FS_Subset
  <2> QED
    BY <1>3, <2>2
<1>6. IsFiniteSet(known \cup evicted) /\ Cardinality(known \cup evicted) <= Cardinality(known) + Cardinality(evicted)
  <2>1. /\ Cardinality(known \cup evicted)
             = Cardinality(known) + Cardinality(evicted) - Cardinality(known \cap evicted)
        /\ IsFiniteSet(known \cup evicted)
    BY <1>2, <1>4, FS_Union
  <2>2. Cardinality(known \cap evicted) \in Nat /\ Cardinality(known) \in Nat /\ Cardinality(evicted) \in Nat
    BY <1>2, <1>4, FS_CardinalityType, FS_Intersection
  <2> HIDE DEF known
  <2> QED
    BY <2>1, <2>2
<1>7. counter <= Cardinality(known \cup evicted)
  <2>1. 1..counter \in SUBSET (known \cup evicted)
    BY DEF QueueInv, AccountInv, AccountedFor
  <2> HIDE DEF known
  <2>2. Cardinality(1..counter) <= Cardinality(known \cup evicted)
    BY <1>6, <2>1, FS_Subset
  <2> QED
    BY <1>3, <2>2
<1>8. Cardinality(known) \in Nat /\ Cardinality(evicted) \in Nat /\ Cardinality(known \cup evicted) \in Nat
  BY <1>2, <1>4, <1>6, FS_CardinalityType
<1>9. Cardinality(known) = totalCount + flushed
  BY <1>4 DEF QueueInv, FlushedCounted
<1> HIDE DEF known
<1>10. totalCount + flushed <= counter /\ counter <= totalCount + flushed + Cardinality(evicted)
  BY <1>1, <1>5, <1>6, <1>7, <1>8, <1>9
<1> QED
  BY <1>10 DEF StatusConserved, QueueInv, FlushedCounted

\* For all sizes and limits, the count and the size that append(), tr_error() and
\* tr_success() keep are those of the queue, it exceeds its limit only by a
\* single message, and the status page accounts for everything received.
THEOREM QueueCorrect == Spec => []QueueSound
<1>1. QueueInv => QueueSound
  <2> SUFFICES ASSUME QueueInv PROVE QueueSound
    OBVIOUS
  <2>1. totalSize = MapThenSumSet(LAMBDA t : size[t], transactions)
    BY SumIsSumOf DEF QueueInv, SizeCounted
  <2>2. QueueCounted
    BY <2>1 DEF QueueInv, QueueCounted
  <2>3. TypeOK
    BY DEF QueueInv, AccountInv, HistoryInv, FlushInv, TypeInv
  <2> QED
    BY <2>2, <2>3, StatusAdds DEF QueueInv, QueueSound
<1> QED
  BY <1>1, InitQueueInv, StepQueueInv, PTL DEF Spec

-----------------------------------------------------------------------------
(* Endpoints are spared *)

\* A transaction has the endpoint and key that append() gave it.
TargetsKept == \A t \in 1..counter : target[t] \in Targets

\* No request was made after the time that the throttling goes by.
SentByLastFlush == \A t \in inFlight : sentAt[t] <= lastFlush

SparedInv ==
    FlushInv /\ TargetsKept /\ DownEndpointSpared /\ SentByLastFlush /\ RequestsSpaced

\* The steps that make no request, end none and change no list.
Sparing == UNCHANGED <<trsToFlush, endpointErrors, inFlight, sentAt, lastFlush>>

LEMMA SparingSteps ==
    ASSUME Next
    PROVE  \/ Sparing \/ FlushBegin \/ FlushNextAbort
           \/ \E e \in trsToFlush : FlushNextSend(e) \/ FlushNextRaise(e)
           \/ \E t \in Ids : OnResponse(t)
<1> USE DEF Sparing, clockVars, flushVars, httpVars
<1>1. CASE Evict \/ \E tg \in Targets : Append1(tg)
  BY <1>1 DEF Evict, Append1
<1>2. CASE AppendDone \/ FlushNothing \/ FlushNextWait \/ FlushNextFull \/ FlushNextEnd
  BY <1>2 DEF AppendDone, FlushNothing, FlushNextWait, FlushNextFull, FlushNextEnd
<1>3. CASE Post \/ PostMetrics \/ PeriodicFlush \/ TimerFires \/ Tick
  BY <1>3 DEF Post, PostMetrics, NewMessage, PeriodicFlush, TimerFires, Tick
<1> QED
  BY <1>1, <1>2, <1>3 DEF Next, CallStep

LEMMA StepTargets ==
    ASSUME TypeInv, TargetsKept, Next
    PROVE  TargetsKept' /\ \A t \in 1..counter : target'[t] = target[t]
<1>1. counter \in Nat /\ 1..counter \subseteq Ids /\ DOMAIN target = Ids
  BY DEF TypeInv, TypeOK, TxnType, Ids
<1>2. CASE counter' = counter /\ target' = target
  BY <1>2 DEF TargetsKept
<1>3. ASSUME NEW tg \in Targets, Append1(tg)
      PROVE  TargetsKept' /\ \A t \in 1..counter : target'[t] = target[t]
  <2>1. counter' = counter + 1 /\ target' = [target EXCEPT ![counter + 1] = tg]
    BY <1>3 DEF Append1, GetTrId
  <2>2. counter + 1 \in Ids
    <3>1. TypeInv'
      BY <1>3, Append1Type
    <3> QED
      BY <1>1, <2>1, <3>1 DEF TypeInv, TypeOK, TxnType, Ids
  <2>3. \A t \in 1..counter : target'[t] = target[t]
    BY <1>1, <2>1
  <2>4. target'[counter + 1] = tg
    BY <1>1, <2>1, <2>2
  <2> QED
    BY <1>1, <2>1, <2>3, <2>4 DEF TargetsKept
<1>4. ASSUME NEW e \in trsToFlush, FlushNextSend(e) \/ FlushNextRaise(e)
      PROVE  counter' = counter /\ target' = target
  BY <1>4 DEF FlushNextSend, FlushNextRaise, txnVars
<1>5. CASE \E t \in Ids : OnResponse(t)
  BY <1>2, <1>5 DEF OnResponse
<1>6. CASE Evict \/ AppendDone \/ FlushNothing \/ FlushBegin \/ FlushNextAbort
           \/ FlushNextWait \/ FlushNextFull \/ FlushNextEnd
  BY <1>2, <1>6 DEF Evict, AppendDone, FlushNothing, FlushBegin, FlushNextAbort, FlushNextWait,
     FlushNextFull, FlushNextEnd, txnVars
<1>7. CASE Post \/ PostMetrics \/ PeriodicFlush \/ TimerFires \/ Tick
  BY <1>2, <1>7 DEF Post, PostMetrics, NewMessage, PeriodicFlush, TimerFires, Tick, txnVars
<1> QED
  BY <1>2, <1>3, <1>4, <1>5, <1>6, <1>7 DEF Next, CallStep

\* The error of a request: its endpoint is skipped when it has failed so often.
LEMMA TrErrorSpares ==
    ASSUME SparedInv, TargetsKept', NEW t \in 1..counter, NEW left \in SUBSET trsToFlush,
           TrError(t, left), target' = target
    PROVE  DownEndpointSpared'
<1>1. \A e \in trsToFlush : e.tr \in 1..counter /\ endpointErrors[endpoint(e.tr)] < MaxEndpointErrors
  BY DEF SparedInv, FlushInv, TypeInv, TypeOK, FlushType, DownEndpointSpared
<1>2. CASE TrErrorFinal(t, left)
  BY <1>1, <1>2 DEF TrErrorFinal, DownEndpointSpared, endpoint
<1>3. CASE TrErrorReplay(t, left)
  <2>1. /\ trsToFlush' = left \ Skipped(t, left)
        /\ endpointErrors' = [endpointErrors EXCEPT ![endpoint(t)] = @ + 1]
    BY <1>3 DEF TrErrorReplay
  <2>2. \A u \in 1..counter : endpoint(u) \in Endpoints
    BY DEF SparedInv, TargetsKept, endpoint
  <2>3. endpointErrors \in [Endpoints -> Nat]
    BY DEF SparedInv, FlushInv, TypeInv, TypeOK, FlushType
  <2>4. ASSUME NEW e \in trsToFlush'
        PROVE  endpointErrors'[endpoint(e.tr)] < MaxEndpointErrors
    <3>1. e \in left /\ e \in trsToFlush /\ e \notin Skipped(t, left)
      BY <2>1, <2>4
    <3>2. CASE endpoint(e.tr) # endpoint(t)
      BY <1>1, <2>1, <2>2, <2>3, <3>1, <3>2
    <3>3. CASE endpoint(e.tr) = endpoint(t)
      <4>1. ~SeemsDown(endpoint(t))
        BY <3>1, <3>3 DEF Skipped
      <4>2. endpointErrors[endpoint(t)] < MaxEndpointErrors /\ endpointErrors[endpoint(t)] \in Nat
        BY <1>1, <2>2, <2>3, <3>1, <3>3
      <4>3. endpointErrors'[endpoint(t)] = endpointErrors[endpoint(t)] + 1
        BY <2>1, <2>2, <2>3
      <4> QED
        BY <3>3, <4>1, <4>2, <4>3 DEF SeemsDown
    <3> QED
      BY <3>2, <3>3
  <2> QED
    BY <2>4 DEF DownEndpointSpared, endpoint
<1> QED
  BY <1>2, <1>3 DEF TrError

LEMMA StepSparedInv == SparedInv /\ [Next]_vars => SparedInv'
<1> SUFFICES ASSUME SparedInv, [Next]_vars PROVE SparedInv'
  OBVIOUS
<1>1. FlushInv'
  BY StepFlushInv DEF SparedInv
<1>2. TargetsKept' /\ \A t \in 1..counter : target'[t] = target[t]
  BY StepTargets DEF SparedInv, FlushInv, vars, txnVars, TargetsKept
<1>3. /\ inFlight \subseteq Ids /\ sentAt \in [Ids -> Nat] /\ now \in Nat /\ lastFlush \in Nat
      /\ \A e \in trsToFlush : e.tr \in 1..counter /\ e.tr \in Ids
  BY DEF SparedInv, FlushInv, TypeInv, TypeOK, HttpType, ClockType, FlushType, TxnType, Ids
<1>4. DownEndpointSpared' /\ SentByLastFlush' /\ RequestsSpaced'
  <2>1. CASE Sparing \/ UNCHANGED vars
    <3>1. Sparing
      BY <2>1 DEF Sparing, vars, clockVars, flushVars, httpVars
    <3>2. DownEndpointSpared'
      BY <1>2, <1>3, <3>1 DEF Sparing, SparedInv, DownEndpointSpared, endpoint
    <3> QED
      BY <3>1, <3>2 DEF Sparing, SparedInv, SentByLastFlush, RequestsSpaced
  <2>2. CASE FlushBegin
    <3>1. /\ trsToFlush' = {[tr |-> t, errors |-> errorCount[t]] : t \in Due}
          /\ endpointErrors' = [e \in Endpoints |-> 0]
          /\ UNCHANGED <<inFlight, sentAt, lastFlush, counter, transactions>>
      BY <2>2 DEF FlushBegin, clockVars, txnVars, httpVars, queueVars
    <3>2. \A e \in trsToFlush' : e.tr \in 1..counter
      BY <3>1 DEF Due, SparedInv, FlushInv, TypeInv, TypeOK, QueueType
    <3>3. \A e \in trsToFlush' : endpoint(e.tr)' \in Endpoints
      BY <1>2, <3>1, <3>2 DEF TargetsKept, endpoint
    <3>4. DownEndpointSpared'
      BY <3>1, <3>3 DEF DownEndpointSpared
    <3> QED
      BY <3>1, <3>4 DEF SparedInv, SentByLastFlush, RequestsSpaced
  <2>3. CASE FlushNextAbort
    <3>1. trsToFlush' = {} /\ UNCHANGED <<inFlight, sentAt, lastFlush>>
      BY <2>3 DEF FlushNextAbort, clockVars, httpVars
    <3> QED
      BY <3>1 DEF SparedInv, DownEndpointSpared, SentByLastFlush, RequestsSpaced
  <2>4. ASSUME NEW e \in trsToFlush, FlushNextSend(e)
        PROVE  DownEndpointSpared' /\ SentByLastFlush' /\ RequestsSpaced'
    <3>1. /\ trsToFlush' = trsToFlush \ {e} /\ UNCHANGED <<endpointErrors, target>>
          /\ lastFlush' = now /\ inFlight' = inFlight \cup {e.tr}
          /\ sentAt' = [sentAt EXCEPT ![e.tr] = now]
          /\ lastFlush + ThrottlingDelay <= now
      BY <1>3, <2>4 DEF FlushNextSend, MaySend, Throttled, txnVars
    <3>2. DownEndpointSpared'
      BY <3>1 DEF SparedInv, DownEndpointSpared, endpoint
    <3>3. e.tr \notin inFlight
      BY DEF SparedInv, FlushInv, SentOnce, ToFlush, Trs
    <3>4. sentAt'[e.tr] = now
      BY <1>3, <3>1
    <3>5. \A t \in inFlight : sentAt'[t] = sentAt[t] /\ sentAt[t] <= lastFlush /\ sentAt[t] \in Nat
      BY <1>3, <3>1, <3>3 DEF SparedInv, SentByLastFlush
    <3>6. SentByLastFlush'
      BY <1>3, <3>1, <3>4, <3>5 DEF SentByLastFlush
    <3>7. \A t \in inFlight : sentAt[t] + ThrottlingDelay <= now
      BY <1>3, <3>1, <3>5
    <3>8. ASSUME NEW t \in inFlight', NEW u \in inFlight', t # u, sentAt'[t] <= sentAt'[u]
          PROVE  sentAt'[t] + ThrottlingDelay <= sentAt'[u]
      <4>1. CASE t \in inFlight /\ u \in inFlight
        BY <3>5, <3>8, <4>1 DEF SparedInv, RequestsSpaced
      <4>2. CASE t \in inFlight /\ u = e.tr
        BY <3>4, <3>5, <3>7, <4>2
      <4>3. CASE t = e.tr /\ u \in inFlight
        BY <1>3, <3>4, <3>5, <3>7, <3>8, <4>3
      <4> QED
        BY <3>1, <3>8, <4>1, <4>2, <4>3
    <3> QED
      BY <3>2, <3>6, <3>8 DEF RequestsSpaced
  <2>5. ASSUME NEW e \in trsToFlush, FlushNextRaise(e)
        PROVE  DownEndpointSpared' /\ SentByLastFlush' /\ RequestsSpaced'
    <3>1. /\ TrError(e.tr, trsToFlush \ {e}) /\ UNCHANGED <<target, inFlight, sentAt>>
          /\ lastFlush' = now /\ lastFlush + ThrottlingDelay <= now
      BY <1>3, <2>5 DEF FlushNextRaise, MaySend, Throttled, httpVars
    <3>2. DownEndpointSpared'
      BY <1>2, <1>3, <3>1, TrErrorSpares
    <3>3. lastFlush <= now
      BY <1>3, <3>1
    <3>4. SentByLastFlush'
      BY <1>3, <3>1, <3>3 DEF SparedInv, SentByLastFlush
    <3> QED
      BY <3>1, <3>2, <3>4 DEF SparedInv, RequestsSpaced
  <2>6. ASSUME NEW t \in Ids, OnResponse(t)
        PROVE  DownEndpointSpared' /\ SentByLastFlush' /\ RequestsSpaced'
    <3>1. /\ t \in inFlight /\ inFlight' = inFlight \ {t} /\ UNCHANGED <<target, lastFlush>>
          /\ sentAt' = [sentAt EXCEPT ![t] = 0]
      BY <2>6 DEF OnResponse, clockVars
    <3>2. DownEndpointSpared'
      <4>1. CASE TrError(t, trsToFlush)
        <5>1. t \in 1..counter
          BY <3>1 DEF SparedInv, FlushInv, TypeInv, TypeOK, HttpType
        <5> QED
          BY <1>2, <3>1, <4>1, <5>1, TrErrorSpares
      <4>2. CASE TrSuccess(t) \/ TrReject(t)
        BY <3>1, <4>2 DEF TrSuccess, TrReject, SparedInv, DownEndpointSpared, endpoint
      <4> QED
        BY <2>6, <4>1, <4>2 DEF OnResponse
    <3>3. \A u \in inFlight' : u \in inFlight /\ sentAt'[u] = sentAt[u]
      BY <1>3, <3>1
    <3> QED
      BY <3>1, <3>2, <3>3 DEF SparedInv, SentByLastFlush, RequestsSpaced
  <2> QED
    BY <2>1, <2>2, <2>3, <2>4, <2>5, <2>6, SparingSteps
<1> QED
  BY <1>1, <1>2, <1>4 DEF SparedInv

LEMMA InitSparedInv == Init => SparedInv
<1> SUFFICES ASSUME Init PROVE SparedInv
  OBVIOUS
<1>1. TargetsKept
  BY DEF Init, TargetsKept
<1>2. DownEndpointSpared /\ SentByLastFlush /\ RequestsSpaced
  BY DEF Init, DownEndpointSpared, SentByLastFlush, RequestsSpaced
<1> QED
  BY <1>1, <1>2, InitFlushInv DEF SparedInv

\* For all delays and limits, an endpoint that has failed max_endpoint_errors times in
\* a flush has nothing left in it, and requests that are out at the same time were
\* made THROTTLING_DELAY apart.
THEOREM EndpointsCorrect == Spec => []EndpointsSpared
<1>1. SparedInv => EndpointsSpared
  BY DEF SparedInv, EndpointsSpared
<1> QED
  BY <1>1, InitSparedInv, StepSparedInv, PTL DEF Spec
=============================================================================
