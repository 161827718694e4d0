------------------------------ MODULE Forwarder ------------------------------
(***************************************************************************)
(* The forwarder process: transaction.py (TransactionManager) driven by    *)
(* the tornado handlers and callbacks of stsagent.py.                      *)
(*                                                                         *)
(* The process has one thread, the tornado ioloop.  A callback (an HTTP    *)
(* post, the periodic flush, a throttling timer, the answer of a request)  *)
(* starts only when no other callback runs; `calls' holds the calls that   *)
(* the running callback still has to make, so it is empty exactly when the *)
(* loop is idle.  flush_next() calls itself only in tail position: each    *)
(* iteration is one step.                                                  *)
(*                                                                         *)
(* Time is a counter of ticks.  It advances only when the loop is idle, no *)
(* timer is due, no request is beyond its timeout, and something waits for *)
(* it to advance: with finitely many messages the clock needs no bound.    *)
(***************************************************************************)
EXTENDS Integers, FiniteSets, Sequences, FiniteSetsExt

CONSTANTS
    Endpoints,          \* intake endpoints
    ApiKeys,            \* API keys
    Targets,            \* the configured <<endpoint, api key>> pairs
    Sizes,              \* sizes of the messages
    MaxTransactions,    \* bound: transactions created in a behaviour
    MaxQueueSize,       \* MAX_QUEUE_SIZE
    MaxParallelism,     \* max_parallelism: 1, or 5 with several endpoints
    MaxEndpointErrors,  \* max_endpoint_errors
    ThrottlingDelay,    \* THROTTLING_DELAY, in ticks
    ReplayDelay,        \* the 20 seconds of compute_next_flush, in ticks
    MaxWaitForReplay,   \* MAX_WAIT_FOR_REPLAY, in ticks
    MaxFlushDuration,   \* _MAX_FLUSH_DURATION, in ticks
    RequestTimeout,     \* _request_timeout, in ticks
    TicksPerSecond      \* next flush times are truncated to the second

ASSUME TargetsAssumption ==
    /\ Targets \subseteq Endpoints \X ApiKeys
    /\ IsFiniteSet(Targets)

ASSUME ParametersAssumption ==
    /\ Sizes \subseteq Nat
    /\ MaxTransactions \in Nat
    /\ MaxQueueSize \in Nat
    /\ MaxParallelism \in Nat \ {0}
    /\ MaxEndpointErrors \in Nat \ {0}
    /\ ThrottlingDelay \in Nat
    /\ ReplayDelay \in Nat
    /\ MaxWaitForReplay \in Nat
    /\ MaxFlushDuration \in Nat \ {0}
    /\ RequestTimeout \in Nat \ {0}
    /\ TicksPerSecond \in Nat \ {0}

Ids == 1..MaxTransactions

VARIABLES
    now,              \* the clock
    calls,            \* calls the running callback still has to make
    posting,          \* the message being turned into transactions
    counter,          \* _counter: the last transaction id given
    target,           \* _endpoint and _api_key of each transaction
    size,             \* _size
    errorCount,       \* _error_count
    nextFlush,        \* _next_flush
    transactions,     \* _transactions: ids, in the order of the ids
    totalCount,       \* _total_count
    totalSize,        \* _total_size
    flushing,         \* _trs_to_flush is not None
    trsToFlush,       \* _trs_to_flush: the transactions with their sort key
    endpointErrors,   \* _endpoints_errors
    flushTime,        \* _flush_time: when the current flush began
    lastFlush,        \* _last_flush: when a transaction was last sent
    runningFlushes,   \* _running_flushes
    inFlight,         \* requests made and not answered
    sentAt,           \* when the request of a transaction in flight was made
    timers,           \* add_timeout() calls pending: all are for last_flush
                      \* plus the same delay, so they are due in order
    flushed,          \* _transactions_flushed
    rejected,         \* _transactions_rejected
    delivered,        \* history: transactions an intake acknowledged
    refused,          \* history: transactions an intake rejected
    givenUp,          \* history: transactions that failed too often
    evicted           \* history: transactions removed for lack of room

clockVars == <<now, timers, lastFlush>>
queueVars == <<transactions, totalCount, totalSize>>
txnVars   == <<counter, target, size, errorCount, nextFlush>>
flushVars == <<flushing, trsToFlush, endpointErrors, flushTime>>
httpVars  == <<runningFlushes, inFlight, sentAt>>
statVars  == <<flushed, rejected, delivered, refused, givenUp, evicted>>
vars == <<clockVars, calls, posting, queueVars, txnVars, flushVars,
          httpVars, statVars>>

NoMessage == [targets |-> {}, size |-> 0, created |-> 0]
NoTarget  == <<>>

Init ==
    /\ now = 0 /\ calls = <<>> /\ posting = NoMessage
    /\ counter = 0
    /\ target = [t \in Ids |-> NoTarget]
    /\ size = [t \in Ids |-> 0]
    /\ errorCount = [t \in Ids |-> 0]
    /\ nextFlush = [t \in Ids |-> 0]
    /\ transactions = {} /\ totalCount = 0 /\ totalSize = 0
    /\ flushing = FALSE /\ trsToFlush = {}
    /\ endpointErrors = [e \in Endpoints |-> 0]
    /\ flushTime = 0 /\ lastFlush = 0
    /\ runningFlushes = 0 /\ inFlight = {} /\ sentAt = [t \in Ids |-> 0]
    /\ timers = <<>>
    /\ flushed = 0 /\ rejected = 0
    /\ delivered = {} /\ refused = {} /\ givenUp = {} /\ evicted = {}

-----------------------------------------------------------------------------
(* Helpers *)

Idle == calls = <<>>
Running(call) == calls # <<>> /\ Head(calls) = call
Return == calls' = Tail(calls)

Settled == delivered \cup refused \cup givenUp

endpoint(t) == target[t][1]
Trs(entries) == {e.tr : e \in entries}
ToFlush == Trs(trsToFlush)

\* compute_next_flush() of a transaction with n errors.
ReplayTime(n) ==
    LET delay == IF n * ReplayDelay > MaxWaitForReplay
                 THEN MaxWaitForReplay ELSE n * ReplayDelay
    IN  (now + delay) - ((now + delay) % TicksPerSecond)

\* sorted(_transactions, key = _next_flush, reverse = True): equal keys keep
\* their order in the list, the order of the ids.
EvictedBefore(t, u) ==
    nextFlush[t] > nextFlush[u] \/ (nextFlush[t] = nextFlush[u] /\ t < u)

\* sorted(to_flush, key = (- error_count, id)) is consumed by pop(), from
\* the end: fewest errors first, then the most recent.
PoppedBefore(e, f) ==
    e.errors < f.errors \/ (e.errors = f.errors /\ e.tr > f.tr)

\* Mutant: the counts decrease even if the transaction has left the queue.
RemoveAlways(t) ==
    /\ transactions' = transactions \ {t}
    /\ totalCount' = totalCount - 1
    /\ totalSize' = totalSize - size[t]

\* _remove(): a transaction that is not in the queue any more is tolerated.
Remove(t) ==
    IF t \in transactions
    THEN /\ transactions' = transactions \ {t}
         /\ totalCount' = totalCount - 1
         /\ totalSize' = totalSize - size[t]
    ELSE UNCHANGED queueVars

Overlong == now - flushTime >= MaxFlushDuration

\* Mutant: the delay counts from the beginning of the flush.
ThrottledFromFlush == now < flushTime + ThrottlingDelay
Throttled == now < lastFlush + ThrottlingDelay

-----------------------------------------------------------------------------
(* AgentTransaction.__init__: one transaction per target, then flush() *)

\* A message of an HTTP handler, or the graphite metrics of _postMetrics():
\* `todo' is what the callback then does.
NewMessage(sz, todo) ==
    /\ counter + Cardinality(Targets) <= MaxTransactions
    /\ posting' = [targets |-> Targets, size |-> sz, created |-> now]
    /\ calls' = todo
    /\ UNCHANGED <<clockVars, queueVars, txnVars, flushVars, httpVars, statVars>>

Post == Idle /\ \E sz \in Sizes : NewMessage(sz, <<"append", "flush">>)

NoRoom == totalSize + posting.size > MaxQueueSize

\* One turn of the loop of append() that makes room.
Evict ==
    /\ Running("append") /\ posting.targets # {} /\ NoRoom
    /\ \E t \in transactions :
        /\ \A u \in transactions \ {t} : EvictedBefore(t, u)
        /\ Remove(t)
        /\ evicted' = evicted \cup {t}
    /\ UNCHANGED <<clockVars, calls, posting, txnVars, flushVars, httpVars,
                   flushed, rejected, delivered, refused, givenUp>>

GetTrId == counter + 1

Append1(tg) ==
    /\ Running("append") /\ tg \in posting.targets
    /\ ~NoRoom \/ transactions = {}
    /\ counter' = counter + 1
    /\ target' = [target EXCEPT ![GetTrId] = tg]
    /\ size' = [size EXCEPT ![GetTrId] = posting.size]
    /\ nextFlush' = [nextFlush EXCEPT ![GetTrId] = posting.created]
    /\ transactions' = transactions \cup {GetTrId}
    /\ totalCount' = totalCount + 1
    /\ totalSize' = totalSize + posting.size
    /\ posting' = [posting EXCEPT !.targets = @ \ {tg}]
    /\ UNCHANGED <<clockVars, calls, errorCount, flushVars, httpVars, statVars>>

AppendDone ==
    /\ Running("append") /\ posting.targets = {}
    /\ posting' = NoMessage /\ Return
    /\ UNCHANGED <<clockVars, queueVars, txnVars, flushVars, httpVars, statVars>>

-----------------------------------------------------------------------------
(* TransactionManager.flush() *)

Due == {t \in transactions : nextFlush[t] <= now}

InProgress == flushing

\* A flush is already in progress, or nothing is due.
FlushNothing ==
    /\ Running("flush") /\ (InProgress \/ Due = {})
    /\ Return
    /\ UNCHANGED <<clockVars, posting, queueVars, txnVars, flushVars,
                   httpVars, statVars>>

FlushBegin ==
    /\ Running("flush") /\ ~InProgress /\ Due # {}
    /\ flushing' = TRUE
    /\ trsToFlush' = {[tr |-> t, errors |-> errorCount[t]] : t \in Due}
    /\ endpointErrors' = [e \in Endpoints |-> 0]
    /\ flushTime' = now
    /\ calls' = <<"flush_next">> \o Tail(calls)
    /\ UNCHANGED <<clockVars, posting, queueVars, txnVars, httpVars, statVars>>

-----------------------------------------------------------------------------
(* The end of a request: tr_error(), tr_error_reject_request(),            *)
(* tr_success().  `left' is _trs_to_flush when the call is made.           *)

ErrorIsFinal(t) == errorCount[t] + 1 > MaxEndpointErrors

TrErrorFinal(t, left) ==
    /\ errorCount' = [errorCount EXCEPT ![t] = @ + 1]
    /\ Remove(t)
    /\ flushed' = flushed + 1 /\ rejected' = rejected + 1
    /\ givenUp' = givenUp \cup {t}
    /\ trsToFlush' = left
    /\ UNCHANGED <<nextFlush, endpointErrors, delivered, refused>>

\* Mutant: the limit must be exceeded.
SeemsDownLate(ep) == endpointErrors[ep] + 1 > MaxEndpointErrors
SeemsDown(ep) == endpointErrors[ep] + 1 = MaxEndpointErrors

\* The endpoint whose error count reaches the limit is left alone for the
\* rest of the flush.
Skipped(t, left) ==
    IF SeemsDown(endpoint(t))
    THEN {e \in left : endpoint(e.tr) = endpoint(t)} ELSE {}

TrErrorReplay(t, left) ==
    /\ errorCount' = [errorCount EXCEPT ![t] = @ + 1]
    /\ nextFlush' = [u \in Ids |-> IF u \in {t} \cup Trs(Skipped(t, left))
                                   THEN ReplayTime(errorCount'[u])
                                   ELSE nextFlush[u]]
    /\ endpointErrors' = [endpointErrors EXCEPT ![endpoint(t)] = @ + 1]
    /\ trsToFlush' = left \ Skipped(t, left)
    /\ UNCHANGED <<queueVars, flushed, rejected, delivered, refused, givenUp>>

TrError(t, left) ==
    \/ ErrorIsFinal(t) /\ TrErrorFinal(t, left)
    \/ ~ErrorIsFinal(t) /\ TrErrorReplay(t, left)

\* Mutant: the transaction stays in the queue.
TrRejectKept(t) ==
    /\ errorCount' = [errorCount EXCEPT ![t] = @ + 1]
    /\ flushed' = flushed + 1 /\ rejected' = rejected + 1
    /\ refused' = refused \cup {t}
    /\ UNCHANGED <<queueVars, nextFlush, endpointErrors, trsToFlush, delivered,
                   givenUp>>

TrReject(t) ==
    /\ errorCount' = [errorCount EXCEPT ![t] = @ + 1]
    /\ Remove(t)
    /\ flushed' = flushed + 1 /\ rejected' = rejected + 1
    /\ refused' = refused \cup {t}
    /\ UNCHANGED <<nextFlush, endpointErrors, trsToFlush, delivered, givenUp>>

TrSuccess(t) ==
    /\ Remove(t)
    /\ flushed' = flushed + 1
    /\ delivered' = delivered \cup {t}
    /\ UNCHANGED <<errorCount, nextFlush, endpointErrors, trsToFlush, rejected,
                   refused, givenUp>>

-----------------------------------------------------------------------------
(* TransactionManager.flush_next(), one iteration *)

\* Mutant: what is left is dropped from the queue.
FlushNextAbortDropped ==
    /\ Running("flush_next") /\ trsToFlush # {} /\ Overlong
    /\ trsToFlush' = {}
    /\ transactions' = transactions \ ToFlush
    /\ UNCHANGED <<clockVars, calls, posting, totalCount, totalSize, txnVars,
                   flushing, endpointErrors, flushTime, httpVars, statVars>>

\* The flush lasts too long: what is left waits for a later flush.
FlushNextAbort ==
    /\ Running("flush_next") /\ trsToFlush # {} /\ Overlong
    /\ nextFlush' = [t \in Ids |-> IF t \in ToFlush
                                   THEN ReplayTime(errorCount[t])
                                   ELSE nextFlush[t]]
    /\ trsToFlush' = {}
    /\ UNCHANGED <<clockVars, calls, posting, queueVars, counter, target, size,
                   errorCount, flushing, endpointErrors, flushTime, httpVars,
                   statVars>>

MaySend ==
    /\ Running("flush_next") /\ trsToFlush # {} /\ ~Overlong
    /\ ~Throttled /\ runningFlushes < MaxParallelism

\* The request is made; flush_next() goes on with the next transaction.
FlushNextSend(e) ==
    /\ MaySend
    /\ e \in trsToFlush /\ \A f \in trsToFlush \ {e} : PoppedBefore(e, f)
    /\ trsToFlush' = trsToFlush \ {e}
    /\ runningFlushes' = runningFlushes + 1
    /\ lastFlush' = now
    /\ inFlight' = inFlight \cup {e.tr}
    /\ sentAt' = [sentAt EXCEPT ![e.tr] = now]
    /\ UNCHANGED <<now, timers, calls, posting, queueVars, txnVars, flushing,
                   endpointErrors, flushTime, statVars>>

\* tr.flush() raises: the error is counted at once, no request is made.
FlushNextRaise(e) ==
    /\ MaySend
    /\ e \in trsToFlush /\ \A f \in trsToFlush \ {e} : PoppedBefore(e, f)
    /\ lastFlush' = now
    /\ TrError(e.tr, trsToFlush \ {e})
    /\ UNCHANGED <<now, timers, calls, posting, counter, target, size,
                   flushing, flushTime, httpVars, evicted>>

\* Mutant: nothing is scheduled.
FlushNextWaitForgotten ==
    /\ Running("flush_next") /\ trsToFlush # {} /\ ~Overlong
    /\ Throttled /\ runningFlushes < MaxParallelism
    /\ Return
    /\ UNCHANGED <<clockVars, posting, queueVars, txnVars, flushVars,
                   httpVars, statVars>>

\* Mutant: nothing is scheduled while a request is out.
FlushNextWaitIdle ==
    /\ Running("flush_next") /\ trsToFlush # {} /\ ~Overlong
    /\ Throttled /\ runningFlushes < MaxParallelism
    /\ timers' = IF inFlight = {}
                 THEN Append(timers, lastFlush + ThrottlingDelay) ELSE timers
    /\ Return
    /\ UNCHANGED <<now, lastFlush, posting, queueVars, txnVars, flushVars,
                   httpVars, statVars>>

\* Too early for the next transaction: come back when the delay is over.
FlushNextWait ==
    /\ Running("flush_next") /\ trsToFlush # {} /\ ~Overlong
    /\ Throttled /\ runningFlushes < MaxParallelism
    /\ timers' = Append(timers, lastFlush + ThrottlingDelay)
    /\ Return
    /\ UNCHANGED <<now, lastFlush, posting, queueVars, txnVars, flushVars,
                   httpVars, statVars>>

\* All the slots are taken: the answer of a request will call again.
FlushNextFull ==
    /\ Running("flush_next") /\ trsToFlush # {} /\ ~Overlong
    /\ runningFlushes >= MaxParallelism
    /\ Return
    /\ UNCHANGED <<clockVars, posting, queueVars, txnVars, flushVars,
                   httpVars, statVars>>

\* Mutant: the flush is over although requests are out.
FlushNextEndEarly ==
    /\ Running("flush_next") /\ trsToFlush = {}
    /\ flushing' = FALSE
    /\ Return
    /\ UNCHANGED <<clockVars, posting, queueVars, txnVars, trsToFlush,
                   endpointErrors, flushTime, httpVars, statVars>>

\* Mutant: the last request does not end the flush.
FlushNextEndNever ==
    /\ Running("flush_next") /\ trsToFlush = {}
    /\ Return
    /\ UNCHANGED <<clockVars, posting, queueVars, txnVars, flushVars,
                   httpVars, statVars>>

\* Nothing left to send: the flush is over with its last request.
FlushNextEnd ==
    /\ Running("flush_next") /\ trsToFlush = {}
    /\ flushing' = IF runningFlushes = 0 THEN FALSE ELSE flushing
    /\ Return
    /\ UNCHANGED <<clockVars, posting, queueVars, txnVars, trsToFlush,
                   endpointErrors, flushTime, httpVars, statVars>>

-----------------------------------------------------------------------------
(* Callbacks of the ioloop *)

\* on_response(): the answer of the request, or its timeout.
OnResponse(t) ==
    /\ Idle /\ t \in inFlight
    /\ inFlight' = inFlight \ {t}
    /\ sentAt' = [sentAt EXCEPT ![t] = 0]
    /\ runningFlushes' = runningFlushes - 1
    /\ TrSuccess(t) \/ TrError(t, trsToFlush) \/ TrReject(t)
    /\ calls' = <<"flush_next">>
    /\ UNCHANGED <<clockVars, posting, counter, target, size, flushing,
                   flushTime, evicted>>

\* The callback of add_timeout().
TimerFires ==
    /\ Idle /\ timers # <<>> /\ Head(timers) <= now
    /\ timers' = Tail(timers)
    /\ calls' = <<"flush_next">>
    /\ UNCHANGED <<now, lastFlush, posting, queueVars, txnVars, flushVars,
                   httpVars, statVars>>

\* flush_trs(): posts the graphite metrics, if any came, then flushes.
PeriodicFlush ==
    /\ Idle
    /\ calls' = <<"flush">>
    /\ UNCHANGED <<clockVars, posting, queueVars, txnVars, flushVars,
                   httpVars, statVars>>

PostMetrics ==
    Idle /\ \E sz \in Sizes : NewMessage(sz, <<"append", "flush", "flush">>)

Waiting ==
    \/ timers # <<>> \/ inFlight # {} \/ Throttled
    \/ \E t \in transactions : nextFlush[t] > now

Tick ==
    /\ Idle /\ Waiting
    /\ timers # <<>> => Head(timers) > now
    /\ \A t \in inFlight : now < sentAt[t] + RequestTimeout
    /\ now' = now + 1
    /\ UNCHANGED <<timers, lastFlush, calls, posting, queueVars, txnVars,
                   flushVars, httpVars, statVars>>

-----------------------------------------------------------------------------

CallStep ==
    \/ Evict \/ (\E tg \in Targets : Append1(tg)) \/ AppendDone
    \/ FlushNothing \/ FlushBegin
    \/ FlushNextAbort \/ (\E e \in trsToFlush : FlushNextSend(e))
    \/ (\E e \in trsToFlush : FlushNextRaise(e))
    \/ FlushNextWait \/ FlushNextFull \/ FlushNextEnd

Next ==
    \/ Post \/ PostMetrics \/ PeriodicFlush
    \/ (\E t \in Ids : OnResponse(t)) \/ TimerFires \/ Tick
    \/ CallStep

Spec == Init /\ [][Next]_vars

\* A callback that runs goes on to its end.  The ioloop serves every callback
\* that is ready, the periodic flush comes back every five seconds, every
\* request is answered or times out, and time passes: none of them can be
\* put off for ever by the others, hence the strong fairness.
Fairness ==
    /\ WF_vars(CallStep)
    /\ SF_vars(PeriodicFlush)
    /\ SF_vars(TimerFires)
    /\ SF_vars(Tick)
    /\ \A t \in Ids : SF_vars(OnResponse(t))

FairSpec == Spec /\ Fairness

-----------------------------------------------------------------------------
(* Properties *)

ClockType ==
    now \in Nat /\ lastFlush \in Nat /\ timers \in Seq(Nat)

CallsType ==
    /\ calls \in Seq({"append", "flush", "flush_next"})
    /\ posting \in [targets : SUBSET Targets, size : Nat, created : Nat]

TxnType ==
    /\ counter \in 0..MaxTransactions
    /\ target \in [Ids -> Targets \cup {NoTarget}]
    /\ size \in [Ids -> Nat]
    /\ errorCount \in [Ids -> Nat]
    /\ nextFlush \in [Ids -> Nat]

QueueType ==
    transactions \subseteq 1..counter /\ totalCount \in Int /\ totalSize \in Int

FlushType ==
    /\ flushing \in BOOLEAN
    /\ trsToFlush \subseteq [tr : 1..counter, errors : Nat]
    /\ endpointErrors \in [Endpoints -> Nat]
    /\ flushTime \in Nat

HttpType ==
    /\ runningFlushes \in Int
    /\ inFlight \subseteq 1..counter
    /\ sentAt \in [Ids -> Nat]

StatType ==
    /\ flushed \in Nat /\ rejected \in Nat
    /\ delivered \subseteq 1..counter
    /\ refused \subseteq 1..counter
    /\ givenUp \subseteq 1..counter
    /\ evicted \subseteq 1..counter

\* Every variable has its type, and no transaction is anywhere before append()
\* has given it its number.
TypeOK ==
    /\ ClockType /\ CallsType /\ TxnType /\ QueueType
    /\ FlushType /\ HttpType /\ StatType

\* The incremental count and size of the queue are those of the queue.
QueueCounted ==
    /\ totalCount = Cardinality(transactions)
    /\ totalSize = MapThenSumSet(LAMBDA t : size[t], transactions)

\* The queue exceeds MAX_QUEUE_SIZE only when one message alone does.
QueueBounded == totalSize > MaxQueueSize => Cardinality(transactions) = 1

\* The status page accounts for every transaction received: in the queue,
\* flushed, or removed for lack of room (and perhaps flushed since).
StatusConserved ==
    /\ totalCount + flushed <= counter
    /\ counter <= totalCount + flushed + Cardinality(evicted)
    /\ flushed = rejected + Cardinality(delivered)

\* The queue, its limit and the counts shown of it agree, whatever removals
\* append(), tr_error() and tr_success() interleave with the requests.
QueueSound == TypeOK /\ QueueCounted /\ QueueBounded /\ StatusConserved

\* Every slot in use is a request that is out, and there are at most
\* max_parallelism of them: the slots are neither leaked nor freed twice.
SlotsInUse ==
    /\ runningFlushes = Cardinality(inFlight)
    /\ runningFlushes <= MaxParallelism

\* tr_error() walks _trs_to_flush: no request may be out once a flush is over.
RequestsWithinFlush == inFlight # {} \/ trsToFlush # {} => flushing

\* A transaction is in one request at a time and is not about to be sent again
\* while it is out.
SentOnce == ToFlush \cap inFlight = {}

\* The requests out, the slots, the list left to send and the flush in
\* progress agree when answers, timers, errors and new flushes interleave.
RequestsSound == SlotsInUse /\ RequestsWithinFlush /\ SentOnce

\* A flush in progress makes flush() return at once, so it must never be left
\* without a call, a timer or a request that will bring it to its end.
FlushDriven ==
    flushing => Running("flush_next") \/ timers # <<>> \/ inFlight # {}

\* flush_next(): while a slot is free and something is left to send, a timer is
\* set: the next transaction does not wait for the answer of a slow endpoint.
ThrottleArmed ==
    trsToFlush # {} /\ runningFlushes < MaxParallelism /\ ~Running("flush_next")
        => timers # <<>>

\* flush_next(): with one endpoint, so one slot, throttling needs one timer at
\* a time, and only between two requests of a flush that has more to send.
OneTimerAlone ==
    MaxParallelism = 1 /\ timers # <<>> =>
        Len(timers) = 1 /\ inFlight = {} /\ trsToFlush # {}

\* flush_next() sets its timer when it has to wait for one, and only then.
TimersSound == FlushDriven /\ ThrottleArmed /\ OneTimerAlone

\* What an intake took or refused, or what failed too often, is never sent
\* again nor kept in the queue, although evicted transactions are still sent.
SettledForGood ==
    Settled \cap (transactions \cup ToFlush \cup inFlight) = {}

\* What may still be sent has not failed more than max_endpoint_errors times.
RetriesBounded ==
    \A t \in transactions \cup ToFlush \cup inFlight :
        errorCount[t] <= MaxEndpointErrors

\* tr_error(), tr_error_reject_request() and tr_success() let go of what they
\* settle, wherever the transaction is by then, and retry nothing else for ever.
SettlingSound == SettledForGood /\ RetriesBounded

\* An endpoint that failed max_endpoint_errors times in a flush is spared
\* until the next one.
DownEndpointSpared ==
    \A e \in trsToFlush : endpointErrors[endpoint(e.tr)] < MaxEndpointErrors

\* flush_next() throttles the requests whatever calls it, the timers, the
\* answers or the flushes: two requests out were sent THROTTLING_DELAY apart.
RequestsSpaced ==
    \A t, u \in inFlight :
        t # u /\ sentAt[t] <= sentAt[u]
            => sentAt[t] + ThrottlingDelay <= sentAt[u]

\* The endpoints are spared in both ways, whatever timers, answers and flushes
\* interleave.
EndpointsSpared == DownEndpointSpared /\ RequestsSpaced

\* A flush that began ends, so the queue is never blocked for good.
FlushEnds == flushing ~> ~flushing

-----------------------------------------------------------------------------
(* What the comments of the code say *)

\* transaction.py:151, "Should not happen if we order the queue consistently":
\* the transaction whose request ends is still in the queue.
RemovedFromQueue == inFlight \subseteq transactions

\* stsagent.py:79, "when this is reached, old messages are dropped": what is
\* evicted is not more recent than what is kept.
OldestEvicted ==
    [][\A t \in evicted' \ evicted : \A u \in transactions' : t < u]_vars

\* stackstate.conf.example:39, "when a request timeout, it will be retried
\* after some time.  It will only be deleted if the forwarder queue becomes too
\* big": no transaction is removed because its requests failed.
KeptUntilTooBig == givenUp = {}

\* transaction.py:69, "without exceeding parameters (throttling, memory
\* consumption)": the transactions the manager still holds fit in the limit.
HeldWithinLimit ==
    MapThenSumSet(LAMBDA t : size[t], transactions \cup ToFlush \cup inFlight)
        <= MaxQueueSize
=============================================================================
