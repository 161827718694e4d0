---- MODULE ThreadPool ----
(***************************************************************************)
(* The pool of threads of checks/libs/thread_pool.py: work units in a      *)
(* queue, the result of each call, and the collectors that make the        *)
(* results of several jobs one list or one iterator.  Calls are made by    *)
(* threads of their own while another one may terminate the pool.          *)
(***************************************************************************)
EXTENDS Naturals, Sequences, FiniteSets, SequencesExt

CONSTANTS
    PoolWorkers,    \* the threads of the pool
    PoolCalls,      \* calls that are made, each once
    CallPlans,      \* each one's [kind, n, chunk]: n arguments, in chunks
    MaxTimeouts     \* bound on the timeouts of next()

\* The synchronous calls wait for the result of the same ones without waiting, but
\* imap and imap_unordered, which give an iterator at once.
Kinds6 == {"apply", "map", "imap", "imap_async", "unordered", "unordered_async"}

ASSUME PoolAssumption ==
    /\ IsFiniteSet(PoolWorkers) /\ IsFiniteSet(PoolCalls)
    /\ \A plan \in CallPlans, c \in PoolCalls :
          /\ plan[c].kind \in Kinds6
          /\ plan[c].n \in Nat /\ plan[c].chunk \in Nat \ {0}
          /\ plan[c].kind = "apply" => plan[c].n = 1
    /\ MaxTimeouts \in Nat

VARIABLES
    closed,         \* Pool._closed
    workq,          \* Pool._workq: work units, which are sequences of jobs, and sentinels
    unit,           \* what is left of the work unit of each worker
    workerPc,       \* "get", "job", "notify", "tell" or "ended"
    howCalled,      \* the plan
    callPc,         \* "no", "putting", "made" or "refused"
    toPut,          \* units that the call has not put on the queue yet
    results,        \* ApplyResult of each job: "no", "value" or "exception"
    remaining,      \* OrderedResultCollector._remaining
    collection,     \* UnorderedResultCollector._collection
    outer,          \* ApplyResult that an _async() call returns
    outerSets,      \* history: how often it was set
    idx,            \* CollectorIterator._idx
    yielded,        \* history: arguments whose results the iterator gave, in order
    over,           \* the iterator has raised StopIteration
    timeouts,
    killerPc        \* terminate(): "no", "draining", "sentinels", "join" or "joined"

queueVars == <<closed, workq>>
workVars == <<unit, workerPc>>
submitVars == <<howCalled, callPc, toPut>>
resultVars == <<results, remaining, collection, outer, outerSets>>
iterVars == <<idx, yielded, over, timeouts>>
poolVars == <<queueVars, workVars, submitVars, resultVars, iterVars, killerPc>>

Sentinel == <<<<"QUIT", 0>>>>
JobsOf(c) == {<<c, i>> : i \in 1..howCalled[c].n}
AllJobs == UNION {JobsOf(c) : c \in PoolCalls}
KindOf(c) == howCalled[c].kind
Ordered(c) == KindOf(c) \in {"map", "imap", "imap_async"}
Collected(c) == KindOf(c) # "apply"

PoolInit ==
    /\ howCalled \in CallPlans
    /\ closed = FALSE /\ workq = <<>>
    /\ unit = [w \in PoolWorkers |-> <<>>] /\ workerPc = [w \in PoolWorkers |-> "get"]
    /\ callPc = [c \in PoolCalls |-> "no"] /\ toPut = [c \in PoolCalls |-> <<>>]
    /\ results = [j \in AllJobs |-> "no"]
    /\ remaining = [c \in PoolCalls |-> 0] /\ collection = [c \in PoolCalls |-> <<>>]
    /\ outer = [c \in PoolCalls |-> "no"] /\ outerSets = [c \in PoolCalls |-> 0]
    /\ idx = [c \in PoolCalls |-> 1] /\ yielded = [c \in PoolCalls |-> <<>>]
    /\ over = [c \in PoolCalls |-> FALSE]
    /\ timeouts = 0 /\ killerPc = "no"

(***************************************************************************)
(* apply_async(), _create_sequences()                                      *)
(***************************************************************************)
\* The last sequence is empty if the chunks come out even.
Chunks(c) ==
    LET n == howCalled[c].n
        k == howCalled[c].chunk
        size(s) == IF s * k <= n THEN k ELSE n - (s - 1) * k
    IN  IF KindOf(c) = "apply" THEN <<<<<<c, 1>>>>>>
        ELSE [s \in 1..(n \div k + 1) |-> [i \in 1..size(s) |-> <<c, (s - 1) * k + i>>]]

\* Every result is registered before the first job is on the queue.  The assertion
\* that the pool is open holds no lock.
Call(c) ==
    /\ callPc[c] = "no"
    /\ IF closed
       THEN /\ callPc' = [callPc EXCEPT ![c] = "refused"]
            /\ UNCHANGED <<toPut, remaining>>
       ELSE /\ callPc' = [callPc EXCEPT ![c] = "putting"]
            /\ toPut' = [toPut EXCEPT ![c] = Chunks(c)]
            /\ remaining' = [remaining EXCEPT ![c] = howCalled[c].n]
    /\ UNCHANGED <<queueVars, workVars, howCalled, results, collection, outer, outerSets, iterVars, killerPc>>

PutUnit(c) ==
    /\ callPc[c] = "putting"
    /\ workq' = Append(workq, Head(toPut[c]))
    /\ toPut' = [toPut EXCEPT ![c] = Tail(@)]
    /\ callPc' = IF Len(toPut[c]) = 1 THEN [callPc EXCEPT ![c] = "made"] ELSE callPc
    /\ UNCHANGED <<closed, workVars, howCalled, resultVars, iterVars, killerPc>>

(***************************************************************************)
(* PoolWorker.run(), Job.process(), ApplyResult._set_value()               *)
(***************************************************************************)
Goto6(w, pc) == workerPc' = [workerPc EXCEPT ![w] = pc]
JobDone(w) ==
    /\ unit' = [unit EXCEPT ![w] = Tail(@)]
    /\ Goto6(w, IF Len(unit[w]) = 1 THEN "get" ELSE "job")
CallOf(w) == Head(unit[w])[1]

GetUnit(w) ==
    /\ workerPc[w] = "get" /\ workq # <<>>
    /\ workq' = Tail(workq)
    /\ IF Head(workq) = Sentinel THEN Goto6(w, "ended") /\ UNCHANGED unit
       ELSE /\ unit' = [unit EXCEPT ![w] = Head(workq)]
            /\ Goto6(w, IF Head(workq) = <<>> THEN "get" ELSE "job")
    /\ UNCHANGED <<closed, submitVars, resultVars, iterVars, killerPc>>

\* The event is set before the collector is told.
ProcessJob(w) ==
    /\ workerPc[w] = "job"
    /\ \E outcome \in {"value", "exception"} :
          results' = [results EXCEPT ![Head(unit[w])] = outcome]
    /\ IF Collected(CallOf(w)) THEN Goto6(w, "notify") /\ UNCHANGED unit ELSE JobDone(w)
    /\ UNCHANGED <<queueVars, submitVars, remaining, collection, outer, outerSets, iterVars, killerPc>>

(***************************************************************************)
(* notify_ready() of the two collectors                                    *)
(***************************************************************************)
GotFirst(c) ==
    IF Ordered(c) THEN remaining[c] = howCalled[c].n ELSE collection[c] = <<>>
GotLastCounted(c) == remaining[c] = 1
\* Mutant: the count is compared before this result is taken off it.
GotLastEarly(c) == remaining[c] = 2 \/ howCalled[c].n = 1
GotLast(c) == GotLastCounted(c)

Tells(c) ==
    \/ KindOf(c) = "map" /\ GotLast(c)
    \/ KindOf(c) \in {"imap_async", "unordered_async"} /\ GotFirst(c)

Notify(w) ==
    LET c == CallOf(w)
    IN  /\ workerPc[w] = "notify"
        /\ IF Ordered(c)
           THEN remaining' = [remaining EXCEPT ![c] = @ - 1] /\ UNCHANGED collection
           ELSE /\ collection' = [collection EXCEPT ![c] = Append(@, Head(unit[w])[2])]
                /\ UNCHANGED remaining
        /\ IF Tells(c) THEN Goto6(w, "tell") /\ UNCHANGED unit ELSE JobDone(w)
        /\ UNCHANGED <<queueVars, submitVars, results, outer, outerSets, iterVars, killerPc>>

\* After the lock is released: the list has every result, or raises the exception of
\* the first one that has one.
TellOuter(w) ==
    LET c == CallOf(w)
    IN  /\ workerPc[w] = "tell"
        /\ outer' = [outer EXCEPT ![c] =
                        IF KindOf(c) # "map" THEN "iterator"
                        ELSE IF \A j \in JobsOf(c) : results[j] = "value" THEN "list" ELSE "exception"]
        /\ outerSets' = [outerSets EXCEPT ![c] = @ + 1]
        /\ JobDone(w)
        /\ UNCHANGED <<queueVars, submitVars, results, remaining, collection, iterVars, killerPc>>

(***************************************************************************)
(* CollectorIterator.next()                                                *)
(***************************************************************************)
CanIterate(c) ==
    \/ KindOf(c) \in {"imap", "unordered"} /\ callPc[c] = "made"
    \/ outer[c] = "iterator"

NextReady(c) ==
    IF Ordered(c) THEN results[<<c, idx[c]>>] # "no" ELSE idx[c] <= Len(collection[c])
NextArgument(c) == IF Ordered(c) THEN idx[c] ELSE collection[c][idx[c]]

NextResult(c) ==
    /\ CanIterate(c) /\ idx[c] <= howCalled[c].n /\ ~over[c]
    /\ NextReady(c)
    /\ yielded' = [yielded EXCEPT ![c] = Append(@, NextArgument(c))]
    /\ idx' = [idx EXCEPT ![c] = @ + 1]
    /\ UNCHANGED <<queueVars, workVars, submitVars, resultVars, over, timeouts, killerPc>>

StopIteration(c) ==
    /\ CanIterate(c) /\ idx[c] > howCalled[c].n /\ ~over[c]
    /\ over' = [over EXCEPT ![c] = TRUE]
    /\ idx' = [idx EXCEPT ![c] = 1]
    /\ UNCHANGED <<queueVars, workVars, submitVars, resultVars, yielded, timeouts, killerPc>>

\* An ordered iterator asserts that the result is there when it has gone past it, and
\* the other one starts again.
NextTimesOut(c) ==
    /\ CanIterate(c) /\ idx[c] <= howCalled[c].n /\ ~over[c]
    /\ ~NextReady(c) /\ timeouts < MaxTimeouts
    /\ timeouts' = timeouts + 1
    /\ idx' = [idx EXCEPT ![c] = IF Ordered(c) THEN @ + 1 ELSE 1]
    /\ UNCHANGED <<queueVars, workVars, submitVars, resultVars, yielded, over, killerPc>>

(***************************************************************************)
(* terminate(), join()                                                     *)
(***************************************************************************)
KillerStep(from, to) == killerPc = from /\ killerPc' = to

Close ==
    /\ KillerStep("no", "draining")
    /\ closed' = TRUE
    /\ UNCHANGED <<workq, workVars, submitVars, resultVars, iterVars>>

\* What a call has begun to put on the queue may still follow.
DrainOne ==
    /\ IF workq = <<>> THEN KillerStep("draining", "sentinels") /\ UNCHANGED workq
       ELSE KillerStep("draining", "draining") /\ workq' = Tail(workq)
    /\ UNCHANGED <<closed, workVars, submitVars, resultVars, iterVars>>

OnePerWorker == Cardinality(PoolWorkers)
\* Mutant: as many as there are workers with nothing to do.
OnePerIdle == Cardinality({w \in PoolWorkers : workerPc[w] = "get"})
SentinelCount == OnePerWorker

PutSentinels ==
    /\ KillerStep("sentinels", "join")
    /\ workq' = workq \o [i \in 1..SentinelCount |-> Sentinel]
    /\ UNCHANGED <<closed, workVars, submitVars, resultVars, iterVars>>

Join ==
    /\ KillerStep("join", "joined")
    /\ \A w \in PoolWorkers : workerPc[w] = "ended"
    /\ UNCHANGED <<queueVars, workVars, submitVars, resultVars, iterVars>>

WorkerStep(w) == GetUnit(w) \/ ProcessJob(w) \/ Notify(w) \/ TellOuter(w)
CallerStep(c) == Call(c) \/ PutUnit(c) \/ NextResult(c) \/ StopIteration(c) \/ NextTimesOut(c)
Killer == Close \/ DrainOne \/ PutSentinels \/ Join

PoolNext ==
    \/ \E w \in PoolWorkers : WorkerStep(w)
    \/ \E c \in PoolCalls : CallerStep(c)
    \/ Killer

\* Threads run.  Nobody has to call, iterate or terminate.
PoolFairness ==
    /\ \A w \in PoolWorkers : WF_poolVars(WorkerStep(w))
    /\ \A c \in PoolCalls : WF_poolVars(PutUnit(c)) /\ WF_poolVars(NextResult(c))
    /\ WF_poolVars(DrainOne) /\ WF_poolVars(PutSentinels) /\ WF_poolVars(Join)

PoolSpec == PoolInit /\ [][PoolNext]_poolVars /\ PoolFairness

----
AllReady(c) == \A j \in JobsOf(c) : results[j] # "no"

\* What a call gives back: its result is set once; a list when every job has its own
\* result, an iterator when one has; an iterator gives every result once, and in the
\* order of the arguments if it has one, unless a next() timed out.
ResultsInOrder ==
    \A c \in PoolCalls :
        /\ outerSets[c] <= 1
        /\ outer[c] \in {"list", "exception"} => AllReady(c)
        /\ outer[c] = "iterator" => \E j \in JobsOf(c) : results[j] # "no"
        /\ timeouts = 0 =>
            /\ \A i \in DOMAIN yielded[c] : results[<<c, yielded[c][i]>>] # "no"
            /\ \A i, j \in DOMAIN yielded[c] : i < j =>
                  IF Ordered(c) THEN yielded[c][i] < yielded[c][j] ELSE yielded[c][i] # yielded[c][j]
            /\ over[c] => Len(yielded[c]) = howCalled[c].n

Answered(c) ==
    IF KindOf(c) \in {"apply", "imap", "unordered"} THEN AllReady(c)
    ELSE outer[c] # "no" \/ howCalled[c].n = 0

\* A call that was made is answered, unless the pool is terminated, or maps nothing;
\* and a pool that is terminated is joined, whatever is put on the queue meanwhile.
PoolAnswers ==
    /\ \A c \in PoolCalls : callPc[c] = "made" ~> Answered(c) \/ closed
    /\ closed ~> killerPc = "joined"

\* What the pool promises its callers, whichever threads run and time out.
PoolServes == []ResultsInOrder /\ PoolAnswers
====
