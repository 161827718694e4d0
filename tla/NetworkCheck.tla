----------------------------- MODULE NetworkCheck -----------------------------
(***************************************************************************)
(* A check whose instances run in the threads of a pool:                   *)
(* checks/network_checks.py on the Pool of checks/libs/thread_pool.py.     *)
(*                                                                         *)
(* The collector's thread calls check() for one instance after the other,  *)
(* run after run; the threads of the pool take jobs from a queue and put   *)
(* what they found in another.  SIGTERM interrupts the collector's thread, *)
(* save when it waits for a lock, and its handler calls stop(); a reload of *)
(* the configuration calls it between two runs, and throws the check away  *)
(* or, where the agent fails to unlist it, keeps it.                       *)
(***************************************************************************)
EXTENDS Integers, Sequences, FiniteSets

CONSTANTS
    InstanceCount,      \* instance_count()
    PoolSize,           \* the number of threads of a pool
    Timeout,            \* TIMEOUT, in ticks
    ThreadsPerWorker,   \* 5, of the test on the number of threads
    SpareThreads,       \* 6, of the same test
    OtherThreads,       \* external: threads of the agent outside of the pool
    MaxBatch,           \* bound: results of one _check()
    Stuck,              \* instances whose _check() may never return
    MaxStops,           \* bound: reloads of the configuration and SIGTERM
    Kept,               \* {FALSE}, or {TRUE} if a reload keeps the check
    MayTerminate        \* SIGTERM may come

ASSUME NetworkCheckAssumption ==
    /\ InstanceCount \in Nat \ {0} /\ PoolSize \in Nat \ {0}
    /\ Timeout \in Nat /\ MaxStops \in Nat
    /\ ThreadsPerWorker \in Nat \ {0}
    /\ OtherThreads \in Nat /\ SpareThreads \in Nat /\ OtherThreads <= SpareThreads
    /\ MaxBatch \in Nat
    /\ Stuck \subseteq 1..InstanceCount
    /\ Kept \subseteq BOOLEAN /\ MayTerminate \in BOOLEAN

Instances == 1..InstanceCount

\* What a job may leave in the queue: nothing, results and failures.
Batches == UNION {[1..n -> {"ok", "fail"}] : n \in 0..MaxBatch}

Workers == 1..PoolSize
NoJob == -1
QUIT == 0               \* the SENTINEL of the work queue

VARIABLES
    callPc,             \* where the collector's thread is
    cur,                \* the instance it runs check() for
    got,                \* the instance of the result it has taken
    back,               \* where it goes once a pool is started
    after,              \* what it does once the pool is stopped
    sig,                \* where the handler of SIGTERM is
    started,            \* pool_started
    poolSize,           \* pool_size, 0 before the first start
    globalSize,         \* _global_current_pool_size
    nbFailures,         \* nb_failures
    jobsStatus,         \* age of the job of an instance, or NoJob
    jobsResults,        \* its ApplyResult: none, pending or ready
    resultsq,           \* results to process
    workq, closed,      \* _workq and _closed of the pool
    workers,            \* its threads
    reloads             \* reloads so far

callVars == <<callPc, cur, got, back, after>>
jobVars == <<jobsStatus, jobsResults, resultsq>>
poolVars == <<workq, closed, workers>>
sizeVars == <<started, poolSize, globalSize>>
netVars == <<callVars, sig, sizeVars, nbFailures, jobVars, poolVars, reloads>>

Thread(at, job, out) == [at |-> at, job |-> job, out |-> out]
Idle == Thread("idle", 0, <<>>)
Dead == Thread("dead", 0, <<>>)
NoJobs == [n \in Instances |-> NoJob]
NoResults == [n \in Instances |-> "none"]

NetInit ==
    /\ callPc = "between" /\ cur = 1 /\ got = 1 /\ back = "guard" /\ after = "start"
    /\ sig = "none"
    /\ started = FALSE /\ poolSize = 0 /\ globalSize = 0 /\ nbFailures = 0
    /\ jobsStatus = NoJobs /\ jobsResults = NoResults /\ resultsq = <<>>
    /\ workq = <<>> /\ closed = TRUE /\ workers = [w \in Workers |-> Dead]
    /\ reloads = 0

Alive == {w \in Workers : workers[w] # Dead}
TooManyThreads ==
    Cardinality(Alive) + OtherThreads > ThreadsPerWorker * globalSize + SpareThreads
Running == sig \in {"none", "done"}

-----------------------------------------------------------------------------
(* The pool is stopped by a restart, a reload or the handler of SIGTERM *)

Terminate ==
    /\ closed' = TRUE
    /\ workq' = [w \in Workers |-> QUIT]
    /\ UNCHANGED workers

Uncounted == globalSize' = globalSize - poolSize

\* Mutant: the threads are not waited for.
JoinedAtOnce ==
    /\ jobsStatus' = NoJobs
    /\ UNCHANGED <<jobsResults, resultsq, poolVars>>

\* join() waits for the threads, which end what they do first.
Joined ==
    /\ Alive = {}
    /\ jobsStatus' = NoJobs
    /\ UNCHANGED <<jobsResults, resultsq, poolVars>>

AfterStop == IF after = "start" THEN "start" ELSE "reloaded"

StopPool ==
    /\ callPc = "stop" /\ Running
    /\ Uncounted
    /\ IF started THEN Terminate /\ callPc' = "join"
                  ELSE UNCHANGED poolVars /\ callPc' = AfterStop
    /\ UNCHANGED <<cur, got, back, after, sig, started, poolSize, nbFailures, jobVars, reloads>>

JoinPool ==
    /\ callPc = "join" /\ Running
    /\ Joined
    /\ callPc' = AfterStop
    /\ UNCHANGED <<cur, got, back, after, sig, sizeVars, nbFailures, reloads>>

\* Mutant: the results of the former pool are kept.
StartPoolOldResults ==
    /\ callPc = "start" /\ Running
    /\ poolSize' = PoolSize /\ globalSize' = globalSize + PoolSize
    /\ workq' = <<>> /\ closed' = FALSE /\ workers' = [w \in Workers |-> Idle]
    /\ jobsStatus' = NoJobs /\ jobsResults' = NoResults /\ UNCHANGED resultsq
    /\ started' = TRUE
    /\ callPc' = back
    /\ UNCHANGED <<cur, got, back, after, sig, nbFailures, reloads>>

StartPool ==
    /\ callPc = "start" /\ Running
    /\ poolSize' = PoolSize /\ globalSize' = globalSize + PoolSize
    /\ workq' = <<>> /\ closed' = FALSE /\ workers' = [w \in Workers |-> Idle]
    /\ jobsStatus' = NoJobs /\ jobsResults' = NoResults /\ resultsq' = <<>>
    /\ started' = TRUE
    /\ callPc' = back
    /\ UNCHANGED <<cur, got, back, after, sig, nbFailures, reloads>>

RestartPool(then) == callPc' = "stop" /\ after' = "start" /\ back' = then

-----------------------------------------------------------------------------
(* check(), and the runs of it *)

BeginRun ==
    /\ callPc = "between" /\ sig = "none"
    /\ callPc' = "idle" /\ cur' = 1
    /\ UNCHANGED <<got, back, after, sig, sizeVars, nbFailures, jobVars, poolVars, reloads>>

\* The run goes on to the next instance whatever has come to pass meanwhile.
NextInstance ==
    IF cur < InstanceCount THEN cur' = cur + 1 /\ callPc' = "idle"
                           ELSE callPc' = "between" /\ UNCHANGED cur

Check(n) ==
    /\ callPc = "idle" /\ Running /\ cur = n
    /\ IF started THEN callPc' = "guard" /\ UNCHANGED back
                  ELSE callPc' = "start" /\ back' = "guard"
    /\ UNCHANGED <<cur, got, after, sig, sizeVars, nbFailures, jobVars, poolVars, reloads>>

\* The min_collection_interval of the instance has not elapsed.
Skip ==
    /\ callPc = "idle" /\ Running
    /\ NextInstance
    /\ UNCHANGED <<got, back, after, sig, sizeVars, nbFailures, jobVars, poolVars, reloads>>

Guard ==
    /\ callPc = "guard" /\ Running
    /\ IF TooManyThreads THEN NextInstance
                         ELSE callPc' = "results" /\ UNCHANGED cur
    /\ UNCHANGED <<got, back, after, sig, sizeVars, nbFailures, jobVars, poolVars, reloads>>

NoMoreResults ==
    /\ callPc = "results" /\ Running /\ resultsq = <<>>
    /\ callPc' = "clean"
    /\ UNCHANGED <<cur, got, back, after, sig, sizeVars, nbFailures, jobVars, poolVars, reloads>>

TakeResult(status) ==
    /\ callPc = "results" /\ Running /\ resultsq # <<>> /\ Head(resultsq).status = status
    /\ got' = Head(resultsq).job
    /\ resultsq' = Tail(resultsq)
    /\ UNCHANGED <<cur, sig, sizeVars, jobsStatus, jobsResults, poolVars, reloads>>

Report ==
    /\ TakeResult("ok")
    /\ callPc' = "cleanjob"
    /\ UNCHANGED <<back, after, nbFailures>>

Failure ==
    /\ TakeResult("fail")
    /\ IF nbFailures + 1 >= poolSize - 1
       THEN nbFailures' = 0 /\ RestartPool("cleanjob")
       ELSE nbFailures' = nbFailures + 1 /\ callPc' = "cleanjob" /\ UNCHANGED <<back, after>>

\* Mutant: the job is not waited for.
CleanJobAtOnce ==
    /\ callPc = "cleanjob" /\ Running
    /\ jobsStatus' = [jobsStatus EXCEPT ![got] = NoJob]
    /\ jobsResults' = [jobsResults EXCEPT ![got] = "none"]
    /\ callPc' = "results"
    /\ UNCHANGED <<cur, got, back, after, sig, sizeVars, nbFailures, resultsq, poolVars, reloads>>

\* get() waits for the end of the job.
CleanJob ==
    /\ callPc = "cleanjob" /\ Running /\ jobsResults[got] # "pending"
    /\ jobsStatus' = [jobsStatus EXCEPT ![got] = NoJob]
    /\ jobsResults' = [jobsResults EXCEPT ![got] = "none"]
    /\ callPc' = "results"
    /\ UNCHANGED <<cur, got, back, after, sig, sizeVars, nbFailures, resultsq, poolVars, reloads>>

\* Mutant: no job is ever too old.
CleanNever ==
    /\ callPc = "clean" /\ Running
    /\ callPc' = "apply" /\ UNCHANGED <<back, after>>
    /\ UNCHANGED <<cur, got, sig, sizeVars, nbFailures, jobVars, poolVars, reloads>>

Clean ==
    /\ callPc = "clean" /\ Running
    /\ IF \E n \in Instances : jobsStatus[n] > Timeout
       THEN RestartPool("apply")
       ELSE callPc' = "apply" /\ UNCHANGED <<back, after>>
    /\ UNCHANGED <<cur, got, sig, sizeVars, nbFailures, jobVars, poolVars, reloads>>

\* apply_async() asserts that the pool is not closed.
ApplyAsync ==
    /\ callPc = "apply" /\ Running
    /\ IF jobsStatus[cur] = NoJob
       THEN /\ jobsStatus' = [jobsStatus EXCEPT ![cur] = 0]
            /\ IF closed THEN UNCHANGED <<jobsResults, workq>>
                         ELSE /\ jobsResults' = [jobsResults EXCEPT ![cur] = "pending"]
                              /\ workq' = Append(workq, cur)
       ELSE UNCHANGED <<jobsStatus, jobsResults, workq>>
    /\ NextInstance
    /\ UNCHANGED <<got, back, after, sig, sizeVars, nbFailures, resultsq, closed, workers, reloads>>

-----------------------------------------------------------------------------
(* The threads of the pool *)

WorkerTakes(w) ==
    /\ workers[w] = Idle /\ workq # <<>>
    /\ workers' = [workers EXCEPT ![w] =
           IF Head(workq) = QUIT THEN Dead ELSE Thread("check", Head(workq), <<>>)]
    /\ workq' = Tail(workq)
    /\ UNCHANGED <<callVars, sig, sizeVars, nbFailures, jobVars, closed, reloads>>

\* _check() returns, or raises.
CheckReturns(w) ==
    /\ workers[w].at = "check"
    /\ \E batch \in Batches :
           workers' = [workers EXCEPT ![w] = Thread("put", workers[w].job, batch)]
    /\ UNCHANGED <<callVars, sig, sizeVars, nbFailures, jobVars, workq, closed, reloads>>

PutResult(w) ==
    /\ workers[w].at = "put" /\ workers[w].out # <<>>
    /\ resultsq' = Append(resultsq, [job |-> workers[w].job, status |-> Head(workers[w].out)])
    /\ workers' = [workers EXCEPT ![w].out = Tail(@)]
    /\ UNCHANGED <<callVars, sig, sizeVars, nbFailures, jobsStatus, jobsResults, workq, closed, reloads>>

JobDone(w) ==
    /\ workers[w].at = "put" /\ workers[w].out = <<>>
    /\ jobsResults' = [jobsResults EXCEPT ![workers[w].job] =
           IF @ = "pending" THEN "ready" ELSE @]
    /\ workers' = [workers EXCEPT ![w] = Idle]
    /\ UNCHANGED <<callVars, sig, sizeVars, nbFailures, jobsStatus, resultsq, workq, closed, reloads>>

-----------------------------------------------------------------------------
(* stop() *)

\* A reload: refresh_specific_checks() or reload_configs() of the agent.
Reload ==
    /\ callPc = "between" /\ sig = "none" /\ reloads < MaxStops
    /\ reloads' = reloads + 1
    /\ callPc' = "stop"
    /\ \E kept \in Kept : after' = IF kept THEN "keep" ELSE "discard"
    /\ UNCHANGED <<cur, got, back, sig, sizeVars, nbFailures, jobVars, poolVars>>

\* Another object takes the place of the one that is thrown away.
Reloaded ==
    /\ callPc = "reloaded" /\ Running
    /\ callPc' = "between"
    /\ started' = FALSE
    /\ IF after = "keep"
       THEN UNCHANGED <<poolSize, nbFailures, jobVars, poolVars>>
       ELSE /\ poolSize' = 0 /\ nbFailures' = 0
            /\ jobsStatus' = NoJobs /\ jobsResults' = NoResults /\ resultsq' = <<>>
            /\ workq' = <<>> /\ closed' = TRUE /\ UNCHANGED workers
    /\ UNCHANGED <<cur, got, back, after, sig, globalSize, reloads>>

\* A thread that waits for a lock is not interrupted.
Sigterm ==
    /\ MayTerminate /\ reloads < MaxStops /\ sig = "none"
    /\ callPc \notin {"join", "cleanjob", "exited"}
    /\ sig' = "stop"
    /\ UNCHANGED <<callVars, sizeVars, nbFailures, jobVars, poolVars, reloads>>

HandlerStops ==
    /\ sig = "stop"
    /\ Uncounted
    /\ IF started THEN Terminate /\ sig' = "join" /\ UNCHANGED started
                  ELSE UNCHANGED poolVars /\ sig' = "done" /\ UNCHANGED started
    /\ UNCHANGED <<callVars, poolSize, nbFailures, jobVars, reloads>>

HandlerJoins ==
    /\ sig = "join"
    /\ Joined
    /\ sig' = "done" /\ started' = FALSE
    /\ UNCHANGED <<callVars, poolSize, globalSize, nbFailures, reloads>>

Exit ==
    /\ callPc = "between" /\ sig = "done"
    /\ callPc' = "exited"
    /\ UNCHANGED <<cur, got, back, after, sig, sizeVars, nbFailures, jobVars, poolVars, reloads>>

Older(age) == IF age = NoJob \/ age > Timeout THEN age ELSE age + 1

\* A tick is long: no thread is idle for one while there is a job to take.
Tick ==
    /\ workq = <<>> \/ \A w \in Workers : workers[w] # Idle
    /\ jobsStatus' = [n \in Instances |-> Older(jobsStatus[n])]
    /\ UNCHANGED <<callVars, sig, sizeVars, nbFailures, jobsResults, resultsq, poolVars, reloads>>

-----------------------------------------------------------------------------
Call ==
    \/ Guard \/ NoMoreResults \/ Report \/ Failure \/ CleanJob \/ Clean \/ ApplyAsync
    \/ StopPool \/ JoinPool \/ StartPool

Handler == HandlerStops \/ HandlerJoins \/ Exit

Work(w) == WorkerTakes(w) \/ PutResult(w) \/ JobDone(w)

NetNext ==
    \/ BeginRun
    \/ \E n \in Instances : Check(n)
    \/ Skip
    \/ Call
    \/ \E w \in Workers : Work(w)
    \/ \E w \in Workers : CheckReturns(w)
    \/ Reload \/ Reloaded
    \/ Sigterm \/ Handler
    \/ Tick

NetSpec == NetInit /\ [][NetNext]_netVars

\* The collector runs again and again and skips no instance for good; the
\* threads are scheduled, and do not always come too late for a job that
\* restarts drop from the queue; a _check() returns, but for the stuck ones.
Fairness ==
    /\ WF_netVars(BeginRun) /\ WF_netVars(Skip) /\ WF_netVars(Call) /\ WF_netVars(Reloaded)
    /\ \A n \in Instances :
          /\ SF_netVars(Check(n))
          /\ SF_netVars(\E w \in Workers : WorkerTakes(w) /\ Head(workq) = n)
    /\ WF_netVars(Handler) /\ SF_netVars(Tick)
    /\ \A w \in Workers :
          /\ WF_netVars(Work(w))
          /\ WF_netVars(CheckReturns(w) /\ workers[w].job \notin Stuck)

NetFairSpec == NetSpec /\ Fairness

-----------------------------------------------------------------------------
(* Properties *)

Count(n) ==
    Cardinality({i \in DOMAIN workq : workq[i] = n})
        + Cardinality({w \in Workers : workers[w].job = n})

\* Every variable has its type.
NetTypeOK ==
    /\ callPc \in {"between", "idle", "guard", "results", "cleanjob", "clean", "apply",
               "stop", "join", "start", "reloaded", "exited"}
    /\ cur \in Instances /\ got \in Instances
    /\ back \in {"guard", "cleanjob", "apply"} /\ after \in {"start", "keep", "discard"}
    /\ sig \in {"none", "stop", "join", "done"}
    /\ started \in BOOLEAN /\ poolSize \in {0, PoolSize} /\ globalSize \in Int
    /\ nbFailures \in 0..PoolSize
    /\ jobsStatus \in [Instances -> NoJob..Timeout + 1]
    /\ jobsResults \in [Instances -> {"none", "pending", "ready"}]
    /\ \A i \in DOMAIN resultsq :
          resultsq[i].job \in Instances /\ resultsq[i].status \in {"ok", "fail"}
    /\ \A i \in DOMAIN workq : workq[i] \in Instances \cup {QUIT}
    /\ closed \in BOOLEAN /\ reloads \in 0..MaxStops
    /\ \A w \in Workers :
          /\ workers[w].at \in {"idle", "dead", "check", "put"}
          /\ workers[w].job \in IF workers[w].at \in {"check", "put"} THEN Instances ELSE {0}

\* network_checks.py:134: an instance is processed one at a time, across the
\* results of a job, the restarts of the pool, reloads and SIGTERM.
OneAtATime == \A n \in Instances : Count(n) <= 1

\* The number of threads that the test on it goes by is that of the pool.
NoExplosion == callPc = "guard" /\ sig = "none" => ~TooManyThreads

\* The jobs and the threads that the check counts are those there are.
JobsConsistent == NetTypeOK /\ OneAtATime /\ NoExplosion

\* No thread is left behind by the pool that takes the place of another.
NoThreadLeftBehind == callPc = "start" => Alive = {}

\* The collector's thread waits for a job only if a thread is at it: it never
\* waits for one that a restart has dropped, or that is still queued.
WaitsForRunningJob ==
    callPc = "cleanjob" /\ jobsResults[got] = "pending"
        => \E w \in Workers : workers[w].at = "put" /\ workers[w].job = got

\* The pool, its jobs and its threads are what the check takes them for, across
\* jobs that do not end, restarts of the pool and reloads.
PoolSound == JobsConsistent /\ NoThreadLeftBehind /\ WaitsForRunningJob

\* Until SIGTERM, jobs without a result, failures, restarts and reloads do not
\* keep an instance from being processed again and again.
KeepsChecking ==
    \A n \in Instances :
        <>(sig # "none" \/ \E w \in Workers : workers[w].job = n)

\* The pool is sound and the check goes on.
NetworkSound == [](PoolSound /\ KeepsChecking)

-----------------------------------------------------------------------------
(* What the comments of the code say *)

\* network_checks.py:94, "To keep track on the total number of threads we should
\* have running".
ThreadsCounted == callPc = "guard" => globalSize = PoolSize

\* thread_pool.py:207, "Stops the worker processes immediately without completing
\* outstanding work."
StopsAtOnce == (callPc = "join") ~> (callPc # "join")

\* checks/__init__.py:1055, stop() is "To be executed when the agent is being
\* stopped to clean ressources".
NoThreadAfterExit == callPc = "exited" => Alive = {}
===============================================================================
