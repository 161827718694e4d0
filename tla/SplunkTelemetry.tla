--------------------------- MODULE SplunkTelemetry ---------------------------
(***************************************************************************)
(* One instance of a Splunk events or metrics check: the base class of     *)
(* splunk_telemetry_base.py, the saved searches of splunk_telemetry.py and *)
(* the calls of splunk_helper.py, between the collector, which runs the    *)
(* check, emits what it produced and commits it, and Splunk, which indexes *)
(* events and runs search jobs.                                            *)
(*                                                                         *)
(* The collector runs the check, emits and commits in one thread.  Between *)
(* any two of its steps time may pass, events may be indexed, jobs may end *)
(* and the agent may be killed: what is then left is the status on disk.   *)
(***************************************************************************)
EXTENDS Integers, FiniteSets, Sequences, FiniteSetsExt

CONSTANTS
    Events,             \* what Splunk may index: records [search, time, key]
    StartTime,          \* the second at which the agent starts
    MaxLag,             \* how late Splunk indexes an event, in seconds
    Configurations      \* the configurations of the instance, see below

\* auth: no session, or no list of searches; finalize: a job cannot be
\* finalized; dispatch: a job cannot be started, or its sid is not received;
\* search: no results; emit: the payload is not sent; uncommitted: the payload
\* is sent but commit_success() does not get to this instance; stop: the agent
\* is stopped before the payload is emitted; restart: the agent is restarted
\* between two runs; crash: it dies anywhere.
AllFaults == {"auth", "finalize", "dispatch", "search", "emit", "uncommitted",
              "stop", "restart", "crash"}

\* How an instance is configured, what may go wrong, and when the run ends.
ConfigurationType ==
    [searches : Seq(STRING),    \* the names of the saved searches, in order
     parallel : Nat \ {0},      \* saved_searches_parallel
     initialDelay : Nat,        \* initial_delay_seconds
     initialHistory : Nat,      \* initial_history_time_seconds
     restartHistory : Nat,      \* max_restart_history_seconds
     chunk : Nat \ {0},         \* max_query_chunk_seconds
     ignoreErrors : BOOLEAN,    \* ignore_saved_search_errors
     faults : SUBSET AllFaults,
     end : Nat]                 \* bound: the last second

ASSUME SplunkAssumption ==
    /\ {StartTime, MaxLag} \subseteq Nat
    /\ IsFiniteSet(Events) /\ \A e \in Events : e.time \in Nat
    /\ \A c \in Configurations :
        /\ c \in ConfigurationType
        /\ StartTime \in c.initialHistory..c.end
        \* The searches are told apart by their names.
        /\ \A i, j \in 1..Len(c.searches) : c.searches[i] = c.searches[j] => i = j

VARIABLES
    conf,       \* the configuration of the instance
    now,        \* _current_time_seconds()
    indexed,    \* the events Splunk has indexed
    live,       \* the jobs Splunk runs: records [sid, search]
    committed,  \* on disk, for the instance: up to when each search was read
    sidOnDisk,  \* on disk, for each search: the sid of its last job
    launch,     \* launch_time_seconds, or NotLaunched
    observed,   \* last_observed_timestamp
    recover,    \* last_recover_latest_time_epoch_seconds
    seen,       \* last_observed_telemetry
    phase,      \* what the check or the collector does next
    toDispatch, \* searches that the check still has to dispatch
    job,        \* the job dispatched whose sid is not on disk yet, or NoJob
    searching,  \* jobs to be processed: records [sid, search, from, to]
    payload,    \* telemetry produced by the check and not emitted yet
    sent,       \* history: telemetry emitted
    resent,     \* history: telemetry emitted more than once
    returned,   \* history: events returned by a search that was processed
    skipped,    \* history: events not produced since seen, but never sent
    lost        \* history: sids of jobs that were never on disk

Names == {conf.searches[i] : i \in 1..Len(conf.searches)}

\* The sids of Splunk's jobs.
Sids == 1..(Len(conf.searches) + 1)

\* What Splunk may index that a search of the instance looks for.
EventsSought == {e \in Events : e.search \in Names}

worldVars  == <<conf, now, indexed>>
diskVars   == <<committed, sidOnDisk>>
memoryVars == <<launch, observed, recover, seen>>
checkVars  == <<phase, toDispatch, job, searching>>
sentVars   == <<payload, sent, resent>>
vars == <<worldVars, live, diskVars, memoryVars, checkVars, sentVars,
          returned, skipped, lost>>

NotLaunched == -1
NoStatus    == -2   \* nothing on disk
NoSid       == 0
NoJob       == [sid |-> NoSid, search |-> "none"]
Unread      == 0    \* recover: no search since the agent started
CaughtUp    == -1   \* recover: None, there is no history to catch up with

ForgetMemory ==
    /\ launch' = NotLaunched
    /\ observed' = [s \in Names |-> 0]
    /\ recover' = [s \in Names |-> Unread]
    /\ seen' = [s \in Names |-> {}]

Init ==
    /\ conf \in Configurations
    /\ now = StartTime /\ live = {}
    /\ indexed \in SUBSET {e \in EventsSought : e.time < StartTime}
    /\ committed = [s \in Names |-> NoStatus]
    /\ sidOnDisk = [s \in Names |-> NoSid]
    /\ launch = NotLaunched
    /\ observed = [s \in Names |-> 0]
    /\ recover = [s \in Names |-> Unread]
    /\ seen = [s \in Names |-> {}]
    /\ phase = "idle" /\ toDispatch = <<>> /\ job = NoJob /\ searching = <<>>
    /\ payload = {} /\ sent = {} /\ resent = {} /\ returned = {}
    /\ skipped = {} /\ lost = {}

-----------------------------------------------------------------------------
(* SplunkTelemetryBase.check() *)

\* Mutant: the second already read is read again.
FirstSecondAgain(last) == last
FirstSecond(last) == last + 1

\* Mutant: the status on disk only tells that the agent was restarted.
StartOfHistory(s) ==
    IF committed[s] = NoStatus THEN now - conf.initialHistory
    ELSE now - conf.restartHistory

\* update_status(): where the next search of s begins.
StartOf(s) ==
    IF committed[s] = NoStatus THEN now - conf.initialHistory
    ELSE IF now - FirstSecond(committed[s]) > conf.restartHistory
         THEN now - conf.restartHistory
         ELSE FirstSecond(committed[s])

Launch == launch' = IF launch = NotLaunched THEN now ELSE launch
LaunchTime == IF launch = NotLaunched THEN now ELSE launch
TooEarly == now < LaunchTime + conf.initialDelay

\* The check returns at once, or fails before it reads its status.
CheckNothing ==
    /\ phase = "idle"
    /\ TooEarly \/ "auth" \in conf.faults
    /\ Launch
    /\ phase' = "emit"
    /\ UNCHANGED <<worldVars, live, diskVars, observed, recover, seen,
                   toDispatch, job, searching, sentVars, returned, skipped, lost>>

CheckBegin ==
    /\ phase = "idle" /\ ~TooEarly
    /\ \A s \in Names : committed[s] <= conf.end    \* bound
    /\ Launch
    /\ observed' = [s \in Names |-> StartOf(s)]
    /\ toDispatch' = conf.searches
    /\ phase' = IF conf.searches = <<>> THEN "emit" ELSE "dispatch"
    /\ UNCHANGED <<worldVars, live, diskVars, recover, seen, job, searching,
                   sentVars, returned, skipped, lost>>

-----------------------------------------------------------------------------
(* _dispatch_and_await_search(): the searches of a chunk are dispatched one *)
(* after the other, then processed one after the other                      *)

Current == Head(toDispatch)

\* The search is dispatched or given up: on to the next one of the chunk, or
\* to the results of the chunk.
SearchDone ==
    /\ toDispatch' = Tail(toDispatch)
    /\ phase' = IF (Len(conf.searches) - Len(toDispatch) + 1) % conf.parallel = 0
                   \/ Len(toDispatch) = 1
                THEN "process" ELSE "dispatch"

\* Mutant: the job before is not finalized.
FinalizeForgotten ==
    /\ phase = "dispatch" /\ sidOnDisk[Current] # NoSid
    /\ sidOnDisk' = [sidOnDisk EXCEPT ![Current] = NoSid]
    /\ UNCHANGED <<worldVars, live, committed, memoryVars, checkVars, sentVars,
                   returned, skipped, lost>>

\* The job of the run before is finalized (or is unknown to Splunk) and its
\* sid is removed from the disk.
Finalize ==
    /\ phase = "dispatch" /\ sidOnDisk[Current] # NoSid
    /\ live' = {j \in live : j.sid # sidOnDisk[Current]}
    /\ sidOnDisk' = [sidOnDisk EXCEPT ![Current] = NoSid]
    /\ UNCHANGED <<worldVars, committed, memoryVars, checkVars, sentVars,
                   returned, skipped, lost>>

\* The search is skipped, or the whole check fails.
FinalizeFails ==
    /\ phase = "dispatch" /\ sidOnDisk[Current] # NoSid
    /\ "finalize" \in conf.faults
    /\ \/ conf.ignoreErrors /\ SearchDone /\ UNCHANGED searching
       \/ /\ ~conf.ignoreErrors
          /\ phase' = "emit" /\ toDispatch' = <<>> /\ searching' = <<>>
    /\ UNCHANGED <<worldVars, live, diskVars, memoryVars, job, sentVars,
                   returned, skipped, lost>>

\* The end of the time window of a search: none once it has caught up.
ChunkEnd(s) ==
    IF observed[s] + conf.chunk >= now THEN CaughtUp ELSE observed[s] + conf.chunk

\* The sids Splunk may give: one more than the searches may be known at once
\* (bound).
FreeSids == Sids \ ({j.sid : j \in live} \cup {sidOnDisk[s] : s \in Names})
FreshSid == Min(FreeSids)

Dispatch ==
    /\ phase = "dispatch" /\ sidOnDisk[Current] = NoSid /\ FreeSids # {}
    /\ recover' = [recover EXCEPT ![Current] = ChunkEnd(Current)]
    /\ job' = [sid |-> FreshSid, search |-> Current]
    /\ live' = live \cup {job'}
    /\ phase' = "persist"
    /\ UNCHANGED <<worldVars, diskVars, launch, observed, seen, toDispatch,
                   searching, sentVars, returned, skipped, lost>>

\* Splunk may have started the job although the request failed.  With
\* ignore_saved_search_errors the error may go unnoticed: the search of no sid
\* then fails.
DispatchFails ==
    /\ phase = "dispatch" /\ sidOnDisk[Current] = NoSid
    /\ "dispatch" \in conf.faults /\ FreeSids # {}
    /\ recover' = [recover EXCEPT ![Current] = ChunkEnd(Current)]
    /\ \/ UNCHANGED <<live, lost>>
       \/ /\ live' = live \cup {[sid |-> FreshSid, search |-> Current]}
          /\ lost' = lost \cup {FreshSid}
    /\ \/ UNCHANGED seen
       \/ conf.ignoreErrors /\ seen' = [seen EXCEPT ![Current] = {}]
    /\ SearchDone
    /\ UNCHANGED <<worldVars, diskVars, launch, observed, job, searching,
                   sentVars, returned, skipped>>

PersistSid ==
    /\ phase = "persist"
    /\ sidOnDisk' = [sidOnDisk EXCEPT ![Current] = job.sid]
    /\ searching' = Append(searching,
           [sid |-> job.sid, search |-> Current,
            from |-> observed[Current], to |-> recover[Current]])
    /\ job' = NoJob
    /\ SearchDone
    /\ UNCHANGED <<worldVars, live, committed, memoryVars, sentVars, returned,
                   skipped, lost>>

-----------------------------------------------------------------------------
(* _process_saved_search() *)

Results(j) ==
    {e \in indexed : /\ e.search = j.search /\ e.time >= j.from
                     /\ j.to # CaughtUp => e.time < j.to}

LastOf(E, last) == {e \in E : e.time = last}

\* Nothing is extracted unless all the results were received.
ProcessFails ==
    /\ phase = "process" /\ searching # <<>>
    /\ "search" \in conf.faults
    /\ seen' = [seen EXCEPT ![Head(searching).search] = {}]
    /\ searching' = Tail(searching)
    /\ UNCHANGED <<worldVars, live, diskVars, launch, observed, recover, phase,
                   toDispatch, job, sentVars, returned, skipped, lost>>

\* What was seen for the last second of the run before is not produced again.
Process ==
    /\ phase = "process" /\ searching # <<>>
    /\ LET j == Head(searching)
           last == Max({observed[j.search]} \cup {e.time : e \in Results(j)})
       IN  /\ payload' = payload \cup (Results(j) \ seen[j.search])
           /\ observed' = [observed EXCEPT ![j.search] = last]
           /\ seen' = [seen EXCEPT ![j.search] = LastOf(Results(j), last)]
           /\ returned' = returned \cup Results(j)
           /\ skipped' = skipped \cup ((Results(j) \cap seen[j.search]) \ sent)
    /\ searching' = Tail(searching)
    /\ UNCHANGED <<worldVars, live, diskVars, launch, recover, phase,
                   toDispatch, job, sent, resent, lost>>

\* On to the next chunk; after the last one, the check is done.
ChunkDone ==
    /\ phase = "process" /\ searching = <<>>
    /\ phase' = IF toDispatch = <<>> THEN "emit" ELSE "dispatch"
    /\ UNCHANGED <<worldVars, live, diskVars, memoryVars, toDispatch, job,
                   searching, sentVars, returned, skipped, lost>>

-----------------------------------------------------------------------------
(* The collector emits the payload, then commits the checks *)

\* get_status() of a saved search
Status(s) == IF recover[s] = CaughtUp THEN observed[s] ELSE recover[s] - 1

Sent ==
    /\ sent' = sent \cup payload
    /\ resent' = resent \cup (sent \cap payload)
    /\ payload' = {}

\* Mutant: the status is committed although the payload was not sent.
EmitFailsCommits ==
    /\ phase = "emit" /\ "emit" \in conf.faults
    /\ payload' = {} /\ phase' = "commit"
    /\ UNCHANGED <<worldVars, live, diskVars, memoryVars, toDispatch, job,
                   searching, sent, resent, returned, skipped, lost>>

Emit ==
    /\ phase = "emit"
    /\ Sent
    /\ phase' = "commit"
    /\ UNCHANGED <<worldVars, live, diskVars, memoryVars, toDispatch, job,
                   searching, returned, skipped, lost>>

\* commit_failed() does nothing.
EmitFails ==
    /\ phase = "emit" /\ "emit" \in conf.faults
    /\ payload' = {} /\ phase' = "idle"
    /\ UNCHANGED <<worldVars, live, diskVars, memoryVars, toDispatch, job,
                   searching, sent, resent, returned, skipped, lost>>

\* A check before this one has more data: commit_success() is not called.
EmitUncommitted ==
    /\ phase = "emit" /\ "uncommitted" \in conf.faults
    /\ Sent
    /\ phase' = "idle"
    /\ UNCHANGED <<worldVars, live, diskVars, memoryVars, toDispatch, job,
                   searching, returned, skipped, lost>>

Committed == committed' = [s \in Names |-> Status(s)]

\* The collector was told to stop: no emitter is called, none has failed, and
\* the checks are committed before the agent exits.
EmitStopped ==
    /\ phase = "emit" /\ "stop" \in conf.faults
    /\ Committed
    /\ payload' = {} /\ phase' = "idle" /\ ForgetMemory
    /\ UNCHANGED <<worldVars, live, sidOnDisk, toDispatch, job, searching, sent,
                   resent, returned, skipped, lost>>

\* commit_succeeded()
Commit ==
    /\ phase = "commit"
    /\ Committed
    /\ phase' = "idle"
    /\ UNCHANGED <<worldVars, live, sidOnDisk, memoryVars, toDispatch, job,
                   searching, sentVars, returned, skipped, lost>>

-----------------------------------------------------------------------------
(* Around the check *)

Die ==
    /\ ForgetMemory
    /\ phase' = "idle" /\ toDispatch' = <<>> /\ job' = NoJob
    /\ searching' = <<>> /\ payload' = {}
    /\ lost' = lost \cup ({job.sid} \cap {j.sid : j \in live})
    /\ UNCHANGED <<worldVars, live, diskVars, sent, resent, returned, skipped>>

Restart == "restart" \in conf.faults /\ phase = "idle" /\ launch # NotLaunched /\ Die
Crash == "crash" \in conf.faults /\ phase # "idle" /\ Die

JobEnds(j) ==
    /\ live' = live \ {j}
    /\ lost' = lost \ {j.sid}
    /\ UNCHANGED <<worldVars, diskVars, memoryVars, checkVars, sentVars, returned, skipped>>

Index(e) ==
    /\ e \in EventsSought \ indexed /\ e.time <= now /\ now <= e.time + MaxLag
    /\ indexed' = indexed \cup {e}
    /\ UNCHANGED <<conf, now, live, diskVars, memoryVars, checkVars, sentVars,
                   returned, skipped, lost>>

Tick ==
    /\ now < conf.end    \* bound
    /\ now' = now + 1
    /\ UNCHANGED <<conf, indexed, live, diskVars, memoryVars, checkVars, sentVars,
                   returned, skipped, lost>>

CheckStep ==
    \/ CheckBegin \/ Finalize \/ Dispatch \/ PersistSid \/ Process \/ ChunkDone
    \/ Emit \/ Commit

Fault ==
    \/ CheckNothing \/ FinalizeFails \/ DispatchFails \/ ProcessFails
    \/ EmitFails \/ EmitUncommitted \/ EmitStopped \/ Restart \/ Crash

Next ==
    \/ CheckStep \/ Fault
    \/ (\E j \in live : JobEnds(j)) \/ (\E e \in Events : Index(e)) \/ Tick

Spec == Init /\ [][Next]_vars

-----------------------------------------------------------------------------
(* Properties *)

TypeOK ==
    /\ conf \in Configurations /\ now \in Nat /\ indexed \subseteq Events
    /\ \A j \in live : j.sid \in Sids /\ j.search \in Names
    /\ committed \in [Names -> Int] /\ sidOnDisk \in [Names -> Sids \cup {NoSid}]
    /\ launch \in Int /\ observed \in [Names -> Int] /\ recover \in [Names -> Int]
    /\ seen \in [Names -> SUBSET Events]
    /\ phase \in {"idle", "dispatch", "persist", "process", "emit", "commit"}
    /\ \A i \in 1..Len(toDispatch) : toDispatch[i] \in Names
    /\ IF phase = "persist" THEN job.sid \in Sids /\ job.search = Current
       ELSE job = NoJob
    /\ \A i \in 1..Len(searching) :
        searching[i].search \in Names /\ searching[i].from \in Int
    /\ payload \cup sent \cup resent \cup returned \subseteq Events
    /\ lost \subseteq Sids

\* Whatever fails and wherever the agent dies, a run produces nothing that the
\* status on disk already covers: the +1 and -1 of the bounds fit together.
ProducesOnlyNew == TypeOK /\ \A e \in payload : e.time > committed[e.search]

\* Once a search has run since the agent started, its status on disk never
\* goes back, although it comes from a search that failed or was skipped.
StatusAdvances ==
    [][\A s \in Names : recover[s] # Unread => committed'[s] >= committed[s]]_vars

\* A search has at most one job at a time in Splunk, restarts included, other
\* than jobs whose sid could not be written to disk.
OneJobPerSearch ==
    \A s \in Names :
        Cardinality({j \in live : j.search = s /\ j.sid \notin lost}) <= 1

\* Nothing is produced twice, or searched for twice at a time, whatever fails and
\* wherever the agent dies.
NothingTwice == ProducesOnlyNew /\ OneJobPerSearch

\* No search fails or is skipped, the agent is not told to stop, and every search,
\* the first one and one after a restart, goes back as far as the first event.
ReadsEverything ==
    /\ conf.faults \cap {"auth", "finalize", "dispatch", "search", "stop"} = {}
    /\ \A e \in EventsSought :
        /\ e.time + conf.initialHistory >= conf.end
        /\ e.time + conf.restartHistory >= conf.end

\* An event that a search returned and that the status on disk covers was sent,
\* unless it was skipped as a duplicate.
CoveredWasSent ==
    \A e \in returned : e.time <= committed[e.search] => e \in sent \cup skipped

\* When every search is read, neither a payload that failed, nor a commit that
\* did not come, nor a crash between any two steps loses an event.
NothingReadIsLost == ReadsEverything => CoveredWasSent

\* What Splunk finds is sent once.
TelemetrySound == NothingTwice /\ NothingReadIsLost

-----------------------------------------------------------------------------
(* What the comments of the code say *)

\* splunk_telemetry_base.py:224, "Upon failure we do not commit the new
\* timestamps": what a run read and failed to send, the status does not cover.
FailureNotCommitted == CoveredWasSent

\* splunk_telemetry.py:25, "the events that were reported for the last
\* timestamp, to deduplicate them when we get a new query": an event skipped as
\* a duplicate was sent.
SkippedWasReported == skipped = {}

\* splunk_telemetry.py:22, "Any value above zero signifies until what time we
\* recovered": the events that a commit passes over were read.
RecoveredWasRead ==
    [][\A e \in indexed :
        recover[e.search] > 0 /\ committed[e.search] \in -1..(e.time - 1)
            /\ committed'[e.search] >= e.time
        => e \in returned]_vars

\* splunk_telemetry.py:33, "If there is not catching up to do, the status is as
\* far as the last event time": it is not in the future.
StatusNotAhead == \A s \in Names : committed[s] <= now

\* splunk_telemetry.py:86, "Continue running or restarting, add one to not
\* duplicate the last events": no event is sent twice.
NotDuplicated == resent = {}
=============================================================================
