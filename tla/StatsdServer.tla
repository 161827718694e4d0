---- MODULE StatsdServer ----
(***************************************************************************)
(* The statsd server process (stsstatsd.py) and the lists of events and    *)
(* service checks that its two threads share without a lock                *)
(* (aggregator.py).  The server thread parses datagrams and appends; the   *)
(* reporter thread takes the lists at each flush and posts them.  What     *)
(* happens to metrics meanwhile is in BucketAggregator.                    *)
(***************************************************************************)
EXTENDS Naturals, Sequences, FiniteSets

CONSTANTS
    Datagrams,      \* what clients may send: sequences of packets
    ChunkSize,      \* event_chunk_size
    MaxDatagrams,   \* bound on the datagrams that arrive
    MaxFlushes      \* bound on the flushes before the reporter is told to stop

ASSUME StatsdAssumption == ChunkSize \in Nat \ {0} /\ MaxDatagrams \in Nat /\ MaxFlushes \in Nat

\* The packets that fill a list; "metric" goes elsewhere and "bad" cannot be parsed.
Lists == {"event", "check"}

VARIABLES
    running,    \* Server.running
    serverPc,   \* "select", "packets", "append", "forward" or "stopped"
    rest,       \* packets of the datagram that are not parsed yet
    target,     \* the list the server is about to append to
    heap,       \* per kind: every list it ever had; the last is the current one
    finished,   \* Reporter.finished
    reporterPc, \* "wait", "take", "count", "post" or "ended"
    flushing,   \* the kind being flushed
    cursor,     \* how many of the taken list are in chunks, and if the iterator ended
    posted,     \* per kind: what was in a post, in order
    forwarded,  \* datagrams sent to another statsd server
    arrived,    \* datagrams received, and the number of things received
    flushes,
    strays,     \* history: what was appended to a list after it was taken
    aborted     \* history: what a flush that raised had taken

statsdVars == <<running, serverPc, rest, target, heap, finished, reporterPc, flushing, cursor,
                posted, forwarded, arrived, flushes, strays, aborted>>
reporterVars == <<finished, reporterPc, flushing, cursor, posted, flushes, aborted>>
serverVars == <<running, serverPc, rest, target, forwarded, arrived, strays>>

Current(k) == Len(heap[k])
\* The list that the reporter took is the one before the current one.
TakenList(k) == heap[k][Current(k) - 1]
AllOf(s) == {s[i] : i \in DOMAIN s}

StatsdInit ==
    /\ running = TRUE /\ serverPc = "select" /\ rest = <<>>
    /\ target = [kind |-> "event", list |-> 1]
    /\ heap = [k \in Lists |-> <<<<>>>>]
    /\ finished = FALSE /\ reporterPc = "wait" /\ flushing = "event"
    /\ cursor = [at |-> 0, ended |-> FALSE]
    /\ posted = [k \in Lists |-> <<>>]
    /\ forwarded = 0
    /\ arrived = [datagrams |-> 0, items |-> 0]
    /\ flushes = 0
    /\ strays = {} /\ aborted = {}

(***************************************************************************)
(* Server.start(): the select loop                                         *)
(***************************************************************************)
Receive ==
    /\ serverPc = "select" /\ running
    /\ arrived.datagrams < MaxDatagrams
    /\ rest' \in Datagrams
    /\ serverPc' = "packets"
    /\ arrived' = [arrived EXCEPT !.datagrams = @ + 1]
    /\ UNCHANGED <<running, target, heap, forwarded, strays, reporterVars>>

\* Aggregator.submit_packets(): a metric goes to the bucket aggregator, an event
\* or a check is looked up a list to be appended to.
ParseMetric ==
    /\ serverPc = "packets" /\ rest # <<>> /\ Head(rest) = "metric"
    /\ rest' = Tail(rest)
    /\ UNCHANGED <<running, serverPc, target, heap, forwarded, arrived, strays, reporterVars>>

LookUp ==
    /\ serverPc = "packets" /\ rest # <<>> /\ Head(rest) \in Lists
    /\ target' = [kind |-> Head(rest), list |-> Current(Head(rest))]
    /\ serverPc' = "append"
    /\ UNCHANGED <<running, rest, heap, forwarded, arrived, strays, reporterVars>>

Append1 ==
    /\ serverPc = "append"
    /\ LET k == target.kind
           item == arrived.items + 1
       IN  /\ heap' = [heap EXCEPT ![k][target.list] = Append(@, item)]
           /\ strays' = IF target.list = Current(k) THEN strays ELSE strays \union {item}
    /\ arrived' = [arrived EXCEPT !.items = @ + 1]
    /\ rest' = Tail(rest)
    /\ serverPc' = "packets"
    /\ UNCHANGED <<running, target, forwarded, reporterVars>>

\* A packet that cannot be parsed raises: the rest of its datagram is dropped and
\* the datagram is not forwarded.
ParseRaises ==
    /\ serverPc = "packets" /\ rest # <<>> /\ Head(rest) = "bad"
    /\ rest' = <<>>
    /\ serverPc' = "select"
    /\ UNCHANGED <<running, target, heap, forwarded, arrived, strays, reporterVars>>

Forward ==
    /\ serverPc = "packets" /\ rest = <<>>
    /\ forwarded' = forwarded + 1
    /\ serverPc' = "select"
    /\ UNCHANGED <<running, rest, target, heap, arrived, strays, reporterVars>>

\* SIGTERM interrupts select(); the loop ends, and run() stops the reporter.
HandleSigterm ==
    /\ running
    /\ running' = FALSE
    /\ UNCHANGED <<serverPc, rest, target, heap, forwarded, arrived, strays, reporterVars>>

\* Dogstatsd.run(): the reporter is stopped when the server has ended.
StopReporter == finished' = TRUE
\* Mutant: the reporter is joined without being told to stop.
JoinOnly == finished' = finished
StopAndJoin == StopReporter

ServerEnds ==
    /\ serverPc = "select" /\ ~running
    /\ serverPc' = "stopped"
    /\ StopAndJoin
    /\ UNCHANGED <<running, rest, target, heap, forwarded, arrived, strays,
                   reporterPc, flushing, cursor, posted, flushes, aborted>>

(***************************************************************************)
(* Reporter.run(), flush()                                                 *)
(***************************************************************************)
\* The wait is over, or was cut short by stop(); metrics are flushed first.
FlushStarts ==
    /\ reporterPc = "wait"
    /\ finished \/ flushes < MaxFlushes
    /\ flushes' = flushes + 1
    /\ flushing' = "event"
    /\ reporterPc' = "take"
    /\ UNCHANGED <<heap, finished, cursor, posted, aborted, serverVars>>

\* flush_events(), flush_service_checks()
NewList(k) == heap' = [heap EXCEPT ![k] = Append(@, <<>>)]
\* Mutant: the list that was taken stays the current one as well.
KeepList(k) == heap' = [heap EXCEPT ![k] = Append(@, @[Len(@)])]
Swap(k) == NewList(k)

Take ==
    /\ reporterPc = "take"
    /\ Swap(flushing)
    /\ cursor' = [at |-> 0, ended |-> FALSE]
    /\ reporterPc' = "count"
    /\ UNCHANGED <<finished, flushing, posted, flushes, aborted, serverVars>>

AfterKind ==
    IF flushing = "event" THEN flushing' = "check" /\ reporterPc' = "take"
    ELSE flushing' = flushing /\ reporterPc' = IF finished THEN "ended" ELSE "wait"

Count ==
    /\ reporterPc = "count"
    /\ IF TakenList(flushing) = <<>> THEN AfterKind
       ELSE flushing' = flushing /\ reporterPc' = "post"
    /\ UNCHANGED <<heap, finished, cursor, posted, flushes, aborted, serverVars>>

\* chunks() iterates over the list itself, so it sees what is appended until it
\* finds the end; service checks are dumped whole.
Exhausted == flushing = "check" \/ cursor.at + ChunkSize > Len(TakenList(flushing))
ChunkEnd == IF Exhausted THEN Len(TakenList(flushing)) ELSE cursor.at + ChunkSize

\* submit_http(): the answer of the forwarder changes nothing, there is no retry.
Post ==
    /\ reporterPc = "post" /\ ~cursor.ended
    /\ posted' = [posted EXCEPT ![flushing] =
                    @ \o SubSeq(TakenList(flushing), cursor.at + 1, ChunkEnd)]
    /\ cursor' = [at |-> ChunkEnd, ended |-> Exhausted]
    /\ UNCHANGED <<heap, finished, reporterPc, flushing, flushes, aborted, serverVars>>

PostsDone ==
    /\ reporterPc = "post" /\ cursor.ended
    /\ AfterKind
    /\ UNCHANGED <<heap, finished, cursor, posted, flushes, aborted, serverVars>>

\* A string that is not UTF-8 cannot be dumped: the flush ends, with what it took.
FlushRaises ==
    /\ reporterPc = "post" /\ ChunkEnd > cursor.at
    /\ aborted' = aborted \union AllOf(TakenList(flushing))
    /\ reporterPc' = IF finished THEN "ended" ELSE "wait"
    /\ UNCHANGED <<heap, finished, flushing, cursor, posted, flushes, serverVars>>

ServerStep == Receive \/ ParseMetric \/ LookUp \/ Append1 \/ ParseRaises \/ Forward \/ ServerEnds
ReporterStep == FlushStarts \/ Take \/ Count \/ Post \/ PostsDone \/ FlushRaises

StatsdNext == ServerStep \/ ReporterStep \/ HandleSigterm

\* Both threads run; select() wakes up every five seconds and wait() times out.
StatsdFairness == WF_statsdVars(ServerStep) /\ WF_statsdVars(ReporterStep)
StatsdSpec == StatsdInit /\ [][StatsdNext]_statsdVars /\ StatsdFairness

----
Pending(k) == AllOf(heap[k][Current(k)])
InFlush(k) ==
    IF flushing = k /\ reporterPc \in {"count", "post"} /\ ~cursor.ended
    THEN {TakenList(k)[i] : i \in (IF reporterPc = "post" THEN cursor.at + 1 ELSE 1)..Len(TakenList(k))}
    ELSE {}

\* Events and service checks are posted once and in the order in which they came,
\* and one that was received is pending, in the flush or posted, unless it was
\* appended to a list that had just been taken or the flush raised.
EventsAccounted ==
    \A k \in Lists :
        /\ \A i, j \in DOMAIN posted[k] : i < j => posted[k][i] < posted[k][j]
        /\ UNION {AllOf(heap[k][l]) : l \in DOMAIN heap[k]}
              \subseteq Pending(k) \union InFlush(k) \union AllOf(posted[k]) \union strays \union aborted
        /\ AllOf(posted[k]) \cap (Pending(k) \union InFlush(k)) = {}

\* A server that is told to stop ends, with its reporter.
ServerStops == ~running => <>(reporterPc = "ended")

\* The server loses nothing but in these ways, and stops.
ServerSound == [](EventsAccounted /\ ServerStops)
====
