---- MODULE Intake ----
(***************************************************************************)
(* The process of the forwarder, stsagent.py, up to its transactions: the  *)
(* requests it accepts, the points of its Graphite listener, graphite.py,  *)
(* the threads of its custom emitters, and the watchdog of                 *)
(* utils/watchdog.py that kills it.  What becomes of a transaction is in   *)
(* Forwarder.                                                              *)
(***************************************************************************)
EXTENDS Integers, Sequences, FiniteSets, SequencesExt, FiniteSetsExt

CONSTANTS
    Intakes,        \* requests: records [path, json], each made once
    IntakeEndpoints, \* pairs of an endpoint and an API key
    Emitters,       \* custom emitters
    QueueLimit,     \* max_queue_size of an emitter
    GraphiteInput,  \* messages on the one connection: [pickled, items]
    TransactionFlushInterval, \* TRANSACTION_FLUSH_INTERVAL, in ticks
    AlarmDelay,     \* the duration of the watchdog, in ticks
    Timeframe,      \* _RESTART_TIMEFRAME, in ticks
    MaxResets,      \* WATCHDOG_HIGH_ACTIVITY_THRESHOLD
    LastTick,       \* bound on the time
    MaxSetBack      \* bound on how far the clock is set back, once

\* The periodic flush comes well before the alarm, and far less often than the limit:
\* one that comes late may be followed at once by the next.
ASSUME IntakeAssumption ==
    /\ IsFiniteSet(IntakeEndpoints) /\ IsFiniteSet(Emitters) /\ IsFiniteSet(Intakes)
    /\ GraphiteInput \in Seq([pickled : BOOLEAN, items : Seq({"point", "bad", "no pair"})])
    /\ {QueueLimit, TransactionFlushInterval, AlarmDelay} \subseteq Nat \ {0}
    /\ {Timeframe, MaxResets, LastTick, MaxSetBack} \subseteq Nat
    /\ TransactionFlushInterval < AlarmDelay /\ (MaxResets - 1) * TransactionFlushInterval >= Timeframe

VARIABLES
    tick,           \* time that passes
    setBack,        \* how far the clock was set back
    ioloop,         \* "running", "stuck" in Python code, "in a call" or "killed"
    nextFlush,      \* clock time of the next call of flush_trs()
    alarm,          \* tick at which SIGALRM comes
    resets,         \* WatchdogPosix._restarts, clock times
    accepted,       \* requests and points that were accepted, in order
    refused,        \* requests that were answered 500
    metrics,        \* Application._metrics: points
    made,           \* transactions: [what, url, endpoint]
    emitterQueue, emitting,     \* EmitterThread: its queue, and what it has in hand
    handed,         \* history: what each emitter was given, in order
    overflowed,     \* history: packets dropped as its queue was full
    graphite,       \* the connection: "open", "stalled" or "closed"
    toRead,         \* messages still to come on it
    points,         \* history: points accepted
    lastReset       \* history: tick of the last reset of the watchdog

clockVars == <<tick, setBack>>
watchVars == <<nextFlush, alarm, resets, lastReset>>
inputVars == <<accepted, refused, points, graphite, toRead>>
emitterVars == <<emitterQueue, emitting, handed, overflowed>>
intakeVars == <<clockVars, ioloop, watchVars, inputVars, metrics, made, emitterVars>>

Clock == tick - setBack
\* A signal is handled before anything else is done.
Responsive == ioloop = "running" /\ tick < alarm
Packet(r) == [path |-> r.path, json |-> r.json, points |-> <<>>]
OfPoints(list) == [path |-> "intake", json |-> TRUE, points |-> list]

IntakeInit ==
    /\ tick = 0 /\ setBack = 0 /\ ioloop = "running"
    /\ nextFlush = TransactionFlushInterval /\ alarm = AlarmDelay /\ resets = <<0>> /\ lastReset = 0
    /\ accepted = <<>> /\ refused = {} /\ points = 0 /\ graphite = "open" /\ toRead = GraphiteInput
    /\ metrics = <<>> /\ made = <<>>
    /\ emitterQueue = [e \in Emitters |-> <<>>] /\ emitting = [e \in Emitters |-> <<>>]
    /\ handed = [e \in Emitters |-> <<>>] /\ overflowed = [e \in Emitters |-> {}]

(***************************************************************************)
(* AgentTransaction, EmitterManager                                        *)
(***************************************************************************)
UrlOf(path) == IF path \in {"series", "check_run"} THEN path ELSE "intake"

Enqueue(packet) ==
    /\ emitterQueue' = [e \in Emitters |-> IF Len(emitterQueue[e]) < QueueLimit
                                           THEN Append(emitterQueue[e], packet) ELSE emitterQueue[e]]
    /\ overflowed' = [e \in Emitters |-> IF Len(emitterQueue[e]) < QueueLimit
                                         THEN overflowed[e] ELSE overflowed[e] \cup {packet}]
    /\ UNCHANGED <<emitting, handed>>

ForEveryEndpoint(what, url) ==
    made \o SetToSeq({[what |-> what, url |-> url, endpoint |-> e] : e \in IntakeEndpoints})
\* Mutant: the first endpoint only.
ForFirstEndpoint(what, url) ==
    made \o [i \in 1..1 |-> [what |-> what, url |-> url, endpoint |-> CHOOSE e \in IntakeEndpoints : TRUE]]
Transactions(what, url) == ForEveryEndpoint(what, url)

\* The emitters come first: what they cannot decode gets no transaction.
PostRequest(r) ==
    /\ Responsive /\ Packet(r) \notin ToSet(accepted) \cup refused
    /\ IF Emitters # {} /\ ~r.json
       THEN refused' = refused \cup {Packet(r)} /\ UNCHANGED <<accepted, made, emitterVars>>
       ELSE /\ accepted' = Append(accepted, Packet(r))
            /\ made' = Transactions(Packet(r), UrlOf(r.path))
            /\ Enqueue(Packet(r))
            /\ UNCHANGED refused
    /\ UNCHANGED <<clockVars, ioloop, watchVars, points, graphite, toRead, metrics>>

EmitterTakes(e) ==
    /\ ioloop # "killed" /\ emitting[e] = <<>> /\ emitterQueue[e] # <<>>
    /\ emitting' = [emitting EXCEPT ![e] = <<Head(emitterQueue[e])>>]
    /\ emitterQueue' = [emitterQueue EXCEPT ![e] = Tail(@)]
    /\ UNCHANGED <<clockVars, ioloop, watchVars, inputVars, metrics, made, handed, overflowed>>

\* Whether it raises an exception or not.
EmitterDone(e) ==
    /\ ioloop # "killed" /\ emitting[e] # <<>>
    /\ handed' = [handed EXCEPT ![e] = @ \o emitting[e]]
    /\ emitting' = [emitting EXCEPT ![e] = <<>>]
    /\ UNCHANGED <<clockVars, ioloop, watchVars, inputVars, metrics, made, emitterQueue, overflowed>>

(***************************************************************************)
(* GraphiteConnection                                                      *)
(***************************************************************************)
\* The points before one that is no pair; those that are no numbers are left out.
Decoded(items) ==
    Cardinality({i \in DOMAIN items : items[i] = "point" /\ \A j \in 1..i : items[j] # "no pair"})

\* A message that is no pickle is the last one that is read; an item that is no pair
\* is an exception, which closes the connection.
ReadGraphite ==
    /\ Responsive /\ graphite = "open" /\ toRead # <<>>
    /\ toRead' = Tail(toRead)
    /\ LET message == Head(toRead)
           n == IF message.pickled THEN Decoded(message.items) ELSE 0
       IN  /\ points' = points + n
           /\ metrics' = metrics \o [i \in 1..n |-> points + i]
           /\ graphite' = CASE ~message.pickled -> "stalled"
                            [] message.pickled /\ "no pair" \in ToSet(message.items) -> "closed"
                            [] OTHER -> "open"
    /\ UNCHANGED <<clockVars, ioloop, watchVars, accepted, refused, made, emitterVars>>

(***************************************************************************)
(* flush_trs() and the watchdog                                            *)
(***************************************************************************)
\* Old resets are only dropped from the front.
Recent(times, now) ==
    LET old == {i \in DOMAIN times : \A j \in 1..i : times[j] < now - Timeframe}
    IN  SubSeq(times, Cardinality(old) + 1, Len(times))
\* Mutant: they are never dropped.
NeverDropped(times, now) == times
Remembered(times, now) == Recent(times, now)

\* Then _postMetrics(), which may not find the name of the host; the exception is
\* logged by the timer.
FlushTrs ==
    /\ Responsive /\ Clock >= nextFlush
    /\ nextFlush' = nextFlush + TransactionFlushInterval * ((Clock - nextFlush) \div TransactionFlushInterval + 1)
    /\ resets' = Remembered(Append(resets, Clock), Clock)
    /\ IF Len(resets') > MaxResets
       THEN ioloop' = "killed" /\ UNCHANGED <<alarm, lastReset, metrics, made, accepted, emitterVars>>
       ELSE /\ alarm' = tick + AlarmDelay /\ lastReset' = tick
            /\ UNCHANGED ioloop
            /\ \/ UNCHANGED <<metrics, made, accepted, emitterVars>>
               \/ /\ metrics # <<>> /\ metrics' = <<>>
                  /\ accepted' = Append(accepted, OfPoints(metrics))
                  /\ made' = Transactions(OfPoints(metrics), "intake")
                  /\ Enqueue(OfPoints(metrics))
    /\ UNCHANGED <<clockVars, refused, points, graphite, toRead>>

\* The signal is handled between two steps of Python code, not in a call: it waits for
\* the end of the call.
AlarmRings ==
    /\ ioloop # "killed" /\ tick >= alarm
    /\ ioloop' = "killed"
    /\ UNCHANGED <<clockVars, watchVars, inputVars, metrics, made, emitterVars>>

(***************************************************************************)
(* The environment                                                         *)
(***************************************************************************)
\* A loop that is not stuck is not late.
TimePasses ==
    /\ tick < LastTick /\ ioloop # "killed"
    /\ ioloop # "in a call" => tick < alarm
    /\ Responsive => Clock < nextFlush
    /\ tick' = tick + 1
    /\ UNCHANGED <<setBack, ioloop, watchVars, inputVars, metrics, made, emitterVars>>

GetsStuck ==
    /\ Responsive /\ ioloop' \in {"stuck", "in a call"}
    /\ UNCHANGED <<clockVars, watchVars, inputVars, metrics, made, emitterVars>>

Resumes ==
    /\ ioloop \in {"stuck", "in a call"} /\ tick < alarm /\ ioloop' = "running"
    /\ UNCHANGED <<clockVars, watchVars, inputVars, metrics, made, emitterVars>>

ClockSetBack ==
    /\ setBack = 0 /\ setBack' \in 1..MaxSetBack
    /\ UNCHANGED <<tick, ioloop, watchVars, inputVars, metrics, made, emitterVars>>

IntakeNext ==
    \/ \E r \in Intakes : PostRequest(r)
    \/ \E e \in Emitters : EmitterTakes(e) \/ EmitterDone(e)
    \/ ReadGraphite \/ FlushTrs \/ AlarmRings
    \/ TimePasses \/ GetsStuck \/ Resumes \/ ClockSetBack

IntakeSpec == IntakeInit /\ [][IntakeNext]_intakeVars

----
CountMade(what, e) == Cardinality({i \in DOMAIN made : made[i].what = what /\ made[i].endpoint = e})
\* Where a point is: still to be posted, or in the n-th packet.
PlacesIn(n, list, p) == {<<n, i>> : i \in {j \in DOMAIN list : list[j] = p}}
PlacesOf(p) == PlacesIn(0, metrics, p) \cup UNION {PlacesIn(n, accepted[n].points, p) : n \in DOMAIN accepted}
\* What an emitter was given, has or will take, and the packets it had room for.
Taken(e) == handed[e] \o emitting[e] \o emitterQueue[e]
RoomFor(e) == {i \in DOMAIN accepted : accepted[i] \notin overflowed[e]}
Place(i, S) == Cardinality({j \in S : j <= i})

\* Nothing that was accepted is lost or sent twice before its transactions exist: each
\* request has one transaction for each endpoint and key and no refused one has any,
\* each point is either still to be posted or in the transactions of one post; and each
\* emitter gets the packets in order, but those it had no room for (stsagent.py:88-116,
\* AgentTransaction.__init__, _postMetrics; graphite.py).
IntakeAccounted ==
    /\ \A i \in DOMAIN accepted, e \in IntakeEndpoints : CountMade(accepted[i], e) = 1
    /\ \A i \in DOMAIN made : made[i].what \notin refused
    /\ \A p \in 1..points : Cardinality(PlacesOf(p)) = 1
    /\ \A e \in Emitters :
          /\ Len(Taken(e)) = Cardinality(RoomFor(e))
          /\ \A i \in RoomFor(e) : Taken(e)[Place(i, RoomFor(e))] = accepted[i]

\* The watchdog kills a process whose flush has not come for the delay, as it was held up
\* or its clock was set back, and no other one; one that is held up for longer is dead,
\* unless it is in a call that does not return (WatchdogPosix.reset).
KilledIfStuck ==
    /\ ioloop = "killed" => tick - lastReset >= AlarmDelay
    /\ tick - lastReset > AlarmDelay => ioloop \in {"killed", "in a call"}

\* What the process takes in is passed on, as long as the watchdog lets it, which
\* ends a process only for a reason (Application of stsagent.py).
IntakeSound == IntakeAccounted /\ KilledIfStuck
====
