--------------------------- MODULE ForwarderOutbox ---------------------------
(***************************************************************************)
(* The forwarder implements an Outbox.  A transaction is queued while it   *)
(* is in the queue or only in the list of the flush in progress (the queue *)
(* may have evicted it since), sending while its request is out, settled   *)
(* once a request or the retries decided of it; it is lost if it was       *)
(* evicted and is nowhere else.                                            *)
(***************************************************************************)
EXTENDS Forwarder

StatusOf(t) ==
    IF t > counter THEN "unknown"
    ELSE IF t \in inFlight THEN "sending"
    ELSE IF t \in Settled THEN "settled"
    ELSE IF t \in transactions \cup ToFlush THEN "queued"
    ELSE "lost"

outbox == INSTANCE Outbox WITH
    Messages <- Ids,
    Slots <- MaxParallelism,
    status <- [t \in Ids |-> StatusOf(t)]

\* Every step of the transaction manager is a step of an outbox or leaves it
\* unchanged: a message is never invented, sent by two requests at once, sent
\* on more requests than allowed, or sent again once it is settled or lost.
ImplementsOutbox == outbox!Spec

\* Every transaction that append() puts in the queue ends up delivered, refused,
\* given up or evicted: no failure, delay or full queue leaves it there for ever.
OutboxSettles == outbox!Settles

\* That, and a flush that began ends, so that the queue is never blocked for good.
EverythingSettles == OutboxSettles /\ FlushEnds

\* A transaction is lost only because append() lacked room for another: a flush
\* that is deferred, aborted or spares an endpoint loses nothing of the queue.
LostOnlyIfEvicted == \A t \in Ids : StatusOf(t) = "lost" => t \in evicted
=============================================================================
