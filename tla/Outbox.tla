-------------------------------- MODULE Outbox --------------------------------
(***************************************************************************)
(* What the transaction manager of the forwarder promises, whatever its    *)
(* queue, throttling, retries and timers do: a message accepted is sent by *)
(* one request at a time, on at most `Slots' requests in all, until it is  *)
(* settled (taken, refused or given up) or lost (dropped to make room);    *)
(* a settled message is never sent again and a lost one never comes back.  *)
(***************************************************************************)
EXTENDS Naturals, FiniteSets

CONSTANTS
    Messages,   \* the messages that may be handed over
    Slots       \* how many requests may be out at once

VARIABLE status \* where each message is

States == {"unknown", "queued", "sending", "settled", "lost"}

In(st) == {m \in Messages : status[m] = st}

\* The messages of S go to state st, each from the state `from'.
Move(S, from, st) ==
    /\ S \subseteq In(from)
    /\ status' = [m \in Messages |-> IF m \in S THEN st ELSE status[m]]

Init == status = [m \in Messages |-> "unknown"]

Accept == \E m \in Messages : Move({m}, "unknown", "queued")

Send ==
    /\ Cardinality(In("sending")) < Slots
    /\ \E m \in Messages : Move({m}, "queued", "sending")

\* Messages that are queued may be dropped, several at once.
Drop == \E S \in SUBSET Messages : Move(S, "queued", "lost")

\* A message that no request can carry is given up once tried too often.
GiveUp == \E m \in Messages : Move({m}, "queued", "settled")

\* A request ends: its message is settled, or queued again, or lost if it was
\* dropped meanwhile.  Other messages dropped meanwhile may be lost with it.
Answer ==
    \E m \in In("sending"), S \in SUBSET In("queued"),
       st \in {"queued", "settled", "lost"} :
        status' = [n \in Messages |-> IF n = m THEN st
                                      ELSE IF n \in S THEN "lost"
                                      ELSE status[n]]

Next == Accept \/ Send \/ Drop \/ GiveUp \/ Answer

Spec == Init /\ [][Next]_status

-----------------------------------------------------------------------------

\* Every message accepted ends up settled or lost: none waits for ever.
Settles ==
    \A m \in Messages : status[m] = "queued" ~> status[m] \in {"settled", "lost"}
=============================================================================
