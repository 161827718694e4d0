-------------------------- MODULE MCSplunkTelemetry --------------------------
(* Instances of SplunkTelemetry for TLC. *)
EXTENDS SplunkTelemetry

\* Two events of the same second, and one of the next.
EventsOfOne == {[search |-> "s", time |-> 6, key |-> 1],
                [search |-> "s", time |-> 6, key |-> 2],
                [search |-> "s", time |-> 7, key |-> 1]}

\* One search whose history is cut short, where everything may go wrong but what
\* TwoJobs is about.
Faulty ==
    [searches |-> <<"s">>, parallel |-> 1, initialDelay |-> 1,
     initialHistory |-> 1, restartHistory |-> 3, chunk |-> 1,
     ignoreErrors |-> TRUE, end |-> 8,
     faults |-> AllFaults \ {"finalize", "dispatch"}]

\* One search with all its history, where what it read may not arrive.
LongHistory ==
    [searches |-> <<"s">>, parallel |-> 1, initialDelay |-> 1,
     initialHistory |-> 6, restartHistory |-> 6, chunk |-> 2,
     ignoreErrors |-> TRUE, end |-> 9,
     faults |-> {"emit", "uncommitted", "restart", "crash"}]

\* Two searches whose jobs run at the same time, and no event for them.
TwoJobs ==
    [searches |-> <<"t", "u">>, parallel |-> 2, initialDelay |-> 0,
     initialHistory |-> 1, restartHistory |-> 3, chunk |-> 1,
     ignoreErrors |-> FALSE, faults |-> AllFaults, end |-> 6]

AllConfigurations ==
    {Faulty, LongHistory, TwoJobs, [TwoJobs EXCEPT !.ignoreErrors = TRUE]}

\* The history is read in one chunk, and payloads or searches fail.
Unreliable == [LongHistory EXCEPT !.initialDelay = 0, !.end = 8,
                                  !.faults = {"emit", "search"}]
UnreliableOnly == {Unreliable}
=============================================================================
