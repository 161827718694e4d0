----------------------------- MODULE MCForwarder -----------------------------
(* Instances of Forwarder and of its refinement of Outbox for TLC. *)
EXTENDS ForwarderOutbox, TLC

CONSTANTS e1, e2, k1

OneTarget == {<<e1, k1>>}
TwoTargets == {<<e1, k1>>, <<e2, k1>>}

\* The two endpoints are interchangeable: each has the one API key.
EndpointSymmetry == Permutations({e1, e2})
=============================================================================
