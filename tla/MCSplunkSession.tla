---------------------------- MODULE MCSplunkSession ----------------------------
(* Instances of SplunkSession for TLC. *)
EXTENDS SplunkSession

\* A search configured by name, and two patterns, both of which match m.
SearchPatterns == <<{"n", "m"}, {"m"}>>

\* The first token never expires, or soon.
Unlimited == {-1}
UnlimitedOrSoon == {-1, 1}
===============================================================================
