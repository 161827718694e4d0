-------------------------------- MODULE MCSplunk --------------------------------
(* The two parts of what a Splunk check keeps: how far its searches were read,  *)
(* and its token and its list of searches.  A behaviour is one of one of them,  *)
(* and the other stays in an initial state.                                     *)
EXTENDS MCSplunkTelemetry, MCSplunkSession

VARIABLE component

FirstConfiguration == CHOOSE c \in Configurations : TRUE

MCInit ==
    /\ component \in {"telemetry", "session"}
    /\ Init /\ (component = "session" => conf = FirstConfiguration /\ indexed = {})
    /\ SessionInit

MCNext ==
    /\ UNCHANGED component
    /\ IF component = "telemetry" THEN Next ELSE UNCHANGED vars
    /\ IF component = "session" THEN SessionNext ELSE UNCHANGED splunkVars

MCSpec == MCInit /\ [][MCNext]_<<component, vars, splunkVars>>

=================================================================================
