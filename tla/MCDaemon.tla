------------------------------- MODULE MCDaemon -------------------------------
(* How the agent is run: by its supervisor (daemon.py), or by the Windows      *)
(* service, which first moves the settings of the registry.  These share no    *)
(* state: a behaviour is one of one of them, and the other stays in an initial *)
(* state.                                                                      *)
EXTENDS Daemon, WinService, TLC

VARIABLE component

processVars == <<component, vars, winVars>>

\* The settings are moved with any registry; the service then starts with an empty one.
MCInit ==
    /\ component \in {"daemon", "settings", "service"}
    /\ Init
    /\ WinInit /\ (component # "settings" => registry = [a \in AttributeNames |-> "missing"])

MCNext ==
    /\ UNCHANGED component
    /\ IF component = "daemon" THEN Next ELSE UNCHANGED vars
    /\ CASE component = "settings" -> Configuring
         [] component = "service" -> WinNext
         [] OTHER -> UNCHANGED winVars

\* The fairness of each specification, for the component of the behaviour.
MCSpec ==
    /\ MCInit /\ [][MCNext]_processVars
    /\ \A p \in Pids : WF_vars(component = "daemon" /\ (SupervisorStep(p) \/ AgentStep(p)))
    /\ \A c \in Commands : WF_vars(component = "daemon" /\ CommandStep(c))
    /\ WF_winVars(component = "service" /\ ServiceStep)
    /\ WF_winVars(component = "service" /\ StopStep)

-------------------------------------------------------------------------------
\* Daemon: a supervised agent in the foreground, and a restart.
ForegroundThenRestart == "first" :> "foreground" @@ "second" :> "restart"

\* WinService: the collector, and the runner of JMXFetch with its java.
TwoProcs == <<"collector", "jmxfetch">>
OneRestart == [n \in {"collector", "jmxfetch"} |-> 1]
KeyAndName == <<"api_key", "hostname">>
===============================================================================
