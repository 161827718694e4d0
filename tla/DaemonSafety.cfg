SPECIFICATION MCSpec
CONSTANTS
    \* A supervised agent in the foreground, and a restart.
    Commands = {"first", "second"}
    CommandOf <- ForegroundThenRestart
    AutoRestart = TRUE
    MaxPid = 6
    MaxEnds = 2
    MaxTerms = 1
    \* Two processes of the service that may be restarted once each in a second.
    Procs <- TwoProcs
    JmxProc = "jmxfetch"
    NotEnabled = {}
    MaxRestarts <- OneRestart
    Timeframe = 0
    Attributes <- KeyAndName
    Lines = {"api_key", "hostname"}
    MaxTime = 1
    MaxFaults = 2
PROPERTIES
    OneAgent
    Supervised
    ServiceSound
\* An agent that runs, and no command to come, is the end of a behaviour.
CHECK_DEADLOCK FALSE
