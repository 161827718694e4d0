\* The docker check and the agent metrics check, each valid, broken or absent.
SPECIFICATION FairSpec
CONSTANTS
    Names = {"d", "m"}
    AgentMetrics = "m"
    DockerCheck = "d"
    MaxEdits = 2
    MaxSignals = 2
INVARIANTS
    ChecksSound
PROPERTIES
    SignalsObeyed
\* The agent may exit, restart or crash.
CHECK_DEADLOCK FALSE
