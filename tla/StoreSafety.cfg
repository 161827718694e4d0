\* A container of a tagged image, whose template is published up to three times.
SPECIFICATION FairSpec
CONSTANTS
    Ids = {"redis:3", "redis"}
    Ident <- MCIdent
    Published = {"redis:3"}
    Checks = {"redisdb", "tcp"}
    AutoConf <- MCAutoConf
    Containers = {"c1"}
    IdOf <- MCIdOf
    MaxRevisions = 3
    CheckOf <- MCCheckOf
    Removals = TRUE
    MaxFailures = 1
INVARIANTS
    CacheFollowsStore
    OneSource

    
