---------------------------- MODULE MCConfigStore ----------------------------
(* Values for the constants of ConfigStore. *)
EXTENDS ConfigStore, TLC

\* An image with a tag and the same without: auto_conf files name the latter.
MCIdent    == "redis:3" :> "redis" @@ "redis" :> "redis"
MCAutoConf == "redis:3" :> {} @@ "redis" :> {"redisdb"}
MCIdOf     == "c1" :> "redis:3"
\* The second revision configures another check, the third the first one again.
MCCheckOf  == 1 :> "redisdb" @@ 2 :> "tcp" @@ 3 :> "redisdb"
===============================================================================
