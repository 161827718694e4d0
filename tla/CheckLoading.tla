---- MODULE CheckLoading ----
(***************************************************************************)
(* How checks are found and made (config.py): load_check_directory() goes  *)
(* over all configurations, load_check() over those of one name.  Agent    *)
(* has what the collector does with the result.                            *)
(***************************************************************************)
EXTENDS Naturals, Sequences, FiniteSets, SequencesExt

CONSTANTS
    LoadNames,      \* names of checks
    Nagios,         \* the check that old keys of stackstate.conf may configure
    JmxNames,       \* JMX_CHECKS
    NPlaces,        \* get_checks_places(): additional_checksd, the SDK, checks.d
    Disks          \* what may be on disk and in service discovery, per name

ASSUME LoadAssumption ==
    /\ IsFiniteSet(LoadNames) /\ Nagios \in LoadNames /\ JmxNames \subseteq LoadNames
    /\ NPlaces \in Nat \ {0}
    \* Per name: conf.d/<name>.yaml, its .default, the template of service
    \* discovery, what each place holds, and if an old key configures the check.
    /\ \A w \in Disks : \A n \in LoadNames :
          /\ w[n].yaml \in {"none", "valid", "invalid"}
          /\ w[n].default \in {"none", "valid", "invalid"}
          /\ w[n].discovered \in BOOLEAN /\ w[n].oldKeys \in BOOLEAN
          /\ w[n].places \in
                [1..NPlaces -> {"nothing", "no class", "import error", "init error", "class"}]

VARIABLES
    disk,           \* the world this load finds
    loadPc,         \* "files", "discovery", "deprecated" or "loaded"
    paths,          \* configuration files still to be loaded: [name, kind]
    discovered,     \* configurations of service discovery still to be loaded
    initialized,    \* initialized_checks: where each check comes from
    initFailed      \* init_failed_checks: the reason, or None

loadVars == <<disk, loadPc, paths, discovered, initialized, initFailed>>

NoCheck == [source |-> "none", place |-> 0]
Nothing == [check |-> NoCheck, failure |-> "none"]

(***************************************************************************)
(* load_check_from_places(): [check, failure]                              *)
(***************************************************************************)
\* A place without the file is passed over, as is one without a valid class; the
\* first with a class is the last that is tried, even if the check does not start.
Files(n) == {p \in 1..NPlaces : disk[n].places[p] # "nothing"}
Candidates(n) == {p \in Files(n) : disk[n].places[p] \in {"class", "init error"}}

\* A class that is found later makes up for an import error; a file without a
\* class makes it forgotten.
FromPlaces(n, source) ==
    IF Candidates(n) # {} THEN
        LET p == Min(Candidates(n))
        IN  IF disk[n].places[p] = "class"
            THEN [check |-> [source |-> source, place |-> p], failure |-> "none"]
            ELSE [check |-> NoCheck, failure |-> "init error"]
    ELSE [check |-> NoCheck,
          failure |-> IF Files(n) # {} /\ disk[n].places[Max(Files(n))] = "import error"
                      THEN "import error" ELSE "none"]

\* _load_file_config()
FromFile(path) ==
    IF path.kind = "deprecated" \/ disk[path.name][path.kind] = "valid"
    THEN FromPlaces(path.name, path.kind)
    ELSE [check |-> NoCheck, failure |-> "invalid yaml"]

(***************************************************************************)
(* _file_configs_paths()                                                   *)
(***************************************************************************)
YamlPaths == {[name |-> n, kind |-> "yaml"] : n \in {m \in LoadNames : disk[m].yaml # "none"}}
DefaultPaths ==
    {[name |-> n, kind |-> "default"] :
        n \in {m \in LoadNames : disk[m].yaml = "none" /\ disk[m].default # "none"}}

\* The test for a nagios file looks at the characters of the paths, so it never
\* finds one: with old keys this configuration comes in any case, and last.
DeprecatedPath ==
    IF disk[Nagios].oldKeys THEN <<[name |-> Nagios, kind |-> "deprecated"]>> ELSE <<>>

\* glob() has no order.
FileConfigsPaths ==
    {y \o d \o DeprecatedPath : y \in SetToSeqs(YamlPaths), d \in SetToSeqs(DefaultPaths)}

LoadInit ==
    /\ disk \in Disks
    /\ loadPc = "files"
    /\ paths \in FileConfigsPaths
    /\ discovered = {}
    /\ initialized = [n \in LoadNames |-> NoCheck]
    /\ initFailed = [n \in LoadNames |-> "none"]

(***************************************************************************)
(* load_check_directory()                                                  *)
(***************************************************************************)
Update(n, result) ==
    /\ initialized' =
          IF result.check = NoCheck THEN initialized ELSE [initialized EXCEPT ![n] = result.check]
    /\ initFailed' =
          IF result.failure = "none" THEN initFailed ELSE [initFailed EXCEPT ![n] = result.failure]

LoadFile ==
    /\ loadPc = "files" /\ paths # <<>>
    /\ Update(Head(paths).name, FromFile(Head(paths)))
    /\ paths' = Tail(paths)
    /\ UNCHANGED <<disk, loadPc, discovered>>

\* _service_disco_configs()
FetchDiscovered ==
    /\ loadPc = "files" /\ paths = <<>>
    /\ loadPc' = "discovery"
    /\ discovered' = {n \in LoadNames : disk[n].discovered}
    /\ UNCHANGED <<disk, paths, initialized, initFailed>>

\* Fetching them raises: the checks of service discovery are left out.
FetchRaises ==
    /\ loadPc = "files" /\ paths = <<>>
    /\ loadPc' = "discovery"
    /\ UNCHANGED <<disk, paths, discovered, initialized, initFailed>>

FromFileConfig(n) == initialized[n] # NoCheck \/ initFailed[n] # "none" \/ n \in JmxNames
\* Mutant: only a check that runs keeps its file configuration.
FromRunningFile(n) == initialized[n] # NoCheck \/ n \in JmxNames
Ignored(n) == FromFileConfig(n)

LoadDiscovered(n) ==
    /\ loadPc = "discovery" /\ n \in discovered
    /\ IF Ignored(n) THEN UNCHANGED <<initialized, initFailed>>
       ELSE Update(n, FromPlaces(n, "discovery"))
    /\ discovered' = discovered \ {n}
    /\ UNCHANGED <<disk, loadPc, paths>>

\* _deprecated_configs(): an old key is reported as a failure, whatever was loaded.
FinishLoad ==
    /\ loadPc = "discovery" /\ discovered = {}
    /\ loadPc' = "loaded"
    /\ initFailed' = [n \in LoadNames |->
                        IF disk[n].oldKeys /\ n # Nagios THEN "deprecated" ELSE initFailed[n]]
    /\ UNCHANGED <<disk, paths, discovered, initialized>>

LoadNext ==
    \/ LoadFile \/ FetchDiscovered \/ FetchRaises \/ FinishLoad
    \/ \E n \in LoadNames : LoadDiscovered(n)

LoadSpec == LoadInit /\ [][LoadNext]_loadVars

(***************************************************************************)
(* load_check(): the first file with the name decides, then service        *)
(* discovery.  "raises" is the [0] of the checks when there is none.       *)
(***************************************************************************)
FilesOf(n) ==
    IF n \in JmxNames THEN <<>>
    ELSE (IF disk[n].yaml # "none" THEN <<[name |-> n, kind |-> "yaml"]>>
          ELSE IF disk[n].default # "none" THEN <<[name |-> n, kind |-> "default"]>> ELSE <<>>)
         \o (IF n = Nagios THEN DeprecatedPath ELSE <<>>)

LoadRaises == [check |-> NoCheck, failure |-> "raises"]
LoadCheck(n) ==
    IF FilesOf(n) # <<>> THEN
        LET result == FromFile(Head(FilesOf(n)))
        IN  IF result.check # NoCheck \/ result.failure = "invalid yaml" THEN result ELSE LoadRaises
    ELSE IF disk[n].discovered THEN FromPlaces(n, "discovery")
    ELSE Nothing

----
Found(n) == [check |-> initialized[n], failure |-> initFailed[n]]
InConfd(n) == disk[n].yaml # "none" \/ disk[n].default # "none"

\* One load: a name is both loaded and failed only for its old keys, and what
\* service discovery says is used only for a name without a file in conf.d.  Such a
\* name is neither loaded nor failed only if no class was found for it.
LoadedOnce ==
    \A n \in LoadNames :
        /\ initialized[n] # NoCheck /\ initFailed[n] # "none" => disk[n].oldKeys
        /\ initialized[n].source = "discovery" => ~InConfd(n)
        /\ loadPc = "loaded" /\ InConfd(n) /\ Found(n) = Nothing => Candidates(n) = {}

\* Two loads: a partial reload finds for a name what the full load found, unless it
\* has old keys or is one of JMX; for a check that does not start it may raise, and
\* the full load may not have seen service discovery.
ReloadAgrees ==
    \A n \in LoadNames :
        loadPc = "loaded" /\ ~disk[n].oldKeys /\ n \notin JmxNames =>
            \/ LoadCheck(n) = Found(n)
            \/ LoadCheck(n) = LoadRaises /\ initialized[n] = NoCheck
            \/ disk[n].discovered /\ ~InConfd(n) /\ Found(n) = Nothing

\* Every load gives a check one configuration, and every load the same.
LoadSound == LoadedOnce /\ ReloadAgrees
====
