---- MODULE SplunkSession ----
(***************************************************************************)
(* How a Splunk check with token authentication gets its session, its list *)
(* of searches and their positions: token_auth_session() of                *)
(* splunk_helper.py, SavedSearches of splunk.py, and the status file that  *)
(* the token shares with the positions of the searches.  What a search     *)
(* reads is in SplunkTelemetry.                                            *)
(***************************************************************************)
EXTENDS Integers, FiniteSets, Sequences, FiniteSetsExt

CONSTANTS
    NamedSearches,      \* names of the searches configured by "name"
    ServerSearches,     \* names that Splunk may list
    Patterns,           \* for each search configured by "match", the names it matches
    ExpirationDays,     \* token_expiration_days
    RenewalDays,        \* renewal_days
    InitialExpiries,    \* when the first initial_token may expire: a day, or -1 for never
    IgnoreErrors,       \* ignore_saved_search_errors
    LastDay,            \* bound on the days
    MaxTokens,          \* bound on the tokens
    MaxRestarts         \* bound on the restarts

ASSUME SessionAssumption ==
    /\ IsFiniteSet(NamedSearches) /\ IsFiniteSet(ServerSearches)
    /\ Patterns \in Seq(SUBSET ServerSearches)
    /\ {ExpirationDays, RenewalDays, LastDay, MaxTokens, MaxRestarts} \subseteq Nat
    /\ InitialExpiries \subseteq Nat \cup {-1}
    /\ IgnoreErrors \in BOOLEAN

VARIABLES
    day,
    expiry,         \* day on which each token expires, or Never
    yamlToken,      \* initial_token
    status,         \* SplunkTelemetryBase.status: [token, positions]
    file,           \* what it is on disk
    bearer,         \* the token of the Authorization header
    found,          \* SavedSearches.searches: [name, by], by the pattern or 0
    ranOnce,        \* searches that ran since their SavedSearch was made
    sessionPc,      \* "idle", "create", "made", "open", "dump", "list", "run" or "commit"
    after,          \* where persist() returns to
    lastRun,        \* outcome of the last check: "none", "ok", "error" or "expired"
    restarts,
    listed,         \* history: names in the last list, if the check has one
    everListed,     \* history: the check has got a list since it was made
    persisted,      \* history: a token was written on disk
    committedOnce,  \* history: searches whose positions were written on disk
    delisted,       \* history: ... that were not on a later list
    neverRan,       \* history: ... that were committed without having run or been found
    cut             \* history: a write did not reach its end

sessionVars == <<status, file, bearer, found, ranOnce, sessionPc, after, lastRun>>
sessionHistory == <<listed, everListed, persisted, committedOnce, delisted, neverRan, cut>>
splunkVars == <<day, expiry, yamlToken, sessionVars, restarts, sessionHistory>>

Never == -1
NoToken == 0
Unknown == [n \in NamedSearches \cup ServerSearches |-> "none"]
NoStatusYet == [token |-> NoToken, positions |-> Unknown]
NamedOnly == {[name |-> n, by |-> 0] : n \in NamedSearches}
FoundNames == {s.name : s \in found}

SessionInit ==
    /\ day = 0 /\ expiry \in {<<e>> : e \in InitialExpiries} /\ yamlToken = 1
    /\ status = NoStatusYet /\ file = NoStatusYet
    /\ bearer = NoToken /\ found = NamedOnly /\ ranOnce = {}
    /\ sessionPc = "idle" /\ after = "idle" /\ lastRun = "none" /\ restarts = 0
    /\ listed = {} /\ everListed = FALSE /\ persisted = FALSE
    /\ committedOnce = {} /\ delisted = {} /\ neverRan = {} /\ cut = FALSE

DayPasses ==
    /\ day < LastDay /\ day' = day + 1
    /\ UNCHANGED <<expiry, yamlToken, sessionVars, restarts, sessionHistory>>

\* The agent stops or dies, and starts again, perhaps with a new token in the YAML.
RestartSession ==
    /\ restarts < MaxRestarts /\ restarts' = restarts + 1
    /\ \/ UNCHANGED <<expiry, yamlToken>>
       \/ /\ Len(expiry) < MaxTokens
          /\ expiry' = Append(expiry, day + ExpirationDays)
          /\ yamlToken' = Len(expiry) + 1
    /\ status' = file /\ bearer' = NoToken
    /\ found' = NamedOnly /\ ranOnce' = {}
    /\ sessionPc' = "idle" /\ after' = "idle" /\ lastRun' = "none"
    /\ everListed' = FALSE
    /\ cut' = (cut \/ sessionPc = "dump")
    /\ UNCHANGED <<day, file, listed, persisted, committedOnce, delisted, neverRan>>

(***************************************************************************)
(* SplunkHelper.token_auth_session()                                       *)
(***************************************************************************)
IsInitial == status.token = NoToken
TokenInUse == IF IsInitial THEN yamlToken ELSE status.token
TokenExpired == expiry[TokenInUse] # Never /\ expiry[TokenInUse] < day
NeedsRenewal ==
    \/ IsInitial
    \/ expiry[TokenInUse] - day <= RenewalDays

\* The exception for a token that has expired does not leave the check, nor does
\* another one if errors are ignored: both runs are committed.
Fails(how) ==
    /\ lastRun' = how
    /\ sessionPc' = IF how = "expired" \/ IgnoreErrors THEN "commit" ELSE "idle"

StartSession ==
    /\ sessionPc = "idle"
    /\ IF TokenExpired THEN Fails("expired") /\ UNCHANGED bearer
       ELSE /\ bearer' = TokenInUse
            /\ sessionPc' = IF NeedsRenewal THEN "create" ELSE "list"
            /\ UNCHANGED lastRun
    /\ UNCHANGED <<day, expiry, yamlToken, status, file, found, ranOnce, after, restarts, sessionHistory>>

\* Splunk makes the token; the agent dies before it has it if it restarts now.
MakeToken ==
    /\ sessionPc = "create"
    /\ Len(expiry) < MaxTokens
    /\ expiry[bearer] = Never \/ expiry[bearer] >= day
    /\ expiry' = Append(expiry, day + ExpirationDays)
    /\ sessionPc' = "made"
    /\ UNCHANGED <<day, yamlToken, status, file, bearer, found, ranOnce, after, lastRun, restarts, sessionHistory>>

TokenRefused ==
    /\ sessionPc = "create"
    /\ Fails("error")
    /\ UNCHANGED <<day, expiry, yamlToken, status, file, bearer, found, ranOnce, after, restarts, sessionHistory>>

UpdateTokenMemory ==
    /\ sessionPc = "made"
    /\ status' = [status EXCEPT !.token = Len(expiry)]
    /\ bearer' = Len(expiry)
    /\ sessionPc' = "open" /\ after' = "list"
    /\ UNCHANGED <<day, expiry, yamlToken, file, found, ranOnce, lastRun, restarts, sessionHistory>>

(***************************************************************************)
(* AgentStatus.persist(): the file is emptied and then written.  An error  *)
(* is only logged, and an empty file reads as no status at all.            *)
(***************************************************************************)
OpenFile ==
    /\ sessionPc = "open"
    /\ \/ sessionPc' = "dump" /\ file' = NoStatusYet
       \/ sessionPc' = after /\ UNCHANGED file
    /\ UNCHANGED <<day, expiry, yamlToken, status, bearer, found, ranOnce, after, lastRun, restarts, sessionHistory>>

Dump ==
    /\ sessionPc = "dump"
    /\ sessionPc' = after
    /\ \/ /\ file' = status
          /\ persisted' = (persisted \/ status.token # NoToken)
          /\ committedOnce' = committedOnce \cup {n \in DOMAIN Unknown : status.positions[n] # "none"}
          /\ UNCHANGED cut
       \/ cut' = TRUE /\ UNCHANGED <<file, persisted, committedOnce>>
    /\ UNCHANGED <<day, expiry, yamlToken, status, bearer, found, ranOnce, after, lastRun, restarts,
                   listed, everListed, delisted, neverRan>>

(***************************************************************************)
(* saved_searches(), SavedSearches.update_searches()                       *)
(***************************************************************************)
StillThere(names) == {s \in found : s.by = 0 \/ s.name \in names}
\* Mutant: searches that Splunk does not list any more are kept.
NothingDropped(names) == found
Kept(names) == StillThere(names)

MatchingPatterns(n) == {i \in DOMAIN Patterns : n \in Patterns[i]}
Added(names) ==
    {[name |-> n, by |-> Min(MatchingPatterns(n))] :
        n \in {m \in names \ {s.name : s \in Kept(names)} : MatchingPatterns(m) # {}}}

\* Then the status is read again from the disk.
ListSearches ==
    /\ sessionPc = "list"
    /\ \E names \in SUBSET ServerSearches :
          /\ listed' = names
          /\ found' = Kept(names) \cup Added(names)
          /\ delisted' = delisted \cup {n \in committedOnce \ NamedSearches : n \notin names}
          /\ ranOnce' = ranOnce \cap {s.name : s \in Kept(names)}
    /\ everListed' = TRUE
    /\ status' = file
    /\ sessionPc' = "run"
    /\ UNCHANGED <<day, expiry, yamlToken, file, bearer, after, lastRun, restarts, persisted, committedOnce,
                   neverRan, cut>>

ListFails ==
    /\ sessionPc = "list"
    /\ Fails("error")
    /\ UNCHANGED <<day, expiry, yamlToken, status, file, bearer, found, ranOnce, after, restarts, sessionHistory>>

RunSearches ==
    /\ sessionPc = "run"
    /\ \E ran \in SUBSET FoundNames :
          /\ ranOnce' = ranOnce \cup ran
          /\ IF FoundNames # {} /\ ran = {} THEN Fails("error") ELSE lastRun' = "ok" /\ sessionPc' = "commit"
    /\ UNCHANGED <<day, expiry, yamlToken, status, file, bearer, found, after, restarts, sessionHistory>>

(***************************************************************************)
(* commit_succeeded(): the positions of the searches there are now.  One   *)
(* that has not run since it was made has got to 0 - 1.                    *)
(***************************************************************************)
CommitPositions ==
    /\ sessionPc = "commit"
    /\ status' = [status EXCEPT !.positions =
                    [n \in DOMAIN Unknown |-> IF n \notin FoundNames THEN "none"
                                              ELSE IF n \in ranOnce THEN "read" ELSE "minus one"]]
    /\ neverRan' = neverRan \cup (FoundNames \ ranOnce) \cup (IF everListed THEN {} ELSE committedOnce \ FoundNames)
    /\ sessionPc' = "open" /\ after' = "idle"
    /\ UNCHANGED <<day, expiry, yamlToken, file, bearer, found, ranOnce, lastRun, restarts,
                   listed, everListed, persisted, committedOnce, delisted, cut>>

NotCommitted ==
    /\ sessionPc = "commit" /\ sessionPc' = "idle"
    /\ UNCHANGED <<day, expiry, yamlToken, status, file, bearer, found, ranOnce, after, lastRun, restarts, sessionHistory>>

SessionNext ==
    \/ DayPasses \/ RestartSession
    \/ StartSession \/ MakeToken \/ TokenRefused \/ UpdateTokenMemory
    \/ OpenFile \/ Dump
    \/ ListSearches \/ ListFails \/ RunSearches
    \/ CommitPositions \/ NotCommitted

SessionSpec == SessionInit /\ [][SessionNext]_splunkVars

----
\* What the check relies on from one run to the next.  It presents the token of the
\* YAML again, once it has written one of its own, only if a write was cut short, and
\* asks for the list with one it has made.  The searches are those configured by name
\* and those of the last list that a pattern matches, each once and by the first
\* pattern.  A search that was committed has a position on disk unless it was missing
\* from a later list, a run that had no list since the agent started was committed, or
\* a write was cut short; and the position it has got to unless it was committed before
\* it had run (token_auth_session, SavedSearches.update_searches, commit_succeeded).
SessionKept ==
    /\ sessionPc \in {"create", "made"} /\ bearer = yamlToken => ~persisted \/ cut
    /\ sessionPc \in {"list", "run"} => bearer # NoToken /\ bearer # yamlToken
    /\ everListed =>
        /\ FoundNames = NamedSearches \cup {n \in listed : MatchingPatterns(n) # {}}
        /\ \A s, t \in found : s.name = t.name => s = t
        /\ \A s \in found : IF s.name \in NamedSearches THEN s.by = 0 ELSE s.by = Min(MatchingPatterns(s.name))
    /\ sessionPc # "dump" /\ ~cut =>
        \A n \in committedOnce :
            /\ file.positions[n] = "none" => n \in delisted \cup neverRan
            /\ file.positions[n] = "minus one" => n \in neverRan

\* splunk_helper.py:113: "Current in use authentication token is expired. Please
\* provide a valid token in the YAML and restart the Agent".
NewTokenIsUsed == lastRun = "expired" => expiry[yamlToken] # Never /\ expiry[yamlToken] < day
====
