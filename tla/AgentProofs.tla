------------------------------ MODULE AgentProofs ------------------------------
(***************************************************************************)
(* Theorems about Agent, for any checks and any number of changes and      *)
(* signals, and about NetworkCheck, for any number of instances, threads,  *)
(* failures and reloads.                                                   *)
(***************************************************************************)
EXTENDS Agent, NetworkCheck, FiniteSetTheorems, SequenceTheorems, TLAPS

CheckRecord == [name : Names, usable : BOOLEAN, stopped : BOOLEAN]

Distinct(s) == \A i, j \in 1..Len(s) : s[i].name = s[j].name => i = j

-----------------------------------------------------------------------------
(* Lists of checks *)

LEMMA ChecksLoaded ==
    ASSUME NEW n \in Names
    PROVE  /\ Loaded(n) \in CheckRecord /\ Loaded(n).name = n
           /\ ErrorDict(n) \in CheckRecord /\ ErrorDict(n).name = n
  BY DEF Loaded, ErrorDict, CheckRecord

LEMMA NamesOfList ==
    ASSUME NEW s, NEW n
    PROVE  n \in NamesOf(s) <=> \E i \in 1..Len(s) : s[i].name = n
  BY DEF NamesOf

\* The checks of a directory, in any order, are loaded once each.
LEMMA DirectoryLists ==
    ASSUME NEW S \in SUBSET Names, NEW s \in Directory(S)
    PROVE  s \in Seq(CheckRecord) /\ Distinct(s) /\ NamesOf(s) \subseteq S
<1>1. IsFiniteSet(S) /\ Cardinality(S) \in Nat
  BY AgentAssumption, FS_Subset, FS_CardinalityType
<1>2. PICK q \in SetToSeqs(S) : s = [i \in 1..Len(q) |-> Loaded(q[i])]
  BY DEF Directory
<1>3. /\ q \in [1..Cardinality(S) -> S]
      /\ \A i, j \in 1..Cardinality(S) : i # j => q[i] # q[j]
  BY <1>2 DEF SetToSeqs
<1>4. q \in Seq(S) /\ Len(q) = Cardinality(S)
  BY <1>1, <1>3
<1>5. /\ s \in Seq(CheckRecord) /\ Len(s) = Len(q)
      /\ \A i \in 1..Len(q) : s[i].name = q[i] /\ q[i] \in S
  <2>1. \A i \in 1..Len(q) : q[i] \in S /\ Loaded(q[i]) \in CheckRecord /\ Loaded(q[i]).name = q[i]
    BY <1>4, ChecksLoaded
  <2> QED
    BY <1>2, <1>4, <2>1
<1> QED
  BY <1>3, <1>4, <1>5, NamesOfList DEF Distinct

\* Checks may be put in the place of those of the same name.
LEMMA ListReplaced ==
    ASSUME NEW s \in Seq(CheckRecord), NEW t, t \in Seq(CheckRecord), Len(t) = Len(s),
           \A i \in 1..Len(s) : t[i].name = s[i].name
    PROVE  NamesOf(t) = NamesOf(s) /\ (Distinct(s) => Distinct(t))
<1>1. NamesOf(t) = NamesOf(s)
  BY DEF NamesOf
<1>2. Distinct(s) => Distinct(t)
  BY DEF Distinct
<1> QED
  BY <1>1, <1>2

LEMMA ListAppended ==
    ASSUME NEW s \in Seq(CheckRecord), NEW c \in CheckRecord, Distinct(s), c.name \notin NamesOf(s)
    PROVE  /\ Append(s, c) \in Seq(CheckRecord) /\ Distinct(Append(s, c))
           /\ NamesOf(Append(s, c)) = NamesOf(s) \cup {c.name}
<1> DEFINE t == Append(s, c)
<1>1. /\ t \in Seq(CheckRecord) /\ Len(t) = Len(s) + 1 /\ t[Len(s) + 1] = c
      /\ \A i \in 1..Len(s) : t[i] = s[i]
  OBVIOUS
<1>2. 1..Len(t) = 1..Len(s) \cup {Len(s) + 1}
  BY <1>1
<1> HIDE DEF t
<1>3. NamesOf(t) = NamesOf(s) \cup {c.name}
  BY <1>1, <1>2 DEF NamesOf
<1>4. \A i \in 1..Len(s) : s[i].name # c.name
  BY NamesOfList
<1>5. Distinct(t)
  BY <1>1, <1>2, <1>4 DEF Distinct
<1> QED
  BY <1>1, <1>3, <1>5 DEF t

LEMMA ListRemoved ==
    ASSUME NEW s \in Seq(CheckRecord), Distinct(s), NEW k \in 1..Len(s)
    PROVE  /\ RemoveAt(s, k) \in Seq(CheckRecord) /\ Distinct(RemoveAt(s, k))
           /\ NamesOf(RemoveAt(s, k)) = NamesOf(s) \ {s[k].name}
<1> DEFINE t == RemoveAt(s, k)
<1>1. /\ SubSeq(s, 1, k - 1) \in Seq(CheckRecord) /\ Len(SubSeq(s, 1, k - 1)) = k - 1
      /\ \A i \in 1..(k - 1) : SubSeq(s, 1, k - 1)[i] = s[i]
  OBVIOUS
<1>2. /\ SubSeq(s, k + 1, Len(s)) \in Seq(CheckRecord)
      /\ Len(SubSeq(s, k + 1, Len(s))) = Len(s) - k
      /\ \A i \in 1..(Len(s) - k) : SubSeq(s, k + 1, Len(s))[i] = s[k + i]
  OBVIOUS
<1> HIDE DEF t
<1>3. /\ t \in Seq(CheckRecord) /\ Len(t) = Len(s) - 1
      /\ \A i \in 1..(Len(s) - 1) : t[i] = IF i < k THEN s[i] ELSE s[i + 1]
  <2> DEFINE a == SubSeq(s, 1, k - 1)
             b == SubSeq(s, k + 1, Len(s))
  <2>1. a \in Seq(CheckRecord) /\ b \in Seq(CheckRecord) /\ t = a \o b
    BY <1>1, <1>2 DEF t, RemoveAt
  <2>2. Len(a) = k - 1 /\ Len(b) = Len(s) - k /\ k \in Nat /\ Len(s) \in Nat
    BY <1>1, <1>2
  <2>3. /\ \A i \in 1..(k - 1) : a[i] = s[i]
        /\ \A i \in 1..(Len(s) - k) : b[i] = s[k + i]
    BY <1>1, <1>2
  <2> HIDE DEF a, b
  <2>4. t \in Seq(CheckRecord) /\ Len(t) = Len(a) + Len(b)
    BY <2>1
  <2>5. \A i \in 1..Len(t) : t[i] = IF i <= Len(a) THEN a[i] ELSE b[i - Len(a)]
    BY <2>1
  <2>6. ASSUME NEW i \in 1..(Len(s) - 1) PROVE t[i] = IF i < k THEN s[i] ELSE s[i + 1]
    <3>1. CASE i < k
      <4>1. i \in 1..(k - 1) /\ i \in 1..Len(t) /\ i <= Len(a)
        BY <2>2, <2>4, <3>1
      <4> QED
        BY <2>3, <2>5, <3>1, <4>1
    <3>2. CASE i >= k
      <4>1. i - (k - 1) \in 1..(Len(s) - k) /\ k + (i - (k - 1)) = i + 1
        BY <2>2, <3>2
      <4>2. t[i] = b[i - (k - 1)]
        BY <2>2, <2>4, <2>5, <3>2
      <4> QED
        BY <2>2, <2>3, <3>2, <4>1, <4>2
    <3> QED
      BY <2>2, <3>1, <3>2
  <2> QED
    BY <2>2, <2>4, <2>6
<1>4. Distinct(t)
  <2> SUFFICES ASSUME NEW i \in 1..Len(t), NEW j \in 1..Len(t), t[i].name = t[j].name
               PROVE  i = j
    BY DEF Distinct
  <2> DEFINE at(m) == IF m < k THEN m ELSE m + 1
  <2>1. /\ at(i) \in 1..Len(s) /\ at(j) \in 1..Len(s)
        /\ t[i] = s[at(i)] /\ t[j] = s[at(j)]
    BY <1>3
  <2>2. at(i) = at(j)
    <3> HIDE DEF at
    <3> QED
      BY <2>1 DEF Distinct
  <2> QED
    BY <1>3, <2>2
<1>5. ASSUME NEW i \in 1..Len(s), i # k PROVE s[i].name \in NamesOf(t) \ {s[k].name}
  <2>1. s[i].name # s[k].name
    BY <1>5 DEF Distinct
  <2>2. CASE i < k
    BY <1>3, <2>1, <2>2, NamesOfList
  <2>3. CASE i > k
    <3>1. i - 1 \in 1..Len(t) /\ t[i - 1] = s[i]
      BY <1>3, <2>3
    <3> QED
      BY <2>1, <3>1, NamesOfList
  <2> QED
    BY <1>5, <2>2, <2>3
<1>6. ASSUME NEW i \in 1..Len(t) PROVE t[i].name \in NamesOf(s) \ {s[k].name}
  <2>1. i \in 1..(Len(s) - 1) /\ i \in Nat /\ Len(s) \in Nat
    BY <1>3
  <2>2. \E j \in 1..Len(s) : j # k /\ t[i] = s[j]
    <3>1. CASE i < k
      BY <1>3, <2>1, <3>1
    <3>2. CASE i >= k
      <4>1. i + 1 \in 1..Len(s) /\ i + 1 # k /\ t[i] = s[i + 1]
        BY <1>3, <2>1, <3>2
      <4> QED
        BY <4>1
    <3> QED
      BY <2>1, <3>1, <3>2
  <2>3. PICK j \in 1..Len(s) : j # k /\ t[i] = s[j]
    BY <2>2
  <2> QED
    BY <2>3, NamesOfList DEF Distinct
<1>7. \A n : n \in NamesOf(t) <=> n \in NamesOf(s) \ {s[k].name}
  BY <1>5, <1>6, NamesOfList
<1> QED
  BY <1>3, <1>4, <1>7 DEF t

-----------------------------------------------------------------------------
(* The lists of checks, in every reload and at any signal *)

\* initialized_checks and init_failed_checks partition the checks.
ListInv ==
    /\ config \in [Names -> Kinds]
    /\ checks \in Seq(CheckRecord) /\ failed \subseteq Names
    /\ Distinct(checks) /\ NamesOf(checks) \cap failed = {}

LEMMA ListInit == Init => ListInv
<1> SUFFICES ASSUME Init PROVE ListInv
  OBVIOUS
<1>1. Valid \in SUBSET Names /\ Broken \subseteq Names /\ Valid \cap Broken = {}
  BY DEF Valid, Broken
<1>2. checks \in Directory(Valid) /\ failed = Broken /\ config \in [Names -> Kinds]
  BY DEF Init
<1> QED
  BY <1>1, <1>2, DirectoryLists DEF ListInv

\* Stopping checks changes no name.
LEMMA StoppingKeeps ==
    ASSUME ListInv, StopCollector
    PROVE  /\ checks' \in Seq(CheckRecord) /\ Distinct(checks') /\ NamesOf(checks') = NamesOf(checks)
           /\ Len(checks') = Len(checks)
           /\ \A i \in 1..Len(checks) : checks'[i].name = checks[i].name
<1>1. checks \in Seq(CheckRecord) /\ Distinct(checks)
  BY DEF ListInv
<1>2. PICK known \in {{}, 1..Len(checks)} :
        checks' = [i \in 1..Len(checks) |->
                    [checks[i] EXCEPT !.stopped = @ \/ i \in known]]
  BY DEF StopCollector
<1>3. ASSUME NEW i \in 1..Len(checks)
      PROVE  checks'[i] \in CheckRecord /\ checks'[i].name = checks[i].name
  <2>1. /\ checks'[i] = [checks[i] EXCEPT !.stopped = @ \/ i \in known]
        /\ checks[i] \in CheckRecord
    BY <1>1, <1>2
  <2>2. (checks[i].stopped \/ i \in known) \in BOOLEAN
    OBVIOUS
  <2> QED
    BY <2>1, <2>2 DEF CheckRecord
<1>4. /\ checks' \in Seq(CheckRecord) /\ Len(checks') = Len(checks)
      /\ \A i \in 1..Len(checks) : checks'[i].name = checks[i].name
  <2>1. checks' \in [1..Len(checks) -> CheckRecord]
    BY <1>2, <1>3
  <2> QED
    BY <1>1, <1>3, <2>1
<1> QED
  BY <1>1, <1>4, ListReplaced

LEMMA StoppedKeeps ==
    ASSUME ListInv, NEW n \in Names
    PROVE  /\ Stopped(n) \in Seq(CheckRecord) /\ Distinct(Stopped(n))
           /\ NamesOf(Stopped(n)) = NamesOf(checks)
<1>1. checks \in Seq(CheckRecord) /\ Distinct(checks)
  BY DEF ListInv
<1>2. \A c \in CheckRecord : /\ [c EXCEPT !.stopped = TRUE] \in CheckRecord
                       /\ [c EXCEPT !.stopped = TRUE].name = c.name
  BY DEF CheckRecord
<1>3. /\ Stopped(n) \in Seq(CheckRecord) /\ Len(Stopped(n)) = Len(checks)
      /\ \A i \in 1..Len(checks) : Stopped(n)[i].name = checks[i].name
  BY <1>1, <1>2 DEF Stopped
<1> QED
  BY <1>1, <1>3, ListReplaced

\* A check that is loaded or is in error takes its place or comes last.
LEMMA PutLists ==
    ASSUME ListInv, NEW n \in Names, NEW c \in CheckRecord, c.name = n, Put(n, c)
    PROVE  /\ checks' \in Seq(CheckRecord) /\ Distinct(checks')
           /\ NamesOf(checks') = NamesOf(checks) \cup {n}
<1>1. checks \in Seq(CheckRecord) /\ Distinct(checks)
  BY DEF ListInv
<1>2. CASE Positions(n) # {}
  <2>1. checks' = [i \in 1..Len(checks) |-> IF checks[i].name = n THEN c ELSE checks[i]]
    BY <1>2 DEF Put
  <2>2. /\ checks' \in Seq(CheckRecord) /\ Len(checks') = Len(checks)
        /\ \A i \in 1..Len(checks) : checks'[i].name = checks[i].name
    BY <1>1, <2>1
  <2>3. n \in NamesOf(checks)
    BY <1>2 DEF Positions, NamesOf
  <2> QED
    BY <1>1, <2>2, <2>3, ListReplaced
<1>3. CASE Positions(n) = {}
  <2>1. n \notin NamesOf(checks)
    BY <1>3 DEF Positions, NamesOf
  <2> QED
    BY <1>1, <1>3, <2>1, ListAppended DEF Put
<1> QED
  BY <1>2, <1>3

LEMMA ForgetLists ==
    ASSUME ListInv, NEW n \in Names, ForgetFailure(n)
    PROVE  failed' \subseteq failed /\ n \notin failed'
<1>1. CASE Positions(n) \ {1} = {}
  BY <1>1 DEF ForgetFailure
<1>2. CASE Positions(n) \ {1} # {}
  <2>1. n \in NamesOf(checks)
    BY <1>2 DEF Positions, NamesOf
  <2> QED
    BY <1>2, <2>1 DEF ForgetFailure, ListInv
<1> QED
  BY <1>1, <1>2

\* What a run takes out of the list is the agent metrics check, all of it.
LEMMA PopLists ==
    ASSUME ListInv, Positions(AgentMetrics) # {}
    PROVE  LET t == RemoveAt(checks, FirstOf(Positions(AgentMetrics)))
           IN  /\ t \in Seq(CheckRecord) /\ Distinct(t)
               /\ NamesOf(t) = NamesOf(checks) \ {AgentMetrics}
<1>1. checks \in Seq(CheckRecord) /\ Distinct(checks)
  BY DEF ListInv
<1>2. PICK k \in Positions(AgentMetrics) : TRUE
  OBVIOUS
<1>3. k \in 1..Len(checks) /\ checks[k].name = AgentMetrics
  BY <1>2 DEF Positions
<1>4. Positions(AgentMetrics) = {k}
  BY <1>1, <1>3 DEF Positions, Distinct
<1>5. FirstOf(Positions(AgentMetrics)) = k
  BY <1>1, <1>3, <1>4 DEF FirstOf
<1> QED
  BY <1>1, <1>3, <1>5, ListRemoved

LEMMA ListStep == ListInv /\ [Next]_vars => ListInv'
<1> SUFFICES ASSUME ListInv, [Next]_vars PROVE ListInv'
  OBVIOUS
<1> USE DEF ListInv
<1>1. ASSUME UNCHANGED <<config, checks, failed>> PROVE ListInv'
  BY <1>1 DEF Distinct, NamesOf
<1>2. CASE FullReload
  <2>1. Valid \in SUBSET Names /\ Broken \subseteq Names /\ Valid \cap Broken = {}
    BY DEF Valid, Broken
  <2>2. checks' \in Directory(Valid) /\ failed' = Broken /\ config' = config
    BY <1>2 DEF FullReload, worldVars
  <2>3. checks' \in Seq(CheckRecord) /\ Distinct(checks') /\ NamesOf(checks') \subseteq Valid
    BY <2>1, <2>2, DirectoryLists
  <2> QED
    BY <2>1, <2>2, <2>3
<1>3. ASSUME NEW n \in Names, RefreshValid(n) PROVE ListInv'
  <2>1. Put(n, Loaded(n)) /\ ForgetFailure(n) /\ config' = config
    BY <1>3 DEF RefreshValid, Refreshing, worldVars
  <2> QED
    BY <2>1, ChecksLoaded, PutLists, ForgetLists
<1>4. ASSUME NEW n \in Names, RefreshBroken(n) PROVE ListInv'
  <2>1. Put(n, ErrorDict(n)) /\ ForgetFailure(n) /\ config' = config
    BY <1>4 DEF RefreshBroken, Refreshing, worldVars
  <2> QED
    BY <2>1, ChecksLoaded, PutLists, ForgetLists
<1>5. ASSUME NEW n \in Names, RefreshAbsent(n) PROVE ListInv'
  <2>1. ForgetFailure(n) /\ config' = config
    BY <1>5 DEF RefreshAbsent, Refreshing, worldVars
  <2>2. /\ checks' \in Seq(CheckRecord) /\ Distinct(checks')
        /\ NamesOf(checks') \subseteq NamesOf(checks)
    <3>1. CASE Positions(n) \ {1} # {}
      <4> DEFINE k == CHOOSE i \in Positions(n) : TRUE
      <4>1. checks' = RemoveAt(checks, k)
        BY <1>5, <3>1 DEF RefreshAbsent
      <4>2. k \in Positions(n)
        BY <3>1
      <4>3. k \in 1..Len(checks)
        BY <4>2 DEF Positions
      <4> QED
        BY <4>1, <4>3, ListRemoved
    <3>2. CASE Positions(n) \ {1} = {}
      BY <1>5, <3>2, StoppedKeeps DEF RefreshAbsent
    <3> QED
      BY <3>1, <3>2
  <2> QED
    BY <2>1, <2>2, ForgetLists
<1>6. CASE CollectBegin
  <2>1. failed' = failed /\ config' = config
    BY <1>6 DEF CollectBegin, worldVars
  <2>2. CASE MustPop /\ Positions(AgentMetrics) # {}
    <3>1. checks' = RemoveAt(checks, FirstOf(Positions(AgentMetrics)))
      BY <1>6, <2>2 DEF CollectBegin
    <3> QED
      BY <2>1, <2>2, <3>1, PopLists
  <2>3. CASE ~(MustPop /\ Positions(AgentMetrics) # {})
    BY <1>1, <1>6, <2>1, <2>3 DEF CollectBegin
  <2> QED
    BY <2>2, <2>3
<1>7. ASSUME StopCollector, UNCHANGED <<config, failed>> PROVE ListInv'
  BY <1>7, StoppingKeeps
<1>8. CASE HandleSigterm \/ HandleSigusr1 \/ AutoRestart
  BY <1>7, <1>8 DEF HandleSigterm, HandleSigusr1, AutoRestart, worldVars
<1>9. ASSUME NEW n \in Names, NEW kind \in Kinds, Edit(n, kind) PROVE ListInv'
  BY <1>9 DEF Edit, listVars, Distinct, NamesOf
<1>10. CASE Environment
  BY <1>1, <1>8, <1>9, <1>10
     DEF Environment, EditFile, ContainerEvent, ContainerGone, HandleSighup, worldVars,
         listVars, Kinds
<1>11. CASE LoopEnds \/ NoReload \/ PartialReload \/ RefreshDone \/ CollectRaises \/ RunCheck
            \/ RunDockerCheck \/ RunDone \/ Emit \/ CommitCheck \/ CommitDone \/ ResetFlag
            \/ Crawl \/ Sleep
  BY <1>1, <1>11
     DEF LoopEnds, NoReload, PartialReload, RefreshDone, CollectRaises, RunCheck,
         RunDockerCheck, RunDone, Emit, CommitCheck, CommitDone, ResetFlag, Crawl, Sleep,
         worldVars, listVars
<1>12. ASSUME NEW n \in Names, RefreshRaises(n) PROVE ListInv'
  BY <1>1, <1>12 DEF RefreshRaises, Refreshing, worldVars
<1>13. CASE UNCHANGED vars
  BY <1>1, <1>13 DEF vars, worldVars, listVars
<1> QED
  BY <1>2, <1>3, <1>4, <1>5, <1>6, <1>8, <1>10, <1>11, <1>12, <1>13 DEF Next, MainThread

-----------------------------------------------------------------------------
(* The types of the other variables *)

Pcs == Ended \cup {"top", "refresh", "collect", "run", "emit", "commit", "after",
                   "crawl", "sleep"}

\* The loops over the checks begin at the first one, of whatever list there is then.
TypeInv ==
    /\ edits \in Nat /\ signals \in Nat
    /\ events \subseteq Names \cup {All}
    /\ pc \in Pcs
    /\ runForever \in BOOLEAN /\ continueRunning \in BOOLEAN
    /\ reloadFlag \in Flags /\ sdFlag \in Flags /\ refreshing \subseteq Names
    /\ popped \in BOOLEAN /\ more \in BOOLEAN /\ hupAsked \in BOOLEAN
    /\ next \in 1..(Len(checks) + 1)
    /\ pc \in {"after", "crawl", "sleep", "top", "refresh", "collect"} => next = 1
    /\ emission \in {"none", "sent", "failed", "skipped"}
    /\ told \in [Names -> {"nothing", "success", "failure"}]
    /\ sdAsked \subseteq Names \cup {All}

LEMMA LenIsNatural == ASSUME ListInv PROVE Len(checks) \in Nat
  BY DEF ListInv

LEMMA NameOfCheck == ASSUME ListInv, NEW i \in 1..Len(checks) PROVE checks[i].name \in Names
<1>1. checks \in Seq(CheckRecord)
  BY DEF ListInv
<1>2. checks[i] \in CheckRecord
  BY <1>1
<1> QED
  BY <1>2 DEF CheckRecord

LEMMA TypeInit == Init => TypeInv
<1> SUFFICES ASSUME Init PROVE TypeInv
  OBVIOUS
<1>1. Len(checks) \in Nat
  BY ListInit, LenIsNatural
<1>2. told \in [Names -> {"nothing", "success", "failure"}]
  BY DEF Init
<1>3. {} \in Flags /\ "top" \in Pcs
  BY DEF Flags, Pcs
<1>4. next \in 1..(Len(checks) + 1) /\ next = 1
  BY <1>1 DEF Init
<1> QED
  BY <1>2, <1>3, <1>4 DEF Init, TypeInv

LEMMA FlagsOfEvents ==
    ASSUME NEW E \in SUBSET (Names \cup {All})
    PROVE  ReloadsFor(E) \in Flags /\ (E \subseteq ReloadsFor(E) \cup {All})
  BY DEF ReloadsFor, Flags

LEMMA TypeStep == ListInv /\ ListInv' /\ TypeInv /\ [Next]_vars => TypeInv'
<1> SUFFICES ASSUME ListInv, ListInv', TypeInv, [Next]_vars PROVE TypeInv'
  OBVIOUS
<1>0. Len(checks) \in Nat /\ Len(checks') \in Nat
  BY DEF ListInv
<1> USE <1>0 DEF TypeInv
<1>1. CASE LoopEnds \/ NoReload \/ FullReload \/ PartialReload
  <2>1. CASE LoopEnds \/ NoReload
    BY <2>1 DEF LoopEnds, NoReload, Goto, Pcs, Ended,
                worldVars, signalVars, listVars, runVars, historyVars
  <2>2. CASE FullReload
    <3>1. next' = next /\ next = 1 /\ 1 \in 1..(Len(checks') + 1)
      BY <2>2 DEF FullReload, Goto, runVars
    <3> QED
      BY <2>2, <3>1 DEF FullReload, Goto, Pcs, worldVars, signalVars, runVars
  <2>3. CASE PartialReload
    BY <2>3 DEF PartialReload, Goto, Pcs,
                worldVars, signalVars, listVars, runVars, historyVars
  <2> QED
    BY <1>1, <2>1, <2>2, <2>3
<1>2. ASSUME NEW n \in Names, Refreshing(n), pc' \in {pc, "crashed"} PROVE TypeInv'
  BY <1>2 DEF Refreshing, Pcs, Ended, worldVars, signalVars, listVars, runVars, historyVars
<1>3. ASSUME NEW n \in Names,
             RefreshValid(n) \/ RefreshAbsent(n) \/ RefreshBroken(n) \/ RefreshRaises(n)
      PROVE  TypeInv'
  BY <1>2, <1>3 DEF RefreshValid, RefreshAbsent, RefreshBroken, RefreshRaises
<1>4. CASE RefreshDone \/ RunDone \/ CommitDone \/ Sleep
  BY <1>4 DEF RefreshDone, RunDone, CommitDone, Sleep, Goto, Pcs, Ended,
              worldVars, signalVars, listVars, runVars, historyVars
<1>5. CASE CollectBegin
  <2>1. next' = 1 /\ 1 \in 1..(Len(checks') + 1) /\ pc' = "run" /\ "run" \in Pcs
    BY <1>5 DEF CollectBegin, Pcs
  <2>2. told' \in [Names -> {"nothing", "success", "failure"}] /\ popped' \in BOOLEAN
    BY <1>5 DEF CollectBegin
  <2> QED
    BY <1>5, <2>1, <2>2 DEF CollectBegin, worldVars, signalVars, historyVars
<1>6. CASE CollectRaises
  BY <1>6 DEF CollectRaises, Pcs, Ended,
              worldVars, signalVars, listVars, runVars, historyVars
<1>7. CASE RunCheck
  BY <1>7 DEF RunCheck, CanRun, worldVars, signalVars, listVars, historyVars
<1>8. CASE RunDockerCheck
  BY <1>8, FlagsOfEvents DEF RunDockerCheck, CanRun, signalVars, listVars
<1>9. CASE Emit
  BY <1>9 DEF Emit, Goto, Pcs, worldVars, signalVars, listVars, historyVars
<1>10. CASE CommitCheck
  <2>1. checks[next].name \in Names /\ Tell \in {"success", "failure"}
    BY <1>10, NameOfCheck DEF CommitCheck, Tell
  <2>2. told' \in [Names -> {"nothing", "success", "failure"}]
    BY <1>10, <2>1 DEF CommitCheck
  <2>3. more' \in BOOLEAN
    BY <1>10 DEF CommitCheck
  <2> QED
    BY <1>10, <2>2, <2>3 DEF CommitCheck, worldVars, signalVars, listVars, historyVars
<1>11. CASE ResetFlag \/ Crawl
  BY <1>11 DEF ResetFlag, Crawl, PickUp, Goto, Pcs, Flags,
               worldVars, signalVars, listVars, runVars, historyVars
<1>12. ASSUME StopCollector PROVE Len(checks') = Len(checks) /\ continueRunning' \in BOOLEAN
  BY <1>12, StoppingKeeps DEF StopCollector
<1>13. CASE AutoRestart \/ HandleSigterm \/ HandleSigusr1
  <2>1. CASE AutoRestart
    BY <1>12, <2>1 DEF AutoRestart, Goto, Pcs, Ended, worldVars, runVars, historyVars
  <2>2. CASE HandleSigterm
    <3>1. signals' \in Nat /\ Len(checks') = Len(checks) /\ continueRunning' \in BOOLEAN
      BY <1>12, <2>2 DEF HandleSigterm, Signal
    <3> QED
      BY <2>2, <3>1 DEF HandleSigterm, worldVars, runVars, historyVars
  <2>3. CASE HandleSigusr1
    <3>1. signals' \in Nat /\ Len(checks') = Len(checks) /\ continueRunning' \in BOOLEAN
      BY <1>12, <2>3 DEF HandleSigusr1, Signal
    <3> QED
      BY <2>3, <3>1 DEF HandleSigusr1, Pcs, Ended, worldVars, runVars, historyVars
  <2> QED
    BY <1>13, <2>1, <2>2, <2>3
<1>14. CASE HandleSighup
  BY <1>14 DEF HandleSighup, Signal, Flags, worldVars, listVars, runVars
<1>15. ASSUME NEW n \in Names, NEW kind \in Kinds, Edit(n, kind),
              events' \subseteq Names \cup {All}
       PROVE  TypeInv'
  BY <1>15 DEF Edit, signalVars, listVars, runVars, historyVars
<1>16. CASE Environment
  BY <1>13, <1>14, <1>15, <1>16
     DEF Environment, EditFile, ContainerEvent, ContainerGone, Kinds
<1>17. CASE UNCHANGED vars
  BY <1>17 DEF vars, worldVars, signalVars, listVars, runVars, historyVars
<1> QED
  BY <1>1, <1>3, <1>4, <1>5, <1>6, <1>7, <1>8, <1>9, <1>10, <1>11, <1>13, <1>16, <1>17
     DEF Next, MainThread

-----------------------------------------------------------------------------
(* The agent metrics check *)

\* Once it was taken out of the list, only a reload puts it back, and then the
\* flag of that reload is still set when the collector looks.
MetricsInv ==
    /\ pc \in {"run", "emit", "commit", "after", "crawl", "sleep"}
            => AgentMetrics \notin NamesOf(checks)
    /\ pc \in {"top", "collect"} /\ popped /\ reloadFlag = {}
            => AgentMetrics \notin NamesOf(checks)
    /\ pc = "refresh" => reloadFlag # {}

LEMMA MetricsStep == ListInv /\ TypeInv /\ MetricsInv /\ [Next]_vars => MetricsInv'
<1> SUFFICES ASSUME ListInv, TypeInv, MetricsInv, [Next]_vars PROVE MetricsInv'
  OBVIOUS
<1> USE DEF MetricsInv
<1>1. CASE LoopEnds \/ NoReload \/ FullReload \/ PartialReload
  <2>1. CASE LoopEnds \/ NoReload
    BY <2>1 DEF LoopEnds, NoReload, Goto, listVars, NamesOf
  <2>2. CASE FullReload
    BY <2>2 DEF FullReload, Goto
  <2>3. CASE PartialReload
    BY <2>3 DEF PartialReload, Goto
  <2> QED
    BY <1>1, <2>1, <2>2, <2>3
<1>2. ASSUME NEW n \in Names,
             RefreshValid(n) \/ RefreshAbsent(n) \/ RefreshBroken(n) \/ RefreshRaises(n)
      PROVE  MetricsInv'
  BY <1>2 DEF RefreshValid, RefreshAbsent, RefreshBroken, RefreshRaises, Refreshing
<1>3. CASE CollectBegin
  <2>1. pc' = "run" /\ pc = "collect" /\ reloadFlag' = reloadFlag
    BY <1>3 DEF CollectBegin
  <2>2. CASE MustPop /\ Positions(AgentMetrics) # {}
    BY <1>3, <2>1, <2>2, PopLists DEF CollectBegin
  <2>3. CASE MustPop /\ Positions(AgentMetrics) = {}
    BY <1>3, <2>1, <2>3 DEF CollectBegin, Positions, NamesOf
  <2>4. CASE ~MustPop
    BY <1>3, <2>1, <2>4 DEF CollectBegin, MustPop, NamesOf
  <2> QED
    BY <2>2, <2>3, <2>4
<1>4. CASE RefreshDone \/ CollectRaises \/ RunCheck \/ RunDockerCheck \/ RunDone \/ Emit
           \/ CommitCheck \/ CommitDone \/ ResetFlag \/ Crawl \/ Sleep
  BY <1>4 DEF RefreshDone, CollectRaises, RunCheck, RunDockerCheck, CanRun, RunDone, Emit,
              CommitCheck, CommitDone, ResetFlag, Crawl, Sleep, Goto, listVars, NamesOf
<1>5. ASSUME StopCollector PROVE NamesOf(checks') = NamesOf(checks)
  BY <1>5, StoppingKeeps
<1>6. CASE AutoRestart \/ HandleSigterm \/ HandleSigusr1
  BY <1>5, <1>6 DEF AutoRestart, HandleSigterm, HandleSigusr1, Goto
<1>7. CASE HandleSighup
  BY <1>7 DEF HandleSighup, listVars, NamesOf
<1>8. ASSUME NEW n \in Names, NEW kind \in Kinds, Edit(n, kind) PROVE MetricsInv'
  BY <1>8 DEF Edit, listVars, NamesOf
<1>9. CASE Environment
  BY <1>6, <1>7, <1>8, <1>9 DEF Environment, EditFile, ContainerEvent, ContainerGone, Kinds
<1>10. CASE UNCHANGED vars
  BY <1>10 DEF vars, listVars, NamesOf
<1> QED
  BY <1>1, <1>2, <1>3, <1>4, <1>6, <1>9, <1>10 DEF Next, MainThread

-----------------------------------------------------------------------------
(* What the checks are told *)

\* A check is told what became of the payload of this run, which is known by then.
ToldInv ==
    /\ \A n \in Names : /\ told[n] = "success" => emission \in {"sent", "skipped"}
                        /\ told[n] = "failure" => emission = "failed"
    /\ emission = "skipped" => ~continueRunning
    /\ pc \in {"run", "emit"} => emission = "none"
    /\ pc = "commit" => emission # "none"

LEMMA ToldStep == ListInv /\ TypeInv /\ ToldInv /\ [Next]_vars => ToldInv'
<1> SUFFICES ASSUME ListInv, TypeInv, ToldInv, [Next]_vars PROVE ToldInv'
  OBVIOUS
<1> USE DEF ToldInv
<1>1. ASSUME UNCHANGED <<emission, told>>, continueRunning' => continueRunning,
             pc' \in {"run", "emit", "commit"} => pc' = pc \/ (pc = "run" /\ pc' = "emit")
      PROVE  ToldInv'
  BY <1>1
<1>2. CASE LoopEnds \/ NoReload \/ FullReload \/ PartialReload \/ RefreshDone
           \/ CollectRaises \/ RunDone \/ CommitDone \/ ResetFlag \/ Crawl \/ Sleep
  BY <1>1, <1>2 DEF LoopEnds, NoReload, FullReload, PartialReload, RefreshDone, CollectRaises,
                    RunDone, CommitDone, ResetFlag, Crawl, Sleep, Goto, signalVars, runVars
<1>3. ASSUME NEW n \in Names,
             RefreshValid(n) \/ RefreshAbsent(n) \/ RefreshBroken(n) \/ RefreshRaises(n)
      PROVE  ToldInv'
  BY <1>1, <1>3 DEF RefreshValid, RefreshAbsent, RefreshBroken, RefreshRaises, Refreshing,
                    signalVars, runVars
<1>4. CASE CollectBegin
  BY <1>4 DEF CollectBegin
<1>5. CASE RunCheck \/ RunDockerCheck
  BY <1>1, <1>5 DEF RunCheck, RunDockerCheck, signalVars
<1>6. CASE Emit
  <2>1. /\ pc = "emit" /\ pc' = "commit" /\ told' = told
        /\ continueRunning' = continueRunning
        /\ emission' \in IF continueRunning THEN {"sent", "failed"} ELSE {"skipped"}
    BY <1>6 DEF Emit, Goto, signalVars
  <2>2. \A n \in Names : told[n] \notin {"success", "failure"}
    BY <2>1
  <2> QED
    BY <2>1, <2>2
<1>7. CASE CommitCheck
  <2>1. checks[next].name \in Names
    <3>1. next \in 1..Len(checks)
      BY <1>7 DEF CommitCheck, TypeInv
    <3> QED
      BY <3>1, NameOfCheck
  <2>2. /\ pc = "commit" /\ pc' = pc /\ emission' = emission
        /\ continueRunning' = continueRunning
        /\ told' = told \/ told' = [told EXCEPT ![checks[next].name] = Tell]
    BY <1>7 DEF CommitCheck, signalVars
  <2>3. /\ Tell = "success" => emission \in {"sent", "skipped"}
        /\ Tell = "failure" => emission = "failed"
    BY <2>2 DEF Tell, EmitSuccess, TypeInv
  <2> QED
    BY <2>1, <2>2, <2>3 DEF TypeInv
<1>8. CASE AutoRestart \/ HandleSigterm \/ HandleSigusr1
  BY <1>1, <1>8 DEF AutoRestart, HandleSigterm, HandleSigusr1, StopCollector, Goto, runVars
<1>9. CASE HandleSighup
  BY <1>1, <1>9 DEF HandleSighup, runVars
<1>10. ASSUME NEW n \in Names, NEW kind \in Kinds, Edit(n, kind) PROVE ToldInv'
  BY <1>1, <1>10 DEF Edit, signalVars, runVars
<1>11. CASE Environment
  BY <1>8, <1>9, <1>10, <1>11 DEF Environment, EditFile, ContainerEvent, ContainerGone, Kinds
<1>12. CASE UNCHANGED vars
  BY <1>1, <1>12 DEF vars, signalVars, runVars
<1> QED
  BY <1>2, <1>3, <1>4, <1>5, <1>6, <1>7, <1>8, <1>11, <1>12 DEF Next, MainThread

-----------------------------------------------------------------------------
(* What service discovery asked for *)

Covered(asked, S) == asked \subseteq S \cup {All}

\* Until the flag of the loop is set from it, the flag of service discovery names
\* the checks of the events that were handed over in this run. That they are not
\* replaced by others takes that the docker check comes once in a run.
AsksInv ==
    /\ pc \in {"sleep", "top"} => reloadFlag = {All} \/ Covered(sdAsked, reloadFlag)
    /\ pc = "refresh" => Covered(sdAsked, refreshing)
    /\ pc = "collect" => Covered(sdAsked, {})
    /\ pc \in {"run", "emit", "commit", "after", "crawl"} => Covered(sdAsked, sdFlag)
    /\ pc = "run" => \/ Covered(sdAsked, {})
                     \/ \A i \in next..Len(checks) : checks[i].name # DockerCheck

LEMMA AsksStep == ListInv /\ TypeInv /\ AsksInv /\ [Next]_vars => AsksInv'
<1> SUFFICES ASSUME ListInv, TypeInv, AsksInv, [Next]_vars PROVE AsksInv'
  OBVIOUS
<1> USE DEF AsksInv
<1>0. Len(checks) \in Nat /\ next \in Nat /\ Distinct(checks)
  BY DEF ListInv, TypeInv
<1>1. CASE LoopEnds \/ NoReload
  BY <1>1 DEF LoopEnds, NoReload, Goto, historyVars, Covered
<1>2. CASE FullReload
  BY <1>2 DEF FullReload, Goto, Covered
<1>3. CASE PartialReload
  <2>1. pc' = "refresh" /\ refreshing' = reloadFlag /\ sdAsked' = sdAsked
    BY <1>3 DEF PartialReload, Goto, historyVars
  <2>2. Covered(sdAsked, reloadFlag)
    BY <1>3, AgentAssumption DEF PartialReload, Goto, All
  <2> QED
    BY <2>1, <2>2
<1>4. ASSUME NEW n \in Names,
             RefreshValid(n) \/ RefreshAbsent(n) \/ RefreshBroken(n) \/ RefreshRaises(n)
      PROVE  AsksInv'
  BY <1>4 DEF RefreshValid, RefreshAbsent, RefreshBroken, RefreshRaises, Refreshing, Covered
<1>5. CASE RefreshDone
  BY <1>5 DEF RefreshDone, Goto, historyVars, Covered
<1>6. CASE CollectBegin
  BY <1>6 DEF CollectBegin, historyVars, Covered
<1>7. CASE CollectRaises
  BY <1>7 DEF CollectRaises
<1>8. CASE RunCheck
  <2>1. /\ pc = "run" /\ next' = next + 1 /\ checks' = checks
        /\ UNCHANGED <<pc, sdFlag, sdAsked>>
    BY <1>8 DEF RunCheck, CanRun, listVars, historyVars
  <2>2. next'..Len(checks') \subseteq next..Len(checks)
    BY <1>0, <2>1
  <2> QED
    BY <2>1, <2>2
<1>9. CASE RunDockerCheck
  <2>1. /\ pc = "run" /\ pc' = pc /\ next' = next + 1 /\ checks' = checks
        /\ next \in 1..Len(checks) /\ checks[next].name = DockerCheck
        /\ sdFlag' = ReloadsFor(events) /\ sdAsked' = sdAsked \cup events
    BY <1>9 DEF RunDockerCheck, CanRun, listVars, TypeInv
  <2>2. Covered(sdAsked, {})
    <3>1. next \in next..Len(checks)
      BY <1>0, <2>1
    <3> QED
      BY <2>1, <3>1
  <2>3. Covered(sdAsked', sdFlag')
    BY <2>1, <2>2, FlagsOfEvents DEF Covered, TypeInv
  <2>4. \A i \in next'..Len(checks') : checks'[i].name # DockerCheck
    BY <1>0, <2>1 DEF Distinct
  <2> QED
    BY <2>1, <2>3, <2>4
<1>10. CASE RunDone \/ Emit \/ CommitCheck \/ CommitDone \/ ResetFlag
  BY <1>10 DEF RunDone, Emit, CommitCheck, CommitDone, ResetFlag, Goto, historyVars, Covered
<1>11. CASE Crawl
  <2>1. pc = "crawl" /\ pc' = "sleep" /\ sdAsked' = sdAsked
    BY <1>11 DEF Crawl, Goto, historyVars
  <2>2. CASE sdFlag = {}
    BY <2>1, <2>2 DEF Covered
  <2>3. CASE sdFlag # {}
    <3>1. reloadFlag' = sdFlag
      BY <1>11, <2>3 DEF Crawl, PickUp
    <3> QED
      BY <2>1, <3>1 DEF Covered
  <2> QED
    BY <2>2, <2>3
<1>12. CASE AutoRestart \/ HandleSigusr1
  BY <1>12 DEF AutoRestart, HandleSigusr1, Goto
<1>13. CASE Sleep
  BY <1>13 DEF Sleep, Goto, historyVars
<1>14. CASE HandleSigterm
  <2>1. /\ Len(checks') = Len(checks)
        /\ \A i \in 1..Len(checks) : checks'[i].name = checks[i].name
    BY <1>14, StoppingKeeps DEF HandleSigterm
  <2>2. UNCHANGED <<pc, next, reloadFlag, sdFlag, refreshing, sdAsked>>
    BY <1>14 DEF HandleSigterm, runVars, historyVars
  <2>3. next..Len(checks) \subseteq 1..Len(checks)
    BY <1>0 DEF TypeInv
  <2> QED
    BY <2>1, <2>2, <2>3
<1>15. CASE HandleSighup
  BY <1>15 DEF HandleSighup, listVars, runVars
<1>16. ASSUME NEW n \in Names, NEW kind \in Kinds, Edit(n, kind) PROVE AsksInv'
  BY <1>16 DEF Edit, listVars, runVars, historyVars
<1>17. CASE Environment
  BY <1>12, <1>14, <1>15, <1>16, <1>17
     DEF Environment, EditFile, ContainerEvent, ContainerGone, Kinds
<1>18. CASE UNCHANGED vars
  BY <1>18 DEF vars, listVars, runVars, historyVars
<1> QED
  BY <1>1, <1>2, <1>3, <1>4, <1>5, <1>6, <1>7, <1>8, <1>9, <1>10, <1>11, <1>12, <1>13, <1>17,
     <1>18 DEF Next, MainThread

-----------------------------------------------------------------------------
(* The theorems *)

AgentInv == ListInv /\ TypeInv /\ MetricsInv /\ ToldInv /\ AsksInv

LEMMA AgentInvariant == Spec => []AgentInv
<1>1. Init => AgentInv
  <2> SUFFICES ASSUME Init PROVE AgentInv
    OBVIOUS
  <2>1. MetricsInv /\ ToldInv /\ AsksInv
    BY DEF Init, MetricsInv, ToldInv, AsksInv, Covered
  <2> QED
    BY <2>1, ListInit, TypeInit DEF AgentInv
<1>2. AgentInv /\ [Next]_vars => AgentInv'
  BY ListStep, TypeStep, MetricsStep, ToldStep, AsksStep DEF AgentInv
<1> QED
  BY <1>1, <1>2, PTL DEF Spec

\* In the lists of agent.py, whatever full and partial reloads and signals come
\* between the steps of the loop, a check is listed once or among the failed ones,
\* the agent metrics check is out of the list while the checks run, and a check is
\* told of success only of a payload that was sent, or that nobody tried to send.
THEOREM ChecksCorrect == Spec => []ChecksSound
<1>1. AgentInv => ChecksSound
  <2> SUFFICES ASSUME AgentInv PROVE ChecksSound
    OBVIOUS
  <2> USE DEF AgentInv
  <2>1. TypeOK
    <3>1. NamesOf(checks) \cup failed \subseteq Names
      BY NameOfCheck DEF NamesOf, ListInv
    <3> QED
      BY <3>1 DEF TypeOK, TypeInv, ListInv, Pcs
  <2>2. ListedOnce
    BY DEF ListedOnce, ListInv, Distinct
  <2>3. MetricsApart
    BY DEF MetricsApart, MetricsInv
  <2>4. SuccessMeansSent
    BY DEF SuccessMeansSent, ToldInv
  <2> QED
    BY <2>1, <2>2, <2>3, <2>4 DEF ChecksSound, ListsConsistent
<1> QED
  BY <1>1, AgentInvariant, PTL

\* What service discovery asked update_checks() for is reloaded before the next run
\* of the collector, whatever was asked for by a signal or a change meanwhile.
THEOREM ReloadsCorrect == Spec => AskedReloads
<1>1. AgentInv /\ [Next]_vars
        => [pc = "top" => /\ pc' = "collect" => sdAsked' \subseteq {All}
                          /\ pc' = "refresh" => sdAsked \subseteq refreshing' \cup {All}]_vars
  <2> SUFFICES ASSUME AgentInv, AgentInv', Next, pc = "top"
               PROVE  /\ pc' = "collect" => sdAsked' \subseteq {All}
                      /\ pc' = "refresh" => sdAsked \subseteq refreshing' \cup {All}
    BY ListStep, TypeStep, MetricsStep, ToldStep, AsksStep DEF AgentInv
  <2>1. pc' = "collect" => sdAsked' \subseteq {All}
    BY DEF AgentInv, AsksInv, Covered
  <2>2. ASSUME pc' = "refresh" PROVE sdAsked' = sdAsked
    BY <2>2 DEF Next, MainThread, Environment, LoopEnds, NoReload, FullReload, PartialReload,
                RefreshValid, RefreshAbsent, RefreshBroken, RefreshRaises, Refreshing,
                RefreshDone, CollectBegin, CollectRaises, RunCheck, RunDockerCheck, CanRun,
                RunDone, Emit, CommitCheck, CommitDone, ResetFlag, Crawl, AutoRestart, Sleep,
                Goto, HandleSigterm, HandleSigusr1, HandleSighup, EditFile, ContainerEvent,
                ContainerGone, Edit, historyVars
  <2> QED
    BY <2>1, <2>2 DEF AgentInv, AsksInv, Covered
<1> QED
  BY <1>1, AgentInvariant, PTL DEF Spec, AskedReloads

-----------------------------------------------------------------------------
(* NetworkCheck                                                              *)

Outcomes == {"ok", "fail"}
ThreadType == [at : {"idle", "dead", "check", "put"}, job : Instances \cup {0}, out : Seq(Outcomes)]
ResultType == [job : Instances, status : Outcomes]

\* Stronger types than TypeOK's: those of the queues, and what the threads hold.
NetTypes ==
    /\ NetTypeOK
    /\ workq \in Seq(Instances \cup {QUIT}) /\ resultsq \in Seq(ResultType)
    /\ workers \in [Workers -> ThreadType]
    /\ \A w \in Workers : /\ workers[w].at = "idle" => workers[w] = Idle
                          /\ workers[w].at = "dead" => workers[w] = Dead

\* The pool is open only when it is started, and empty when it is not; nothing but
\* sentinels is in the queue of a pool that is closed.
Phases ==
    /\ closed => \A i \in DOMAIN workq : workq[i] = QUIT
    /\ ~closed => started
    /\ ~started => Alive = {}
    /\ callPc \in {"join", "reloaded"} => closed
    /\ callPc \in {"start", "reloaded"} => Alive = {}
    /\ sig = "join" => closed

\* A job is in the queue or at a thread, not at two places.
OnePlaced ==
    \A n \in Instances :
        /\ \A i, j \in DOMAIN workq : workq[i] = n /\ workq[j] = n => i = j
        /\ \A w, v \in Workers : workers[w].job = n /\ workers[v].job = n => w = v
        /\ \A i \in DOMAIN workq, w \in Workers : ~(workq[i] = n /\ workers[w].job = n)

HasJob(n) == (\E i \in DOMAIN workq : workq[i] = n) \/ (\E w \in Workers : workers[w].job = n)

\* The check knows of each job that is queued or run.
JobsKnown == \A n \in Instances : HasJob(n) => jobsResults[n] = "pending" /\ jobsStatus[n] # NoJob

\* A job of which there is a result, taken or not, is at the thread that put it, or its
\* result is ready.
Putting(n) == \E w \in Workers : workers[w].at = "put" /\ workers[w].job = n
ResultsPut ==
    \A n \in Instances :
        /\ (\E i \in DOMAIN resultsq : resultsq[i].job = n) /\ jobsResults[n] = "pending" => Putting(n)
        /\ callPc = "cleanjob" /\ got = n /\ jobsResults[n] = "pending" => Putting(n)
        /\ callPc \in {"clean", "apply"} /\ ~closed /\ (\E i \in DOMAIN resultsq : resultsq[i].job = n) =>
              jobsStatus[n] # NoJob

NetInv == NetTypes /\ Phases /\ OnePlaced /\ JobsKnown /\ ResultsPut

-----------------------------------------------------------------------------
(* Types                                                                     *)

LEMMA NetFacts ==
    /\ InstanceCount \in Nat \ {0} /\ PoolSize \in Nat \ {0} /\ Timeout \in Nat
    /\ 1 \in Instances /\ Instances \subseteq Nat /\ 0 \notin Instances
    /\ MaxStops \in Nat /\ Kept \subseteq BOOLEAN
  BY NetworkCheckAssumption DEF Instances

LEMMA NetInitially == NetInit => NetInv
<1> SUFFICES ASSUME NetInit PROVE NetInv
  OBVIOUS
<1>1. Alive = {}
  BY DEF NetInit, Alive
<1>2. NetTypes
  <2>1. Dead \in ThreadType /\ Dead.at = "dead" /\ Dead.job = 0
    BY DEF Dead, Thread, ThreadType
  <2>2. workers = [w \in Workers |-> Dead] /\ workq = <<>> /\ resultsq = <<>>
    BY DEF NetInit
  <2>3. -1..Timeout + 1 \subseteq Int /\ -1 \in -1..Timeout + 1
    BY NetFacts
  <2>4. jobsStatus \in [Instances -> NoJob..Timeout + 1] /\ jobsResults \in [Instances -> {"none", "pending", "ready"}]
    BY <2>3, NetFacts DEF NetInit, NoJobs, NoResults, NoJob
  <2>5. NetTypeOK
    <3>1. \A w \in Workers : workers[w].at = "dead" /\ workers[w].job = 0
      BY <2>1, <2>2
    <3>2. /\ cur = 1 /\ got = 1 /\ globalSize = 0 /\ nbFailures = 0 /\ reloads = 0 /\ poolSize = 0
          /\ started = FALSE /\ closed = TRUE
          /\ callPc = "between" /\ back = "guard" /\ after = "start" /\ sig = "none"
      BY DEF NetInit
    <3>3. 0 \in 0..PoolSize /\ 0 \in 0..MaxStops /\ 0 \in Int
      BY NetFacts
    <3>4. DOMAIN workq = {} /\ DOMAIN resultsq = {}
      BY <2>2
    <3> QED BY <2>4, <3>1, <3>2, <3>3, <3>4, NetFacts DEF NetTypeOK
  <2>6. workers \in [Workers -> ThreadType] /\ \A w \in Workers : workers[w] = Dead
    BY <2>1, <2>2
  <2> QED BY <2>1, <2>2, <2>5, <2>6 DEF NetTypes
<1>3. Phases
  BY <1>1 DEF NetInit, Phases
<1>4. \A n \in Instances : ~HasJob(n)
  BY NetFacts DEF NetInit, HasJob, Dead, Thread
<1>5. OnePlaced
  BY NetFacts DEF NetInit, OnePlaced, Dead, Thread
<1>6. JobsKnown /\ ResultsPut
  BY <1>4 DEF NetInit, JobsKnown, ResultsPut
<1> QED BY <1>2, <1>3, <1>5, <1>6 DEF NetInv

LEMMA Queues ==
    ASSUME NEW S, NEW q \in Seq(S), q # <<>>
    PROVE  /\ Len(q) \in Nat \ {0} /\ DOMAIN q = 1..Len(q) /\ Head(q) = q[1] /\ Head(q) \in S
           /\ Tail(q) \in Seq(S) /\ DOMAIN Tail(q) = 1..(Len(q) - 1)
           /\ \A i \in 1..(Len(q) - 1) : Tail(q)[i] = q[i + 1]
  OBVIOUS

LEMMA Added ==
    ASSUME NEW S, NEW q \in Seq(S), NEW x \in S
    PROVE  /\ Append(q, x) \in Seq(S) /\ DOMAIN Append(q, x) = 1..(Len(q) + 1) /\ Len(q) \in Nat
           /\ DOMAIN q = 1..Len(q)
           /\ \A i \in 1..Len(q) : Append(q, x)[i] = q[i]
           /\ Append(q, x)[Len(q) + 1] = x
  OBVIOUS

\* What a call, a reload or SIGTERM changes other than the pool and its queues.
Quiet ==
    \/ BeginRun \/ (\E n \in Instances : Check(n)) \/ Skip \/ Guard \/ NoMoreResults \/ Report \/ Failure
    \/ Clean \/ Reload \/ Sigterm \/ Exit \/ UNCHANGED netVars
JoinStep == JoinPool \/ HandlerJoins
StopStep == StopPool \/ HandlerStops

LEMMA NetSteps ==
    ASSUME [NetNext]_netVars
    PROVE  \/ Quiet \/ StopStep \/ JoinStep \/ StartPool \/ CleanJob \/ ApplyAsync \/ Reloaded \/ Tick
           \/ \E w \in Workers : WorkerTakes(w) \/ CheckReturns(w) \/ PutResult(w) \/ JobDone(w)
  BY DEF NetNext, Call, Handler, Work, Quiet, JoinStep, StopStep

LEMMA QuietPool ==
    ASSUME Quiet
    PROVE  /\ UNCHANGED <<workq, closed, workers, jobsStatus, jobsResults, globalSize>>
           /\ UNCHANGED <<started, poolSize>>
  BY DEF Quiet, BeginRun, Check, Skip, Guard, NoMoreResults, Report, Failure, TakeResult, Clean, Reload,
         Sigterm, Exit, netVars, poolVars, jobVars, sizeVars

LEMMA QuietTypes ==
    ASSUME NetTypes, Quiet
    PROVE  NetTypes'
<1>1. /\ UNCHANGED <<workq, closed, workers, jobsStatus, jobsResults, globalSize>>
      /\ UNCHANGED <<started, poolSize>>
  BY QuietPool
<1>2. NetTypeOK
  BY DEF NetTypes
<1>3. resultsq # <<>> => Head(resultsq).job \in Instances /\ Tail(resultsq) \in Seq(ResultType)
  <2> SUFFICES ASSUME resultsq # <<>> PROVE Head(resultsq).job \in Instances /\ Tail(resultsq) \in Seq(ResultType)
    OBVIOUS
  <2>1. resultsq \in Seq(ResultType)
    BY DEF NetTypes
  <2>2. Head(resultsq) \in ResultType /\ Tail(resultsq) \in Seq(ResultType)
    BY <2>1, Queues
  <2> QED BY <2>2 DEF ResultType
<1>4. /\ cur < InstanceCount => cur + 1 \in Instances
      /\ 1 \in Instances
  BY <1>2, NetFacts DEF NetTypeOK, Instances
<1>5. resultsq' \in Seq(ResultType) /\ got' \in Instances
  BY <1>2, <1>3 DEF Quiet, BeginRun, Check, Skip, Guard, NoMoreResults, Report, Failure, TakeResult, Clean, Reload,
         Sigterm, Exit, netVars, callVars, jobVars, NetTypes, NetTypeOK
<1>6. cur' \in Instances
  BY <1>2, <1>4 DEF Quiet, BeginRun, Check, Skip, Guard, NoMoreResults, Report, Failure, TakeResult, Clean, Reload,
         Sigterm, Exit, netVars, callVars, NetTypeOK, NextInstance
<1>7. /\ callPc' \in {"between", "idle", "guard", "results", "cleanjob", "clean", "apply",
                      "stop", "join", "start", "reloaded", "exited"}
      /\ back' \in {"guard", "cleanjob", "apply"} /\ after' \in {"start", "keep", "discard"}
      /\ sig' \in {"none", "stop", "join", "done"}
  BY <1>2 DEF Quiet, BeginRun, Check, Skip, Guard, NoMoreResults, Report, Failure, TakeResult, Clean, Reload,
         Sigterm, Exit, netVars, callVars, NetTypeOK, NextInstance, RestartPool
<1>8. nbFailures' \in 0..PoolSize
  <2>1. nbFailures \in 0..PoolSize /\ poolSize \in {0, PoolSize}
    BY <1>2 DEF NetTypeOK
  <2>2. nbFailures' = nbFailures \/ nbFailures' = 0 \/ (nbFailures' = nbFailures + 1 /\ ~(nbFailures + 1 >= poolSize - 1))
    BY DEF Quiet, BeginRun, Check, Skip, Guard, NoMoreResults, Report, Failure, TakeResult, Clean, Reload,
         Sigterm, Exit, netVars
  <2> QED BY <2>1, <2>2, NetFacts
<1>9. reloads' \in 0..MaxStops
  <2>1. reloads \in 0..MaxStops
    BY <1>2 DEF NetTypeOK
  <2>2. reloads' = reloads \/ (reloads' = reloads + 1 /\ reloads < MaxStops)
    BY DEF Quiet, BeginRun, Check, Skip, Guard, NoMoreResults, Report, Failure, TakeResult, Clean, Reload,
         Sigterm, Exit, netVars
  <2> QED BY <2>1, <2>2, NetFacts
<1>10. \A i \in DOMAIN resultsq' : resultsq'[i].job \in Instances /\ resultsq'[i].status \in {"ok", "fail"}
  <2>1. \A i \in DOMAIN resultsq' : resultsq'[i] \in ResultType
    BY <1>5
  <2> QED BY <2>1 DEF ResultType, Outcomes
<1> QED BY <1>1, <1>2, <1>5, <1>6, <1>7, <1>8, <1>9, <1>10 DEF NetTypes, NetTypeOK

LEMMA StopTypes ==
    ASSUME NetTypes, StopStep
    PROVE  NetTypes'
<1> DEFINE quits == [w \in Workers |-> QUIT]
<1>1. NetTypeOK
  BY DEF NetTypes
<1>2. /\ UNCHANGED <<cur, got, back, after, started, poolSize, nbFailures, jobsStatus, jobsResults, resultsq, workers, reloads>>
      /\ globalSize' = globalSize - poolSize /\ workq' \in {workq, quits} /\ closed' \in {closed, TRUE}
  BY DEF StopStep, StopPool, HandlerStops, Uncounted, Terminate, jobVars, poolVars, callVars
<1>3. /\ callPc' \in {callPc, "join", "start", "reloaded"} /\ sig' \in {sig, "join", "done"}
  BY DEF StopStep, StopPool, HandlerStops, AfterStop, callVars
<1>4. globalSize' \in Int
  BY <1>1, <1>2, NetFacts DEF NetTypeOK
<1>5. quits \in Seq(Instances \cup {QUIT}) /\ \A i \in DOMAIN quits : quits[i] = QUIT
  BY NetFacts DEF Workers
<1>6. workq' \in Seq(Instances \cup {QUIT}) /\ \A i \in DOMAIN workq' : workq'[i] \in Instances \cup {QUIT}
  BY <1>1, <1>2, <1>5 DEF NetTypes, NetTypeOK
<1>7. closed' \in BOOLEAN
  BY <1>1, <1>2 DEF NetTypeOK
<1>8. callPc' \in {"between", "idle", "guard", "results", "cleanjob", "clean", "apply",
                   "stop", "join", "start", "reloaded", "exited"}
      /\ sig' \in {"none", "stop", "join", "done"}
  BY <1>1, <1>3 DEF NetTypeOK
<1> HIDE DEF quits
<1> QED BY <1>1, <1>2, <1>4, <1>6, <1>7, <1>8 DEF NetTypes, NetTypeOK

LEMMA CallTypes ==
    ASSUME NetTypes, JoinStep \/ StartPool \/ CleanJob \/ ApplyAsync \/ Reloaded \/ Tick
    PROVE  NetTypes'
<1>1. NetTypeOK /\ jobsStatus \in [Instances -> NoJob..Timeout + 1]
      /\ jobsResults \in [Instances -> {"none", "pending", "ready"}]
  BY DEF NetTypes, NetTypeOK
<1>2. -1..Timeout + 1 \subseteq Int /\ NoJob \in NoJob..Timeout + 1 /\ 0 \in NoJob..Timeout + 1
  BY NetFacts DEF NoJob
<1>3. NoJobs \in [Instances -> NoJob..Timeout + 1] /\ NoResults \in [Instances -> {"none", "pending", "ready"}]
  BY <1>2 DEF NoJobs, NoResults
<1>4. CASE JoinStep
  <2>1. /\ UNCHANGED <<cur, got, back, after, poolSize, globalSize, nbFailures, jobsResults, resultsq, workq, closed, workers, reloads>>
        /\ jobsStatus' = NoJobs /\ started' \in BOOLEAN
    BY <1>1, <1>4 DEF JoinStep, JoinPool, HandlerJoins, Joined, poolVars, callVars, sizeVars, NetTypeOK
  <2>2. callPc' \in {callPc, "start", "reloaded"} /\ sig' \in {sig, "done"}
    BY <1>4 DEF JoinStep, JoinPool, HandlerJoins, AfterStop, callVars
  <2> QED BY <1>1, <1>3, <2>1, <2>2 DEF NetTypes, NetTypeOK
<1>5. CASE StartPool
  <2>1. Idle \in ThreadType /\ Idle.at = "idle" /\ Idle.job = 0
    BY DEF Idle, Thread, ThreadType
  <2>2. /\ UNCHANGED <<cur, got, back, after, sig, nbFailures, reloads>>
        /\ workq' = <<>> /\ resultsq' = <<>> /\ closed' = FALSE /\ started' = TRUE /\ poolSize' = PoolSize
        /\ globalSize' = globalSize + PoolSize /\ callPc' = back
        /\ workers' = [w \in Workers |-> Idle] /\ jobsStatus' = NoJobs /\ jobsResults' = NoResults
    BY <1>5 DEF StartPool
  <2>3. globalSize' \in Int
    BY <1>1, <2>2, NetFacts DEF NetTypeOK
  <2>4. workers' \in [Workers -> ThreadType] /\ \A w \in Workers : workers'[w] = Idle
    BY <2>1, <2>2
  <2>5. NetTypeOK'
    <3>1. \A w \in Workers : workers'[w].at = "idle" /\ workers'[w].job = 0
      BY <2>1, <2>4
    <3>2. DOMAIN workq' = {} /\ DOMAIN resultsq' = {}
      BY <2>2
    <3>3. poolSize' \in {0, PoolSize} /\ started' \in BOOLEAN /\ closed' \in BOOLEAN
      BY <2>2
    <3>4. callPc' \in {"guard", "cleanjob", "apply"}
      BY <1>1, <2>2 DEF NetTypeOK
    <3>5. jobsStatus' \in [Instances -> NoJob..Timeout + 1] /\ jobsResults' \in [Instances -> {"none", "pending", "ready"}]
      BY <1>3, <2>2
    <3> QED BY <1>1, <2>2, <2>3, <3>1, <3>2, <3>3, <3>4, <3>5 DEF NetTypeOK
  <2> QED BY <2>1, <2>2, <2>4, <2>5 DEF NetTypes
<1>6. CASE CleanJob
  <2>1. /\ UNCHANGED <<cur, got, back, after, sig, started, poolSize, globalSize, nbFailures, resultsq, workq, closed, workers, reloads>>
        /\ jobsStatus' = [jobsStatus EXCEPT ![got] = NoJob] /\ jobsResults' = [jobsResults EXCEPT ![got] = "none"]
        /\ callPc' = "results"
    BY <1>6 DEF CleanJob, poolVars, sizeVars
  <2>2. jobsStatus' \in [Instances -> NoJob..Timeout + 1] /\ jobsResults' \in [Instances -> {"none", "pending", "ready"}]
    BY <1>1, <1>2, <2>1
  <2> QED BY <1>1, <2>1, <2>2 DEF NetTypes, NetTypeOK
<1>7. CASE ApplyAsync
  <2>1. /\ UNCHANGED <<got, back, after, sig, started, poolSize, globalSize, nbFailures, resultsq, closed, workers, reloads>>
        /\ NextInstance
        /\ jobsStatus' \in {jobsStatus, [jobsStatus EXCEPT ![cur] = 0]}
        /\ jobsResults' \in {jobsResults, [jobsResults EXCEPT ![cur] = "pending"]}
        /\ workq' \in {workq, Append(workq, cur)}
    BY <1>7 DEF ApplyAsync, sizeVars
  <2>2. jobsStatus' \in [Instances -> NoJob..Timeout + 1] /\ jobsResults' \in [Instances -> {"none", "pending", "ready"}]
    BY <1>1, <1>2, <2>1
  <2>3. cur \in Instances
    BY <1>1 DEF NetTypeOK
  <2>4. workq' \in Seq(Instances \cup {QUIT})
    <3> DEFINE S == Instances \cup {QUIT}
    <3>1. workq \in Seq(S) /\ cur \in S
      BY <2>3 DEF NetTypes
    <3> HIDE DEF S
    <3>2. Append(workq, cur) \in Seq(S)
      BY <3>1
    <3> QED BY <2>1, <3>1, <3>2 DEF S
  <2>5. \A i \in DOMAIN workq' : workq'[i] \in Instances \cup {QUIT}
    BY <2>4
  <2>6. cur' \in Instances /\ callPc' \in {"idle", "between"}
    BY <2>1, <2>3, NetFacts DEF NextInstance, Instances
  <2> QED BY <1>1, <2>1, <2>2, <2>4, <2>5, <2>6 DEF NetTypes, NetTypeOK
<1>8. CASE Reloaded
  <2>1. /\ UNCHANGED <<cur, got, back, after, sig, globalSize, workers, reloads>>
        /\ started' = FALSE /\ callPc' = "between"
        /\ poolSize' \in {poolSize, 0} /\ nbFailures' \in {nbFailures, 0}
        /\ jobsStatus' \in {jobsStatus, NoJobs} /\ jobsResults' \in {jobsResults, NoResults}
        /\ resultsq' \in {resultsq, <<>>} /\ workq' \in {workq, <<>>} /\ closed' \in {closed, TRUE}
    BY <1>8 DEF Reloaded, jobVars, poolVars
  <2>2. jobsStatus' \in [Instances -> NoJob..Timeout + 1] /\ jobsResults' \in [Instances -> {"none", "pending", "ready"}]
    BY <1>1, <1>3, <2>1
  <2>3. 0 \in 0..PoolSize
    BY NetFacts
  <2>4. workq' \in Seq(Instances \cup {QUIT}) /\ resultsq' \in Seq(ResultType)
    <3> DEFINE S == Instances \cup {QUIT}
               R == ResultType
    <3>1. workq \in Seq(S) /\ resultsq \in Seq(R)
      BY DEF NetTypes
    <3> HIDE DEF S, R
    <3>2. <<>> \in Seq(S) /\ <<>> \in Seq(R)
      OBVIOUS
    <3>3. workq' \in Seq(S)
      BY <2>1, <3>1, <3>2
    <3>4. resultsq' \in Seq(R)
      BY <2>1, <3>1, <3>2
    <3> QED BY <3>3, <3>4 DEF S, R
  <2>5. \A i \in DOMAIN workq' : workq'[i] \in Instances \cup {QUIT}
    BY <2>4
  <2>6. \A i \in DOMAIN resultsq' : resultsq'[i].job \in Instances /\ resultsq'[i].status \in {"ok", "fail"}
    BY <1>1, <2>1 DEF NetTypeOK
  <2> QED BY ZenonT(30), <1>1, <2>1, <2>2, <2>3, <2>4, <2>5, <2>6 DEF NetTypes, NetTypeOK
<1>9. CASE Tick
  <2>1. /\ UNCHANGED <<callPc, cur, got, back, after, sig, started, poolSize, globalSize, nbFailures, jobsResults, resultsq,
                       workq, closed, workers, reloads>>
        /\ jobsStatus' = [n \in Instances |-> Older(jobsStatus[n])]
    BY <1>9 DEF Tick, callVars, sizeVars, poolVars
  <2>2. \A n \in Instances : Older(jobsStatus[n]) \in NoJob..Timeout + 1
    BY <1>1, NetFacts DEF Older, NoJob
  <2>3. jobsStatus' \in [Instances -> NoJob..Timeout + 1]
    BY <2>1, <2>2
  <2> QED BY <1>1, <2>1, <2>3 DEF NetTypes, NetTypeOK
<1> QED BY <1>4, <1>5, <1>6, <1>7, <1>8, <1>9

LEMMA WorkTypes ==
    ASSUME NetTypes, NEW w \in Workers, WorkerTakes(w) \/ CheckReturns(w) \/ PutResult(w) \/ JobDone(w)
    PROVE  NetTypes'
<1> DEFINE S == Instances \cup {QUIT}
<1>1. /\ NetTypeOK /\ workers \in [Workers -> ThreadType] /\ workers[w] \in ThreadType
      /\ workq \in Seq(S) /\ resultsq \in Seq(ResultType)
      /\ \A v \in Workers : /\ workers[v].at = "idle" => workers[v] = Idle
                            /\ workers[v].at = "dead" => workers[v] = Dead
                            /\ workers[v].job \in (IF workers[v].at \in {"check", "put"} THEN Instances ELSE {0})
  BY DEF NetTypes, NetTypeOK
<1>2. UNCHANGED <<callPc, cur, got, back, after, sig, started, poolSize, globalSize, nbFailures, jobsStatus, closed, reloads>>
  BY DEF WorkerTakes, CheckReturns, PutResult, JobDone, callVars, sizeVars, jobVars
<1>3. PICK t : workers' = [workers EXCEPT ![w] = t]
  BY DEF WorkerTakes, CheckReturns, PutResult, JobDone
<1>4. workers'[w] = t /\ \A v \in Workers \ {w} : workers'[v] = workers[v]
  BY <1>1, <1>3
<1>5. /\ t \in ThreadType /\ (t.at = "idle" => t = Idle) /\ (t.at = "dead" => t = Dead)
      /\ t.job \in (IF t.at \in {"check", "put"} THEN Instances ELSE {0})
  <2>1. CASE WorkerTakes(w)
    <3>1. t = IF Head(workq) = QUIT THEN Dead ELSE Thread("check", Head(workq), <<>>)
      BY <1>1, <1>4, <2>1 DEF WorkerTakes
    <3>2. Head(workq) \in S
      BY <1>1, <2>1 DEF WorkerTakes
    <3> QED BY <3>1, <3>2 DEF Dead, Thread, ThreadType
  <2>2. CASE CheckReturns(w)
    <3>1. PICK batch \in Batches : workers' = [workers EXCEPT ![w] = Thread("put", workers[w].job, batch)]
      BY <2>2 DEF CheckReturns
    <3>2. t = Thread("put", workers[w].job, batch)
      BY <1>1, <1>4, <3>1
    <3>3. batch \in Seq(Outcomes)
      <4>1. PICK k \in 0..MaxBatch : batch \in [1..k -> Outcomes]
        BY DEF Batches, Outcomes
      <4>2. k \in Nat
        BY NetworkCheckAssumption
      <4> QED BY <4>1, <4>2
    <3>4. workers[w].job \in Instances
      BY <1>1, <2>2 DEF CheckReturns
    <3> QED BY <3>2, <3>3, <3>4 DEF Thread, ThreadType
  <2>3. CASE PutResult(w)
    <3>1. workers' = [workers EXCEPT ![w].out = Tail(@)] /\ workers[w].at = "put" /\ workers[w].out # <<>>
      BY <2>3 DEF PutResult
    <3>2. t = [workers[w] EXCEPT !.out = Tail(@)]
      BY <1>1, <1>4, <3>1
    <3>3. Tail(workers[w].out) \in Seq(Outcomes)
      BY <1>1, <3>1 DEF ThreadType
    <3>4. workers[w].job \in Instances
      BY <1>1, <3>1
    <3>5. t = [at |-> "put", job |-> workers[w].job, out |-> Tail(workers[w].out)]
      BY <1>1, <3>1, <3>2 DEF ThreadType
    <3> QED BY <3>3, <3>4, <3>5 DEF ThreadType
  <2>4. CASE JobDone(w)
    <3>1. t = Idle
      BY <1>1, <1>4, <2>4 DEF JobDone
    <3> QED BY <3>1 DEF Idle, Thread, ThreadType
  <2> QED BY <2>1, <2>2, <2>3, <2>4
<1>6. workers' \in [Workers -> ThreadType]
  BY <1>1, <1>3, <1>5
<1>7. \A v \in Workers : /\ (workers'[v].at = "idle" => workers'[v] = Idle)
                        /\ (workers'[v].at = "dead" => workers'[v] = Dead)
                        /\ workers'[v].job \in (IF workers'[v].at \in {"check", "put"} THEN Instances ELSE {0})
                        /\ workers'[v].at \in {"idle", "dead", "check", "put"}
  <2> TAKE v \in Workers
  <2>1. workers'[v] \in ThreadType
    BY <1>6
  <2>2. workers'[v].at \in {"idle", "dead", "check", "put"}
    BY <2>1 DEF ThreadType
  <2>3. CASE v = w
    BY <1>4, <1>5, <2>2, <2>3
  <2>4. CASE v # w
    BY <1>1, <1>4, <2>2, <2>4
  <2> QED BY <2>3, <2>4
<1>8. workq' \in Seq(S) /\ \A i \in DOMAIN workq' : workq'[i] \in S
  <2>1. workq' = workq \/ (workq # <<>> /\ workq' = Tail(workq))
    BY DEF WorkerTakes, CheckReturns, PutResult, JobDone
  <2>2. workq \in Seq(S)
    BY <1>1
  <2> HIDE DEF S
  <2>3. workq # <<>> => Tail(workq) \in Seq(S)
    BY <2>2, Queues
  <2>4. workq' \in Seq(S)
    BY <2>1, <2>2, <2>3
  <2> QED BY <2>4
<1>9. resultsq' \in Seq(ResultType)
  <2>1. CASE PutResult(w)
    <3>1. resultsq' = Append(resultsq, [job |-> workers[w].job, status |-> Head(workers[w].out)])
      BY <2>1 DEF PutResult
    <3>2. workers[w].job \in Instances /\ workers[w].out \in Seq(Outcomes) /\ workers[w].out # <<>>
      BY <1>1, <2>1 DEF PutResult, ThreadType
    <3>3. [job |-> workers[w].job, status |-> Head(workers[w].out)] \in ResultType
      <4>1. Head(workers[w].out) \in Outcomes
        BY <3>2
      <4> QED BY <3>2, <4>1 DEF ResultType
    <3> QED BY <1>1, <3>1, <3>3
  <2>2. CASE ~PutResult(w)
    <3>1. resultsq' = resultsq
      BY <2>2 DEF WorkerTakes, CheckReturns, JobDone, jobVars
    <3> QED BY <1>1, <3>1
  <2> QED BY <2>1, <2>2
<1>10. \A i \in DOMAIN resultsq' : resultsq'[i].job \in Instances /\ resultsq'[i].status \in {"ok", "fail"}
  <2>1. \A i \in DOMAIN resultsq' : resultsq'[i] \in ResultType
    BY <1>9
  <2> QED BY <2>1 DEF ResultType, Outcomes
<1>11. jobsResults' \in [Instances -> {"none", "pending", "ready"}]
  <2>1. jobsResults \in [Instances -> {"none", "pending", "ready"}]
    BY <1>1 DEF NetTypeOK
  <2>2. CASE JobDone(w)
    <3>1. jobsResults' = [jobsResults EXCEPT ![workers[w].job] = IF @ = "pending" THEN "ready" ELSE @]
      BY <2>2 DEF JobDone
    <3>2. workers[w].job \in Instances
      BY <1>1, <2>2 DEF JobDone
    <3> QED BY <2>1, <3>1, <3>2
  <2>3. CASE ~JobDone(w)
    BY <2>1, <2>3 DEF WorkerTakes, CheckReturns, PutResult, jobVars
  <2> QED BY <2>2, <2>3
<1> QED BY <1>1, <1>2, <1>6, <1>7, <1>8, <1>9, <1>10, <1>11 DEF NetTypes, NetTypeOK

LEMMA TypesStep ==
    ASSUME NetTypes, [NetNext]_netVars
    PROVE  NetTypes'
  BY NetSteps, QuietTypes, StopTypes, CallTypes, WorkTypes

-----------------------------------------------------------------------------
(* The phases of the pool                                                    *)

LEMMA NoneAlive == Alive = {} <=> \A w \in Workers : workers[w] = Dead
  BY DEF Alive

LEMMA NoJobsLeft ==
    ASSUME NetTypes, Phases, closed, Alive = {}
    PROVE  \A n \in Instances : ~HasJob(n)
<1>1. \A i \in DOMAIN workq : workq[i] = QUIT
  BY DEF Phases
<1>2. \A w \in Workers : workers[w].job = 0
  BY NoneAlive DEF Dead, Thread
<1> QED BY <1>1, <1>2, NetFacts DEF HasJob, QUIT

LEMMA PhasesStep ==
    ASSUME NetTypes, Phases, [NetNext]_netVars
    PROVE  Phases'
<1>1. NetTypeOK /\ workq \in Seq(Instances \cup {QUIT}) /\ workers \in [Workers -> ThreadType]
  BY DEF NetTypes
<1>2. CASE Quiet
  <2>1. UNCHANGED <<workq, closed, workers, started>>
    BY <1>2, QuietPool
  <2>2. Alive' = Alive
    BY <2>1 DEF Alive
  <2>3. /\ callPc' \in {"join", "reloaded"} => callPc' = callPc
        /\ callPc' = "start" => (callPc = "start" \/ ~started)
        /\ sig' = "join" => sig = "join"
    BY <1>2 DEF Quiet, BeginRun, Check, Skip, Guard, NoMoreResults, Report, Failure, TakeResult, Clean, Reload,
         Sigterm, Exit, netVars, callVars, NextInstance, RestartPool
  <2> QED BY <2>1, <2>2, <2>3 DEF Phases
<1>3. CASE StopStep
  <2>1. UNCHANGED <<workers, started>>
    BY <1>3 DEF StopStep, StopPool, HandlerStops, Terminate, poolVars
  <2>2. Alive' = Alive
    BY <2>1 DEF Alive
  <2>3. IF started THEN closed' /\ workq' = [w \in Workers |-> QUIT] ELSE UNCHANGED <<closed, workq>>
    BY <1>3 DEF StopStep, StopPool, HandlerStops, Terminate, poolVars
  <2>4. CASE started
    <3>1. \A i \in DOMAIN workq' : workq'[i] = QUIT
      BY <2>3, <2>4
    <3>2. closed'
      BY <2>3, <2>4
    <3>3. /\ callPc' \in {"start", "reloaded"} => callPc' = callPc
      BY <1>3, <2>4 DEF StopStep, StopPool, HandlerStops, callVars
    <3> QED BY <2>1, <2>2, <2>4, <3>1, <3>2, <3>3 DEF Phases
  <2>5. CASE ~started
    <3>1. /\ callPc' \in {"start", "reloaded", callPc} /\ sig' \in {sig, "done"}
      BY <1>3, <2>5 DEF StopStep, StopPool, HandlerStops, AfterStop, callVars
    <3>2. Alive = {} /\ closed
      BY <2>5 DEF Phases
    <3> QED BY <2>1, <2>2, <2>3, <2>5, <3>1, <3>2 DEF Phases
  <2> QED BY <2>4, <2>5
<1>4. CASE JoinStep
  <2>1. closed /\ Alive = {} /\ UNCHANGED <<workq, closed, workers>>
    BY <1>4 DEF JoinStep, JoinPool, HandlerJoins, Joined, poolVars, Phases
  <2>2. Alive' = Alive
    BY <2>1 DEF Alive
  <2> QED BY <2>1, <2>2 DEF Phases
<1>5. CASE StartPool
  <2>1. closed' = FALSE /\ started' = TRUE /\ callPc' = back /\ back \in {"guard", "cleanjob", "apply"}
        /\ sig' = sig /\ sig # "join"
    BY <1>1, <1>5 DEF StartPool, Running, NetTypeOK
  <2> QED BY <2>1 DEF Phases
<1>6. CASE CleanJob \/ ApplyAsync \/ Tick
  <2>1. UNCHANGED <<closed, workers, started, sig>> /\ callPc' \in {callPc, "results", "idle", "between"}
    BY <1>6 DEF CleanJob, ApplyAsync, Tick, NextInstance, poolVars, sizeVars, callVars
  <2>2. Alive' = Alive
    BY <2>1 DEF Alive
  <2>3. closed => workq' = workq
    BY <1>6 DEF CleanJob, ApplyAsync, Tick, poolVars
  <2> QED BY <2>1, <2>2, <2>3 DEF Phases
<1>7. CASE Reloaded
  <2>1. closed /\ Alive = {} /\ callPc' = "between" /\ sig' = sig /\ workers' = workers
    BY <1>7 DEF Reloaded, Phases, poolVars
  <2>2. Alive' = Alive
    BY <2>1 DEF Alive
  <2>3. (workq' = workq \/ workq' = <<>>) /\ closed'
    BY <1>7, <2>1 DEF Reloaded, poolVars
  <2>4. \A i \in DOMAIN workq' : workq'[i] = QUIT
    BY <2>1, <2>3 DEF Phases
  <2> QED BY <2>1, <2>2, <2>3, <2>4 DEF Phases
<1>8. ASSUME NEW w \in Workers, WorkerTakes(w) \/ CheckReturns(w) \/ PutResult(w) \/ JobDone(w)
      PROVE  Phases'
  <2>1. UNCHANGED <<closed, started, callPc, sig>>
    BY <1>8 DEF WorkerTakes, CheckReturns, PutResult, JobDone, callVars, sizeVars
  <2>2. workers[w] # Dead
    BY <1>8 DEF WorkerTakes, CheckReturns, PutResult, JobDone, Idle, Dead, Thread
  <2>3. Alive # {}
    BY <2>2 DEF Alive
  <2>4. closed => \A i \in DOMAIN workq' : workq'[i] = QUIT
    <3>1. CASE workq' = workq
      BY <3>1 DEF Phases
    <3>2. CASE workq' # workq
      <4>1. workq # <<>> /\ workq' = Tail(workq)
        BY <1>8, <3>2 DEF WorkerTakes, CheckReturns, PutResult, JobDone
      <4>2. DOMAIN Tail(workq) = 1..(Len(workq) - 1) /\ DOMAIN workq = 1..Len(workq) /\ Len(workq) \in Nat \ {0}
            /\ \A i \in 1..(Len(workq) - 1) : Tail(workq)[i] = workq[i + 1]
        <5> DEFINE S == Instances \cup {QUIT}
        <5>1. workq \in Seq(S)
          BY <1>1
        <5> HIDE DEF S
        <5> QED BY <4>1, <5>1, Queues
      <4>3. \A i \in 1..(Len(workq) - 1) : i + 1 \in DOMAIN workq
        BY <4>2
      <4> QED BY <4>1, <4>2, <4>3 DEF Phases
    <3> QED BY <3>1, <3>2
  <2> QED BY <2>1, <2>3, <2>4 DEF Phases
<1> QED BY <1>2, <1>3, <1>4, <1>5, <1>6, <1>7, <1>8, NetSteps

-----------------------------------------------------------------------------
(* The places of a job                                                       *)

LEMMA SamePlaces ==
    ASSUME OnePlaced, workq' = workq, workers' = workers
    PROVE  OnePlaced' /\ \A n \in Instances : HasJob(n)' <=> HasJob(n)
  BY DEF OnePlaced, HasJob

LEMMA DroppedPlaces ==
    ASSUME OnePlaced, workers' = workers, \A i \in DOMAIN workq' : workq'[i] = QUIT
    PROVE  OnePlaced' /\ \A n \in Instances : HasJob(n)' => HasJob(n)
<1>1. \A n \in Instances : n # QUIT
  BY NetFacts DEF QUIT
<1>2. \A n \in Instances, i \in DOMAIN workq' : workq'[i] # n
  BY <1>1
<1> QED BY <1>2 DEF OnePlaced, HasJob

LEMMA FreshPlaces ==
    ASSUME StartPool
    PROVE  OnePlaced' /\ \A n \in Instances : ~HasJob(n)'
<1>1. workq' = <<>> /\ \A w \in Workers : workers'[w].job = 0
  BY DEF StartPool, Idle, Thread
<1>2. DOMAIN workq' = {}
  BY <1>1
<1> QED BY <1>1, <1>2, NetFacts DEF OnePlaced, HasJob

LEMMA AppliedPlaces ==
    ASSUME NetTypes, OnePlaced, workers' = workers, cur \in Instances, ~HasJob(cur), workq' = Append(workq, cur)
    PROVE  OnePlaced' /\ \A n \in Instances : HasJob(n)' => HasJob(n) \/ n = cur
<1> DEFINE S == Instances \cup {QUIT}
           K == Len(workq)
<1>1. workq \in Seq(S) /\ cur \in S
  BY DEF NetTypes
<1> HIDE DEF S
<1>2. /\ DOMAIN workq' = 1..(K + 1) /\ K \in Nat /\ DOMAIN workq = 1..K
      /\ \A i \in 1..K : workq'[i] = workq[i]
      /\ workq'[K + 1] = cur
  BY <1>1, Added
<1> HIDE DEF K
<1>3. \A i \in DOMAIN workq' : i # K + 1 => i \in DOMAIN workq /\ workq'[i] = workq[i]
  BY <1>2
<1>4. \A i \in DOMAIN workq : workq[i] # cur
  BY DEF HasJob
<1>5. \A w \in Workers : workers[w].job # cur
  BY DEF HasJob
<1>6. ASSUME NEW n \in Instances
      PROVE  /\ \A i, j \in DOMAIN workq' : workq'[i] = n /\ workq'[j] = n => i = j
             /\ \A i \in DOMAIN workq', w \in Workers : ~(workq'[i] = n /\ workers'[w].job = n)
  <2>1. CASE n = cur
    BY <1>2, <1>3, <1>4, <1>5, <2>1
  <2>2. CASE n # cur
    <3>1. \A i \in DOMAIN workq' : workq'[i] = n => i \in DOMAIN workq /\ workq[i] = n
      BY <1>2, <1>3, <2>2
    <3> QED BY <3>1 DEF OnePlaced
  <2> QED BY <2>1, <2>2
<1>7. OnePlaced'
  BY <1>6 DEF OnePlaced
<1>8. \A n \in Instances : HasJob(n)' => HasJob(n) \/ n = cur
  BY <1>2, <1>3 DEF HasJob
<1> QED BY <1>7, <1>8

LEMMA TakenPlaces ==
    ASSUME NetTypes, OnePlaced, NEW w \in Workers, WorkerTakes(w)
    PROVE  OnePlaced' /\ \A n \in Instances : HasJob(n)' => HasJob(n)
<1> DEFINE S == Instances \cup {QUIT}
           K == Len(workq)
<1>1. workq \in Seq(S) /\ workq # <<>> /\ workers \in [Workers -> ThreadType] /\ workers[w] = Idle
  BY DEF NetTypes, WorkerTakes
<1> HIDE DEF S
<1>2. /\ K \in Nat \ {0} /\ DOMAIN workq = 1..K /\ Head(workq) = workq[1]
      /\ DOMAIN workq' = 1..(K - 1)
      /\ \A i \in 1..(K - 1) : workq'[i] = workq[i + 1]
  BY <1>1, Queues DEF WorkerTakes
<1> HIDE DEF K
<1>3. /\ \A i \in DOMAIN workq' : i + 1 \in DOMAIN workq /\ workq'[i] = workq[i + 1] /\ i + 1 # 1 /\ i \in Int
      /\ 1 \in DOMAIN workq
  BY <1>2
<1>4. /\ \A v \in Workers \ {w} : workers'[v] = workers[v]
      /\ workers'[w] = IF Head(workq) = QUIT THEN Dead ELSE Thread("check", Head(workq), <<>>)
  BY <1>1 DEF WorkerTakes
<1>5. \A n \in Instances : workers'[w].job = n => workq[1] = n
  BY <1>2, <1>4, NetFacts DEF Dead, Thread, QUIT
<1>6. \A n \in Instances : workers[w].job # n
  BY <1>1, NetFacts DEF Idle, Thread
<1>7. ASSUME NEW n \in Instances
      PROVE  /\ \A i, j \in DOMAIN workq' : workq'[i] = n /\ workq'[j] = n => i = j
             /\ \A u, v \in Workers : workers'[u].job = n /\ workers'[v].job = n => u = v
             /\ \A i \in DOMAIN workq', u \in Workers : ~(workq'[i] = n /\ workers'[u].job = n)
  <2>1. ASSUME NEW i \in DOMAIN workq', NEW j \in DOMAIN workq', workq'[i] = n, workq'[j] = n
        PROVE  i = j
    <3>1. i + 1 = j + 1
      BY <1>3, <2>1 DEF OnePlaced
    <3> QED BY <1>3, <3>1
  <2>2. ASSUME NEW u \in Workers, NEW v \in Workers, workers'[u].job = n, workers'[v].job = n
        PROVE  u = v
    <3>1. CASE u # w /\ v # w
      BY <1>4, <2>2, <3>1 DEF OnePlaced
    <3>2. CASE u = w /\ v # w
      BY <1>3, <1>4, <1>5, <2>2, <3>2 DEF OnePlaced
    <3>3. CASE u # w /\ v = w
      BY <1>3, <1>4, <1>5, <2>2, <3>3 DEF OnePlaced
    <3> QED BY <3>1, <3>2, <3>3
  <2>3. ASSUME NEW i \in DOMAIN workq', NEW u \in Workers, workq'[i] = n, workers'[u].job = n
        PROVE  FALSE
    <3>1. CASE u = w
      BY <1>3, <1>5, <2>3, <3>1 DEF OnePlaced
    <3>2. CASE u # w
      BY <1>3, <1>4, <2>3, <3>2 DEF OnePlaced
    <3> QED BY <3>1, <3>2
  <2> QED BY <2>1, <2>2, <2>3
<1>8. OnePlaced'
  BY <1>7 DEF OnePlaced
<1>9. ASSUME NEW n \in Instances, HasJob(n)'
      PROVE  HasJob(n)
  <2>1. CASE \E i \in DOMAIN workq' : workq'[i] = n
    BY <1>3, <2>1 DEF HasJob
  <2>2. CASE \E v \in Workers : workers'[v].job = n
    <3>1. PICK v \in Workers : workers'[v].job = n
      BY <2>2
    <3>2. CASE v = w
      BY <1>3, <1>5, <3>1, <3>2 DEF HasJob
    <3>3. CASE v # w
      BY <1>4, <3>1, <3>3 DEF HasJob
    <3> QED BY <3>2, <3>3
  <2> QED BY <1>9, <2>1, <2>2 DEF HasJob
<1> QED BY <1>8, <1>9

LEMMA RunPlaces ==
    ASSUME NetTypes, OnePlaced, NEW w \in Workers, CheckReturns(w) \/ PutResult(w) \/ JobDone(w)
    PROVE  /\ OnePlaced' /\ \A n \in Instances : HasJob(n)' => HasJob(n)
           /\ JobDone(w) => \A n \in Instances : workers[w].job = n => ~HasJob(n)'
           /\ JobDone(w) \/ workers'[w].job = workers[w].job
<1>1. workers \in [Workers -> ThreadType] /\ workq' = workq
  BY DEF NetTypes, CheckReturns, PutResult, JobDone
<1>2. PICK t : workers' = [workers EXCEPT ![w] = t]
  BY DEF CheckReturns, PutResult, JobDone
<1>3. workers'[w] = t /\ \A v \in Workers \ {w} : workers'[v] = workers[v]
  BY <1>1, <1>2
<1>4. t.job = workers[w].job \/ (JobDone(w) /\ t.job = 0)
  <2>1. CASE CheckReturns(w)
    <3>1. PICK batch \in Batches : workers' = [workers EXCEPT ![w] = Thread("put", workers[w].job, batch)]
      BY <2>1 DEF CheckReturns
    <3>2. t = Thread("put", workers[w].job, batch)
      BY <1>1, <1>3, <3>1
    <3> QED BY <3>2 DEF Thread
  <2>2. CASE PutResult(w)
    <3>1. t = [workers[w] EXCEPT !.out = Tail(@)]
      BY <1>1, <1>3, <2>2 DEF PutResult
    <3>2. workers[w] \in ThreadType
      BY <1>1
    <3> QED BY <3>1, <3>2 DEF ThreadType
  <2>3. CASE JobDone(w)
    BY <1>1, <1>3, <2>3 DEF JobDone, Idle, Thread
  <2> QED BY <2>1, <2>2, <2>3
<1>5. \A n \in Instances, v \in Workers : workers'[v].job = n => workers[v].job = n
  BY <1>3, <1>4, NetFacts
<1>6. OnePlaced' /\ \A n \in Instances : HasJob(n)' => HasJob(n)
  <2>1. OnePlaced'
    BY <1>1, <1>5 DEF OnePlaced
  <2>2. \A n \in Instances : HasJob(n)' => HasJob(n)
    BY <1>1, <1>5 DEF HasJob
  <2> QED BY <2>1, <2>2
<1>7. ASSUME JobDone(w), NEW n \in Instances, workers[w].job = n
      PROVE  ~HasJob(n)'
  <2>1. workers'[w].job # n
    BY <1>1, <1>3, <1>7, NetFacts DEF JobDone, Idle, Thread
  <2>2. \A v \in Workers : workers'[v].job # n
    BY <1>5, <1>7, <2>1 DEF OnePlaced
  <2>3. \A i \in DOMAIN workq' : workq'[i] # n
    BY <1>1, <1>7 DEF OnePlaced
  <2> QED BY <2>2, <2>3 DEF HasJob
<1> QED BY <1>3, <1>4, <1>6, <1>7

-----------------------------------------------------------------------------
(* The jobs that the check knows of                                          *)

LEMMA PlacesStep ==
    ASSUME NetTypes, Phases, OnePlaced, JobsKnown, [NetNext]_netVars
    PROVE  OnePlaced' /\ JobsKnown'
<1>1. /\ jobsStatus \in [Instances -> NoJob..Timeout + 1]
      /\ jobsResults \in [Instances -> {"none", "pending", "ready"}] /\ cur \in Instances /\ got \in Instances
  BY DEF NetTypes, NetTypeOK
<1>2. CASE Quiet
  <2>1. UNCHANGED <<workq, workers, jobsStatus, jobsResults>>
    BY <1>2, QuietPool
  <2>2. OnePlaced' /\ \A n \in Instances : HasJob(n)' <=> HasJob(n)
    BY <2>1, SamePlaces
  <2> QED BY <2>1, <2>2 DEF JobsKnown
<1>3. CASE StopStep
  <2>1. UNCHANGED <<workers, jobsStatus, jobsResults>>
    BY <1>3 DEF StopStep, StopPool, HandlerStops, Terminate, poolVars, jobVars
  <2>2. workq' = workq \/ workq' = [w \in Workers |-> QUIT]
    BY <1>3 DEF StopStep, StopPool, HandlerStops, Terminate, poolVars
  <2>3. OnePlaced' /\ \A n \in Instances : HasJob(n)' => HasJob(n)
    <3>1. CASE workq' = workq
      BY <2>1, <3>1, SamePlaces
    <3>2. CASE workq' = [w \in Workers |-> QUIT]
      <4>1. \A i \in DOMAIN workq' : workq'[i] = QUIT
        BY <3>2
      <4> QED BY <2>1, <4>1, DroppedPlaces
    <3> QED BY <2>2, <3>1, <3>2
  <2> QED BY <2>1, <2>3 DEF JobsKnown
<1>4. CASE JoinStep
  <2>1. closed /\ Alive = {} /\ UNCHANGED <<workq, workers>>
    BY <1>4 DEF JoinStep, JoinPool, HandlerJoins, Joined, poolVars, Phases
  <2>2. OnePlaced' /\ \A n \in Instances : HasJob(n)' <=> HasJob(n)
    BY <2>1, SamePlaces
  <2>3. \A n \in Instances : ~HasJob(n)
    BY <2>1, NoJobsLeft
  <2> QED BY <2>2, <2>3 DEF JobsKnown
<1>5. CASE StartPool
  BY <1>5, FreshPlaces DEF JobsKnown
<1>6. CASE CleanJob
  <2>1. /\ UNCHANGED <<workq, workers>> /\ jobsResults[got] # "pending"
        /\ jobsStatus' = [jobsStatus EXCEPT ![got] = NoJob]
        /\ jobsResults' = [jobsResults EXCEPT ![got] = "none"]
    BY <1>6 DEF CleanJob, poolVars
  <2>2. OnePlaced' /\ \A n \in Instances : HasJob(n)' <=> HasJob(n)
    BY <2>1, SamePlaces
  <2>3. ~HasJob(got)
    BY <1>1, <2>1 DEF JobsKnown
  <2>4. \A n \in Instances : n # got => jobsStatus'[n] = jobsStatus[n] /\ jobsResults'[n] = jobsResults[n]
    BY <1>1, <2>1
  <2> QED BY <2>2, <2>3, <2>4 DEF JobsKnown
<1>7. CASE ApplyAsync
  <2>1. CASE closed \/ jobsStatus[cur] # NoJob
    <3>1. UNCHANGED <<workq, workers, jobsResults>>
      BY <1>7, <2>1 DEF ApplyAsync
    <3>2. OnePlaced' /\ \A n \in Instances : HasJob(n)' <=> HasJob(n)
      BY <3>1, SamePlaces
    <3>3. jobsStatus' = jobsStatus \/ (jobsStatus[cur] = NoJob /\ jobsStatus' = [jobsStatus EXCEPT ![cur] = 0])
      BY <1>7 DEF ApplyAsync
    <3>4. \A n \in Instances : jobsStatus[n] # NoJob => jobsStatus'[n] # NoJob
      BY <1>1, <3>3
    <3> QED BY <3>1, <3>2, <3>4 DEF JobsKnown
  <2>2. CASE ~closed /\ jobsStatus[cur] = NoJob
    <3>1. /\ workers' = workers /\ workq' = Append(workq, cur)
          /\ jobsStatus' = [jobsStatus EXCEPT ![cur] = 0]
          /\ jobsResults' = [jobsResults EXCEPT ![cur] = "pending"]
      BY <1>7, <2>2 DEF ApplyAsync
    <3>2. ~HasJob(cur)
      BY <1>1, <2>2 DEF JobsKnown
    <3>3. OnePlaced' /\ \A n \in Instances : HasJob(n)' => HasJob(n) \/ n = cur
      BY <1>1, <3>1, <3>2, AppliedPlaces
    <3>4. /\ jobsStatus'[cur] # NoJob /\ jobsResults'[cur] = "pending"
          /\ \A n \in Instances : n # cur => jobsStatus'[n] = jobsStatus[n] /\ jobsResults'[n] = jobsResults[n]
      BY <1>1, <3>1 DEF NoJob
    <3> QED BY <3>3, <3>4 DEF JobsKnown
  <2> QED BY <2>1, <2>2
<1>8. CASE Reloaded
  <2>1. closed /\ Alive = {} /\ workers' = workers
    BY <1>8 DEF Reloaded, Phases, poolVars
  <2>2. \A n \in Instances : ~HasJob(n)
    BY <2>1, NoJobsLeft
  <2>3. workq' = workq \/ workq' = <<>>
    BY <1>8 DEF Reloaded, poolVars
  <2>4. OnePlaced' /\ \A n \in Instances : HasJob(n)' => HasJob(n)
    <3>1. \A i \in DOMAIN workq' : workq'[i] = QUIT
      BY <2>1, <2>3 DEF Phases
    <3> QED BY <2>1, <3>1, DroppedPlaces
  <2> QED BY <2>2, <2>4 DEF JobsKnown
<1>9. CASE Tick
  <2>1. /\ UNCHANGED <<workq, workers, jobsResults>>
        /\ jobsStatus' = [n \in Instances |-> Older(jobsStatus[n])]
    BY <1>9 DEF Tick, poolVars
  <2>2. OnePlaced' /\ \A n \in Instances : HasJob(n)' <=> HasJob(n)
    BY <2>1, SamePlaces
  <2>3. \A n \in Instances : jobsStatus[n] # NoJob => jobsStatus'[n] # NoJob
    BY <1>1, <2>1, NetFacts DEF Older, NoJob
  <2> QED BY <2>1, <2>2, <2>3 DEF JobsKnown
<1>10. ASSUME NEW w \in Workers, WorkerTakes(w) \/ CheckReturns(w) \/ PutResult(w)
       PROVE  OnePlaced' /\ JobsKnown'
  <2>1. UNCHANGED <<jobsStatus, jobsResults>>
    BY <1>10 DEF WorkerTakes, CheckReturns, PutResult, jobVars
  <2>2. OnePlaced' /\ \A n \in Instances : HasJob(n)' => HasJob(n)
    BY <1>10, TakenPlaces, RunPlaces
  <2> QED BY <2>1, <2>2 DEF JobsKnown
<1>11. ASSUME NEW w \in Workers, JobDone(w)
       PROVE  OnePlaced' /\ JobsKnown'
  <2>1. /\ OnePlaced' /\ \A n \in Instances : HasJob(n)' => HasJob(n)
        /\ \A n \in Instances : workers[w].job = n => ~HasJob(n)'
    BY <1>11, RunPlaces
  <2>2. jobsStatus' = jobsStatus /\ \A n \in Instances : n # workers[w].job => jobsResults'[n] = jobsResults[n]
    BY <1>1, <1>11 DEF JobDone
  <2> QED BY <2>1, <2>2 DEF JobsKnown
<1> QED BY <1>2, <1>3, <1>4, <1>5, <1>6, <1>7, <1>8, <1>9, <1>10, <1>11, NetSteps

-----------------------------------------------------------------------------
(* The results and the jobs they come from                                   *)

\* What a step that leaves the threads and the jobs alone, and takes results at most,
\* does to them.
LEMMA TakenResults ==
    ASSUME NetTypes, ResultsPut, UNCHANGED <<workers, jobsResults, jobsStatus>>, closed => closed',
           resultsq' = resultsq \/ (resultsq # <<>> /\ resultsq' = Tail(resultsq)),
           callPc' = "cleanjob" => \/ callPc = "cleanjob" /\ got' = got
                                   \/ resultsq # <<>> /\ got' = Head(resultsq).job,
           callPc' \in {"clean", "apply"} => callPc \in {"clean", "apply"} \/ resultsq = <<>>
    PROVE  ResultsPut'
<1> DEFINE S == ResultType
           K == Len(resultsq)
<1>1. resultsq \in Seq(S)
  BY DEF NetTypes
<1> HIDE DEF S
<1>2. resultsq # <<>> => /\ K \in Nat \ {0} /\ DOMAIN resultsq = 1..K
                         /\ Head(resultsq) = resultsq[1] /\ DOMAIN Tail(resultsq) = 1..(K - 1)
                         /\ \A i \in 1..(K - 1) : Tail(resultsq)[i] = resultsq[i + 1]
  BY <1>1, Queues
<1> HIDE DEF K
<1>3. \A i \in DOMAIN resultsq' : \E j \in DOMAIN resultsq : resultsq'[i] = resultsq[j]
  <2>1. CASE resultsq' = resultsq
    BY <2>1
  <2>2. CASE resultsq # <<>> /\ resultsq' = Tail(resultsq)
    <3>1. \A i \in 1..(K - 1) : i + 1 \in DOMAIN resultsq
      BY <1>2, <2>2
    <3> QED BY <1>2, <2>2, <3>1
  <2> QED BY <2>1, <2>2
<1>4. \A n \in Instances : Putting(n)' <=> Putting(n)
  BY DEF Putting
<1>5. \A i \in DOMAIN resultsq : resultsq[i].job \in Instances
  BY DEF NetTypes, NetTypeOK
<1>6. \A n \in Instances, i \in DOMAIN resultsq : resultsq[i].job = n /\ jobsResults[n] = "pending" => Putting(n)
  BY DEF ResultsPut
<1>7. \A n \in Instances, i \in DOMAIN resultsq' : resultsq'[i].job = n /\ jobsResults'[n] = "pending" => Putting(n)'
  BY <1>3, <1>4, <1>6
<1>8. callPc' = "cleanjob" => \A n \in Instances : n = got' /\ jobsResults'[n] = "pending" => Putting(n)'
  <2>1. ASSUME callPc' = "cleanjob", NEW n \in Instances, n = got', jobsResults'[n] = "pending"
        PROVE  Putting(n)'
    <3>1. CASE callPc = "cleanjob" /\ got' = got
      BY <1>4, <2>1, <3>1 DEF ResultsPut
    <3>2. CASE resultsq # <<>> /\ got' = Head(resultsq).job
      <4>1. 1 \in DOMAIN resultsq /\ resultsq[1].job = n
        BY <1>2, <2>1, <3>2
      <4> QED BY <1>4, <1>6, <2>1, <4>1
    <3> QED BY <2>1, <3>1, <3>2
  <2> QED BY <2>1
<1>9. callPc' \in {"clean", "apply"} /\ ~closed' =>
          \A n \in Instances, i \in DOMAIN resultsq' : resultsq'[i].job = n => jobsStatus'[n] # NoJob
  <2>1. CASE callPc \in {"clean", "apply"}
    BY <1>3, <2>1 DEF ResultsPut
  <2>2. CASE resultsq = <<>>
    BY <1>3, <2>2
  <2> QED BY <2>1, <2>2
<1> QED BY <1>3, <1>5, <1>7, <1>8, <1>9 DEF ResultsPut

LEMMA ResultsStep ==
    ASSUME NetTypes, Phases, JobsKnown, ResultsPut, [NetNext]_netVars
    PROVE  ResultsPut'
<1>1. /\ jobsStatus \in [Instances -> NoJob..Timeout + 1]
      /\ jobsResults \in [Instances -> {"none", "pending", "ready"}] /\ cur \in Instances /\ got \in Instances
  BY DEF NetTypes, NetTypeOK
<1>2. CASE Quiet
  <2>1. UNCHANGED <<closed, workers, jobsStatus, jobsResults>>
    BY <1>2, QuietPool
  <2>2. resultsq' = resultsq \/ (resultsq # <<>> /\ resultsq' = Tail(resultsq))
    BY <1>2 DEF Quiet, BeginRun, Check, Skip, Guard, NoMoreResults, Report, Failure, TakeResult, Clean, Reload,
         Sigterm, Exit, netVars, jobVars
  <2>3. callPc' = "cleanjob" => \/ callPc = "cleanjob" /\ got' = got
                                \/ resultsq # <<>> /\ got' = Head(resultsq).job
    BY <1>2 DEF Quiet, BeginRun, Check, Skip, Guard, NoMoreResults, Report, Failure, TakeResult, Clean, Reload,
         Sigterm, Exit, netVars, callVars, NextInstance, RestartPool
  <2>4. callPc' \in {"clean", "apply"} => callPc \in {"clean", "apply"} \/ resultsq = <<>>
    BY <1>2 DEF Quiet, BeginRun, Check, Skip, Guard, NoMoreResults, Report, Failure, TakeResult, Clean, Reload,
         Sigterm, Exit, netVars, callVars, NextInstance, RestartPool
  <2> QED BY <2>1, <2>2, <2>3, <2>4, TakenResults
<1>3. CASE StopStep
  <2>1. UNCHANGED <<workers, jobsResults, jobsStatus, resultsq, got>> /\ (closed => closed')
    BY <1>3 DEF StopStep, StopPool, HandlerStops, Terminate, poolVars, jobVars, callVars
  <2>2. callPc' \in {callPc, "join", "start", "reloaded"}
    BY <1>3 DEF StopStep, StopPool, HandlerStops, AfterStop, callVars
  <2> QED BY <2>1, <2>2, TakenResults
<1>4. CASE JoinStep
  <2>1. closed' /\ UNCHANGED <<workers, jobsResults, resultsq, got>> /\ callPc' \in {callPc, "start", "reloaded"}
    BY <1>4 DEF JoinStep, JoinPool, HandlerJoins, Joined, AfterStop, poolVars, callVars, Phases
  <2>2. \A n \in Instances : Putting(n)' <=> Putting(n)
    BY <2>1 DEF Putting
  <2> QED BY <2>1, <2>2 DEF ResultsPut
<1>5. CASE StartPool
  <2>1. resultsq' = <<>> /\ jobsResults' = [n \in Instances |-> "none"]
    BY <1>5 DEF StartPool, NoResults
  <2>2. DOMAIN resultsq' = {} /\ \A n \in Instances : jobsResults'[n] = "none"
    BY <2>1
  <2> QED BY <2>2 DEF ResultsPut
<1>6. CASE CleanJob
  <2>1. /\ UNCHANGED <<workers, resultsq>> /\ callPc' = "results"
        /\ jobsResults' = [jobsResults EXCEPT ![got] = "none"]
    BY <1>6 DEF CleanJob, poolVars
  <2>2. \A n \in Instances : jobsResults'[n] = "pending" => jobsResults[n] = "pending"
    BY <1>1, <2>1
  <2>3. \A n \in Instances : Putting(n)' <=> Putting(n)
    BY <2>1 DEF Putting
  <2> QED BY <2>1, <2>2, <2>3 DEF ResultsPut
<1>7. CASE ApplyAsync
  <2>1. UNCHANGED <<workers, resultsq>> /\ callPc' \in {"idle", "between"} /\ callPc = "apply"
    BY <1>7 DEF ApplyAsync, NextInstance
  <2>2. \A n \in Instances : Putting(n)' <=> Putting(n)
    BY <2>1 DEF Putting
  <2>3. ASSUME NEW n \in Instances, \E i \in DOMAIN resultsq : resultsq[i].job = n, jobsResults'[n] = "pending"
        PROVE  jobsResults[n] = "pending"
    <3>1. CASE jobsResults' = jobsResults
      BY <2>3, <3>1
    <3>2. CASE jobsResults' # jobsResults
      <4>1. jobsStatus[cur] = NoJob /\ ~closed /\ jobsResults' = [jobsResults EXCEPT ![cur] = "pending"]
        BY <1>7, <3>2 DEF ApplyAsync
      <4>2. n # cur
        BY <2>1, <2>3, <4>1 DEF ResultsPut
      <4> QED BY <1>1, <2>3, <4>1, <4>2
    <3> QED BY <3>1, <3>2
  <2> QED BY <2>1, <2>2, <2>3 DEF ResultsPut
<1>8. CASE Reloaded
  <2>1. callPc' = "between" /\ workers' = workers
    BY <1>8 DEF Reloaded, poolVars
  <2>2. \/ UNCHANGED <<jobsResults, resultsq>>
        \/ jobsResults' = [n \in Instances |-> "none"]
    BY <1>8 DEF Reloaded, jobVars, NoResults
  <2>3. \A n \in Instances : Putting(n)' <=> Putting(n)
    BY <2>1 DEF Putting
  <2>4. CASE UNCHANGED <<jobsResults, resultsq>>
    BY <2>1, <2>3, <2>4 DEF ResultsPut
  <2>5. CASE jobsResults' = [n \in Instances |-> "none"]
    <3>1. \A n \in Instances : jobsResults'[n] = "none"
      BY <2>5
    <3> QED BY <2>1, <3>1 DEF ResultsPut
  <2> QED BY <2>2, <2>4, <2>5
<1>9. CASE Tick
  <2>1. /\ UNCHANGED <<workers, jobsResults, resultsq, callPc, got, closed>>
        /\ jobsStatus' = [n \in Instances |-> Older(jobsStatus[n])]
    BY <1>9 DEF Tick, poolVars, callVars
  <2>2. \A n \in Instances : jobsStatus[n] # NoJob => jobsStatus'[n] # NoJob
    BY <1>1, <2>1, NetFacts DEF Older, NoJob
  <2>3. \A n \in Instances : Putting(n)' <=> Putting(n)
    BY <2>1 DEF Putting
  <2> QED BY <2>1, <2>2, <2>3 DEF ResultsPut
<1>10. ASSUME NEW w \in Workers, WorkerTakes(w) \/ CheckReturns(w) \/ PutResult(w) \/ JobDone(w)
       PROVE  ResultsPut'
  <2>1. UNCHANGED <<callPc, got, closed, jobsStatus>> /\ workers \in [Workers -> ThreadType]
    BY <1>10 DEF WorkerTakes, CheckReturns, PutResult, JobDone, callVars, jobVars, NetTypes
  <2>2. \A v \in Workers \ {w} : workers'[v] = workers[v]
    BY <1>10, <2>1 DEF WorkerTakes, CheckReturns, PutResult, JobDone
  <2>3. CASE WorkerTakes(w) \/ CheckReturns(w)
    <3>1. workers[w].at # "put" /\ UNCHANGED <<jobsResults, resultsq>>
      BY <2>3 DEF WorkerTakes, CheckReturns, Idle, Thread, jobVars
    <3>2. \A n \in Instances : Putting(n) => Putting(n)'
      BY <2>2, <3>1 DEF Putting
    <3> QED BY <2>1, <3>1, <3>2 DEF ResultsPut
  <2>4. CASE PutResult(w)
    <3>1. /\ workers[w].at = "put" /\ jobsResults' = jobsResults
          /\ resultsq' = Append(resultsq, [job |-> workers[w].job, status |-> Head(workers[w].out)])
          /\ workers' = [workers EXCEPT ![w].out = Tail(@)]
      BY <2>4 DEF PutResult
    <3>2. workers'[w].at = "put" /\ workers'[w].job = workers[w].job
      <4>1. workers'[w] = [workers[w] EXCEPT !.out = Tail(@)]
        BY <2>1, <3>1
      <4>2. workers[w] \in ThreadType
        BY <2>1
      <4> QED BY <3>1, <4>1, <4>2 DEF ThreadType
    <3>3. \A n \in Instances : Putting(n) => Putting(n)'
      BY <2>2, <3>2, <3>1 DEF Putting
    <3>4. workers[w].job \in Instances
      BY <3>1 DEF NetTypes, NetTypeOK
    <3>5. Putting(workers[w].job)'
      BY <3>2 DEF Putting
    <3>6. jobsStatus'[workers[w].job] # NoJob
      BY <2>1, <3>4 DEF JobsKnown, HasJob
    <3>7. \A n \in Instances : (\E i \in DOMAIN resultsq' : resultsq'[i].job = n) =>
              (\E i \in DOMAIN resultsq : resultsq[i].job = n) \/ n = workers[w].job
      <4> DEFINE R == ResultType
                 K == Len(resultsq)
                 x == [job |-> workers[w].job, status |-> Head(workers[w].out)]
      <4>1. resultsq \in Seq(R)
        BY DEF NetTypes
      <4>2. x \in R
        <5>1. workers[w].out \in Seq(Outcomes) /\ workers[w].out # <<>>
          BY <2>1, <2>4 DEF PutResult, ThreadType
        <5>2. Head(workers[w].out) \in Outcomes
          BY <5>1
        <5> QED BY <3>4, <5>2 DEF ResultType
      <4>3. x.job = workers[w].job
        OBVIOUS
      <4>4. resultsq' = Append(resultsq, x)
        BY <3>1
      <4> HIDE DEF R, x
      <4>5. /\ DOMAIN resultsq' = 1..(K + 1) /\ K \in Nat /\ DOMAIN resultsq = 1..K
            /\ \A i \in 1..K : resultsq'[i] = resultsq[i]
            /\ resultsq'[K + 1] = x
        BY <4>1, <4>2, <4>4, Added
      <4> HIDE DEF K
      <4>6. \A i \in DOMAIN resultsq' : i # K + 1 => i \in DOMAIN resultsq /\ resultsq'[i] = resultsq[i]
        BY <4>5
      <4> QED BY <4>3, <4>5, <4>6
    <3> QED BY <2>1, <3>1, <3>2, <3>3, <3>6, <3>7 DEF ResultsPut, Putting
  <2>5. CASE JobDone(w)
    <3>1. /\ workers[w].at = "put" /\ resultsq' = resultsq
          /\ jobsResults' = [jobsResults EXCEPT ![workers[w].job] = IF @ = "pending" THEN "ready" ELSE @]
      BY <2>5 DEF JobDone
    <3>2. workers[w].job \in Instances
      BY <3>1 DEF NetTypes, NetTypeOK
    <3>3. jobsResults'[workers[w].job] # "pending"
      BY <1>1, <3>1, <3>2
    <3>4. \A n \in Instances : n # workers[w].job => jobsResults'[n] = jobsResults[n]
      BY <1>1, <3>1
    <3>5. \A n \in Instances : n # workers[w].job /\ Putting(n) => Putting(n)'
      BY <2>2 DEF Putting
    <3> QED BY <2>1, <3>1, <3>3, <3>4, <3>5 DEF ResultsPut
  <2> QED BY <1>10, <2>3, <2>4, <2>5
<1> QED BY <1>2, <1>3, <1>4, <1>5, <1>6, <1>7, <1>8, <1>9, <1>10, NetSteps

-----------------------------------------------------------------------------
(* The properties                                                            *)

LEMMA NetPreserved ==
    ASSUME NetInv, [NetNext]_netVars
    PROVE  NetInv'
  BY TypesStep, PhasesStep, PlacesStep, ResultsStep DEF NetInv

LEMMA AtMostOne ==
    ASSUME NEW S, \A x, y \in S : x = y
    PROVE  IsFiniteSet(S) /\ Cardinality(S) \in {0, 1} /\ (Cardinality(S) = 1 => S # {})
<1>1. CASE S = {}
  BY <1>1, FS_EmptySet
<1>2. CASE S # {}
  <2>1. PICK x \in S : S = {x}
    BY <1>2
  <2> QED BY <1>2, <2>1, FS_Singleton
<1> QED BY <1>1, <1>2

LEMMA NetProperties ==
    ASSUME NetInv
    PROVE  NetTypeOK /\ OneAtATime /\ NoThreadLeftBehind /\ WaitsForRunningJob
<1>1. NetTypeOK
  BY DEF NetInv, NetTypes
<1>2. ASSUME NEW n \in Instances
      PROVE  Count(n) <= 1
  <2> DEFINE queued == {i \in DOMAIN workq : workq[i] = n}
             held == {w \in Workers : workers[w].job = n}
  <2>1. \A x, y \in queued : x = y
    BY DEF NetInv, OnePlaced
  <2>2. \A x, y \in held : x = y
    BY DEF NetInv, OnePlaced
  <2>3. queued = {} \/ held = {}
    BY DEF NetInv, OnePlaced
  <2> HIDE DEF queued, held
  <2>4. Cardinality(queued) \in {0, 1} /\ (Cardinality(queued) = 1 => queued # {})
    BY <2>1, AtMostOne
  <2>5. Cardinality(held) \in {0, 1} /\ (Cardinality(held) = 1 => held # {})
    BY <2>2, AtMostOne
  <2>6. Count(n) = Cardinality(queued) + Cardinality(held)
    BY DEF Count, queued, held
  <2> QED BY <2>3, <2>4, <2>5, <2>6
<1>3. OneAtATime
  BY <1>2 DEF OneAtATime
<1>4. NoThreadLeftBehind
  BY DEF NetInv, Phases, NoThreadLeftBehind
<1>5. WaitsForRunningJob
  BY <1>1 DEF NetInv, ResultsPut, Putting, WaitsForRunningJob, NetTypeOK
<1> QED BY <1>1, <1>3, <1>4, <1>5

\* Until SIGTERM, a check that no reload keeps counts its threads right.
Sizes ==
    /\ after # "keep"
    /\ sig = "none" =>
          /\ callPc \in {"guard", "results", "cleanjob", "clean", "apply"} => started
          /\ globalSize = IF started /\ callPc \notin {"join", "start", "reloaded"} THEN PoolSize ELSE 0
          /\ poolSize = IF started THEN PoolSize ELSE 0

LEMMA SizesStep ==
    ASSUME TRUE \notin Kept, NetTypes, Sizes, [NetNext]_netVars
    PROVE  Sizes'
<1>1. NetTypeOK
  BY DEF NetTypes
<1>2. sig' = "none" => sig = "none"
  <2>1. CASE Quiet
    BY <2>1 DEF Quiet, BeginRun, Check, Skip, Guard, NoMoreResults, Report, Failure, TakeResult, Clean, Reload,
         Sigterm, Exit, netVars
  <2>2. CASE StopStep \/ JoinStep \/ StartPool \/ CleanJob \/ ApplyAsync \/ Reloaded \/ Tick
    BY <2>2 DEF StopStep, StopPool, HandlerStops, JoinStep, JoinPool, HandlerJoins, StartPool, CleanJob, ApplyAsync,
         Reloaded, Tick
  <2>3. ASSUME NEW w \in Workers, WorkerTakes(w) \/ CheckReturns(w) \/ PutResult(w) \/ JobDone(w)
        PROVE  sig' = sig
    BY <2>3 DEF WorkerTakes, CheckReturns, PutResult, JobDone
  <2> QED BY <2>1, <2>2, <2>3, NetSteps
<1>3. after' # "keep"
  <2>1. CASE Reload
    <3>1. PICK kept \in Kept : after' = IF kept THEN "keep" ELSE "discard"
      BY <2>1 DEF Reload
    <3>2. kept = FALSE
      BY NetFacts
    <3> QED BY <3>1, <3>2
  <2>2. CASE Quiet /\ ~Reload
    BY <2>2 DEF Sizes, Quiet, BeginRun, Check, Skip, Guard, NoMoreResults, Report, Failure, TakeResult, Clean, RestartPool,
         Sigterm, Exit, netVars, callVars
  <2>3. CASE StopStep \/ JoinStep \/ StartPool \/ CleanJob \/ ApplyAsync \/ Reloaded \/ Tick
    BY <2>3 DEF Sizes, StopStep, StopPool, HandlerStops, JoinStep, JoinPool, HandlerJoins, StartPool, CleanJob, ApplyAsync,
         Reloaded, Tick, callVars
  <2>4. ASSUME NEW w \in Workers, WorkerTakes(w) \/ CheckReturns(w) \/ PutResult(w) \/ JobDone(w)
        PROVE  after' # "keep"
    BY <2>4 DEF Sizes, WorkerTakes, CheckReturns, PutResult, JobDone, callVars
  <2> QED BY <2>1, <2>2, <2>3, <2>4, NetSteps
<1> SUFFICES ASSUME sig' = "none"
             PROVE  /\ callPc' \in {"guard", "results", "cleanjob", "clean", "apply"} => started'
                    /\ globalSize' = (IF started' /\ callPc' \notin {"join", "start", "reloaded"} THEN PoolSize ELSE 0)
                    /\ poolSize' = (IF started' THEN PoolSize ELSE 0)
  BY <1>3 DEF Sizes
<1>4. /\ callPc \in {"guard", "results", "cleanjob", "clean", "apply"} => started
      /\ globalSize = (IF started /\ callPc \notin {"join", "start", "reloaded"} THEN PoolSize ELSE 0)
      /\ poolSize = (IF started THEN PoolSize ELSE 0)
      /\ sig = "none" /\ after # "keep" /\ started \in BOOLEAN
  BY <1>1, <1>2 DEF Sizes, NetTypeOK
<1>5. CASE Quiet
  <2>1. UNCHANGED <<globalSize, started, poolSize>>
    BY <1>5, QuietPool
  <2>2. /\ callPc \in {"join", "start", "reloaded"} => callPc' = callPc
        /\ callPc' \in {"join", "start", "reloaded"} => callPc' = callPc \/ ~started
        /\ callPc' \in {"guard", "results", "cleanjob", "clean", "apply"} =>
              started \/ callPc \in {"guard", "results", "cleanjob", "clean", "apply"}
    BY <1>5 DEF Quiet, BeginRun, Check, Skip, Guard, NoMoreResults, Report, Failure, TakeResult, Clean, Reload,
         Sigterm, Exit, netVars, callVars, NextInstance, RestartPool
  <2> QED BY <1>4, <2>1, <2>2
<1>6. CASE StopStep
  <2>1. /\ callPc = "stop" /\ globalSize' = globalSize - poolSize /\ UNCHANGED <<started, poolSize>>
        /\ callPc' \in {"join", "start", "reloaded"}
    BY <1>4, <1>6 DEF StopStep, StopPool, HandlerStops, Uncounted, AfterStop
  <2>2. globalSize = poolSize /\ PoolSize - PoolSize = 0
    BY <1>4, <2>1, NetFacts
  <2> QED BY <1>4, <2>1, <2>2, NetFacts
<1>7. CASE JoinStep
  <2>1. /\ callPc = "join" /\ callPc' \in {"start", "reloaded"} /\ UNCHANGED <<started, poolSize, globalSize>>
    BY <1>4, <1>7 DEF JoinStep, JoinPool, HandlerJoins, AfterStop, sizeVars
  <2> QED BY <1>4, <2>1
<1>8. CASE StartPool
  <2>1. /\ callPc = "start" /\ callPc' \in {"guard", "cleanjob", "apply"} /\ started' = TRUE
        /\ poolSize' = PoolSize /\ globalSize' = globalSize + PoolSize
    BY <1>1, <1>8 DEF StartPool, NetTypeOK
  <2>2. globalSize' = PoolSize
    BY <1>4, <2>1, NetFacts
  <2> QED BY <2>1, <2>2
<1>9. CASE CleanJob \/ ApplyAsync \/ Tick
  <2>1. UNCHANGED <<started, poolSize, globalSize>>
    BY <1>9 DEF CleanJob, ApplyAsync, Tick, sizeVars
  <2>2. callPc' = callPc \/ (callPc \in {"cleanjob", "apply"} /\ callPc' \in {"results", "idle", "between"})
    BY <1>9 DEF CleanJob, ApplyAsync, Tick, NextInstance, callVars
  <2> QED BY <1>4, <2>1, <2>2
<1>10. CASE Reloaded
  <2>1. /\ callPc = "reloaded" /\ callPc' = "between" /\ started' = FALSE /\ globalSize' = globalSize /\ poolSize' = 0
    BY <1>4, <1>10 DEF Reloaded
  <2> QED BY <1>4, <2>1
<1>11. ASSUME NEW w \in Workers, WorkerTakes(w) \/ CheckReturns(w) \/ PutResult(w) \/ JobDone(w)
       PROVE  UNCHANGED <<started, poolSize, globalSize, callPc>>
  BY <1>11 DEF WorkerTakes, CheckReturns, PutResult, JobDone, sizeVars, callVars
<1> QED BY <1>4, <1>5, <1>6, <1>7, <1>8, <1>9, <1>10, <1>11, NetSteps

LEMMA ThreadsInBounds ==
    ASSUME Sizes
    PROVE  NoExplosion
<1>1. IsFiniteSet(Workers) /\ Cardinality(Workers) = PoolSize
  BY NetFacts, FS_Interval DEF Workers
<1>2. Alive \subseteq Workers
  BY DEF Alive
<1>3. Cardinality(Alive) <= PoolSize /\ Cardinality(Alive) \in Nat
  BY <1>1, <1>2, FS_Subset, FS_CardinalityType
<1>4. ASSUME callPc = "guard", sig = "none"
      PROVE  ~TooManyThreads
  <2>1. globalSize = PoolSize
    BY <1>4 DEF Sizes
  <2>2. /\ ThreadsPerWorker \in Nat \ {0} /\ PoolSize \in Nat \ {0} /\ OtherThreads \in Nat /\ SpareThreads \in Nat
        /\ OtherThreads <= SpareThreads
    BY NetworkCheckAssumption
  <2>3. ThreadsPerWorker * PoolSize >= PoolSize /\ ThreadsPerWorker * PoolSize \in Nat
    BY <2>2
  <2> QED BY <1>3, <2>1, <2>2, <2>3 DEF TooManyThreads
<1> QED BY <1>4 DEF NoExplosion

\* Whatever reloads do with it, an instance has one job at most, no pool leaves a thread
\* to the one that takes its place, and the collector waits for no job that was dropped.
THEOREM NetworkCorrect == NetSpec => [](NetTypeOK /\ OneAtATime /\ NoThreadLeftBehind /\ WaitsForRunningJob)
<1>1. NetInit => NetInv
  BY NetInitially
<1>2. NetInv /\ [NetNext]_netVars => NetInv'
  BY NetPreserved
<1>3. NetInv => NetTypeOK /\ OneAtATime /\ NoThreadLeftBehind /\ WaitsForRunningJob
  BY NetProperties
<1> QED BY <1>1, <1>2, <1>3, PTL DEF NetSpec

\* If reloads throw the check away, it stays within the threads it allows itself, too.
THEOREM NetworkSafe ==
    ASSUME TRUE \notin Kept
    PROVE  NetSpec => []PoolSound
<1> DEFINE I == NetInv /\ Sizes
<1>1. NetInit => I
  BY NetInitially DEF NetInit, Sizes
<1>2. I /\ [NetNext]_netVars => I'
  <2> SUFFICES ASSUME NetInv, Sizes, [NetNext]_netVars PROVE NetInv' /\ Sizes'
    OBVIOUS
  <2>1. NetTypes
    BY DEF NetInv
  <2> QED BY <2>1, NetPreserved, SizesStep
<1>3. I => PoolSound
  BY NetProperties, ThreadsInBounds DEF PoolSound, JobsConsistent
<1> HIDE DEF I
<1> QED BY <1>1, <1>2, <1>3, PTL DEF NetSpec
=============================================================================
