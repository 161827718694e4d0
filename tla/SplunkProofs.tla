----------------------------- MODULE SplunkProofs ------------------------------
(***************************************************************************)
(* Theorems about SplunkTelemetry, for any events, any saved searches and  *)
(* any configuration, and about SplunkSession, for any searches, patterns  *)
(* and tokens.                                                             *)
(***************************************************************************)
EXTENDS SplunkTelemetry, SplunkSession, FiniteSetTheorems, WellFoundedInduction, TLAPS

-----------------------------------------------------------------------------
(* Least and largest elements *)

\* Induction over the subsets of a finite set: if some are bad, one of them has no
\* bad subset but itself.
LEMMA MinimalSet ==
    ASSUME NEW S, IsFiniteSet(S), NEW Bad \in SUBSET (SUBSET S), Bad # {}
    PROVE  \E s \in Bad : \A u \in SUBSET s : u # s => u \notin Bad
<1>1. IsWellFoundedOn(StrictSubsetOrdering(S), FiniteSubsetsOf(S))
  BY FS_StrictSubsetOrderingWellFounded
<1>2. FiniteSubsetsOf(S) = SUBSET S
  BY FS_FiniteSubsetsOfFinite
<1>3. PICK s \in Bad : \A u \in Bad : ~(<<u, s>> \in StrictSubsetOrdering(S))
  BY <1>1, <1>2, WFMin
<1>4. ASSUME NEW u \in SUBSET s, u # s PROVE u \notin Bad
  BY <1>3, <1>4 DEF StrictSubsetOrdering
<1> QED
  BY <1>4

LEMMA MaxOfFinite ==
    ASSUME NEW S \in SUBSET Int, IsFiniteSet(S), S # {}
    PROVE  Max(S) \in S /\ \A y \in S : Max(S) >= y
<1> DEFINE Bad == {T \in SUBSET S : T # {} /\ ~(\E x \in T : \A y \in T : x >= y)}
<1>1. SUFFICES ASSUME Bad # {} PROVE FALSE
  BY DEF Max
<1>2. PICK T \in Bad : \A u \in SUBSET T : u # T => u \notin Bad
  <2>1. Bad \in SUBSET (SUBSET S)
    OBVIOUS
  <2> HIDE DEF Bad
  <2> QED
    BY <1>1, <2>1, MinimalSet
<1>3. PICK x \in T : TRUE
  BY <1>2
<1>4. T \ {x} # {}
  BY <1>2, <1>3
<1>5. PICK m \in T \ {x} : \A y \in T \ {x} : m >= y
  BY <1>2, <1>3, <1>4
<1>6. x \in Int /\ m \in Int /\ T \subseteq Int
  BY <1>2, <1>3, <1>5
<1>7. CASE m >= x
  BY <1>2, <1>3, <1>5, <1>6, <1>7
<1>8. CASE x >= m
  <2>1. \A y \in T : x >= y
    BY <1>5, <1>6, <1>8
  <2> QED
    BY <1>2, <1>3, <2>1
<1> QED
  BY <1>6, <1>7, <1>8

LEMMA MinOfFinite ==
    ASSUME NEW S \in SUBSET Int, IsFiniteSet(S), S # {}
    PROVE  Min(S) \in S
<1> DEFINE Bad == {T \in SUBSET S : T # {} /\ ~(\E x \in T : \A y \in T : x =< y)}
<1>1. SUFFICES ASSUME Bad # {} PROVE FALSE
  BY DEF Min
<1>2. PICK T \in Bad : \A u \in SUBSET T : u # T => u \notin Bad
  <2>1. Bad \in SUBSET (SUBSET S)
    OBVIOUS
  <2> HIDE DEF Bad
  <2> QED
    BY <1>1, <2>1, MinimalSet
<1>3. PICK x \in T : TRUE
  BY <1>2
<1>4. T \ {x} # {}
  BY <1>2, <1>3
<1>5. PICK m \in T \ {x} : \A y \in T \ {x} : m =< y
  BY <1>2, <1>3, <1>4
<1>6. x \in Int /\ m \in Int /\ T \subseteq Int
  BY <1>2, <1>3, <1>5
<1>7. CASE m =< x
  BY <1>2, <1>3, <1>5, <1>6, <1>7
<1>8. CASE x =< m
  <2>1. \A y \in T : x =< y
    BY <1>5, <1>6, <1>8
  <2> QED
    BY <1>2, <1>3, <2>1
<1> QED
  BY <1>6, <1>7, <1>8

-----------------------------------------------------------------------------
(* Types *)

Phases == {"idle", "dispatch", "persist", "process", "emit", "commit"}
InRun == phase \in {"dispatch", "persist", "process"}

Bounds == Nat \cup {CaughtUp}
SearchType == [sid : Sids, search : Names, from : Nat, to : Bounds]

\* The times are those after the start of the epoch.
WorldType ==
    /\ conf \in Configurations /\ now \in StartTime..conf.end
    /\ indexed \subseteq EventsSought
    /\ live \subseteq [sid : Sids, search : Names]
    /\ committed \in [Names -> Int] /\ \A s \in Names : committed[s] >= NoStatus
    /\ sidOnDisk \in [Names -> Sids \cup {NoSid}]
    /\ lost \subseteq Sids

RunType ==
    /\ launch \in Nat \cup {NotLaunched}
    /\ observed \in [Names -> Nat] /\ recover \in [Names -> Bounds]
    /\ seen \in [Names -> SUBSET EventsSought]
    /\ phase \in Phases
    /\ payload \subseteq EventsSought /\ sent \subseteq EventsSought
    /\ resent \subseteq EventsSought /\ returned \subseteq indexed

\* Each search is dispatched once in a run, and processed with what was known then.
OrderType ==
    /\ toDispatch \in Seq(Names)
    /\ \A i, k \in 1..Len(toDispatch) : toDispatch[i] = toDispatch[k] => i = k
    /\ phase \in {"dispatch", "persist"} => toDispatch # <<>>
    /\ ~InRun => toDispatch = <<>> /\ searching = <<>>
    /\ IF phase = "persist"
       THEN /\ job \in [sid : Sids, search : Names] /\ job.search = Current
            /\ recover[Current] # CaughtUp => observed[Current] < recover[Current]
       ELSE job = NoJob
    /\ searching \in Seq(SearchType)
    /\ \A i, k \in 1..Len(searching) : searching[i].search = searching[k].search => i = k
    /\ \A i \in 1..Len(searching) :
        /\ \A k \in 1..Len(toDispatch) : searching[i].search # toDispatch[k]
        /\ searching[i].from = observed[searching[i].search]
        /\ searching[i].to = recover[searching[i].search]
        /\ searching[i].to # CaughtUp => searching[i].from < searching[i].to

SplunkType == WorldType /\ RunType /\ OrderType

\* What the assumptions say of the configuration of the instance.
LEMMA Configured ==
    ASSUME conf \in Configurations
    PROVE  /\ conf.searches \in Seq(STRING) /\ conf.parallel \in Nat \ {0}
           /\ conf.initialDelay \in Nat /\ conf.initialHistory \in Nat
           /\ conf.restartHistory \in Nat /\ conf.chunk \in Nat \ {0}
           /\ conf.ignoreErrors \in BOOLEAN /\ conf.faults \subseteq AllFaults
           /\ conf.end \in Nat /\ StartTime \in Nat
           /\ conf.initialHistory <= StartTime /\ StartTime <= conf.end
           /\ \A i, j \in 1..Len(conf.searches) :
                conf.searches[i] = conf.searches[j] => i = j
<1>1. conf \in ConfigurationType
  BY SplunkAssumption
<1> QED
  BY <1>1, SplunkAssumption DEF ConfigurationType

LEMMA SearchesNamed ==
    ASSUME conf \in Configurations
    PROVE  conf.searches \in Seq(Names)
<1>1. conf.searches \in Seq(STRING)
  BY Configured
<1>2. \A i \in 1..Len(conf.searches) : conf.searches[i] \in Names
  BY DEF Names
<1> QED
  BY <1>1, <1>2

LEMMA EventsTimed ==
    /\ \A e \in EventsSought : e \in Events /\ e.search \in Names /\ e.time \in Nat
    /\ IsFiniteSet(EventsSought)
<1>1. EventsSought \subseteq Events
  BY DEF EventsSought
<1> QED
  BY <1>1, SplunkAssumption, FS_Subset DEF EventsSought

LEMMA SidsNumbered ==
    ASSUME conf \in Configurations
    PROVE  Sids \subseteq Nat \ {0} /\ IsFiniteSet(Sids) /\ NoSid \notin Sids
<1>1. Len(conf.searches) \in Nat
  BY Configured
<1>2. Sids = 1..(Len(conf.searches) + 1)
  BY DEF Sids
<1>3. IsFiniteSet(1..(Len(conf.searches) + 1))
  BY <1>1, FS_Interval
<1> QED
  BY <1>1, <1>2, <1>3 DEF NoSid

LEMMA FreshSidFree ==
    ASSUME WorldType, FreeSids # {}
    PROVE  /\ FreshSid \in Sids /\ \A j \in live : j.sid # FreshSid
           /\ \A s \in Names : sidOnDisk[s] # FreshSid
<1>1. FreeSids \subseteq Sids /\ FreeSids \in SUBSET Int /\ IsFiniteSet(FreeSids)
  BY SidsNumbered, FS_Subset DEF FreeSids, WorldType
<1>2. FreshSid \in FreeSids
  BY <1>1, MinOfFinite DEF FreshSid
<1> QED
  BY <1>2 DEF FreeSids

\* The first second that a run reads is one that the status on disk does not cover.
LEMMA StartsAfterStatus ==
    ASSUME WorldType, NEW s \in Names
    PROVE  StartOf(s) \in Nat /\ StartOf(s) > committed[s]
<1>1. /\ committed[s] \in Int /\ committed[s] >= -2 /\ now \in Nat
      /\ now >= conf.initialHistory
      /\ conf.initialHistory \in Nat /\ conf.restartHistory \in Nat
  BY Configured DEF WorldType, NoStatus
<1>2. CASE committed[s] = NoStatus
  BY <1>1, <1>2 DEF StartOf, NoStatus
<1>3. CASE committed[s] # NoStatus
  BY <1>1, <1>3 DEF StartOf, NoStatus, FirstSecond
<1> QED
  BY <1>2, <1>3

LEMMA ChunkEndType ==
    ASSUME WorldType, RunType, NEW s \in Names
    PROVE  /\ ChunkEnd(s) \in Bounds
           /\ ChunkEnd(s) # CaughtUp => ChunkEnd(s) > observed[s]
<1>1. observed[s] \in Nat /\ conf.chunk \in Nat \ {0}
  BY Configured DEF WorldType, RunType
<1> QED
  BY <1>1 DEF ChunkEnd, Bounds, CaughtUp

\* The last second of the results of a search.
LastSecond(j) == Max({observed[j.search]} \cup {e.time : e \in Results(j)})

LEMMA ResultsType ==
    ASSUME WorldType, RunType, NEW j \in SearchType
    PROVE  /\ Results(j) \subseteq indexed /\ Results(j) \subseteq EventsSought
           /\ LastSecond(j) \in Nat /\ LastSecond(j) >= observed[j.search]
           /\ \A e \in Results(j) : LastSecond(j) >= e.time
           /\ \/ LastSecond(j) = observed[j.search]
              \/ \E e \in Results(j) : LastSecond(j) = e.time
<1> DEFINE S == {observed[j.search]} \cup {e.time : e \in Results(j)}
<1>1. Results(j) \subseteq indexed /\ Results(j) \subseteq EventsSought
  BY DEF Results, WorldType
<1>2. j.search \in Names /\ observed[j.search] \in Nat
  BY DEF RunType, SearchType
<1>3. S \in SUBSET Nat /\ S # {}
  BY <1>1, <1>2, EventsTimed
<1>4. IsFiniteSet(S)
  <2>1. IsFiniteSet(Results(j))
    BY <1>1, EventsTimed, FS_Subset
  <2>2. IsFiniteSet({e.time : e \in Results(j)})
    <3> DEFINE f == [e \in Results(j) |-> e.time]
               T == {e.time : e \in Results(j)}
    <3>1. f \in Surjection(Results(j), T)
      BY DEF Surjection
    <3> QED
      BY <2>1, <3>1, FS_Surjection
  <2>3. IsFiniteSet({observed[j.search]})
    BY FS_Singleton
  <2> QED
    BY <2>2, <2>3, FS_Union
<1>5. Max(S) \in S /\ \A y \in S : Max(S) >= y
  <2> HIDE DEF S
  <2>1. S \in SUBSET Int
    BY <1>3
  <2> QED
    BY <1>3, <1>4, <2>1, MaxOfFinite
<1> QED
  BY <1>1, <1>3, <1>5 DEF LastSecond

-----------------------------------------------------------------------------
(* The types are kept *)

LEMMA TypeInit == Init => SplunkType
<1> SUFFICES ASSUME Init PROVE SplunkType
  OBVIOUS
<1> USE DEF Init
<1>1. WorldType
  <2>1. StartTime \in StartTime..conf.end
    BY Configured
  <2>2. committed \in [Names -> Int] /\ \A s \in Names : committed[s] >= NoStatus
    BY DEF NoStatus
  <2>3. sidOnDisk \in [Names -> Sids \cup {NoSid}]
    OBVIOUS
  <2> QED
    BY <2>1, <2>2, <2>3 DEF WorldType
<1>2. RunType
  <2>1. /\ observed \in [Names -> Nat] /\ recover \in [Names -> Bounds]
        /\ seen \in [Names -> SUBSET EventsSought]
    BY DEF Bounds, Unread
  <2> QED
    BY <2>1 DEF RunType, Phases
<1>3. OrderType
  BY DEF OrderType, InRun
<1> QED
  BY <1>1, <1>2, <1>3 DEF SplunkType

\* The configuration stays, and with it what it names.
LEMMA ConfigurationStays ==
    ASSUME conf' = conf
    PROVE  Names' = Names /\ Sids' = Sids /\ EventsSought' = EventsSought
  BY DEF Names, Sids, EventsSought

LEMMA NextKeepsConfiguration == [Next]_vars => conf' = conf
  BY DEF Next, CheckStep, Fault, CheckBegin, CheckNothing, Finalize, FinalizeFails, Dispatch,
         DispatchFails, PersistSid, Process, ProcessFails, ChunkDone, Emit, EmitFails,
         EmitUncommitted, EmitStopped, Commit, Restart, Crash, Die, JobEnds, Index, Tick,
         vars, worldVars

LEMMA StatusType ==
    ASSUME WorldType, RunType, NEW s \in Names
    PROVE  Status(s) \in Int /\ Status(s) >= NoStatus
<1>1. observed[s] \in Nat /\ recover[s] \in Nat \cup {-1}
  BY DEF RunType, Bounds, CaughtUp
<1> QED
  BY <1>1 DEF Status, CaughtUp, NoStatus

LEMMA EmptyIs == ASSUME NEW S, NEW q \in Seq(S) PROVE q = <<>> <=> Len(q) = 0
  OBVIOUS

\* The sequences of searches lose their first element, or get one more.
LEMMA TailOf ==
    ASSUME NEW S, NEW q \in Seq(S), q # <<>>
    PROVE  /\ Head(q) = q[1] /\ q[1] \in S /\ 1 \in 1..Len(q)
           /\ Tail(q) \in Seq(S) /\ Len(Tail(q)) = Len(q) - 1
           /\ \A i \in 1..Len(Tail(q)) : i + 1 \in 1..Len(q) /\ Tail(q)[i] = q[i + 1]
           /\ Tail(q) = <<>> <=> Len(q) = 1
<1>1. Len(q) \in Nat /\ Len(q) # 0
  OBVIOUS
<1>2. Head(q) = q[1] /\ 1 \in 1..Len(q) /\ q[1] \in S
  BY <1>1
<1>3. Tail(q) \in Seq(S) /\ Len(Tail(q)) = Len(q) - 1
  OBVIOUS
<1>4. ASSUME NEW i \in 1..Len(Tail(q)) PROVE i + 1 \in 1..Len(q) /\ Tail(q)[i] = q[i + 1]
  BY <1>1, <1>3
<1>5. Tail(q) = <<>> <=> Len(q) = 1
  <2>1. Tail(q) = <<>> <=> Len(Tail(q)) = 0
    BY <1>3, EmptyIs
  <2> QED
    BY <1>1, <1>3, <2>1
<1> QED
  BY <1>2, <1>3, <1>4, <1>5

LEMMA AppendOf ==
    ASSUME NEW S, NEW q \in Seq(S), NEW x \in S
    PROVE  /\ Append(q, x) \in Seq(S) /\ Len(Append(q, x)) = Len(q) + 1
           /\ \A i \in 1..Len(q) : Append(q, x)[i] = q[i]
           /\ Append(q, x)[Len(q) + 1] = x
           /\ \A i \in 1..Len(Append(q, x)) : i \in 1..Len(q) \/ i = Len(q) + 1
  OBVIOUS

LEMMA SearchingType ==
    ASSUME OrderType, NEW i \in 1..Len(searching)
    PROVE  searching[i] \in SearchType /\ searching[i].search \in Names
<1>1. searching \in Seq(SearchType)
  BY DEF OrderType
<1>2. searching[i] \in SearchType
  BY <1>1
<1> QED
  BY <1>2 DEF SearchType

LEMMA SearchingOrdered ==
    ASSUME OrderType, NEW i \in 1..Len(searching)
    PROVE  /\ \A k \in 1..Len(toDispatch) : searching[i].search # toDispatch[k]
           /\ \A k \in 1..Len(searching) : searching[k].search = searching[i].search => k = i
           /\ searching[i].from = observed[searching[i].search]
           /\ searching[i].to = recover[searching[i].search]
           /\ searching[i].to # CaughtUp => searching[i].from < searching[i].to
  BY DEF OrderType

LEMMA FirstSearching ==
    ASSUME OrderType, searching # <<>>
    PROVE  /\ Head(searching) = searching[1] /\ 1 \in 1..Len(searching)
           /\ Head(searching) \in SearchType
           /\ Head(searching).search \in Names /\ Head(searching).from \in Nat
           /\ Head(searching).to \in Bounds
<1>1. searching \in Seq(SearchType)
  BY DEF OrderType
<1>2. /\ Head(searching) = searching[1] /\ 1 \in 1..Len(searching)
      /\ Head(searching) \in SearchType
  BY <1>1, TailOf
<1> QED
  BY <1>2 DEF SearchType

LEMMA WorldStep == SplunkType /\ [Next]_vars => WorldType'
<1> SUFFICES ASSUME SplunkType, [Next]_vars PROVE WorldType'
  OBVIOUS
<1>0. /\ conf' = conf /\ Names' = Names /\ Sids' = Sids /\ EventsSought' = EventsSought
      /\ WorldType /\ RunType /\ OrderType
  BY NextKeepsConfiguration, ConfigurationStays DEF SplunkType
<1>1. ASSUME UNCHANGED <<now, indexed, committed, sidOnDisk>>,
             live' \subseteq [sid : Sids, search : Names], lost' \subseteq Sids
      PROVE  WorldType'
  BY <1>0, <1>1 DEF WorldType
<1>2. CASE CheckNothing \/ CheckBegin \/ FinalizeFails \/ Process \/ ProcessFails \/ ChunkDone
           \/ Emit \/ EmitFails \/ EmitUncommitted
  BY <1>0, <1>1, <1>2
     DEF CheckNothing, CheckBegin, FinalizeFails, Process, ProcessFails, ChunkDone, Emit,
         EmitFails, EmitUncommitted, worldVars, diskVars, WorldType
<1>3. CASE Finalize
  <2>1. Current \in Names
    BY <1>0, <1>3 DEF Finalize, OrderType, Current
  <2> QED
    BY <1>0, <1>3, <2>1 DEF Finalize, WorldType, worldVars
<1>4. CASE Dispatch \/ DispatchFails
  <2>1. Current \in Names
    BY <1>0, <1>4 DEF Dispatch, DispatchFails, OrderType, Current
  <2>2. FreshSid \in Sids
    BY <1>0, <1>4, FreshSidFree DEF Dispatch, DispatchFails
  <2>3. UNCHANGED <<now, indexed, committed, sidOnDisk>>
    BY <1>4 DEF Dispatch, DispatchFails, worldVars, diskVars
  <2>4. /\ live' \subseteq live \cup {[sid |-> FreshSid, search |-> Current]}
        /\ lost' \subseteq lost \cup {FreshSid}
    BY <1>4 DEF Dispatch, DispatchFails
  <2> QED
    BY <1>0, <1>1, <2>1, <2>2, <2>3, <2>4 DEF WorldType
<1>5. CASE PersistSid
  <2>1. Current \in Names /\ job.sid \in Sids
    BY <1>0, <1>5 DEF PersistSid, OrderType, Current
  <2> QED
    BY <1>0, <1>5, <2>1 DEF PersistSid, WorldType, worldVars
<1>6. CASE EmitStopped \/ Commit
  <2>1. \A s \in Names : Status(s) \in Int /\ Status(s) >= NoStatus
    BY <1>0, StatusType
  <2>2. /\ committed' = [s \in Names |-> Status(s)]
        /\ UNCHANGED <<now, indexed, live, sidOnDisk, lost>>
    BY <1>6 DEF EmitStopped, Commit, Committed, worldVars
  <2> QED
    BY <1>0, <2>1, <2>2 DEF WorldType
<1>7. CASE Restart \/ Crash
  <2>1. Die
    BY <1>7 DEF Restart, Crash
  <2>2. {j.sid : j \in live} \subseteq Sids
    BY <1>0 DEF WorldType
  <2> QED
    BY <1>0, <1>1, <2>1, <2>2 DEF Die, worldVars, diskVars, WorldType
<1>8. CASE \E j \in live : JobEnds(j)
  BY <1>0, <1>1, <1>8 DEF JobEnds, worldVars, diskVars, WorldType
<1>9. CASE \E e \in Events : Index(e)
  BY <1>0, <1>9 DEF Index, diskVars, WorldType
<1>10. CASE Tick
  <2>1. now' \in StartTime..conf.end
    BY <1>0, <1>10, Configured DEF Tick, WorldType
  <2> QED
    BY <1>0, <1>10, <2>1 DEF Tick, diskVars, WorldType
<1>11. CASE UNCHANGED vars
  BY <1>0, <1>1, <1>11 DEF vars, worldVars, diskVars, WorldType
<1> QED
  BY <1>2, <1>3, <1>4, <1>5, <1>6, <1>7, <1>8, <1>9, <1>10, <1>11 DEF Next, CheckStep, Fault

LEMMA RunStep == SplunkType /\ [Next]_vars => RunType'
<1> SUFFICES ASSUME SplunkType, [Next]_vars PROVE RunType'
  OBVIOUS
<1>0. /\ conf' = conf /\ Names' = Names /\ Sids' = Sids /\ EventsSought' = EventsSought
      /\ WorldType /\ RunType /\ OrderType /\ now \in Nat
  BY NextKeepsConfiguration, ConfigurationStays, Configured DEF SplunkType, WorldType
<1>1. CASE CheckNothing
  BY <1>0, <1>1 DEF CheckNothing, Launch, RunType, Phases, worldVars, sentVars
<1>2. CASE CheckBegin
  <2>1. observed' \in [Names -> Nat]
    BY <1>0, <1>2, StartsAfterStatus DEF CheckBegin
  <2> QED
    BY <1>0, <1>2, <2>1 DEF CheckBegin, Launch, RunType, Phases, worldVars, sentVars
<1>3. CASE Finalize \/ ChunkDone
  BY <1>0, <1>3 DEF Finalize, ChunkDone, RunType, Phases, worldVars, memoryVars, checkVars,
                    sentVars
<1>4. CASE FinalizeFails
  BY <1>0, <1>4 DEF FinalizeFails, SearchDone, RunType, Phases, worldVars, memoryVars, sentVars
<1>5. CASE Dispatch \/ DispatchFails
  <2>1. Current \in Names
    BY <1>0, <1>5 DEF Dispatch, DispatchFails, OrderType, Current
  <2>2. recover' \in [Names -> Bounds]
    BY <1>0, <1>5, <2>1, ChunkEndType DEF Dispatch, DispatchFails, RunType
  <2>3. seen' \in [Names -> SUBSET EventsSought]
    BY <1>0, <1>5, <2>1 DEF Dispatch, DispatchFails, RunType
  <2>4. phase' \in Phases
    BY <1>5 DEF Dispatch, DispatchFails, SearchDone, Phases
  <2> QED
    BY <1>0, <1>5, <2>2, <2>3, <2>4
       DEF Dispatch, DispatchFails, RunType, worldVars, sentVars
<1>6. CASE PersistSid
  BY <1>0, <1>6 DEF PersistSid, SearchDone, RunType, Phases, worldVars, memoryVars, sentVars
<1>7. CASE ProcessFails
  BY <1>0, <1>7 DEF ProcessFails, RunType, worldVars, sentVars
<1>8. CASE Process
  <2> DEFINE j == Head(searching)
  <2>1. j \in SearchType /\ j.search \in Names
    BY <1>0, <1>8, FirstSearching DEF Process
  <2>2. /\ Results(j) \subseteq indexed /\ Results(j) \subseteq EventsSought
        /\ LastSecond(j) \in Nat
    BY <1>0, <2>1, ResultsType
  <2>3. /\ payload' = payload \cup (Results(j) \ seen[j.search])
        /\ observed' = [observed EXCEPT ![j.search] = LastSecond(j)]
        /\ seen' = [seen EXCEPT ![j.search] = LastOf(Results(j), LastSecond(j))]
        /\ returned' = returned \cup Results(j)
    BY <1>8 DEF Process, LastSecond
  <2>4. LastOf(Results(j), LastSecond(j)) \subseteq EventsSought
    BY <2>2 DEF LastOf
  <2> HIDE DEF j
  <2>5. observed' \in [Names -> Nat] /\ seen' \in [Names -> SUBSET EventsSought]
    BY <1>0, <2>1, <2>2, <2>3, <2>4 DEF RunType
  <2> QED
    BY <1>0, <1>8, <2>2, <2>3, <2>5 DEF Process, RunType, worldVars
<1>9. CASE Emit \/ EmitFails \/ EmitUncommitted \/ Commit
  BY <1>0, <1>9 DEF Emit, EmitFails, EmitUncommitted, Commit, Sent, RunType, Phases,
                    worldVars, memoryVars, sentVars
<1>10. ASSUME ForgetMemory
       PROVE  /\ launch' \in Nat \cup {NotLaunched}
              /\ observed' \in [Names -> Nat] /\ recover' \in [Names -> Bounds]
              /\ seen' \in [Names -> SUBSET EventsSought]
  BY <1>10 DEF ForgetMemory, Bounds, Unread
<1>11. CASE EmitStopped
  BY <1>0, <1>10, <1>11 DEF EmitStopped, RunType, Phases, worldVars
<1>12. CASE Restart \/ Crash
  BY <1>0, <1>10, <1>12 DEF Restart, Crash, Die, RunType, Phases, worldVars
<1>13. CASE \E j \in live : JobEnds(j)
  BY <1>0, <1>13 DEF JobEnds, RunType, worldVars, memoryVars, checkVars, sentVars
<1>14. CASE \E e \in Events : Index(e)
  BY <1>0, <1>14 DEF Index, RunType, memoryVars, checkVars, sentVars
<1>15. CASE Tick
  BY <1>0, <1>15 DEF Tick, RunType, memoryVars, checkVars, sentVars
<1>16. CASE UNCHANGED vars
  BY <1>0, <1>16 DEF vars, RunType, worldVars, memoryVars, checkVars, sentVars
<1> QED
  BY <1>1, <1>2, <1>3, <1>4, <1>5, <1>6, <1>7, <1>8, <1>9, <1>11, <1>12, <1>13, <1>14, <1>15,
     <1>16 DEF Next, CheckStep, Fault

LEMMA OrderStep == SplunkType /\ [Next]_vars => OrderType'
<1> SUFFICES ASSUME SplunkType, [Next]_vars PROVE OrderType'
  OBVIOUS
<1>0. /\ conf' = conf /\ Names' = Names /\ Sids' = Sids /\ SearchType' = SearchType
      /\ WorldType /\ RunType /\ OrderType
  BY NextKeepsConfiguration, ConfigurationStays DEF SplunkType, SearchType
<1>1. ASSUME UNCHANGED <<phase, toDispatch, job, searching, observed, recover>>
      PROVE  OrderType'
  BY <1>0, <1>1 DEF OrderType, InRun, Current
<1>2. ASSUME phase' \in {"idle", "emit", "commit"}, toDispatch' = <<>>, searching' = <<>>,
             job' = NoJob
      PROVE  OrderType'
  BY <1>0, <1>2 DEF OrderType, InRun
<1>3. CASE Finalize \/ (\E j \in live : JobEnds(j)) \/ (\E e \in Events : Index(e)) \/ Tick
           \/ UNCHANGED vars
  BY <1>1, <1>3 DEF Finalize, JobEnds, Index, Tick, vars, checkVars, memoryVars
<1>4. CASE CheckNothing \/ Emit \/ EmitFails \/ EmitUncommitted \/ EmitStopped \/ Commit
  BY <1>0, <1>2, <1>4
     DEF CheckNothing, Emit, EmitFails, EmitUncommitted, EmitStopped, Commit, OrderType, InRun
<1>5. CASE Restart \/ Crash
  BY <1>2, <1>5 DEF Restart, Crash, Die
<1>6. CASE CheckBegin
  <2>1. /\ toDispatch' = conf.searches /\ conf.searches \in Seq(Names)
        /\ \A i, k \in 1..Len(conf.searches) : conf.searches[i] = conf.searches[k] => i = k
    BY <1>6, Configured, SearchesNamed, <1>0 DEF CheckBegin, WorldType
  <2>2. /\ phase = "idle" /\ searching = <<>> /\ job = NoJob
        /\ searching' = searching /\ job' = job
        /\ phase' = IF conf.searches = <<>> THEN "emit" ELSE "dispatch"
    BY <1>0, <1>6 DEF CheckBegin, OrderType, InRun
  <2> QED
    BY <1>0, <2>1, <2>2 DEF OrderType, InRun
<1>7. ASSUME phase \in {"dispatch", "persist"}, SearchDone, job' = NoJob,
             UNCHANGED <<searching, observed>>,
             \A s \in Names : s # Current => recover'[s] = recover[s]
      PROVE  OrderType'
  <2>1. /\ toDispatch \in Seq(Names) /\ toDispatch # <<>> /\ toDispatch' = Tail(toDispatch)
        /\ phase' \in {"process", "dispatch"}
        /\ Len(toDispatch) = 1 => phase' = "process"
    BY <1>0, <1>7 DEF OrderType, SearchDone
  <2>2. /\ Current = toDispatch[1] /\ 1 \in 1..Len(toDispatch)
        /\ toDispatch' \in Seq(Names)
        /\ \A i \in 1..Len(toDispatch') :
            i + 1 \in 1..Len(toDispatch) /\ toDispatch'[i] = toDispatch[i + 1]
        /\ toDispatch' = <<>> <=> Len(toDispatch) = 1
    BY <2>1, TailOf DEF Current
  <2>3. ASSUME NEW i \in 1..Len(toDispatch'), NEW k \in 1..Len(toDispatch'),
               toDispatch'[i] = toDispatch'[k]
        PROVE  i = k
    <3>1. i + 1 = k + 1
      BY <1>0, <2>2, <2>3 DEF OrderType
    <3> QED
      BY <3>1
  <2>4. ASSUME NEW i \in 1..Len(searching')
        PROVE  /\ \A k \in 1..Len(toDispatch') : searching'[i].search # toDispatch'[k]
               /\ searching'[i].from = observed'[searching'[i].search]
               /\ searching'[i].to = recover'[searching'[i].search]
               /\ searching'[i].to # CaughtUp => searching'[i].from < searching'[i].to
    <3>1. searching[i].search \in Names
      BY <1>0, <1>7, SearchingType
    <3>2. searching[i].search # Current
      BY <1>0, <1>7, <2>2 DEF OrderType
    <3>3. /\ observed'[searching[i].search] = observed[searching[i].search]
          /\ recover'[searching[i].search] = recover[searching[i].search]
          /\ searching'[i] = searching[i] /\ i \in 1..Len(searching)
      BY <1>7, <3>1, <3>2
    <3>4. \A k \in 1..Len(toDispatch') : searching[i].search # toDispatch'[k]
      BY <1>0, <2>2, <3>3, SearchingOrdered
    <3> QED
      BY <1>0, <3>3, <3>4, SearchingOrdered
  <2> QED
    BY <1>0, <1>7, <2>1, <2>2, <2>3, <2>4 DEF OrderType, InRun
<1>8. CASE FinalizeFails
  <2>1. phase = "dispatch" /\ job' = NoJob /\ UNCHANGED <<observed, recover>>
    BY <1>0, <1>8 DEF FinalizeFails, OrderType, memoryVars
  <2> QED
    BY <1>2, <1>7, <1>8, <2>1 DEF FinalizeFails
<1>9. CASE DispatchFails
  <2>1. /\ phase = "dispatch" /\ job' = NoJob /\ UNCHANGED <<searching, observed>>
        /\ SearchDone /\ recover' = [recover EXCEPT ![Current] = ChunkEnd(Current)]
    BY <1>0, <1>9 DEF DispatchFails, OrderType
  <2>2. \A s \in Names : s # Current => recover'[s] = recover[s]
    BY <1>0, <2>1 DEF RunType
  <2> QED
    BY <1>7, <2>1, <2>2
<1>10. CASE Dispatch
  <2>1. /\ phase = "dispatch" /\ phase' = "persist" /\ FreeSids # {}
        /\ job' = [sid |-> FreshSid, search |-> Current]
        /\ recover' = [recover EXCEPT ![Current] = ChunkEnd(Current)]
        /\ UNCHANGED <<toDispatch, searching, observed>>
    BY <1>10 DEF Dispatch
  <2>2. /\ toDispatch \in Seq(Names) /\ toDispatch # <<>>
        /\ Current = toDispatch[1] /\ 1 \in 1..Len(toDispatch) /\ Current \in Names
    BY <1>0, <2>1, TailOf DEF OrderType, Current
  <2>3. job' \in [sid : Sids, search : Names] /\ job'.search = Current /\ Current' = Current
    BY <1>0, <2>1, <2>2, FreshSidFree DEF Current
  <2>4. ASSUME NEW i \in 1..Len(searching)
        PROVE  recover'[searching[i].search] = recover[searching[i].search]
    <3>1. searching[i].search \in Names
      BY <1>0, SearchingType
    <3>2. searching[i].search # Current
      BY <1>0, <2>2 DEF OrderType
    <3> QED
      BY <1>0, <2>1, <3>1, <3>2 DEF RunType
  <2>5. recover'[Current] # CaughtUp => observed[Current] < recover'[Current]
    BY <1>0, <2>1, <2>2, ChunkEndType DEF RunType, Bounds, CaughtUp
  <2> QED
    BY <1>0, <2>1, <2>3, <2>4, <2>5 DEF OrderType, InRun
<1>11. CASE PersistSid
  <2> DEFINE x == [sid |-> job.sid, search |-> Current,
                   from |-> observed[Current], to |-> recover[Current]]
  <2>1. /\ phase = "persist" /\ searching' = Append(searching, x) /\ job' = NoJob
        /\ SearchDone /\ UNCHANGED <<observed, recover>>
    BY <1>11 DEF PersistSid, memoryVars
  <2>2. /\ toDispatch \in Seq(Names) /\ toDispatch # <<>> /\ toDispatch' = Tail(toDispatch)
        /\ phase' \in {"process", "dispatch"}
        /\ Len(toDispatch) = 1 => phase' = "process"
    BY <1>0, <2>1 DEF OrderType, SearchDone
  <2>3. /\ Current = toDispatch[1] /\ 1 \in 1..Len(toDispatch) /\ Current \in Names
        /\ toDispatch' \in Seq(Names)
        /\ \A i \in 1..Len(toDispatch') :
            i + 1 \in 1..Len(toDispatch) /\ toDispatch'[i] = toDispatch[i + 1]
        /\ toDispatch' = <<>> <=> Len(toDispatch) = 1
    BY <2>2, TailOf DEF Current
  <2>4. x \in SearchType
    BY <1>0, <2>1, <2>3 DEF OrderType, RunType, SearchType
  <2>5. \A i, k \in 1..Len(toDispatch') : toDispatch'[i] = toDispatch'[k] => i = k
    <3>1. ASSUME NEW i \in 1..Len(toDispatch'), NEW k \in 1..Len(toDispatch'),
                 toDispatch'[i] = toDispatch'[k]
          PROVE  i = k
      <4>1. i + 1 = k + 1
        BY <1>0, <2>3, <3>1 DEF OrderType
      <4> QED
        BY <4>1
    <3> QED
      BY <3>1
  <2>6. \A k \in 1..Len(toDispatch') : toDispatch'[k] # Current
    <3>1. ASSUME NEW k \in 1..Len(toDispatch'), toDispatch'[k] = Current PROVE FALSE
      <4>1. k + 1 = 1 /\ k \in Nat
        BY <1>0, <2>3, <3>1 DEF OrderType
      <4> QED
        BY <4>1
    <3> QED
      BY <3>1
  <2>7. /\ searching' \in Seq(SearchType) /\ Len(searching') = Len(searching) + 1
        /\ \A i \in 1..Len(searching) : searching'[i] = searching[i]
        /\ searching'[Len(searching) + 1] = x
        /\ \A i \in 1..Len(searching') : i \in 1..Len(searching) \/ i = Len(searching) + 1
    <3> HIDE DEF x
    <3> QED
      BY <1>0, <2>1, <2>4, AppendOf DEF OrderType
  <2>8. \A i \in 1..Len(searching) : searching[i].search # Current
    BY <1>0, <2>3 DEF OrderType
  <2>9. x.search = Current
    OBVIOUS
  <2>10. \A i, k \in 1..Len(searching') : searching'[i].search = searching'[k].search => i = k
    <3> HIDE DEF x
    <3> QED
      BY <1>0, <2>7, <2>8, <2>9 DEF OrderType
  <2>11. ASSUME NEW i \in 1..Len(searching')
         PROVE  /\ \A k \in 1..Len(toDispatch') : searching'[i].search # toDispatch'[k]
                /\ searching'[i].from = observed'[searching'[i].search]
                /\ searching'[i].to = recover'[searching'[i].search]
                /\ searching'[i].to # CaughtUp => searching'[i].from < searching'[i].to
    <3>1. CASE i \in 1..Len(searching)
      <4>1. searching'[i] = searching[i] /\ UNCHANGED <<observed, recover>>
        BY <2>1, <2>7, <3>1
      <4>2. \A k \in 1..Len(toDispatch') : searching[i].search # toDispatch'[k]
        BY <1>0, <2>3, <3>1, SearchingOrdered
      <4> QED
        BY <1>0, <3>1, <4>1, <4>2, SearchingOrdered
    <3>2. CASE i = Len(searching) + 1
      BY <1>0, <2>1, <2>6, <2>7, <3>2 DEF OrderType
    <3> QED
      BY <2>7, <3>1, <3>2
  <2> QED
    BY <1>0, <2>1, <2>2, <2>3, <2>5, <2>7, <2>10, <2>11 DEF OrderType, InRun
<1>12. ASSUME phase = "process", searching # <<>>, searching' = Tail(searching),
              UNCHANGED <<phase, toDispatch, job, recover>>,
              \A s \in Names : s # Head(searching).search => observed'[s] = observed[s]
       PROVE  OrderType'
  <2>1. /\ Head(searching) = searching[1] /\ 1 \in 1..Len(searching)
        /\ searching' \in Seq(SearchType)
        /\ \A i \in 1..Len(searching') :
            i + 1 \in 1..Len(searching) /\ searching'[i] = searching[i + 1]
    BY <1>0, <1>12, TailOf DEF OrderType
  <2>2. ASSUME NEW i \in 1..Len(searching'), NEW k \in 1..Len(searching'),
               searching'[i].search = searching'[k].search
        PROVE  i = k
    <3>1. /\ i + 1 \in 1..Len(searching) /\ k + 1 \in 1..Len(searching)
          /\ searching[i + 1].search = searching[k + 1].search
      BY <2>1, <2>2
    <3>2. i + 1 = k + 1
      BY <1>0, <3>1, SearchingOrdered
    <3> QED
      BY <3>2
  <2>3. ASSUME NEW i \in 1..Len(searching')
        PROVE  /\ \A k \in 1..Len(toDispatch') : searching'[i].search # toDispatch'[k]
               /\ searching'[i].from = observed'[searching'[i].search]
               /\ searching'[i].to = recover'[searching'[i].search]
               /\ searching'[i].to # CaughtUp => searching'[i].from < searching'[i].to
    <3>1. i + 1 # 1 /\ i + 1 \in 1..Len(searching) /\ searching'[i] = searching[i + 1]
      BY <2>1
    <3>2. searching[i + 1].search \in Names
      BY <1>0, <3>1, SearchingType
    <3>3. searching[i + 1].search # Head(searching).search
      BY <1>0, <2>1, <3>1 DEF OrderType
    <3> QED
      BY <1>0, <1>12, <3>1, <3>2, <3>3 DEF OrderType
  <2> QED
    BY <1>0, <1>12, <2>1, <2>2, <2>3 DEF OrderType, InRun
<1>13. CASE ProcessFails
  BY <1>12, <1>13 DEF ProcessFails
<1>14. CASE Process
  <2>1. Head(searching).search \in Names
    BY <1>0, <1>14, FirstSearching DEF Process
  <2>2. observed' = [observed EXCEPT ![Head(searching).search] = LastSecond(Head(searching))]
    BY <1>14 DEF Process, LastSecond
  <2> QED
    BY <1>0, <1>12, <1>14, <2>1, <2>2 DEF Process, RunType
<1>15. CASE ChunkDone
  <2>1. phase' = IF toDispatch = <<>> THEN "emit" ELSE "dispatch"
    BY <1>15 DEF ChunkDone
  <2>2. UNCHANGED <<toDispatch, job, searching, observed, recover>> /\ phase = "process"
    BY <1>15 DEF ChunkDone, memoryVars
  <2> QED
    BY <1>0, <1>15, <2>1, <2>2 DEF ChunkDone, OrderType, InRun
<1> QED
  BY <1>3, <1>4, <1>5, <1>6, <1>8, <1>9, <1>10, <1>11, <1>13, <1>14, <1>15
     DEF Next, CheckStep, Fault

\* The variables of a Splunk check keep their types, whatever fails.
LEMMA TypeInvariant == SplunkType /\ [Next]_vars => SplunkType'
  BY WorldStep, RunStep, OrderStep DEF SplunkType

-----------------------------------------------------------------------------
(* One job for each search *)

LostLive == lost \subseteq {j.sid : j \in live}

\* The jobs are told apart by their sids, and those that are not lost are known: from
\* the disk, or to the run that has just dispatched one and has yet to write it.
JobsInv ==
    /\ \A i, j \in live : i.sid = j.sid => i = j
    /\ LostLive /\ \A s \in Names : sidOnDisk[s] \notin lost
    /\ \A j \in live : j.sid \in lost \/ sidOnDisk[j.search] = j.sid
            \/ (phase = "persist" /\ job.sid = j.sid /\ j.search = Current)
    /\ phase = "persist" => /\ job.sid \notin lost /\ sidOnDisk[Current] = NoSid
                            /\ \A s \in Names : sidOnDisk[s] # job.sid

LEMMA JobsStep == SplunkType /\ SplunkType' /\ JobsInv /\ [Next]_vars => JobsInv'
<1> SUFFICES ASSUME SplunkType, SplunkType', JobsInv, [Next]_vars PROVE JobsInv'
  OBVIOUS
<1>0. /\ conf' = conf /\ Names' = Names /\ Sids' = Sids /\ WorldType /\ OrderType
      /\ NoSid \notin Sids
  BY NextKeepsConfiguration, ConfigurationStays, SidsNumbered DEF SplunkType, WorldType
<1>1. ASSUME UNCHANGED <<live, sidOnDisk, lost>>, phase # "persist", phase' # "persist"
      PROVE  JobsInv'
  BY <1>0, <1>1 DEF JobsInv, LostLive
<1>2. CASE CheckNothing \/ CheckBegin \/ FinalizeFails \/ Process \/ ProcessFails \/ ChunkDone
           \/ Emit \/ EmitFails \/ EmitUncommitted \/ EmitStopped \/ Commit
  BY <1>1, <1>2
     DEF CheckNothing, CheckBegin, FinalizeFails, SearchDone, Process, ProcessFails, ChunkDone,
         Emit, EmitFails, EmitUncommitted, EmitStopped, Commit, diskVars
<1>3. CASE Finalize
  <2>1. /\ phase = "dispatch" /\ phase' = phase /\ lost' = lost
        /\ live' = {j \in live : j.sid # sidOnDisk[Current]}
        /\ sidOnDisk' = [sidOnDisk EXCEPT ![Current] = NoSid]
    BY <1>3 DEF Finalize, checkVars
  <2>2. Current \in Names
    BY <1>0, <2>1, TailOf DEF OrderType, Current
  <2>3. sidOnDisk \in [Names -> Sids \cup {NoSid}] /\ lost \subseteq Sids
    BY <1>0 DEF WorldType
  <2>4. LostLive' /\ \A s \in Names : sidOnDisk'[s] \notin lost'
    BY <1>0, <2>1, <2>2, <2>3 DEF JobsInv, LostLive
  <2>5. ASSUME NEW j \in live' PROVE j.sid \in lost' \/ sidOnDisk'[j.search] = j.sid
    BY <1>0, <2>1, <2>2, <2>3, <2>5 DEF JobsInv, WorldType
  <2> QED
    BY <1>0, <2>1, <2>4, <2>5 DEF JobsInv
<1>4. CASE Dispatch
  <2>1. /\ phase = "dispatch" /\ phase' = "persist" /\ lost' = lost
        /\ sidOnDisk' = sidOnDisk /\ sidOnDisk[Current] = NoSid /\ Current' = Current
        /\ job' = [sid |-> FreshSid, search |-> Current] /\ live' = live \cup {job'}
    BY <1>4 DEF Dispatch, diskVars, Current
  <2>2. /\ FreshSid \in Sids /\ \A j \in live : j.sid # FreshSid
        /\ \A s \in Names : sidOnDisk[s] # FreshSid
    BY <1>0, <1>4, FreshSidFree DEF Dispatch
  <2>3. job'.sid = FreshSid /\ job'.search = Current
    BY <2>1
  <2>4. FreshSid \notin lost
    BY <2>2 DEF JobsInv, LostLive
  <2>5. LostLive'
    BY <2>1 DEF JobsInv, LostLive
  <2>6. \A j \in live' : j.sid \in lost' \/ sidOnDisk'[j.search] = j.sid
            \/ (job'.sid = j.sid /\ j.search = Current')
    BY <2>1, <2>3 DEF JobsInv
  <2>7. \A i, j \in live' : i.sid = j.sid => i = j
    BY <2>1, <2>2, <2>3 DEF JobsInv
  <2> QED
    BY <1>0, <2>1, <2>2, <2>3, <2>4, <2>5, <2>6, <2>7 DEF JobsInv
<1>5. CASE DispatchFails
  <2> DEFINE k == [sid |-> FreshSid, search |-> Current]
  <2>1. /\ phase = "dispatch" /\ phase' # "persist" /\ sidOnDisk' = sidOnDisk
        /\ \/ UNCHANGED <<live, lost>>
           \/ live' = live \cup {k} /\ lost' = lost \cup {FreshSid}
    BY <1>5 DEF DispatchFails, SearchDone, diskVars
  <2>2. /\ \A j \in live : j.sid # FreshSid /\ \A s \in Names : sidOnDisk[s] # FreshSid
    BY <1>0, <1>5, FreshSidFree DEF DispatchFails
  <2>3. k.sid = FreshSid
    OBVIOUS
  <2>4. /\ FreshSid \in Sids /\ \A s \in Names : sidOnDisk[s] # FreshSid
        /\ \A j \in live : j.sid # FreshSid
    BY <1>0, <1>5, FreshSidFree DEF DispatchFails
  <2> HIDE DEF k
  <2>5. CASE UNCHANGED <<live, lost>>
    BY <1>1, <2>1, <2>5
  <2>6. CASE live' = live \cup {k} /\ lost' = lost \cup {FreshSid}
    BY <1>0, <2>1, <2>3, <2>4, <2>6 DEF JobsInv, LostLive
  <2> QED
    BY <2>1, <2>5, <2>6
<1>6. CASE PersistSid
  <2>1. /\ phase = "persist" /\ phase' # "persist" /\ UNCHANGED <<live, lost>>
        /\ sidOnDisk' = [sidOnDisk EXCEPT ![Current] = job.sid]
    BY <1>6 DEF PersistSid, SearchDone
  <2>2. Current \in Names /\ sidOnDisk \in [Names -> Sids \cup {NoSid}]
    BY <1>0, <2>1, TailOf DEF OrderType, Current, WorldType
  <2>3. \A j \in live : j.sid \in Sids /\ j.search \in Names
    BY <1>0 DEF WorldType
  <2> QED
    BY <1>0, <2>1, <2>2, <2>3 DEF JobsInv, LostLive
<1>7. CASE Restart \/ Crash
  <2>1. /\ phase' = "idle" /\ UNCHANGED <<live, sidOnDisk>>
        /\ lost' = lost \cup ({job.sid} \cap {j.sid : j \in live})
    BY <1>7 DEF Restart, Crash, Die, diskVars
  <2>2. \A j \in live : j.sid \in Sids
    BY <1>0 DEF WorldType
  <2>3. phase # "persist" => job.sid \notin Sids
    BY <1>0 DEF OrderType, NoJob
  <2> QED
    BY <1>0, <2>1, <2>2, <2>3 DEF JobsInv, LostLive
<1>8. ASSUME NEW j \in live, JobEnds(j) PROVE JobsInv'
  <2>1. /\ live' = live \ {j} /\ lost' = lost \ {j.sid}
        /\ UNCHANGED <<sidOnDisk, phase, job>> /\ Current' = Current
    BY <1>8 DEF JobEnds, diskVars, checkVars, Current
  <2> QED
    BY <1>0, <2>1 DEF JobsInv, LostLive
<1>9. CASE (\E e \in Events : Index(e)) \/ Tick \/ UNCHANGED vars
  <2>1. UNCHANGED <<live, sidOnDisk, lost, phase, job>> /\ Current' = Current
    BY <1>9 DEF Index, Tick, vars, diskVars, checkVars, Current
  <2> QED
    BY <1>0, <2>1 DEF JobsInv, LostLive
<1> QED
  BY <1>2, <1>3, <1>4, <1>5, <1>6, <1>7, <1>8, <1>9 DEF Next, CheckStep, Fault

LEMMA JobsKnown == SplunkType /\ JobsInv => OneJobPerSearch
<1> SUFFICES ASSUME SplunkType, JobsInv, NEW s \in Names
             PROVE  Cardinality({j \in live : j.search = s /\ j.sid \notin lost}) <= 1
  BY DEF OneJobPerSearch
<1> DEFINE S == {j \in live : j.search = s /\ j.sid \notin lost}
<1>1. \A i, j \in S : i = j
  <2>1. \A j \in S : j.sid \in Sids /\ NoSid \notin Sids
    BY SidsNumbered DEF SplunkType, WorldType
  <2> QED
    BY <2>1 DEF JobsInv
<1>2. CASE S = {}
  BY <1>2, FS_EmptySet
<1>3. CASE S # {}
  <2>1. PICK j \in S : TRUE
    BY <1>3
  <2>2. S = {j}
    BY <1>1, <2>1
  <2> QED
    BY <2>2, FS_Singleton
<1> QED
  BY <1>2, <1>3

-----------------------------------------------------------------------------
(* Nothing is produced twice, and the status does not go back *)

\* What a run searches, and what it produced, is after what the status on disk covers.
NewInv ==
    /\ \A e \in payload : e.time > committed[e.search]
    /\ phase \in {"idle", "commit"} => payload = {}
    /\ InRun => \A s \in Names : observed[s] > committed[s]

\* The status that a commit would write, also of a search that failed in this run, is
\* not before the one on disk.
StatusInv == \A s \in Names : recover[s] # Unread => Status(s) >= committed[s]

LEMMA NewStep == SplunkType /\ NewInv /\ [Next]_vars => NewInv'
<1> SUFFICES ASSUME SplunkType, NewInv, [Next]_vars PROVE NewInv'
  OBVIOUS
<1>0. /\ conf' = conf /\ Names' = Names /\ WorldType /\ RunType /\ OrderType
  BY NextKeepsConfiguration, ConfigurationStays DEF SplunkType
<1>1. ASSUME UNCHANGED <<committed, observed>>, payload' \in {payload, {}},
             InRun' => InRun, phase' \in {"idle", "commit"} => payload' = {}
      PROVE  NewInv'
  BY <1>0, <1>1 DEF NewInv
<1>2. CASE Finalize \/ FinalizeFails \/ Dispatch \/ DispatchFails \/ PersistSid
           \/ ProcessFails \/ ChunkDone
  BY <1>1, <1>2
     DEF Finalize, FinalizeFails, Dispatch, DispatchFails, PersistSid, ProcessFails, ChunkDone,
         SearchDone, InRun, diskVars, memoryVars, checkVars, sentVars, NewInv
<1>3. CASE Emit \/ EmitFails \/ EmitUncommitted
  BY <1>1, <1>3 DEF Emit, EmitFails, EmitUncommitted, Sent, InRun, diskVars, memoryVars
<1>4. CASE CheckNothing
  BY <1>1, <1>4 DEF CheckNothing, InRun, diskVars, sentVars
<1>5. CASE CheckBegin
  <2>1. /\ payload' = {} /\ UNCHANGED committed /\ observed' = [s \in Names |-> StartOf(s)]
    BY <1>5 DEF CheckBegin, NewInv, diskVars, sentVars
  <2> QED
    BY <1>0, <2>1, StartsAfterStatus DEF NewInv
<1>6. CASE Process
  <2> DEFINE j == Head(searching)
  <2>1. j \in SearchType /\ j.search \in Names /\ j.from = observed[j.search] /\ InRun
    BY <1>0, <1>6, FirstSearching, SearchingOrdered DEF Process, InRun
  <2>2. /\ Results(j) \subseteq EventsSought
        /\ LastSecond(j) \in Nat /\ LastSecond(j) >= observed[j.search]
    BY <1>0, <2>1, ResultsType
  <2>3. /\ payload' \subseteq payload \cup Results(j)
        /\ observed' = [observed EXCEPT ![j.search] = LastSecond(j)]
        /\ UNCHANGED <<committed, phase>>
    BY <1>6 DEF Process, LastSecond, diskVars
  <2>4. \A e \in Results(j) : e.search = j.search /\ e.time >= j.from /\ e.time \in Nat
    BY <2>2, EventsTimed DEF Results
  <2> HIDE DEF j
  <2>5. /\ committed \in [Names -> Int] /\ observed \in [Names -> Nat]
    BY <1>0 DEF WorldType, RunType
  <2>6. \A e \in payload' : e.time > committed'[e.search]
    BY <2>1, <2>3, <2>4, <2>5 DEF NewInv
  <2>7. \A s \in Names : observed'[s] > committed'[s]
    BY <2>1, <2>2, <2>3, <2>5 DEF NewInv
  <2> QED
    BY <1>0, <2>1, <2>3, <2>6, <2>7 DEF NewInv, InRun
<1>7. CASE EmitStopped \/ Commit
  <2>1. payload' = {} /\ phase' = "idle"
    BY <1>7 DEF EmitStopped, Commit, NewInv, sentVars
  <2> QED
    BY <2>1 DEF NewInv, InRun
<1>8. CASE Restart \/ Crash
  BY <1>8 DEF Restart, Crash, Die, NewInv, InRun
<1>9. CASE (\E j \in live : JobEnds(j)) \/ (\E e \in Events : Index(e)) \/ Tick
           \/ UNCHANGED vars
  BY <1>1, <1>9 DEF JobEnds, Index, Tick, vars, InRun, NewInv, diskVars, memoryVars, checkVars,
                    sentVars
<1> QED
  BY <1>2, <1>3, <1>4, <1>5, <1>6, <1>7, <1>8, <1>9 DEF Next, CheckStep, Fault

LEMMA StatusStep == SplunkType /\ NewInv /\ StatusInv /\ [Next]_vars => StatusInv'
<1> SUFFICES ASSUME SplunkType, NewInv, StatusInv, [Next]_vars PROVE StatusInv'
  OBVIOUS
<1>0. /\ conf' = conf /\ Names' = Names /\ WorldType /\ RunType /\ OrderType
      /\ committed \in [Names -> Int] /\ observed \in [Names -> Nat]
      /\ recover \in [Names -> Bounds]
  BY NextKeepsConfiguration, ConfigurationStays DEF SplunkType, WorldType, RunType
<1>1. ASSUME UNCHANGED <<committed, observed, recover>> PROVE StatusInv'
  BY <1>0, <1>1 DEF StatusInv, Status
<1>2. CASE CheckNothing \/ Finalize \/ FinalizeFails \/ PersistSid \/ ProcessFails \/ ChunkDone
           \/ Emit \/ EmitFails \/ EmitUncommitted
  BY <1>1, <1>2
     DEF CheckNothing, Finalize, FinalizeFails, PersistSid, ProcessFails, ChunkDone, Emit,
         EmitFails, EmitUncommitted, diskVars, memoryVars
<1>3. CASE CheckBegin
  <2>1. /\ UNCHANGED <<committed, recover>> /\ observed' = [s \in Names |-> StartOf(s)]
    BY <1>3 DEF CheckBegin, diskVars
  <2>2. \A s \in Names : observed'[s] \in Nat /\ observed'[s] > committed[s]
    BY <1>0, <2>1, StartsAfterStatus
  <2> QED
    BY <1>0, <2>1, <2>2 DEF StatusInv, Status
<1>4. CASE Dispatch \/ DispatchFails
  <2>1. /\ UNCHANGED <<committed, observed>> /\ InRun /\ toDispatch # <<>>
        /\ recover' = [recover EXCEPT ![Current] = ChunkEnd(Current)]
    BY <1>0, <1>4 DEF Dispatch, DispatchFails, OrderType, InRun, diskVars
  <2>2. Current \in Names
    BY <1>0, <2>1, TailOf DEF OrderType, Current
  <2>3. /\ observed[Current] > committed[Current]
        /\ ChunkEnd(Current) \in Bounds
        /\ ChunkEnd(Current) # CaughtUp => ChunkEnd(Current) > observed[Current]
    BY <1>0, <2>1, <2>2, ChunkEndType DEF NewInv
  <2> QED
    BY <1>0, <2>1, <2>2, <2>3 DEF StatusInv, Status, Bounds, CaughtUp
<1>5. CASE Process
  <2> DEFINE j == Head(searching)
  <2>1. j \in SearchType /\ j.search \in Names
    BY <1>0, <1>5, FirstSearching DEF Process
  <2>2. LastSecond(j) \in Nat /\ LastSecond(j) >= observed[j.search]
    BY <1>0, <2>1, ResultsType
  <2>3. /\ observed' = [observed EXCEPT ![j.search] = LastSecond(j)]
        /\ UNCHANGED <<committed, recover>>
    BY <1>5 DEF Process, LastSecond, diskVars
  <2> HIDE DEF j
  <2> QED
    BY <1>0, <2>1, <2>2, <2>3 DEF StatusInv, Status
<1>6. CASE Commit
  <2>1. committed' = [s \in Names |-> Status(s)] /\ UNCHANGED <<observed, recover>>
    BY <1>6 DEF Commit, Committed, memoryVars
  <2>2. \A s \in Names : Status(s) \in Int
    BY <1>0, StatusType
  <2> QED
    BY <1>0, <2>1, <2>2 DEF StatusInv, Status
<1>7. CASE EmitStopped \/ Restart \/ Crash
  <2>1. recover' = [s \in Names |-> Unread]
    BY <1>7 DEF EmitStopped, Restart, Crash, Die, ForgetMemory
  <2> QED
    BY <1>0, <2>1 DEF StatusInv
<1>8. CASE (\E j \in live : JobEnds(j)) \/ (\E e \in Events : Index(e)) \/ Tick
           \/ UNCHANGED vars
  BY <1>1, <1>8 DEF JobEnds, Index, Tick, vars, diskVars, memoryVars
<1> QED
  BY <1>2, <1>3, <1>4, <1>5, <1>6, <1>7, <1>8 DEF Next, CheckStep, Fault

-----------------------------------------------------------------------------
(* When every search is read, nothing that was read is lost *)

\* No search runs before its initial delay is over, and until then no commit comes from
\* a search.
Started == launch # NotLaunched /\ now >= launch + conf.initialDelay
LaunchInv ==
    /\ InRun => Started
    /\ \A s \in Names : recover[s] # Unread => Started

LEMMA LaunchStep == SplunkType /\ LaunchInv /\ [Next]_vars => LaunchInv'
<1> SUFFICES ASSUME SplunkType, LaunchInv, [Next]_vars PROVE LaunchInv'
  OBVIOUS
<1>0. /\ conf' = conf /\ Names' = Names /\ recover \in [Names -> Bounds]
      /\ launch \in Nat \cup {NotLaunched} /\ now \in Nat /\ conf.initialDelay \in Nat
      /\ WorldType /\ OrderType
  BY NextKeepsConfiguration, ConfigurationStays, Configured DEF SplunkType, WorldType, RunType
<1>1. ASSUME UNCHANGED <<launch, recover>>, now' \in Nat, now' >= now, InRun' => InRun
      PROVE  LaunchInv'
  BY <1>0, <1>1 DEF LaunchInv, Started, NotLaunched
<1>2. CASE Finalize \/ FinalizeFails \/ PersistSid \/ Process \/ ProcessFails \/ ChunkDone
           \/ Emit \/ EmitFails \/ EmitUncommitted \/ Commit
  BY <1>0, <1>1, <1>2
     DEF Finalize, FinalizeFails, PersistSid, Process, ProcessFails, ChunkDone, SearchDone,
         Emit, EmitFails, EmitUncommitted, Commit, InRun, memoryVars, checkVars, worldVars
<1>3. CASE CheckNothing
  BY <1>0, <1>3 DEF CheckNothing, Launch, LaunchInv, Started, InRun, worldVars, NotLaunched
<1>4. CASE CheckBegin
  <2>1. Started'
    BY <1>0, <1>4 DEF CheckBegin, Launch, TooEarly, LaunchTime, Started, NotLaunched, worldVars
  <2> QED
    BY <2>1 DEF LaunchInv
<1>5. CASE Dispatch \/ DispatchFails
  <2>1. InRun /\ UNCHANGED <<launch, now>>
    BY <1>5 DEF Dispatch, DispatchFails, InRun, worldVars
  <2> QED
    BY <1>0, <2>1 DEF LaunchInv, Started
<1>6. CASE EmitStopped \/ Restart \/ Crash
  <2>1. recover' = [s \in Names |-> Unread] /\ phase' = "idle"
    BY <1>6 DEF EmitStopped, Restart, Crash, Die, ForgetMemory
  <2> QED
    BY <1>0, <2>1 DEF LaunchInv, InRun
<1>7. CASE (\E j \in live : JobEnds(j)) \/ (\E e \in Events : Index(e)) \/ Tick
           \/ UNCHANGED vars
  BY <1>0, <1>1, <1>7
     DEF JobEnds, Index, Tick, vars, InRun, memoryVars, checkVars, worldVars
<1> QED
  BY <1>2, <1>3, <1>4, <1>5, <1>6, <1>7 DEF Next, CheckStep, Fault

\* What becomes of an event: it is to be sent, was sent, or is taken for one that was.
KeptEvents == payload \cup sent \cup skipped
KeptBefore(s, x) == \A e \in returned : e.search = s /\ e.time < x => e \in KeptEvents

\* What a commit of s would cover was kept.
KeptUpTo(s) ==
    IF recover[s] = CaughtUp THEN \A e \in returned : e.search = s => e \in KeptEvents
    ELSE KeptBefore(s, recover[s])

Pending(s) ==
    \/ \E i \in 1..Len(toDispatch) : toDispatch[i] = s
    \/ \E i \in 1..Len(searching) : searching[i].search = s

ReadInv ==
    ReadsEverything =>
        /\ CoveredWasSent
        /\ InRun => \A s \in Names : KeptBefore(s, observed[s]) /\ (Pending(s) \/ KeptUpTo(s))
        /\ phase \in {"emit", "commit"} => \A s \in Names : KeptUpTo(s)

\* A run begins no later than after what the status covers.
LEMMA StartsBehindStatus ==
    ASSUME SplunkType, ReadsEverything, CoveredWasSent, NEW s \in Names,
           NEW e \in returned, e.search = s, e.time < StartOf(s)
    PROVE  e \in KeptEvents
<1>1. /\ e \in EventsSought /\ e.time \in Nat /\ committed[s] \in Int
      /\ now \in Nat /\ conf.end \in Nat /\ now <= conf.end
      /\ conf.initialHistory \in Nat /\ conf.restartHistory \in Nat
  BY EventsTimed, Configured DEF SplunkType, WorldType, RunType
<1>2. /\ e.time + conf.initialHistory >= conf.end
      /\ e.time + conf.restartHistory >= conf.end
  BY <1>1 DEF ReadsEverything
<1>3. e.time <= committed[s]
  BY <1>1, <1>2 DEF StartOf, FirstSecond
<1> QED
  BY <1>3 DEF CoveredWasSent, KeptEvents

LEMMA ReadStep == SplunkType /\ NewInv /\ LaunchInv /\ ReadInv /\ [Next]_vars => ReadInv'
<1> SUFFICES ASSUME SplunkType, NewInv, LaunchInv, ReadInv, [Next]_vars, ReadsEverything'
             PROVE  ReadInv'
  BY DEF ReadInv
<1>0. /\ conf' = conf /\ Names' = Names /\ EventsSought' = EventsSought
      /\ WorldType /\ RunType /\ OrderType
  BY NextKeepsConfiguration, ConfigurationStays DEF SplunkType
<1>a. ReadsEverything /\ CoveredWasSent
  BY <1>0 DEF ReadsEverything, ReadInv
<1>b. conf.faults \cap {"auth", "finalize", "dispatch", "search", "stop"} = {}
  BY <1>a DEF ReadsEverything
<1>c. ASSUME UNCHANGED <<committed, returned>>, sent \subseteq sent', skipped \subseteq skipped'
      PROVE  CoveredWasSent'
  BY <1>a, <1>c DEF CoveredWasSent
<1>d. ASSUME UNCHANGED <<returned, observed, recover>>, KeptEvents \subseteq KeptEvents'
      PROVE  \A s \in Names : /\ KeptBefore(s, observed[s]) => KeptBefore(s, observed[s])'
                              /\ KeptUpTo(s) => KeptUpTo(s)'
  BY <1>d DEF KeptBefore, KeptUpTo
<1>1. CASE CheckNothing
  <2>1. /\ phase' = "emit" /\ TooEarly
        /\ UNCHANGED <<committed, returned, observed, recover, payload, sent, skipped>>
    BY <1>1, <1>b DEF CheckNothing, diskVars, sentVars
  <2>2. \A s \in Names : recover[s] = Unread
    BY <1>0, <2>1, Configured
       DEF LaunchInv, Started, TooEarly, LaunchTime, WorldType, RunType, NotLaunched
  <2>3. \A e \in returned : e.time \in Nat
    BY <1>0, EventsTimed DEF WorldType, RunType
  <2>4. \A s \in Names : KeptUpTo(s)'
    BY <1>0, <2>1, <2>2, <2>3 DEF KeptUpTo, KeptBefore, Unread, CaughtUp
  <2> QED
    BY <1>0, <1>c, <2>1, <2>4 DEF ReadInv, InRun
<1>2. CASE CheckBegin
  <2>1. /\ observed' = [s \in Names |-> StartOf(s)] /\ toDispatch' = conf.searches
        /\ phase' = IF conf.searches = <<>> THEN "emit" ELSE "dispatch"
        /\ UNCHANGED <<committed, returned, recover, payload, sent, skipped>>
    BY <1>2 DEF CheckBegin, diskVars, sentVars
  <2>2. \A s \in Names : KeptBefore(s, observed[s])'
    BY <1>0, <1>a, <2>1, StartsBehindStatus DEF KeptBefore, KeptEvents
  <2>3. \A s \in Names : Pending(s)'
    BY <2>1 DEF Pending, Names
  <2>4. phase' = "emit" => Names = {}
    BY <2>1 DEF Names
  <2>5. phase' \in {"emit", "dispatch"} /\ CoveredWasSent'
    BY <1>c, <2>1
  <2> QED
    BY <1>0, <2>2, <2>3, <2>4, <2>5 DEF ReadInv, InRun
<1>3. CASE Finalize \/ (\E j \in live : JobEnds(j)) \/ (\E e \in Events : Index(e)) \/ Tick
           \/ UNCHANGED vars
  <2>1. UNCHANGED <<committed, returned, observed, recover, payload, sent, skipped, phase,
                    toDispatch, searching>>
    BY <1>3 DEF Finalize, JobEnds, Index, Tick, vars, diskVars, memoryVars, checkVars, sentVars
  <2>2. /\ CoveredWasSent' /\ KeptEvents' = KeptEvents /\ InRun' = InRun
        /\ \A s : Pending(s)' = Pending(s)
    BY <1>c, <2>1 DEF KeptEvents, InRun, Pending
  <2> QED
    BY <1>0, <1>a, <1>d, <2>1, <2>2 DEF ReadInv
<1>4. CASE Dispatch
  <2>1. /\ phase = "dispatch" /\ phase' = "persist" /\ toDispatch # <<>>
        /\ recover' = [recover EXCEPT ![Current] = ChunkEnd(Current)]
        /\ UNCHANGED <<committed, returned, observed, payload, sent, skipped, toDispatch,
                       searching>>
    BY <1>0, <1>4 DEF Dispatch, OrderType, diskVars, sentVars
  <2>2. CoveredWasSent' /\ \A s : Pending(s)' = Pending(s)
    BY <1>c, <2>1 DEF Pending
  <2>3. \A s \in Names : KeptBefore(s, observed[s])'
    BY <1>a, <2>1 DEF ReadInv, InRun, KeptBefore, KeptEvents
  <2>4. ASSUME NEW s \in Names PROVE Pending(s)' \/ KeptUpTo(s)'
    <3>1. CASE s = Current
      <4>1. Current = toDispatch[1] /\ 1 \in 1..Len(toDispatch)
        BY <1>0, <2>1, TailOf DEF OrderType, Current
      <4> QED
        BY <2>2, <3>1, <4>1 DEF Pending
    <3>2. CASE s # Current
      <4>1. recover'[s] = recover[s]
        BY <1>0, <2>1, <3>2 DEF RunType
      <4> QED
        BY <1>a, <2>1, <2>2, <4>1 DEF ReadInv, InRun, KeptUpTo, KeptBefore, KeptEvents
    <3> QED
      BY <3>1, <3>2
  <2> QED
    BY <1>0, <2>1, <2>2, <2>3, <2>4 DEF ReadInv, InRun
<1>5. CASE PersistSid
  <2>1. /\ phase = "persist" /\ toDispatch # <<>> /\ toDispatch' = Tail(toDispatch)
        /\ phase' \in {"process", "dispatch"}
        /\ searching' = Append(searching, [sid |-> job.sid, search |-> Current,
                                           from |-> observed[Current], to |-> recover[Current]])
        /\ UNCHANGED <<committed, returned, observed, recover, payload, sent, skipped>>
    BY <1>0, <1>5 DEF PersistSid, SearchDone, OrderType, memoryVars, sentVars
  <2>2. CoveredWasSent' /\ KeptEvents' = KeptEvents
    BY <1>c, <2>1 DEF KeptEvents
  <2>3. ASSUME NEW s \in Names, Pending(s) PROVE Pending(s)'
    <3> DEFINE x == [sid |-> job.sid, search |-> Current,
                     from |-> observed[Current], to |-> recover[Current]]
    <3>1. /\ toDispatch \in Seq(Names) /\ Current = toDispatch[1]
          /\ Len(toDispatch) \in Nat /\ Len(Tail(toDispatch)) = Len(toDispatch) - 1
          /\ \A i \in 1..Len(Tail(toDispatch)) : Tail(toDispatch)[i] = toDispatch[i + 1]
      BY <1>0, <2>1, TailOf DEF OrderType, Current
    <3>2. /\ Len(searching) \in Nat /\ Len(searching') = Len(searching) + 1
          /\ \A i \in 1..Len(searching) : searching'[i] = searching[i]
          /\ searching'[Len(searching) + 1] = x /\ x.search = Current
      BY <1>0, <2>1 DEF OrderType
    <3>3. CASE \E i \in 1..Len(searching) : searching[i].search = s
      BY <3>2, <3>3 DEF Pending
    <3>4. CASE s = Current
      <4>1. Len(searching) + 1 \in 1..Len(searching')
        BY <3>2
      <4> QED
        BY <3>2, <3>4, <4>1 DEF Pending
    <3>5. ASSUME NEW i \in 1..Len(toDispatch), toDispatch[i] = s, s # Current
          PROVE  Pending(s)'
      <4>1. i - 1 \in 1..Len(Tail(toDispatch)) /\ (i - 1) + 1 = i
        BY <3>1, <3>5
      <4>2. toDispatch'[i - 1] = s
        BY <2>1, <3>1, <3>5, <4>1
      <4> QED
        BY <2>1, <4>1, <4>2 DEF Pending
    <3> QED
      BY <2>3, <3>3, <3>4, <3>5 DEF Pending
  <2> QED
    BY <1>0, <1>a, <1>d, <2>1, <2>2, <2>3 DEF ReadInv, InRun
<1>6. CASE Process
  <2> DEFINE j == Head(searching)
             L == LastSecond(j)
  <2>1. /\ phase = "process" /\ phase' = phase /\ searching # <<>>
        /\ searching' = Tail(searching)
        /\ payload' = payload \cup (Results(j) \ seen[j.search])
        /\ observed' = [observed EXCEPT ![j.search] = L]
        /\ returned' = returned \cup Results(j)
        /\ skipped' = skipped \cup ((Results(j) \cap seen[j.search]) \ sent)
        /\ UNCHANGED <<committed, sent, recover, toDispatch>>
    BY <1>6 DEF Process, LastSecond, diskVars
  <2>2. /\ j = searching[1] /\ 1 \in 1..Len(searching) /\ j \in SearchType
        /\ j.search \in Names /\ j.from \in Nat /\ j.to \in Bounds
        /\ j.from = observed[j.search] /\ j.to = recover[j.search]
        /\ j.to # CaughtUp => j.from < j.to
    BY <1>0, <2>1, FirstSearching, SearchingOrdered
  <2>3. /\ Results(j) \subseteq indexed /\ Results(j) \subseteq EventsSought
        /\ L \in Nat /\ L >= observed[j.search]
        /\ L = observed[j.search] \/ \E e \in Results(j) : L = e.time
    BY <1>0, <2>2, ResultsType
  <2>4. /\ \A e \in Results(j) : /\ e.search = j.search /\ e.time >= j.from /\ e.time \in Nat
                                 /\ j.to # CaughtUp => e.time < j.to
        /\ \A e \in indexed :
              e.search = j.search /\ e.time >= j.from /\ (j.to # CaughtUp => e.time < j.to)
                => e \in Results(j)
    BY <2>3, EventsTimed DEF Results
  <2>5. \A e \in returned : e \in indexed /\ e.time \in Nat
    BY <1>0, EventsTimed DEF WorldType, RunType
  <2> HIDE DEF j, L
  <2>6. KeptEvents \subseteq KeptEvents' /\ Results(j) \subseteq KeptEvents'
    BY <2>1 DEF KeptEvents
  <2>7. CoveredWasSent'
    <3>1. committed[j.search] \in Int /\ j.from > committed[j.search]
      BY <1>0, <2>1, <2>2 DEF NewInv, InRun, WorldType
    <3>2. \A e \in Results(j) : ~(e.time <= committed[e.search])
      BY <2>2, <2>4, <3>1
    <3> QED
      BY <1>a, <2>1, <3>2 DEF CoveredWasSent
  <2>8. \A s \in Names : KeptBefore(s, observed[s])
    BY <1>a, <2>1 DEF ReadInv, InRun
  <2>9. ASSUME NEW e \in returned, e.search = j.search, j.to # CaughtUp => e.time < j.to
        PROVE  e \in KeptEvents'
    <3>1. CASE e.time < j.from
      BY <2>2, <2>6, <2>8, <2>9, <3>1 DEF KeptBefore
    <3>2. CASE e.time >= j.from
      BY <2>4, <2>5, <2>6, <2>9, <3>2
    <3> QED
      BY <2>2, <2>5, <3>1, <3>2
  <2>10. j.to # CaughtUp => L < j.to
    BY <2>2, <2>3, <2>4
  <2>11. /\ observed'[j.search] = L /\ recover'[j.search] = j.to
         /\ \A e \in returned' :
               e.search = j.search /\ (j.to # CaughtUp => e.time < j.to) => e \in KeptEvents'
         /\ \A e \in returned' : e.time \in Nat
    BY <1>0, <2>1, <2>2, <2>4, <2>5, <2>6, <2>9 DEF RunType
  <2>12. ASSUME NEW s \in Names, s # j.search
         PROVE  KeptBefore(s, observed[s])' /\ (Pending(s)' \/ KeptUpTo(s)')
    <3>1. observed'[s] = observed[s] /\ recover'[s] = recover[s]
      BY <1>0, <2>1, <2>12 DEF RunType
    <3>2. \A e \in returned' : e.search = s => e \in returned
      BY <2>1, <2>4, <2>12
    <3>3. KeptBefore(s, observed[s])'
      BY <2>6, <2>8, <3>1, <3>2 DEF KeptBefore
    <3>4. KeptUpTo(s) => KeptUpTo(s)'
      BY <2>6, <3>1, <3>2 DEF KeptUpTo, KeptBefore
    <3>5. Pending(s) => Pending(s)'
      <4>1. /\ searching \in Seq(SearchType) /\ Len(searching) \in Nat
            /\ Len(Tail(searching)) = Len(searching) - 1
            /\ \A i \in 1..Len(Tail(searching)) : Tail(searching)[i] = searching[i + 1]
        BY <1>0, <2>1, TailOf DEF OrderType
      <4>2. ASSUME NEW i \in 1..Len(searching), searching[i].search = s PROVE Pending(s)'
        <5>1. i # 1
          BY <2>2, <2>12, <4>2
        <5>2. i - 1 \in 1..Len(Tail(searching)) /\ (i - 1) + 1 = i
          BY <4>1, <5>1
        <5>3. searching'[i - 1].search = s
          BY <2>1, <4>1, <4>2, <5>2
        <5> QED
          BY <2>1, <5>2, <5>3 DEF Pending
      <4> QED
        BY <2>1, <4>2 DEF Pending
    <3> QED
      BY <1>a, <2>1, <3>3, <3>4, <3>5 DEF ReadInv, InRun
  <2>13. ASSUME NEW s \in Names, s = j.search
         PROVE  KeptBefore(s, observed[s])' /\ KeptUpTo(s)'
    <3>1. j.to # CaughtUp => j.to \in Nat
      BY <2>2 DEF Bounds
    <3>2. \A e \in returned' : e.search = s /\ e.time < observed'[s] => e \in KeptEvents'
      BY <2>3, <2>10, <2>11, <2>13, <3>1
    <3>3. IF recover'[s] = CaughtUp THEN \A e \in returned' : e.search = s => e \in KeptEvents'
          ELSE \A e \in returned' : e.search = s /\ e.time < recover'[s] => e \in KeptEvents'
      BY <2>11, <2>13
    <3> QED
      BY <3>2, <3>3 DEF KeptBefore, KeptUpTo
  <2>14. \A s \in Names : KeptBefore(s, observed[s])' /\ (Pending(s)' \/ KeptUpTo(s)')
    BY <2>12, <2>13
  <2> QED
    BY <1>0, <2>1, <2>7, <2>14 DEF ReadInv, InRun
<1>7. CASE ChunkDone
  <2>1. /\ phase = "process" /\ searching = <<>>
        /\ phase' = IF toDispatch = <<>> THEN "emit" ELSE "dispatch"
        /\ UNCHANGED <<committed, returned, observed, recover, payload, sent, skipped,
                       toDispatch, searching>>
    BY <1>7 DEF ChunkDone, diskVars, memoryVars, sentVars
  <2>2. CoveredWasSent' /\ KeptEvents' = KeptEvents /\ \A s : Pending(s)' = Pending(s)
    BY <1>c, <2>1 DEF KeptEvents, Pending
  <2>3. toDispatch = <<>> => \A s : ~Pending(s)
    BY <2>1 DEF Pending
  <2> QED
    BY <1>0, <1>a, <1>d, <2>1, <2>2, <2>3 DEF ReadInv, InRun
<1>8. CASE Emit
  <2>1. /\ phase = "emit" /\ phase' = "commit" /\ sent' = sent \cup payload
        /\ UNCHANGED <<committed, returned, observed, recover, skipped>>
    BY <1>8 DEF Emit, Sent, diskVars, memoryVars
  <2>2. CoveredWasSent' /\ KeptEvents \subseteq KeptEvents'
    BY <1>c, <2>1 DEF KeptEvents
  <2> QED
    BY <1>0, <1>a, <1>d, <2>1, <2>2 DEF ReadInv, InRun
<1>9. CASE EmitFails \/ EmitUncommitted \/ Restart \/ Crash
  <2>1. phase' = "idle" /\ UNCHANGED <<committed, returned, skipped>> /\ sent \subseteq sent'
    BY <1>9 DEF EmitFails, EmitUncommitted, Sent, Restart, Crash, Die, diskVars
  <2> QED
    BY <1>c, <2>1 DEF ReadInv, InRun
<1>10. CASE Commit
  <2>1. /\ phase = "commit" /\ phase' = "idle" /\ payload = {}
        /\ committed' = [s \in Names |-> Status(s)]
        /\ UNCHANGED <<returned, sent, skipped>>
    BY <1>10 DEF Commit, Committed, NewInv, sentVars
  <2>2. ASSUME NEW e \in returned, e.time <= committed'[e.search]
        PROVE  e \in sent \cup skipped
    <3>1. e.search \in Names /\ e.time \in Nat
      BY <1>0, EventsTimed DEF WorldType, RunType
    <3>2. recover[e.search] \in Nat \cup {-1}
      BY <1>0, <3>1 DEF RunType, Bounds, CaughtUp
    <3>3. KeptUpTo(e.search)
      BY <1>a, <2>1, <3>1 DEF ReadInv
    <3>4. e.time <= Status(e.search)
      BY <2>1, <2>2, <3>1
    <3>5. e \in KeptEvents
      BY <3>1, <3>2, <3>3, <3>4 DEF KeptUpTo, KeptBefore, Status, CaughtUp
    <3> QED
      BY <2>1, <3>5 DEF KeptEvents
  <2>3. CoveredWasSent'
    BY <2>1, <2>2 DEF CoveredWasSent
  <2> QED
    BY <2>1, <2>3 DEF ReadInv, InRun
<1>11. ~(FinalizeFails \/ DispatchFails \/ ProcessFails \/ EmitStopped)
  BY <1>b DEF FinalizeFails, DispatchFails, ProcessFails, EmitStopped
<1> QED
  BY <1>1, <1>2, <1>3, <1>4, <1>5, <1>6, <1>7, <1>8, <1>9, <1>10, <1>11
     DEF Next, CheckStep, Fault

-----------------------------------------------------------------------------
(* The theorems *)

SplunkInv == SplunkType /\ JobsInv /\ NewInv /\ StatusInv /\ LaunchInv /\ ReadInv

LEMMA SplunkInvariant == Spec => []SplunkInv
<1>1. Init => SplunkInv
  <2> SUFFICES ASSUME Init PROVE SplunkInv
    OBVIOUS
  <2>1. JobsInv
    BY DEF Init, JobsInv, LostLive
  <2>2. NewInv /\ StatusInv /\ LaunchInv
    BY DEF Init, NewInv, StatusInv, LaunchInv, InRun
  <2>3. ReadInv
    BY DEF Init, ReadInv, InRun, CoveredWasSent
  <2> QED
    BY <2>1, <2>2, <2>3, TypeInit DEF SplunkInv
<1>2. SplunkInv /\ [Next]_vars => SplunkInv'
  BY TypeInvariant, JobsStep, NewStep, StatusStep, LaunchStep, ReadStep DEF SplunkInv
<1> QED
  BY <1>1, <1>2, PTL DEF Spec

\* Whatever fails and wherever the agent is killed between the login and the commit of
\* splunk_telemetry_base.py, nothing is produced that the status on disk covers, a search
\* has one job at most that is known, and, when every search is read, what a search has
\* returned and the status covers was sent or skipped as a duplicate.
THEOREM TelemetryCorrect == Spec => []TelemetrySound
<1>1. SplunkInv => TelemetrySound
  <2> SUFFICES ASSUME SplunkInv PROVE TelemetrySound
    OBVIOUS
  <2>0. WorldType /\ RunType /\ OrderType
    BY DEF SplunkInv, SplunkType
  <2>1. TypeOK
    <3>1. now \in Nat
      BY <2>0, Configured DEF WorldType
    <3>2. EventsSought \subseteq Events
      BY DEF EventsSought
    <3>3. \A i \in 1..Len(toDispatch) : toDispatch[i] \in Names
      BY <2>0 DEF OrderType
    <3>4. \A i \in 1..Len(searching) :
            searching[i].search \in Names /\ searching[i].from \in Int
      BY <2>0, SearchingType DEF SearchType
    <3>5. /\ committed \in [Names -> Int] /\ observed \in [Names -> Int]
          /\ recover \in [Names -> Int] /\ launch \in Int
      BY <2>0 DEF WorldType, RunType, Bounds, CaughtUp, NotLaunched
    <3>6. seen \in [Names -> SUBSET Events] /\ phase \in Phases
      BY <2>0, <3>2 DEF RunType
    <3>7. IF phase = "persist" THEN job.sid \in Sids /\ job.search = Current ELSE job = NoJob
      BY <2>0 DEF OrderType
    <3>8. \A j \in live : j.sid \in Sids /\ j.search \in Names
      BY <2>0 DEF WorldType
    <3> QED
      BY <2>0, <3>1, <3>2, <3>3, <3>4, <3>5, <3>6, <3>7, <3>8
         DEF TypeOK, WorldType, RunType, Phases
  <2>2. ProducesOnlyNew
    BY <2>1 DEF ProducesOnlyNew, SplunkInv, NewInv
  <2>3. OneJobPerSearch
    BY JobsKnown DEF SplunkInv
  <2>4. NothingReadIsLost
    BY DEF SplunkInv, ReadInv, NothingReadIsLost
  <2> QED
    BY <2>2, <2>3, <2>4 DEF TelemetrySound, NothingTwice
<1> QED
  BY <1>1, SplunkInvariant, PTL

\* commit_succeeded() never writes a status behind the one on disk for a search that has
\* run since the agent started, although it may come from a search that failed.
THEOREM StatusCorrect == Spec => StatusAdvances
<1>1. SplunkInv /\ [Next]_vars
        => [\A s \in Names : recover[s] # Unread => committed'[s] >= committed[s]]_vars
  <2> SUFFICES ASSUME SplunkInv, Next, NEW s \in Names, recover[s] # Unread
               PROVE  committed'[s] >= committed[s]
    OBVIOUS
  <2>1. committed[s] \in Int
    BY DEF SplunkInv, SplunkType, WorldType
  <2>2. CASE Commit \/ EmitStopped
    <3>1. committed'[s] = Status(s)
      BY <2>2 DEF Commit, EmitStopped, Committed
    <3> QED
      BY <3>1 DEF SplunkInv, StatusInv
  <2>3. CASE ~(Commit \/ EmitStopped)
    <3>1. committed' = committed
      BY <2>3
         DEF Next, CheckStep, Fault, CheckBegin, CheckNothing, Finalize, FinalizeFails,
             Dispatch, DispatchFails, PersistSid, Process, ProcessFails, ChunkDone, Emit,
             EmitFails, EmitUncommitted, Restart, Crash, Die, JobEnds, Index, Tick, diskVars
    <3> QED
      BY <2>1, <3>1
  <2> QED
    BY <2>2, <2>3
<1> QED
  BY <1>1, SplunkInvariant, PTL DEF Spec, StatusAdvances

-----------------------------------------------------------------------------
(* SplunkSession *)

SearchNames == NamedSearches \cup ServerSearches
StatusFile == [token : Nat, positions : [SearchNames -> {"none", "read", "minus one"}]]

\* The tokens, those of the status and of the disk among them.
TokenType ==
    /\ day \in Nat /\ expiry \in Seq(Int) /\ Len(expiry) \in Nat
    /\ yamlToken \in 1..Len(expiry) /\ bearer \in 0..Len(expiry)
    /\ status.token \in 0..Len(expiry) /\ file.token \in 0..Len(expiry)

\* The rest of what the argument is about.
SessionType ==
    /\ TokenType
    /\ status \in StatusFile /\ file \in StatusFile
    /\ sessionPc \in {"idle", "create", "made", "open", "dump", "list", "run", "commit"}
    /\ after \in {"idle", "list"} /\ listed \subseteq ServerSearches
    /\ committedOnce \subseteq SearchNames

\* The tokens that the check has made are not the one of the YAML: the status has no
\* other, a session that is asked for or renewed uses the one TokenInUse says, and the
\* lists are asked for with one of its own.
TokensKnown ==
    /\ \A s \in {status, file} : s.token # yamlToken
    /\ sessionPc \in {"create", "made"} => bearer = TokenInUse
    /\ sessionPc = "made" => yamlToken < Len(expiry)
    /\ sessionPc \in {"list", "run"} \/ (sessionPc \in {"open", "dump"} /\ after = "list")
            => bearer # NoToken /\ bearer # yamlToken

\* A token that was written is in the status, and on disk but for a write.
TokenPersisted ==
    persisted /\ ~cut => status.token # NoToken /\ (sessionPc # "dump" => file.token # NoToken)

Matched(names) == {n \in names : MatchingPatterns(n) # {}}
FoundBy(n) == IF n \in NamedSearches THEN 0 ELSE Min(MatchingPatterns(n))

\* The searches there are, whether or not a list was read.
SearchesKnown ==
    /\ NamedOnly \subseteq found
    /\ \A s \in found :
        /\ s = [name |-> s.name, by |-> FoundBy(s.name)]
        /\ s.name \in NamedSearches \cup Matched(ServerSearches)
    /\ ~everListed => found = NamedOnly
    /\ everListed => FoundNames = NamedSearches \cup Matched(listed)

\* Where the positions of the status and of the disk come from.
PositionsKnown ==
    /\ \A n \in SearchNames :
        /\ file.positions[n] # "none" => n \in committedOnce
        /\ status.positions[n] # "none" =>
              n \in committedOnce \cup NamedSearches \/ (everListed /\ n \in listed)
        /\ status.positions[n] # "none" => n \in NamedSearches \cup Matched(ServerSearches)
        /\ "minus one" \in {status.positions[n], file.positions[n]} => n \in neverRan
    /\ committedOnce \subseteq NamedSearches \cup Matched(ServerSearches)
    /\ everListed => committedOnce \subseteq NamedSearches \cup listed \cup delisted

\* What was committed is lost only in the ways SessionKept names, from the status too.
PositionsKept ==
    ~cut => \A n \in committedOnce :
        /\ status.positions[n] = "none" => n \in delisted \cup neverRan
        /\ sessionPc # "dump" /\ file.positions[n] = "none" => n \in delisted \cup neverRan

SessionInv ==
    /\ SessionType /\ TokensKnown /\ TokenPersisted /\ SearchesKnown
    /\ PositionsKnown /\ PositionsKept

\* A pattern is found by its number.
LEMMA PatternFound ==
    ASSUME SessionAssumption, NEW n, MatchingPatterns(n) # {}
    PROVE  Min(MatchingPatterns(n)) # 0
<1>1. MatchingPatterns(n) \subseteq 1..Len(Patterns) /\ Len(Patterns) \in Nat
  BY DEF MatchingPatterns, SessionAssumption
<1>2. IsFiniteSet(MatchingPatterns(n))
  <2>1. 1 \in Int /\ Len(Patterns) \in Int
    BY <1>1
  <2>2. IsFiniteSet(1..Len(Patterns))
    BY <2>1, FS_Interval, Zenon
  <2> QED
    BY <1>1, <2>2, FS_Subset
<1>3. Min(MatchingPatterns(n)) \in MatchingPatterns(n)
  BY <1>1, <1>2, MinOfFinite
<1> QED
  BY <1>1, <1>3

LEMMA NoStatusYetIs ==
    /\ NoStatusYet \in StatusFile /\ NoStatusYet.token = NoToken
    /\ \A n \in SearchNames : NoStatusYet.positions[n] = "none"
  BY DEF NoStatusYet, StatusFile, Unknown, SearchNames, NoToken

LEMMA SessionInitial == SessionAssumption /\ SessionInit => SessionInv
<1> SUFFICES ASSUME SessionAssumption, SessionInit PROVE SessionInv
  OBVIOUS
<1>1. SessionType
  <2>1. PICK e \in InitialExpiries : expiry = <<e>>
    BY DEF SessionInit
  <2>2. expiry \in Seq(Int) /\ Len(expiry) = 1
    BY <2>1 DEF SessionAssumption
  <2>3. TokenType
    BY <2>2, NoStatusYetIs DEF SessionInit, TokenType, NoToken
  <2> QED
    BY <2>3, NoStatusYetIs DEF SessionInit, SessionType
<1>2. TokensKnown /\ TokenPersisted
  BY NoStatusYetIs DEF SessionInit, TokensKnown, TokenPersisted, NoToken
<1>3. SearchesKnown
  BY DEF SessionInit, SearchesKnown, NamedOnly, FoundBy
<1>4. PositionsKnown /\ PositionsKept
  BY NoStatusYetIs DEF SessionInit, PositionsKnown, PositionsKept
<1> QED
  BY <1>1, <1>2, <1>3, <1>4 DEF SessionInv

LEMMA TokenTypeStep ==
    SessionAssumption /\ SessionType /\ [SessionNext]_splunkVars => TokenType'
<1> SUFFICES ASSUME SessionAssumption, SessionType, [SessionNext]_splunkVars PROVE TokenType'
  OBVIOUS
<1>0. TokenType /\ status \in StatusFile /\ ExpirationDays \in Nat /\ TokenInUse \in 0..Len(expiry)
  BY DEF SessionType, TokenType, SessionAssumption, TokenInUse, IsInitial, NoToken
<1>1. ASSUME expiry' = Append(expiry, day + ExpirationDays)
      PROVE  expiry' \in Seq(Int) /\ Len(expiry') = Len(expiry) + 1
  BY <1>0, <1>1 DEF TokenType
<1>2. CASE DayPasses \/ UNCHANGED splunkVars
  <2>1. UNCHANGED <<expiry, yamlToken, status, file, bearer>> /\ day' \in {day, day + 1}
    BY <1>2 DEF DayPasses, sessionVars, splunkVars
  <2> QED
    BY <1>0, <2>1 DEF TokenType
<1>3. CASE RestartSession
  <2>1. /\ status' = file /\ bearer' = 0 /\ UNCHANGED <<day, file>>
        /\ \/ UNCHANGED <<expiry, yamlToken>>
           \/ expiry' = Append(expiry, day + ExpirationDays) /\ yamlToken' = Len(expiry) + 1
    BY <1>3 DEF RestartSession, NoToken
  <2>2. CASE UNCHANGED <<expiry, yamlToken>>
    BY <1>0, <2>1, <2>2 DEF TokenType
  <2>3. CASE expiry' = Append(expiry, day + ExpirationDays) /\ yamlToken' = Len(expiry) + 1
    <3>1. expiry' \in Seq(Int) /\ Len(expiry') = Len(expiry) + 1
      BY <1>1, <2>3
    <3>2. /\ Len(expiry) \in Nat /\ Len(expiry') \in Nat /\ yamlToken' \in 1..Len(expiry')
          /\ file.token \in 0..Len(expiry')
      BY SMTT(30), <1>0, <2>3, <3>1 DEF TokenType
    <3> QED
      BY <1>0, <2>1, <3>1, <3>2 DEF TokenType
  <2> QED
    BY <2>1, <2>2, <2>3
<1>4. CASE StartSession \/ TokenRefused \/ ListFails \/ RunSearches \/ NotCommitted
  <2>1. UNCHANGED <<day, expiry, yamlToken, status, file>> /\ bearer' \in {bearer, TokenInUse}
    BY <1>4 DEF StartSession, TokenRefused, ListFails, RunSearches, NotCommitted
  <2> QED
    BY <1>0, <2>1 DEF TokenType
<1>5. CASE MakeToken
  <2>1. /\ expiry' \in Seq(Int) /\ Len(expiry') = Len(expiry) + 1
        /\ UNCHANGED <<day, yamlToken, status, file, bearer>>
    BY <1>1, <1>5 DEF MakeToken
  <2>2. Len(expiry) \in Nat /\ Len(expiry') \in Nat
    BY <1>0, <2>1 DEF TokenType
  <2>3. /\ yamlToken \in 1..Len(expiry') /\ bearer \in 0..Len(expiry')
        /\ status.token \in 0..Len(expiry') /\ file.token \in 0..Len(expiry')
    <3>1. Len(expiry') = Len(expiry) + 1
      BY <2>1
    <3>2. /\ yamlToken \in 1..Len(expiry) /\ bearer \in 0..Len(expiry)
          /\ status.token \in 0..Len(expiry) /\ file.token \in 0..Len(expiry)
      BY <1>0 DEF TokenType
    <3> QED
      BY SMTT(30), <2>2, <3>1, <3>2
  <2>4. day \in Nat
    BY <1>0 DEF TokenType
  <2> QED
    BY <2>1, <2>2, <2>3, <2>4 DEF TokenType
<1>6. CASE UpdateTokenMemory
  <2>1. /\ status'.token = Len(expiry) /\ bearer' = Len(expiry)
        /\ UNCHANGED <<day, expiry, yamlToken, file>>
    BY <1>0, <1>6 DEF UpdateTokenMemory, StatusFile
  <2> QED
    BY <1>0, <2>1 DEF TokenType
<1>7. CASE OpenFile \/ Dump \/ ListSearches
  <2>1. /\ file' \in {file, status, NoStatusYet} /\ status' \in {status, file}
        /\ UNCHANGED <<day, expiry, yamlToken, bearer>>
    BY <1>7 DEF OpenFile, Dump, ListSearches
  <2> QED
    BY <1>0, <2>1, NoStatusYetIs DEF TokenType, NoToken
<1>8. CASE CommitPositions
  <2>1. status'.token = status.token /\ UNCHANGED <<day, expiry, yamlToken, file, bearer>>
    BY <1>0, <1>8 DEF CommitPositions, StatusFile
  <2> QED
    BY <1>0, <2>1 DEF TokenType
<1> QED
  BY <1>2, <1>3, <1>4, <1>5, <1>6, <1>7, <1>8 DEF SessionNext

LEMMA SessionTypeStep ==
    SessionAssumption /\ SessionType /\ [SessionNext]_splunkVars => SessionType'
<1> SUFFICES ASSUME SessionAssumption, SessionType, [SessionNext]_splunkVars PROVE SessionType'
  OBVIOUS
<1>0. /\ TokenType' /\ Len(expiry) \in Nat /\ status \in StatusFile /\ file \in StatusFile
      /\ NoStatusYet \in StatusFile /\ after \in {"idle", "list"}
  BY TokenTypeStep, NoStatusYetIs DEF SessionType, TokenType
<1>1. status' \in StatusFile
  <2>1. CASE UpdateTokenMemory
    BY <1>0, <2>1 DEF UpdateTokenMemory, StatusFile
  <2>2. CASE CommitPositions
    BY <1>0, <2>2 DEF CommitPositions, StatusFile, Unknown, SearchNames
  <2>3. CASE ~UpdateTokenMemory /\ ~CommitPositions
    BY <1>0, <2>3 DEF SessionNext, DayPasses, RestartSession, StartSession, MakeToken, TokenRefused,
       OpenFile, Dump, ListSearches, ListFails, RunSearches, NotCommitted, sessionVars, splunkVars
  <2> QED
    BY <2>1, <2>2, <2>3
<1>2. file' \in StatusFile
  BY <1>0 DEF SessionNext, DayPasses, RestartSession, StartSession, MakeToken, TokenRefused,
     UpdateTokenMemory, OpenFile, Dump, ListSearches, ListFails, RunSearches, CommitPositions,
     NotCommitted, sessionVars, splunkVars
<1>3. /\ sessionPc' \in {"idle", "create", "made", "open", "dump", "list", "run", "commit"}
      /\ after' \in {"idle", "list"}
  BY DEF SessionType, SessionNext, DayPasses, RestartSession, StartSession, MakeToken, TokenRefused,
     UpdateTokenMemory, OpenFile, Dump, ListSearches, ListFails, RunSearches, CommitPositions,
     NotCommitted, Fails, sessionVars, splunkVars
<1>4. listed' \subseteq ServerSearches /\ committedOnce' \subseteq SearchNames
  BY DEF SessionType, SessionNext, DayPasses, RestartSession, StartSession, MakeToken, TokenRefused,
     UpdateTokenMemory, OpenFile, Dump, ListSearches, ListFails, RunSearches, CommitPositions,
     NotCommitted, sessionHistory, splunkVars, Unknown, SearchNames
<1> QED
  BY <1>0, <1>1, <1>2, <1>3, <1>4 DEF SessionType

LEMMA TokensStep ==
    SessionType /\ TokensKnown /\ TokenPersisted /\ [SessionNext]_splunkVars
        => TokensKnown' /\ TokenPersisted'
<1> SUFFICES ASSUME SessionType, TokensKnown, TokenPersisted, [SessionNext]_splunkVars
             PROVE  TokensKnown' /\ TokenPersisted'
  OBVIOUS
<1>0. /\ Len(expiry) \in Nat /\ NoToken = 0 /\ yamlToken \in 1..Len(expiry)
      /\ status.token \in 0..Len(expiry) /\ file.token \in 0..Len(expiry)
      /\ status.token # yamlToken /\ file.token # yamlToken
      /\ TokenType /\ status \in StatusFile
  BY DEF SessionType, TokenType, NoToken, TokensKnown
<1>2. CASE DayPasses \/ UNCHANGED splunkVars
  BY <1>2 DEF TokensKnown, TokenPersisted, TokenInUse, IsInitial, DayPasses, sessionVars,
              sessionHistory, splunkVars
<1>3. CASE RestartSession
  <2>1. /\ status' = file /\ UNCHANGED <<file, persisted>> /\ sessionPc' = "idle" /\ after' = "idle"
        /\ cut' = (cut \/ sessionPc = "dump") /\ yamlToken' \in {yamlToken, Len(expiry) + 1}
    BY <1>3 DEF RestartSession
  <2>2. TokensKnown'
    BY <1>0, <2>1 DEF TokensKnown
  <2>3. TokenPersisted'
    BY <2>1 DEF TokenPersisted
  <2> QED
    BY <2>2, <2>3
<1>4. CASE StartSession \/ TokenRefused \/ ListFails \/ RunSearches \/ NotCommitted
  <2>1. UNCHANGED <<expiry, yamlToken, status, file, after, persisted, cut>> /\ sessionPc # "dump"
        /\ sessionPc' \in {"idle", "create", "list", "commit"}
    BY <1>4 DEF StartSession, TokenRefused, ListFails, RunSearches, NotCommitted, Fails,
                sessionHistory
  <2>2. sessionPc' = "create" => bearer' = TokenInUse'
    BY <1>4, <2>1 DEF StartSession, TokenRefused, ListFails, RunSearches, NotCommitted, Fails,
                      TokenInUse, IsInitial
  <2>3. sessionPc' = "list" => bearer' # NoToken /\ bearer' # yamlToken
    BY <1>0, <1>4 DEF StartSession, TokenRefused, ListFails, RunSearches, NotCommitted, Fails,
                      NeedsRenewal, TokenInUse, IsInitial
  <2> QED
    BY <1>0, <2>1, <2>2, <2>3 DEF TokensKnown, TokenPersisted
<1>5. CASE MakeToken
  <2>1. /\ sessionPc = "create" /\ sessionPc' = "made" /\ Len(expiry') = Len(expiry) + 1
        /\ UNCHANGED <<yamlToken, status, file, bearer, persisted, cut>>
    BY <1>0, <1>5 DEF MakeToken, sessionHistory, TokenType
  <2> QED
    BY <1>0, <2>1 DEF TokensKnown, TokenPersisted, TokenInUse, IsInitial
<1>6. CASE UpdateTokenMemory
  <2>1. /\ sessionPc = "made" /\ sessionPc' = "open" /\ bearer' = Len(expiry)
        /\ status'.token = Len(expiry)
        /\ UNCHANGED <<expiry, yamlToken, file, persisted, cut>>
    BY <1>0, <1>6 DEF UpdateTokenMemory, sessionHistory, StatusFile
  <2> QED
    BY <1>0, <2>1 DEF TokensKnown, TokenPersisted
<1>7. CASE OpenFile
  <2>1. /\ sessionPc = "open"
        /\ UNCHANGED <<expiry, yamlToken, status, bearer, after, persisted, cut>>
        /\ \/ sessionPc' = "dump" /\ file' = NoStatusYet
           \/ sessionPc' = after /\ file' = file
    BY <1>7 DEF OpenFile, sessionHistory
  <2>2. after \in {"idle", "list"}
    BY DEF SessionType
  <2> QED
    BY <1>0, <2>1, <2>2, NoStatusYetIs DEF TokensKnown, TokenPersisted
<1>8. CASE Dump
  <2>1. /\ sessionPc = "dump" /\ sessionPc' = after
        /\ UNCHANGED <<expiry, yamlToken, status, bearer, after>>
        /\ \/ /\ file' = status /\ cut' = cut
              /\ persisted' = (persisted \/ status.token # NoToken)
           \/ cut' = TRUE /\ UNCHANGED <<file, persisted>>
    BY <1>8 DEF Dump
  <2>2. after \in {"idle", "list"}
    BY DEF SessionType
  <2> QED
    BY <1>0, <2>1, <2>2 DEF TokensKnown, TokenPersisted
<1>9. CASE ListSearches
  <2>1. /\ sessionPc = "list" /\ sessionPc' = "run" /\ status' = file
        /\ UNCHANGED <<expiry, yamlToken, file, bearer, after, persisted, cut>>
    BY <1>9 DEF ListSearches
  <2> QED
    BY <1>0, <2>1 DEF TokensKnown, TokenPersisted
<1>10. CASE CommitPositions
  <2>1. /\ sessionPc = "commit" /\ sessionPc' = "open" /\ after' = "idle"
        /\ UNCHANGED <<expiry, yamlToken, file, bearer, persisted, cut>>
        /\ status'.token = status.token
    BY <1>0, <1>10 DEF CommitPositions, StatusFile
  <2> QED
    BY <1>0, <2>1 DEF TokensKnown, TokenPersisted
<1> QED
  BY <1>2, <1>3, <1>4, <1>5, <1>6, <1>7, <1>8, <1>9, <1>10 DEF SessionNext

LEMMA SearchesStep ==
    SessionAssumption /\ SessionType /\ SearchesKnown /\ [SessionNext]_splunkVars => SearchesKnown'
<1> SUFFICES ASSUME SessionAssumption, SessionType, SearchesKnown, [SessionNext]_splunkVars
             PROVE  SearchesKnown'
  OBVIOUS
<1>1. CASE UNCHANGED <<found, everListed, listed>>
  BY <1>1 DEF SearchesKnown, FoundNames, Matched
<1>2. CASE RestartSession
  BY <1>2 DEF RestartSession, SearchesKnown, NamedOnly, FoundBy
<1>3. CASE ListSearches
  <2>1. PICK names \in SUBSET ServerSearches :
          listed' = names /\ everListed' = TRUE /\ found' = Kept(names) \cup Added(names)
    BY <1>3 DEF ListSearches
  <2>2. /\ NamedOnly \subseteq found
        /\ \A s \in found : /\ s = [name |-> s.name, by |-> FoundBy(s.name)]
                            /\ s.name \in NamedSearches \cup Matched(ServerSearches)
    BY DEF SearchesKnown
  <2>3. \A s \in found : s.name \notin NamedSearches => s.by # 0
    BY <2>2, PatternFound DEF FoundBy, Matched
  <2>4. \A s \in Kept(names) : s \in found /\ (s.name \in NamedSearches \/ s.name \in names)
    BY <2>3 DEF Kept, StillThere
  <2>5. NamedOnly \subseteq Kept(names)
    BY <2>2 DEF Kept, StillThere, NamedOnly
  <2>6. ASSUME NEW n \in NamedSearches PROVE n \in {s.name : s \in Kept(names)}
    <3>1. [name |-> n, by |-> 0] \in Kept(names)
      BY <2>5 DEF NamedOnly
    <3>2. [name |-> n, by |-> 0].name = n
      OBVIOUS
    <3> QED
      BY <3>1, <3>2
  <2>7. \A s \in Added(names) :
          /\ s.name \in Matched(names) /\ s.name \notin NamedSearches
          /\ s = [name |-> s.name, by |-> FoundBy(s.name)]
    BY <2>6 DEF Added, Matched, FoundBy
  <2>8. ASSUME NEW n \in Matched(names)
        PROVE  n \in {s.name : s \in Kept(names) \cup Added(names)}
    <3>1. CASE n \in {s.name : s \in Kept(names)}
      BY <3>1
    <3>2. CASE n \notin {s.name : s \in Kept(names)}
      <4>1. [name |-> n, by |-> Min(MatchingPatterns(n))] \in Added(names)
        BY <3>2 DEF Added, Matched
      <4>2. [name |-> n, by |-> Min(MatchingPatterns(n))].name = n
        OBVIOUS
      <4> QED
        BY <4>1, <4>2
    <3> QED
      BY <3>1, <3>2
  <2>9. \A s \in found' : /\ s = [name |-> s.name, by |-> FoundBy(s.name)]
                          /\ s.name \in NamedSearches \cup Matched(names)
    BY <2>1, <2>2, <2>4, <2>7 DEF Matched
  <2>10. FoundNames' = NamedSearches \cup Matched(names)
    BY <2>1, <2>6, <2>8, <2>9 DEF FoundNames
  <2> QED
    BY <2>1, <2>5, <2>9, <2>10 DEF SearchesKnown, Matched, NamedOnly
<1> QED
  BY <1>1, <1>2, <1>3 DEF SessionNext, DayPasses, StartSession, MakeToken, TokenRefused,
     UpdateTokenMemory, OpenFile, Dump, ListFails, RunSearches, CommitPositions, NotCommitted,
     sessionVars, sessionHistory, splunkVars

\* The searches that a commit is about.
LEMMA FoundAre ==
    ASSUME SearchesKnown
    PROVE  /\ FoundNames \subseteq NamedSearches \cup Matched(ServerSearches)
           /\ NamedSearches \subseteq FoundNames
           /\ ~everListed => FoundNames = NamedSearches
           /\ everListed => FoundNames = NamedSearches \cup Matched(listed)
<1>1. ASSUME NEW n \in NamedSearches PROVE n \in FoundNames
  <2>1. [name |-> n, by |-> 0] \in found
    BY DEF SearchesKnown, NamedOnly
  <2>2. [name |-> n, by |-> 0].name = n
    OBVIOUS
  <2> QED
    BY <2>1, <2>2 DEF FoundNames
<1>2. ASSUME NEW n \in FoundNames
      PROVE  /\ n \in NamedSearches \cup Matched(ServerSearches)
             /\ ~everListed => n \in NamedSearches
  <2>1. PICK s \in found : n = s.name
    BY DEF FoundNames
  <2>2. ~everListed => \E m \in NamedSearches : s = [name |-> m, by |-> 0]
    BY <2>1 DEF SearchesKnown, NamedOnly
  <2> QED
    BY <2>1, <2>2 DEF SearchesKnown
<1> QED
  BY <1>1, <1>2 DEF SearchesKnown

LEMMA PositionsStep ==
    SessionType /\ SearchesKnown /\ PositionsKnown /\ PositionsKept /\ [SessionNext]_splunkVars
        => PositionsKnown' /\ PositionsKept'
<1> SUFFICES ASSUME SessionType, SearchesKnown, PositionsKnown, PositionsKept,
                    [SessionNext]_splunkVars
             PROVE  PositionsKnown' /\ PositionsKept'
  OBVIOUS
<1>0. status \in StatusFile /\ file \in StatusFile /\ committedOnce \subseteq SearchNames
  BY DEF SessionType
<1>1. CASE /\ UNCHANGED <<file, sessionHistory>> /\ status'.positions = status.positions
           /\ sessionPc = "dump" => sessionPc' = "dump"
  BY <1>1 DEF PositionsKnown, PositionsKept, sessionHistory, Matched
<1>2. CASE DayPasses \/ StartSession \/ MakeToken \/ TokenRefused \/ UpdateTokenMemory \/ ListFails
           \/ RunSearches \/ NotCommitted \/ UNCHANGED splunkVars
  BY <1>0, <1>1, <1>2 DEF DayPasses, StartSession, MakeToken, TokenRefused, UpdateTokenMemory,
     ListFails, RunSearches, NotCommitted, StatusFile, sessionVars, splunkVars
<1>3. CASE RestartSession
  <2>1. /\ status' = file /\ sessionPc' = "idle" /\ everListed' = FALSE
        /\ cut' = (cut \/ sessionPc = "dump")
        /\ UNCHANGED <<file, listed, committedOnce, delisted, neverRan>>
    BY <1>3 DEF RestartSession
  <2>2. PositionsKnown'
    BY <1>0, <2>1 DEF PositionsKnown, Matched
  <2>3. PositionsKept'
    BY <2>1 DEF PositionsKept
  <2> QED
    BY <2>2, <2>3
<1>4. CASE OpenFile
  <2>1. /\ sessionPc = "open" /\ UNCHANGED <<status, sessionHistory>>
        /\ \/ sessionPc' = "dump" /\ file' = NoStatusYet
           \/ sessionPc' # "dump" /\ file' = file
    BY <1>4 DEF OpenFile, SessionType
  <2> QED
    BY <1>1, <2>1, NoStatusYetIs DEF PositionsKnown, PositionsKept, sessionHistory, Matched
<1>5. CASE Dump
  <2>1. /\ sessionPc = "dump" /\ sessionPc' # "dump"
        /\ UNCHANGED <<status, listed, everListed, delisted, neverRan>>
    BY <1>5 DEF Dump, SessionType
  <2>2. CASE /\ file' = status /\ UNCHANGED cut
             /\ committedOnce' =
                    committedOnce \cup {n \in SearchNames : status.positions[n] # "none"}
    <3>1. PositionsKnown'
      BY <2>1, <2>2 DEF PositionsKnown, Matched
    <3>2. PositionsKept'
      BY <2>1, <2>2 DEF PositionsKept
    <3> QED
      BY <3>1, <3>2
  <2>3. CASE cut' = TRUE /\ UNCHANGED <<file, committedOnce>>
    BY <2>1, <2>3 DEF PositionsKnown, PositionsKept, Matched
  <2> QED
    BY <1>5, <2>2, <2>3 DEF Dump, Unknown, SearchNames
<1>6. CASE ListSearches
  <2>1. /\ sessionPc = "list" /\ sessionPc' = "run" /\ status' = file /\ everListed' = TRUE
        /\ delisted' = delisted \cup {n \in committedOnce \ NamedSearches : n \notin listed'}
        /\ UNCHANGED <<file, committedOnce, neverRan, cut>>
    BY <1>6 DEF ListSearches
  <2>2. PositionsKnown'
    BY <1>0, <2>1 DEF PositionsKnown, Matched
  <2>3. PositionsKept'
    BY <2>1 DEF PositionsKept
  <2> QED
    BY <2>2, <2>3
<1>7. CASE CommitPositions
  <2>1. /\ sessionPc = "commit" /\ sessionPc' = "open"
        /\ neverRan' = neverRan \cup (FoundNames \ ranOnce)
                                \cup (IF everListed THEN {} ELSE committedOnce \ FoundNames)
        /\ UNCHANGED <<file, listed, everListed, committedOnce, delisted, cut>>
    BY <1>7 DEF CommitPositions
  <2>2. \A n \in SearchNames :
          status'.positions[n] = IF n \notin FoundNames THEN "none"
                                 ELSE IF n \in ranOnce THEN "read" ELSE "minus one"
    BY <1>0, <1>7 DEF CommitPositions, StatusFile, Unknown, SearchNames
  <2>3. PositionsKnown'
    BY <2>1, <2>2, FoundAre DEF PositionsKnown, Matched
  <2>4. ASSUME NEW n \in committedOnce, n \notin FoundNames PROVE n \in delisted' \cup neverRan'
    BY <2>1, <2>4, FoundAre DEF PositionsKnown, Matched
  <2>5. PositionsKept'
    BY <1>0, <2>1, <2>2, <2>4 DEF PositionsKept
  <2> QED
    BY <2>3, <2>5
<1> QED
  BY <1>2, <1>3, <1>4, <1>5, <1>6, <1>7 DEF SessionNext

\* Whatever is read, fails or is cut short and whenever the agent restarts: the check
\* uses a token of its own once it has one on disk, its searches are those of the last
\* list, each once, and what was committed keeps its position on disk but in the ways
\* that SessionKept names (token_auth_session, SavedSearches.update_searches,
\* commit_succeeded, AgentStatus.persist).
THEOREM SessionCorrect == SessionSpec => []SessionKept
<1>1. SessionAssumption /\ SessionInv /\ [SessionNext]_splunkVars => SessionInv'
  BY SessionTypeStep, TokensStep, SearchesStep, PositionsStep DEF SessionInv
<1>2. SessionInv => SessionKept
  <2> SUFFICES ASSUME SessionInv PROVE SessionKept
    OBVIOUS
  <2>1. sessionPc \in {"create", "made"} /\ bearer = yamlToken => ~persisted \/ cut
    BY DEF SessionInv, TokensKnown, TokenPersisted, TokenInUse, IsInitial
  <2>2. sessionPc \in {"list", "run"} => bearer # NoToken /\ bearer # yamlToken
    BY DEF SessionInv, TokensKnown
  <2>3. everListed =>
          /\ FoundNames = NamedSearches \cup {n \in listed : MatchingPatterns(n) # {}}
          /\ \A s, t \in found : s.name = t.name => s = t
          /\ \A s \in found : IF s.name \in NamedSearches THEN s.by = 0
                              ELSE s.by = Min(MatchingPatterns(s.name))
    BY DEF SessionInv, SearchesKnown, Matched, FoundBy
  <2>4. sessionPc # "dump" /\ ~cut =>
          \A n \in committedOnce :
              /\ file.positions[n] = "none" => n \in delisted \cup neverRan
              /\ file.positions[n] = "minus one" => n \in neverRan
    BY DEF SessionInv, SessionType, PositionsKnown, PositionsKept
  <2> QED
    BY <2>1, <2>2, <2>3, <2>4 DEF SessionKept
<1> QED
  BY SessionAssumption, SessionInitial, <1>1, <1>2, PTL DEF SessionSpec
====
