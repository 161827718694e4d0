--------------------------- MODULE ConfigStoreProofs ---------------------------
(***************************************************************************)
(* Proofs about ConfigStore: the cache of templates follows the store, and *)
(* a check of a container has one source, for every set of identifiers,    *)
(* containers and checks and any number of publications and failures;      *)
(* about ContainerConfigs: an instance has the values of its container;    *)
(* and about Prometheus: a family is put together whole.                   *)
(***************************************************************************)
EXTENDS ConfigStore, ContainerConfigs, Prometheus, FiniteSetTheorems, SequenceTheorems, WellFoundedInduction, TLAPS

-----------------------------------------------------------------------------
(* Types *)

Entries  == {Uncached, NoTemplate} \cup Templates
Origins  == {AutoEntry} \cup Templates

\* The store, the containers, and the flags between the agent's steps.
StoreType ==
    /\ store \in [Ids -> [1..3 -> 0..MaxRevisions]] /\ index \in Nat
    /\ revisions \in 0..MaxRevisions /\ writing \subseteq Ids \X (1..3)
    /\ containers \in [Containers -> {"new", "running", "stopped", "removed"}]
    /\ changed \subseteq Containers /\ failures \in 0..MaxFailures
    /\ pc \in {"top", "reload", "configs", "collect", "names", "crawl"}
    /\ reloadFlag \in Flags /\ sdFlag \in Flags

\* What a reload and a refresh collect.
PassType ==
    /\ todo \in Flags /\ listing \cup seen \subseteq Containers
    /\ found \subseteq Checks \X Containers \X Origins
    /\ loaded \in [Checks -> SUBSET (Containers \X Origins)]
    /\ indexZero = {} \/ \E c \in Checks : indexZero = {c}
    /\ refresh \subseteq Checks

\* The cache, and the read in progress.
CacheType ==
    /\ kvTemplates \in [Ids -> Entries] /\ previousIndex \in 0..(index + 1)
    /\ hidden \cup unread \subseteq Ids
    /\ reading = {} \/ \E i \in Ids : reading = {i}
    /\ got \in Seq(1..MaxRevisions) /\ Len(got) <= 3

CacheTyped == StoreType /\ PassType /\ CacheType

LEMMA TemplateIs ==
    ASSUME NEW t \in Templates
    PROVE  t \in Seq(1..MaxRevisions) /\ Len(t) = 3 /\ t[1] \in 1..MaxRevisions
<1>1. t \in Seq(1..MaxRevisions)
  BY SeqDef DEF Templates
<1>2. Len(t) = 3
  BY <1>1, LenProperties DEF Templates
<1> QED
  BY <1>1, <1>2 DEF Templates

LEMMA ThreeKeys ==
    ASSUME NEW t \in Seq(1..MaxRevisions), Len(t) = 3
    PROVE  t \in Templates
  BY LenProperties DEF Templates

\* A template is told from the other entries by its length.
LEMMA EntryIs ==
    ASSUME ConfigStoreAssumption, NEW entry \in Entries
    PROVE  /\ IsTemplate(entry) <=> entry \in Templates
           /\ KvNames(entry) \subseteq Checks
           /\ KvNames(entry) # {} => entry \in Templates
           /\ Uncached \notin Templates /\ NoTemplate \notin Templates /\ AutoEntry \notin Templates
<1>1. Len(Uncached) = 0 /\ Len(NoTemplate) = 1 /\ Len(AutoEntry) = 2
  BY DEF Uncached, NoTemplate, AutoEntry
<1>2. \A t \in Templates : Len(t) = 3 /\ t[1] \in 1..MaxRevisions
  BY TemplateIs
<1>3. IsTemplate(entry) <=> entry \in Templates
  BY SMTT(30), <1>1, <1>2 DEF Entries, IsTemplate
<1>4. Uncached \notin Templates /\ NoTemplate \notin Templates /\ AutoEntry \notin Templates
  <2>1. \A x : x \in Templates => Len(x) = 3
    BY <1>2
  <2> QED
    BY SMTT(30), <1>1, <2>1
<1>5. entry \in Templates => CheckOf[entry[1]] \in Checks
  BY <1>2 DEF ConfigStoreAssumption
<1> QED
  BY <1>3, <1>4, <1>5 DEF KvNames

\* The configurations of an identifier: each check has one source.
LEMMA ConfigsAre ==
    ASSUME ConfigStoreAssumption, kvTemplates \in [Ids -> Entries], NEW i \in Ids
    PROVE  /\ ConfigsOf(kvTemplates, i) \subseteq Checks \X Origins
           /\ \A c \in Checks : <<c, AutoEntry>> \in ConfigsOf(kvTemplates, i) =>
                 \A t \in Templates : <<c, t>> \notin ConfigsOf(kvTemplates, i)
<1> DEFINE j == SourceOf(kvTemplates, i)
           entry == kvTemplates[j]
<1>1. j \in Ids /\ entry \in Entries
  BY DEF SourceOf, ConfigStoreAssumption
<1>2. AutoConf[j] \subseteq Checks
  BY <1>1 DEF ConfigStoreAssumption
<1>3. ConfigsOf(kvTemplates, i)
        = {<<c, entry>> : c \in KvNames(entry)} \cup {<<c, AutoEntry>> : c \in AutoConf[j] \ KvNames(entry)}
  BY Zenon DEF ConfigsOf, GetTemplates
<1> HIDE DEF j, entry
<1>4. /\ KvNames(entry) \subseteq Checks
      /\ KvNames(entry) # {} => entry \in Templates
      /\ AutoEntry \notin Templates
  BY <1>1, EntryIs
<1> QED
  BY <1>2, <1>3, <1>4 DEF Origins

\* The checks of an identifier are checks.
LEMMA NamesAreChecks ==
    ASSUME ConfigStoreAssumption, kvTemplates \in [Ids -> Entries], NEW i \in Ids
    PROVE  GetCheckNames(i) \subseteq Checks
<1>1. KvNames(kvTemplates[i]) \subseteq Checks
  BY EntryIs
<1>2. AutoConf[i] \subseteq Checks
  BY DEF ConfigStoreAssumption
<1> QED
  BY <1>1, <1>2 DEF GetCheckNames

LEMMA TypesInit == ConfigStoreAssumption /\ Init => CacheTyped
<1> SUFFICES ASSUME ConfigStoreAssumption, Init PROVE CacheTyped
  OBVIOUS
<1>1. StoreType
  <2>1. revisions \in 0..MaxRevisions /\ store \in [Ids -> [1..3 -> 0..MaxRevisions]] /\ index \in Nat
    BY DEF Init, ConfigStoreAssumption
  <2> QED
    BY <2>1 DEF Init, StoreType, ConfigStoreAssumption, Flags
<1>2. PassType
  BY DEF Init, PassType, Flags
<1>3. CacheType
  BY <1>1 DEF Init, CacheType, StoreType, Entries
<1> QED
  BY <1>1, <1>2, <1>3 DEF CacheTyped

LEMMA StoreTypeStep == ConfigStoreAssumption /\ CacheTyped /\ [Next]_vars => StoreType'
<1> SUFFICES ASSUME ConfigStoreAssumption, CacheTyped, [Next]_vars PROVE StoreType'
  OBVIOUS
<1>0. StoreType /\ PassType
  BY DEF CacheTyped
<1>1. CASE UNCHANGED <<storeVars, worldVars, failures, pc, flagVars>>
  BY <1>0, <1>1 DEF StoreType, storeVars, worldVars, flagVars
<1>2. CASE UNCHANGED <<storeVars, worldVars, failures>>
           /\ pc' \in {"top", "reload", "configs", "collect", "names", "crawl"}
           /\ reloadFlag' \in Flags /\ sdFlag' \in Flags
  BY <1>0, <1>2 DEF StoreType, storeVars, worldVars
<1>3. CASE \E i \in Ids : BeginRead(i) \/ ReadKey(i) \/ KeepTemplate(i) \/ KeepMissing(i)
  BY <1>1, <1>3 DEF BeginRead, ReadKey, KeepTemplate, KeepMissing
<1>4. CASE \E i \in Ids : ReadFails(i)
  BY <1>0, <1>4 DEF ReadFails, Fails, StoreType, storeVars, worldVars, flagVars, ConfigStoreAssumption
<1>5. CASE NoReload \/ BeginReload \/ ListContainers \/ LoadAll \/ ReloadDone
           \/ (\E c \in Checks : RefreshCheck(c)) \/ (\E c \in Containers : ConfigureContainer(c))
  BY <1>0, <1>2, <1>5 DEF NoReload, BeginReload, ListContainers, LoadAll, RefreshCheck, ReloadDone,
     ConfigureContainer, StoreType, flagVars
<1>6. CASE CollectQuiet \/ UpdateDone \/ (\E c \in Containers : LookUpRemoved(c) \/ LookUpChanged(c))
  <2>1. FlagAfter \in Flags
    BY <1>0 DEF FlagAfter, StoreType, PassType, Flags
  <2>2. {} \in Flags /\ {All} \in Flags
    BY DEF Flags
  <2> QED
    BY <1>0, <1>2, <1>6, <2>1, <2>2
       DEF CollectQuiet, UpdateDone, LookUpRemoved, LookUpChanged, StoreType, flagVars
<1>7. CASE BeginUpdate
  BY <1>0, <1>7 DEF BeginUpdate, StoreType, storeVars, flagVars
<1>8. CASE CrawlSkipped \/ CrawlFails \/ CrawlEmpty \/ CrawlFirst \/ CrawlChanged \/ CrawlUnchanged
  <2>1. {} \in Flags /\ {All} \in Flags
    BY DEF Flags
  <2>2. failures' \in 0..MaxFailures
    BY <1>0, <1>8 DEF CrawlSkipped, CrawlFails, CrawlEmpty, CrawlFirst, CrawlChanged,
       CrawlUnchanged, Fails, StoreType, ConfigStoreAssumption
  <2>3. /\ UNCHANGED <<storeVars, worldVars>> /\ pc' = "top" /\ sdFlag' = {}
        /\ reloadFlag' \in {{}, {All}, sdFlag}
    BY <1>8 DEF CrawlSkipped, CrawlFails, CrawlEmpty, CrawlFirst, CrawlChanged,
       CrawlUnchanged, PickUp
  <2> QED
    BY <1>0, <2>1, <2>2, <2>3 DEF StoreType, storeVars, worldVars
<1>9. CASE World
  <2>1. CASE \E i \in Published : Publish(i)
    <3>1. UNCHANGED <<store, index, worldVars, failures, pc, flagVars>>
      BY <2>1 DEF Publish, AgentVars
    <3>2. revisions' \in 0..MaxRevisions /\ writing' \subseteq Ids \X (1..3)
      BY <1>0, <2>1 DEF Publish, StoreType, ConfigStoreAssumption
    <3> QED
      BY <1>0, <3>1, <3>2 DEF StoreType, worldVars, flagVars
  <2>2. CASE \E i \in Ids, k \in 1..3 : WriteKey(i, k)
    <3>1. UNCHANGED <<revisions, worldVars, failures, pc, flagVars>>
      BY <2>2 DEF WriteKey, AgentVars
    <3>2. store' \in [Ids -> [1..3 -> 0..MaxRevisions]] /\ index' \in Nat /\ writing' \subseteq writing
      BY <1>0, <2>2 DEF WriteKey, StoreType
    <3> QED
      BY <1>0, <3>1, <3>2 DEF StoreType, worldVars, flagVars
  <2>3. ASSUME NEW c \in Containers, Start(c) \/ Stop(c) \/ RemoveContainer(c) PROVE StoreType'
    <3>1. UNCHANGED <<storeVars, failures, pc, flagVars>>
      BY <2>3 DEF Start, Stop, RemoveContainer, Becomes, AgentVars
    <3>2. /\ containers' \in [Containers -> {"new", "running", "stopped", "removed"}]
          /\ changed' \subseteq Containers
      BY <1>0, <2>3 DEF Start, Stop, RemoveContainer, Becomes, StoreType
    <3> QED
      BY <1>0, <3>1, <3>2 DEF StoreType, storeVars, flagVars
  <2> QED
    BY <1>9, <2>1, <2>2, <2>3 DEF World
<1>10. CASE UNCHANGED vars
  BY <1>1, <1>10 DEF vars
<1> QED
  BY <1>3, <1>4, <1>5, <1>6, <1>7, <1>8, <1>9, <1>10 DEF Next, Agent, ReadStep

LEMMA PassTypeStep == ConfigStoreAssumption /\ CacheTyped /\ [Next]_vars => PassType'
<1> SUFFICES ASSUME ConfigStoreAssumption, CacheTyped, [Next]_vars PROVE PassType'
  OBVIOUS
<1>0. StoreType /\ PassType /\ CacheType
  BY DEF CacheTyped
<1>1. CASE UNCHANGED <<passVars, nameVars>>
  BY <1>0, <1>1 DEF PassType, passVars, nameVars
<1>2. CASE ReadStep \/ NoReload \/ ReloadDone \/ CollectQuiet \/ CrawlSkipped \/ CrawlFails
           \/ CrawlEmpty \/ CrawlFirst \/ CrawlChanged \/ CrawlUnchanged \/ World \/ UNCHANGED vars
  BY <1>1, <1>2 DEF ReadStep, BeginRead, ReadKey, KeepTemplate, KeepMissing, ReadFails, NoReload,
     ReloadDone, CollectQuiet, CrawlSkipped, CrawlFails, CrawlEmpty, CrawlFirst, CrawlChanged,
     CrawlUnchanged, PickUp, World, Publish, WriteKey, Start, Stop, RemoveContainer, Becomes, AgentVars, vars
<1>3. CASE BeginReload \/ ListContainers
  BY <1>0, <1>3 DEF BeginReload, ListContainers, PassType, StoreType, nameVars
<1>4. ASSUME NEW c \in Containers, ConfigureContainer(c) PROVE PassType'
  <2> DEFINE ownConfigs == {<<t[1], c, t[2]>> : t \in ConfigsOf(kvTemplates, IdOf[c])}
  <2>1. ownConfigs \subseteq Checks \X Containers \X Origins
    <3>1. IdOf[c] \in Ids /\ kvTemplates \in [Ids -> Entries]
      BY <1>0 DEF ConfigStoreAssumption, CacheType
    <3>2. ConfigsOf(kvTemplates, IdOf[c]) \subseteq Checks \X Origins
      BY <3>1, ConfigsAre
    <3> QED
      BY <3>2
  <2>2. found' \subseteq found \cup ownConfigs
    BY <1>4 DEF ConfigureContainer
  <2> HIDE DEF ownConfigs
  <2>3. listing' \subseteq listing /\ UNCHANGED <<todo, loaded, indexZero, nameVars>>
    BY <1>4 DEF ConfigureContainer
  <2> QED
    BY <1>0, <2>1, <2>2, <2>3 DEF PassType, nameVars
<1>5. ASSUME LoadAll \/ \E c \in Checks : RefreshCheck(c) PROVE PassType'
  <2>1. \A c \in Checks : FoundFor(c) \subseteq Containers \X Origins
    BY <1>0 DEF FoundFor, PassType
  <2>2. CASE LoadAll
    BY <1>0, <2>1, <2>2 DEF LoadAll, PassType, Flags, nameVars
  <2>3. ASSUME NEW c \in Checks, RefreshCheck(c) PROVE PassType'
    <3>1. loaded' \in [Checks -> SUBSET (Containers \X Origins)]
      BY <1>0, <2>1, <2>3 DEF RefreshCheck, PassType
    <3>2. /\ todo' = todo \ {c} /\ todo' \in Flags /\ found' = {}
          /\ UNCHANGED <<listing, indexZero, nameVars>>
      BY <1>0, <2>3 DEF RefreshCheck, PassType, Flags
    <3> QED
      BY <1>0, <3>1, <3>2 DEF PassType, nameVars
  <2> QED
    BY <1>5, <2>2, <2>3
<1>6. CASE BeginUpdate \/ UpdateDone \/ \E c \in Containers : LookUpRemoved(c)
  BY <1>0, <1>6 DEF BeginUpdate, UpdateDone, LookUpRemoved, PassType, StoreType, passVars
<1>7. ASSUME NEW c \in Containers, LookUpChanged(c) PROVE PassType'
  <2>1. IdOf[c] \in Ids /\ Ident[IdOf[c]] \in Ids /\ kvTemplates \in [Ids -> Entries]
    BY <1>0 DEF ConfigStoreAssumption, CacheType
  <2>2. RefreshOf(IdOf[c]) \subseteq Checks
    BY <2>1, NamesAreChecks DEF RefreshOf
  <2> QED
    BY <1>0, <1>7, <2>2 DEF LookUpChanged, PassType, passVars
<1> QED
  BY <1>2, <1>3, <1>4, <1>5, <1>6, <1>7 DEF Next, Agent

LEMMA CacheTypeStep == ConfigStoreAssumption /\ CacheTyped /\ [Next]_vars => CacheType'
<1> SUFFICES ASSUME ConfigStoreAssumption, CacheTyped, [Next]_vars PROVE CacheType'
  OBVIOUS
<1>0. StoreType /\ CacheType
  BY DEF CacheTyped
<1>e. {Uncached, NoTemplate} \cup Templates = Entries
  BY DEF Entries
<1>1. CASE UNCHANGED <<index, cacheVars, readVars>>
  BY <1>0, <1>1 DEF CacheType, cacheVars, readVars
<1>2. CASE NoReload \/ BeginReload \/ ListContainers \/ LoadAll \/ ReloadDone \/ CollectQuiet
           \/ (\E c \in Checks : RefreshCheck(c)) \/ BeginUpdate \/ UpdateDone \/ CrawlSkipped \/ CrawlFails \/ CrawlEmpty \/ CrawlUnchanged
           \/ (\E c \in Containers : ConfigureContainer(c) \/ LookUpRemoved(c) \/ LookUpChanged(c)
                                     \/ Start(c) \/ Stop(c) \/ RemoveContainer(c))
           \/ (\E i \in Published : Publish(i)) \/ UNCHANGED vars
  BY <1>1, <1>2 DEF NoReload, BeginReload, ListContainers, LoadAll, RefreshCheck, ReloadDone, CollectQuiet,
     BeginUpdate, UpdateDone, CrawlSkipped, CrawlFails, CrawlEmpty, CrawlUnchanged, PickUp,
     ConfigureContainer, LookUpRemoved, LookUpChanged, Start, Stop, RemoveContainer, Becomes, Publish,
     AgentVars, storeVars, vars
<1>3. ASSUME NEW i \in Ids, BeginRead(i) PROVE CacheType'
  <2>1. reading' = {i} /\ got' = <<>> /\ UNCHANGED <<index, cacheVars>>
    BY <1>3 DEF BeginRead, storeVars
  <2> QED
    BY <1>0, <2>1 DEF CacheType, cacheVars
<1>4. ASSUME NEW i \in Ids, ReadKey(i) PROVE CacheType'
  <2>1. got \in Seq(1..MaxRevisions) /\ Len(got) \in Nat /\ Len(got) < 3
    BY <1>0, <1>4 DEF ReadKey, CacheType
  <2>2. store[i][Len(got) + 1] \in 1..MaxRevisions
    <3>1. Len(got) + 1 \in 1..3
      BY <2>1
    <3>2. store[i][Len(got) + 1] \in 0..MaxRevisions
      BY <1>0, <3>1 DEF StoreType
    <3> QED
      BY <1>4, <3>2 DEF ReadKey, ConfigStoreAssumption
  <2>3. /\ got' = Append(got, store[i][Len(got) + 1])
        /\ UNCHANGED <<index, cacheVars, reading>>
    BY <1>4 DEF ReadKey, storeVars
  <2>4. got' \in Seq(1..MaxRevisions) /\ Len(got') = Len(got) + 1
    BY <2>1, <2>2, <2>3
  <2> QED
    BY <1>0, <2>1, <2>3, <2>4 DEF CacheType, cacheVars
<1>5. ASSUME NEW i \in Ids, KeepTemplate(i) \/ KeepMissing(i) \/ ReadFails(i) PROVE CacheType'
  <2>1. \E entry \in Entries : Keep(i, entry)
    <3>1. CASE KeepTemplate(i)
      <4>1. got \in Templates
        BY <1>0, <3>1, ThreeKeys DEF KeepTemplate, AllKeysRead, CacheType
      <4> QED
        BY <1>e, <3>1, <4>1 DEF KeepTemplate
    <3>2. CASE KeepMissing(i) \/ ReadFails(i)
      BY <1>e, <3>2 DEF KeepMissing, ReadFails
    <3> QED
      BY <1>5, <3>1, <3>2
  <2>2. UNCHANGED <<index, previousIndex, hidden>> /\ unread' \in {unread, unread \cup {i}}
    BY <1>5 DEF KeepTemplate, KeepMissing, ReadFails, storeVars
  <2>3. kvTemplates' \in [Ids -> Entries] /\ reading' = {} /\ got' = <<>>
    BY <1>0, <2>1 DEF Keep, CacheType
  <2> QED
    BY <1>0, <2>2, <2>3 DEF CacheType
<1>6. CASE CrawlFirst \/ CrawlChanged
  <2>1. /\ previousIndex' = index + 1 /\ UNCHANGED <<index, readVars>>
        /\ kvTemplates' \in {kvTemplates, [i \in Ids |-> Uncached]}
        /\ hidden' \subseteq Ids /\ unread' \in {{}, unread}
    BY <1>6 DEF CrawlFirst, CrawlChanged, Invalidate, PickUp, storeVars
  <2>2. kvTemplates' \in [Ids -> Entries]
    BY <1>0, <2>1 DEF CacheType, Entries
  <2> QED
    BY <1>0, <2>1, <2>2 DEF CacheType, StoreType, readVars
<1>7. CASE \E i \in Ids, k \in 1..3 : WriteKey(i, k)
  <2>1. index' = index + 1 /\ UNCHANGED <<cacheVars, readVars>>
    BY <1>7 DEF WriteKey, AgentVars
  <2> QED
    BY <1>0, <2>1 DEF CacheType, StoreType, cacheVars, readVars
<1> QED
  BY <1>2, <1>3, <1>4, <1>5, <1>6, <1>7 DEF Next, Agent, ReadStep, World

LEMMA TypesStep == ConfigStoreAssumption /\ CacheTyped /\ [Next]_vars => CacheTyped'
  BY StoreTypeStep, PassTypeStep, CacheTypeStep DEF CacheTyped

LEMMA TypesInvariant == Spec => []CacheTyped
  BY ConfigStoreAssumption, TypesInit, TypesStep, PTL DEF Spec

LEMMA TypesImplyTypeOK == CacheTyped => TypeOK
<1> SUFFICES ASSUME CacheTyped PROVE TypeOK
  OBVIOUS
<1>1. Cardinality(reading) <= 1
  <2>1. reading = {} \/ \E i \in Ids : reading = {i}
    BY DEF CacheTyped, CacheType
  <2>2. CASE reading = {}
    BY <2>2, FS_EmptySet
  <2>3. ASSUME NEW i \in Ids, reading = {i} PROVE Cardinality(reading) <= 1
    BY <2>3, FS_Singleton
  <2> QED
    BY <2>1, <2>2, <2>3
<1>2. Cardinality(indexZero) <= 1
  <2>1. indexZero = {} \/ \E c \in Checks : indexZero = {c}
    BY DEF CacheTyped, PassType
  <2>2. CASE indexZero = {}
    BY <2>2, FS_EmptySet
  <2>3. ASSUME NEW c \in Checks, indexZero = {c} PROVE Cardinality(indexZero) <= 1
    BY <2>3, FS_Singleton
  <2> QED
    BY <2>1, <2>2, <2>3
<1> QED
  BY <1>1, <1>2 DEF TypeOK, CacheTyped, StoreType, PassType, CacheType, Entries, Origins

-----------------------------------------------------------------------------
(* The cache and the store *)

\* A template is read for a caller that waits for it, never during a crawl.
ReadWithin ==
    reading # {} => \/ pc = "configs" /\ listing # {}
                    \/ pc = "names" /\ seen # {}

\* As long as no key was written since the last crawl, what a read has got so far
\* is what the store holds: a read that began before such a write is of no index.
ReadAsStored ==
    previousIndex = index + 1 =>
        \A i \in reading : \A k \in 1..Len(got) : got[k] = store[i][k]

CacheInv == ReadWithin /\ ReadAsStored /\ CachedAsStored(Ids \ (hidden \cup unread))

LEMMA CacheInit == Init => CacheInv
  BY DEF Init, CacheInv, ReadWithin, ReadAsStored, CachedAsStored

\* A complete template without an empty key is what a read of it returns.
LEMMA ReadIsInStore ==
    ASSUME CacheTyped, NEW i \in Ids, got \in Templates, \A k \in 1..3 : got[k] = store[i][k]
    PROVE  got = InStore(i)
<1>1. got \in [1..3 -> 1..MaxRevisions] /\ store[i] \in [1..3 -> 0..MaxRevisions]
  BY DEF Templates, CacheTyped, StoreType
<1>2. got = store[i]
  BY <1>1
<1>3. 0 \notin {store[i][k] : k \in 1..3}
  BY <1>1, <1>2
<1> QED
  BY <1>2, <1>3 DEF InStore

LEMMA CacheStep == CacheTyped /\ CacheInv /\ [Next]_vars => CacheInv'
<1> SUFFICES ASSUME CacheTyped, CacheInv, [Next]_vars PROVE CacheInv'
  OBVIOUS
<1>0. StoreType /\ CacheType
  BY DEF CacheTyped
<1>1. ASSUME UNCHANGED <<store, index, cacheVars, readVars>>, ReadWithin' PROVE CacheInv'
  BY <1>1 DEF CacheInv, ReadAsStored, CachedAsStored, InStore, cacheVars, readVars
<1>2. CASE NoReload \/ BeginReload \/ ListContainers \/ LoadAll \/ ReloadDone \/ CollectQuiet
           \/ (\E c \in Checks : RefreshCheck(c)) \/ BeginUpdate \/ UpdateDone \/ CrawlSkipped \/ CrawlFails \/ CrawlEmpty \/ CrawlUnchanged
           \/ (\E c \in Containers : ConfigureContainer(c) \/ LookUpRemoved(c) \/ LookUpChanged(c))
  <2>1. UNCHANGED <<store, index, cacheVars, readVars>> /\ reading = {}
    BY <1>2 DEF NoReload, BeginReload, ListContainers, LoadAll, RefreshCheck, ReloadDone, CollectQuiet,
       BeginUpdate, UpdateDone, CrawlSkipped, CrawlFails, CrawlEmpty, CrawlUnchanged, PickUp,
       ConfigureContainer, LookUpRemoved, LookUpChanged, storeVars, CacheInv, ReadWithin
  <2> QED
    BY <1>1, <2>1 DEF ReadWithin, readVars
<1>3. CASE (\E c \in Containers : Start(c) \/ Stop(c) \/ RemoveContainer(c))
           \/ (\E i \in Published : Publish(i)) \/ UNCHANGED vars
  <2>1. UNCHANGED <<store, index, cacheVars, readVars, pc, listing, seen>>
    BY <1>3 DEF Start, Stop, RemoveContainer, Becomes, Publish, AgentVars, storeVars, passVars, nameVars, vars
  <2> QED
    BY <1>1, <2>1 DEF ReadWithin, readVars, CacheInv
<1>4. CASE \E i \in Ids, k \in 1..3 : WriteKey(i, k)
  <2>1. index' = index + 1 /\ UNCHANGED <<cacheVars, readVars, pc, listing, seen>>
    BY <1>4 DEF WriteKey, AgentVars, passVars, nameVars
  <2>2. previousIndex' # index' + 1
    BY <1>0, <2>1 DEF CacheType, StoreType, cacheVars
  <2> QED
    BY <2>1, <2>2 DEF CacheInv, ReadWithin, ReadAsStored, CachedAsStored, readVars
<1>5. ASSUME NEW i \in Ids, BeginRead(i) PROVE CacheInv'
  <2>1. /\ got' = <<>> /\ UNCHANGED <<store, index, cacheVars, pc, listing, seen>>
        /\ (pc = "configs" /\ listing # {}) \/ (pc = "names" /\ seen # {})
    BY <1>5 DEF BeginRead, ToRead, storeVars, passVars, nameVars
  <2> QED
    BY <2>1 DEF CacheInv, ReadWithin, ReadAsStored, CachedAsStored, InStore, cacheVars
<1>6. ASSUME NEW i \in Ids, ReadKey(i) PROVE CacheInv'
  <2>1. /\ got' = Append(got, store[i][Len(got) + 1]) /\ i \in reading
        /\ UNCHANGED <<store, index, cacheVars, reading, pc, listing, seen>>
    BY <1>6 DEF ReadKey, storeVars, passVars, nameVars
  <2>2. \A j \in reading : j = i
    BY <1>0, <2>1 DEF CacheType
  <2>3. /\ Len(got) \in Nat /\ Len(got') = Len(got) + 1
        /\ \A k \in 1..Len(got) : got'[k] = got[k]
        /\ got'[Len(got) + 1] = store[i][Len(got) + 1]
    BY <1>0, <2>1, AppendProperties DEF CacheType
  <2>4. ASSUME previousIndex' = index' + 1, NEW k \in 1..Len(got') PROVE got'[k] = store[i][k]
    <3>1. k \in 1..Len(got) \/ k = Len(got) + 1
      BY <2>3
    <3>2. \A m \in 1..Len(got) : got[m] = store[i][m]
      BY <2>1, <2>4 DEF CacheInv, ReadAsStored, cacheVars
    <3> QED
      BY <2>3, <3>1, <3>2
  <2>5. ReadAsStored'
    BY <2>1, <2>2, <2>4 DEF ReadAsStored
  <2> QED
    BY <2>1, <2>5 DEF CacheInv, ReadWithin, CachedAsStored, InStore, cacheVars
<1>7. ASSUME NEW i \in Ids, KeepTemplate(i) \/ KeepMissing(i) \/ ReadFails(i) PROVE CacheInv'
  <2>1. /\ reading' = {} /\ UNCHANGED <<store, index, previousIndex, hidden>>
        /\ unread \subseteq unread' /\ i \in reading
        /\ \A j \in Ids : j # i => kvTemplates'[j] = kvTemplates[j]
    BY <1>0, <1>7 DEF KeepTemplate, KeepMissing, ReadFails, Keep, storeVars, CacheType
  <2>2. previousIndex = index + 1 => i \in unread' \/ kvTemplates'[i] = InStore(i)
    <3>1. ASSUME KeepTemplate(i), previousIndex = index + 1 PROVE kvTemplates'[i] = InStore(i)
      <4>1. Len(got) = 3 /\ got \in Templates /\ kvTemplates'[i] = got
        BY <1>0, <3>1, ThreeKeys DEF KeepTemplate, AllKeysRead, Keep, CacheType
      <4>2. \A k \in 1..3 : got[k] = store[i][k]
        BY <2>1, <3>1, <4>1 DEF CacheInv, ReadAsStored
      <4> QED
        BY <4>1, <4>2, ReadIsInStore
    <3>2. ASSUME KeepMissing(i) PROVE kvTemplates'[i] = InStore(i)
      <4>1. Len(got) \in Nat /\ Len(got) < 3 /\ store[i][Len(got) + 1] = 0
        BY <1>0, <3>2 DEF KeepMissing, CacheType
      <4>2. Len(got) + 1 \in 1..3
        BY <4>1
      <4>3. InStore(i) = NoTemplate
        BY <4>1, <4>2 DEF InStore
      <4> QED
        BY <1>0, <3>2, <4>3 DEF KeepMissing, Keep, CacheType
    <3>3. CASE ReadFails(i)
      BY <3>3 DEF ReadFails
    <3> QED
      BY <1>7, <3>1, <3>2, <3>3
  <2>3. CachedAsStored(Ids \ (hidden \cup unread))'
    BY <2>1, <2>2 DEF CacheInv, CachedAsStored, InStore
  <2> QED
    BY <2>1, <2>3 DEF CacheInv, ReadWithin, ReadAsStored
<1>8. CASE CrawlFirst \/ CrawlChanged
  <2>1. reading = {} /\ reading' = {} /\ UNCHANGED <<store, index>>
    BY <1>8 DEF CrawlFirst, CrawlChanged, PickUp, CacheInv, ReadWithin, readVars, storeVars
  <2>2. CachedAsStored(Ids \ (hidden \cup unread))'
    <3>1. CASE CrawlFirst
      <4>1. /\ hidden' = {i \in Ids : kvTemplates[i] \notin {Uncached, InStore(i)}}
            /\ kvTemplates' = kvTemplates
        BY <3>1 DEF CrawlFirst
      <4> QED
        BY <2>1, <4>1 DEF CachedAsStored, InStore
    <3>2. CASE CrawlChanged
      <4>1. \A i \in Ids : kvTemplates'[i] = Uncached
        BY <3>2 DEF CrawlChanged, Invalidate
      <4> QED
        BY <4>1 DEF CachedAsStored
    <3> QED
      BY <1>8, <3>1, <3>2
  <2> QED
    BY <2>1, <2>2 DEF CacheInv, ReadWithin, ReadAsStored
<1> QED
  BY <1>2, <1>3, <1>4, <1>5, <1>6, <1>7, <1>8 DEF Next, Agent, ReadStep, World

\* Templates that are written key by key while the agent reads them key by key never
\* leave an entry behind that a crawl takes for current although the store does not
\* hold it, save for failed reads and what the first crawl found (_issue_read(),
\* crawl_config_template()).
THEOREM CacheCorrect == Spec => []CacheFollowsStore
<1>1. Spec => []CacheInv
  BY CacheInit, CacheStep, TypesInvariant, PTL DEF Spec
<1>2. CacheTyped /\ CacheInv => CacheFollowsStore
  BY TypesImplyTypeOK DEF CacheInv, CacheFollowsStore
<1> QED
  BY <1>1, <1>2, TypesInvariant, PTL

-----------------------------------------------------------------------------
(* The checks of a container *)

\* What a call of get_configs() found so far has one source, and is of containers
\* that are done.
FoundOnce ==
    /\ \A c \in Checks, k \in Containers :
        <<c, k, AutoEntry>> \in found => \A t \in Templates : <<c, k, t>> \notin found
    /\ pc = "configs" => \A k \in listing : \A f \in found : f[2] # k

SourceInv == FoundOnce /\ OneSource

LEMMA SourceInit == Init => SourceInv
  BY DEF Init, SourceInv, FoundOnce, OneSource

LEMMA SourceStep ==
    ConfigStoreAssumption /\ CacheTyped /\ SourceInv /\ [Next]_vars => SourceInv'
<1> SUFFICES ASSUME ConfigStoreAssumption, CacheTyped, SourceInv, [Next]_vars PROVE SourceInv'
  OBVIOUS
<1>0. StoreType /\ PassType /\ CacheType
  BY DEF CacheTyped
<1>1. ASSUME UNCHANGED <<loaded, found, listing>>, pc' = "configs" => pc = "configs" PROVE SourceInv'
  BY <1>1 DEF SourceInv, FoundOnce, OneSource
<1>2. CASE ReadStep \/ NoReload \/ ReloadDone \/ CollectQuiet \/ CrawlSkipped \/ CrawlFails
           \/ CrawlEmpty \/ CrawlFirst \/ CrawlChanged \/ CrawlUnchanged \/ BeginReload
           \/ BeginUpdate \/ UpdateDone \/ (\E c \in Containers : LookUpRemoved(c) \/ LookUpChanged(c))
           \/ World \/ UNCHANGED vars
  <2>1. UNCHANGED <<loaded, found, listing>> /\ (pc' = pc \/ pc' # "configs")
    BY <1>2 DEF ReadStep, BeginRead, ReadKey, KeepTemplate, KeepMissing, ReadFails, NoReload,
       ReloadDone, CollectQuiet, CrawlSkipped, CrawlFails, CrawlEmpty, CrawlFirst, CrawlChanged,
       CrawlUnchanged, PickUp, BeginReload, BeginUpdate, UpdateDone, LookUpRemoved, LookUpChanged,
       World, Publish, WriteKey, Start, Stop, RemoveContainer, Becomes, AgentVars, passVars, vars
  <2> QED
    BY <1>1, <2>1
<1>3. CASE ListContainers
  BY <1>3 DEF ListContainers, SourceInv, FoundOnce, OneSource
<1>4. ASSUME NEW k \in Containers, ConfigureContainer(k) PROVE SourceInv'
  <2> DEFINE ownConfigs == {<<t[1], k, t[2]>> : t \in ConfigsOf(kvTemplates, IdOf[k])}
  <2>1. /\ \A f \in ownConfigs : f \in Checks \X Containers \X Origins /\ f[2] = k
        /\ \A c \in Checks : <<c, k, AutoEntry>> \in ownConfigs =>
              \A t \in Templates : <<c, k, t>> \notin ownConfigs
    <3>1. /\ ConfigsOf(kvTemplates, IdOf[k]) \subseteq Checks \X Origins
          /\ \A c \in Checks : <<c, AutoEntry>> \in ConfigsOf(kvTemplates, IdOf[k]) =>
                \A t \in Templates : <<c, t>> \notin ConfigsOf(kvTemplates, IdOf[k])
      BY <1>0, ConfigsAre DEF ConfigStoreAssumption, CacheType
    <3>2. ASSUME NEW c, NEW x, <<c, k, x>> \in ownConfigs
          PROVE  <<c, x>> \in ConfigsOf(kvTemplates, IdOf[k])
      <4>1. PICK t \in ConfigsOf(kvTemplates, IdOf[k]) : <<c, k, x>> = <<t[1], k, t[2]>>
        BY <3>2
      <4>2. t = <<t[1], t[2]>>
        BY <3>1
      <4> QED
        BY <4>1, <4>2
    <3> QED
      BY <3>1, <3>2
  <2>2. /\ pc = "configs" /\ k \in listing /\ listing' = listing \ {k}
        /\ found' \subseteq found \cup ownConfigs /\ found \subseteq found' /\ loaded' = loaded
    BY <1>4 DEF ConfigureContainer
  <2> HIDE DEF ownConfigs
  <2>3. \A f \in found : f[2] # k
    BY <2>2 DEF SourceInv, FoundOnce
  <2>4. \A j \in listing' : \A f \in found' : f[2] # j
    BY <2>1, <2>2 DEF SourceInv, FoundOnce
  <2>5. ASSUME NEW c \in Checks, NEW j \in Containers, <<c, j, AutoEntry>> \in found',
               NEW t \in Templates, <<c, j, t>> \in found'
        PROVE  FALSE
    <3>1. <<c, j, AutoEntry>>[2] = j /\ <<c, j, t>>[2] = j
      OBVIOUS
    <3>2. CASE j = k
      BY <2>1, <2>2, <2>3, <2>5, <3>1, <3>2
    <3>3. CASE j # k
      BY <2>1, <2>2, <2>5, <3>1, <3>3 DEF SourceInv, FoundOnce
    <3> QED
      BY <3>2, <3>3
  <2> QED
    BY <2>2, <2>4, <2>5 DEF SourceInv, FoundOnce, OneSource
<1>5. CASE LoadAll \/ \E c \in Checks : RefreshCheck(c)
  <2>1. /\ found' = {} /\ \A c \in Checks : loaded'[c] = FoundFor(c) \/ loaded'[c] = loaded[c]
    BY <1>0, <1>5 DEF LoadAll, RefreshCheck, PassType
  <2>2. ASSUME NEW c, NEW k, NEW x, <<k, x>> \in FoundFor(c) PROVE <<c, k, x>> \in found
    <3>1. PICK f \in found : f[1] = c /\ <<k, x>> = <<f[2], f[3]>>
      BY <2>2 DEF FoundFor
    <3>2. f = <<f[1], f[2], f[3]>>
      BY <1>0 DEF PassType
    <3> QED
      BY <3>1, <3>2
  <2>3. ASSUME NEW c \in Checks, NEW k \in Containers, <<k, AutoEntry>> \in loaded'[c],
               NEW t \in Templates
        PROVE  <<k, t>> \notin loaded'[c]
    <3>1. CASE loaded'[c] = FoundFor(c)
      <4>1. <<c, k, AutoEntry>> \in found
        BY <2>2, <2>3, <3>1
      <4>2. <<c, k, t>> \notin found
        BY <4>1 DEF SourceInv, FoundOnce
      <4> QED
        BY <2>2, <3>1, <4>2
    <3>2. CASE loaded'[c] = loaded[c]
      BY <2>3, <3>2 DEF SourceInv, OneSource
    <3> QED
      BY <2>1, <3>1, <3>2
  <2> QED
    BY <2>1, <2>3 DEF SourceInv, FoundOnce, OneSource
<1> QED
  BY <1>2, <1>3, <1>4, <1>5 DEF Next, Agent

\* A check of a container is never configured both by the user's template and by an
\* auto_conf file, whatever is published while the configurations are collected, and
\* whether all checks reload or a few (get_check_tpls(), reload_configs()).
THEOREM SourceCorrect == Spec => []OneSource
<1>1. Spec => []SourceInv
  BY ConfigStoreAssumption, SourceInit, SourceStep, TypesInvariant, PTL DEF Spec
<1>2. SourceInv => OneSource
  BY DEF SourceInv
<1> QED
  BY <1>1, <1>2, PTL

-----------------------------------------------------------------------------
(* ContainerConfigs                                                          *)

-----------------------------------------------------------------------------
(* Finite sets of numbers, and the set as a sequence                         *)

\* Induction over the subsets of a finite set: if some are bad, one of them has no
\* bad subset but itself.
LEMMA LeastSubset ==
    ASSUME NEW S, IsFiniteSet(S), NEW Bad \in SUBSET (SUBSET S), Bad # {}
    PROVE  \E s \in Bad : \A u \in SUBSET s : u # s => u \notin Bad
<1>1. IsWellFoundedOn(StrictSubsetOrdering(S), FiniteSubsetsOf(S))
  BY FS_StrictSubsetOrderingWellFounded
<1>2. FiniteSubsetsOf(S) = SUBSET S
  BY FS_FiniteSubsetsOfFinite
<1>3. PICK s \in Bad : \A u \in Bad : ~(<<u, s>> \in StrictSubsetOrdering(S))
  BY <1>1, <1>2, WFMin
<1>4. ASSUME NEW u \in SUBSET s, u # s PROVE u \notin Bad
  BY <1>3, <1>4 DEF StrictSubsetOrdering
<1> QED
  BY <1>4

LEMMA HasEnds ==
    ASSUME NEW S \in SUBSET Int, IsFiniteSet(S), S # {}
    PROVE  (\E x \in S : \A y \in S : x >= y) /\ (\E x \in S : \A y \in S : x <= y)
<1> DEFINE Top(T, x) == x \in T /\ \A y \in T : x >= y
           Bottom(T, x) == x \in T /\ \A y \in T : x <= y
           Bad == {T \in SUBSET S : T # {} /\ ~((\E x \in T : Top(T, x)) /\ (\E x \in T : Bottom(T, x)))}
<1>1. SUFFICES ASSUME Bad # {} PROVE FALSE
  OBVIOUS
<1>2. PICK T \in Bad : \A u \in SUBSET T : u # T => u \notin Bad
  <2>1. Bad \in SUBSET (SUBSET S)
    OBVIOUS
  <2> HIDE DEF Bad
  <2> QED
    BY <1>1, <2>1, LeastSubset
<1>3. PICK x \in T : x \in Int
  BY <1>2
<1>4. T \subseteq Int
  BY <1>2
<1>5. CASE T \ {x} = {}
  <2>1. Top(T, x) /\ Bottom(T, x)
    BY <1>3, <1>4, <1>5
  <2> QED BY <1>2, <1>3, <2>1
<1>6. CASE T \ {x} # {}
  <2>1. PICK g \in T \ {x}, l \in T \ {x} : Top(T \ {x}, g) /\ Bottom(T \ {x}, l)
    BY <1>2, <1>3, <1>6
  <2>2. g \in Int /\ l \in Int
    BY <1>4, <2>1
  <2>3. \E y \in T : Top(T, y)
    <3>1. CASE g >= x
      BY <1>3, <1>4, <2>1, <2>2, <3>1
    <3>2. CASE x >= g
      <4>1. Top(T, x)
        BY <1>3, <1>4, <2>1, <2>2, <3>2
      <4> QED BY <4>1
    <3> QED BY <1>3, <2>2, <3>1, <3>2
  <2>4. \E y \in T : Bottom(T, y)
    <3>1. CASE l <= x
      BY <1>3, <1>4, <2>1, <2>2, <3>1
    <3>2. CASE x <= l
      <4>1. Bottom(T, x)
        BY <1>3, <1>4, <2>1, <2>2, <3>2
      <4> QED BY <4>1
    <3> QED BY <1>3, <2>2, <3>1, <3>2
  <2> QED BY <1>2, <2>3, <2>4
<1> QED BY <1>5, <1>6

LEMMA ValuesFinite ==
    ASSUME NEW D, IsFiniteSet(D), NEW f
    PROVE  IsFiniteSet({f[j] : j \in D})
<1> DEFINE T == {f[j] : j \in D}
           g == [j \in D |-> f[j]]
<1>1. g \in Surjection(D, T)
  BY DEF Surjection
<1> HIDE DEF T, g
<1>2. IsFiniteSet(T)
  BY <1>1, FS_Surjection DEF ExistsSurjection
<1> QED BY <1>2 DEF T

\* The elements of a finite set, each once.
LEMMA SetInOrder ==
    ASSUME NEW S, IsFiniteSet(S)
    PROVE  /\ Cardinality(S) \in Nat
           /\ SetToSeq(S) \in [1..Cardinality(S) -> S]
<1> DEFINE n == Cardinality(S)
<1>1. n \in Nat /\ ExistsBijection(1..n, S)
  BY FS_CardinalityType
<1>2. PICK f \in [1..n -> S] : IsInjective(f)
  BY <1>1 DEF ExistsBijection, Bijection, Injection
<1>3. SetToSeq(S) \in [1..n -> S]
  <2> HIDE DEF n
  <2> QED BY <1>2 DEF SetToSeq, n
<1> QED BY <1>1, <1>3

-----------------------------------------------------------------------------
(* The values of a container                                                 *)

LEMMA BoxFacts ==
    ASSUME NEW c \in Boxes
    PROVE  /\ IsFiniteSet(Facts[c].networks) /\ Facts[c].networks \in SUBSET Int
           /\ OpenPorts(c) \in Seq(Int)
<1>1. /\ IsFiniteSet(Facts[c].networks) /\ Facts[c].networks \in SUBSET Int
      /\ Facts[c].ports \in Seq(Int) /\ Facts[c].exposed \in Seq(Int) /\ Facts[c].declared \in Seq(Int)
  BY ConfigsAssumption
<1> QED BY <1>1 DEF OpenPorts

\* The network that an address is taken from is one of those of the container.
LEMMA OwnNetwork ==
    ASSUME NEW c \in Boxes, Facts[c].networks # {}, NEW key
    PROVE  NetworkOf(Facts[c].networks, key) \in Facts[c].networks
<1> DEFINE nets == Facts[c].networks
<1>1. nets \in SUBSET Int /\ IsFiniteSet(nets) /\ nets # {}
  BY BoxFacts
<1> HIDE DEF nets
<1>2. Max(nets) \in nets
  BY <1>1, HasEnds DEF Max
<1>3. NetworkOf(nets, key) \in nets
  BY <1>2 DEF NetworkOf, FallbackNetwork
<1> QED BY <1>3 DEF nets

\* Some port is the one that is sorted into a place.
LEMMA PlaceHasPort ==
    ASSUME NEW ports \in Seq(Int), NEW i \in DOMAIN ports
    PROVE  \E port \in ToSet(ports) : /\ Cardinality({j \in DOMAIN ports : ports[j] < port}) < i
                                      /\ i <= Cardinality({j \in DOMAIN ports : ports[j] <= port})
<1> DEFINE n == Len(ports)
           below(v) == {j \in 1..n : ports[j] < v}
           upTo(v) == {j \in 1..n : ports[j] <= v}
           P == {ports[j] : j \in 1..n}
           V == {v \in P : i <= Cardinality(upTo(v))}
<1>1. n \in Nat /\ DOMAIN ports = 1..n /\ i \in 1..n /\ \A j \in 1..n : ports[j] \in Int
  OBVIOUS
<1>2. ToSet(ports) = P
  BY <1>1 DEF ToSet
<1> HIDE DEF n
<1>3. P \in SUBSET Int /\ P # {}
  BY <1>1
<1>4. IsFiniteSet(1..n) /\ Cardinality(1..n) = n
  BY <1>1, FS_Interval
<1>5. IsFiniteSet(P)
  BY <1>4, ValuesFinite
<1>6. ASSUME NEW v \in Int
      PROVE  Cardinality(below(v)) \in Nat /\ Cardinality(upTo(v)) \in Nat /\ IsFiniteSet(below(v))
  <2>1. below(v) \subseteq 1..n /\ upTo(v) \subseteq 1..n
    OBVIOUS
  <2> QED BY <2>1, <1>4, FS_Subset, FS_CardinalityType
<1>7. V # {}
  <2>1. PICK m \in P : \A y \in P : m >= y
    <3> HIDE DEF P
    <3> QED BY <1>3, <1>5, HasEnds
  <2>2. upTo(m) = 1..n
    BY <1>1, <2>1
  <2>3. i <= Cardinality(upTo(m))
    <3> HIDE DEF upTo
    <3> QED BY <1>1, <1>4, <2>2
  <2> QED BY <2>1, <2>3
<1>8. PICK v \in V : \A w \in V : v <= w
  <2>1. V \in SUBSET Int /\ IsFiniteSet(V)
    BY <1>3, <1>5, FS_Subset
  <2> HIDE DEF V
  <2> QED BY <1>7, <2>1, HasEnds
<1>9. v \in P /\ v \in Int /\ i <= Cardinality(upTo(v))
  BY <1>3, <1>8
<1>10. ASSUME ~(Cardinality(below(v)) < i) PROVE FALSE
  <2> DEFINE L == {ports[j] : j \in below(v)}
  <2>1. i <= Cardinality(below(v)) /\ Cardinality(below(v)) \in Nat /\ i \in Int
    BY <1>1, <1>6, <1>9, <1>10
  <2>2. below(v) # {}
    <3>1. CASE below(v) = {}
      <4>1. Cardinality(below(v)) = 0
        BY <3>1, FS_EmptySet
      <4> HIDE DEF below
      <4> QED BY <1>1, <2>1, <4>1
    <3> QED BY <3>1
  <2>3. L \in SUBSET Int /\ L # {} /\ IsFiniteSet(L)
    <3>1. L \in SUBSET Int /\ L # {}
      BY <1>1, <2>2
    <3>2. IsFiniteSet(below(v))
      BY <1>6, <1>9
    <3>3. IsFiniteSet(L)
      <4> HIDE DEF below
      <4> QED BY <3>2, ValuesFinite
    <3> QED BY <3>1, <3>3
  <2>4. PICK w \in L : \A y \in L : w >= y
    <3> HIDE DEF L
    <3> QED BY <2>3, HasEnds
  <2>5. w \in Int /\ w \in P /\ w < v
    BY <1>1, <1>9, <2>4
  <2>6. upTo(w) = below(v)
    <3>1. ASSUME NEW j \in 1..n PROVE ports[j] <= w <=> ports[j] < v
      <4>1. ports[j] \in Int
        BY <1>1
      <4>2. ports[j] < v => ports[j] <= w
        <5>1. ports[j] < v => ports[j] \in L
          OBVIOUS
        <5> HIDE DEF L
        <5> QED BY <2>4, <2>5, <4>1, <5>1
      <4>3. v \in Int
        BY <1>9
      <4> HIDE DEF below, upTo, P, V, L
      <4> QED BY <4>1, <4>2, <4>3, <2>5
    <3> QED BY <3>1
  <2>7. w \in V
    BY <2>1, <2>5, <2>6
  <2>8. v <= w
    BY <1>8, <2>7
  <2> HIDE DEF L, V, P
  <2> QED BY <1>9, <2>5, <2>8
<1> QED BY <1>1, <1>2, <1>6, <1>9, <1>10

\* A port is one of the open ports of the container, whatever the key asks for.
LEMMA OwnPort ==
    ASSUME NEW c \in Boxes, PortsOf(c) # <<>>, NEW key
    PROVE  PortAt(PortsOf(c), key) \in ToSet(OpenPorts(c))
<1> DEFINE ports == OpenPorts(c)
           n == Len(ports)
<1>1. ports \in Seq(Int) /\ n \in Nat /\ DOMAIN ports = 1..n
  BY BoxFacts
<1>2. \A i \in 1..n : PortsOf(c)[i] \in ToSet(ports)
  BY <1>1, PlaceHasPort DEF PortsOf
<1>3. DOMAIN PortsOf(c) = 1..n /\ PortsOf(c) = [i \in 1..n |-> PortsOf(c)[i]]
  <2> DEFINE At(i) ==
        CHOOSE port \in ToSet(ports) : /\ Cardinality({j \in DOMAIN ports : ports[j] < port}) < i
                                       /\ i <= Cardinality({j \in DOMAIN ports : ports[j] <= port})
  <2>2. PortsOf(c) = [i \in DOMAIN ports |-> At(i)]
    BY Zenon DEF PortsOf
  <2> HIDE DEF At
  <2>1. DOMAIN PortsOf(c) = DOMAIN ports /\ PortsOf(c) = [i \in DOMAIN ports |-> PortsOf(c)[i]]
    BY <2>2
  <2> QED BY <1>1, <2>1
<1> HIDE DEF ports
<1>4. PortsOf(c) \in Seq(ToSet(ports)) /\ Len(PortsOf(c)) = n
  <2> DEFINE T == ToSet(ports)
  <2>1. PortsOf(c) \in [1..n -> T]
    BY <1>2, <1>3
  <2> HIDE DEF T, n
  <2>2. PortsOf(c) \in Seq(T)
    BY <1>1, <2>1
  <2>3. Len(PortsOf(c)) = n
    BY <1>1, <1>3, <2>2
  <2> QED BY <2>2, <2>3 DEF T
<1> HIDE DEF n
<1>5. n >= 1
  <2>1. CASE n = 0
    BY <1>4, <2>1
  <2> QED BY <1>1, <2>1
<1>6. CASE key \in 0..(n - 1)
  BY <1>1, <1>2, <1>4, <1>6 DEF PortAt, ports
<1>7. CASE key \notin 0..(n - 1) /\ key \in (-n)..(-1)
  <2>1. n + key + 1 \in 1..n
    BY <1>1, <1>7
  <2> QED BY <1>1, <1>2, <1>4, <1>7, <2>1 DEF PortAt, ports
<1>8. CASE key \notin 0..(n - 1) /\ key \notin (-n)..(-1)
  BY <1>1, <1>2, <1>4, <1>5, <1>8 DEF PortAt, ports
<1> QED BY <1>6, <1>7, <1>8

\* A value that a container which is there has says whose it is; a network or a port
\* is one of its own.
LEMMA OwnValue ==
    ASSUME NEW c \in Boxes, NEW var, There(c), ValueOf(c, var) # Nowhere
    PROVE  LET value == ValueOf(c, var)
           IN  /\ Head(value) = c
               /\ value[2] = "network" => /\ value[3] \in Facts[c].networks
                                          /\ var.key \in Facts[c].networks => value[3] = var.key
               /\ value[2] = "port" => value[3] \in ToSet(OpenPorts(c))
<1> DEFINE value == ValueOf(c, var)
<1>1. CASE var.kind = "host"
  <2>1. value = HostAddress(c, var.key)
    BY <1>1 DEF ValueOf, AlwaysThere
  <2>2. CASE Facts[c].networks # {}
    <3>1. value = <<c, "network", NetworkOf(Facts[c].networks, var.key)>>
      BY <2>1, <2>2 DEF HostAddress
    <3>2. NetworkOf(Facts[c].networks, var.key) \in Facts[c].networks
      BY <2>2, OwnNetwork
    <3>3. var.key \in Facts[c].networks => NetworkOf(Facts[c].networks, var.key) = var.key
      BY DEF NetworkOf
    <3> HIDE DEF value
    <3> QED BY <3>1, <3>2, <3>3 DEF value
  <2>3. CASE Facts[c].networks = {}
    <3>1. value \in {<<c, "ip", 0>>, <<c, "pod", 0>>, <<c, "label", 0>>}
      BY <2>1, <2>3 DEF HostAddress
    <3> HIDE DEF value
    <3> QED BY <3>1 DEF value
  <2> QED BY <2>2, <2>3
<1>2. CASE var.kind = "port"
  <2>1. PortsOf(c) # <<>> /\ value = <<c, "port", PortAt(PortsOf(c), var.key)>>
    BY <1>2 DEF ValueOf, AlwaysThere
  <2>2. PortAt(PortsOf(c), var.key) \in ToSet(OpenPorts(c))
    BY <2>1, OwnPort
  <2> HIDE DEF value
  <2> QED BY <2>1, <2>2 DEF value
<1>3. CASE var.kind \notin {"host", "port"}
  <2>1. value \in {<<c, "pid", 0>>, <<c, "container-name", 0>>, <<c, "tags", 0>>}
    BY <1>3 DEF ValueOf, AlwaysThere
  <2> HIDE DEF value
  <2> QED BY <2>1 DEF value
<1> QED BY <1>1, <1>2, <1>3

-----------------------------------------------------------------------------
(* The templates of a container                                              *)

\* A part that is to be filled: no variable of it has a value.
ToFill(part) == part = Unfilled([i \in DOMAIN part |-> part[i].var])
FreshTemplate(t) ==
    /\ ToFill(t.init) /\ IsFiniteSet(DOMAIN t.instances)
    /\ \A k \in DOMAIN t.instances : ToFill(t.instances[k])
FreshTemplates(ts) == IsFiniteSet(DOMAIN ts) /\ \A p \in DOMAIN ts : FreshTemplate(ts[p])

LEMMA UnfilledFresh ==
    ASSUME NEW varSet
    PROVE  ToFill(Unfilled(varSet))
<1> DEFINE part == Unfilled(varSet)
<1>1. DOMAIN part = DOMAIN varSet /\ \A i \in DOMAIN varSet : part[i].var = varSet[i]
  BY DEF Unfilled
<1>2. part = [i \in DOMAIN varSet |-> [var |-> varSet[i], value |-> Nowhere]]
  BY DEF Unfilled
<1> HIDE DEF part
<1>3. Unfilled([i \in DOMAIN part |-> part[i].var]) = [i \in DOMAIN varSet |-> [var |-> varSet[i], value |-> Nowhere]]
  BY <1>1 DEF Unfilled
<1> QED BY <1>2, <1>3 DEF ToFill, part

\* The raw templates of a list are to be filled, if no list is shorter than the names.
LEMMA RawFresh ==
    ASSUME NEW list, NEW raw \in RawType, Len(raw.names) <= Len(raw.inits), Len(raw.names) <= Len(raw.instances)
    PROVE  /\ FreshTemplates(Raw(list, raw))
           /\ DOMAIN Raw(list, raw) = {list} \X (DOMAIN raw.names) \X {0}
           /\ \A i \in DOMAIN raw.names : Raw(list, raw)[<<list, i, 0>>].check = raw.names[i]
<1> DEFINE n == Len(raw.names)
           S == {list} \X (DOMAIN raw.names) \X {0}
           T(p) == [check |-> raw.names[p[2]], init |-> Unfilled(raw.inits[p[2]]),
                    instances |-> [k \in DOMAIN raw.instances[p[2]] |-> Unfilled(raw.instances[p[2]][k])]]
<1>1. Raw(list, raw) = [p \in S |-> T(p)]
  BY DEF Raw
<1>2. DOMAIN raw.names = 1..n /\ n \in Nat
  BY DEF RawType
<1>3. \A i \in 1..n : IsFiniteSet(DOMAIN raw.instances[i])
  <2> DEFINE L == Seq(Seq(VarType))
  <2>1. raw.instances \in Seq(L)
    BY DEF RawType
  <2>2. ASSUME NEW i \in 1..n PROVE raw.instances[i] \in L
    <3> HIDE DEF L
    <3> QED BY <1>2, <2>1
  <2>3. ASSUME NEW i \in 1..n PROVE IsFiniteSet(DOMAIN raw.instances[i])
    <3>1. raw.instances[i] \in Seq(Seq(VarType))
      BY <2>2
    <3> DEFINE V == Seq(VarType)
               k == Len(raw.instances[i])
    <3>2. DOMAIN raw.instances[i] = 1..k /\ k \in Nat
      <4> HIDE DEF V
      <4> QED BY <3>1 DEF V
    <3> HIDE DEF k
    <3>3. IsFiniteSet(1..k)
      BY <3>2, FS_Interval
    <3> QED BY <3>2, <3>3
  <2> QED BY <2>3
<1>4. IsFiniteSet(S)
  <2> DEFINE f == [i \in 1..n |-> <<list, i, 0>>]
  <2>1. IsFiniteSet(1..n)
    BY <1>2, FS_Interval
  <2>2. S = {f[i] : i \in 1..n}
    <3>1. ASSUME NEW x \in S PROVE x \in {f[i] : i \in 1..n}
      <4>1. x[2] \in 1..n /\ x = <<list, x[2], 0>>
        BY <1>2
      <4>2. f[x[2]] = x
        BY <4>1
      <4> QED BY <4>1, <4>2
    <3>2. ASSUME NEW i \in 1..n PROVE f[i] \in S
      BY <1>2
    <3> QED BY <3>1, <3>2
  <2> HIDE DEF f, S
  <2> QED BY <2>1, <2>2, ValuesFinite
<1>5. ASSUME NEW p \in S PROVE FreshTemplate(T(p))
  <2>1. p[2] \in 1..n
    BY <1>2, <1>5
  <2>2. /\ T(p).init = Unfilled(raw.inits[p[2]]) /\ DOMAIN T(p).instances = DOMAIN raw.instances[p[2]]
        /\ \A k \in DOMAIN T(p).instances : T(p).instances[k] = Unfilled(raw.instances[p[2]][k])
    OBVIOUS
  <2> HIDE DEF T
  <2> QED BY <1>3, <2>1, <2>2, UnfilledFresh DEF FreshTemplate
<1>6. \A i \in DOMAIN raw.names : <<list, i, 0>> \in S /\ T(<<list, i, 0>>).check = raw.names[i]
  OBVIOUS
<1> HIDE DEF T, S
<1> QED BY <1>1, <1>4, <1>5, <1>6 DEF FreshTemplates, S

\* So are those that a container has, wherever they come from, if the cache has the
\* templates of the store as they were read.
StoredAtFirst == [c \in Boxes |-> IF Malformed(Sources[c].store) THEN <<>> ELSE Raw(1, Sources[c].store)]

LEMMA SourceFacts ==
    ASSUME NEW c \in Boxes
    PROVE  /\ \A k \in {"kube", "labels", "store", "auto"} : Sources[c][k] \in RawType
           /\ Sources[c].kube \in RawType /\ Sources[c].labels \in RawType
           /\ Sources[c].store \in RawType /\ Sources[c].auto \in RawType
           /\ ~Malformed(Sources[c].auto)
  BY ConfigsAssumption

LEMMA ShortestFresh ==
    ASSUME NEW raw \in RawType
    PROVE  FreshTemplates(Raw(1, Shortest(raw)))
<1> DEFINE a == Len(raw.names)
           b == Len(raw.inits)
           d == Len(raw.instances)
           n == Min({a, b, d})
           short == Shortest(raw)
<1>1. /\ raw.names \in Seq(STRING) /\ a \in Nat /\ b \in Nat /\ d \in Nat
      /\ raw.inits \in Seq(Seq(VarType)) /\ raw.instances \in Seq(Seq(Seq(VarType)))
  BY DEF RawType
<1>2. n \in Nat /\ n <= a /\ n <= b /\ n <= d
  <2> HIDE DEF a, b, d
  <2>1. \E x \in {a, b, d} : \A y \in {a, b, d} : x <= y
    BY <1>1
  <2> QED BY <1>1, <2>1 DEF Min
<1>3. short = [names |-> SubSeq(raw.names, 1, n), inits |-> raw.inits, instances |-> raw.instances]
  <2>1. short = [raw EXCEPT !.names = SubSeq(@, 1, n)]
    BY DEF Shortest
  <2> HIDE DEF n
  <2>2. raw = [names |-> raw.names, inits |-> raw.inits, instances |-> raw.instances]
    BY DEF RawType
  <2> QED BY <2>1, <2>2
<1> HIDE DEF n, short
<1>4. SubSeq(raw.names, 1, n) \in Seq(STRING) /\ Len(SubSeq(raw.names, 1, n)) = n
  <2> DEFINE s == raw.names
  <2>1. s \in Seq(STRING) /\ n \in Nat /\ n <= Len(s)
    BY <1>1, <1>2
  <2> HIDE DEF s
  <2>2. SubSeq(s, 1, n) \in Seq(STRING) /\ Len(SubSeq(s, 1, n)) = n
    BY <2>1, SubSeqProperties
  <2> QED BY <2>2 DEF s
<1>5. short \in RawType /\ Len(short.names) <= Len(short.inits) /\ Len(short.names) <= Len(short.instances)
  <2>1. short \in RawType
    BY <1>1, <1>3, <1>4 DEF RawType
  <2>2. short.names = SubSeq(raw.names, 1, n) /\ short.inits = raw.inits /\ short.instances = raw.instances
    BY <1>3
  <2> QED BY <1>2, <1>4, <2>1, <2>2
<1>6. FreshTemplates(Raw(1, short))
  BY <1>5, RawFresh
<1> QED BY <1>6 DEF short

LEMMA WellFormedFresh ==
    ASSUME NEW list, NEW raw \in RawType, ~Malformed(raw)
    PROVE  FreshTemplates(Raw(list, raw))
<1>1. Len(raw.names) \in Nat /\ Len(raw.inits) = Len(raw.names) /\ Len(raw.instances) = Len(raw.names)
  BY DEF Malformed, RawType
<1>2. Len(raw.names) <= Len(raw.inits) /\ Len(raw.names) <= Len(raw.instances)
  BY <1>1
<1> QED BY <1>2, RawFresh

\* The checks that are kept have the places 1, 2, and so on, in their order.
LEMMA PlacesInOrder ==
    ASSUME NEW file \in RawType, file.names # <<>>
    PROVE  LET K == KeptChecks(file)
               n == Cardinality(K)
           IN  /\ n \in Nat /\ 1 \in K /\ K \subseteq DOMAIN file.names /\ PlaceOf(file, 1) = 1
               /\ \A i \in DOMAIN file.names : PlaceOf(file, i) \in 1..n
               /\ \A i, j \in K : PlaceOf(file, i) = PlaceOf(file, j) => i = j
               /\ \A q \in 1..n : \E j \in K : PlaceOf(file, j) = q
<1> DEFINE m == Len(file.names)
           K == KeptChecks(file)
           n == Cardinality(K)
           Below(i) == {j \in K : j <= i}
           place == [i \in K |-> PlaceOf(file, i)]
<1>1. m \in Nat /\ m >= 1 /\ DOMAIN file.names = 1..m
  <2>1. file.names \in Seq(STRING)
    BY DEF RawType
  <2> QED BY <2>1
<1>2. K \subseteq 1..m /\ 1 \in K
  BY <1>1 DEF KeptChecks
<1>3. IsFiniteSet(K) /\ n \in Nat
  <2>1. IsFiniteSet(1..m)
    <3> HIDE DEF m
    <3> QED BY <1>1, FS_Interval
  <2> HIDE DEF K
  <2> QED BY <1>2, <2>1, FS_Subset, FS_CardinalityType
<1>4. ASSUME NEW i
      PROVE  /\ IsFiniteSet(Below(i)) /\ Below(i) \subseteq K
             /\ Cardinality(Below(i)) \in Nat /\ Cardinality(Below(i)) <= n
             /\ PlaceOf(file, i) = Cardinality(Below(i))
  <2>1. Below(i) \subseteq K /\ PlaceOf(file, i) = Cardinality(Below(i))
    BY DEF PlaceOf
  <2> HIDE DEF K, Below
  <2> QED BY <1>3, <2>1, FS_Subset, FS_CardinalityType
<1>5. PlaceOf(file, 1) = 1
  <2>1. Below(1) = {1}
    BY <1>1, <1>2
  <2> QED BY <1>4, <2>1, FS_Singleton
<1>6. ASSUME NEW i \in 1..m PROVE PlaceOf(file, i) \in 1..n
  <2>1. Below(1) \subseteq Below(i)
    BY <1>1, <1>2
  <2>2. Cardinality(Below(1)) = 1
    BY <1>4, <1>5
  <2> HIDE DEF Below, n
  <2>3. Cardinality(Below(1)) <= Cardinality(Below(i))
    BY <1>4, <2>1, FS_Subset
  <2> QED BY <1>3, <1>4, <2>2, <2>3
<1>7. ASSUME NEW i \in K, NEW j \in K, PlaceOf(file, i) = PlaceOf(file, j), i < j PROVE FALSE
  <2>1. i \in Int /\ j \in Int
    BY <1>1, <1>2
  <2>2. Below(i) \subseteq Below(j) /\ j \in Below(j) /\ j \notin Below(i)
    BY <1>1, <1>2, <1>7, <2>1
  <2> HIDE DEF Below, K
  <2> QED BY <1>4, <1>7, <2>2, FS_Subset
<1>8. \A i, j \in K : PlaceOf(file, i) = PlaceOf(file, j) => i = j
  <2>1. \A i \in K : i \in Int
    BY <1>1, <1>2
  <2> HIDE DEF K
  <2> QED BY <1>7, <2>1
<1>9. ASSUME NEW q \in 1..n, \A j \in K : PlaceOf(file, j) # q PROVE FALSE
  <2> DEFINE R == 1..n
             T == R \ {q}
  <2>1. IsFiniteSet(R) /\ Cardinality(R) = n
    <3> HIDE DEF n
    <3>1. IsFiniteSet(1..n) /\ Cardinality(1..n) = IF 1 > n THEN 0 ELSE n - 1 + 1
      BY <1>3, FS_Interval
    <3>2. (IF 1 > n THEN 0 ELSE n - 1 + 1) = n
      BY <1>3
    <3> QED BY <3>1, <3>2
  <2>2. place \in [K -> T]
    BY <1>2, <1>6, <1>9
  <2> HIDE DEF R
  <2>3. IsFiniteSet(T) /\ Cardinality(T) = n - 1
    BY <1>9, <2>1, FS_RemoveElement DEF R
  <2>4. Cardinality(T) < Cardinality(K)
    BY <1>3, <2>3
  <2> HIDE DEF T, K, place
  <2>5. \E i, j \in K : i # j /\ place[i] = place[j]
    BY <1>3, <2>2, <2>3, <2>4, FS_PigeonHole
  <2> QED BY <1>8, <2>5 DEF place
<1> HIDE DEF K, n
<1> QED BY <1>1, <1>2, <1>3, <1>5, <1>6, <1>8, <1>9 DEF K, n

\* What is cached of a file has its checks, and for each of them a list of instances.
LEMMA CachedFile ==
    ASSUME NEW file \in RawType, ~Malformed(file)
    PROVE  /\ AutoCached(file) \in RawType /\ ~Malformed(AutoCached(file))
           /\ AutoCached(file).names = file.names /\ AutoCached(file).inits = file.inits
           /\ \A i \in DOMAIN file.names : AutoCached(file).instances[i] = InstancesAt(file, PlaceOf(file, i))
<1> DEFINE m == Len(file.names)
           L == Seq(Seq(VarType))
           f == [i \in 1..m |-> InstancesAt(file, PlaceOf(file, i))]
<1>1. /\ file.names \in Seq(STRING) /\ file.inits \in L /\ file.instances \in Seq(L)
      /\ m \in Nat /\ Len(file.inits) = m /\ Len(file.instances) = m
      /\ file = [names |-> file.names, inits |-> file.inits, instances |-> file.instances]
  BY DEF RawType, Malformed
<1>2. DOMAIN file.names = 1..m /\ DOMAIN file.instances = 1..m /\ \A i \in 1..m : file.instances[i] \in L
  <2> HIDE DEF L
  <2> QED BY <1>1
<1>3. ASSUME NEW i \in 1..m PROVE InstancesAt(file, PlaceOf(file, i)) \in L
  <2> DEFINE first == Unwrapped(file)
             place == PlaceOf(file, i)
             K == KeptChecks(file)
  <2>1. file.names # <<>> /\ 1 \in 1..m
    BY <1>1, <1>2, <1>3
  <2>2. /\ Cardinality(K) \in Nat /\ place \in 1..Cardinality(K) /\ K \subseteq 1..m
        /\ \A q \in 1..Cardinality(K) : \E j \in K : PlaceOf(file, j) = q
    BY <1>2, <2>1, PlacesInOrder
  <2>3. first \in L /\ Len(first) \in Nat /\ Len(first) >= 1
    <3>1. file.instances[1] \in L
      BY <1>2, <2>1
    <3>2. CASE file.instances[1] = <<>>
      <4>1. first = <<<<>>>>
        BY <3>2 DEF Unwrapped
      <4> QED BY <4>1
    <3>3. CASE file.instances[1] # <<>>
      <4> DEFINE V == Seq(VarType)
      <4>1. first = file.instances[1]
        BY <3>3 DEF Unwrapped
      <4> HIDE DEF V, first
      <4> QED BY <3>1, <3>3, <4>1 DEF V
    <3> QED BY <3>2, <3>3
  <2> HIDE DEF first, place
  <2>4. CASE place <= Len(first)
    <3> DEFINE V == Seq(VarType)
    <3>1. first[place] \in V
      <4> HIDE DEF V
      <4> QED BY <2>2, <2>3, <2>4 DEF V
    <3>2. InstancesAt(file, place) = <<first[place]>>
      BY <2>4 DEF InstancesAt, first
    <3> HIDE DEF V
    <3> QED BY <3>1, <3>2 DEF V, place
  <2>5. CASE place > Len(first)
    <3>1. place - Len(first) + 1 \in 1..Cardinality(K)
      <4> HIDE DEF K
      <4> QED BY <2>2, <2>3, <2>5
    <3> DEFINE j == CHOOSE j \in K : PlaceOf(file, j) = place - Len(first) + 1
    <3>2. j \in K
      BY <2>2, <3>1
    <3>3. InstancesAt(file, place) = file.instances[j]
      BY <2>2, <2>3, <2>5 DEF InstancesAt, first
    <3> HIDE DEF j, K, L
    <3> QED BY <1>2, <2>2, <3>2, <3>3 DEF place
  <2> QED BY <2>2, <2>3, <2>4, <2>5
<1>4. AutoCached(file) = [file EXCEPT !.instances = f]
  BY <1>2 DEF AutoCached
<1>5. f \in Seq(L) /\ Len(f) = m
  <2>1. f \in [1..m -> L]
    BY <1>3
  <2> HIDE DEF f, L, m
  <2> QED BY <1>1, <2>1, SeqDef
<1> HIDE DEF f
<1>6. AutoCached(file) = [names |-> file.names, inits |-> file.inits, instances |-> f]
  BY <1>1, <1>4
<1>7. AutoCached(file) \in RawType /\ ~Malformed(AutoCached(file))
  BY <1>1, <1>5, <1>6 DEF RawType, Malformed
<1>8. \A i \in DOMAIN file.names : AutoCached(file).instances[i] = InstancesAt(file, PlaceOf(file, i))
  BY <1>2, <1>6 DEF f
<1> QED BY <1>6, <1>7, <1>8

\* A first check of one instance leaves the others what they have.
LEMMA CachedAsWritten ==
    ASSUME NEW file \in RawType, ~Malformed(file), file.names # <<>>, Len(file.instances[1]) = 1,
           NEW i \in KeptChecks(file)
    PROVE  AutoCached(file).instances[i] = file.instances[i]
<1> DEFINE first == Unwrapped(file)
           place == PlaceOf(file, i)
           K == KeptChecks(file)
<1>1. /\ 1 \in K /\ K \subseteq DOMAIN file.names /\ PlaceOf(file, 1) = 1 /\ i \in K
      /\ place \in 1..Cardinality(K) /\ Cardinality(K) \in Nat
      /\ \A x, y \in K : PlaceOf(file, x) = PlaceOf(file, y) => x = y
  BY PlacesInOrder
<1>2. file.instances[1] \in Seq(Seq(VarType))
  <2> DEFINE L == Seq(Seq(VarType))
  <2>1. /\ file.names \in Seq(STRING) /\ file.instances \in Seq(L)
        /\ Len(file.instances) = Len(file.names)
    BY DEF RawType, Malformed
  <2>2. file.names # <<>>
    OBVIOUS
  <2>3. Len(file.names) >= 1 /\ Len(file.names) \in Nat
    BY <2>1, <2>2
  <2> HIDE DEF L
  <2>4. file.instances[1] \in L
    BY <2>1, <2>3
  <2> QED BY <2>4 DEF L
<1>3. first = file.instances[1] /\ Len(first) = 1 /\ first = <<first[1]>>
  <2> DEFINE V == Seq(VarType)
             s == file.instances[1]
  <2>1. s \in Seq(V) /\ Len(s) = 1
    BY <1>2
  <2> HIDE DEF V, s
  <2>2. s # <<>> /\ s = <<s[1]>>
    <3>1. s[1] \in V
      <4>1. s \in [1..Len(s) -> V]
        BY <2>1, LenProperties, Zenon
      <4>2. s \in [1..1 -> V]
        BY <2>1, <4>1, Zenon
      <4>3. 1 \in 1..1
        OBVIOUS
      <4> QED BY <4>2, <4>3
    <3>2. <<s[1]>> \in Seq(V) /\ Len(<<s[1]>>) = 1 /\ <<s[1]>>[1] = s[1]
      BY <3>1
    <3>3. \A k \in 1..Len(s) : s[k] = <<s[1]>>[k]
      BY <2>1, <3>2
    <3> QED BY <2>1, <3>2, <3>3, SeqEqual
  <2>3. first = s
    BY <2>2 DEF Unwrapped, s
  <2> QED BY <2>1, <2>2, <2>3 DEF s
<1>4. AutoCached(file).instances[i] = InstancesAt(file, place)
  BY <1>1, CachedFile
<1> HIDE DEF first, place
<1>5. CASE place <= 1
  <2>1. place = 1 /\ i = 1
    BY <1>1, <1>5 DEF place
  <2>2. InstancesAt(file, place) = <<first[1]>>
    BY <1>3, <2>1 DEF InstancesAt, first
  <2> QED BY <1>3, <1>4, <2>1, <2>2
<1>6. CASE place > 1
  <2> DEFINE j == CHOOSE j \in K : PlaceOf(file, j) = place - 1 + 1
  <2>1. place - 1 + 1 = place
    BY <1>1
  <2>2. j \in K /\ PlaceOf(file, j) = place
    BY <1>1, <2>1 DEF place
  <2>3. j = i
    BY <1>1, <2>2 DEF place
  <2>4. InstancesAt(file, place) = file.instances[j]
    <3>1. InstancesAt(file, place)
            = file.instances[CHOOSE x \in K : PlaceOf(file, x) = place - Len(first) + 1]
      <4>1. ~(place <= Len(first))
        <5>1. place \in Int
          BY <1>1
        <5>2. Len(first) = 1
          BY <1>3
        <5> QED BY <1>6, <5>1, <5>2
      <4> QED BY <4>1 DEF InstancesAt, first
    <3> HIDE DEF K
    <3> QED BY <1>3, <3>1
  <2> QED BY <1>4, <2>3, <2>4
<1> QED BY <1>1, <1>5, <1>6

LEMMA BesideFresh ==
    ASSUME NEW c \in Boxes, NEW file \in RawType, ~Malformed(file), cachedTpls = StoredAtFirst
    PROVE  FreshTemplates(Beside(c, file))
<1> DEFINE auto == Raw(2, file)
           others == {p \in DOMAIN auto : /\ p[2] \in KeptChecks(file)
                                          /\ auto[p].check \notin ToSet(Sources[c].store.names)}
<1>1. FreshTemplates(auto)
  BY WellFormedFresh
<1>2. FreshTemplates(cachedTpls[c])
  <2>1. CASE Malformed(Sources[c].store)
    <3>1. cachedTpls[c] = <<>>
      BY <2>1 DEF StoredAtFirst
    <3>2. DOMAIN cachedTpls[c] = {}
      BY <3>1
    <3> QED BY <3>2, FS_EmptySet DEF FreshTemplates
  <2>2. CASE ~Malformed(Sources[c].store)
    <3>1. cachedTpls[c] = Raw(1, Sources[c].store)
      BY <2>2 DEF StoredAtFirst
    <3> QED BY <2>2, <3>1, SourceFacts, WellFormedFresh
  <2> QED BY <2>1, <2>2
<1>3. Beside(c, file) = [p \in DOMAIN cachedTpls[c] \cup others |-> IF p \in others THEN auto[p] ELSE cachedTpls[c][p]]
  BY DEF Beside
<1>4. others \subseteq DOMAIN auto
  OBVIOUS
<1> HIDE DEF others, auto
<1>5. IsFiniteSet(DOMAIN cachedTpls[c] \cup others)
  BY <1>1, <1>2, <1>4, FS_Subset, FS_Union DEF FreshTemplates
<1> QED BY <1>1, <1>2, <1>3, <1>4, <1>5 DEF FreshTemplates

LEMMA StoreFresh ==
    ASSUME NEW c \in Boxes, cachedTpls = StoredAtFirst
    PROVE  FreshTemplates(StoreTemplates(c))
<1> DEFINE file == Sources[c].auto
<1>1. file \in RawType /\ ~Malformed(file)
  BY SourceFacts
<1> HIDE DEF file
<1>2. AutoCached(file) \in RawType /\ ~Malformed(AutoCached(file))
  BY <1>1, CachedFile
<1> QED BY <1>2, BesideFresh DEF StoreTemplates, file

\* What the cache has for a check is what was written for it, unless it is mixed up.
LEMMA CacheKeepsWritten ==
    ASSUME NEW c \in Boxes, NEW n, ~MixedUp(c, n)
    PROVE  /\ DOMAIN AsWritten(c) = DOMAIN TemplatesOf(c)
           /\ \A p \in DOMAIN TemplatesOf(c) :
                 /\ AsWritten(c)[p].check = TemplatesOf(c)[p].check
                 /\ TemplatesOf(c)[p].check = n => AsWritten(c)[p] = TemplatesOf(c)[p]
<1>1. CASE ~setting.withStore
  BY <1>1 DEF AsWritten
<1>2. CASE setting.withStore
  <2> DEFINE file == Sources[c].auto
             cached == AutoCached(file)
             written == Raw(2, file)
             auto == Raw(2, cached)
             K == KeptChecks(file)
             others == {p \in DOMAIN auto : p[2] \in K /\ auto[p].check \notin ToSet(Sources[c].store.names)}
             S == {2} \X (DOMAIN file.names) \X {0}
             Tpl(f, p) == [check |-> f.names[p[2]], init |-> Unfilled(f.inits[p[2]]),
                           instances |-> [k \in DOMAIN f.instances[p[2]] |-> Unfilled(f.instances[p[2]][k])]]
  <2>1. file \in RawType /\ ~Malformed(file)
    BY SourceFacts
  <2>2. TemplatesOf(c) = Beside(c, cached) /\ AsWritten(c) = Beside(c, file)
    BY <1>2 DEF TemplatesOf, StoreTemplates, AsWritten
  <2>3. /\ cached.names = file.names /\ cached.inits = file.inits /\ KeptChecks(cached) = K
        /\ K \subseteq DOMAIN file.names
    <3> HIDE DEF file, cached
    <3>1. cached.names = file.names /\ cached.inits = file.inits
      BY <2>1, CachedFile DEF cached
    <3> QED BY <3>1 DEF KeptChecks, K
  <2>4. written = [p \in S |-> Tpl(file, p)] /\ auto = [p \in S |-> Tpl(cached, p)]
    <3> HIDE DEF file, cached
    <3> QED BY <2>3 DEF Raw
  <2>5. \A p \in S : written[p].check = auto[p].check
    <3> HIDE DEF file, cached
    <3> QED BY <2>3, <2>4
  <2>6. DOMAIN written = S /\ DOMAIN auto = S /\ others \subseteq S
    <3> HIDE DEF file, cached, written, auto, S, Tpl
    <3>1. DOMAIN written = S /\ DOMAIN auto = S
      BY <2>4
    <3> QED BY <3>1
  <2>7. /\ Beside(c, cached) = [p \in DOMAIN cachedTpls[c] \cup others |->
                                  IF p \in others THEN auto[p] ELSE cachedTpls[c][p]]
        /\ Beside(c, file) = [p \in DOMAIN cachedTpls[c] \cup others |->
                                  IF p \in others THEN written[p] ELSE cachedTpls[c][p]]
    <3>1. others = {p \in DOMAIN written : p[2] \in K /\ written[p].check \notin ToSet(Sources[c].store.names)}
      <4> HIDE DEF written, auto, S, K
      <4> QED BY <2>5, <2>6
    <3>2. Beside(c, file) = [p \in DOMAIN cachedTpls[c] \cup others |->
                               IF p \in others THEN written[p] ELSE cachedTpls[c][p]]
      <4> HIDE DEF others
      <4> QED BY <3>1 DEF Beside, written, K
    <3>3. Beside(c, cached) = [p \in DOMAIN cachedTpls[c] \cup others |->
                                IF p \in others THEN auto[p] ELSE cachedTpls[c][p]]
      <4>1. others = {p \in DOMAIN auto : /\ p[2] \in KeptChecks(cached)
                                          /\ auto[p].check \notin ToSet(Sources[c].store.names)}
        <5> HIDE DEF cached, auto, K
        <5> QED BY <2>3
      <4> HIDE DEF others, cached
      <4> QED BY <4>1 DEF Beside, auto
    <3> QED BY <3>2, <3>3
  <2>8. ASSUME NEW p \in others, auto[p].check = n PROVE written[p] = auto[p]
    <3>1. /\ p \in S /\ p[2] \in K /\ n \notin ToSet(Sources[c].store.names)
      <4> HIDE DEF auto, S, K
      <4> QED BY <2>6, <2>8
    <3>2. file.names # <<>>
      BY <2>3, <3>1
    <3>3. Len(file.instances[1]) = 1
      BY <1>2, <3>1, <3>2 DEF MixedUp
    <3>4. cached.instances[p[2]] = file.instances[p[2]]
      <4> HIDE DEF file
      <4> QED BY <2>1, <3>1, <3>2, <3>3, CachedAsWritten
    <3>5. Tpl(file, p) = Tpl(cached, p)
      <4> HIDE DEF file, cached
      <4> QED BY <2>3, <3>4
    <3> HIDE DEF Tpl, S, written, auto
    <3> QED BY <2>4, <3>1, <3>5
  <2> HIDE DEF file, cached, written, auto, others, S
  <2> QED BY <2>2, <2>5, <2>6, <2>7, <2>8
<1> QED BY <1>1, <1>2

LEMMA AutoFresh ==
    ASSUME NEW c \in Boxes
    PROVE  FreshTemplates(AutoTemplates(c))
<1> DEFINE file == Sources[c].auto
           usable == {i \in DOMAIN file.names : HasClass(file.names[i])}
           raw == Raw(2, file)
           P == UNION {{2} \X {i} \X (DOMAIN file.instances[i]) : i \in usable}
           T(p) == [raw[<<2, p[2], 0>>] EXCEPT !.instances = <<@[p[3]]>>]
<1>1. AutoTemplates(c) = [p \in P |-> T(p)]
  BY DEF AutoTemplates
<1>2. file \in RawType /\ ~Malformed(file)
  BY SourceFacts
<1> HIDE DEF file
<1>3. FreshTemplates(raw) /\ DOMAIN raw = {2} \X (DOMAIN file.names) \X {0}
  <2>1. Len(file.names) \in Nat /\ Len(file.inits) = Len(file.names) /\ Len(file.instances) = Len(file.names)
    BY <1>2 DEF Malformed, RawType
  <2>2. Len(file.names) <= Len(file.inits) /\ Len(file.names) <= Len(file.instances)
    BY <2>1
  <2> QED BY <1>2, <2>2, RawFresh
<1>4. \A i \in DOMAIN file.names :
         raw[<<2, i, 0>>].instances = [k \in DOMAIN file.instances[i] |-> Unfilled(file.instances[i][k])]
  BY DEF Raw
<1> HIDE DEF raw
<1>5. ASSUME NEW i \in usable
      PROVE  /\ FreshTemplate(raw[<<2, i, 0>>]) /\ DOMAIN raw[<<2, i, 0>>].instances = DOMAIN file.instances[i]
             /\ IsFiniteSet(DOMAIN file.instances[i])
  <2>1. <<2, i, 0>> \in DOMAIN raw
    BY <1>3, <1>5
  <2>2. DOMAIN raw[<<2, i, 0>>].instances = DOMAIN file.instances[i]
    BY <1>4, <1>5
  <2> QED BY <1>3, <2>1, <2>2 DEF FreshTemplates, FreshTemplate
<1>6. IsFiniteSet(P)
  <2> DEFINE G == [i \in usable |-> {2} \X {i} \X (DOMAIN file.instances[i])]
  <2>1. IsFiniteSet(usable)
    <3>1. DOMAIN file.names = 1..Len(file.names) /\ Len(file.names) \in Nat
      BY <1>2 DEF RawType
    <3>2. IsFiniteSet(1..Len(file.names))
      BY <3>1, FS_Interval
    <3> QED BY <3>1, <3>2, FS_Subset
  <2>2. ASSUME NEW i \in usable PROVE IsFiniteSet(G[i])
    <3> DEFINE D == DOMAIN file.instances[i]
               f == [k \in D |-> <<2, i, k>>]
    <3>1. IsFiniteSet(D)
      BY <1>5
    <3>2. G[i] = {f[k] : k \in D}
      <4>1. G[i] = {2} \X {i} \X D
        OBVIOUS
      <4> HIDE DEF D, G, usable
      <4>2. ASSUME NEW x \in G[i] PROVE x \in {f[k] : k \in D}
        <5>1. x[3] \in D /\ x = <<2, i, x[3]>>
          BY <4>1, <4>2
        <5>2. f[x[3]] = x
          BY <5>1
        <5> QED BY <5>1, <5>2
      <4> QED BY <4>1, <4>2
    <3> HIDE DEF D, f, G
    <3> QED BY <3>1, <3>2, ValuesFinite
  <2>3. P = UNION {G[i] : i \in usable}
    OBVIOUS
  <2> HIDE DEF G, usable
  <2>4. IsFiniteSet({G[i] : i \in usable})
    BY <2>1, ValuesFinite
  <2>5. IsFiniteSet(UNION {G[i] : i \in usable})
    BY <2>2, <2>4, FS_UNION
  <2> QED BY <2>3, <2>5
<1>7. ASSUME NEW p \in P PROVE FreshTemplate(T(p))
  <2>1. p[2] \in usable /\ p[3] \in DOMAIN file.instances[p[2]]
    BY <1>7
  <2> DEFINE r == raw[<<2, p[2], 0>>]
  <2>2. FreshTemplate(r) /\ p[3] \in DOMAIN r.instances
    BY <1>5, <2>1
  <2>3. T(p).init = r.init /\ T(p).instances = <<r.instances[p[3]]>>
    <3>1. \E x, y, z : r = [check |-> x, init |-> y, instances |-> z]
      BY <2>1 DEF Raw, raw
    <3> HIDE DEF r
    <3> QED BY <3>1 DEF r
  <2> HIDE DEF T, r
  <2>4. DOMAIN <<r.instances[p[3]]>> = {1} /\ <<r.instances[p[3]]>>[1] = r.instances[p[3]]
    OBVIOUS
  <2>5. IsFiniteSet({1})
    BY FS_Singleton
  <2> QED BY <2>2, <2>3, <2>4, <2>5 DEF FreshTemplate
<1> HIDE DEF T, P
<1> QED BY <1>1, <1>6, <1>7 DEF FreshTemplates

LEMMA AllFresh ==
    ASSUME NEW c \in Boxes, cachedTpls = StoredAtFirst
    PROVE  FreshTemplates(TemplatesOf(c))
<1>1. FreshTemplates(StoreTemplates(c)) /\ FreshTemplates(AutoTemplates(c))
  BY StoreFresh, AutoFresh
<1>2. FreshTemplates(Raw(1, Shortest(Sources[c].kube))) /\ FreshTemplates(Raw(1, Shortest(Sources[c].labels)))
  BY SourceFacts, ShortestFresh
<1>3. TemplatesOf(c) \in {StoreTemplates(c), AutoTemplates(c), Raw(1, Shortest(Sources[c].kube)),
                          Raw(1, Shortest(Sources[c].labels))}
  BY DEF TemplatesOf
<1> QED BY <1>1, <1>2, <1>3

-----------------------------------------------------------------------------
(* What a container gives is what it should give                             *)

\* A part that is filled has a value of the container at each variable.
LEMMA Filled ==
    ASSUME NEW c, NEW part, ToFill(part)
    PROVE  /\ DOMAIN Render(c, part) = DOMAIN part
           /\ \A i \in DOMAIN part : /\ Render(c, part)[i].var = part[i].var
                                      /\ Render(c, part)[i].value = ValueOf(c, part[i].var)
           /\ Complete(Render(c, part)) <=> Has(c, part)
<1>1. ASSUME NEW i \in DOMAIN part PROVE part[i] = [var |-> part[i].var, value |-> Nowhere]
  <2> DEFINE varSet == [j \in DOMAIN part |-> part[j].var]
  <2>1. part = [j \in DOMAIN varSet |-> [var |-> varSet[j], value |-> Nowhere]]
    BY DEF ToFill, Unfilled
  <2>2. DOMAIN varSet = DOMAIN part /\ varSet[i] = part[i].var
    BY <1>1
  <2> HIDE DEF varSet
  <2> QED BY <1>1, <2>1, <2>2
<1>2. DOMAIN Render(c, part) = DOMAIN part
  BY DEF Render
<1>3. ASSUME NEW i \in DOMAIN part
      PROVE  Render(c, part)[i].var = part[i].var /\ Render(c, part)[i].value = ValueOf(c, part[i].var)
  <2>1. part[i].value = Nowhere
    BY <1>1
  <2>2. Render(c, part)[i] = [part[i] EXCEPT !.value = ValueOf(c, part[i].var)]
    BY <1>3, <2>1 DEF Render
  <2>3. PICK v : part[i] = [var |-> v, value |-> Nowhere]
    BY <1>1
  <2> QED BY <2>2, <2>3
<1>4. Complete(Render(c, part)) <=> Has(c, part)
  BY <1>2, <1>3 DEF Complete, Has
<1> QED BY <1>2, <1>3, <1>4

LEMMA GivesDue ==
    ASSUME NEW c, NEW t, FreshTemplate(t)
    PROVE  Gives(c, t) = DueFrom(c, t) /\ IsFiniteSet(Gives(c, t))
<1>1. Complete(Render(c, t.init)) <=> Has(c, t.init)
  BY Filled DEF FreshTemplate
<1>2. \A k \in DOMAIN t.instances : Complete(Render(c, t.instances[k])) <=> Has(c, t.instances[k])
  BY Filled DEF FreshTemplate
<1>3. Gives(c, t) = DueFrom(c, t)
  BY <1>1, <1>2 DEF Gives, DueFrom
<1>4. IsFiniteSet(DOMAIN t.instances) /\ Gives(c, t) \subseteq DOMAIN t.instances
  BY DEF Gives, FreshTemplate
<1> QED BY <1>3, <1>4, FS_Subset

LEMMA GivenDue ==
    ASSUME NEW c \in Boxes, NEW n, cachedTpls = StoredAtFirst
    PROVE  Given(c, n) = Due(c, n) /\ IsFiniteSet(Given(c, n))
<1> DEFINE D == TemplatesFor(c, n)
           G == [p \in D |-> {p} \X Gives(c, TemplatesOf(c)[p])]
<1>1. FreshTemplates(TemplatesOf(c))
  BY AllFresh
<1>2. IsFiniteSet(D) /\ D \subseteq DOMAIN TemplatesOf(c)
  BY <1>1, FS_Subset DEF FreshTemplates, TemplatesFor
<1>3. \A p \in D : Gives(c, TemplatesOf(c)[p]) = DueFrom(c, TemplatesOf(c)[p])
                   /\ IsFiniteSet(Gives(c, TemplatesOf(c)[p]))
  BY <1>1, <1>2, GivesDue DEF FreshTemplates
<1>4. Given(c, n) = Due(c, n)
  BY <1>3 DEF Given, Due, DueOf, TemplatesFor
<1> HIDE DEF D
<1>5. ASSUME NEW p \in D PROVE IsFiniteSet(G[p])
  <2> DEFINE g == Gives(c, TemplatesOf(c)[p])
             f == [k \in g |-> <<p, k>>]
  <2>1. IsFiniteSet(g)
    BY <1>3
  <2>2. G[p] = {f[k] : k \in g}
    <3>1. G[p] = {p} \X g
      OBVIOUS
    <3> HIDE DEF G, g
    <3> QED BY <3>1
  <2> HIDE DEF g, f, G
  <2> QED BY <2>1, <2>2, ValuesFinite
<1>6. Given(c, n) = UNION {G[p] : p \in D}
  BY DEF Given, D
<1> HIDE DEF G
<1>7. IsFiniteSet({G[p] : p \in D})
  BY <1>2, ValuesFinite
<1>8. IsFiniteSet(UNION {G[p] : p \in D})
  BY <1>5, <1>7, FS_UNION
<1> QED BY <1>4, <1>6, <1>8

IsDue(c, n, part) == FilledFrom(c, n, TemplatesOf(c), part)

\* The instances for a check are as many as are due, and each is one of those; they have
\* the tags of the container and the values that it has.
LEMMA GivenInstances ==
    ASSUME NEW c \in Boxes, NEW n, cachedTpls = StoredAtFirst
    PROVE  LET m == Cardinality(Due(c, n))
               insts == InstancesFor(c, n)
           IN  /\ m \in Nat /\ insts = [i \in 1..m |-> insts[i]]
               /\ \A i \in 1..m :
                     /\ insts[i].tags = BoxTags(c)
                     /\ \A j \in DOMAIN insts[i].parts :
                           /\ insts[i].parts[j].value = ValueOf(c, insts[i].parts[j].var)
                           /\ insts[i].parts[j].value # Nowhere
               /\ \A i \in 1..m : IsDue(c, n, insts[i].parts)
<1> DEFINE m == Cardinality(Due(c, n))
           given == SetToSeq(Given(c, n))
           insts == InstancesFor(c, n)
           tpl(i) == TemplatesOf(c)[given[i][1]].instances[given[i][2]]
<1>1. m \in Nat /\ given \in [1..m -> Given(c, n)]
  BY GivenDue, SetInOrder
<1>2. insts = [i \in DOMAIN given |-> [parts |-> Render(c, tpl(i)), tags |-> BoxTags(c)]]
  BY DEF InstancesFor
<1>3. ASSUME NEW i \in 1..m PROVE ToFill(tpl(i)) /\ Has(c, tpl(i))
  <2> HIDE DEF given, m
  <2>1. given[i] \in Given(c, n)
    BY <1>1
  <2>2. PICK p \in TemplatesFor(c, n) : given[i] \in {p} \X Gives(c, TemplatesOf(c)[p])
    BY <2>1 DEF Given
  <2>3. given[i][1] = p /\ given[i][2] \in Gives(c, TemplatesOf(c)[p])
    BY <2>2
  <2>4. FreshTemplate(TemplatesOf(c)[p])
    BY AllFresh DEF FreshTemplates, TemplatesFor
  <2>5. given[i][2] \in DueFrom(c, TemplatesOf(c)[p])
    BY <2>3, <2>4, GivesDue
  <2> QED BY <2>3, <2>4, <2>5 DEF DueFrom, FreshTemplate
<1> HIDE DEF m, given, tpl, insts
<1>4. insts = [i \in 1..m |-> [parts |-> Render(c, tpl(i)), tags |-> BoxTags(c)]]
  BY <1>1, <1>2
<1>5. ASSUME NEW i \in 1..m, NEW j \in DOMAIN insts[i].parts
      PROVE  /\ insts[i].parts[j].value = ValueOf(c, insts[i].parts[j].var)
             /\ insts[i].parts[j].value # Nowhere
  <2> DEFINE part == tpl(i)
  <2>1. ToFill(part) /\ Has(c, part)
    BY <1>3
  <2>2. insts[i].parts = Render(c, part)
    BY <1>4
  <2> HIDE DEF part
  <2>3. j \in DOMAIN part
    BY <2>1, <2>2, Filled
  <2> QED BY <2>1, <2>2, <2>3, Filled DEF Has
<1>6. \A i \in 1..m : insts[i].tags = BoxTags(c)
  BY <1>4
<1>7. insts = [i \in 1..m |-> insts[i]]
  BY <1>4
<1>8. ASSUME NEW i \in 1..m PROVE IsDue(c, n, insts[i].parts)
  <2> DEFINE part == tpl(i)
             d == given[i]
  <2>1. ToFill(part)
    BY <1>3
  <2>2. insts[i].parts = Render(c, part)
    BY <1>4
  <2>3. part = TemplatesOf(c)[d[1]].instances[d[2]]
    BY DEF tpl
  <2>4. d \in DueOf(c, n, TemplatesOf(c))
    <3>1. d \in Given(c, n)
      BY <1>1
    <3>2. Given(c, n) = DueOf(c, n, TemplatesOf(c))
      BY GivenDue DEF Due
    <3> HIDE DEF d
    <3> QED BY <3>1, <3>2
  <2> HIDE DEF part, d
  <2>5. VarsOf(Render(c, part)) = VarsOf(part)
    BY <2>1, Filled DEF VarsOf
  <2> QED BY <2>2, <2>3, <2>4, <2>5, Zenon DEF IsDue, FilledFrom
<1> QED BY <1>1, <1>5, <1>6, <1>7, <1>8 DEF m, insts

\* The tag of an image is that of the container itself, and says that it was there.
LEMMA ImageTag ==
    ASSUME NEW c, NEW d
    PROVE  <<c, "image">> \in BoxTags(d) <=> c = d /\ There(d)
  BY DEF BoxTags

-----------------------------------------------------------------------------
(* Values do not change while a container is there                           *)

LEMMA SameValue ==
    ASSUME NEW c, NEW var, There(c), There(c)', setting' = setting, podsRead' = podsRead
    PROVE  ValueOf(c, var)' = ValueOf(c, var)
<1>1. HostAddress(c, var.key)' = HostAddress(c, var.key)
  BY DEF HostAddress, OnKube, PodKnown
<1>2. OpenPorts(c)' = OpenPorts(c)
  BY DEF OpenPorts, OnKube, PodKnown
<1>3. PortsOf(c)' = PortsOf(c)
  BY <1>2 DEF PortsOf
<1> QED BY <1>1, <1>3 DEF ValueOf

LEMMA SameTemplates ==
    ASSUME NEW c, setting' = setting, podsRead' = podsRead, cachedTpls' = cachedTpls
    PROVE  TemplatesOf(c)' = TemplatesOf(c)
<1>1. StoreTemplates(c)' = StoreTemplates(c)
  BY DEF StoreTemplates, Beside
<1>2. FromKube(c)' = FromKube(c) /\ FromLabels(c)' = FromLabels(c)
  BY DEF FromKube, FromLabels, PodKnown, OnKube
<1>3. AutoTemplates(c)' = AutoTemplates(c)
  BY DEF AutoTemplates
<1> QED BY <1>1, <1>2, <1>3 DEF TemplatesOf

LEMMA SameDue ==
    ASSUME NEW c, NEW n, There(c), There(c)',
           setting' = setting, podsRead' = podsRead, cachedTpls' = cachedTpls
    PROVE  Due(c, n)' = Due(c, n) /\ \A part : IsDue(c, n, part)' <=> IsDue(c, n, part)
<1>1. \A t : DueFrom(c, t)' = DueFrom(c, t)
  BY SameValue DEF DueFrom, Has
<1>2. TemplatesOf(c)' = TemplatesOf(c)
  BY SameTemplates
<1>3. Due(c, n)' = Due(c, n)
  BY <1>1, <1>2 DEF Due, DueOf
<1>4. ASSUME NEW part PROVE IsDue(c, n, part)' <=> IsDue(c, n, part)
  <2>1. IsDue(c, n, part)
          <=> \E d \in Due(c, n) : VarsOf(part) = VarsOf(TemplatesOf(c)[d[1]].instances[d[2]])
    BY DEF IsDue, FilledFrom, Due
  <2>2. IsDue(c, n, part)'
          <=> \E d \in Due(c, n)' : VarsOf(part) = VarsOf((TemplatesOf(c)')[d[1]].instances[d[2]])
    BY DEF IsDue, FilledFrom, Due, VarsOf
  <2> QED BY <1>2, <1>3, <2>1, <2>2
<1> QED BY <1>3, <1>4

-----------------------------------------------------------------------------
(* The invariant                                                             *)

BoxesType ==
    /\ alive \subseteq Boxes /\ toConfigure \subseteq Boxes
    /\ cachedTpls = StoredAtFirst
    /\ inspected \subseteq [box : Boxes, there : BOOLEAN]
    /\ \A i \in inspected : i.box \notin toConfigure
    /\ DOMAIN configs = ConfigNames
    /\ \A n \in ConfigNames : \E k \in Nat : DOMAIN configs[n].instances = 1..k
                                            /\ configs[n].instances = [i \in 1..k |-> configs[n].instances[i]]

\* An instance that has the tag of a container was given by it, when it was there: the
\* values are its own, and as long as it is there they are those that it has.
ByOwner ==
    \A n \in ConfigNames : \A k \in DOMAIN configs[n].instances : \A c \in Boxes :
        LET inst == configs[n].instances[k]
        IN  <<c, "image">> \in inst.tags =>
              /\ [box |-> c, there |-> TRUE] \in inspected
              /\ \A i \in DOMAIN inst.parts :
                    /\ Head(inst.parts[i].value) = c
                    /\ There(c) => /\ inst.parts[i].value = ValueOf(c, inst.parts[i].var)
                                   /\ inst.parts[i].value # Nowhere

AllGiven ==
    \A n \in ConfigNames : \A i \in inspected :
        i.there /\ There(i.box) => Cardinality(InstancesOf(i.box, n)) = Cardinality(Due(i.box, n))

\* It is one of the instances that the container should give, as long as it is there.
AsDue ==
    \A n \in ConfigNames : \A c \in Boxes :
        There(c) => \A k \in InstancesOf(c, n) : IsDue(c, n, configs[n].instances[k].parts)

BoxInv == BoxesType /\ ByOwner /\ AllGiven /\ AsDue

LEMMA BoxInvOwn == BoxInv => OwnConfigs
<1> SUFFICES ASSUME BoxInv, NEW n \in ConfigNames
             PROVE  /\ \A k \in DOMAIN configs[n].instances :
                          LET inst == configs[n].instances[k]
                          IN  \A c \in Boxes : <<c, "image">> \in inst.tags => OwnValues(c, inst.parts)
                    /\ \A i \in inspected :
                          LET c == i.box
                          IN  i.there /\ There(c) =>
                                /\ Cardinality(InstancesOf(c, n)) = Cardinality(Due(c, n))
                                /\ ~MixedUp(c, n) =>
                                      /\ Cardinality(InstancesOf(c, n)) = Cardinality(DueOf(c, n, AsWritten(c)))
                                      /\ \A k \in InstancesOf(c, n) :
                                            FilledFrom(c, n, AsWritten(c), configs[n].instances[k].parts)
                                /\ \A k \in InstancesOf(c, n) : \A p \in ToSet(configs[n].instances[k].parts) :
                                      /\ p.value[2] = "network" =>
                                            /\ p.value[3] \in Facts[c].networks
                                            /\ p.var.key \in Facts[c].networks => p.value[3] = p.var.key
                                      /\ p.value[2] = "port" => p.value[3] \in ToSet(OpenPorts(c))
  BY DEF OwnConfigs
<1>1. ASSUME NEW k \in DOMAIN configs[n].instances, NEW c \in Boxes,
             <<c, "image">> \in configs[n].instances[k].tags
      PROVE  OwnValues(c, configs[n].instances[k].parts)
  BY ZenonT(30), <1>1 DEF BoxInv, ByOwner, OwnValues
<1>2. ASSUME NEW i \in inspected, i.there, There(i.box)
      PROVE  /\ Cardinality(InstancesOf(i.box, n)) = Cardinality(Due(i.box, n))
             /\ i.box \in Boxes
  BY <1>2 DEF BoxInv, AllGiven, BoxesType
<1>3. ASSUME NEW c \in Boxes, There(c), NEW k \in InstancesOf(c, n),
             NEW p \in ToSet(configs[n].instances[k].parts)
      PROVE  /\ p.value[2] = "network" =>
                   /\ p.value[3] \in Facts[c].networks
                   /\ p.var.key \in Facts[c].networks => p.value[3] = p.var.key
             /\ p.value[2] = "port" => p.value[3] \in ToSet(OpenPorts(c))
  <2> DEFINE inst == configs[n].instances[k]
  <2>1. k \in DOMAIN configs[n].instances /\ <<c, "image">> \in inst.tags
    BY <1>3 DEF InstancesOf
  <2>2. PICK j \in DOMAIN inst.parts : p = inst.parts[j]
    BY DEF ToSet
  <2>3. p.value = ValueOf(c, p.var) /\ p.value # Nowhere
    BY <1>3, <2>1, <2>2 DEF BoxInv, ByOwner
  <2> QED BY <1>3, <2>3, OwnValue
<1>4. ASSUME NEW c \in Boxes, There(c), ~MixedUp(c, n)
      PROVE  /\ Due(c, n) = DueOf(c, n, AsWritten(c))
             /\ \A k \in InstancesOf(c, n) : FilledFrom(c, n, AsWritten(c), configs[n].instances[k].parts)
  <2> DEFINE T == TemplatesOf(c)
             W == AsWritten(c)
             P == {q \in DOMAIN T : T[q].check = n}
  <2>1. DOMAIN W = DOMAIN T /\ \A p \in DOMAIN T : W[p].check = T[p].check /\ (T[p].check = n => W[p] = T[p])
    BY <1>4, CacheKeepsWritten
  <2> HIDE DEF T, W
  <2>2. {q \in DOMAIN W : W[q].check = n} = P /\ \A p \in P : W[p] = T[p]
    BY <2>1
  <2> HIDE DEF P
  <2>3. /\ DueOf(c, n, T) = UNION {{p} \X DueFrom(c, T[p]) : p \in P}
        /\ DueOf(c, n, W) = UNION {{p} \X DueFrom(c, W[p]) : p \in P}
    BY <2>2 DEF DueOf, P
  <2>4. DueOf(c, n, W) = DueOf(c, n, T)
    BY <2>2, <2>3
  <2>5. \A d \in DueOf(c, n, T) : W[d[1]] = T[d[1]]
    BY <2>2, <2>3
  <2>6. ASSUME NEW k \in InstancesOf(c, n) PROVE FilledFrom(c, n, W, configs[n].instances[k].parts)
    <3>1. FilledFrom(c, n, T, configs[n].instances[k].parts)
      BY <1>4, <2>6 DEF BoxInv, AsDue, IsDue, T
    <3>2. PICK d \in DueOf(c, n, T) : VarsOf(configs[n].instances[k].parts) = VarsOf(T[d[1]].instances[d[2]])
      BY <3>1 DEF FilledFrom
    <3>3. d \in DueOf(c, n, W) /\ VarsOf(configs[n].instances[k].parts) = VarsOf(W[d[1]].instances[d[2]])
      BY <2>4, <2>5, <3>2
    <3> QED BY <3>3 DEF FilledFrom
  <2> QED BY <2>4, <2>6 DEF Due, T, W
<1> QED BY <1>1, <1>2, <1>3, <1>4

LEMMA BoxInitially == ConfigsInit => BoxInv
<1> SUFFICES ASSUME ConfigsInit PROVE BoxInv
  OBVIOUS
<1>1. \A n \in ConfigNames : configs[n].instances = <<>> /\ DOMAIN configs[n].instances = 1..0
  BY DEF ConfigsInit, NoConfig
<1>2. BoxesType
  <2>1. \A n \in ConfigNames : configs[n].instances = [i \in 1..0 |-> configs[n].instances[i]]
    BY <1>1
  <2>2. \A n \in ConfigNames : \E k \in Nat : DOMAIN configs[n].instances = 1..k
                                            /\ configs[n].instances = [i \in 1..k |-> configs[n].instances[i]]
    BY <1>1, <2>1
  <2> QED BY <2>2 DEF BoxesType, ConfigsInit, StoredAtFirst
<1>3. ByOwner
  BY <1>1 DEF ByOwner
<1>4. AllGiven
  BY DEF AllGiven, ConfigsInit
<1>5. AsDue
  BY <1>1 DEF AsDue, InstancesOf
<1> QED BY <1>2, <1>3, <1>4, <1>5 DEF BoxInv

\* Two sequences one after the other.
LEMMA Joined ==
    ASSUME NEW m \in Nat, NEW k \in Nat, NEW s, NEW t,
           s = [i \in 1..m |-> s[i]], t = [i \in 1..k |-> t[i]]
    PROVE  /\ DOMAIN (s \o t) = 1..(m + k)
           /\ s \o t = [i \in 1..(m + k) |-> (s \o t)[i]]
           /\ \A i \in 1..m : (s \o t)[i] = s[i]
           /\ \A i \in 1..k : (s \o t)[m + i] = t[i]
<1> DEFINE S == {s[i] : i \in 1..m} \cup {t[i] : i \in 1..k}
<1>1. s \in [1..m -> S] /\ t \in [1..k -> S]
  OBVIOUS
<1> HIDE DEF S
<1>2. s \in Seq(S) /\ t \in Seq(S) /\ Len(s) = m /\ Len(t) = k
  BY <1>1
<1> QED BY SMTT(30), <1>2

\* The instances of a container when another list comes after them.
LEMMA IndicesShifted ==
    ASSUME NEW m \in Nat, NEW k \in Nat, NEW J, J = {m + i : i \in 1..k}
    PROVE  IsFiniteSet(J) /\ Cardinality(J) = k
<1>1. J = (m + 1)..(m + k)
  <2>1. ASSUME NEW j \in (m + 1)..(m + k) PROVE j \in J
    <3>1. j - m \in 1..k /\ j = m + (j - m)
      OBVIOUS
    <3> QED BY <3>1
  <2> QED BY <2>1
<1>2. /\ IsFiniteSet((m + 1)..(m + k))
      /\ Cardinality((m + 1)..(m + k)) = IF m + 1 <= m + k THEN (m + k) - (m + 1) + 1 ELSE 0
  <2>1. m + 1 \in Int /\ m + k \in Int
    OBVIOUS
  <2> DEFINE a == m + 1
             b == m + k
  <2> HIDE DEF a, b
  <2>2. IsFiniteSet(a..b) /\ Cardinality(a..b) = IF a <= b THEN b - a + 1 ELSE 0
    BY <2>1, FS_Interval DEF a, b
  <2> QED BY <2>2 DEF a, b
<1>3. (IF m + 1 <= m + k THEN (m + k) - (m + 1) + 1 ELSE 0) = k
  OBVIOUS
<1>4. Cardinality(J) = IF m + 1 <= m + k THEN (m + k) - (m + 1) + 1 ELSE 0
  BY <1>1, <1>2, Zenon
<1>5. IsFiniteSet(J)
  BY <1>1, <1>2
<1> QED BY <1>3, <1>4, <1>5

LEMMA ConfigureKeeps ==
    ASSUME BoxInv, NEW c \in Boxes, ConfigureBox(c), ~Raises(c)
    PROVE  BoxInv'
<1>1. /\ c \in toConfigure /\ toConfigure' = toConfigure \ {c}
      /\ configs' = [n \in ConfigNames |-> Merged(c, n)] /\ cachedTpls' = cachedTpls
      /\ inspected' = inspected \cup {[box |-> c, there |-> There(c)]}
      /\ setting' = setting /\ alive' = alive /\ podsRead' = podsRead
  BY DEF ConfigureBox, CacheAfter, AfterCopy
<1>2. BoxesType /\ ByOwner /\ AllGiven /\ AsDue
  BY DEF BoxInv
<1>3. /\ cachedTpls = StoredAtFirst
      /\ \A i \in inspected : i.box # c /\ i.box \in Boxes
  BY <1>1, <1>2 DEF BoxesType
<1>4. \A d : There(d)' <=> There(d)
  BY <1>1 DEF There
<1>5. ASSUME NEW n \in ConfigNames
      PROVE  \E m \in Nat : LET k == IF TemplatesFor(c, n) = {} THEN 0 ELSE Cardinality(Due(c, n))
                                old == configs[n].instances
                                all == configs'[n].instances
                                new == InstancesFor(c, n)
                            IN  /\ k \in Nat /\ k = Cardinality(Due(c, n)) /\ DOMAIN old = 1..m
                                /\ DOMAIN all = 1..(m + k) /\ all = [i \in 1..(m + k) |-> all[i]]
                                /\ \A i \in 1..m : all[i] = old[i]
                                /\ \A i \in 1..k : /\ all[m + i].tags = BoxTags(c)
                                                    /\ \A j \in DOMAIN all[m + i].parts :
                                                          /\ all[m + i].parts[j].value = ValueOf(c, all[m + i].parts[j].var)
                                                          /\ all[m + i].parts[j].value # Nowhere
                                /\ \A i \in 1..k : IsDue(c, n, all[m + i].parts)
  <2> DEFINE k == Cardinality(Due(c, n))
             old == configs[n].instances
             new == InstancesFor(c, n)
  <2>1. PICK m \in Nat : DOMAIN old = 1..m /\ old = [i \in 1..m |-> old[i]]
    BY <1>2 DEF BoxesType
  <2>2. /\ k \in Nat /\ new = [i \in 1..k |-> new[i]]
        /\ \A i \in 1..k :
              /\ new[i].tags = BoxTags(c)
              /\ \A j \in DOMAIN new[i].parts :
                    /\ new[i].parts[j].value = ValueOf(c, new[i].parts[j].var)
                    /\ new[i].parts[j].value # Nowhere
        /\ \A i \in 1..k : IsDue(c, n, new[i].parts)
    BY <1>3, GivenInstances
  <2>3. configs'[n] = Merged(c, n)
    BY <1>1
  <2>4. CASE TemplatesFor(c, n) = {}
    <3>1. configs'[n].instances = old
      BY <2>3, <2>4 DEF Merged
    <3>2. Due(c, n) = {}
      BY <2>4 DEF Due, DueOf, TemplatesFor
    <3>3. Cardinality(Due(c, n)) = 0
      BY <3>2, FS_EmptySet
    <3> HIDE DEF k, old, new
    <3>4. m + 0 = m /\ 1..0 = {}
      BY <2>1
    <3> QED BY <2>1, <2>4, <3>1, <3>3, <3>4 DEF old
  <2>5. CASE TemplatesFor(c, n) # {}
    <3>1. configs'[n].instances = old \o new
      BY <2>3, <2>5 DEF Merged
    <3> HIDE DEF k, old, new
    <3>2. /\ DOMAIN (old \o new) = 1..(m + k)
          /\ old \o new = [i \in 1..(m + k) |-> (old \o new)[i]]
          /\ \A i \in 1..m : (old \o new)[i] = old[i]
          /\ \A i \in 1..k : (old \o new)[m + i] = new[i]
      BY SMTT(30), <2>1, <2>2, Joined
    <3> DEFINE all == old \o new
    <3>3. \A i \in 1..k :
          /\ all[m + i].tags = BoxTags(c)
          /\ \A j \in DOMAIN all[m + i].parts :
                /\ all[m + i].parts[j].value = ValueOf(c, all[m + i].parts[j].var)
                /\ all[m + i].parts[j].value # Nowhere
          /\ IsDue(c, n, all[m + i].parts)
      BY <2>2, <3>2
    <3> HIDE DEF all
    <3>4. configs'[n].instances = all /\ DOMAIN all = 1..(m + k) /\ all = [i \in 1..(m + k) |-> all[i]]
          /\ \A i \in 1..m : all[i] = old[i]
      BY <3>1, <3>2 DEF all
    <3> QED BY <2>1, <2>2, <2>5, <3>3, <3>4 DEF k, old
  <2> QED BY <2>4, <2>5
<1>6. ASSUME NEW n \in ConfigNames
      PROVE  \E m \in Nat, k \in Nat :
                LET old == configs[n].instances
                    all == configs'[n].instances
                IN  /\ k = Cardinality(Due(c, n)) /\ DOMAIN old = 1..m
                    /\ DOMAIN all = 1..(m + k) /\ all = [i \in 1..(m + k) |-> all[i]]
                    /\ \A i \in 1..m : all[i] = old[i]
                    /\ \A i \in 1..k : /\ all[m + i].tags = BoxTags(c)
                                        /\ \A j \in DOMAIN all[m + i].parts :
                                              /\ all[m + i].parts[j].value = ValueOf(c, all[m + i].parts[j].var)
                                              /\ all[m + i].parts[j].value # Nowhere
                    /\ \A i \in 1..k : IsDue(c, n, all[m + i].parts)
  BY <1>5, Zenon
<1>7. BoxesType'
  <2>1. \A n \in ConfigNames : \E k \in Nat : DOMAIN configs'[n].instances = 1..k
                                            /\ configs'[n].instances = [i \in 1..k |-> configs'[n].instances[i]]
    <3> SUFFICES ASSUME NEW n \in ConfigNames
                 PROVE  \E k \in Nat : DOMAIN configs'[n].instances = 1..k
                                       /\ configs'[n].instances = [i \in 1..k |-> configs'[n].instances[i]]
      OBVIOUS
    <3>1. PICK m \in Nat, k \in Nat : /\ DOMAIN configs'[n].instances = 1..(m + k)
                                      /\ configs'[n].instances = [i \in 1..(m + k) |-> configs'[n].instances[i]]
      BY <1>6
    <3>2. m + k \in Nat
      OBVIOUS
    <3> QED BY <3>1, <3>2
  <2>2. DOMAIN configs' = ConfigNames
    BY <1>1
  <2>3. inspected' \subseteq [box : Boxes, there : BOOLEAN] /\ \A i \in inspected' : i.box \notin toConfigure'
    <3>1. PICK b \in BOOLEAN : b <=> There(c)
      OBVIOUS
    <3>2. inspected' \subseteq inspected \cup {[box |-> c, there |-> TRUE], [box |-> c, there |-> FALSE]}
      BY <1>1 DEF There
    <3>4. inspected \subseteq [box : Boxes, there : BOOLEAN]
      BY <1>2 DEF BoxesType
    <3>3. \A i \in inspected' : i \in [box : Boxes, there : BOOLEAN] /\ (i \in inspected \/ i.box = c)
      <4> SUFFICES ASSUME NEW i \in inspected'
                   PROVE  i \in [box : Boxes, there : BOOLEAN] /\ (i \in inspected \/ i.box = c)
        OBVIOUS
      <4>1. CASE i \in inspected
        BY <3>4, <4>1
      <4>2. CASE i = [box |-> c, there |-> TRUE]
        BY <4>2
      <4>3. CASE i = [box |-> c, there |-> FALSE]
        BY <4>3
      <4>4. i \in inspected \/ i = [box |-> c, there |-> TRUE] \/ i = [box |-> c, there |-> FALSE]
        BY <3>2
      <4> QED BY <4>1, <4>2, <4>3, <4>4
    <3> QED BY <1>1, <1>2, <3>3 DEF BoxesType
  <2> QED BY <1>1, <1>2, <2>1, <2>2, <2>3 DEF BoxesType
<1>8. \A d, v : There(d)' => ValueOf(d, v)' = ValueOf(d, v)
  BY <1>1, <1>4, SameValue
<1>9. ASSUME NEW n \in ConfigNames, NEW x \in DOMAIN configs'[n].instances, NEW d \in Boxes,
             NEW inst, inst = configs'[n].instances[x], <<d, "image">> \in inst.tags
      PROVE  /\ [box |-> d, there |-> TRUE] \in inspected'
             /\ \A i \in DOMAIN inst.parts :
                   /\ Head(inst.parts[i].value) = d
                   /\ There(d) => inst.parts[i].value = ValueOf(d, inst.parts[i].var) /\ inst.parts[i].value # Nowhere
  <2>1. PICK m \in Nat, k \in Nat :
          /\ DOMAIN configs[n].instances = 1..m /\ DOMAIN configs'[n].instances = 1..(m + k)
          /\ \A i \in 1..m : configs'[n].instances[i] = configs[n].instances[i]
          /\ \A i \in 1..k :
                /\ configs'[n].instances[m + i].tags = BoxTags(c)
                /\ \A j \in DOMAIN configs'[n].instances[m + i].parts :
                      /\ configs'[n].instances[m + i].parts[j].value
                            = ValueOf(c, configs'[n].instances[m + i].parts[j].var)
                      /\ configs'[n].instances[m + i].parts[j].value # Nowhere
    BY <1>6
  <2>2. CASE x \in 1..m
    <3>1. x \in DOMAIN configs[n].instances /\ configs[n].instances[x] = inst
      BY <1>9, <2>1, <2>2
    <3>2. [box |-> d, there |-> TRUE] \in inspected
      BY <1>2, <1>9, <3>1 DEF ByOwner
    <3>3. \A i \in DOMAIN inst.parts :
             /\ Head(inst.parts[i].value) = d
             /\ There(d) => inst.parts[i].value = ValueOf(d, inst.parts[i].var) /\ inst.parts[i].value # Nowhere
      <4>1. /\ configs[n].instances[x] = inst /\ x \in DOMAIN configs[n].instances
            /\ <<d, "image">> \in configs[n].instances[x].tags
        BY <1>9, <3>1
      <4>2. \A i \in DOMAIN configs[n].instances[x].parts :
               /\ Head(configs[n].instances[x].parts[i].value) = d
               /\ There(d) => /\ configs[n].instances[x].parts[i].value
                                     = ValueOf(d, configs[n].instances[x].parts[i].var)
                              /\ configs[n].instances[x].parts[i].value # Nowhere
        BY <1>2, <4>1, Zenon DEF ByOwner
      <4> QED BY <4>1, <4>2
    <3> QED BY <1>1, <3>2, <3>3
  <2>3. CASE x \notin 1..m
    <3>1. x - m \in 1..k /\ x = m + (x - m)
      BY <2>1, <2>3, <1>9
    <3>2. /\ inst.tags = BoxTags(c)
          /\ \A j \in DOMAIN inst.parts : inst.parts[j].value = ValueOf(c, inst.parts[j].var)
                                           /\ inst.parts[j].value # Nowhere
      BY ZenonT(30), <1>9, <2>1, <3>1
    <3>3. d = c /\ There(c)
      BY <1>9, <3>2, ImageTag
    <3>4. \A j \in DOMAIN inst.parts : Head(inst.parts[j].value) = c
      BY <3>2, <3>3, OwnValue
    <3>5. [box |-> c, there |-> TRUE] \in inspected'
      BY <1>1, <3>3
    <3> QED BY <3>2, <3>3, <3>4, <3>5
  <2> QED BY <2>2, <2>3
<1>10. ByOwner'
  <2>1. ASSUME NEW n \in ConfigNames, NEW x \in DOMAIN configs'[n].instances, NEW d \in Boxes,
               <<d, "image">> \in configs'[n].instances[x].tags
        PROVE  /\ [box |-> d, there |-> TRUE] \in inspected'
               /\ \A i \in DOMAIN configs'[n].instances[x].parts :
                     /\ Head(configs'[n].instances[x].parts[i].value) = d
                     /\ There(d)' => /\ configs'[n].instances[x].parts[i].value
                                           = (ValueOf(d, configs[n].instances[x].parts[i].var))'
                                     /\ configs'[n].instances[x].parts[i].value # Nowhere
    <3>1. PICK inst : inst = configs'[n].instances[x]
      OBVIOUS
    <3>2. /\ [box |-> d, there |-> TRUE] \in inspected'
          /\ \A i \in DOMAIN inst.parts :
                /\ Head(inst.parts[i].value) = d
                /\ There(d) => inst.parts[i].value = ValueOf(d, inst.parts[i].var) /\ inst.parts[i].value # Nowhere
      BY <1>9, <2>1, <3>1
    <3>3. ASSUME NEW i \in DOMAIN inst.parts, There(d)'
          PROVE  (ValueOf(d, configs[n].instances[x].parts[i].var))' = ValueOf(d, inst.parts[i].var)
      <4>1. PICK v : v = inst.parts[i].var
        OBVIOUS
      <4>2. (configs[n].instances[x].parts[i].var)' = v
        BY <3>1, <4>1
      <4>3. ValueOf(d, v)' = ValueOf(d, v)
        BY <1>8, <3>3
      <4> QED BY <4>1, <4>2, <4>3
    <3> QED BY <1>4, <3>1, <3>2, <3>3
  <2> QED BY <2>1 DEF ByOwner
<1>11. ASSUME NEW n \in ConfigNames, NEW d \in Boxes, There(d)', d # c
       PROVE  InstancesOf(d, n)' = InstancesOf(d, n) /\ Due(d, n)' = Due(d, n)
  <2>1. PICK m \in Nat, k \in Nat :
          /\ DOMAIN configs[n].instances = 1..m /\ DOMAIN configs'[n].instances = 1..(m + k)
          /\ \A i \in 1..m : configs'[n].instances[i] = configs[n].instances[i]
          /\ \A i \in 1..k : configs'[n].instances[m + i].tags = BoxTags(c)
    BY <1>6
  <2>2. ASSUME NEW j \in 1..(m + k), j \notin 1..m PROVE <<d, "image">> \notin configs'[n].instances[j].tags
    <3>1. j - m \in 1..k /\ j = m + (j - m)
      BY <2>2
    <3>2. configs'[n].instances[j].tags = BoxTags(c)
      BY <2>1, <3>1
    <3> QED BY <1>11, <3>2, ImageTag
  <2>3. 1..m \subseteq 1..(m + k)
    OBVIOUS
  <2>4. InstancesOf(d, n)' = {j \in 1..(m + k) : <<d, "image">> \in configs'[n].instances[j].tags}
    BY <2>1 DEF InstancesOf
  <2>5. InstancesOf(d, n) = {j \in 1..m : <<d, "image">> \in configs[n].instances[j].tags}
    BY <2>1 DEF InstancesOf
  <2>6. InstancesOf(d, n)' = InstancesOf(d, n)
    BY <2>1, <2>2, <2>3, <2>4, <2>5
  <2>7. Due(d, n)' = Due(d, n)
    BY <1>1, <1>4, <1>11, SameDue
  <2> QED BY <2>6, <2>7
<1>12. ASSUME NEW n \in ConfigNames, There(c)'
       PROVE  Cardinality(InstancesOf(c, n)') = Cardinality(Due(c, n)')
  <2>1. PICK m \in Nat, k \in Nat :
          /\ k = Cardinality(Due(c, n))
          /\ DOMAIN configs[n].instances = 1..m /\ DOMAIN configs'[n].instances = 1..(m + k)
          /\ \A i \in 1..m : configs'[n].instances[i] = configs[n].instances[i]
          /\ \A i \in 1..k : configs'[n].instances[m + i].tags = BoxTags(c)
    BY <1>6
  <2>2. \A j \in 1..m : <<c, "image">> \notin configs'[n].instances[j].tags
    <3>1. \A j \in 1..m : <<c, "image">> \notin configs[n].instances[j].tags
      <4> SUFFICES ASSUME NEW j \in 1..m, <<c, "image">> \in configs[n].instances[j].tags PROVE FALSE
        OBVIOUS
      <4>1. [box |-> c, there |-> TRUE] \in inspected
        BY <1>2, <2>1 DEF ByOwner
      <4> QED BY <1>3, <4>1
    <3> QED BY <2>1, <3>1
  <2>3. \A i \in 1..k : <<c, "image">> \in configs'[n].instances[m + i].tags
    BY <1>4, <1>12, <2>1, ImageTag
  <2>4. InstancesOf(c, n)' = {j \in 1..(m + k) : <<c, "image">> \in configs'[n].instances[j].tags}
    BY <2>1 DEF InstancesOf
  <2> DEFINE J == {m + i : i \in 1..k}
  <2>5. InstancesOf(c, n)' = J
    <3>1. ASSUME NEW j \in 1..(m + k), j \notin 1..m PROVE j \in J
      <4>1. j - m \in 1..k /\ j = m + (j - m)
        BY <3>1
      <4> QED BY <4>1
    <3>2. \A i \in 1..k : m + i \in 1..(m + k)
      OBVIOUS
    <3> QED BY <2>2, <2>3, <2>4, <3>1, <3>2
  <2> HIDE DEF J
  <2>6. Cardinality(J) = k
    BY IndicesShifted DEF J
  <2>7. Due(c, n)' = Due(c, n)
    BY <1>1, <1>4, <1>12, SameDue
  <2> QED BY <2>1, <2>5, <2>6, <2>7
<1>13. AllGiven'
  <2>1. ASSUME NEW n \in ConfigNames, NEW i \in inspected', i.there, There(i.box)'
        PROVE  Cardinality(InstancesOf(i.box, n)') = Cardinality(Due(i.box, n)')
    <3>1. CASE i \in inspected
      <4>1. i.box # c /\ i.box \in Boxes
        BY <1>3, <3>1
      <4>2. Cardinality(InstancesOf(i.box, n)) = Cardinality(Due(i.box, n))
        BY <1>2, <1>4, <2>1, <3>1 DEF AllGiven
      <4> QED BY <1>11, <2>1, <4>1, <4>2
    <3>2. CASE i \notin inspected
      <4>1. i.box = c
        BY <1>1, <3>2
      <4> QED BY <1>12, <2>1, <4>1
    <3> QED BY <3>1, <3>2
  <2> QED BY <2>1 DEF AllGiven
<1>14. ASSUME NEW n \in ConfigNames, NEW d \in Boxes, There(d)', NEW x \in InstancesOf(d, n)',
              NEW part, part = configs'[n].instances[x].parts
       PROVE  IsDue(d, n, part)'
  <2>1. PICK m \in Nat, k \in Nat :
          /\ DOMAIN configs[n].instances = 1..m /\ DOMAIN configs'[n].instances = 1..(m + k)
          /\ \A i \in 1..m : configs'[n].instances[i] = configs[n].instances[i]
          /\ \A i \in 1..k : /\ configs'[n].instances[m + i].tags = BoxTags(c)
                              /\ IsDue(c, n, configs'[n].instances[m + i].parts)
    BY <1>6
  <2>2. x \in 1..(m + k) /\ <<d, "image">> \in configs'[n].instances[x].tags
    BY <1>14, <2>1 DEF InstancesOf
  <2>3. There(d) /\ (IsDue(d, n, part)' <=> IsDue(d, n, part))
    BY <1>1, <1>4, <1>14, SameDue
  <2>4. CASE x \in 1..m
    <3>1. x \in InstancesOf(d, n) /\ part = configs[n].instances[x].parts
      BY <1>14, <2>1, <2>2, <2>4 DEF InstancesOf
    <3>2. IsDue(d, n, part)
      BY <1>2, <2>3, <3>1 DEF AsDue
    <3> QED BY <2>3, <3>2
  <2>5. CASE x \notin 1..m
    <3>1. x - m \in 1..k /\ x = m + (x - m)
      BY <2>2, <2>5
    <3>2. configs'[n].instances[x].tags = BoxTags(c) /\ IsDue(c, n, part)
      BY ZenonT(30), <1>14, <2>1, <3>1
    <3>3. d = c
      BY <2>2, <3>2, ImageTag
    <3> QED BY <2>3, <3>2, <3>3
  <2> QED BY <2>4, <2>5
<1>15. AsDue'
  BY <1>14 DEF AsDue
<1> QED BY <1>7, <1>10, <1>13, <1>15 DEF BoxInv

\* Nothing is added to what was found.
LEMMA NothingGiven ==
    ASSUME BoxInv, configs' = configs, inspected' = inspected, cachedTpls' = cachedTpls,
           setting' = setting, podsRead' = podsRead, alive' \subseteq alive, toConfigure' \subseteq toConfigure
    PROVE  BoxInv'
<1>1. BoxesType /\ ByOwner /\ AllGiven /\ AsDue
  BY DEF BoxInv
<1>2. \A d : There(d)' => There(d)
  BY DEF There
<1>3. BoxesType'
  BY <1>1 DEF BoxesType
<1>4. ByOwner'
  <2>1. ASSUME NEW n \in ConfigNames, NEW x \in DOMAIN configs'[n].instances, NEW d \in Boxes,
               <<d, "image">> \in configs'[n].instances[x].tags
        PROVE  /\ [box |-> d, there |-> TRUE] \in inspected'
               /\ \A i \in DOMAIN configs'[n].instances[x].parts :
                     /\ Head(configs'[n].instances[x].parts[i].value) = d
                     /\ There(d)' => /\ configs'[n].instances[x].parts[i].value
                                           = (ValueOf(d, configs[n].instances[x].parts[i].var))'
                                     /\ configs'[n].instances[x].parts[i].value # Nowhere
    <3>1. PICK inst : inst = configs[n].instances[x] /\ inst = configs'[n].instances[x]
      OBVIOUS
    <3>2. /\ [box |-> d, there |-> TRUE] \in inspected
          /\ \A i \in DOMAIN configs[n].instances[x].parts :
                /\ Head(configs[n].instances[x].parts[i].value) = d
                /\ There(d) => /\ configs[n].instances[x].parts[i].value
                                      = ValueOf(d, configs[n].instances[x].parts[i].var)
                               /\ configs[n].instances[x].parts[i].value # Nowhere
      BY <1>1, <2>1 DEF ByOwner
    <3>3. ASSUME NEW i \in DOMAIN inst.parts, There(d)'
          PROVE  (ValueOf(d, configs[n].instances[x].parts[i].var))' = ValueOf(d, inst.parts[i].var)
      <4>1. PICK v : v = inst.parts[i].var
        OBVIOUS
      <4>2. (configs[n].instances[x].parts[i].var)' = v
        BY <3>1, <4>1
      <4>3. ValueOf(d, v)' = ValueOf(d, v)
        BY <1>2, <3>3, SameValue
      <4> QED BY <4>1, <4>2, <4>3
    <3> QED BY <1>2, <3>1, <3>2, <3>3
  <2> QED BY <2>1 DEF ByOwner
<1>5. AllGiven'
  <2>1. ASSUME NEW n \in ConfigNames, NEW i \in inspected', i.there, There(i.box)'
        PROVE  Cardinality(InstancesOf(i.box, n)') = Cardinality(Due(i.box, n)')
    <3>1. There(i.box)
      BY <1>2, <2>1
    <3>2. Cardinality(InstancesOf(i.box, n)) = Cardinality(Due(i.box, n))
      BY <1>1, <2>1, <3>1 DEF AllGiven
    <3>3. InstancesOf(i.box, n)' = InstancesOf(i.box, n)
      BY DEF InstancesOf
    <3>4. Due(i.box, n)' = Due(i.box, n)
      BY <2>1, <3>1, SameDue
    <3> QED BY <3>2, <3>3, <3>4
  <2> QED BY <2>1 DEF AllGiven
<1>6. AsDue'
  <2>1. ASSUME NEW n \in ConfigNames, NEW c \in Boxes, There(c)', NEW k \in InstancesOf(c, n)',
               NEW part, part = configs'[n].instances[k].parts
        PROVE  IsDue(c, n, part)'
    <3>1. There(c)
      BY <1>2, <2>1
    <3>2. k \in InstancesOf(c, n) /\ part = configs[n].instances[k].parts
      BY <2>1 DEF InstancesOf
    <3>3. IsDue(c, n, part)
      BY <1>1, <3>1, <3>2 DEF AsDue
    <3> QED BY <2>1, <3>1, <3>3, SameDue
  <2> QED BY <2>1 DEF AsDue
<1> QED BY <1>3, <1>4, <1>5, <1>6 DEF BoxInv

LEMMA BeginKeeps ==
    ASSUME BoxInv, BeginPass
    PROVE  BoxInv'
<1>1. /\ configs' = [n \in ConfigNames |-> NoConfig] /\ inspected' = {} /\ toConfigure' = alive
      /\ alive' = alive /\ cachedTpls' = cachedTpls /\ BoxesType
  BY DEF BeginPass, BoxInv
<1>2. \A n \in ConfigNames : configs'[n].instances = <<>> /\ DOMAIN configs'[n].instances = 1..0
                             /\ configs'[n].instances = [i \in 1..0 |-> configs'[n].instances[i]]
  BY <1>1 DEF NoConfig
<1>3. BoxesType'
  <2>1. \A n \in ConfigNames : \E k \in Nat : DOMAIN configs'[n].instances = 1..k
                                            /\ configs'[n].instances = [i \in 1..k |-> configs'[n].instances[i]]
    BY <1>2
  <2> QED BY <1>1, <2>1 DEF BoxesType
<1>4. ByOwner'
  BY <1>2 DEF ByOwner
<1>5. AllGiven'
  BY <1>1 DEF AllGiven
<1>6. AsDue'
  BY <1>2 DEF AsDue, InstancesOf
<1> QED BY <1>3, <1>4, <1>5, <1>6 DEF BoxInv

LEMMA BoxStep == BoxInv /\ [ConfigsNext]_configVars => BoxInv'
<1> SUFFICES ASSUME BoxInv, [ConfigsNext]_configVars PROVE BoxInv'
  OBVIOUS
<1>1. CASE BeginPass
  BY <1>1, BeginKeeps
<1>2. ASSUME NEW c \in Boxes, ConfigureBox(c) PROVE BoxInv'
  <2>1. CASE Raises(c)
    BY <1>2, <2>1, NothingGiven DEF ConfigureBox
  <2>2. CASE ~Raises(c)
    BY <1>2, <2>2, ConfigureKeeps
  <2> QED BY <2>1, <2>2
<1>3. ASSUME NEW c \in Boxes, StopBox(c) PROVE BoxInv'
  BY <1>3, NothingGiven DEF StopBox
<1>4. ASSUME NEW n \in ConfigNames, RemoveAutoFile(n) PROVE BoxInv'
  BY <1>4, NothingGiven DEF RemoveAutoFile
<1>5. CASE UNCHANGED configVars
  BY <1>5, NothingGiven DEF configVars
<1> QED BY <1>1, <1>2, <1>3, <1>4, <1>5 DEF ConfigsNext

\* What one container gives to a check depends on no other one: each instance has the
\* values of the container whose tags it has, an address and ports that are its own, and
\* none is lost or added (SDDockerBackend.get_configs), whatever the containers, their
\* templates and the order in which they are inspected and stop. They are the instances
\* that were written for the check, but for those that the cache of a store mixes up.
THEOREM ConfigsCorrect == ConfigsSpec => []OwnConfigs
<1>1. ConfigsSpec => []BoxInv
  BY BoxInitially, BoxStep, PTL DEF ConfigsSpec
<1> QED BY <1>1, BoxInvOwn, PTL

-----------------------------------------------------------------------------
(* Prometheus                                                                *)

-----------------------------------------------------------------------------
(* The types of the variables                                                *)

Mapped == MappedNames \ IgnoredNames
Pairs == Families \X SampleSuffixes

PromType ==
    /\ exposed \in Expositions
    /\ promPc \in {"poll", "lines", "families", "done", "raised"}
    /\ parsed \in Nat
    /\ DOMAIN messages = Pairs
    /\ promPc \in {"lines", "families", "done"} =>
          /\ parsed <= Len(exposed)
          /\ \A m \in Families, suffix \in SampleSuffixes :
                messages[<<m, suffix>>] = {i \in 1..parsed : IsSample(exposed, i, m, suffix)}
    /\ promPc \in {"families", "done"} => parsed = Len(exposed)
    /\ promPc = "done" => pending = {}

\* The families that the lines are put together to, and those of them that are submitted.
Found == {m \in Families : TypeOf(m) # "none" /\ HasSamples(m)}
Done == {m \in (Found \ pending) \cap Mapped : TypeOf(m) \in MetricTypes}

\* What was submitted is that of the mapped families which were processed.
Gathered ==
    /\ promPc = "lines" => gauges = {}
    /\ promPc \in {"families", "done"} =>
          /\ pending \subseteq Found
          /\ gauges = UNION {Submitted(m) : m \in Done}

PromInv == PromType /\ Gathered

LEMMA ExposedFacts ==
    ASSUME NEW e \in Expositions
    PROVE  /\ Len(e) \in Nat /\ DOMAIN e = 1..Len(e)
           /\ \A i \in DOMAIN e :
                \/ e[i].what = "type" /\ e[i].name \in Families
                \/ e[i].what = "sample" /\ e[i].name \in Families /\ e[i].suffix \in SampleSuffixes
                \/ e[i].what = "other"
           /\ \A i, j \in DOMAIN e : \A m \in Families, suffix \in SampleSuffixes :
                (/\ IsSample(e, i, m, suffix) /\ IsSample(e, j, m, suffix)
                 /\ e[i].labels = e[j].labels /\ e[i].bound = e[j].bound /\ e[i].bound # "none")
                => i = j
  BY PromAssumption

-----------------------------------------------------------------------------
(* The samples of a family and their gauges                                  *)

\* When the lines are read, the samples of a family are those that are exposed.
LEMMA ReadWhole ==
    ASSUME PromType, promPc \in {"families", "done"}, NEW m \in Families, NEW suffix \in SampleSuffixes
    PROVE  messages[<<m, suffix>>] = ExposedSamples(m, suffix)
<1>1. DOMAIN exposed = 1..parsed
  BY ExposedFacts DEF PromType
<1> QED BY <1>1 DEF PromType, ExposedSamples

SuffixOf(m) == IF TypeOf(m) = "histogram" THEN "bucket" ELSE ""
PartOf(m) == IF TypeOf(m) = "histogram" THEN "count" ELSE "quantile"

LEMMA SamplesExposed ==
    ASSUME PromType, promPc \in {"families", "done"}, NEW m \in Families
    PROVE  SamplesOf(m) = ExposedSamples(m, SuffixOf(m)) /\ SamplesOf(m) \in SUBSET Int /\ IsFiniteSet(SamplesOf(m))
<1>1. SuffixOf(m) \in SampleSuffixes
  BY DEF SuffixOf, SampleSuffixes
<1>2. SamplesOf(m) = messages[<<m, SuffixOf(m)>>]
  BY DEF SamplesOf, SuffixOf
<1>3. SamplesOf(m) = ExposedSamples(m, SuffixOf(m))
  BY <1>1, <1>2, ReadWhole
<1>4. Len(exposed) \in Nat /\ DOMAIN exposed = 1..Len(exposed)
  BY ExposedFacts DEF PromType
<1>5. IsFiniteSet(1..Len(exposed))
  BY <1>4, FS_Interval
<1>6. SamplesOf(m) \subseteq 1..Len(exposed)
  BY <1>3, <1>4 DEF ExposedSamples
<1> QED BY <1>3, <1>4, <1>5, <1>6, FS_Subset

\* The gauges of a group of a family that is grouped.
LEMMA GroupedGauges ==
    ASSUME NEW m, Grouped(m), NEW i, NEW g
    PROVE  g \in GroupGauges(m, i) <=>
             \/ \E total \in {"count", "sum"} :
                   g = Gauge(m, i, total, exposed[i].labels, "none", TotalOf(m, total, exposed[i].labels))
             \/ \E j \in Members(m, i) :
                   /\ exposed[j].bound # "none" /\ (TypeOf(m) = "summary" \/ SendBuckets)
                   /\ g = Gauge(m, j, PartOf(m), exposed[i].labels, exposed[j].bound, exposed[j].value)
<1>1. TypeOf(m) \in {"summary", "histogram"}
  BY DEF Grouped
<1>2. (IF TypeOf(m) = "summary" THEN "quantile" ELSE "count") = PartOf(m)
  BY <1>1 DEF PartOf
<1>3. GroupGauges(m, i) =
         {Gauge(m, i, total, exposed[i].labels, "none", TotalOf(m, total, exposed[i].labels)) : total \in {"count", "sum"}}
         \cup {Gauge(m, j, IF TypeOf(m) = "summary" THEN "quantile" ELSE "count",
                     exposed[i].labels, exposed[j].bound, exposed[j].value) :
                 j \in {j \in Members(m, i) : /\ exposed[j].bound # "none"
                                              /\ TypeOf(m) = "summary" \/ SendBuckets}}
  BY <1>1 DEF GroupGauges
<1> QED BY <1>2, <1>3, Zenon

\* Each sample is in the group of one that starts it, and two that start one have
\* other labels.
LEMMA GroupStart ==
    ASSUME NEW m, Grouped(m), SamplesOf(m) \in SUBSET Int, IsFiniteSet(SamplesOf(m)), NEW i \in SamplesOf(m)
    PROVE  /\ \E f \in Starts(m) : GroupOf(f) = GroupOf(i)
           /\ \A f, h \in Starts(m) : GroupOf(f) = GroupOf(h) => f = h
<1> DEFINE S == {j \in SamplesOf(m) : GroupOf(j) = GroupOf(i)}
<1>1. S \in SUBSET Int /\ i \in S /\ IsFiniteSet(S)
  BY FS_Subset
<1> HIDE DEF S
<1>2. PICK f \in S : \A j \in S : f <= j
  BY <1>1, HasEnds
<1>3. f \in Starts(m) /\ GroupOf(f) = GroupOf(i)
  BY <1>1, <1>2 DEF S, Starts
<1>4. ASSUME NEW p \in Starts(m), NEW q \in Starts(m), GroupOf(p) = GroupOf(q)
      PROVE  p = q
  <2>1. /\ p \in SamplesOf(m) /\ q \in SamplesOf(m) /\ ~(p < q) /\ ~(q < p)
    BY <1>4 DEF Starts
  <2> QED BY <2>1
<1> QED BY <1>3, <1>4

\* A count, or sum, that has no other beside it is that of its group.
LEMMA OnlyOne ==
    ASSUME PromType, promPc \in {"families", "done"}, NEW m \in Families,
           NEW total \in {"count", "sum"}, NEW labels, NEW k \in OnlyTotal(m, total, labels)
    PROVE  TotalOf(m, total, labels) = exposed[k].value
<1> DEFINE own == {i \in messages[<<m, total>>] : format = "text" \/ exposed[i].labels = labels}
<1>1. messages[<<m, total>>] = ExposedSamples(m, total)
  BY ReadWhole DEF SampleSuffixes
<1>2. own = {k}
  BY <1>1 DEF OnlyTotal
<1>3. k \in Int
  <2>1. k \in DOMAIN exposed /\ DOMAIN exposed = 1..Len(exposed) /\ Len(exposed) \in Nat
    BY ExposedFacts DEF OnlyTotal, ExposedSamples, PromType
  <2> QED BY <2>1
<1>4. TotalOf(m, total, labels) = IF own = {} THEN 0 ELSE exposed[Min(own)].value
  BY DEF TotalOf
<1> HIDE DEF own
<1>5. Min(own) = k
  BY <1>2, <1>3 DEF Min
<1> QED BY <1>2, <1>4, <1>5

\* What is submitted for a family that is grouped: one count and one sum for each group,
\* and each sample that has a bound.
LEMMA SubmittedWhole ==
    ASSUME PromType, promPc \in {"families", "done"}, NEW m \in Families, Grouped(m),
           NEW i \in ExposedSamples(m, SuffixOf(m)),
           Submitted(m) \subseteq gauges, \A g \in gauges : g.name = m => g \in Submitted(m)
    PROVE  /\ \A total \in {"count", "sum"} :
                 \E g : /\ GaugesOf(m, total, exposed[i].labels, "none") = {g}
                        /\ g.value = TotalOf(m, total, exposed[i].labels)
           /\ exposed[i].bound # "none" /\ (PartOf(m) = "quantile" \/ SendBuckets) =>
                 \E g \in GaugesOf(m, PartOf(m), exposed[i].labels, exposed[i].bound) :
                     /\ g.value = exposed[i].value
                     /\ GaugesOf(m, PartOf(m), exposed[i].labels, exposed[i].bound) = {g}
<1> DEFINE s == exposed[i]
           Found4(part, bound) ==
               {g \in gauges : g.name = m /\ g.part = part /\ g.labels = s.labels /\ g.bound = bound}
<1>1. /\ SamplesOf(m) = ExposedSamples(m, SuffixOf(m)) /\ SamplesOf(m) \in SUBSET Int
      /\ IsFiniteSet(SamplesOf(m)) /\ i \in SamplesOf(m)
  BY SamplesExposed
<1>2. PICK f \in Starts(m) : GroupOf(f) = GroupOf(i)
  BY <1>1, GroupStart
<1>3. \A h \in Starts(m) : GroupOf(f) = GroupOf(h) => f = h
  BY <1>1, GroupStart
<1>4. exposed[f].labels = s.labels
  BY <1>2 DEF GroupOf, ByLabels
<1>5. ASSUME NEW h \in Starts(m), exposed[h].labels = s.labels PROVE h = f
  BY <1>2, <1>3, <1>5 DEF GroupOf, ByLabels
<1>6. ASSUME NEW g \in gauges, g.name = m
      PROVE  \E h \in Starts(m) : g \in GroupGauges(m, h)
  BY <1>6 DEF Submitted
<1>7. \A h \in Starts(m) : GroupGauges(m, h) \subseteq gauges
  BY DEF Submitted
<1>8. ASSUME NEW total \in {"count", "sum"}
      PROVE  \E g : Found4(total, "none") = {g} /\ g.value = TotalOf(m, total, s.labels)
  <2> DEFINE t == Gauge(m, f, total, s.labels, "none", TotalOf(m, total, s.labels))
  <2>1. t \in GroupGauges(m, f)
    BY <1>4, GroupedGauges
  <2>2. t \in Found4(total, "none") /\ t.value = TotalOf(m, total, s.labels)
    BY <1>7, <2>1 DEF Gauge
  <2>3. ASSUME NEW g \in Found4(total, "none") PROVE g = t
    <3>1. PICK h \in Starts(m) : g \in GroupGauges(m, h)
      BY <1>6
    <3>2. CASE \E j \in Members(m, h) :
                 /\ exposed[j].bound # "none" /\ (TypeOf(m) = "summary" \/ SendBuckets)
                 /\ g = Gauge(m, j, PartOf(m), exposed[h].labels, exposed[j].bound, exposed[j].value)
      BY <3>2 DEF Gauge
    <3>3. CASE \E other \in {"count", "sum"} :
                 g = Gauge(m, h, other, exposed[h].labels, "none", TotalOf(m, other, exposed[h].labels))
      <4>1. PICK other \in {"count", "sum"} :
              g = Gauge(m, h, other, exposed[h].labels, "none", TotalOf(m, other, exposed[h].labels))
        BY <3>3
      <4>2. g.part = other /\ g.labels = exposed[h].labels
        BY <4>1 DEF Gauge
      <4>3. other = total /\ h = f
        BY <1>5, <2>3, <4>2
      <4> QED BY <1>4, <4>1, <4>3
    <3> QED BY <3>1, <3>2, <3>3, GroupedGauges
  <2> HIDE DEF Found4, t
  <2>4. Found4(total, "none") = {t}
    BY <2>2, <2>3
  <2> QED BY <2>2, <2>4
<1>9. ASSUME s.bound # "none", PartOf(m) = "quantile" \/ SendBuckets
      PROVE  \E g \in Found4(PartOf(m), s.bound) : g.value = s.value /\ Found4(PartOf(m), s.bound) = {g}
  <2> DEFINE t == Gauge(m, i, PartOf(m), s.labels, s.bound, s.value)
  <2>1. TypeOf(m) = "summary" \/ SendBuckets
    BY <1>9 DEF PartOf, Grouped
  <2>2. i \in Members(m, f)
    BY <1>1, <1>2 DEF Members
  <2>3. t \in GroupGauges(m, f)
    BY <1>4, <1>9, <2>1, <2>2, GroupedGauges
  <2>4. t \in Found4(PartOf(m), s.bound) /\ t.value = s.value
    BY <1>7, <2>3 DEF Gauge
  <2>5. ASSUME NEW g \in Found4(PartOf(m), s.bound) PROVE g = t
    <3>1. PICK h \in Starts(m) : g \in GroupGauges(m, h)
      BY <1>6
    <3>2. CASE \E j \in Members(m, h) :
                 /\ exposed[j].bound # "none" /\ (TypeOf(m) = "summary" \/ SendBuckets)
                 /\ g = Gauge(m, j, PartOf(m), exposed[h].labels, exposed[j].bound, exposed[j].value)
      <4>1. PICK j \in Members(m, h) :
              g = Gauge(m, j, PartOf(m), exposed[h].labels, exposed[j].bound, exposed[j].value)
        BY <3>2
      <4>2. g.labels = exposed[h].labels /\ g.bound = exposed[j].bound
        BY <4>1 DEF Gauge
      <4>3. j \in SamplesOf(m) /\ exposed[j].labels = s.labels /\ exposed[j].bound = s.bound
        BY <2>5, <4>2 DEF Members, GroupOf, ByLabels
      <4>4. j = i
        <5>1. SuffixOf(m) \in SampleSuffixes /\ exposed \in Expositions
          BY DEF SuffixOf, SampleSuffixes, PromType
        <5>2. /\ i \in DOMAIN exposed /\ j \in DOMAIN exposed
              /\ IsSample(exposed, i, m, SuffixOf(m)) /\ IsSample(exposed, j, m, SuffixOf(m))
          BY <1>1, <4>3 DEF ExposedSamples
        <5> QED BY <1>9, <4>3, <5>1, <5>2, ExposedFacts
      <4> QED BY <2>5, <4>1, <4>2, <4>4
    <3>3. CASE \E other \in {"count", "sum"} :
                 g = Gauge(m, h, other, exposed[h].labels, "none", TotalOf(m, other, exposed[h].labels))
      BY <1>9, <2>5, <3>3 DEF Gauge
    <3> QED BY <3>1, <3>2, <3>3, GroupedGauges
  <2> HIDE DEF Found4, t
  <2>6. Found4(PartOf(m), s.bound) = {t}
    BY <2>4, <2>5
  <2> QED BY <2>4, <2>6
<1>10. \A part, bound : GaugesOf(m, part, s.labels, bound) = Found4(part, bound)
  BY DEF GaugesOf
<1> HIDE DEF Found4
<1> QED BY <1>8, <1>9, <1>10

-----------------------------------------------------------------------------
(* The steps                                                                 *)

LEMMA NamedAfter ==
    ASSUME NEW m, NEW i, NEW g \in GroupGauges(m, i)
    PROVE  g.name = m
<1>1. CASE TypeOf(m) \in {"counter", "gauge"}
  <2>1. GroupGauges(m, i) = {Gauge(m, i, "", exposed[i].labels, "none", exposed[i].value)}
    BY <1>1 DEF GroupGauges
  <2>2. g = Gauge(m, i, "", exposed[i].labels, "none", exposed[i].value)
    BY <2>1
  <2> QED BY <2>2 DEF Gauge
<1>2. CASE TypeOf(m) = "untyped"
  <2>1. GroupGauges(m, i) = {Gauge(m, i, "", exposed[i].labels, "none", IF format = "text" THEN 0 ELSE exposed[i].value)}
    BY <1>2 DEF GroupGauges
  <2>2. PICK value : g = Gauge(m, i, "", exposed[i].labels, "none", value)
    BY <2>1
  <2> QED BY <2>2 DEF Gauge
<1>3. CASE TypeOf(m) \notin {"counter", "gauge", "untyped"}
  <2> DEFINE A == {Gauge(m, i, total, exposed[i].labels, "none", TotalOf(m, total, exposed[i].labels)) :
                     total \in {"count", "sum"}}
             B == {Gauge(m, j, IF TypeOf(m) = "summary" THEN "quantile" ELSE "count",
                         exposed[i].labels, exposed[j].bound, exposed[j].value) :
                     j \in {j \in Members(m, i) : /\ exposed[j].bound # "none"
                                                  /\ TypeOf(m) = "summary" \/ SendBuckets}}
  <2>1. GroupGauges(m, i) = A \cup B
    BY <1>3 DEF GroupGauges
  <2>2. (\A x \in A : x.name = m) /\ (\A x \in B : x.name = m)
    BY DEF Gauge
  <2> QED BY <2>1, <2>2
<1> QED BY <1>1, <1>2, <1>3

LEMMA PromInvWhole == PromInv => FamiliesWhole
<1> SUFFICES ASSUME PromInv, promPc = "done", NEW m \in Mapped, Grouped(m), HasSamples(m),
                    NEW i \in ExposedSamples(m, SuffixOf(m))
             PROVE  LET s == exposed[i]
                    IN  /\ Cardinality(GaugesOf(m, "count", s.labels, "none")) = 1
                        /\ Cardinality(GaugesOf(m, "sum", s.labels, "none")) = 1
                        /\ \A total \in {"count", "sum"} : \A k \in OnlyTotal(m, total, s.labels) :
                              \A g \in GaugesOf(m, total, s.labels, "none") : g.value = exposed[k].value
                        /\ s.bound # "none" /\ (PartOf(m) = "quantile" \/ SendBuckets) =>
                             \E g \in GaugesOf(m, PartOf(m), s.labels, s.bound) :
                                 /\ g.value = s.value
                                 /\ GaugesOf(m, PartOf(m), s.labels, s.bound) = {g}
  BY DEF FamiliesWhole, Mapped, SuffixOf, PartOf
<1>1. PromType /\ Gathered /\ pending = {} /\ m \in Families
  BY PromAssumption DEF PromInv, PromType, Mapped
<1>2. TypeOf(m) \in MetricTypes /\ TypeOf(m) # "none"
  BY DEF Grouped, MetricTypes
<1>3. m \in Done
  BY <1>1, <1>2 DEF Done, Found
<1>4. gauges = UNION {Submitted(x) : x \in Done}
  BY <1>1 DEF Gathered
<1>5. Submitted(m) \subseteq gauges
  BY <1>3, <1>4
<1>6. ASSUME NEW g \in gauges, g.name = m PROVE g \in Submitted(m)
  <2>1. PICK x \in Done : g \in Submitted(x)
    BY <1>4, <1>6
  <2>2. PICK h \in Starts(x) : g \in GroupGauges(x, h)
    BY <2>1 DEF Submitted
  <2>3. g.name = x
    BY <2>2, NamedAfter
  <2> QED BY <1>6, <2>1, <2>3
<1>8. /\ \A total \in {"count", "sum"} :
            \E g : /\ GaugesOf(m, total, exposed[i].labels, "none") = {g}
                   /\ g.value = TotalOf(m, total, exposed[i].labels)
      /\ exposed[i].bound # "none" /\ (PartOf(m) = "quantile" \/ SendBuckets) =>
             \E g \in GaugesOf(m, PartOf(m), exposed[i].labels, exposed[i].bound) :
                /\ g.value = exposed[i].value
                /\ GaugesOf(m, PartOf(m), exposed[i].labels, exposed[i].bound) = {g}
  <2>2. \A g \in gauges : g.name = m => g \in Submitted(m)
    BY <1>6
  <2>3. promPc \in {"families", "done"}
    OBVIOUS
  <2>4. PromType /\ m \in Families
    BY <1>1
  <2> QED BY <1>5, <2>2, <2>3, <2>4, SubmittedWhole
<1>9. ASSUME NEW total \in {"count", "sum"}
      PROVE  Cardinality(GaugesOf(m, total, exposed[i].labels, "none")) = 1
  <2>1. PICK g : GaugesOf(m, total, exposed[i].labels, "none") = {g}
    BY <1>8
  <2> QED BY <2>1, FS_Singleton
<1>10. ASSUME NEW total \in {"count", "sum"}, NEW k \in OnlyTotal(m, total, exposed[i].labels),
              NEW g \in GaugesOf(m, total, exposed[i].labels, "none")
       PROVE  g.value = exposed[k].value
  <2>1. PICK t : /\ GaugesOf(m, total, exposed[i].labels, "none") = {t}
                 /\ t.value = TotalOf(m, total, exposed[i].labels)
    BY <1>8
  <2>2. g = t
    BY <1>10, <2>1
  <2>3. TotalOf(m, total, exposed[i].labels) = exposed[k].value
    BY <1>1, <1>10, OnlyOne
  <2> QED BY <2>1, <2>2, <2>3
<1> QED BY <1>8, <1>9, <1>10

LEMMA PromInitially == PromInit => PromInv
  BY DEF PromInit, PromInv, PromType, Gathered, NoMessages, Pairs

LEMMA PollKeeps ==
    ASSUME PromInv, Poll
    PROVE  PromInv'
<1>1. /\ promPc' \in {"lines", "raised"} /\ parsed' = 0 /\ messages' = NoMessages /\ gauges' = {}
      /\ exposed' = exposed /\ exposed \in Expositions
  BY DEF Poll, PromInv, PromType
<1>2. DOMAIN messages' = Pairs
  BY <1>1 DEF NoMessages, Pairs
<1>3. \A m \in Families, suffix \in SampleSuffixes : messages'[<<m, suffix>>] = {}
  BY <1>1 DEF NoMessages
<1>4. \A m, suffix : {i \in 1..parsed' : IsSample(exposed', i, m, suffix)} = {}
  BY <1>1
<1>5. parsed' <= Len(exposed') /\ parsed' \in Nat
  BY <1>1, ExposedFacts
<1>6. PromType'
  BY <1>1, <1>2, <1>3, <1>4, <1>5 DEF PromType
<1>7. Gathered'
  BY <1>1 DEF Gathered
<1> QED BY <1>6, <1>7 DEF PromInv

LEMMA ParseKeeps ==
    ASSUME PromInv, ParseLine
    PROVE  PromInv'
<1> DEFINE line == exposed[parsed + 1]
<1>1. /\ promPc = "lines" /\ promPc' = "lines" /\ parsed < Len(exposed) /\ parsed' = parsed + 1
      /\ messages' = IF line.what = "sample"
                     THEN [messages EXCEPT ![<<line.name, line.suffix>>] = @ \cup {parsed + 1}]
                     ELSE messages
      /\ exposed' = exposed /\ gauges' = gauges
  BY DEF ParseLine
<1>2. PromType /\ Gathered
  BY DEF PromInv
<1>3. Len(exposed) \in Nat /\ DOMAIN exposed = 1..Len(exposed) /\ exposed \in Expositions
  BY <1>2, ExposedFacts DEF PromType
<1>4. parsed \in Nat /\ parsed + 1 \in DOMAIN exposed /\ parsed' <= Len(exposed)
  BY <1>1, <1>2, <1>3 DEF PromType
<1>5. line.what = "sample" => line.name \in Families /\ line.suffix \in SampleSuffixes
  BY <1>3, <1>4, ExposedFacts
<1>6. ASSUME NEW m \in Families, NEW suffix \in SampleSuffixes
      PROVE  messages'[<<m, suffix>>] = {i \in 1..(parsed + 1) : IsSample(exposed, i, m, suffix)}
  <2>1. messages[<<m, suffix>>] = {i \in 1..parsed : IsSample(exposed, i, m, suffix)}
    BY <1>1, <1>2 DEF PromType
  <2>2. 1..(parsed + 1) = 1..parsed \cup {parsed + 1}
    BY <1>4
  <2>3. DOMAIN messages = Pairs /\ <<m, suffix>> \in Pairs
    BY <1>2 DEF PromType, Pairs
  <2>4. CASE IsSample(exposed, parsed + 1, m, suffix)
    <3>1. line.what = "sample" /\ line.name = m /\ line.suffix = suffix
      BY <2>4 DEF IsSample
    <3>2. messages'[<<m, suffix>>] = messages[<<m, suffix>>] \cup {parsed + 1}
      BY <1>1, <2>3, <3>1
    <3> QED BY <2>1, <2>2, <2>4, <3>2
  <2>5. CASE ~IsSample(exposed, parsed + 1, m, suffix)
    <3>1. messages'[<<m, suffix>>] = messages[<<m, suffix>>]
      BY <1>1, <2>3, <2>5 DEF IsSample
    <3> QED BY <2>1, <2>2, <2>5, <3>1
  <2> QED BY <2>4, <2>5
<1>7. DOMAIN messages' = Pairs
  BY <1>1, <1>2 DEF PromType
<1>8. PromType'
  BY <1>1, <1>3, <1>4, <1>6, <1>7 DEF PromType
<1>9. Gathered'
  BY <1>1, <1>2 DEF Gathered
<1> QED BY <1>8, <1>9 DEF PromInv

\* The families and their gauges stay what they are while these do.
LEMMA SameFamilies ==
    ASSUME exposed' = exposed, messages' = messages, objMap' = objMap, format' = format
    PROVE  /\ Found' = Found
           /\ \A m : TypeOf(m)' = TypeOf(m) /\ Submitted(m)' = Submitted(m)
<1>1. \A m : TypeOf(m)' = TypeOf(m)
  BY DEF TypeOf, ValidOverride
<1>2. \A m : HasSamples(m)' = HasSamples(m)
  BY <1>1 DEF HasSamples
<1>3. \A m : SamplesOf(m)' = SamplesOf(m) /\ Grouped(m)' = Grouped(m)
  BY <1>1 DEF SamplesOf, Grouped
<1>4. \A i : GroupOf(i)' = GroupOf(i)
  BY DEF GroupOf, ByLabels
<1>5. \A m : Starts(m)' = Starts(m)
  BY <1>3, <1>4 DEF Starts
<1>6. \A m, i : Members(m, i)' = Members(m, i)
  BY <1>3, <1>4 DEF Members
<1>7. \A m, total, labels : TotalOf(m, total, labels)' = TotalOf(m, total, labels)
  BY DEF TotalOf
<1>8. \A m, i : GroupGauges(m, i)' = GroupGauges(m, i)
  <2> SUFFICES ASSUME NEW m, NEW i PROVE GroupGauges(m, i)' = GroupGauges(m, i)
    OBVIOUS
  <2> DEFINE A == {Gauge(m, i, total, exposed[i].labels, "none", TotalOf(m, total, exposed[i].labels)) :
                     total \in {"count", "sum"}}
             B == {Gauge(m, j, IF TypeOf(m) = "summary" THEN "quantile" ELSE "count",
                         exposed[i].labels, exposed[j].bound, exposed[j].value) :
                     j \in {j \in Members(m, i) : /\ exposed[j].bound # "none"
                                                  /\ TypeOf(m) = "summary" \/ SendBuckets}}
             C == {Gauge(m, i, "", exposed[i].labels, "none", exposed[i].value)}
             D == {Gauge(m, i, "", exposed[i].labels, "none", IF format = "text" THEN 0 ELSE exposed[i].value)}
  <2>1. A' = A
    <3>1. \A total : (TotalOf(m, total, exposed[i].labels))' = TotalOf(m, total, exposed[i].labels)
      BY <1>7 DEF TotalOf
    <3> QED BY <3>1 DEF Gauge
  <2>2. B' = B
    BY <1>1, <1>6 DEF Gauge
  <2>3. C' = C /\ D' = D
    BY DEF Gauge
  <2>4. GroupGauges(m, i) = CASE TypeOf(m) \in {"counter", "gauge"} -> C [] TypeOf(m) = "untyped" -> D [] OTHER -> A \cup B
    BY DEF GroupGauges
  <2>5. GroupGauges(m, i)'
          = CASE TypeOf(m)' \in {"counter", "gauge"} -> C' [] TypeOf(m)' = "untyped" -> D' [] OTHER -> A' \cup B'
    BY DEF GroupGauges
  <2> HIDE DEF A, B, C, D
  <2> QED BY <1>1, <2>1, <2>2, <2>3, <2>4, <2>5
<1>9. \A m : Submitted(m)' = Submitted(m)
  BY <1>5, <1>8 DEF Submitted
<1>10. Found' = Found
  BY <1>1, <1>2 DEF Found
<1> QED BY <1>1, <1>9, <1>10

LEMMA LinesDoneKeeps ==
    ASSUME PromInv, LinesDone
    PROVE  PromInv'
<1>1. /\ promPc = "lines" /\ promPc' = "families" /\ parsed = Len(exposed) /\ pending' = Found
      /\ UNCHANGED <<exposed, format, parsed, messages, objMap, gauges>>
  BY DEF LinesDone, Found
<1>2. PromType /\ Gathered
  BY DEF PromInv
<1>3. PromType'
  BY <1>1, <1>2 DEF PromType
<1>4. Found' = Found
  BY <1>1, SameFamilies
<1>5. Done' = {}
  BY <1>1, <1>4 DEF Done
<1>6. gauges' = {}
  BY <1>1, <1>2 DEF Gathered
<1>7. gauges' = UNION {(Submitted(m))' : m \in Done'}
  BY <1>5, <1>6
<1>8. Gathered'
  BY <1>1, <1>4, <1>7 DEF Gathered
<1> QED BY <1>3, <1>8 DEF PromInv

LEMMA ProcessKeeps ==
    ASSUME PromInv, NEW m \in Families, Process(m)
    PROVE  PromInv'
<1>1. /\ promPc = "families" /\ m \in pending /\ pending' = pending \ {m}
      /\ UNCHANGED <<exposed, format, parsed, messages, objMap>>
  BY DEF Process
<1>2. PromType /\ Gathered
  BY DEF PromInv
<1>3. Found' = Found /\ \A x : TypeOf(x)' = TypeOf(x) /\ Submitted(x)' = Submitted(x)
  BY <1>1, SameFamilies
<1>4. CASE promPc' = "raised"
  BY <1>1, <1>2, <1>4 DEF PromInv, PromType, Gathered
<1>5. CASE promPc' # "raised"
  <2>1. promPc' = "families"
    BY <1>1, <1>5 DEF Process
  <2>2. gauges' = IF m \in Mapped /\ TypeOf(m) \in MetricTypes THEN gauges \cup Submitted(m) ELSE gauges
    BY <1>5 DEF Process, Mapped
  <2>3. PromType'
    BY <1>1, <1>2, <2>1 DEF PromType
  <2>4. m \in Found
    BY <1>1, <1>2 DEF Gathered
  <2>5. Done' = IF m \in Mapped /\ TypeOf(m) \in MetricTypes THEN Done \cup {m} ELSE Done
    BY <1>1, <1>3, <2>4 DEF Done
  <2>6. gauges = UNION {Submitted(x) : x \in Done}
    BY <1>1, <1>2 DEF Gathered
  <2>7. gauges' = UNION {Submitted(x) : x \in Done'}
    BY <2>2, <2>5, <2>6
  <2>8. gauges' = UNION {(Submitted(x))' : x \in Done'}
    BY <1>3, <2>7
  <2>9. pending' \subseteq Found'
    BY <1>1, <1>2, <1>3 DEF Gathered
  <2>10. Gathered'
    BY <2>1, <2>8, <2>9 DEF Gathered
  <2> QED BY <2>3, <2>10 DEF PromInv
<1> QED BY <1>4, <1>5

LEMMA RestKeeps ==
    ASSUME PromInv, AllProcessed1 \/ NextRun \/ UNCHANGED promVars
    PROVE  PromInv'
<1>1. PromType /\ Gathered
  BY DEF PromInv
<1>2. CASE NextRun
  BY <1>1, <1>2 DEF NextRun, PromInv, PromType, Gathered
<1>3. CASE AllProcessed1 \/ UNCHANGED promVars
  <2>1. /\ UNCHANGED <<exposed, format, parsed, messages, objMap, pending, gauges>>
        /\ promPc' = promPc \/ (promPc = "families" /\ pending = {} /\ promPc' = "done")
    BY <1>3 DEF AllProcessed1, promVars
  <2>2. Found' = Found /\ \A x : TypeOf(x)' = TypeOf(x) /\ Submitted(x)' = Submitted(x)
    BY <2>1, SameFamilies
  <2>3. PromType'
    BY <1>1, <2>1 DEF PromType
  <2>4. Done' = Done
    BY <2>1, <2>2 DEF Done
  <2>5. {(Submitted(x))' : x \in Done'} = {Submitted(x) : x \in Done}
    BY <2>2, <2>4
  <2>6. Gathered'
    BY <1>1, <2>1, <2>2, <2>5 DEF Gathered
  <2> QED BY <2>3, <2>6 DEF PromInv
<1> QED BY <1>2, <1>3

\* Whatever an endpoint exposes, in whatever order, and however often it is polled: a
\* poll that ends well has submitted each bucket and quantile of a mapped family once,
\* and one count and one sum for each group, of the value that is exposed for it if there
\* is one only (PrometheusCheck.process).
THEOREM FamiliesCorrect == PromSpec => []FamiliesWhole
<1>1. PromInv /\ [PromNext]_promVars => PromInv'
  BY PollKeeps, ParseKeeps, LinesDoneKeeps, ProcessKeeps, RestKeeps DEF PromNext
<1>2. PromSpec => []PromInv
  BY <1>1, PromInitially, PTL DEF PromSpec
<1> QED BY <1>2, PromInvWhole, PTL
=============================================================================
