---- MODULE UcmdbDump ----
(***************************************************************************)
(* What is made of a dump of UCMDB (utils/ucmdb): snapshots and increments *)
(* are put together into components and relations, which are then labelled *)
(* by connected group and by the trees they are in.                        *)
(***************************************************************************)
EXTENDS Naturals, Sequences, FiniteSets, SequencesExt

CONSTANTS
    ComponentIds,   \* ucmdb_ids of components
    RelationIds,    \* ucmdb_ids of relations
    ExcludedIds,    \* the components whose type is one of excluded_types
    NameLabels,     \* component_name_to_label, by component; "none" for most
    TreeLabels,     \* tree_parent_to_label, by component; "none" for most
    MinGroupSize,   \* label_min_group_size
    Dumps           \* dumps: what the files say, and the ends of the relations

NoEnd == "none"
Operations == {"add", "update", "delete", "unknown"}

ASSUME UcmdbAssumption ==
    /\ IsFiniteSet(ComponentIds) /\ IsFiniteSet(RelationIds) /\ ExcludedIds \subseteq ComponentIds
    /\ NoEnd \notin ComponentIds /\ MinGroupSize \in Nat
    /\ \A d \in Dumps :
          /\ IsFiniteSet(d.files)
          /\ \A r \in RelationIds : d.ends[r].source \in ComponentIds \union {NoEnd}
          /\ \A r \in RelationIds : d.ends[r].target \in ComponentIds \union {NoEnd}
          /\ \A f \in d.files :
                /\ f.kind \in {"full", "increment"} /\ f.date \in Nat
                /\ \A e \in DOMAIN f.says : f.says[e] \in Operations
          \* Files with the same date come in any order, and are left out here.
          /\ \A f, g \in d.files : f.kind = g.kind /\ f.date = g.date => f = g

VARIABLES
    dump,
    todoFiles,      \* files that are not loaded yet
    dumpPc,         \* "load", "unite", "label", "roots", "tree", "done" or "raised"
    components,     \* UcmdbFileDump.components, by id
    relations,      \* UcmdbFileDump.relations, by id
    excludedSeen,   \* excluded_component_ids
    unionfind,      \* the block of each component
    toUnite,        \* relations that _union_groups() has not looked at
    groupLabel,     \* data['label.connected_group']
    roots,          \* roots whose tree is not labelled yet
    root, queue, visited,
    treeLabels      \* labels of trees, per component

ucmdbVars == <<dump, todoFiles, dumpPc, components, relations, excludedSeen, unionfind, toUnite,
               groupLabel, roots, root, queue, visited, treeLabels>>

UcmdbInit ==
    /\ dump \in Dumps
    /\ todoFiles = dump.files /\ dumpPc = "load"
    /\ components = {} /\ relations = {} /\ excludedSeen = {}
    /\ unionfind = <<>> /\ toUnite = {} /\ groupLabel = <<>>
    /\ roots = {} /\ root = NoEnd /\ queue = <<>> /\ visited = {} /\ treeLabels = <<>>

Source(r) == dump.ends[r].source
Target(r) == dump.ends[r].target

(***************************************************************************)
(* UcmdbFileDump.load()                                                    *)
(***************************************************************************)
\* All snapshots come before all increments, whatever their dates.
Before(f, g) ==
    \/ f.kind = "full" /\ g.kind = "increment"
    \/ f.kind = g.kind /\ f.date < g.date
NextFile == CHOOSE f \in todoFiles : \A g \in todoFiles : ~Before(g, f)

\* handle_element() of the elements that are not excluded
Handled(final, f, elements) ==
    (final \union {e \in elements : f.says[e] \in {"add", "update"}})
        \ {e \in elements : f.says[e] = "delete"}

\* A relation is left out if an end is known to be excluded by then.
LoadDumpFile ==
    /\ dumpPc = "load" /\ todoFiles # {}
    /\ LET f == NextFile
           kept == (ComponentIds \intersect DOMAIN f.says) \ ExcludedIds
           links == {r \in RelationIds \intersect DOMAIN f.says :
                        {Source(r), Target(r)} \intersect excludedSeen' = {}}
       IN  /\ excludedSeen' = excludedSeen \union (ExcludedIds \intersect DOMAIN f.says)
           /\ IF \E e \in kept \union links : f.says[e] = "unknown"
              THEN dumpPc' = "raised" /\ UNCHANGED <<todoFiles, components, relations>>
              ELSE /\ components' = Handled(components, f, kept)
                   /\ relations' = Handled(relations, f, links)
                   /\ todoFiles' = todoFiles \ {f}
                   /\ UNCHANGED dumpPc
    /\ UNCHANGED <<dump, unionfind, toUnite, groupLabel, roots, root, queue, visited, treeLabels>>

(***************************************************************************)
(* UcmdbComponentGroups                                                    *)
(***************************************************************************)
StartGroups ==
    /\ dumpPc = "load" /\ todoFiles = {}
    /\ dumpPc' = "unite"
    /\ unionfind' = [c \in components |-> c]
    /\ toUnite' = relations
    /\ groupLabel' = [c \in components |-> "none"]
    /\ UNCHANGED <<dump, todoFiles, components, relations, excludedSeen, roots, root, queue, visited, treeLabels>>

Union2(uf, a, b) == [c \in DOMAIN uf |-> IF uf[c] = uf[a] THEN uf[b] ELSE uf[c]]
\* Mutant: only the component itself changes its block.
MoveOne(uf, a, b) == [c \in DOMAIN uf |-> IF c = a THEN uf[b] ELSE uf[c]]
Unite(uf, a, b) == Union2(uf, a, b)

\* An end that is not there, or not a component, unites nothing.
UniteEnds(r) ==
    /\ dumpPc = "unite" /\ r \in toUnite
    /\ toUnite' = toUnite \ {r}
    /\ unionfind' = IF {Source(r), Target(r)} \subseteq components
                    THEN Unite(unionfind, Source(r), Target(r)) ELSE unionfind
    /\ UNCHANGED <<dump, todoFiles, dumpPc, components, relations, excludedSeen, groupLabel,
                   roots, root, queue, visited, treeLabels>>

Block(c) == {d \in components : unionfind[d] = unionfind[c]}
LabelsIn(block) == {NameLabels[c] : c \in block} \ {"none"}

\* Of several labels in a group the last one is taken, in the order of a dictionary.
LabelGroups ==
    /\ dumpPc = "unite" /\ toUnite = {}
    /\ groupLabel' \in
          [components -> UNION {LabelsIn(Block(c)) : c \in components} \union {"size", "none"}]
    /\ \A c \in components :
          /\ IF LabelsIn(Block(c)) # {} THEN groupLabel'[c] \in LabelsIn(Block(c))
             ELSE groupLabel'[c] = IF Cardinality(Block(c)) >= MinGroupSize THEN "size" ELSE "none"
          /\ \A d \in Block(c) : groupLabel'[c] = groupLabel'[d]
    /\ dumpPc' = "label"
    /\ UNCHANGED <<dump, todoFiles, components, relations, excludedSeen, unionfind, toUnite,
                   roots, root, queue, visited, treeLabels>>

(***************************************************************************)
(* UcmdbComponentTrees                                                     *)
(***************************************************************************)
\* _build_graph(), _find_root_ids(): here a relation without a source raises.
StartTrees ==
    /\ dumpPc = "label"
    /\ dumpPc' = IF \E r \in relations : Source(r) = NoEnd THEN "raised" ELSE "roots"
    /\ roots' = {c \in components : TreeLabels[c] # "none"}
    /\ treeLabels' = [c \in components |-> {}]
    /\ UNCHANGED <<dump, todoFiles, components, relations, excludedSeen, unionfind, toUnite,
                   groupLabel, root, queue, visited>>

LabelFromRoot(c) ==
    /\ dumpPc = "roots" /\ c \in roots
    /\ roots' = roots \ {c} /\ root' = c
    /\ queue' = <<c>> /\ visited' = {}
    /\ dumpPc' = "tree"
    /\ UNCHANGED <<dump, todoFiles, components, relations, excludedSeen, unionfind, toUnite,
                   groupLabel, treeLabels>>

Outgoing(c) == {r \in relations : Source(r) = c}

\* _bfs(): a component may be in the queue more than once.
Dequeue ==
    /\ dumpPc = "tree" /\ queue # <<>>
    /\ LET current == Head(queue)
           next == {r \in Outgoing(current) : Target(r) \in components \ visited'}
       IN  /\ visited' = visited \union {current}
           /\ treeLabels' = [treeLabels EXCEPT ![current] = @ \union {TreeLabels[root]}]
           /\ IF \E r \in Outgoing(current) : Target(r) = NoEnd
              THEN dumpPc' = "raised" /\ queue' = Tail(queue)
              ELSE /\ queue' = Tail(queue) \o [i \in 1..Cardinality(next) |-> Target(SetToSeq(next)[i])]
                   /\ UNCHANGED dumpPc
    /\ UNCHANGED <<dump, todoFiles, components, relations, excludedSeen, unionfind, toUnite,
                   groupLabel, roots, root>>

TreeDone ==
    /\ \/ dumpPc = "tree" /\ queue = <<>> /\ dumpPc' = "roots"
       \/ dumpPc = "roots" /\ roots = {} /\ dumpPc' = "done"
    /\ UNCHANGED <<dump, todoFiles, components, relations, excludedSeen, unionfind, toUnite,
                   groupLabel, roots, root, queue, visited, treeLabels>>

UcmdbNext ==
    \/ LoadDumpFile \/ StartGroups \/ LabelGroups \/ StartTrees \/ Dequeue \/ TreeDone
    \/ \E r \in RelationIds : UniteEnds(r)
    \/ \E c \in ComponentIds : LabelFromRoot(c)

UcmdbSpec == UcmdbInit /\ [][UcmdbNext]_ucmdbVars

----
\* What the last file that mentions an element says of it.
LastSays(e) ==
    LET f == CHOOSE g \in dump.files : e \in DOMAIN g.says
                 /\ \A h \in dump.files : Before(g, h) => e \notin DOMAIN h.says
    IN  f.says[e]
Mentioned(e) == \E f \in dump.files : e \in DOMAIN f.says

\* What is reached is in every set that has the start and that no relation leaves.
Linked(c, d) == \E r \in relations : Source(r) = c /\ Target(r) = d
Downward(S) == \A c \in S, d \in components : Linked(c, d) => d \in S
BothWays(S) == \A c \in S, d \in components : Linked(c, d) \/ Linked(d, c) => d \in S
Reached(c) == {d \in components : \A S \in SUBSET components : c \in S /\ Downward(S) => d \in S}
Connected(c) == {d \in components : \A S \in SUBSET components : c \in S /\ BothWays(S) => d \in S}

\* The components are those that the last file to mention them does not delete.
LastFileWins ==
    dumpPc \notin {"load", "raised"} =>
        components = {c \in ComponentIds \ ExcludedIds : Mentioned(c) /\ LastSays(c) # "delete"}

\* Components have the same label of their group if, and only if they are connected
\* or their groups have the same one; a group with names has the label of one of them.
GroupsConnected ==
    dumpPc \in {"label", "roots", "tree", "done"} =>
        \A c \in components :
            LET group == Connected(c)
            IN  /\ \A d \in group : groupLabel[d] = groupLabel[c]
                /\ LabelsIn(group) # {} => groupLabel[c] \in LabelsIn(group)
                /\ LabelsIn(group) = {} =>
                     groupLabel[c] = IF Cardinality(group) >= MinGroupSize THEN "size" ELSE "none"

\* A component has the label of a tree if, and only if a root of the label reaches it.
TreesReached ==
    dumpPc = "done" =>
        \A c \in components :
            treeLabels[c] = {TreeLabels[d] : d \in {e \in components :
                                                      TreeLabels[e] # "none" /\ c \in Reached(e)}}

\* What a dump becomes: the last file wins, groups are connected, trees are reached.
DumpSound == LastFileWins /\ GroupsConnected /\ TreesReached
====
