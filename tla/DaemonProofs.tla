----------------------------- MODULE DaemonProofs -----------------------------
(***************************************************************************)
(* Theorems about how the agent is run.  Daemon, for any number of         *)
(* processes, commands, ends and signals: OneAgent, with the inductive     *)
(* invariant that a supervisor knows which of its children may be alive at *)
(* each step of its loop.  WinService, for any processes, settings, faults *)
(* and time: what SvcStop() leaves, and where the settings are.            *)
(***************************************************************************)
EXTENDS Daemon, WinService, FiniteSetTheorems, TLAPS

Supervising == {"reaped", "forking", "forked", "watching"}
Serving     == {"fresh", "checked", "running", "leaving"}

Process == [at : Steps, parent : Pids \cup {NoPid}, childPid : Pids \cup {NoPid}, needStop : BOOLEAN,
            told : BOOLEAN, foreground : BOOLEAN, status : {"none", "restart", "other"}]

\* Pids are given in order.
BornInOrder ==
    \A p \in Pids : /\ proc[p].at = "unborn" <=> p > lastPid
                    /\ proc[p].at = "unborn" => proc[p].parent = NoPid

\* A child is an agent, and its parent a supervisor, or was.
Families ==
    \A p \in Pids : proc[p].parent # NoPid =>
        /\ proc[p].at \in Serving \cup {"dead"}
        /\ proc[proc[p].parent].at \in Supervising \cup {"dead"}

\* Of the children of a supervisor one is alive at most.
OnlyChild ==
    \A p, q \in Pids : proc[p].parent # NoPid /\ proc[p].parent = proc[q].parent /\ Alive(p) /\ Alive(q) => p = q

\* Which that is, as the supervisor goes through its loop.
ChildKnown ==
    \A s, p \in Pids : proc[p].parent = s /\ Alive(p) =>
        /\ proc[s].at \notin {"reaped", "forking"}
        /\ proc[s].at = "forked" => \A q \in Pids : proc[q].parent = s => q <= p
        /\ proc[s].at = "watching" => p = proc[s].childPid
ChildWatched ==
    \A s \in Pids : proc[s].at = "watching" => proc[s].childPid \in Pids /\ proc[proc[s].childPid].parent = s

\* A supervisor that was told to stop does not go round its loop again.
ToldStops == \A s \in Pids : proc[s].at \in Supervising /\ proc[s].told => proc[s].at = "watching" /\ proc[s].needStop

ProcInv == BornInOrder /\ Families /\ OnlyChild /\ ChildKnown /\ ChildWatched /\ ToldStops
DaemonInv == TypeOK /\ ProcInv

-------------------------------------------------------------------------------
\* Steps in which nobody is born and no supervisor goes on in its loop, but for its end.
Quiet ==
    /\ lastPid' = lastPid
    /\ \A p \in Pids :
          /\ proc'[p].parent = proc[p].parent /\ proc'[p].childPid = proc[p].childPid
          /\ \/ proc'[p].at = proc[p].at
             \/ proc[p].at # "unborn" /\ proc'[p].at = "dead"
             \/ proc[p].at \in Serving /\ proc'[p].at \in Serving
          /\ \/ proc'[p].told = proc[p].told /\ proc'[p].needStop = proc[p].needStop
             \/ proc'[p].at \notin Supervising
             \/ proc'[p].at = "watching" /\ proc'[p].needStop

LEMMA QuietKeeps ==
    ASSUME ProcInv, TypeOK, Quiet
    PROVE  ProcInv' /\ \A s \in Pids : ChildrenOf(s)' = ChildrenOf(s)
<1> USE DEF ProcInv
<1>1. \A p \in Pids : Alive(p)' => Alive(p)
  BY DEF Quiet, Alive, Serving
<1>2. \A p \in Pids : /\ proc'[p].parent = proc[p].parent /\ proc'[p].childPid = proc[p].childPid
                      /\ proc'[p].at \in Supervising => proc'[p].at = proc[p].at
  BY DEF Quiet, Serving, Supervising
<1>3. \A p \in Pids : proc[p].parent \in Pids \cup {NoPid}
  BY DEF TypeOK
<1>4. BornInOrder'
  BY DEF BornInOrder, Quiet, Serving
<1>5. Families'
  <2> SUFFICES ASSUME NEW p \in Pids, proc'[p].parent # NoPid
               PROVE  /\ proc'[p].at \in Serving \cup {"dead"}
                      /\ proc'[proc'[p].parent].at \in Supervising \cup {"dead"}
    BY Zenon DEF Families
  <2>1. PICK s \in Pids : s = proc[p].parent /\ s = proc'[p].parent
    BY <1>2, <1>3
  <2>2. proc[p].at \in Serving \cup {"dead"} /\ proc[s].at \in Supervising \cup {"dead"}
    BY <1>2, <2>1 DEF Families
  <2>3. proc'[p].at \in Serving \cup {"dead"}
    BY <2>2 DEF Quiet, Serving
  <2>4. proc'[s].at \in Supervising \cup {"dead"}
    BY <2>2 DEF Quiet, Supervising, Serving
  <2> QED BY <2>1, <2>3, <2>4
<1>6. OnlyChild'
  BY <1>1, <1>2 DEF OnlyChild
<1>7. ChildKnown'
  <2> SUFFICES ASSUME NEW s \in Pids, NEW p \in Pids, proc'[p].parent = s, Alive(p)'
               PROVE  /\ proc'[s].at \notin {"reaped", "forking"}
                      /\ proc'[s].at = "forked" => \A q \in Pids : proc'[q].parent = s => q <= p
                      /\ proc'[s].at = "watching" => p = proc'[s].childPid
    BY DEF ChildKnown
  <2>1. Alive(p) /\ proc[p].parent = s
    BY <1>1, <1>2
  <2>2. /\ proc[s].at \notin {"reaped", "forking"}
        /\ proc[s].at = "forked" => \A q \in Pids : proc[q].parent = s => q <= p
        /\ proc[s].at = "watching" => p = proc[s].childPid
    BY <2>1 DEF ChildKnown
  <2>3. proc'[s].at \in Supervising => proc'[s].at = proc[s].at
    BY <1>2
  <2> QED BY <1>2, <2>2, <2>3 DEF Supervising
<1>8. ChildWatched'
  <2> SUFFICES ASSUME NEW s \in Pids, proc'[s].at = "watching"
               PROVE  proc'[s].childPid \in Pids /\ proc'[proc'[s].childPid].parent = s
    BY Zenon DEF ChildWatched
  <2>1. proc[s].at = "watching" /\ proc'[s].childPid = proc[s].childPid
    BY <1>2 DEF Supervising
  <2>2. PICK c \in Pids : c = proc[s].childPid /\ proc[c].parent = s
    BY <2>1 DEF ChildWatched
  <2> QED BY <1>2, <2>1, <2>2
<1>9. ToldStops'
  <2> SUFFICES ASSUME NEW s \in Pids, proc'[s].at \in Supervising, proc'[s].told
               PROVE  proc'[s].at = "watching" /\ proc'[s].needStop
    BY DEF ToldStops
  <2>1. proc'[s].at = proc[s].at
    BY <1>2
  <2> QED BY <2>1 DEF Quiet, ToldStops
<1>10. \A s \in Pids : ChildrenOf(s)' = ChildrenOf(s)
  BY <1>2 DEF ChildrenOf
<1> QED BY <1>4, <1>5, <1>6, <1>7, <1>8, <1>9, <1>10

LEMMA TypeIs ==
    ASSUME TypeOK
    PROVE  /\ proc \in [Pids -> Process] /\ lastPid \in 0..MaxPid /\ pidfile \in Pids \cup {NoPid}
           /\ ends \in 0..MaxEnds /\ terms \in 0..MaxTerms
           /\ \A p \in Pids : p \in Nat /\ p # NoPid
BY BoundsAssumption DEF TypeOK, Process, Pids, NoPid

LEMMA Changed ==
    ASSUME NEW P \in [Pids -> Process], NEW a \in Pids, NEW r \in Process
    PROVE  /\ [P EXCEPT ![a] = r] \in [Pids -> Process] /\ [P EXCEPT ![a] = r][a] = r
           /\ \A q \in Pids \ {a} : [P EXCEPT ![a] = r][q] = P[q]
OBVIOUS

\* A signal, to a process that is alive: it dies, or it is told.
LEMMA SigtermIs ==
    ASSUME ProcInv, TypeOK, NEW p \in Pids, Alive(p), proc' = Sigterm(proc, p), lastPid' = lastPid
    PROVE  Quiet /\ proc' \in [Pids -> Process]
<1>1. proc \in [Pids -> Process]
  BY TypeIs
<1>2. ASSUME NEW P \in [Pids -> Process], NEW a \in Pids
      PROVE  /\ TermAgent(P, a) \in [Pids -> Process]
             /\ \A q \in Pids \ {a} : TermAgent(P, a)[q] = P[q]
             /\ TermAgent(P, a)[a].parent = P[a].parent /\ TermAgent(P, a)[a].childPid = P[a].childPid
             /\ TermAgent(P, a)[a].at = P[a].at \/ (P[a].at \in {"fresh", "checked"} /\ TermAgent(P, a)[a].at = "dead")
  <2>1. P[a] \in Process
    OBVIOUS
  <2>2. PICK r \in Process : r = IF P[a].at \in {"fresh", "checked"}
                                 THEN [P[a] EXCEPT !.at = "dead", !.told = TRUE, !.status = "other"]
                                 ELSE [P[a] EXCEPT !.told = TRUE]
    BY <2>1 DEF Process, Steps
  <2>3. /\ r.parent = P[a].parent /\ r.childPid = P[a].childPid
        /\ r.at = P[a].at \/ (P[a].at \in {"fresh", "checked"} /\ r.at = "dead")
    BY <2>1, <2>2 DEF Process
  <2>4. TermAgent(P, a) = [P EXCEPT ![a] = r]
    BY <2>2 DEF TermAgent
  <2>5. [P EXCEPT ![a] = r] \in [Pids -> Process] /\ [P EXCEPT ![a] = r][a] = r
        /\ \A q \in Pids \ {a} : [P EXCEPT ![a] = r][q] = P[q]
    BY Changed
  <2> QED BY <2>3, <2>4, <2>5, Zenon
<1>3. CASE proc[p].at \notin Supervising
  <2>1. proc' = TermAgent(proc, p)
    BY <1>3 DEF Sigterm, Supervising
  <2>2. /\ proc' \in [Pids -> Process] /\ \A q \in Pids \ {p} : proc'[q] = proc[q]
        /\ proc'[p].parent = proc[p].parent /\ proc'[p].childPid = proc[p].childPid
        /\ proc'[p].at = proc[p].at \/ (proc[p].at \in {"fresh", "checked"} /\ proc'[p].at = "dead")
    BY <1>1, <1>2, <2>1
  <2> QED BY <1>3, <2>2 DEF Quiet, Supervising
<1>4. CASE proc[p].at \in Supervising /\ proc[p].at # "watching"
  <2>1. proc' = [proc EXCEPT ![p].at = "dead", ![p].told = TRUE]
    BY <1>4 DEF Sigterm, TermSupervisor, Supervising
  <2>2. proc' \in [Pids -> Process]
    <3>1. PICK r \in Process : r = [proc[p] EXCEPT !.at = "dead", !.told = TRUE]
      BY ZenonT(30), <1>1 DEF Process, Steps
    <3>2. proc' = [proc EXCEPT ![p] = r]
      BY <1>1, <2>1, <3>1
    <3> QED BY <1>1, <3>2, Changed
  <2>3. /\ \A q \in Pids \ {p} : proc'[q] = proc[q]
        /\ proc'[p].parent = proc[p].parent /\ proc'[p].childPid = proc[p].childPid /\ proc'[p].at = "dead"
    BY <1>1, <2>1 DEF Process
  <2> QED BY <1>4, <2>2, <2>3 DEF Quiet, Supervising
<1>5. CASE proc[p].at = "watching"
  <2>1. PICK c \in Pids : c = proc[p].childPid /\ proc[c].parent = p
    BY <1>5 DEF ProcInv, ChildWatched
  <2>2. proc[c].at \in Serving \cup {"dead"} /\ c # p
    <3>1. proc[c].parent # NoPid
      BY <2>1, TypeIs
    <3> QED BY <1>5, <3>1 DEF ProcInv, Families, Serving
  <2>3. PICK P \in [Pids -> Process] : P = TermAgent(proc, c)
    BY <1>1, <1>2
  <2>4. /\ \A q \in Pids \ {c} : P[q] = proc[q]
        /\ P[c].parent = proc[c].parent /\ P[c].childPid = proc[c].childPid
        /\ P[c].at = proc[c].at \/ (proc[c].at \in {"fresh", "checked"} /\ P[c].at = "dead")
    BY <1>1, <1>2, <2>3
  <2>5. proc' = [P EXCEPT ![p].needStop = TRUE, ![p].told = TRUE]
    BY <1>5, <2>1, <2>3 DEF Sigterm, TermSupervisor
  <2>6. proc' \in [Pids -> Process]
    <3>1. PICK r \in Process : r = [P[p] EXCEPT !.needStop = TRUE, !.told = TRUE]
      BY ZenonT(30) DEF Process, Steps
    <3>2. proc' = [P EXCEPT ![p] = r]
      BY <2>5, <3>1
    <3> QED BY <3>2, Changed
  <2>7. /\ \A q \in Pids \ {p} : proc'[q] = P[q]
        /\ proc'[p].parent = P[p].parent /\ proc'[p].childPid = P[p].childPid
        /\ proc'[p].at = P[p].at /\ proc'[p].needStop
    BY <2>5 DEF Process
  <2> QED BY <1>5, <2>2, <2>4, <2>6, <2>7 DEF Quiet, Supervising, Serving
<1> QED BY <1>3, <1>4, <1>5

-------------------------------------------------------------------------------
\* The commands and the pidfile hold pids.
CommandSteps == {"idle", "check", "launch", "read", "exists", "remove", "kill", "done"}
LEMMA CommandsTyped ==
    ASSUME TypeOK, NEW c \in Commands,
           \/ Begin(c) \/ StartCheck(c) \/ Launch(c) \/ StopRead(c) \/ StopExists(c) \/ StopRemove(c) \/ StopKill(c)
    PROVE  command' \in [Commands -> [at : CommandSteps, pid : Pids \cup {NoPid}]]
<1>1. command \in [Commands -> [at : CommandSteps, pid : Pids \cup {NoPid}]] /\ pidfile \in Pids \cup {NoPid}
  BY DEF TypeOK, CommandSteps
<1>2. ASSUME NEW to \in CommandSteps, command' = [command EXCEPT ![c].at = to]
      PROVE  command' \in [Commands -> [at : CommandSteps, pid : Pids \cup {NoPid}]]
  BY <1>1, <1>2
<1>3. CASE StopRead(c)
  BY <1>1, <1>3 DEF StopRead, CommandSteps
<1>4. CASE Begin(c)
  <2>1. PICK to \in CommandSteps : to = CASE CommandOf[c] = "foreground" -> "launch"
                                          [] CommandOf[c] = "start" -> "check"
                                          [] OTHER -> "read"
    <3>1. "launch" \in CommandSteps /\ "check" \in CommandSteps /\ "read" \in CommandSteps
      BY DEF CommandSteps
    <3> QED BY <3>1, Zenon
  <2> QED BY <1>2, <1>4, <2>1, Zenon DEF Begin, Goes
<1>5. ASSUME StartCheck(c) \/ StopExists(c) \/ StopRemove(c) \/ StopKill(c) \/ Launch(c)
      PROVE  \E to \in CommandSteps : command' = [command EXCEPT ![c].at = to]
  <2>1. /\ IF IsMyProcess(pidfile) THEN "done" \in CommandSteps ELSE "launch" \in CommandSteps
        /\ IF pidfile = NoPid THEN "kill" \in CommandSteps ELSE "remove" \in CommandSteps
        /\ IF pidfile = NoPid THEN "done" \in CommandSteps ELSE "kill" \in CommandSteps
        /\ IF CommandOf[c] = "restart" THEN "check" \in CommandSteps ELSE "done" \in CommandSteps
        /\ "done" \in CommandSteps
    BY DEF CommandSteps
  <2> QED BY <1>5, <2>1, Zenon DEF StartCheck, StopExists, StopRemove, StopKill, Launch, Goes
<1> QED BY <1>2, <1>3, <1>4, <1>5

LEMMA TypeFrom ==
    ASSUME proc' \in [Pids -> Process], pidfile' \in Pids \cup {NoPid}, lastPid' \in 0..MaxPid,
           ends' \in 0..MaxEnds, terms' \in 0..MaxTerms,
           command' \in [Commands -> [at : CommandSteps, pid : Pids \cup {NoPid}]]
    PROVE  TypeOK'
BY DEF TypeOK, Process, CommandSteps

\* One agent goes on, or ends, or a supervisor ends.
LEMMA OneGoesOn ==
    ASSUME TypeOK, NEW p \in Pids, NEW at \in Steps, NEW status \in {"none", "restart", "other"},
           \/ proc' = [proc EXCEPT ![p].at = at]
           \/ proc' = [proc EXCEPT ![p].at = at, ![p].status = status],
           lastPid' = lastPid
    PROVE  /\ proc' \in [Pids -> Process]
           /\ \A q \in Pids \ {p} : proc'[q] = proc[q]
           /\ proc'[p].at = at
           /\ UNCHANGED <<proc[p].parent, proc[p].childPid, proc[p].told, proc[p].needStop, proc[p].foreground>>
<1>1. proc \in [Pids -> Process] /\ proc[p] \in Process
  BY TypeIs
<1>2. PICK a \in Process, b \in Process : a = [proc[p] EXCEPT !.at = at] /\ b = [proc[p] EXCEPT !.at = at, !.status = status]
  <2>1. [proc[p] EXCEPT !.at = at] \in Process
    BY <1>1 DEF Process
  <2>2. [proc[p] EXCEPT !.at = at, !.status = status] \in Process
    BY <1>1 DEF Process
  <2> QED BY <2>1, <2>2, Zenon
<1>3. proc' = [proc EXCEPT ![p] = a] \/ proc' = [proc EXCEPT ![p] = b]
  BY <1>1, <1>2
<1>4. PICK r \in {a, b} : proc' = [proc EXCEPT ![p] = r]
  BY <1>3, Zenon
<1>5. /\ r.at = at /\ r.parent = proc[p].parent /\ r.childPid = proc[p].childPid /\ r.told = proc[p].told
      /\ r.needStop = proc[p].needStop /\ r.foreground = proc[p].foreground /\ r \in Process
  BY <1>1, <1>2 DEF Process
<1>6. proc' \in [Pids -> Process] /\ (\A q \in Pids \ {p} : proc'[q] = proc[q]) /\ proc'[p] = r
  BY <1>1, <1>4, <1>5, Changed
<1> QED BY <1>5, <1>6

LEMMA AgentsAreQuiet ==
    ASSUME DaemonInv, NEW p \in Pids,
           AgentStep(p) \/ DoRestart(p) \/ Crash(p) \/ Terminate(p) \/ StopSupervising(p)
    PROVE  Quiet /\ TypeOK'
<1> USE DEF DaemonInv
<1>1. \/ \E at \in Steps, status \in {"none", "restart", "other"} :
            /\ \/ proc' = [proc EXCEPT ![p].at = at]
               \/ proc' = [proc EXCEPT ![p].at = at, ![p].status = status]
            /\ \/ proc[p].at # "unborn" /\ at = "dead"
               \/ proc[p].at \in Serving /\ at \in Serving
      \/ Terminate(p)
  <2>1. {"checked", "running", "leaving", "dead"} \subseteq Steps
    BY DEF Steps
  <2>2. CASE CheckPidfile(p)
    <3>1. \/ proc' = [proc EXCEPT ![p].at = "dead", ![p].status = "other"]
          \/ proc' = [proc EXCEPT ![p].at = "checked"]
      BY <2>2, Zenon DEF CheckPidfile
    <3>2. proc[p].at # "unborn" /\ proc[p].at \in Serving /\ "checked" \in Serving
      BY <2>2 DEF CheckPidfile, Serving
    <3> QED BY <2>1, <3>1, <3>2
  <2>3. CASE WritePidfile(p)
    BY <2>1, <2>3 DEF WritePidfile, Serving
  <2>4. CASE Obey(p) \/ DoRestart(p)
    BY <2>1, <2>4 DEF Obey, DoRestart, Serving
  <2>5. CASE Crash(p) \/ Leave(p) \/ StopSupervising(p)
    <3>1. /\ proc[p].at # "unborn"
          /\ \/ proc' = [proc EXCEPT ![p].at = "dead", ![p].status = "other"]
             \/ proc' = [proc EXCEPT ![p].at = "dead"]
      BY <2>5 DEF Crash, Leave, StopSupervising, IsAgent
    <3> QED BY <2>1, <3>1
  <2> QED BY <2>2, <2>3, <2>4, <2>5 DEF AgentStep
<1>2. /\ lastPid' = lastPid /\ command' = command /\ pidfile' \in Pids \cup {NoPid}
      /\ ends' \in 0..MaxEnds /\ terms' \in 0..MaxTerms
  <2>1. lastPid' = lastPid /\ command' = command
    BY DEF AgentStep, CheckPidfile, WritePidfile, Obey, Leave, DoRestart, Crash, Terminate, StopSupervising
  <2>2. pidfile' = pidfile \/ pidfile' = p \/ pidfile' = NoPid
    BY DEF AgentStep, CheckPidfile, WritePidfile, Obey, Leave, DoRestart, Crash, Terminate, StopSupervising, Delpid
  <2>3. ends' = ends \/ (ends < MaxEnds /\ ends' = ends + 1)
    BY DEF AgentStep, CheckPidfile, WritePidfile, Obey, Leave, DoRestart, Crash, Terminate, StopSupervising
  <2>4. terms' = terms \/ (terms < MaxTerms /\ terms' = terms + 1)
    BY DEF AgentStep, CheckPidfile, WritePidfile, Obey, Leave, DoRestart, Crash, Terminate, StopSupervising
  <2> QED BY <2>1, <2>2, <2>3, <2>4, TypeIs, BoundsAssumption
<1>3. Quiet /\ proc' \in [Pids -> Process]
  <2>1. CASE Terminate(p)
    BY <1>2, <2>1, SigtermIs DEF Terminate
  <2>2. ASSUME NEW at \in Steps, NEW status \in {"none", "restart", "other"},
               \/ proc' = [proc EXCEPT ![p].at = at]
               \/ proc' = [proc EXCEPT ![p].at = at, ![p].status = status],
               \/ proc[p].at # "unborn" /\ at = "dead"
               \/ proc[p].at \in Serving /\ at \in Serving
        PROVE  Quiet /\ proc' \in [Pids -> Process]
    BY <1>2, <2>2, OneGoesOn DEF Quiet
  <2> QED BY <1>1, <2>1, <2>2
<1>4. command' \in [Commands -> [at : CommandSteps, pid : Pids \cup {NoPid}]] /\ lastPid' \in 0..MaxPid
  BY <1>2 DEF TypeOK, CommandSteps
<1> QED BY <1>2, <1>3, <1>4, TypeFrom

LEMMA CommandsAreQuiet ==
    ASSUME DaemonInv, NEW c \in Commands,
           Begin(c) \/ StartCheck(c) \/ StopRead(c) \/ StopExists(c) \/ StopRemove(c) \/ StopKill(c)
    PROVE  Quiet /\ TypeOK'
<1> USE DEF DaemonInv
<1>1. command' \in [Commands -> [at : CommandSteps, pid : Pids \cup {NoPid}]]
  BY CommandsTyped
<1>2. /\ lastPid' = lastPid /\ ends' = ends /\ terms' = terms /\ (pidfile' = pidfile \/ pidfile' = NoPid)
  BY DEF Begin, StartCheck, StopRead, StopExists, StopRemove, StopKill
<1>3. ASSUME proc' = proc PROVE Quiet /\ proc' \in [Pids -> Process]
  BY <1>2, <1>3, TypeIs DEF Quiet
<1>4. ASSUME StopKill(c) PROVE Quiet /\ proc' \in [Pids -> Process]
  <2>1. proc' = proc \/ \E p \in ToSignal(command[c].pid) : proc' = Sigterm(proc, p)
    BY <1>4, Zenon DEF StopKill
  <2>2. ASSUME NEW p \in ToSignal(command[c].pid), proc' = Sigterm(proc, p) PROVE Quiet /\ proc' \in [Pids -> Process]
    <3>1. Alive(p) /\ p \in Pids
      <4>1. Alive(p)
        BY <2>2, Zenon DEF ToSignal
      <4> QED BY <4>1 DEF Alive
    <3> QED BY <1>2, <2>2, <3>1, SigtermIs
  <2> QED BY <1>3, <2>1, <2>2
<1>5. ASSUME ~StopKill(c) PROVE Quiet /\ proc' \in [Pids -> Process]
  <2>1. proc' = proc
    BY <1>5 DEF Begin, StartCheck, StopRead, StopExists, StopRemove
  <2> QED BY <1>3, <2>1
<1>6. Quiet /\ proc' \in [Pids -> Process]
  BY <1>3, <1>4, <1>5
<1>7. pidfile' \in Pids \cup {NoPid} /\ lastPid' \in 0..MaxPid /\ ends' \in 0..MaxEnds /\ terms' \in 0..MaxTerms
  BY <1>2, TypeIs
<1> QED BY <1>1, <1>6, <1>7, TypeFrom

-------------------------------------------------------------------------------
\* A supervisor goes on in its loop: what it knows of its child then has to be so.
LEMMA LoopKeeps ==
    ASSUME DaemonInv, NEW s \in Pids, NEW r \in Process, proc' = [proc EXCEPT ![s] = r],
           UNCHANGED <<pidfile, command, lastPid, ends, terms>>,
           proc[s].at \in Supervising, r.at \in Supervising,
           r.parent = proc[s].parent, r.told = proc[s].told, r.needStop = proc[s].needStop,
           r.told => r.at = "watching" /\ r.needStop,
           r.at = "watching" => r.childPid \in Pids /\ proc[r.childPid].parent = s,
           \A p \in Pids : proc[p].parent = s /\ Alive(p) =>
               /\ r.at = "watching" /\ p = r.childPid
    PROVE  DaemonInv' /\ \A p \in Pids : ChildrenOf(p)' = ChildrenOf(p)
<1> USE DEF DaemonInv, ProcInv
<1>1. proc \in [Pids -> Process]
  BY TypeIs
<1>2. proc' \in [Pids -> Process] /\ proc'[s] = r /\ \A p \in Pids \ {s} : proc'[p] = proc[p]
  BY <1>1, Changed
<1>3. TypeOK'
  <2>1. command' \in [Commands -> [at : CommandSteps, pid : Pids \cup {NoPid}]]
    BY DEF TypeOK, CommandSteps
  <2> QED BY <1>2, <2>1, TypeFrom, TypeIs
<1>4. \A p \in Pids : /\ proc'[p].parent = proc[p].parent
                      /\ p # s => proc'[p].at = proc[p].at /\ proc'[p].childPid = proc[p].childPid
                                  /\ proc'[p].told = proc[p].told /\ proc'[p].needStop = proc[p].needStop
  BY <1>2
<1>5. \A p \in Pids : Alive(p)' <=> Alive(p)
  BY <1>2, <1>4 DEF Alive, Supervising
<1>6. BornInOrder'
  BY <1>2, <1>4 DEF BornInOrder, Supervising
<1>7. Families'
  <2> SUFFICES ASSUME NEW p \in Pids, proc'[p].parent # NoPid
               PROVE  /\ proc'[p].at \in Serving \cup {"dead"}
                      /\ proc'[proc'[p].parent].at \in Supervising \cup {"dead"}
    BY Zenon DEF Families
  <2>1. PICK t \in Pids : t = proc[p].parent /\ t = proc'[p].parent
    BY <1>1, <1>4 DEF TypeOK
  <2>2. proc[p].at \in Serving \cup {"dead"} /\ proc[t].at \in Supervising \cup {"dead"}
    BY <1>4, <2>1 DEF Families
  <2>3. p # s
    BY <2>2 DEF Serving, Supervising
  <2>4. proc'[t].at \in Supervising \cup {"dead"}
    BY <1>2, <1>4, <2>2
  <2> QED BY <1>4, <2>1, <2>2, <2>3, <2>4
<1>8. OnlyChild'
  BY <1>4, <1>5 DEF OnlyChild
<1>9. ChildKnown'
  <2> SUFFICES ASSUME NEW t \in Pids, NEW p \in Pids, proc'[p].parent = t, Alive(p)'
               PROVE  /\ proc'[t].at \notin {"reaped", "forking"}
                      /\ proc'[t].at = "forked" => \A q \in Pids : proc'[q].parent = t => q <= p
                      /\ proc'[t].at = "watching" => p = proc'[t].childPid
    BY DEF ChildKnown
  <2>1. proc[p].parent = t /\ Alive(p)
    BY <1>4, <1>5
  <2>2. CASE t = s
    BY <1>2, <2>1, <2>2
  <2>3. CASE t # s
    <3>1. /\ proc[t].at \notin {"reaped", "forking"}
          /\ proc[t].at = "forked" => \A q \in Pids : proc[q].parent = t => q <= p
          /\ proc[t].at = "watching" => p = proc[t].childPid
      BY <2>1 DEF ChildKnown
    <3> QED BY <1>4, <2>3, <3>1
  <2> QED BY <2>2, <2>3
<1>10. ChildWatched'
  <2> SUFFICES ASSUME NEW t \in Pids, proc'[t].at = "watching"
               PROVE  proc'[t].childPid \in Pids /\ proc'[proc'[t].childPid].parent = t
    BY Zenon DEF ChildWatched
  <2>1. PICK c \in Pids : c = proc'[t].childPid /\ proc[c].parent = t
    <3>1. CASE t = s
      BY <1>2, <3>1
    <3>2. CASE t # s
      BY <1>4, <3>2 DEF ChildWatched
    <3> QED BY <3>1, <3>2
  <2> QED BY <1>4, <2>1
<1>11. ToldStops'
  BY <1>2, <1>4 DEF ToldStops, Supervising
<1>12. \A p \in Pids : ChildrenOf(p)' = ChildrenOf(p)
  BY <1>4 DEF ChildrenOf
<1> QED BY <1>3, <1>6, <1>7, <1>8, <1>9, <1>10, <1>11, <1>12

\* The loop of a supervisor, between two forks.
LEMMA LoopStepsKeep ==
    ASSUME DaemonInv, NEW s \in Pids, Forget(s) \/ Watch(s) \/ Reap(s)
    PROVE  DaemonInv' /\ \A p \in Pids : ChildrenOf(p)' = ChildrenOf(p)
<1>1. proc \in [Pids -> Process] /\ proc[s] \in Process /\ \A p \in Pids : p \in Nat
  BY TypeIs DEF DaemonInv
<1>2. ChildKnown /\ ChildWatched /\ ToldStops /\ OnlyChild
  BY DEF DaemonInv, ProcInv
<1>3. UNCHANGED <<pidfile, command, lastPid, ends, terms>>
  BY DEF Forget, Watch, Reap
<1>4. ~proc[s].told
  BY <1>2 DEF Forget, Watch, Reap, ToldStops, Supervising
<1>5. CASE Forget(s)
  <2>1. PICK r \in Process : r = [proc[s] EXCEPT !.at = "forking", !.childPid = NoPid]
    <3>1. [proc[s] EXCEPT !.at = "forking", !.childPid = NoPid] \in Process
      BY <1>1 DEF Process, Steps
    <3> QED BY <3>1, Zenon
  <2>2. proc' = [proc EXCEPT ![s] = r] /\ proc[s].at = "reaped"
    BY <1>1, <1>5, <2>1 DEF Forget
  <2>3. r.at = "forking" /\ r.parent = proc[s].parent /\ r.told = proc[s].told /\ r.needStop = proc[s].needStop
    BY <1>1, <2>1 DEF Process
  <2>4. \A p \in Pids : ~(proc[p].parent = s /\ Alive(p))
    BY <1>2, <2>2 DEF ChildKnown
  <2>5. proc[s].at \in Supervising /\ r.at \in Supervising /\ r.at # "watching"
    BY <2>2, <2>3 DEF Supervising
  <2> QED BY <1>3, <1>4, <2>2, <2>3, <2>4, <2>5, LoopKeeps
<1>6. CASE Watch(s)
  <2>1. PICK c \in ChildrenOf(s) : /\ \A d \in ChildrenOf(s) : d <= c
                                   /\ proc' = [proc EXCEPT ![s].at = "watching", ![s].childPid = c]
    BY <1>6 DEF Watch
  <2>2. c \in Pids /\ proc[c].parent = s
    BY <2>1 DEF ChildrenOf
  <2>3. PICK r \in Process : r = [proc[s] EXCEPT !.at = "watching", !.childPid = c]
    <3>1. [proc[s] EXCEPT !.at = "watching", !.childPid = c] \in Process
      BY <1>1, <2>2 DEF Process, Steps
    <3> QED BY <3>1, Zenon
  <2>4. proc' = [proc EXCEPT ![s] = r] /\ proc[s].at = "forked"
    BY <1>1, <1>6, <2>1, <2>3 DEF Watch
  <2>5. /\ r.at = "watching" /\ r.childPid = c
        /\ r.parent = proc[s].parent /\ r.told = proc[s].told /\ r.needStop = proc[s].needStop
    BY <1>1, <2>3 DEF Process
  <2>6. \A p \in Pids : proc[p].parent = s /\ Alive(p) => p = c
    <3> SUFFICES ASSUME NEW p \in Pids, proc[p].parent = s, Alive(p) PROVE p = c
      OBVIOUS
    <3>1. c <= p
      BY <1>2, <2>2, <2>4 DEF ChildKnown
    <3>2. p <= c
      BY <2>1 DEF ChildrenOf
    <3> QED BY <1>1, <2>2, <3>1, <3>2
  <2>7. proc[s].at \in Supervising /\ r.at \in Supervising
    BY <2>4, <2>5 DEF Supervising
  <2> QED BY <1>3, <1>4, <2>2, <2>4, <2>5, <2>6, <2>7, LoopKeeps
<1>7. CASE Reap(s)
  <2>1. PICK r \in Process : r = [proc[s] EXCEPT !.at = "reaped"]
    <3>1. [proc[s] EXCEPT !.at = "reaped"] \in Process
      BY <1>1 DEF Process, Steps
    <3> QED BY <3>1, Zenon
  <2>2. proc' = [proc EXCEPT ![s] = r] /\ proc[s].at = "watching" /\ proc[proc[s].childPid].at = "dead"
    BY <1>1, <1>7, <2>1 DEF Reap, HasEnded
  <2>3. r.at = "reaped" /\ r.parent = proc[s].parent /\ r.told = proc[s].told /\ r.needStop = proc[s].needStop
    BY <1>1, <2>1 DEF Process
  <2>4. \A p \in Pids : ~(proc[p].parent = s /\ Alive(p))
    BY <1>2, <2>2 DEF ChildKnown, Alive
  <2>5. proc[s].at \in Supervising /\ r.at \in Supervising /\ r.at # "watching"
    BY <2>2, <2>3 DEF Supervising
  <2> QED BY <1>3, <1>4, <2>2, <2>3, <2>4, <2>5, LoopKeeps
<1> QED BY <1>5, <1>6, <1>7

-------------------------------------------------------------------------------
\* A process is born: of a supervisor that forks, or of a command.
BornAs(n, r, s) ==
    /\ n = lastPid + 1 /\ n \in Pids /\ lastPid' = n /\ r \in Process
    /\ UNCHANGED <<pidfile, ends, terms>>
    /\ r.parent = s /\ r.at \notin {"unborn", "reaped", "forked", "watching"} /\ ~r.told
    /\ s # NoPid => r.at \in Serving

LEMMA NewProcess ==
    ASSUME DaemonInv, NEW n \in Pids, NEW r \in Process, NEW s \in Pids \cup {NoPid}, NEW f \in Process, BornAs(n, r, s),
           s # NoPid => proc[s].at = "forking" /\ ~proc[s].told
                        /\ f.at = "forked" /\ f.parent = proc[s].parent /\ ~f.told,
           proc' = IF s = NoPid THEN [proc EXCEPT ![n] = r] ELSE [proc EXCEPT ![s] = f, ![n] = r],
           command' \in [Commands -> [at : CommandSteps, pid : Pids \cup {NoPid}]]
    PROVE  DaemonInv' /\ \A p \in Pids : p # s => ChildrenOf(p)' = ChildrenOf(p)
<1> USE DEF DaemonInv, ProcInv
<1>1. proc \in [Pids -> Process] /\ lastPid \in Nat /\ lastPid < n /\ (\A p \in Pids : p \in Nat /\ p # NoPid) /\ NoPid \notin Pids
  <2>1. proc \in [Pids -> Process] /\ lastPid \in 0..MaxPid /\ \A p \in Pids : p \in Nat /\ p # NoPid
    BY TypeIs, Zenon
  <2>2. lastPid \in Nat
    BY <2>1, BoundsAssumption
  <2>3. n = lastPid + 1
    BY DEF BornAs
  <2>4. lastPid < n
    BY <2>2, <2>3
  <2> QED BY <2>1, <2>2, <2>4
<1>2. proc[n].at = "unborn" /\ proc[n].parent = NoPid /\ \A p \in Pids : proc[p].parent # n
  <2>1. n > lastPid
    BY <1>1
  <2>2. proc[n].at = "unborn"
    BY <2>1 DEF BornInOrder
  <2> QED BY <1>1, <2>2 DEF BornInOrder, Families, Supervising
<1>3. s # n
  BY <1>1, <1>2
<1>4. /\ proc' \in [Pids -> Process] /\ proc'[n] = r
      /\ s # NoPid => proc'[s] = f
      /\ \A p \in Pids : p # n /\ p # s => proc'[p] = proc[p]
  <2>1. CASE s = NoPid
    <3>1. proc' = [proc EXCEPT ![n] = r]
      BY <2>1
    <3> QED BY <1>1, <2>1, <3>1, Changed
  <2>2. CASE s # NoPid
    <3>1. PICK P : P = [proc EXCEPT ![s] = f]
      OBVIOUS
    <3>2. s \in Pids
      BY <2>2
    <3>3. P \in [Pids -> Process] /\ P[s] = f /\ \A p \in Pids \ {s} : P[p] = proc[p]
      BY <1>1, <3>1, <3>2, Changed
    <3>4. proc' = [P EXCEPT ![n] = r]
      BY <2>2, <3>1
    <3>5. proc' \in [Pids -> Process] /\ proc'[n] = r /\ \A p \in Pids \ {n} : proc'[p] = P[p]
      <4>1. n \in Pids /\ P \in [Pids -> Process]
        BY <3>3 DEF BornAs
      <4>2. \A r1 \in Process : /\ [P EXCEPT ![n] = r1] \in [Pids -> Process] /\ [P EXCEPT ![n] = r1][n] = r1
                                /\ \A p \in Pids \ {n} : [P EXCEPT ![n] = r1][p] = P[p]
        BY <4>1
      <4>3. /\ [P EXCEPT ![n] = r] \in [Pids -> Process] /\ [P EXCEPT ![n] = r][n] = r
            /\ \A p \in Pids \ {n} : [P EXCEPT ![n] = r][p] = P[p]
        BY <4>2, Zenon
      <4> QED BY <3>4, <4>3, Zenon
    <3>6. proc'[s] = f /\ \A p \in Pids : p # n /\ p # s => proc'[p] = proc[p]
      BY <1>3, <3>2, <3>3, <3>5
    <3> QED BY <3>5, <3>6
  <2> QED BY <2>1, <2>2
<1>5. TypeOK'
  <2>1. lastPid' \in 0..MaxPid
    BY DEF BornAs, Pids
  <2>2. pidfile' \in Pids \cup {NoPid} /\ ends' \in 0..MaxEnds /\ terms' \in 0..MaxTerms
    BY TypeIs DEF BornAs
  <2> QED BY <1>4, <2>1, <2>2, TypeFrom
<1>6. \A p \in Pids : /\ p # n => proc'[p].parent = proc[p].parent /\ (Alive(p)' <=> Alive(p))
                      /\ p # n /\ p # s => proc'[p] = proc[p]
  BY <1>1, <1>4 DEF Alive
<1>7. \A p \in Pids : p # n /\ proc'[p].parent # NoPid => proc'[p].parent # n
  BY <1>2, <1>6
<1>8. s # NoPid => \A p \in Pids : proc[p].parent = s => ~Alive(p)
  BY DEF ChildKnown
<1>9. BornInOrder'
  <2> SUFFICES ASSUME NEW p \in Pids
               PROVE  /\ proc'[p].at = "unborn" <=> p > n
                      /\ proc'[p].at = "unborn" => proc'[p].parent = NoPid
    BY DEF BornInOrder, BornAs
  <2>1. /\ proc[p].at = "unborn" <=> p > lastPid
        /\ proc[p].at = "unborn" => proc[p].parent = NoPid
    BY DEF BornInOrder
  <2>2. p > lastPid <=> p > n \/ p = n
    BY <1>1 DEF BornAs
  <2>3. CASE p = n
    BY <1>1, <1>4, <2>3 DEF BornAs
  <2>4. CASE p # n
    BY <1>4, <2>1, <2>2, <2>4
  <2> QED BY <2>3, <2>4
<1>10. Families'
  <2> SUFFICES ASSUME NEW p \in Pids, proc'[p].parent # NoPid
               PROVE  /\ proc'[p].at \in Serving \cup {"dead"}
                      /\ proc'[proc'[p].parent].at \in Supervising \cup {"dead"}
    BY Zenon DEF Families
  <2>1. CASE p = n
    <3>1. proc'[p].parent = s /\ s # NoPid /\ r.at \in Serving
      BY <1>4, <2>1 DEF BornAs
    <3> QED BY <1>4, <2>1, <3>1 DEF Supervising
  <2>2. CASE p # n
    <3>1. PICK t \in Pids : t = proc[p].parent /\ t = proc'[p].parent
      BY <1>1, <1>6, <2>2 DEF Process
    <3>2. proc[p].at \in Serving \cup {"dead"} /\ proc[t].at \in Supervising \cup {"dead"} /\ t # n
      BY <1>2, <1>6, <2>2, <3>1 DEF Families
    <3>3. p # s
      BY <1>1, <3>2 DEF Serving
    <3>4. proc'[t].at \in Supervising \cup {"dead"}
      BY <1>4, <3>2 DEF Supervising
    <3> QED BY <1>4, <2>2, <3>1, <3>2, <3>3, <3>4
  <2> QED BY <2>1, <2>2
<1>11. OnlyChild'
  <2> SUFFICES ASSUME NEW p \in Pids, NEW q \in Pids, proc'[p].parent # NoPid, proc'[p].parent = proc'[q].parent,
                      Alive(p)', Alive(q)'
               PROVE  p = q
    BY DEF OnlyChild
  <2>1. CASE p = n /\ q # n
    BY <1>4, <1>6, <1>8, <2>1 DEF BornAs
  <2>2. CASE q = n /\ p # n
    BY <1>4, <1>6, <1>8, <2>2 DEF BornAs
  <2>3. CASE p # n /\ q # n
    BY ZenonT(30), <1>6, <2>3 DEF OnlyChild
  <2> QED BY <2>1, <2>2, <2>3
<1>12. ChildKnown'
  <2> SUFFICES ASSUME NEW t \in Pids, NEW p \in Pids, proc'[p].parent = t, Alive(p)'
               PROVE  /\ proc'[t].at \notin {"reaped", "forking"}
                      /\ proc'[t].at = "forked" => \A q \in Pids : proc'[q].parent = t => q <= p
                      /\ proc'[t].at = "watching" => p = proc'[t].childPid
    BY DEF ChildKnown
  <2>1. t # n
    <3>1. CASE p = n
      BY <1>3, <1>4, <3>1 DEF BornAs
    <3>2. CASE p # n
      BY <1>1, <1>7, <3>2
    <3> QED BY <3>1, <3>2
  <2>2. CASE t = s
    <3>1. p = n
      BY <1>1, <1>6, <1>8, <2>2
    <3>2. proc'[t].at = "forked"
      BY <1>1, <1>4, <2>2
    <3>3. \A q \in Pids : proc'[q].parent = t => q <= p
      <4> SUFFICES ASSUME NEW q \in Pids, proc'[q].parent = t, q # n PROVE q <= n
        BY <1>1, <3>1
      <4>1. proc[q].at # "unborn"
        BY <1>1, <1>6 DEF BornInOrder
      <4> QED BY <1>1, <4>1 DEF BornInOrder, BornAs
    <3> QED BY <3>2, <3>3
  <2>3. CASE t # s
    <3>1. p # n
      BY <1>4, <2>3 DEF BornAs
    <3>2. proc'[t] = proc[t] /\ proc[p].parent = t /\ Alive(p)
      BY <1>4, <1>6, <2>1, <2>3, <3>1
    <3>3. /\ proc[t].at \notin {"reaped", "forking"}
          /\ proc[t].at = "forked" => \A q \in Pids : proc[q].parent = t => q <= p
          /\ proc[t].at = "watching" => p = proc[t].childPid
      BY <3>2 DEF ChildKnown
    <3>4. \A q \in Pids : proc'[q].parent = t => proc[q].parent = t
      BY <1>4, <1>6, <2>3 DEF BornAs
    <3> QED BY <3>2, <3>3, <3>4
  <2> QED BY <2>2, <2>3
<1>13. ChildWatched'
  <2> SUFFICES ASSUME NEW t \in Pids, proc'[t].at = "watching"
               PROVE  proc'[t].childPid \in Pids /\ proc'[proc'[t].childPid].parent = t
    BY Zenon DEF ChildWatched
  <2>1. t # n /\ t # s
    BY <1>1, <1>4 DEF BornAs
  <2>2. proc'[t] = proc[t]
    BY <1>4, <2>1
  <2>3. PICK c \in Pids : c = proc[t].childPid /\ proc[c].parent = t
    BY <2>2 DEF ChildWatched
  <2>4. c # n
    BY <1>1, <1>2, <2>3
  <2> QED BY <1>6, <2>2, <2>3, <2>4
<1>14. ToldStops'
  <2> SUFFICES ASSUME NEW t \in Pids, proc'[t].at \in Supervising, proc'[t].told
               PROVE  proc'[t].at = "watching" /\ proc'[t].needStop
    BY DEF ToldStops
  <2>1. t # n /\ t # s
    BY <1>1, <1>4 DEF BornAs
  <2> QED BY <1>4, <2>1 DEF ToldStops
<1>15. ASSUME NEW p \in Pids, p # s PROVE ChildrenOf(p)' = ChildrenOf(p)
  <2>1. \A q \in Pids : proc'[q].parent = p <=> proc[q].parent = p
    <3> SUFFICES ASSUME NEW q \in Pids PROVE proc'[q].parent = p <=> proc[q].parent = p
      OBVIOUS
    <3>1. CASE q = n
      BY <1>1, <1>2, <1>4, <1>15, <3>1 DEF BornAs
    <3>2. CASE q # n
      BY <1>6, <3>2
    <3> QED BY <3>1, <3>2
  <2> QED BY <2>1 DEF ChildrenOf
<1> QED BY <1>5, <1>9, <1>10, <1>11, <1>12, <1>13, <1>14, <1>15

\* A process starts its life with no child, and nobody has signalled it.
LEMMA BornIs ==
    ASSUME NEW s \in Pids \cup {NoPid}, NEW foreground \in BOOLEAN
    PROVE  /\ Born(s, foreground) \in Process /\ Born(s, foreground).parent = s /\ ~Born(s, foreground).told
           /\ Born(s, foreground).at \in Serving
<1>1. PICK at \in {"fresh", "checked"} : at = IF foreground THEN "fresh" ELSE "checked"
  OBVIOUS
<1>2. Born(s, foreground) = [at |-> at, parent |-> s, childPid |-> NoPid,
                             needStop |-> FALSE, told |-> FALSE, foreground |-> FALSE, status |-> "none"]
  <2>1. Born(s, foreground) = [Unborn EXCEPT !.at = at, !.parent = s]
    BY <1>1, Zenon DEF Born
  <2> QED BY <2>1 DEF Unborn
<1>3. at \in Steps /\ at \in Serving
  BY DEF Steps, Serving
<1> QED BY <1>2, <1>3 DEF Process

LEMMA ForkKeeps ==
    ASSUME DaemonInv, NEW s \in Pids, Fork(s)
    PROVE  DaemonInv' /\ ~proc[s].told /\ \A p \in Pids : p # s => ChildrenOf(p)' = ChildrenOf(p)
<1>1. /\ proc[s].at = "forking" /\ lastPid < MaxPid /\ lastPid' = lastPid + 1
      /\ proc' = [proc EXCEPT ![s].at = "forked", ![lastPid + 1] = Born(s, proc[s].foreground)]
      /\ UNCHANGED <<pidfile, command, ends, terms>>
  BY DEF Fork
<1>2. proc \in [Pids -> Process] /\ proc[s] \in Process /\ s # NoPid /\ lastPid \in 0..MaxPid
  BY TypeIs DEF DaemonInv
<1>3. ~proc[s].told
  BY <1>1 DEF DaemonInv, ProcInv, ToldStops, Supervising
<1>4. PICK n \in Pids : n = lastPid + 1
  BY <1>1, <1>2, BoundsAssumption DEF Pids
<1>5. PICK r \in Process : r = Born(s, proc[s].foreground) /\ r.parent = s /\ ~r.told /\ r.at \in Serving
  <2>1. proc[s].foreground \in BOOLEAN
    BY <1>2 DEF Process
  <2> QED BY <2>1, BornIs, Zenon
<1>6. PICK f \in Process : f = [proc[s] EXCEPT !.at = "forked"]
  <2>1. [proc[s] EXCEPT !.at = "forked"] \in Process
    BY <1>2 DEF Process, Steps
  <2> QED BY <2>1, Zenon
<1>7. f.at = "forked" /\ f.parent = proc[s].parent /\ ~f.told
  BY <1>2, <1>3, <1>6 DEF Process
<1>8. proc' = [proc EXCEPT ![s] = f, ![n] = r]
  BY <1>1, <1>2, <1>4, <1>5, <1>6
<1>9. BornAs(n, r, s)
  BY <1>1, <1>2, <1>4, <1>5 DEF BornAs, Serving
<1>10. command' \in [Commands -> [at : CommandSteps, pid : Pids \cup {NoPid}]]
  BY <1>1 DEF DaemonInv, TypeOK, CommandSteps
<1>11. proc' = IF s = NoPid THEN [proc EXCEPT ![n] = r] ELSE [proc EXCEPT ![s] = f, ![n] = r]
  BY <1>2, <1>8
<1>12. s # NoPid => proc[s].at = "forking" /\ ~proc[s].told
                     /\ f.at = "forked" /\ f.parent = proc[s].parent /\ ~f.told
  BY <1>1, <1>3, <1>7
<1>13. s \in Pids \cup {NoPid}
  OBVIOUS
<1>14. DaemonInv' /\ \A p \in Pids : p # s => ChildrenOf(p)' = ChildrenOf(p)
  BY <1>9, <1>10, <1>11, <1>12, <1>13, NewProcess, ZenonT(30)
<1> QED BY <1>3, <1>14

LEMMA LaunchKeeps ==
    ASSUME DaemonInv, NEW c \in Commands, Launch(c)
    PROVE  DaemonInv' /\ \A p \in Pids : ChildrenOf(p)' = ChildrenOf(p)
<1>1. /\ lastPid < MaxPid /\ lastPid' = lastPid + 1 /\ UNCHANGED <<pidfile, ends, terms>>
      /\ \E foreground \in BOOLEAN :
            proc' = [proc EXCEPT ![lastPid + 1] =
                       IF AutoRestart
                       THEN [Unborn EXCEPT !.at = "forking", !.foreground = foreground]
                       ELSE Born(NoPid, foreground)]
  <2>1. (CommandOf[c] = "foreground") \in BOOLEAN
    OBVIOUS
  <2> QED BY <2>1, Zenon DEF Launch
<1>2. PICK foreground \in BOOLEAN :
            proc' = [proc EXCEPT ![lastPid + 1] =
                       IF AutoRestart
                       THEN [Unborn EXCEPT !.at = "forking", !.foreground = foreground]
                       ELSE Born(NoPid, foreground)]
  BY <1>1
<1>3. lastPid \in 0..MaxPid
  BY TypeIs DEF DaemonInv
<1>4. PICK n \in Pids : n = lastPid + 1
  BY <1>1, <1>3, BoundsAssumption DEF Pids
<1>5. PICK r \in Process : /\ proc' = [proc EXCEPT ![n] = r]
                           /\ r.parent = NoPid /\ ~r.told /\ r.at \in Serving \cup {"forking"}
  <2>1. CASE AutoRestart
    <3>1. PICK u \in Process : u = Unborn /\ u.parent = NoPid /\ ~u.told
      <4>1. Unborn \in Process /\ Unborn.parent = NoPid /\ ~Unborn.told
        BY DEF Unborn, Process, Steps
      <4> QED BY <4>1, Zenon
    <3>2. PICK r \in Process : r = [u EXCEPT !.at = "forking", !.foreground = foreground]
      <4>1. [u EXCEPT !.at = "forking", !.foreground = foreground] \in Process
        BY DEF Process, Steps
      <4> QED BY <4>1, Zenon
    <3>3. proc' = [proc EXCEPT ![n] = r]
      BY <1>2, <1>4, <2>1, <3>1, <3>2
    <3>4. r.parent = NoPid /\ ~r.told /\ r.at = "forking"
      BY <3>1, <3>2 DEF Process
    <3> QED BY <3>3, <3>4
  <2>2. CASE ~AutoRestart
    <3>1. PICK r \in Process : r = Born(NoPid, foreground) /\ r.parent = NoPid /\ ~r.told /\ r.at \in Serving
      BY BornIs, Zenon
    <3> QED BY <1>2, <1>4, <2>2, <3>1
  <2> QED BY <2>1, <2>2
<1>6. BornAs(n, r, NoPid)
  BY <1>1, <1>4, <1>5 DEF BornAs, Serving
<1>7. command' \in [Commands -> [at : CommandSteps, pid : Pids \cup {NoPid}]]
  BY CommandsTyped DEF DaemonInv
<1>8. \A p \in Pids : p # NoPid
  BY TypeIs DEF DaemonInv
<1>9. proc' = IF NoPid = NoPid THEN [proc EXCEPT ![n] = r] ELSE [proc EXCEPT ![NoPid] = r, ![n] = r]
  BY <1>5
<1> QED BY <1>6, <1>7, <1>8, <1>9, NewProcess

-------------------------------------------------------------------------------
LEMMA DaemonInvInitially == Init => DaemonInv
<1> SUFFICES ASSUME Init PROVE DaemonInv
  OBVIOUS
<1>1. \A p \in Pids : proc[p] = Unborn /\ p \in Nat /\ p > 0
  BY BoundsAssumption DEF Init, Pids
<1>2. TypeOK
  <2>1. Unborn \in Process
    BY DEF Unborn, Process, Steps
  <2>2. proc \in [Pids -> Process]
    BY <2>1 DEF Init
  <2>3. command \in [Commands -> [at : CommandSteps, pid : Pids \cup {NoPid}]]
    BY DEF Init, CommandSteps
  <2>4. pidfile \in Pids \cup {NoPid} /\ lastPid \in 0..MaxPid /\ ends \in 0..MaxEnds /\ terms \in 0..MaxTerms
    BY BoundsAssumption DEF Init
  <2> QED BY <2>2, <2>3, <2>4 DEF TypeOK, Process, CommandSteps
<1>3. \A p \in Pids : proc[p].at = "unborn" /\ proc[p].parent = NoPid
  BY <1>1 DEF Unborn
<1>4. lastPid = 0
  BY DEF Init
<1>5. \A p \in Pids : ~Alive(p)
  BY <1>3 DEF Alive
<1> QED BY <1>1, <1>2, <1>3, <1>4, <1>5
        DEF DaemonInv, ProcInv, BornInOrder, Families, OnlyChild, ChildKnown, ChildWatched, ToldStops, Supervising

\* Of what a step of the system does to the children of a supervisor.
LEMMA DaemonStep ==
    ASSUME DaemonInv, [Next]_vars
    PROVE  DaemonInv' /\ \A s \in Pids : proc[s].told => ChildrenOf(s)' = ChildrenOf(s)
<1>1. ASSUME Quiet, TypeOK' PROVE DaemonInv' /\ \A s \in Pids : ChildrenOf(s)' = ChildrenOf(s)
  BY <1>1, QuietKeeps DEF DaemonInv
<1>2. ASSUME NEW p \in Pids, SupervisorStep(p)
      PROVE  DaemonInv' /\ \A s \in Pids : proc[s].told => ChildrenOf(s)' = ChildrenOf(s)
  <2>1. CASE Fork(p)
    BY <2>1, ForkKeeps
  <2>2. CASE Forget(p) \/ Watch(p) \/ Reap(p)
    BY <2>2, LoopStepsKeep
  <2>3. CASE StopSupervising(p)
    BY <1>1, <2>3, AgentsAreQuiet
  <2> QED BY <1>2, <2>1, <2>2, <2>3 DEF SupervisorStep
<1>3. ASSUME NEW p \in Pids, AgentStep(p) \/ DoRestart(p) \/ Crash(p) \/ Terminate(p)
      PROVE  DaemonInv' /\ \A s \in Pids : ChildrenOf(s)' = ChildrenOf(s)
  BY <1>1, <1>3, AgentsAreQuiet
<1>4. ASSUME NEW c \in Commands, Begin(c) \/ CommandStep(c)
      PROVE  DaemonInv' /\ \A s \in Pids : ChildrenOf(s)' = ChildrenOf(s)
  <2>1. CASE Launch(c)
    BY <2>1, LaunchKeeps
  <2>2. CASE Begin(c) \/ StartCheck(c) \/ StopRead(c) \/ StopExists(c) \/ StopRemove(c) \/ StopKill(c)
    BY <1>1, <2>2, CommandsAreQuiet
  <2> QED BY <1>4, <2>1, <2>2 DEF CommandStep
<1>5. CASE UNCHANGED vars
  <2>1. Quiet
    BY <1>5 DEF vars, Quiet
  <2>2. TypeOK'
    BY <1>5 DEF vars, DaemonInv, TypeOK
  <2> QED BY <1>1, <2>1, <2>2
<1>6. CASE Next
  BY <1>2, <1>3, <1>4, <1>6, Zenon DEF Next
<1> QED BY <1>5, <1>6

LEMMA DaemonInvMeansOneChild == DaemonInv => OneChild
<1> SUFFICES ASSUME DaemonInv, NEW s \in Pids
             PROVE  Cardinality({p \in ChildrenOf(s) : Alive(p)}) <= 1
  BY DEF OneChild, DaemonInv
<1>1. PICK S : S = {p \in ChildrenOf(s) : Alive(p)}
  OBVIOUS
<1>2. \A p, q \in S : p = q
  BY <1>1, TypeIs DEF DaemonInv, ProcInv, OnlyChild, ChildrenOf
<1>3. CASE S = {}
  BY <1>1, <1>3, FS_EmptySet
<1>4. CASE S # {}
  <2>1. PICK x : x \in S
    BY <1>4
  <2>2. S = {x}
    BY <1>2, <2>1
  <2> QED BY <1>1, <2>2, FS_Singleton
<1> QED BY <1>3, <1>4

\* A supervisor has one living agent at most, whatever ends, is killed or is told to
\* stop meanwhile, and forks none once it was sent SIGTERM (AgentSupervisor.start and
\* _handle_sigterm of daemon.py).
THEOREM OneAgentCorrect == Spec => OneAgent
<1>1. Init => DaemonInv
  BY DaemonInvInitially
<1>2. DaemonInv /\ [Next]_vars => DaemonInv'
  BY DaemonStep
<1>3. DaemonInv => OneChild
  BY DaemonInvMeansOneChild
<1>4. DaemonInv /\ [Next]_vars => [\A s \in Pids : proc[s].told => ChildrenOf(s)' = ChildrenOf(s)]_vars
  BY DaemonStep
<1> QED BY <1>1, <1>2, <1>3, <1>4, PTL DEF Spec, OneAgent, ToldForksNoMore

-------------------------------------------------------------------------------
(* WinService.                                                             *)

\* The settings of the registry that stackstate.conf can take.
Movable ==
    {Attributes[i] : i \in {j \in DOMAIN Attributes :
        /\ given[Attributes[j]] = "value" /\ Attributes[j] \in Lines
        /\ \A k \in 1 .. j : given[Attributes[k]] # "missing"}}

\* Until the settings are removed from the registry it is what it was; each step on the
\* way has them in the file that takes the place of stackstate.conf.
SettingsMoved ==
    /\ given \in [AttributeNames -> {"value", "empty", "missing"}]
    /\ svcPc \in {"made", "copy", "remove", "rename", "delete"} => registry = given
    /\ registry # given => Movable \subseteq configFile
    /\ svcPc \in {"copy", "remove", "rename", "delete"} => Movable \subseteq fromRegistry
    /\ svcPc \in {"remove", "rename"} => Movable \subseteq tempFile
    /\ svcPc = "delete" => Movable \subseteq configFile

\* A process that SvcStop() has passed runs only if SvcDoRun() has started it since.
StartedLate(n) == winProc[n] = "running" => n \in late
Passed(i) == i < stopAt \/ stopPc \in {"close", "done"}
StopsInOrder ==
    /\ stopAt \in DOMAIN Procs /\ svcAt \in DOMAIN Procs
    /\ stopPc \in {"close", "done"} => stopAt = 1
    /\ stopPc = "idle" => stopAt = 1
    /\ \A i \in DOMAIN Procs : Passed(i) => StartedLate(Procs[i])
    /\ stopPc = "kill" => StartedLate(Stopping)

\* Java is left alone when its process dies, or is killed when it was just started.
JavaLeft ==
    /\ java \in [own : BOOLEAN, noted : BOOLEAN, others : Nat] /\ faults \in Nat
    /\ java.others # 0 => faults # 0 \/ JmxProc \in late

WinTypes == winProc \in [ProcNames -> {"none", "running", "dead"}]
ServiceInv == WinTypes /\ SettingsMoved /\ StopsInOrder /\ JavaLeft

-------------------------------------------------------------------------------
LEMMA ServiceInitially == WinInit => ServiceInv
<1> SUFFICES ASSUME WinInit PROVE ServiceInv
  OBVIOUS
<1> USE DEF WinInit
<1>1. SettingsMoved
  BY DEF SettingsMoved
<1>2. StopsInOrder
  <2>1. 1 \in DOMAIN Procs /\ \A i \in DOMAIN Procs : ~(i < 1)
    BY WinAssumption
  <2> QED BY <2>1 DEF StopsInOrder, Passed
<1>3. JavaLeft
  BY DEF JavaLeft
<1> QED BY <1>1, <1>2, <1>3 DEF ServiceInv, WinTypes

\* The steps that leave the settings alone, and where the service is with them.
SettingsAlone ==
    /\ UNCHANGED <<registry, configFile, tempFile, fromRegistry, given>>
    /\ svcPc' = svcPc \/ svcPc' \notin {"made", "copy", "remove", "rename", "delete"}

LEMMA SettingsStay ==
    ASSUME SettingsMoved, SettingsAlone
    PROVE  SettingsMoved'
<1>1. Movable' = Movable
  BY DEF SettingsAlone, Movable
<1> QED BY <1>1 DEF SettingsMoved, SettingsAlone

LEMMA SettingsStep ==
    ASSUME SettingsMoved, Configuring
    PROVE  SettingsMoved'
<1> USE DEF SettingsMoved
<1>1. given' = given /\ Movable' = Movable
  <2>1. given' = given
    BY DEF Configuring, Settles, NoConfig, ReadRegistry, CopyConfig, RemoveConfig, RenameConfig, RemoveRegistry,
           ConfigNotSaved, MadeAgain
  <2> QED BY <2>1 DEF Movable
<1>2. CASE NoConfig
  BY <1>1, <1>2 DEF NoConfig, Settles
<1>3. CASE ReadRegistry
  <2>1. PICK asked \in {{}, FromRegistry} : /\ fromRegistry' = asked
                                            /\ svcPc' = IF asked = {} THEN "start" ELSE "copy"
    BY <1>3, Zenon DEF ReadRegistry, Settles
  <2>2. UNCHANGED <<registry, configFile, tempFile>> /\ registry = given
    BY <1>3 DEF ReadRegistry
  <2>3. Movable \subseteq FromRegistry
    BY <2>2 DEF Movable, FromRegistry, ReadBefore
  <2>4. asked # {} => asked = FromRegistry
    BY <2>1
  <2> QED BY <1>1, <2>1, <2>2, <2>3, <2>4
<1>4. CASE CopyConfig
  <2>1. Movable \subseteq Lines
    BY DEF Movable
  <2> QED BY <1>1, <1>4, <2>1 DEF CopyConfig, Settles
<1>5. CASE RemoveConfig
  BY <1>1, <1>5 DEF RemoveConfig, Settles
<1>6. CASE RenameConfig
  BY <1>1, <1>6 DEF RenameConfig, Settles
<1>7. CASE RemoveRegistry
  BY <1>1, <1>7 DEF RemoveRegistry, Settles
<1>8. CASE ConfigNotSaved
  BY <1>1, <1>8 DEF ConfigNotSaved, Settles
<1>9. CASE MadeAgain
  BY <1>1, <1>9 DEF MadeAgain, Settles
<1> QED BY <1>2, <1>3, <1>4, <1>5, <1>6, <1>7, <1>8, <1>9 DEF Configuring

-------------------------------------------------------------------------------
\* A process that dies, or is started, is not at rest or is started late.
LEMMA NobodyBack ==
    ASSUME StopsInOrder, UNCHANGED <<stopPc, stopAt>>, svcAt' \in DOMAIN Procs, late \subseteq late',
           \A n \in ProcNames : winProc'[n] = "running" => winProc[n] = "running" \/ n \in late' \/ stopPc = "idle"
    PROVE  StopsInOrder'
<1>1. \A i \in DOMAIN Procs : Procs[i] \in ProcNames
  BY DEF ProcNames
<1>2. stopPc = "idle" => \A i \in DOMAIN Procs : ~Passed(i)
  BY WinAssumption DEF StopsInOrder, Passed
<1>3. \A i \in DOMAIN Procs : Passed(i)' <=> Passed(i)
  BY DEF Passed
<1>4. \A i \in DOMAIN Procs : Passed(i) => StartedLate(Procs[i])'
  BY <1>1, <1>2 DEF StopsInOrder, StartedLate
<1>5. stopPc = "kill" => StartedLate(Stopping)'
  BY <1>1 DEF StopsInOrder, StartedLate, Stopping
<1>6. Stopping' = Stopping
  BY DEF Stopping
<1> QED BY <1>3, <1>4, <1>5, <1>6 DEF StopsInOrder, StartedLate

\* The steps of SvcStop() bring no process to life.
OnlyStops ==
    /\ UNCHANGED <<svcAt, late>>
    /\ \A n \in ProcNames : winProc'[n] = "running" => winProc[n] = "running"

LEMMA StopNextKeeps ==
    ASSUME StopsInOrder, OnlyStops, StopNext, stopPc \in {"alive", "exiting", "kill"}, winProc'[Stopping] # "running"
    PROVE  StopsInOrder'
<1>1. \A i \in DOMAIN Procs : Procs[i] \in ProcNames
  BY DEF ProcNames
<1>2. PICK at \in DOMAIN Procs : at = stopAt
  BY DEF StopsInOrder
<1>3. Len(Procs) \in Nat /\ Len(Procs) > 0 /\ DOMAIN Procs = 1..Len(Procs)
  BY WinAssumption
<1>4. stopAt' \in DOMAIN Procs /\ stopPc' \in {"close", "alive"} /\ (stopPc' = "close" => stopAt' = 1)
  <2>1. CASE at = Len(Procs)
    BY <1>2, <1>3, <2>1 DEF StopNext
  <2>2. CASE at # Len(Procs)
    BY <1>2, <1>3, <2>2 DEF StopNext
  <2> QED BY <2>1, <2>2
<1>5. \A i \in DOMAIN Procs : Passed(i)' => i < at \/ i = at
  <2>1. CASE at = Len(Procs)
    BY <1>3, <2>1
  <2>2. CASE at # Len(Procs)
    <3>1. stopAt' = at + 1 /\ stopPc' = "alive"
      BY <1>2, <2>2 DEF StopNext
    <3> QED BY <1>3, <3>1 DEF Passed
  <2> QED BY <2>1, <2>2
<1>6. ASSUME NEW i \in DOMAIN Procs, Passed(i)' PROVE StartedLate(Procs[i])'
  <2>1. CASE i < at
    <3>1. StartedLate(Procs[i])
      BY <1>2, <2>1 DEF StopsInOrder, Passed
    <3> QED BY <1>1, <3>1 DEF StartedLate, OnlyStops
  <2>2. CASE i = at
    BY <1>2, <2>2 DEF StartedLate, Stopping
  <2> QED BY <1>5, <1>6, <2>1, <2>2
<1> QED BY <1>4, <1>6 DEF StopsInOrder, OnlyStops

LEMMA StopGoesKeeps ==
    ASSUME StopsInOrder, OnlyStops, NEW to, StopGoes(to), stopPc # "done",
           to \in {"alive", "exiting", "terminate", "wait", "kill", "raised", "done"},
           stopPc = "close" <=> to = "done",
           to = "kill" => winProc'[Stopping] # "running"
    PROVE  StopsInOrder'
<1>1. \A i \in DOMAIN Procs : Procs[i] \in ProcNames
  BY DEF ProcNames
<1>2. stopPc' = to /\ stopAt' = stopAt /\ Stopping' = Stopping
  BY DEF StopGoes, Stopping
<1>3. \A i \in DOMAIN Procs : Passed(i)' => Passed(i)
  BY <1>2 DEF Passed
<1>4. \A i \in DOMAIN Procs : Passed(i)' => StartedLate(Procs[i])'
  BY <1>1, <1>3 DEF StopsInOrder, StartedLate, OnlyStops
<1>5. stopPc' = "kill" => StartedLate(Stopping)'
  BY <1>2 DEF StartedLate
<1>6. /\ stopPc' \in {"close", "done"} => stopAt' = 1
      /\ stopPc' = "idle" => stopAt' = 1
  BY <1>2 DEF StopsInOrder
<1> QED BY <1>2, <1>4, <1>5, <1>6 DEF StopsInOrder, OnlyStops

LEMMA StoppingKeeps ==
    ASSUME StopsInOrder, WinTypes, SvcStop \/ StopStep
    PROVE  StopsInOrder'
<1>1. Stopping \in ProcNames
  BY DEF StopsInOrder, Stopping, ProcNames
<1>2. CASE SvcStop
  <2>1. StopGoes("alive") /\ OnlyStops /\ stopPc = "idle"
    BY <1>2 DEF SvcStop, StopUnchanged, OnlyStops, svcVars
  <2> QED BY <2>1, StopGoesKeeps
<1>3. CASE LookAlive
  <2>1. OnlyStops /\ stopPc = "alive" /\ winProc' = winProc
    BY <1>3 DEF LookAlive, StopUnchanged, OnlyStops, AtProc, svcVars
  <2>2. CASE winProc[Stopping] # "running"
    <3>1. StopNext
      BY <1>3, <2>2 DEF LookAlive
    <3> QED BY <2>1, <2>2, <3>1, StopNextKeeps
  <2>3. CASE winProc[Stopping] = "running"
    <3>1. PICK to \in {"exiting", "terminate"} : StopGoes(to)
      BY <1>3, <2>3, Zenon DEF LookAlive
    <3> QED BY <2>1, <3>1, StopGoesKeeps
  <2> QED BY <2>2, <2>3
<1>4. CASE WaitedForExit
  <2>1. OnlyStops /\ stopPc = "exiting" /\ winProc' = winProc
    BY <1>4 DEF WaitedForExit, StopUnchanged, OnlyStops, AtProc, svcVars
  <2>2. CASE winProc[Stopping] # "running"
    <3>1. StopNext
      BY <1>4, <2>2 DEF WaitedForExit
    <3> QED BY <2>1, <2>2, <3>1, StopNextKeeps
  <2>3. CASE winProc[Stopping] = "running"
    <3>1. StopGoes("terminate")
      BY <1>4, <2>3 DEF WaitedForExit
    <3> QED BY <2>1, <3>1, StopGoesKeeps
  <2> QED BY <2>2, <2>3
<1>5. CASE TerminateProc
  <2>1. UNCHANGED <<svcAt, late>> /\ stopPc = "terminate"
    BY <1>5 DEF TerminateProc, StopUnchanged, AtProc, svcVars
  <2>2. CASE winProc[Stopping] # "running"
    <3>1. StopGoes("raised") /\ winProc' = winProc
      BY <1>5, <2>2 DEF TerminateProc
    <3>2. OnlyStops
      BY <2>1, <3>1 DEF OnlyStops
    <3> QED BY <2>1, <3>1, <3>2, StopGoesKeeps
  <2>3. CASE winProc[Stopping] = "running"
    <3>1. StopGoes("wait") /\ winProc' = [winProc EXCEPT ![Stopping] = "dead"]
      BY <1>5, <2>3 DEF TerminateProc
    <3>2. OnlyStops
      BY <2>1, <3>1 DEF OnlyStops, WinTypes
    <3> QED BY <2>1, <3>1, <3>2, StopGoesKeeps
  <2> QED BY <2>2, <2>3
<1>6. CASE WaitForProc
  <2>1. OnlyStops /\ stopPc = "wait" /\ winProc' = winProc
    BY <1>6 DEF WaitForProc, StopUnchanged, OnlyStops, AtProc, svcVars
  <2>2. CASE winProc[Stopping] = "running"
    <3>1. StopGoes("raised")
      BY <1>6, <2>2 DEF WaitForProc
    <3> QED BY <2>1, <3>1, StopGoesKeeps
  <2>3. CASE winProc[Stopping] # "running"
    <3>1. StopGoes("kill")
      BY <1>6, <2>3 DEF WaitForProc
    <3> QED BY <2>1, <2>3, <3>1, StopGoesKeeps
  <2> QED BY <2>2, <2>3
<1>7. CASE KillProc
  <2>1. UNCHANGED <<svcAt, late>> /\ stopPc = "kill" /\ StopNext /\ winProc' = [winProc EXCEPT ![Stopping] = "dead"]
    BY <1>7 DEF KillProc, StopUnchanged, AtProc, svcVars
  <2>2. OnlyStops /\ winProc'[Stopping] # "running"
    BY <1>1, <2>1 DEF OnlyStops, WinTypes
  <2> QED BY <2>1, <2>2, StopNextKeeps
<1>8. CASE CloseDevnull
  <2>1. OnlyStops /\ stopPc = "close" /\ StopGoes("done")
    BY <1>8 DEF CloseDevnull, StopUnchanged, OnlyStops, AtProc, svcVars
  <2> QED BY <2>1, StopGoesKeeps
<1> QED BY <1>2, <1>3, <1>4, <1>5, <1>6, <1>7, <1>8 DEF StopStep

-------------------------------------------------------------------------------
\* The steps of SvcDoRun(): the settings are done with, and who is started is late.
Served ==
    /\ UNCHANGED <<registry, configFile, tempFile, fromRegistry, given, stopPc, stopAt, java>>
    /\ svcPc' = svcPc \/ svcPc' \in {"started", "loop", "look", "ended", "raised"}
    /\ svcAt' \in DOMAIN Procs /\ late \subseteq late' /\ winProc' \in [ProcNames -> {"none", "running", "dead"}]
    /\ faults' \in {faults, faults + 1}
    /\ \A n \in ProcNames : winProc'[n] = "running" => winProc[n] = "running" \/ n \in late' \/ stopPc = "idle"

LEMMA NextProcIs ==
    ASSUME StopsInOrder, NEW then, NextProc(then)
    PROVE  svcAt' \in DOMAIN Procs /\ svcPc' \in {svcPc, then}
<1>1. PICK at \in DOMAIN Procs : at = svcAt
  BY DEF StopsInOrder
<1>2. Len(Procs) \in Nat /\ Len(Procs) > 0 /\ DOMAIN Procs = 1..Len(Procs)
  BY WinAssumption
<1>3. CASE at = Len(Procs)
  BY <1>1, <1>2, <1>3 DEF NextProc
<1>4. CASE at # Len(Procs)
  BY <1>1, <1>2, <1>4 DEF NextProc
<1> QED BY <1>3, <1>4

LEMMA StartedIs ==
    ASSUME StopsInOrder, WinTypes, NEW n \in ProcNames, NEW then \in {"started", "loop"}, Started(n, then),
           UNCHANGED <<registry, configFile, tempFile, fromRegistry, given, stopPc, stopAt>>
    PROVE  Served
<1>1. java' = java
  BY DEF Started
<1>2. CASE devnullOpen /\ winProc' = [winProc EXCEPT ![n] = "running"] /\ NextProc(then) /\ faults' = faults
           /\ late' = IF stopPc = "idle" THEN late ELSE late \cup {n}
  <2>1. svcAt' \in DOMAIN Procs /\ svcPc' \in {svcPc, then}
    BY <1>2, NextProcIs
  <2>2. late \subseteq late' /\ (stopPc # "idle" => n \in late')
    BY <1>2
  <2>3. winProc' \in [ProcNames -> {"none", "running", "dead"}] /\ \A m \in ProcNames : m # n => winProc'[m] = winProc[m]
    BY <1>2 DEF WinTypes
  <2> QED BY <1>1, <1>2, <2>1, <2>2, <2>3 DEF Served
<1>3. CASE CannotStart /\ svcPc' = "raised" /\ UNCHANGED <<winProc, late, svcAt>>
  <2>1. faults' \in {faults, faults + 1}
    BY <1>3 DEF CannotStart, Fault
  <2> QED BY <1>1, <1>3, <2>1 DEF Served, StopsInOrder, WinTypes
<1> QED BY <1>2, <1>3 DEF Started

LEMMA ServiceStepIs ==
    ASSUME StopsInOrder, WinTypes, ServiceStep
    PROVE  Served
<1>1. PICK n \in ProcNames : n = Procs[svcAt]
  BY DEF StopsInOrder, ProcNames
<1>2. CASE StartProc
  <2>1. UNCHANGED <<registry, configFile, tempFile, fromRegistry, given, stopPc, stopAt>>
    BY <1>2 DEF StartProc, settingVars, stopVars
  <2>2. CASE enabled[n]
    <3>1. Started(n, "started")
      BY <1>1, <1>2, <2>2 DEF StartProc
    <3> QED BY <2>1, <3>1, StartedIs
  <2>3. CASE ~enabled[n]
    <3>1. NextProc("started") /\ UNCHANGED <<winProc, java, exitFile, late, faults>>
      BY <1>1, <1>2, <2>3 DEF StartProc
    <3>2. svcAt' \in DOMAIN Procs /\ svcPc' \in {svcPc, "started"}
      BY <3>1, NextProcIs
    <3> QED BY <2>1, <3>1, <3>2 DEF Served, WinTypes
  <2> QED BY <2>2, <2>3
<1>3. CASE SetRunning
  BY <1>3 DEF SetRunning, Served, settingVars, stopVars, procVars, hostVars, StopsInOrder, WinTypes
<1>4. CASE LoopTest
  <2>1. svcPc' \in {"look", "ended"}
    BY <1>4 DEF LoopTest
  <2> QED BY <1>4, <2>1 DEF LoopTest, Served, settingVars, stopVars, procVars, hostVars, StopsInOrder, WinTypes
<1>5. CASE LookAtProc
  <2>1. UNCHANGED <<registry, configFile, tempFile, fromRegistry, given, stopPc, stopAt>>
    BY <1>5 DEF LookAtProc, settingVars, stopVars
  <2>2. CASE Started(n, "loop")
    BY <2>1, <2>2, StartedIs
  <2>3. CASE NextProc("loop") /\ UNCHANGED <<winProc, java, late, faults>>
    <3>1. svcAt' \in DOMAIN Procs /\ svcPc' \in {svcPc, "loop"}
      BY <2>3, NextProcIs
    <3> QED BY <2>1, <2>3, <3>1 DEF Served, WinTypes
  <2>4. Started(n, "loop") \/ (NextProc("loop") /\ UNCHANGED <<winProc, java, late, faults>>)
    <3>1. CASE winProc[n] # "running" /\ enabled[n]
      <4>1. Restart(n)
        BY <1>1, <1>5, <3>1 DEF LookAtProc
      <4> QED BY <4>1 DEF Restart
    <3>2. CASE ~(winProc[n] # "running" /\ enabled[n])
      BY <1>1, <1>5, <3>2 DEF LookAtProc, procVars
    <3> QED BY <3>1, <3>2
  <2> QED BY <2>2, <2>3, <2>4
<1> QED BY <1>2, <1>3, <1>4, <1>5 DEF ServiceStep

-------------------------------------------------------------------------------
\* What the java of JmxProc is after each kind of step.
LEMMA JavaStays ==
    ASSUME JavaLeft, late \subseteq late', faults' \in {faults, faults + 1},
           java' \in [own : BOOLEAN, noted : BOOLEAN, others : Nat],
           java'.others # 0 => java.others # 0 \/ faults' = faults + 1 \/ JmxProc \in late
    PROVE  JavaLeft'
<1>1. faults' \in Nat /\ (faults # 0 => faults' # 0) /\ (faults' = faults + 1 => faults' # 0)
  BY DEF JavaLeft
<1>2. java'.others # 0 => faults' # 0 \/ JmxProc \in late'
  BY <1>1 DEF JavaLeft
<1> QED BY <1>1, <1>2 DEF JavaLeft

\* Orphaned, Noted and KillAll as records.
LEMMA JavaRecords ==
    ASSUME java \in [own : BOOLEAN, noted : BOOLEAN, others : Nat]
    PROVE  /\ Orphaned \in [own : BOOLEAN, noted : BOOLEAN, others : Nat]
           /\ Noted \in [own : BOOLEAN, noted : BOOLEAN, others : Nat] /\ Noted.others = java.others
           /\ KillAll \in [own : BOOLEAN, noted : BOOLEAN, others : Nat]
           /\ ~(winProc[Stopping] = "running" /\ Stopping = JmxProc) => KillAll.others = java.others
<1> DEFINE J == [own : BOOLEAN, noted : BOOLEAN, others : Nat]
<1>1. java.own \in BOOLEAN /\ java.noted \in BOOLEAN /\ java.others \in Nat
  OBVIOUS
<1>2. (IF java.own THEN 1 ELSE 0) \in Nat
  OBVIOUS
<1>3. java.others + (IF java.own THEN 1 ELSE 0) \in Nat
  BY <1>1, <1>2
<1>4. Orphaned \in J
  BY <1>1, <1>3 DEF Orphaned
<1>5. Noted \in J /\ Noted.others = java.others
  BY <1>1 DEF Noted
<1>6. CASE winProc[Stopping] = "running" /\ Stopping = JmxProc
  <2>1. KillAll = [Orphaned EXCEPT !.noted = FALSE]
    BY <1>6 DEF KillAll
  <2> HIDE DEF Orphaned
  <2>2. KillAll \in J
    BY <1>4, <2>1
  <2> QED BY <1>4, <1>5, <1>6, <2>2
<1>7. CASE ~(winProc[Stopping] = "running" /\ Stopping = JmxProc)
  <2>1. KillAll = [java EXCEPT !.noted = FALSE]
    BY <1>7 DEF KillAll
  <2> QED BY <1>4, <1>5, <2>1
<1> QED BY <1>6, <1>7

LEMMA StoppingJava ==
    ASSUME ServiceInv, SvcStop \/ StopStep
    PROVE  WinTypes' /\ JavaLeft'
<1> USE DEF ServiceInv
<1>1. Stopping \in ProcNames
  BY DEF StopsInOrder, Stopping, ProcNames
<1>2. late' = late /\ faults' = faults
  BY DEF SvcStop, StopStep, LookAlive, WaitedForExit, TerminateProc, WaitForProc, KillProc, CloseDevnull,
         StopUnchanged, hostVars
<1>3. CASE java' = java /\ winProc' = winProc
  BY <1>2, <1>3, JavaStays DEF WinTypes, JavaLeft
<1>4. CASE TerminateProc /\ winProc[Stopping] = "running"
  <2>1. java' \in {java, Noted} /\ winProc' = [winProc EXCEPT ![Stopping] = "dead"]
    BY <1>4 DEF TerminateProc
  <2>2. java' \in [own : BOOLEAN, noted : BOOLEAN, others : Nat] /\ java'.others = java.others
    BY <2>1, JavaRecords DEF JavaLeft
  <2>3. WinTypes'
    BY <1>1, <2>1 DEF WinTypes
  <2> QED BY <1>2, <2>2, <2>3, JavaStays
<1>5. CASE KillProc
  <2>1. java' = KillAll /\ winProc' = [winProc EXCEPT ![Stopping] = "dead"] /\ stopPc = "kill"
    BY <1>5 DEF KillProc, AtProc
  <2>2. java' \in [own : BOOLEAN, noted : BOOLEAN, others : Nat]
    BY <2>1, JavaRecords DEF JavaLeft
  <2>3. java'.others # 0 => java.others # 0 \/ JmxProc \in late
    BY <2>1, JavaRecords DEF JavaLeft, StopsInOrder, StartedLate
  <2>4. WinTypes'
    BY <1>1, <2>1 DEF WinTypes
  <2> QED BY <1>2, <2>2, <2>3, <2>4, JavaStays
<1>6. \/ java' = java /\ winProc' = winProc
      \/ TerminateProc /\ winProc[Stopping] = "running"
      \/ KillProc
  BY DEF SvcStop, StopStep, LookAlive, WaitedForExit, TerminateProc, WaitForProc, CloseDevnull
<1> QED BY <1>3, <1>4, <1>5, <1>6

\* What the processes do by themselves: none comes to life.
LEMMA ProcessesJava ==
    ASSUME ServiceInv, JavaBegins \/ JavaExits \/ \E n \in ProcNames : Dies(n)
    PROVE  /\ WinTypes' /\ JavaLeft'
           /\ \A n \in ProcNames : winProc'[n] = "running" => winProc[n] = "running"
<1> USE DEF ServiceInv
<1> DEFINE J == [own : BOOLEAN, noted : BOOLEAN, others : Nat]
<1>1. java \in J /\ late' = late /\ JmxProc \in ProcNames
  BY WinAssumption DEF JavaLeft, JavaBegins, JavaExits, Dies, ProcUnchanged
<1>2. CASE JavaBegins
  <2>1. java' = [java EXCEPT !.own = TRUE] /\ winProc' = winProc /\ faults' = faults
    BY <1>2 DEF JavaBegins
  <2>2. java' \in J /\ java'.others = java.others
    BY <1>1, <2>1
  <2>3. JavaLeft'
    BY <1>1, <2>1, <2>2, JavaStays
  <2> QED BY <2>1, <2>3 DEF WinTypes
<1>3. CASE JavaExits
  <2>1. faults' = faults
    BY <1>3 DEF JavaExits
  <2>2. winProc' \in {winProc, [winProc EXCEPT ![JmxProc] = "dead"]}
    BY <1>3 DEF JavaExits
  <2>3. WinTypes' /\ \A n \in ProcNames : winProc'[n] = "running" => winProc[n] = "running"
    BY <1>1, <2>2 DEF WinTypes
  <2>4. java' \in J /\ (java'.others # 0 => java.others # 0)
    <3>1. CASE java' = [java EXCEPT !.own = FALSE]
      BY <1>1, <3>1
    <3>2. CASE java' = [java EXCEPT !.noted = FALSE]
      BY <1>1, <3>2
    <3>3. CASE java.others > 0 /\ java' = [java EXCEPT !.others = @ - 1]
      BY <1>1, <3>3
    <3> QED BY <1>3, <3>1, <3>2, <3>3 DEF JavaExits
  <2>5. JavaLeft'
    BY <1>1, <2>1, <2>4, JavaStays
  <2> QED BY <2>3, <2>5
<1>4. CASE \E n \in ProcNames : Dies(n)
  <2>1. PICK n \in ProcNames : Dies(n)
    BY <1>4
  <2>2. winProc' = [winProc EXCEPT ![n] = "dead"] /\ faults' = faults + 1 /\ java' \in {java, Orphaned}
    BY <2>1 DEF Dies, Fault
  <2>3. java' \in J
    BY <1>1, <2>2, JavaRecords
  <2>4. JavaLeft'
    BY <1>1, <2>2, <2>3, JavaStays
  <2> QED BY <2>2, <2>4 DEF WinTypes
<1> QED BY <1>2, <1>3, <1>4

-------------------------------------------------------------------------------
LEMMA ServiceStepInv == ServiceInv /\ [WinNext]_winVars => ServiceInv'
<1> SUFFICES ASSUME ServiceInv, [WinNext]_winVars PROVE ServiceInv'
  OBVIOUS
<1>0. WinTypes /\ SettingsMoved /\ StopsInOrder /\ JavaLeft
  BY DEF ServiceInv
<1>1. CASE Configuring
  <2>1. UNCHANGED <<svcAt, stopPc, stopAt, winProc, java, late>> /\ faults' \in {faults, faults + 1}
    BY <1>1 DEF Configuring, NoConfig, ReadRegistry, CopyConfig, RemoveConfig, RenameConfig, RemoveRegistry,
           ConfigNotSaved, MadeAgain, Settles, Fault, stopVars, procVars
  <2>2. SettingsMoved'
    BY <1>0, <1>1, SettingsStep
  <2>3. StopsInOrder'
    <3>1. svcAt' \in DOMAIN Procs
      BY <1>0, <2>1 DEF StopsInOrder
    <3> QED BY <1>0, <2>1, <3>1, NobodyBack
  <2>4. JavaLeft'
    BY <1>0, <2>1, JavaStays DEF JavaLeft
  <2> QED BY <1>0, <2>1, <2>2, <2>3, <2>4 DEF ServiceInv, WinTypes
<1>2. CASE ServiceStep
  <2>1. Served
    BY <1>0, <1>2, ServiceStepIs
  <2>2. SettingsMoved'
    BY <1>0, <2>1, SettingsStay DEF Served, SettingsAlone
  <2>3. StopsInOrder'
    BY <1>0, <2>1, NobodyBack DEF Served
  <2>4. JavaLeft'
    BY <1>0, <2>1, JavaStays DEF Served, JavaLeft
  <2> QED BY <2>1, <2>2, <2>3, <2>4 DEF ServiceInv, WinTypes, Served
<1>3. CASE SvcStop \/ StopStep
  <2>1. SettingsAlone
    BY <1>3 DEF SettingsAlone, SvcStop, StopStep, LookAlive, WaitedForExit, TerminateProc, WaitForProc, KillProc,
           CloseDevnull, StopUnchanged, settingVars, svcVars
  <2>2. SettingsMoved'
    BY <1>0, <2>1, SettingsStay
  <2>3. StopsInOrder'
    BY <1>0, <1>3, StoppingKeeps
  <2> QED BY <1>3, <2>2, <2>3, StoppingJava DEF ServiceInv
<1>4. CASE JavaBegins \/ JavaExits \/ \E n \in ProcNames : Dies(n)
  <2>1. UNCHANGED <<registry, configFile, tempFile, fromRegistry, given, svcPc, svcAt, stopPc, stopAt, late>>
    BY <1>4 DEF JavaBegins, JavaExits, Dies, ProcUnchanged, settingVars, svcVars, stopVars
  <2>2. SettingsMoved'
    BY <1>0, <2>1, SettingsStay DEF SettingsAlone
  <2>3. WinTypes' /\ JavaLeft' /\ \A n \in ProcNames : winProc'[n] = "running" => winProc[n] = "running"
    BY <1>4, ProcessesJava
  <2>4. StopsInOrder'
    <3>1. svcAt' \in DOMAIN Procs
      BY <1>0, <2>1 DEF StopsInOrder
    <3> QED BY <1>0, <2>1, <2>3, <3>1, NobodyBack
  <2> QED BY <2>2, <2>3, <2>4 DEF ServiceInv
<1>5. CASE TimePasses \/ UNCHANGED winVars
  <2>1. UNCHANGED <<registry, configFile, tempFile, fromRegistry, given, svcPc, svcAt, stopPc, stopAt, winProc, java, late, faults>>
    BY <1>5 DEF TimePasses, winVars, settingVars, svcVars, stopVars, procVars, hostVars
  <2>2. SettingsMoved'
    BY <1>0, <2>1, SettingsStay DEF SettingsAlone
  <2>3. StopsInOrder'
    <3>1. svcAt' \in DOMAIN Procs
      BY <1>0, <2>1 DEF StopsInOrder
    <3> QED BY <1>0, <2>1, <3>1, NobodyBack
  <2>4. JavaLeft'
    BY <1>0, <2>1, JavaStays DEF JavaLeft
  <2> QED BY <1>0, <2>1, <2>2, <2>3, <2>4 DEF ServiceInv, WinTypes
<1> QED BY <1>1, <1>2, <1>3, <1>4, <1>5 DEF WinNext

LEMMA ServiceImplies == ServiceInv => SettingsKept /\ NoneLeft
<1> SUFFICES ASSUME ServiceInv PROVE SettingsKept /\ NoneLeft
  OBVIOUS
<1> USE DEF ServiceInv
<1>1. SettingsKept
  <2> SUFFICES ASSUME NEW i \in DOMAIN Attributes, given[Attributes[i]] = "value",
                      \A j \in 1 .. i : given[Attributes[j]] # "missing", Attributes[i] \in Lines
               PROVE  registry[Attributes[i]] = "value" \/ Attributes[i] \in configFile
    BY DEF SettingsKept
  <2>1. Attributes[i] \in Movable
    BY DEF Movable
  <2> QED BY <2>1 DEF SettingsMoved
<1>2. ASSUME stopPc = "done"
      PROVE  /\ \A n \in ProcNames : winProc[n] = "running" => n \in late
             /\ JmxProc \notin late /\ faults = 0 => java.others = 0
  <2>1. \A i \in DOMAIN Procs : StartedLate(Procs[i])
    BY <1>2 DEF StopsInOrder, Passed
  <2>2. \A n \in ProcNames : winProc[n] = "running" => n \in late
    BY <2>1 DEF StartedLate, ProcNames
  <2> QED BY <2>2 DEF JavaLeft
<1> QED BY <1>1, <1>2 DEF NoneLeft

-------------------------------------------------------------------------------
\* What _restarts counts: each restart of the last _RESTART_TIMEFRAME, and no more
\* restarts than there may be.
RestartCounts ==
    /\ winNow \in Nat /\ begun \in [ProcNames -> Seq(Nat)] /\ restarts \in [ProcNames -> SUBSET Nat]
    /\ \A n \in ProcNames :
          /\ restarts[n] \subseteq DOMAIN begun[n]
          /\ IsFiniteSet(restarts[n]) /\ Cardinality(restarts[n]) <= MaxRestarts[n]
          /\ \A i \in DOMAIN begun[n] : begun[n][i] + Timeframe >= winNow => i \in restarts[n]
    /\ RestartsBounded

LEMMA CountsInitially == WinInit => RestartCounts
<1> SUFFICES ASSUME WinInit PROVE RestartCounts
  OBVIOUS
<1>1. \A n \in ProcNames : restarts[n] = {} /\ begun[n] = <<>> /\ DOMAIN begun[n] = {}
  BY DEF WinInit
<1>2. \A n \in ProcNames : MaxRestarts[n] \in Nat
  BY WinAssumption
<1>3. begun \in [ProcNames -> Seq(Nat)] /\ restarts \in [ProcNames -> SUBSET Nat] /\ winNow \in Nat
  BY DEF WinInit
<1>4. RestartsBounded
  <2>1. ASSUME NEW n \in ProcNames, NEW t \in 0 .. MaxTime
        PROVE  Cardinality({i \in DOMAIN begun[n] : begun[n][i] \in t .. t + Timeframe}) <= MaxRestarts[n]
    <3>1. {i \in DOMAIN begun[n] : begun[n][i] \in t .. t + Timeframe} = {}
      BY <1>1
    <3> QED BY <1>2, <3>1, FS_EmptySet
  <2> QED BY <2>1 DEF RestartsBounded
<1>5. IsFiniteSet({}) /\ Cardinality({}) = 0
  BY FS_EmptySet
<1>6. ASSUME NEW n \in ProcNames
      PROVE  /\ restarts[n] \subseteq DOMAIN begun[n]
             /\ IsFiniteSet(restarts[n]) /\ Cardinality(restarts[n]) <= MaxRestarts[n]
             /\ \A i \in DOMAIN begun[n] : begun[n][i] + Timeframe >= winNow => i \in restarts[n]
  <2>1. restarts[n] = {} /\ DOMAIN begun[n] = {} /\ MaxRestarts[n] \in Nat
    BY <1>1, <1>2
  <2>2. IsFiniteSet(restarts[n]) /\ Cardinality(restarts[n]) <= MaxRestarts[n]
    BY <2>1, <1>5
  <2> QED BY <2>1, <2>2
<1> QED BY <1>3, <1>4, <1>6 DEF RestartCounts

\* As time passes, and whatever else is done, restarts leave the time frame.
LEMMA CountsAsTimePasses ==
    ASSUME RestartCounts, UNCHANGED <<begun, restarts>>, winNow' \in {winNow, winNow + 1}
    PROVE  RestartCounts'
<1>1. winNow' \in Nat /\ winNow' >= winNow /\ winNow \in Nat
  BY DEF RestartCounts
<1>2. ASSUME NEW n \in ProcNames, NEW i \in DOMAIN begun[n], begun[n][i] + Timeframe >= winNow'
      PROVE  i \in restarts[n]
  <2>1. begun[n][i] \in Nat /\ Timeframe \in Nat
    BY WinAssumption DEF RestartCounts
  <2>2. begun[n][i] + Timeframe >= winNow
    BY <1>1, <1>2, <2>1
  <2> QED BY <2>2 DEF RestartCounts
<1>3. RestartsBounded'
  BY DEF RestartCounts, RestartsBounded
<1> QED BY <1>1, <1>2, <1>3 DEF RestartCounts

LEMMA CountsRestart ==
    ASSUME RestartCounts, NEW n \in ProcNames, Restart(n), winNow' = winNow
    PROVE  RestartCounts'
<1>0. /\ winNow \in Nat /\ begun \in [ProcNames -> Seq(Nat)] /\ restarts \in [ProcNames -> SUBSET Nat]
      /\ Timeframe \in Nat /\ MaxTime \in Nat /\ MaxRestarts[n] \in Nat
      /\ begun[n] \in Seq(Nat)
  BY WinAssumption DEF RestartCounts
<1>1. /\ Recent(n) \subseteq restarts[n] /\ IsFiniteSet(Recent(n))
      /\ Cardinality(Recent(n)) \in Nat /\ Cardinality(Recent(n)) <= MaxRestarts[n]
      /\ Recent(n) \subseteq DOMAIN begun[n] /\ Recent(n) \in SUBSET Nat
  <2>1. Recent(n) \subseteq restarts[n]
    BY DEF Recent
  <2>2. IsFiniteSet(restarts[n]) /\ Cardinality(restarts[n]) <= MaxRestarts[n] /\ restarts[n] \subseteq DOMAIN begun[n]
        /\ restarts[n] \in SUBSET Nat
    BY <1>0 DEF RestartCounts
  <2>3. IsFiniteSet(Recent(n)) /\ Cardinality(Recent(n)) <= Cardinality(restarts[n])
    BY <2>1, <2>2, FS_Subset
  <2>4. Cardinality(Recent(n)) \in Nat /\ Cardinality(restarts[n]) \in Nat
    BY <2>2, <2>3, FS_CardinalityType
  <2> QED BY <1>0, <2>1, <2>2, <2>3, <2>4
<1>2. \A i \in DOMAIN begun[n] : begun[n][i] + Timeframe >= winNow => i \in Recent(n)
  BY DEF RestartCounts, Recent
<1>3. CASE CanRestart(n)
  <2> DEFINE b == begun[n]
             k == Len(begun[n]) + 1
             new == Recent(n) \cup {k}
  <2>1. /\ restarts' = [restarts EXCEPT ![n] = new] /\ begun' = [begun EXCEPT ![n] = Append(b, winNow)]
    BY <1>3 DEF Restart
  <2>2. /\ k \in Nat /\ DOMAIN Append(b, winNow) = DOMAIN b \cup {k} /\ k \notin DOMAIN b /\ Append(b, winNow) \in Seq(Nat)
        /\ Append(b, winNow)[k] = winNow /\ \A i \in DOMAIN b : Append(b, winNow)[i] = b[i]
    BY <1>0
  <2>3. IsFiniteSet(new) /\ Cardinality(new) <= MaxRestarts[n] /\ Cardinality(new) \in Nat
    <3>1. k \notin Recent(n)
      BY <1>1, <2>2
    <3>2. Cardinality(new) = Cardinality(Recent(n)) + 1 /\ IsFiniteSet(new)
      BY <1>1, <3>1, FS_AddElement
    <3>3. Cardinality(Recent(n)) < MaxRestarts[n]
      BY <1>3 DEF CanRestart
    <3> QED BY <1>0, <1>1, <3>2, <3>3
  <2>4. new \in SUBSET Nat /\ new \subseteq DOMAIN Append(b, winNow)
    BY <1>1, <2>2
  <2> HIDE DEF new, k
  <2>5. /\ begun' \in [ProcNames -> Seq(Nat)] /\ restarts' \in [ProcNames -> SUBSET Nat]
        /\ begun'[n] = Append(b, winNow) /\ restarts'[n] = new
        /\ \A m \in ProcNames : m # n => begun'[m] = begun[m] /\ restarts'[m] = restarts[m]
    BY <1>0, <2>1, <2>2, <2>4
  <2>6. ASSUME NEW t \in 0 .. MaxTime
        PROVE  Cardinality({i \in DOMAIN begun'[n] : begun'[n][i] \in t .. t + Timeframe}) <= MaxRestarts[n]
    <3> DEFINE within == {i \in DOMAIN begun'[n] : begun'[n][i] \in t .. t + Timeframe}
    <3>1. CASE winNow \in t .. t + Timeframe
      <4>1. \A i \in DOMAIN b : b[i] \in t .. t + Timeframe => i \in Recent(n)
        <5> SUFFICES ASSUME NEW i \in DOMAIN b, b[i] \in t .. t + Timeframe PROVE i \in Recent(n)
          OBVIOUS
        <5>1. b[i] \in Nat
          BY <1>0
        <5>2. b[i] + Timeframe >= winNow
          BY <1>0, <3>1, <5>1
        <5> QED BY <1>2, <5>2
      <4>2. within \subseteq new
        BY <2>2, <2>5, <4>1 DEF new
      <4>3. Cardinality(within) <= Cardinality(new) /\ Cardinality(within) \in Nat
        BY <2>3, <4>2, FS_Subset, FS_CardinalityType
      <4> QED BY <1>0, <2>3, <4>3
    <3>2. CASE winNow \notin t .. t + Timeframe
      <4>1. within = {i \in DOMAIN begun[n] : begun[n][i] \in t .. t + Timeframe}
        BY <2>2, <2>5, <3>2
      <4> QED BY <4>1 DEF RestartCounts, RestartsBounded
    <3> QED BY <3>1, <3>2
  <2>7. RestartsBounded'
    <3>1. ASSUME NEW m \in ProcNames, NEW t \in 0 .. MaxTime
          PROVE  Cardinality({i \in DOMAIN begun'[m] : begun'[m][i] \in t .. t + Timeframe}) <= MaxRestarts[m]
      <4>1. CASE m = n
        BY <2>6, <4>1
      <4>2. CASE m # n
        <5>1. begun'[m] = begun[m]
          BY <2>5, <4>2
        <5> QED BY <5>1 DEF RestartCounts, RestartsBounded
      <4> QED BY <4>1, <4>2
    <3> QED BY <3>1 DEF RestartsBounded
  <2>8. ASSUME NEW m \in ProcNames
        PROVE  /\ restarts'[m] \subseteq DOMAIN begun'[m]
               /\ IsFiniteSet(restarts'[m]) /\ Cardinality(restarts'[m]) <= MaxRestarts[m]
               /\ \A i \in DOMAIN begun'[m] : begun'[m][i] + Timeframe >= winNow => i \in restarts'[m]
    <3>1. CASE m # n
      BY <2>5, <3>1 DEF RestartCounts
    <3>2. CASE m = n
      <4>1. \A i \in DOMAIN begun'[n] : begun'[n][i] + Timeframe >= winNow => i \in new
        BY <1>2, <2>2, <2>5 DEF new
      <4> QED BY <2>3, <2>4, <2>5, <3>2, <4>1
    <3> QED BY <3>1, <3>2
  <2> QED BY <1>0, <2>5, <2>7, <2>8 DEF RestartCounts
<1>4. CASE ~CanRestart(n)
  <2>1. restarts' = [restarts EXCEPT ![n] = Recent(n)] /\ begun' = begun
    BY <1>4 DEF Restart
  <2>2. /\ restarts' \in [ProcNames -> SUBSET Nat] /\ restarts'[n] = Recent(n)
        /\ \A m \in ProcNames : m # n => restarts'[m] = restarts[m]
    BY <1>0, <1>1, <2>1
  <2>3. RestartsBounded'
    BY <2>1 DEF RestartCounts, RestartsBounded
  <2>4. ASSUME NEW m \in ProcNames
        PROVE  /\ restarts'[m] \subseteq DOMAIN begun[m]
               /\ IsFiniteSet(restarts'[m]) /\ Cardinality(restarts'[m]) <= MaxRestarts[m]
               /\ \A i \in DOMAIN begun[m] : begun[m][i] + Timeframe >= winNow => i \in restarts'[m]
    <3>1. CASE m # n
      BY <2>2, <3>1 DEF RestartCounts
    <3>2. CASE m = n
      BY <1>1, <1>2, <2>2, <3>2
    <3> QED BY <3>1, <3>2
  <2> QED BY <1>0, <2>1, <2>2, <2>3, <2>4 DEF RestartCounts
<1> QED BY <1>3, <1>4

LEMMA CountsStep ==
    ASSUME StopsInOrder, RestartCounts, [WinNext]_winVars
    PROVE  RestartCounts'
<1>1. CASE LookAtProc
  <2>1. PICK n \in ProcNames : n = Procs[svcAt]
    BY DEF StopsInOrder, ProcNames
  <2>2. winNow' = winNow
    BY <1>1 DEF LookAtProc
  <2>3. CASE winProc[n] # "running" /\ enabled[n]
    <3>1. Restart(n)
      BY <1>1, <2>1, <2>3 DEF LookAtProc
    <3> QED BY <2>2, <3>1, CountsRestart
  <2>4. CASE ~(winProc[n] # "running" /\ enabled[n])
    <3>1. UNCHANGED <<begun, restarts>>
      BY <1>1, <2>1, <2>4 DEF LookAtProc, procVars
    <3> QED BY <2>2, <3>1, CountsAsTimePasses
  <2> QED BY <2>3, <2>4
<1>2. CASE ~LookAtProc
  <2>1. CASE Configuring
    <3>1. UNCHANGED <<begun, restarts, winNow>>
      BY <2>1 DEF Configuring, NoConfig, ReadRegistry, CopyConfig, RemoveConfig, RenameConfig, RemoveRegistry,
             ConfigNotSaved, MadeAgain, Settles, procVars
    <3> QED BY <3>1, CountsAsTimePasses
  <2>2. CASE StartProc \/ SetRunning \/ LoopTest
    <3>1. UNCHANGED <<begun, restarts, winNow>>
      BY <2>2 DEF StartProc, SetRunning, LoopTest, procVars, hostVars
    <3> QED BY <3>1, CountsAsTimePasses
  <2>3. CASE SvcStop \/ StopStep
    <3>1. UNCHANGED <<restarts, hostVars>> /\ begun' = begun
      BY <2>3 DEF SvcStop, StopStep, LookAlive, WaitedForExit, TerminateProc, WaitForProc, KillProc, CloseDevnull, StopUnchanged
    <3> QED BY <3>1, CountsAsTimePasses DEF hostVars
  <2>4. CASE JavaBegins \/ JavaExits \/ \E n \in ProcNames : Dies(n)
    <3>1. UNCHANGED <<begun, restarts, winNow>>
      BY <2>4 DEF JavaBegins, JavaExits, Dies, ProcUnchanged
    <3> QED BY <3>1, CountsAsTimePasses
  <2>5. CASE TimePasses \/ UNCHANGED winVars
    <3>1. UNCHANGED <<begun, restarts>> /\ winNow' \in {winNow, winNow + 1}
      BY <2>5 DEF TimePasses, winVars, procVars, hostVars
    <3> QED BY <3>1, CountsAsTimePasses
  <2> QED BY <1>2, <2>1, <2>2, <2>3, <2>4, <2>5 DEF WinNext, ServiceStep
<1> QED BY <1>1, <1>2

\* A setting that the installer left in the registry is there until stackstate.conf has
\* it, however often the service is killed while it moves them; when SvcStop() has
\* returned, no process is left but one that the other thread has started since, and no
\* java but one whose process died by itself or was started since; and within a time
\* frame a process is not restarted more often than it may be.
THEOREM ServiceCorrect == WinSpec => []ServiceSafe
<1> DEFINE I == ServiceInv /\ RestartCounts
<1>1. WinInit => I
  BY ServiceInitially, CountsInitially
<1>2. I /\ [WinNext]_winVars => I'
  <2> SUFFICES ASSUME ServiceInv, RestartCounts, [WinNext]_winVars PROVE ServiceInv' /\ RestartCounts'
    OBVIOUS
  <2>1. StopsInOrder
    BY DEF ServiceInv
  <2> QED BY <2>1, ServiceStepInv, CountsStep
<1>3. I => ServiceSafe
  BY ServiceImplies DEF ServiceSafe, RestartCounts
<1> HIDE DEF I
<1> QED BY <1>1, <1>2, <1>3, PTL DEF WinSpec
===============================================================================
