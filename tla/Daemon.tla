-------------------------------- MODULE Daemon --------------------------------
(***************************************************************************)
(* The life of the agent's processes: Daemon and AgentSupervisor           *)
(* (daemon.py), as agent.py's commands use them.                           *)
(*                                                                         *)
(* A supervisor forks a child, waits for it and forks the next one; the    *)
(* child is the agent, which writes its pid to the pidfile and removes the *)
(* file when it exits.  Commands read that file to tell whether an agent   *)
(* runs and whom to signal.  Signals arrive between any two steps.         *)
(*                                                                         *)
(* A process is told apart by where it stands:                             *)
(*   a supervisor: "reaped" (its child has ended), "forking" (child_pid is *)
(*     deleted), "forked" (it has a child and no child_pid), "watching";   *)
(*   an agent: "fresh" (forked), "checked" (it found no other agent),      *)
(*     "running", "leaving" (it runs the functions registered by atexit);  *)
(*   either: "unborn", "dead" (a zombie counts as dead: os.waitpid tells   *)
(*     of it, and is_my_process() does not take it for an agent).          *)
(* Pids are not used twice.                                                *)
(***************************************************************************)
EXTENDS Naturals, FiniteSets

CONSTANTS Commands,     \* the commands given, each once
          CommandOf,    \* what each of them is
          AutoRestart,  \* the autorestart option: there is a supervisor
          MaxPid,       \* bound: processes
          MaxEnds,      \* bound: agents that crash or leave of themselves
          MaxTerms      \* bound: SIGTERMs that no command sends

ASSUME CommandsAssumption ==
    CommandOf \in [Commands -> {"foreground", "start", "stop", "restart"}]
ASSUME ModeAssumption     == AutoRestart \in BOOLEAN
ASSUME BoundsAssumption   == MaxPid \in Nat /\ MaxEnds \in Nat /\ MaxTerms \in Nat

VARIABLES proc,     \* what each process is at
          pidfile,  \* the pid in the pidfile, or 0 when there is no file
          command,  \* where each command is, and the pid it read
          lastPid,  \* the last pid given
          ends,     \* agents that ended of themselves so far
          terms     \* SIGTERMs from elsewhere so far

vars == <<proc, pidfile, command, lastPid, ends, terms>>

Pids == 1 .. MaxPid
NoPid == 0

Steps == {"unborn", "reaped", "forking", "forked", "watching",
          "fresh", "checked", "running", "leaving", "dead"}

TypeOK ==
    /\ proc \in [Pids -> [at : Steps, parent : Pids \cup {NoPid},
                          childPid : Pids \cup {NoPid}, needStop : BOOLEAN,
                          told : BOOLEAN, foreground : BOOLEAN, status : {"none", "restart", "other"}]]
    /\ pidfile \in Pids \cup {NoPid}
    /\ command \in [Commands -> [at : {"idle", "check", "launch", "read", "exists",
                                        "remove", "kill", "done"},
                                 pid : Pids \cup {NoPid}]]
    /\ lastPid \in 0 .. MaxPid
    /\ ends \in 0 .. MaxEnds
    /\ terms \in 0 .. MaxTerms

-------------------------------------------------------------------------------
Alive(p)   == p \in Pids /\ proc[p].at \notin {"unborn", "dead"}
IsAgent(p) == p \in Pids /\ proc[p].at \in {"fresh", "checked", "running", "leaving"}
IsSupervisor(p) == p \in Pids /\ proc[p].at \in {"reaped", "forking", "forked", "watching"}
ChildrenOf(s) == {p \in Pids : proc[p].parent = s}

\* Mutant: A pidfile is taken for an agent that runs, whether or not it does.
IsMyProcessStale(p) == p # NoPid

\* The agent that a start would find: os.kill(pid, 0) and, with psutil, its
\* command line.
IsMyProcess(p) == Alive(p)

Unborn == [at |-> "unborn", parent |-> NoPid, childPid |-> NoPid,
           needStop |-> FALSE, told |-> FALSE, foreground |-> FALSE, status |-> "none"]

\* The functions registered by atexit run on sys.exit() and on an exception:
\* delpid() removes the pidfile, whoever wrote it.
Delpid == NoPid

-------------------------------------------------------------------------------
(* SIGTERM.                                                                *)
(* An agent that runs has handlers of its own, which end its loop.  Before  *)
(* that it has its supervisor's handler, which finds no child_pid and       *)
(* exits, or none at all; no function is registered by atexit yet.          *)
TermAgent(P, p) ==
    [P EXCEPT ![p] = IF @.at \in {"fresh", "checked"}
                     THEN [@ EXCEPT !.at = "dead", !.told = TRUE, !.status = "other"]
                     ELSE [@ EXCEPT !.told = TRUE]]

\* Mutant: The handler of a supervisor without a living child goes on.
TermSupervisorCaught(P, s) ==
    IF P[s].at = "watching"
    THEN [TermAgent(P, P[s].childPid) EXCEPT ![s].needStop = TRUE, ![s].told = TRUE]
    ELSE [P EXCEPT ![s].told = TRUE]

\* Mutant: need_stop is set, and the signal is not passed on.
TermSupervisorSilent(P, s) ==
    IF P[s].at = "watching"
    THEN [P EXCEPT ![s].needStop = TRUE, ![s].told = TRUE]
    ELSE [P EXCEPT ![s].at = "dead", ![s].told = TRUE]

\* _handle_sigterm() of a supervisor.  Without child_pid it takes itself for a
\* child and exits; with the pid of a child that was reaped, os.kill() raises
\* and the supervisor exits as after a fork that failed.
TermSupervisor(P, s) ==
    IF P[s].at = "watching"
    THEN [TermAgent(P, P[s].childPid) EXCEPT ![s].needStop = TRUE, ![s].told = TRUE]
    ELSE [P EXCEPT ![s].at = "dead", ![s].told = TRUE]

Sigterm(P, p) == IF P[p].at \in {"reaped", "forking", "forked", "watching"}
                 THEN TermSupervisor(P, p)
                 ELSE TermAgent(P, p)

\* SIGTERM from elsewhere, to a process that nobody supervises here.
Terminate(p) ==
    /\ terms < MaxTerms
    /\ Alive(p) /\ proc[p].parent = NoPid
    /\ terms' = terms + 1
    /\ proc' = Sigterm(proc, p)
    /\ UNCHANGED <<pidfile, command, lastPid, ends>>

-------------------------------------------------------------------------------
(* AgentSupervisor.start().                                                *)
\* child_pid is forgotten before each fork.
Forget(s) ==
    /\ proc[s].at = "reaped"
    /\ proc' = [proc EXCEPT ![s].at = "forking", ![s].childPid = NoPid]
    /\ UNCHANGED <<pidfile, command, lastPid, ends, terms>>

\* In the foreground the child looks at the pidfile again (agent.start());
\* the child of a daemon goes on where daemonize() left off.
Born(s, foreground) == [Unborn EXCEPT !.at = IF foreground THEN "fresh" ELSE "checked",
                                      !.parent = s]

Fork(s) ==
    /\ proc[s].at = "forking"
    /\ lastPid < MaxPid
    /\ lastPid' = lastPid + 1
    /\ proc' = [proc EXCEPT ![s].at = "forked", ![lastPid + 1] = Born(s, proc[s].foreground)]
    /\ UNCHANGED <<pidfile, command, ends, terms>>

\* The assignment of child_pid: the child is the last one forked.
Watch(s) ==
    /\ proc[s].at = "forked"
    /\ \E c \in ChildrenOf(s) :
         /\ \A d \in ChildrenOf(s) : d <= c
         /\ proc' = [proc EXCEPT ![s].at = "watching", ![s].childPid = c]
    /\ UNCHANGED <<pidfile, command, lastPid, ends, terms>>

\* Mutant: The supervisor does not wait for the end of the child: os.waitpid's answer
\* (0, 0) is not told apart.
HasEndedMaybe(s) == TRUE

HasEnded(s) == proc[proc[s].childPid].at = "dead"

\* The child has ended, for whatever reason, and need_stop is not set.
Reap(s) ==
    /\ proc[s].at = "watching"
    /\ ~proc[s].needStop
    /\ HasEnded(s)
    /\ proc' = [proc EXCEPT ![s].at = "reaped"]
    /\ UNCHANGED <<pidfile, command, lastPid, ends, terms>>

\* need_stop ends the wait; nobody waits for the child.
StopSupervising(s) ==
    /\ proc[s].at = "watching"
    /\ proc[s].needStop
    /\ proc' = [proc EXCEPT ![s].at = "dead"]
    /\ UNCHANGED <<pidfile, command, lastPid, ends, terms>>

-------------------------------------------------------------------------------
(* Daemon.start(), in the process that becomes the agent.                  *)
CheckPidfile(p) ==
    /\ proc[p].at = "fresh"
    /\ proc' = IF IsMyProcess(pidfile)
               THEN [proc EXCEPT ![p].at = "dead", ![p].status = "other"]
               ELSE [proc EXCEPT ![p].at = "checked"]
    /\ UNCHANGED <<pidfile, command, lastPid, ends, terms>>

WritePidfile(p) ==
    /\ proc[p].at = "checked"
    /\ pidfile' = p
    /\ proc' = [proc EXCEPT ![p].at = "running"]
    /\ UNCHANGED <<command, lastPid, ends, terms>>

\* The main loop ends because of a SIGTERM.
Obey(p) ==
    /\ proc[p].at = "running"
    /\ proc[p].told
    /\ proc' = [proc EXCEPT ![p].at = "leaving", ![p].status = "other"]
    /\ UNCHANGED <<pidfile, command, lastPid, ends, terms>>

\* _do_restart(): after restart_interval, or on SIGUSR1.
DoRestart(p) ==
    /\ proc[p].at = "running"
    /\ ends < MaxEnds
    /\ ends' = ends + 1
    /\ proc' = [proc EXCEPT ![p].at = "leaving", ![p].status = "restart"]
    /\ UNCHANGED <<pidfile, command, lastPid, terms>>

\* The agent is killed, by its watchdog or by the system: nothing is cleaned up.
Crash(p) ==
    /\ IsAgent(p)
    /\ ends < MaxEnds
    /\ ends' = ends + 1
    /\ proc' = [proc EXCEPT ![p].at = "dead", ![p].status = "other"]
    /\ UNCHANGED <<pidfile, command, lastPid, terms>>

Leave(p) ==
    /\ proc[p].at = "leaving"
    /\ pidfile' = Delpid
    /\ proc' = [proc EXCEPT ![p].at = "dead"]
    /\ UNCHANGED <<command, lastPid, ends, terms>>

-------------------------------------------------------------------------------
(* The commands, each a process of its own.                                *)
Goes(c, from, to) ==
    /\ command[c].at = from
    /\ command' = [command EXCEPT ![c].at = to]

\* In the foreground the look at the pidfile is left to the child.
Begin(c) ==
    /\ Goes(c, "idle", CASE CommandOf[c] = "foreground" -> "launch"
                         [] CommandOf[c] = "start" -> "check"
                         [] OTHER -> "read")
    /\ UNCHANGED <<proc, pidfile, lastPid, ends, terms>>

StartCheck(c) ==
    /\ Goes(c, "check", IF IsMyProcess(pidfile) THEN "done" ELSE "launch")
    /\ UNCHANGED <<proc, pidfile, lastPid, ends, terms>>

\* The command becomes, or daemonize() leaves behind, a process: the
\* supervisor, or the agent itself.
Launch(c) ==
    /\ Goes(c, "launch", "done")
    /\ lastPid < MaxPid
    /\ lastPid' = lastPid + 1
    /\ LET foreground == CommandOf[c] = "foreground" IN
         proc' = [proc EXCEPT ![lastPid + 1] =
                    IF AutoRestart
                    THEN [Unborn EXCEPT !.at = "forking", !.foreground = foreground]
                    ELSE Born(NoPid, foreground)]
    /\ UNCHANGED <<pidfile, ends, terms>>

\* stop() reads the pidfile and removes it before it signals anyone.
StopRead(c) ==
    /\ command[c].at = "read"
    /\ command' = [command EXCEPT ![c] = [at |-> "exists", pid |-> pidfile]]
    /\ UNCHANGED <<proc, pidfile, lastPid, ends, terms>>

StopExists(c) ==
    /\ Goes(c, "exists", IF pidfile = NoPid THEN "kill" ELSE "remove")
    /\ UNCHANGED <<proc, pidfile, lastPid, ends, terms>>

\* os.remove() raises when the agent has removed the file meanwhile, and the
\* command ends there.
StopRemove(c) ==
    /\ Goes(c, "remove", IF pidfile = NoPid THEN "done" ELSE "kill")
    /\ pidfile' = NoPid
    /\ UNCHANGED <<proc, lastPid, ends, terms>>

\* Whom stop() signals: the leader of the process group, which is the
\* supervisor, or the agent when that is gone.  os.getpgid() of a process that
\* has ended raises, and nobody is signalled.
ToSignal(p) ==
    IF ~Alive(p) THEN {}
    ELSE IF AutoRestart /\ Alive(proc[p].parent) THEN {proc[p].parent}
    ELSE {p}

StopKill(c) ==
    /\ Goes(c, "kill", IF CommandOf[c] = "restart" THEN "check" ELSE "done")
    /\ IF ToSignal(command[c].pid) = {}
       THEN UNCHANGED proc
       ELSE \E p \in ToSignal(command[c].pid) : proc' = Sigterm(proc, p)
    /\ UNCHANGED <<pidfile, lastPid, ends, terms>>

-------------------------------------------------------------------------------
Init ==
    /\ proc = [p \in Pids |-> Unborn]
    /\ pidfile = NoPid
    /\ command = [c \in Commands |-> [at |-> "idle", pid |-> NoPid]]
    /\ lastPid = 0
    /\ ends = 0
    /\ terms = 0

SupervisorStep(s) == Forget(s) \/ Fork(s) \/ Watch(s) \/ Reap(s) \/ StopSupervising(s)
AgentStep(p) == CheckPidfile(p) \/ WritePidfile(p) \/ Obey(p) \/ Leave(p)
CommandStep(c) ==
    \/ StartCheck(c) \/ Launch(c)
    \/ StopRead(c) \/ StopExists(c) \/ StopRemove(c) \/ StopKill(c)

Next ==
    \/ \E p \in Pids : SupervisorStep(p) \/ AgentStep(p)
    \/ \E p \in Pids : DoRestart(p) \/ Crash(p) \/ Terminate(p)
    \/ \E c \in Commands : Begin(c) \/ CommandStep(c)

\* The system schedules every process, and the agent's main loop ends when it is
\* told to (Agent.tla, TermEnds).
Fairness ==
    /\ \A p \in Pids : WF_vars(SupervisorStep(p) \/ AgentStep(p))
    /\ \A c \in Commands : WF_vars(CommandStep(c))

Spec == Init /\ [][Next]_vars
FairSpec == Spec /\ Fairness

-------------------------------------------------------------------------------
(* Properties.                                                             *)

\* A supervisor never has two children at a time, in whatever order its
\* children end, are killed and are replaced.
OneChild ==
    /\ TypeOK
    /\ \A s \in Pids : Cardinality({p \in ChildrenOf(s) : Alive(p)}) <= 1

\* A supervisor that was sent SIGTERM, at whatever step of its loop, does not
\* start another agent.
ToldForksNoMore ==
    [][\A s \in Pids : proc[s].told => ChildrenOf(s)' = ChildrenOf(s)]_vars

\* An agent keeps running: whatever ends it, its supervisor starts the next one,
\* unless the supervisor is told to stop or another command starts an agent.
KeepsRunning ==
    (\E s \in Pids : IsSupervisor(s)) ~>
        \/ \E p \in Pids : proc[p].at = "running" \/ proc[p].told
        \/ Cardinality({c \in Commands : command[c].at # "idle"}) > 1

\* A supervisor that was told to stop while it watched its child ends, and so
\* does the child.
StopIsObeyed ==
    \A s \in Pids : proc[s].needStop ~>
        (proc[s].at = "dead" /\ \A p \in ChildrenOf(s) : ~Alive(p))

\* There is one agent at most for each supervisor, and none comes after SIGTERM.
OneAgent == []OneChild /\ ToldForksNoMore

\* A supervisor keeps an agent running until it is told to stop, and then both end.
Supervised == KeepsRunning /\ StopIsObeyed

-------------------------------------------------------------------------------
(* What the comments of the code say.                                      *)

\* daemon.py:43, "Allow the child process to die on SIGTERM": when SIGTERM has
\* ended a supervisor, its child has been told to end too.
ChildToldToo ==
    \A s \in Pids : proc[s].at = "dead" /\ proc[s].told =>
                        \A p \in ChildrenOf(s) : Alive(p) => proc[p].told

\* daemon.py:40-41, the child is one "that will auto-restart with the
\* RESTART_EXIT_STATUS": a child is replaced when it ended with that status.
ReplacedAsExpected ==
    \A p, q \in Pids : p < q /\ proc[p].parent # NoPid /\ proc[p].parent = proc[q].parent =>
                            proc[p].status = "restart"

\* daemon.py:309, "Get the status of the daemon. Exits with 0 if running, 1 if
\* not": while an agent runs that nobody told to stop, and no command is under
\* way, the pidfile names a process that exists.
StatusIsTrue ==
    (\A c \in Commands : command[c].at \in {"idle", "done"}) =>
        \A p \in Pids : proc[p].at = "running" /\ ~proc[p].told => Alive(pidfile)

===============================================================================
