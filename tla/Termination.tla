---------------------------- MODULE Termination ----------------------------
(***************************************************************************)
(* How the parent brings down the process tree of one child on Unix        *)
(* (extensions/subagents/rpc.ts: watchProcessTree, terminateProcess,       *)
(* signalProcessTree, pidIsAlive), composed with the operating system:     *)
(* processes fork, leave their group, lose their parent, ignore SIGTERM,   *)
(* exit, and leave their pid to a stranger.                                *)
(*                                                                         *)
(* A pid is named by the process that first had it.  The child leads a     *)
(* process group of its own at the root of the session tree only; a nested *)
(* child stays in the group of its parent, which it does not own.          *)
(***************************************************************************)
EXTENDS FiniteSets

CONSTANTS
    Root,         \* the child process the parent spawned
    Descendants,  \* the processes it and its descendants may fork
    Immune,       \* processes that ignore SIGTERM
    Stuck         \* processes that cannot be killed at all

ASSUME ProcessAssumption ==
    /\ Root \notin Descendants
    /\ Immune \subseteq Descendants \cup {Root}
    /\ Stuck \subseteq Immune

Processes == Descendants \cup {Root}

VARIABLES
    \* the operating system
    born, alive,
    linked,    \* descendants ps still shows below the root pid
    inGroup,   \* members of the group the root leads or led, if it does
    reused,    \* pids that now name a stranger
    signalled, \* process -> the strongest signal it was sent
    \* the parent
    sampling,        \* the tree a ps in flight has seen, or NoSample
    terminationPids, \* the pids whose death completes the termination
    phase,           \* "watching", "term", "kill", "done"
    step,            \* of signalProcessTree(): "idle", "list", "each"
    targets,         \* the pids it has yet to signal one by one
    expired,         \* did the final deadline end the termination?
    \* history
    gone,            \* pids whose process was dead when ps last listed the tree
    strangersKilled  \* pids sent SIGKILL while they named a stranger

system == <<born, alive, linked, inGroup, reused>>
signalling == <<step, targets>>
history == <<gone, strangersKilled>>
vars == <<system, signalled, sampling, terminationPids, phase, signalling, expired, history>>

NoSample == {}

\* parseProcessTree(): the root pid, whether or not anything runs under it,
\* and what descends from it
ProcessTree == {Root} \cup linked

Init ==
    /\ born = {Root} /\ alive = {Root}
    /\ linked = {}
    /\ inGroup \in {{Root}, {}}
    /\ reused = {}
    /\ signalled = [p \in Processes |-> "none"]
    /\ sampling = NoSample
    /\ terminationPids = {}
    /\ phase = "watching"
    /\ step = "idle" /\ targets = {}
    /\ expired = FALSE
    /\ gone = {} /\ strangersKilled = {}

-----------------------------------------------------------------------------
(* The operating system.                                                   *)

ParentFrame ==
    UNCHANGED <<sampling, terminationPids, phase, signalling, expired, history>>

\* A process about to be killed does not get to fork any more.
Fork(parent, d) ==
    /\ parent \in alive /\ signalled[parent] # "kill"
    /\ d \notin born
    /\ born' = born \cup {d}
    /\ alive' = alive \cup {d}
    /\ linked' = IF parent \in ProcessTree THEN linked \cup {d} ELSE linked
    /\ inGroup' = IF parent \in inGroup THEN inGroup \cup {d} ELSE inGroup
    /\ UNCHANGED <<reused, signalled>> /\ ParentFrame

\* setsid(): a descendant leaves the group.
LeaveGroup(d) ==
    /\ d \in alive \cap inGroup /\ signalled[d] # "kill"
    /\ inGroup' = inGroup \ {d}
    /\ UNCHANGED <<born, alive, linked, reused, signalled>> /\ ParentFrame

\* Its parent, short of the root, exits: init adopts it.
Orphan(d) ==
    /\ d \in alive \cap linked
    /\ linked' = linked \ {d}
    /\ UNCHANGED <<born, alive, inGroup, reused, signalled>> /\ ParentFrame

Dies(p) ==
    /\ alive' = alive \ {p}
    /\ inGroup' = inGroup \ {p}
    /\ linked' = IF p = Root THEN {} ELSE linked \ {p}
    /\ UNCHANGED <<born, reused, signalled>> /\ ParentFrame

Exit(p) == p \in alive /\ p \notin Stuck /\ Dies(p)

ObeysSignal(p) ==
    /\ p \in alive
    /\ \/ signalled[p] = "term" /\ p \notin Immune
       \/ signalled[p] = "kill" /\ p \notin Stuck
    /\ Dies(p)

\* A pid is free once its process is gone, unless a group still bears it.
Reuse(p) ==
    /\ p \in born \ alive
    /\ p \notin reused
    /\ p = Root => inGroup = {}
    /\ reused' = reused \cup {p}
    /\ UNCHANGED <<born, alive, linked, inGroup, signalled>> /\ ParentFrame

-----------------------------------------------------------------------------
(* The parent.  signalProcessTree() is synchronous, so nothing else of the *)
(* parent runs until it returns; the system does not wait for it between   *)
(* the signal to the group, the listing and the signal to each pid.        *)

\* sampleWatchedTrees(): ps runs aside; it may fail, leaving the root pid.
BeginSample ==
    /\ phase = "watching" /\ sampling = NoSample
    /\ sampling' \in {ProcessTree, {Root}}
    /\ UNCHANGED <<system, signalled, terminationPids, phase, signalling, expired, history>>

\* The watcher keeps only the latest sample.
DeliverSample ==
    /\ phase = "watching" /\ sampling # NoSample
    /\ terminationPids' = sampling
    /\ sampling' = NoSample
    /\ UNCHANGED <<system, signalled, phase, signalling, expired, history>>

Deliver(signal, pids) ==
    signalled' = [p \in Processes |->
        IF p \in alive /\ signalled[p] # "kill" /\ p \in pids THEN signal ELSE signalled[p]]

\* mutant: the group is not signalled
SkipGroup(signal) == Deliver(signal, {})

SignalGroup(signal) == Deliver(signal, inGroup)

\* Every cause of a termination: stop(), a failure, the 'close' event.
TerminateProcess ==
    /\ phase = "watching"
    /\ phase' = "term"
    /\ sampling' = NoSample
    /\ SignalGroup("term")
    /\ step' = "list"
    /\ UNCHANGED <<system, terminationPids, targets, expired, history>>

\* mutant: SIGKILL for every pid ever tracked
ForceTracked(current) == current \cup terminationPids

\* The pids signalProcessTree() signals one by one, given the fresh tree
SignalTargets(current) == current

\* processTreePids(): a synchronous ps, which may fail, leaving the root pid.
ListTree ==
    /\ step = "list"
    /\ step' = "each"
    /\ \E current \in {ProcessTree, {Root}} :
          /\ targets' = SignalTargets(current)
          /\ terminationPids' = IF phase = "term" THEN terminationPids \cup current
                                                  ELSE terminationPids
    /\ gone' = born \ alive
    /\ UNCHANGED <<system, signalled, sampling, phase, expired, strangersKilled>>

\* process.kill(target): parseProcessTree() lists the root last.
SignalPid(p) ==
    /\ step = "each" /\ p \in targets
    /\ p = Root => targets = {Root}
    /\ targets' = targets \ {p}
    /\ step' = IF targets = {p} THEN "idle" ELSE "each"
    /\ Deliver(phase, {p})
    /\ strangersKilled' = IF phase = "kill" THEN strangersKilled \cup ({p} \cap reused)
                                            ELSE strangersKilled
    /\ UNCHANGED <<system, sampling, terminationPids, phase, expired, gone>>

PidIsAlive(p) == p \in alive \cup reused

\* mutant: only the root is probed
RootDead == ~PidIsAlive(Root)

TreeDead == \A p \in terminationPids : ~PidIsAlive(p)

GroupDead == inGroup = {}

PollFinishes ==
    /\ phase \in {"term", "kill"} /\ step = "idle"
    /\ TreeDead /\ GroupDead
    /\ phase' = "done"
    /\ UNCHANGED <<system, signalled, sampling, terminationPids, signalling, expired, history>>

\* killTimer
ForceKill ==
    /\ phase = "term" /\ step = "idle"
    /\ phase' = "kill"
    /\ SignalGroup("kill")
    /\ step' = "list"
    /\ UNCHANGED <<system, sampling, terminationPids, targets, expired, history>>

\* mutant: the final bound is never armed
DeadlineNotArmed == phase = "armed" /\ UNCHANGED vars

\* terminalCleanupTimer
Deadline ==
    /\ phase = "kill" /\ step = "idle"
    /\ phase' = "done"
    /\ expired' = TRUE
    /\ UNCHANGED <<system, signalled, sampling, terminationPids, signalling, history>>

-----------------------------------------------------------------------------
SystemNext ==
    \/ \E parent \in Processes, d \in Descendants : Fork(parent, d)
    \/ \E d \in Descendants : LeaveGroup(d) \/ Orphan(d)
    \/ \E p \in Processes : Exit(p) \/ ObeysSignal(p) \/ Reuse(p)

ParentNext ==
    \/ BeginSample \/ DeliverSample \/ TerminateProcess
    \/ ListTree \/ \E p \in Processes : SignalPid(p)
    \/ PollFinishes \/ ForceKill \/ Deadline

Next == SystemNext \/ ParentNext

(* signalProcessTree() runs on (its ps has a timeout), the event loop runs  *)
(* its interval and its timers, and the kernel delivers signals; nothing is *)
(* assumed of when or whether a termination begins.                         *)
Fairness ==
    /\ WF_vars(ListTree)
    /\ WF_vars(\E p \in Processes : SignalPid(p))
    /\ WF_vars(PollFinishes)
    /\ WF_vars(ForceKill)
    /\ WF_vars(Deadline)
    /\ \A p \in Processes : WF_vars(ObeysSignal(p))

Spec == Init /\ [][Next]_vars /\ Fairness

-----------------------------------------------------------------------------
(* Properties.                                                             *)

\* Type invariant.
TypeOK ==
    /\ Root \in born /\ born \subseteq Processes /\ alive \subseteq born
    /\ linked \subseteq alive /\ inGroup \subseteq alive
    /\ reused \subseteq born \ alive
    /\ signalled \in [Processes -> {"none", "term", "kill"}]
    /\ sampling \subseteq born /\ terminationPids \subseteq born
    /\ phase \in {"watching", "term", "kill", "done"}
    /\ step \in {"idle", "list", "each"} /\ targets \subseteq born
    /\ step # "idle" => phase \in {"term", "kill"}
    /\ (step = "each") <=> (targets # {})
    /\ expired \in BOOLEAN
    /\ gone \subseteq born \ alive /\ strangersKilled \subseteq Processes

\* The promise behind "a caller's fallback can never overlap this child"
\* (signaling.ts): unless the final deadline expired, terminationDone
\* resolves only when the root, every descendant it was seen with and every
\* member of the owned group are dead, and none of them comes back.
DoneMeansDead ==
    (phase = "done" /\ ~expired) =>
        /\ Root \notin alive
        /\ terminationPids \cap alive = {}
        /\ inGroup = {}

\* The comment of signalProcessTree(): "Individually signal only freshly
\* verified descendants so a stale cached numeric PID can never receive
\* SIGKILL".  A descendant that dies after ps listed it may still lose its pid
\* to a stranger before its turn comes; but no stranger is killed behind the
\* pid of a descendant that was already dead when ps listed the tree, however
\* long the parent had tracked that pid.
StalePidsSpared == strangersKilled \cap gone \subseteq {Root}

\* "This final bound prevents shutdown from waiting forever on an unkillable
\* process": a termination once begun resolves.
TerminationResolves == phase = "term" ~> phase = "done"

\* Escalation stays armed while the owned group exists: of its members only
\* the unkillable survive a termination, late forks included.
OwnedGroupDies == phase = "term" ~> inGroup \subseteq Stuck
=============================================================================
