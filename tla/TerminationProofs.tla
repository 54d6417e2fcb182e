------------------------- MODULE TerminationProofs -------------------------
(* Type correctness and the two safety properties of Termination, for      *)
(* every set of descendants.                                               *)
EXTENDS Termination, TLAPS

\* What signalProcessTree() records as sent is a signal.
LEMMA DeliverType ==
  ASSUME NEW pids, NEW signal \in {"term", "kill"},
         signalled \in [Processes -> {"none", "term", "kill"}],
         Deliver(signal, pids)
  PROVE  signalled' \in [Processes -> {"none", "term", "kill"}]
  BY DEF Deliver

\* Every reachable state is well typed: dead processes are neither linked nor
\* in the group, the parent only tracks pids that were really born, and
\* signalProcessTree() is at work only within a termination.
THEOREM TypeCorrect == Spec => []TypeOK
<1>1. Init => TypeOK
  BY ProcessAssumption DEF Init, TypeOK, NoSample, Processes
<1>2. TypeOK /\ [Next]_vars => TypeOK'
  <2> SUFFICES ASSUME TypeOK, [Next]_vars PROVE TypeOK'
    OBVIOUS
  <2> USE DEF TypeOK, ProcessTree, ParentFrame, signalling, history
  <2>1. ASSUME NEW parent \in Processes, NEW d \in Descendants, Fork(parent, d)
        PROVE TypeOK'
    BY <2>1 DEF Fork, Processes
  <2>2. ASSUME NEW d \in Descendants, LeaveGroup(d) \/ Orphan(d) PROVE TypeOK'
    BY <2>2 DEF LeaveGroup, Orphan
  <2>3. ASSUME NEW p \in Processes, Exit(p) \/ ObeysSignal(p) PROVE TypeOK'
    BY <2>3 DEF Exit, ObeysSignal, Dies
  <2>4. ASSUME NEW p \in Processes, Reuse(p) PROVE TypeOK'
    BY <2>4 DEF Reuse
  <2>5. CASE BeginSample
    BY <2>5 DEF BeginSample, system
  <2>6. CASE DeliverSample
    BY <2>6 DEF DeliverSample, system, NoSample
  <2>7. CASE TerminateProcess
    <3>1. signalled' \in [Processes -> {"none", "term", "kill"}]
      BY <2>7, DeliverType DEF TerminateProcess, SignalGroup
    <3> QED
      BY <2>7, <3>1 DEF TerminateProcess, system, NoSample
  <2>8. CASE ListTree
    <3>1. PICK current \in {ProcessTree, {Root}} :
            /\ targets' = current
            /\ terminationPids' = IF phase = "term" THEN terminationPids \cup current
                                                    ELSE terminationPids
      BY <2>8 DEF ListTree, SignalTargets
    <3>2. current \subseteq born /\ Root \in current
      OBVIOUS
    <3> QED
      BY <2>8, <3>1, <3>2 DEF ListTree, system
  <2>9. ASSUME NEW p \in Processes, SignalPid(p) PROVE TypeOK'
    <3>1. signalled' \in [Processes -> {"none", "term", "kill"}]
      BY <2>9, DeliverType DEF SignalPid
    <3>2. (step' = "each") <=> (targets' # {})
      BY <2>9 DEF SignalPid
    <3>3. /\ step' \in {"idle", "each"} /\ targets' \subseteq born
          /\ strangersKilled' \subseteq Processes
          /\ UNCHANGED <<system, sampling, terminationPids, phase, expired, gone>>
      BY <2>9 DEF SignalPid
    <3>4. phase \in {"term", "kill"}
      BY <2>9 DEF SignalPid
    <3> QED
      BY <3>1, <3>2, <3>3, <3>4 DEF system
  <2>10. CASE PollFinishes
    BY <2>10 DEF PollFinishes, system
  <2>11. CASE ForceKill
    <3>1. signalled' \in [Processes -> {"none", "term", "kill"}]
      BY <2>11, DeliverType DEF ForceKill, SignalGroup
    <3> QED
      BY <2>11, <3>1 DEF ForceKill, system
  <2>12. CASE Deadline
    BY <2>12 DEF Deadline, system
  <2>13. CASE UNCHANGED vars
    BY <2>13 DEF vars, system
  <2> QED
    BY <2>1, <2>2, <2>3, <2>4, <2>5, <2>6, <2>7, <2>8, <2>9, <2>10, <2>11, <2>12, <2>13
    DEF Next, SystemNext, ParentNext
<1> QED
  BY <1>1, <1>2, PTL DEF Spec

\* A termination that was not cut short by its deadline resolves only when
\* the root, all tracked descendants and the owned group are dead; forks,
\* late samples and reused pids do not change that afterwards.  The poll can
\* only run once the first signalProcessTree() has added the listed tree, the
\* root included, to the tracked pids.
THEOREM CleanupBeforeResolution == Spec => []DoneMeansDead
<1> DEFINE Tracked ==
             /\ phase = "term" /\ step # "list" => Root \in terminationPids
             /\ phase \in {"kill", "done"} => Root \in terminationPids
<1>1. Init => Tracked /\ DoneMeansDead
  BY DEF Init, DoneMeansDead
<1>2. TypeOK /\ Tracked /\ DoneMeansDead /\ [Next]_vars => (Tracked /\ DoneMeansDead)'
  <2> SUFFICES ASSUME TypeOK, Tracked, DoneMeansDead, [Next]_vars
               PROVE (Tracked /\ DoneMeansDead)'
    OBVIOUS
  <2> USE DEF DoneMeansDead, ParentFrame, signalling
  \* A fork adds neither a tracked pid nor, to an empty group, a member.
  <2>1. ASSUME NEW parent \in Processes, NEW d \in Descendants, Fork(parent, d)
        PROVE (Tracked /\ DoneMeansDead)'
    BY <2>1, ProcessAssumption DEF Fork, TypeOK
  <2>2. ASSUME NEW d \in Descendants, LeaveGroup(d) \/ Orphan(d)
        PROVE (Tracked /\ DoneMeansDead)'
    BY <2>2 DEF LeaveGroup, Orphan
  <2>3. ASSUME NEW p \in Processes, Exit(p) \/ ObeysSignal(p)
        PROVE (Tracked /\ DoneMeansDead)'
    BY <2>3 DEF Exit, ObeysSignal, Dies
  <2>4. ASSUME NEW p \in Processes, Reuse(p) PROVE (Tracked /\ DoneMeansDead)'
    BY <2>4 DEF Reuse
  <2>5. CASE BeginSample \/ DeliverSample
    BY <2>5 DEF BeginSample, DeliverSample
  <2>6. CASE TerminateProcess
    BY <2>6 DEF TerminateProcess
  <2>7. CASE ListTree
    BY <2>7 DEF ListTree, ProcessTree, TypeOK
  <2>8. ASSUME NEW p \in Processes, SignalPid(p) PROVE (Tracked /\ DoneMeansDead)'
    BY <2>8 DEF SignalPid, TypeOK
  <2>9. CASE PollFinishes
    BY <2>9 DEF PollFinishes, TreeDead, GroupDead, PidIsAlive, system
  <2>10. CASE ForceKill
    BY <2>10 DEF ForceKill, system
  <2>11. CASE Deadline
    BY <2>11 DEF Deadline
  <2>12. CASE UNCHANGED vars
    BY <2>12 DEF vars, system
  <2> QED
    BY <2>1, <2>2, <2>3, <2>4, <2>5, <2>6, <2>7, <2>8, <2>9, <2>10, <2>11, <2>12
    DEF Next, SystemNext, ParentNext
<1> QED
  BY <1>1, <1>2, TypeCorrect, PTL DEF Spec

\* However the system interleaves with the listing and the signals to the
\* listed pids, SIGKILL never reaches a stranger behind the pid of a
\* descendant that was dead when the tree was listed: the listing holds no
\* such pid, no pid is added after it, and a listed process that dies later
\* is not among those the listing found dead.
THEOREM DescendantPidsSafe == Spec => []StalePidsSpared
<1> DEFINE FreshTargets == phase = "kill" /\ step = "each" => targets \cap gone \subseteq {Root}
           Once == /\ phase \in {"watching", "term"} => strangersKilled = {}
                   /\ phase = "kill" /\ step = "list" => strangersKilled = {}
           IInv == FreshTargets /\ Once /\ StalePidsSpared
<1>1. Init => IInv
  BY DEF Init, StalePidsSpared
<1>2. TypeOK /\ IInv /\ [Next]_vars => IInv'
  <2> SUFFICES ASSUME TypeOK, IInv, [Next]_vars PROVE IInv'
    OBVIOUS
  <2> USE DEF StalePidsSpared
  <2>1. CASE ListTree
    <3>1. PICK current \in {ProcessTree, {Root}} : targets' = current
      BY <2>1 DEF ListTree, SignalTargets
    <3>2. current \cap (born \ alive) \subseteq {Root}
      BY DEF TypeOK, ProcessTree
    <3>3. phase \in {"term", "kill"} /\ strangersKilled = {}
      BY <2>1 DEF ListTree, TypeOK
    <3> QED
      BY <2>1, <3>1, <3>2, <3>3 DEF ListTree
  <2>2. ASSUME NEW p \in Processes, SignalPid(p) PROVE IInv'
    BY <2>2 DEF SignalPid, TypeOK
  <2>3. CASE TerminateProcess \/ ForceKill
    BY <2>3 DEF TerminateProcess, ForceKill, history
  <2>4. CASE PollFinishes \/ Deadline
    BY <2>4 DEF PollFinishes, Deadline, signalling, history
  <2>5. CASE SystemNext \/ BeginSample \/ DeliverSample \/ UNCHANGED vars
    <3>1. UNCHANGED <<phase, signalling, history>>
      BY <2>5 DEF SystemNext, vars, Fork, LeaveGroup, Orphan, Exit, ObeysSignal, Dies,
                  Reuse, ParentFrame, BeginSample, DeliverSample
    <3> QED
      BY <3>1 DEF signalling, history
  <2> QED
    BY <2>1, <2>2, <2>3, <2>4, <2>5 DEF Next, ParentNext
<1> QED
  BY <1>1, <1>2, TypeCorrect, PTL DEF Spec
=============================================================================
