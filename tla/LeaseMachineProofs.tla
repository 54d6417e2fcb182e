------------------------- MODULE LeaseMachineProofs -------------------------
(* Type correctness and the safety of LeaseMachine, for any number of      *)
(* handlers and any bounds.                                                *)
EXTENDS LeaseMachine, TLAPS

(* Leases are known by their identity: what a handler read is the installed *)
(* lease if it has the same identity.                                      *)
IdentityInv ==
    /\ active.id <= leases
    /\ ~Installed => active = NoLease
    /\ \A h \in Handlers :
          /\ seen[h].owner.id <= leases
          /\ seen[h].owner.id = 0 => seen[h].owner = NoLease
          /\ seen[h].live /\ Same(active, seen[h].owner) => seen[h].owner = active

\* A decision that still stands was known to every handler whose epoch is
\* the current one.
FreshInv == \A h \in Handlers : seen[h].live /\ seen[h].epoch = epoch => standing \subseteq seen[h].standing

\* A manual choice made over a lease, or before it, is part of it.
ManualInv == "override" \in standing /\ Installed => active.manual

IInv == /\ TypeOK /\ IdentityInv /\ FreshInv /\ ManualInv
        /\ OverrideStands /\ BoundaryStands /\ AcceptedKept /\ OnlyOwnedWorkRuns

-----------------------------------------------------------------------------
\* The values that stand for "none" are typed.
LEMMA NoneTyped ==
  /\ NoLease \in Lease /\ NoLease.id = 0
  /\ NoWorker \in Worker
  /\ NothingSeen \in Seen /\ ~NothingSeen.live /\ NothingSeen.epoch = 0
  /\ NothingSeen.owner = NoLease
<1>1. NoLease \in Lease /\ NoLease.id = 0
  BY DEF NoLease, Lease, Phases
<1>2. NoWorker \in Worker
  BY DEF NoWorker, Worker
<1> QED
  BY <1>1, <1>2 DEF NothingSeen, Seen

\* What clearing or setting the operator's choice makes of a lease.
LEMMA Remade ==
  \A l \in Lease, i \in Nat, b \in BOOLEAN :
     LET m == [l EXCEPT !.id = i, !.manual = b]
     IN  m \in Lease /\ m.id = i /\ m.task = l.task /\ m.manual = b /\ m.log = l.log
  BY DEF Lease

\* What the type invariant says of the numbers, and of what handlers read.
LEMMA Facts ==
  ASSUME TypeOK
  PROVE  /\ epoch \in Nat /\ leases \in Nat /\ active \in Lease /\ active.id \in Nat
         /\ active.log \subseteq Nat
         /\ \A h \in Handlers : /\ seen[h] \in Seen /\ seen[h].owner \in Lease
                               /\ seen[h].owner.id \in Nat
                               /\ seen[h].epoch \in Nat /\ seen[h].epoch <= epoch
<1>1. \A l \in Lease : l.id \in Nat /\ l.log \subseteq Nat
  BY DEF Lease
<1>2. \A s \in Seen : s.owner \in Lease /\ s.epoch \in Nat
  BY DEF Seen
<1> QED
  BY <1>1, <1>2 DEF TypeOK

\* The inductive invariant holds initially ...
LEMMA InvInit == Init => IInv
<1> SUFFICES ASSUME Init PROVE IInv
  OBVIOUS
<1>1. \A h \in Handlers : seen[h] = NothingSeen
  BY DEF Init
<1>2. TypeOK
  <2>1. seen \in [Handlers -> Seen] /\ \A h \in Handlers : seen[h].epoch <= epoch
    BY <1>1, NoneTyped DEF Init
  <2> QED
    BY <2>1, NoneTyped DEF Init, TypeOK
<1>3. IdentityInv
  BY <1>1, NoneTyped DEF Init, IdentityInv, Installed, Same
<1>4. FreshInv /\ ManualInv /\ OverrideStands /\ BoundaryStands /\ AcceptedKept
        /\ OnlyOwnedWorkRuns
  BY DEF Init, FreshInv, ManualInv, OverrideStands, BoundaryStands, AcceptedKept,
         OnlyOwnedWorkRuns
<1> QED
  BY <1>2, <1>3, <1>4 DEF IInv

\* Dropping or taking the secondary child leaves at most the new one running.
LEMMA DiscardLeavesNone ==
  ASSUME OnlyOwnedWorkRuns, DiscardSecondary PROVE running' = {} /\ secondary' = NoWorker
  BY DEF OnlyOwnedWorkRuns, DiscardSecondary

\* What handlers have read changes only by being read anew or forgotten.
SeenKept == \A i \in Handlers : seen'[i] = seen[i] \/ seen'[i] = NothingSeen

LEMMA SeenStep ==
  ASSUME TypeOK, epoch' \in Nat, epoch <= epoch',
         UNCHANGED seen \/ \E h \in Handlers : Forget(h)
  PROVE  SeenKept /\ seen' \in [Handlers -> Seen] /\ \A i \in Handlers : seen'[i].epoch <= epoch'
<1>1. SeenKept /\ seen' \in [Handlers -> Seen]
  BY NoneTyped DEF SeenKept, TypeOK, Forget
<1>2. \A i \in Handlers : seen'[i].epoch <= epoch'
  BY <1>1, Facts, NoneTyped DEF SeenKept
<1> QED
  BY <1>1, <1>2

\* A lease that is installed is the old one, none, or a new object.
LEMMA IdentityStep ==
  ASSUME TypeOK, IdentityInv, SeenKept,
         \/ UNCHANGED <<active, leases>>
         \/ active' = NoLease /\ (leases' = leases \/ leases' = leases + 1)
         \/ active'.id = leases + 1 /\ leases' = leases + 1
  PROVE  IdentityInv'
<1>1. leases' \in Nat /\ leases <= leases' /\ active'.id <= leases' /\ (~Installed' => active' = NoLease)
  BY Facts, NoneTyped DEF IdentityInv, Installed
<1>2. ASSUME NEW h \in Handlers
      PROVE  /\ seen'[h].owner.id <= leases'
             /\ seen'[h].owner.id = 0 => seen'[h].owner = NoLease
  BY <1>1, Facts, NoneTyped DEF IdentityInv, SeenKept
<1>3. ASSUME NEW h \in Handlers, seen'[h].live, Same(active', seen'[h].owner)
      PROVE  seen'[h].owner = active'
  <2>1. seen'[h] = seen[h] /\ seen[h].live
    BY <1>3, NoneTyped DEF SeenKept
  <2> QED
    BY <1>3, <2>1, Facts, NoneTyped DEF IdentityInv, Same
<1> QED
  BY <1>1, <1>2, <1>3 DEF IdentityInv, Same, Installed

\* After an event that advances the epoch, no handler's epoch is current.
LEMMA FreshStep ==
  ASSUME TypeOK, SeenKept, epoch' = epoch + 1 PROVE FreshInv'
<1> SUFFICES ASSUME NEW h \in Handlers, seen'[h].live, seen'[h].epoch = epoch' PROVE FALSE
  BY DEF FreshInv
<1>1. seen'[h] = seen[h]
  BY NoneTyped DEF SeenKept
<1> QED
  BY <1>1, Facts

\* ... and is preserved by every step.
LEMMA InvStep == IInv /\ [Next]_vars => IInv'
<1> SUFFICES ASSUME IInv, [Next]_vars PROVE IInv'
  OBVIOUS
<1>0. /\ TypeOK /\ IdentityInv /\ FreshInv /\ ManualInv
      /\ OverrideStands /\ BoundaryStands /\ AcceptedKept /\ OnlyOwnedWorkRuns
  BY DEF IInv
<1> USE DEF state, work, history, NewLease, NewEpoch
<1>1. ASSUME NEW h \in Handlers, Read(h) PROVE IInv'
  <2> DEFINE now == [live |-> TRUE, owner |-> active, epoch |-> epoch, standing |-> standing]
  <2>1. now \in Seen /\ now.live /\ now.owner = active /\ now.epoch = epoch /\ now.standing = standing
    BY <1>0 DEF TypeOK, Seen
  <2>2. seen' = [seen EXCEPT ![h] = now]
    BY <1>1 DEF Read
  <2> HIDE DEF now
  <2>3. \A i \in Handlers : seen'[i] = IF i = h THEN now ELSE seen[i]
    BY <1>0, <2>2 DEF TypeOK
  <2>4. seen' \in [Handlers -> Seen] /\ \A i \in Handlers : seen'[i].epoch <= epoch
    BY <1>0, <2>1, <2>2, <2>3, Facts DEF TypeOK
  <2>5. TypeOK'
    BY <1>0, <1>1, <2>4 DEF Read, TypeOK
  <2>6. FreshInv'
    BY <1>0, <1>1, <2>1, <2>3 DEF Read, FreshInv
  <2>7. IdentityInv'
    BY <1>0, <1>1, <2>1, <2>3, Facts DEF Read, IdentityInv, Installed, Same
  <2>8. ManualInv' /\ OverrideStands' /\ BoundaryStands' /\ AcceptedKept' /\ OnlyOwnedWorkRuns'
    BY <1>0, <1>1 DEF Read, ManualInv, OverrideStands, BoundaryStands, AcceptedKept,
                      OnlyOwnedWorkRuns, Installed
  <2> QED
    BY <2>5, <2>6, <2>7, <2>8 DEF IInv
<1>2. ASSUME NEW h \in Handlers, Rejected(h) PROVE IInv'
  <2>1. SeenKept /\ seen' \in [Handlers -> Seen] /\ \A i \in Handlers : seen'[i].epoch <= epoch'
    BY <1>0, <1>2, SeenStep, Facts DEF Rejected
  <2>2. TypeOK'
    BY <1>0, <1>2, <2>1 DEF Rejected, TypeOK
  <2>3. FreshInv'
    BY <1>0, <1>2, <2>1, NoneTyped DEF Rejected, FreshInv, SeenKept
  <2>4. IdentityInv'
    BY <1>0, <1>2, <2>1, IdentityStep DEF Rejected
  <2>5. ManualInv' /\ OverrideStands' /\ BoundaryStands' /\ AcceptedKept' /\ OnlyOwnedWorkRuns'
    BY <1>0, <1>2 DEF Rejected, ManualInv, OverrideStands, BoundaryStands, AcceptedKept,
                      OnlyOwnedWorkRuns, Installed
  <2> QED
    BY <2>2, <2>3, <2>4, <2>5 DEF IInv
<1>3. ASSUME NEW h \in Handlers, StartSecondary(h) PROVE IInv'
  <2>1. PICK worker \in Worker : /\ worker.task = active.task
                                /\ secondary' = worker /\ running' = (running \ {secondary}) \cup {worker}
    <3>1. workers' \in Nat /\ active.task \in Nat
      BY <1>0, <1>3 DEF StartSecondary, TypeOK, Lease
    <3> QED
      BY <1>3, <3>1 DEF StartSecondary, Worker
  <2>2. TypeOK'
    BY <1>0, <1>3, <2>1 DEF StartSecondary, TypeOK
  <2>3. OnlyOwnedWorkRuns'
    BY <1>0, <1>3, <2>1 DEF StartSecondary, OnlyOwnedWorkRuns, Installed
  <2>4. IdentityInv' /\ FreshInv' /\ ManualInv' /\ OverrideStands' /\ BoundaryStands' /\ AcceptedKept'
    BY <1>0, <1>3 DEF StartSecondary, IdentityInv, FreshInv, ManualInv, OverrideStands,
                      BoundaryStands, AcceptedKept, Installed, Same
  <2> QED
    BY <2>2, <2>3, <2>4 DEF IInv
<1>4. ASSUME NEW h \in Handlers, NEW type \in Continuations, NEW phase \in Phases,
             Continue(h, type, phase)
      PROVE IInv'
  <2>1. /\ seen[h].owner = active /\ Installed /\ leases' = leases + 1
        /\ active' = [active EXCEPT !.id = leases', !.phase = phase, !.log = @ \cup {leases'}]
    BY <1>0, <1>4 DEF Continue, OwnsLease, IdentityInv, Installed
  <2>2. leases' \in Nat /\ leases' # 0
    BY <1>0, <2>1, Facts
  <2>3. /\ active' \in Lease /\ active'.id = leases' /\ active'.manual = active.manual
        /\ active'.log = active.log \cup {leases'} /\ active'.task = active.task
    <3>1. active \in Lease /\ phase \in Phases
      BY <1>0, Facts
    <3> QED
      BY <2>1, <2>2, <3>1 DEF Lease
  <2>4. SeenKept /\ seen' \in [Handlers -> Seen] /\ \A i \in Handlers : seen'[i].epoch <= epoch'
    BY <1>0, <1>4, SeenStep, Facts DEF Continue
  <2>5. TypeOK'
    BY <1>0, <1>4, <2>2, <2>3, <2>4 DEF Continue, TypeOK
  <2>6. FreshInv'
    BY <1>0, <1>4, <2>4, NoneTyped DEF Continue, FreshInv, SeenKept
  <2>7. IdentityInv'
    BY <1>0, <2>1, <2>3, <2>4, IdentityStep
  <2>8. ManualInv' /\ OverrideStands' /\ BoundaryStands' /\ AcceptedKept' /\ OnlyOwnedWorkRuns'
    BY <1>0, <1>4, <2>1, <2>2, <2>3
    DEF Continue, ManualInv, OverrideStands, BoundaryStands, AcceptedKept, OnlyOwnedWorkRuns, Installed
  <2> QED
    BY <2>5, <2>6, <2>7, <2>8 DEF IInv
<1>5. ASSUME NEW h \in Handlers, NEW phase \in Phases, Route(h, phase) PROVE IInv'
  <2>1. standing' = {} /\ running' = {} /\ secondary' = NoWorker
    BY <1>0, <1>5, DiscardLeavesNone DEF Route, OwnsLease, FreshInv
  <2>2. active' \in Lease /\ active'.id = leases + 1 /\ leases' = leases + 1 /\ leases' \in Nat
    BY <1>0, <1>5 DEF Route, TypeOK, Lease
  <2>3. SeenKept /\ seen' \in [Handlers -> Seen] /\ \A i \in Handlers : seen'[i].epoch <= epoch'
    BY <1>0, <1>5, SeenStep, Facts DEF Route
  <2>4. TypeOK'
    BY <1>0, <1>5, <2>1, <2>2, <2>3, NoneTyped DEF Route, TypeOK
  <2>5. IdentityInv'
    BY <1>0, <2>2, <2>3, IdentityStep
  <2>6. FreshInv' /\ ManualInv' /\ OverrideStands' /\ BoundaryStands' /\ OnlyOwnedWorkRuns'
    BY <2>1 DEF FreshInv, ManualInv, OverrideStands, BoundaryStands, OnlyOwnedWorkRuns
  <2>7. AcceptedKept'
    BY <1>5 DEF Route, AcceptedKept
  <2> QED
    BY <2>4, <2>5, <2>6, <2>7 DEF IInv
<1>6. ASSUME NEW h \in Handlers, NEW restoredMode \in Modes, NEW boundary \in BOOLEAN,
             NEW manual \in BOOLEAN, NEW task \in 0..leases,
             Restore(h, restoredMode, boundary, manual, task)
      PROVE IInv'
  <2>1. standing' = {} /\ running' = {} /\ secondary' = NoWorker
    BY <1>0, <1>6, DiscardLeavesNone DEF Restore, OwnsLease, FreshInv
  <2>2. /\ leases' = leases + 1 /\ leases' \in Nat /\ active' \in Lease
        /\ active' = NoLease \/ active'.id = leases + 1
    <3>1. CASE task = 0
      BY <1>0, <1>6, <3>1, NoneTyped DEF Restore, TypeOK
    <3>2. CASE task # 0
      BY <1>0, <1>6, <3>2 DEF Restore, TypeOK, Lease, Phases
    <3> QED
      BY <3>1, <3>2
  <2>3. epoch' \in Nat /\ epoch <= epoch'
    BY <1>0, <1>6, Facts DEF Restore
  <2>4. SeenKept /\ seen' \in [Handlers -> Seen] /\ \A i \in Handlers : seen'[i].epoch <= epoch'
    BY <1>0, <1>6, <2>3, SeenStep DEF Restore
  <2>5. TypeOK'
    BY <1>0, <1>6, <2>1, <2>2, <2>3, <2>4, NoneTyped DEF Restore, TypeOK
  <2>6. IdentityInv'
    BY <1>0, <2>2, <2>4, IdentityStep
  <2>7. FreshInv' /\ ManualInv' /\ OverrideStands' /\ BoundaryStands' /\ OnlyOwnedWorkRuns'
    BY <2>1 DEF FreshInv, ManualInv, OverrideStands, BoundaryStands, OnlyOwnedWorkRuns
  <2>8. AcceptedKept'
    BY <1>6 DEF Restore, AcceptedKept
  <2> QED
    BY <2>5, <2>6, <2>7, <2>8 DEF IInv
<1>7. ASSUME NEW newMode \in Modes, Mode(newMode) PROVE IInv'
  <2>1. epoch' = epoch + 1 /\ UNCHANGED seen
    BY <1>7 DEF Mode
  <2>2. SeenKept /\ seen' \in [Handlers -> Seen] /\ \A i \in Handlers : seen'[i].epoch <= epoch'
    BY <1>0, <2>1, SeenStep, Facts
  <2>3. FreshInv'
    BY <1>0, <2>1, <2>2, FreshStep
  <2>4. CASE newMode = "active" /\ active.manual
    <3>1. leases' = leases + 1 /\ leases' \in Nat
      BY <1>0, <1>7, <2>4, Facts DEF Mode
    <3>2. active' = [active EXCEPT !.id = leases', !.manual = FALSE]
      BY <1>7, <2>4 DEF Mode
    <3>3. /\ active' \in Lease /\ active'.id = leases' /\ active'.task = active.task
          /\ active'.log = active.log
      BY <1>0, <3>1, <3>2, Remade, Facts
    <3>4. Installed
      BY <1>0, <2>4 DEF Installed, IdentityInv, NoLease
    <3>5. TypeOK'
      BY <1>0, <1>7, <2>1, <2>2, <3>1, <3>3 DEF Mode, TypeOK
    <3>6. IdentityInv'
      BY <1>0, <2>2, <3>1, <3>3, IdentityStep
    <3>7. "override" \notin standing' /\ standing' \subseteq standing
      BY <1>7, <2>4 DEF Mode
    <3>8. ManualInv' /\ OverrideStands' /\ BoundaryStands'
      BY <1>0, <1>7, <3>7 DEF Mode, ManualInv, OverrideStands, BoundaryStands
    <3>9. AcceptedKept' /\ OnlyOwnedWorkRuns'
      BY <1>0, <1>7, <3>1, <3>3, <3>4, Facts DEF Mode, AcceptedKept, OnlyOwnedWorkRuns, Installed
    <3> QED
      BY <2>3, <3>5, <3>6, <3>8, <3>9 DEF IInv
  <2>5. CASE ~(newMode = "active" /\ active.manual)
    <3>1. UNCHANGED <<active, leases>>
      BY <1>7, <2>5 DEF Mode
    <3>2. TypeOK'
      BY <1>0, <1>7, <2>1, <2>2, <3>1 DEF Mode, TypeOK
    <3>3. IdentityInv'
      BY <1>0, <2>2, <3>1, IdentityStep
    <3>4. ManualInv' /\ OverrideStands' /\ BoundaryStands' /\ AcceptedKept' /\ OnlyOwnedWorkRuns'
      BY <1>0, <1>7, <3>1 DEF Mode, ManualInv, OverrideStands, BoundaryStands, AcceptedKept,
                             OnlyOwnedWorkRuns, Installed
    <3> QED
      BY <2>3, <3>2, <3>3, <3>4 DEF IInv
  <2> QED
    BY <2>4, <2>5
<1>8. CASE Invalidate \/ Boundary
  <2>1. epoch' = epoch + 1 /\ UNCHANGED <<seen, active, leases>>
    BY <1>8 DEF Invalidate, Boundary, BoundaryEpoch
  <2>2. SeenKept /\ seen' \in [Handlers -> Seen] /\ \A i \in Handlers : seen'[i].epoch <= epoch'
    BY <1>0, <2>1, SeenStep, Facts
  <2>3. TypeOK'
    <3>1. pendingHardBoundary' \in BOOLEAN /\ standing' \subseteq Decisions
      BY <1>0, <1>8 DEF Invalidate, Boundary, TypeOK, Decisions
    <3>2. UNCHANGED <<mode, manualOverride, work, accepted>>
      BY <1>8 DEF Invalidate, Boundary
    <3> QED
      BY <1>0, <2>1, <2>2, <3>1, <3>2, Facts DEF TypeOK
  <2>4. IdentityInv' /\ FreshInv'
    BY <1>0, <2>1, <2>2, IdentityStep, FreshStep
  <2>5. ManualInv' /\ OverrideStands' /\ BoundaryStands' /\ AcceptedKept' /\ OnlyOwnedWorkRuns'
    BY <1>0, <1>8
    DEF Invalidate, Boundary, ManualInv, OverrideStands, BoundaryStands, AcceptedKept,
        OnlyOwnedWorkRuns, Installed
  <2> QED
    BY <2>3, <2>4, <2>5 DEF IInv
<1>9. CASE Override
  <2>1. epoch' = epoch + 1 /\ UNCHANGED seen
    BY <1>9 DEF Override
  <2>2. SeenKept /\ seen' \in [Handlers -> Seen] /\ \A i \in Handlers : seen'[i].epoch <= epoch'
    BY <1>0, <2>1, SeenStep, Facts
  <2>3. running' = {} /\ secondary' = NoWorker
    BY <1>0, <1>9, DiscardLeavesNone DEF Override
  <2>4. /\ leases' \in Nat /\ active' \in Lease /\ (Installed' => active'.manual)
        /\ active'.log = active.log /\ (Installed' => Installed)
        /\ \/ UNCHANGED <<active, leases>>
           \/ active'.id = leases + 1 /\ leases' = leases + 1
    <3>1. CASE Installed
      <4>1. leases' = leases + 1 /\ leases' \in Nat
        BY <1>0, <1>9, <3>1, Facts DEF Override
      <4>2. active' = [active EXCEPT !.id = leases', !.manual = TRUE]
        BY <1>9, <3>1 DEF Override
      <4> QED
        BY <1>0, <3>1, <4>1, <4>2, Remade, Facts
    <3>2. CASE ~Installed
      BY <1>0, <1>9, <3>2, Facts DEF Override, Installed
    <3> QED
      BY <3>1, <3>2
  <2>5. TypeOK'
    BY <1>0, <1>9, <2>1, <2>2, <2>3, <2>4, NoneTyped DEF Override, TypeOK, Decisions
  <2>6. IdentityInv' /\ FreshInv'
    BY <1>0, <2>1, <2>2, <2>4, IdentityStep, FreshStep
  <2>7. ManualInv' /\ OverrideStands' /\ BoundaryStands' /\ AcceptedKept' /\ OnlyOwnedWorkRuns'
    BY <1>0, <1>9, <2>3, <2>4
    DEF Override, ManualInv, OverrideStands, BoundaryStands, AcceptedKept, OnlyOwnedWorkRuns
  <2> QED
    BY <2>5, <2>6, <2>7 DEF IInv
<1>10. CASE Reset
  <2>1. running' = {} /\ secondary' = NoWorker /\ active' = NoLease /\ epoch' = epoch + 1
    BY <1>0, <1>10, DiscardLeavesNone DEF Reset, ResetEpoch
  <2>2. SeenKept /\ seen' \in [Handlers -> Seen] /\ \A i \in Handlers : seen'[i].epoch <= epoch'
    BY <1>0, <1>10, <2>1, SeenStep, Facts DEF Reset
  <2>3. TypeOK'
    <3>1. standing' \subseteq Decisions /\ epoch' \in Nat
      BY <1>0, <1>10, <2>1, Facts DEF Reset, Decisions
    <3> QED
      BY <1>0, <1>10, <2>1, <2>2, <3>1, NoneTyped DEF Reset, TypeOK
  <2>4. IdentityInv' /\ FreshInv'
    BY <1>0, <1>10, <2>1, <2>2, IdentityStep, FreshStep DEF Reset
  <2> QED
    BY <1>10, <2>1, <2>3, <2>4, NoneTyped
    DEF Reset, IInv, ManualInv, OverrideStands, BoundaryStands, AcceptedKept, OnlyOwnedWorkRuns,
        Installed
<1>11. CASE SecondaryEnds
  BY <1>0, <1>11
  DEF SecondaryEnds, IInv, TypeOK, IdentityInv, FreshInv, ManualInv, OverrideStands, BoundaryStands,
      AcceptedKept, OnlyOwnedWorkRuns, Installed, Same
<1>12. CASE UNCHANGED vars
  BY <1>0, <1>12
  DEF vars, IInv, TypeOK, IdentityInv, FreshInv, ManualInv, OverrideStands, BoundaryStands,
      AcceptedKept, OnlyOwnedWorkRuns, Installed, Same
<1> QED
  BY <1>1, <1>2, <1>3, <1>4, <1>5, <1>6, <1>7, <1>8, <1>9, <1>10, <1>11, <1>12
  DEF Next, HandlerStep

-----------------------------------------------------------------------------
\* Every reachable state is well typed, and the epoch never goes back.
THEOREM TypeCorrect == Spec => []TypeOK
<1>1. IInv => TypeOK
  BY DEF IInv
<1> QED
  BY <1>1, InvInit, InvStep, PTL DEF Spec

\* A manual choice stays in force against every proposal that a handler made
\* from what it had read before, however long that handler waited.
THEOREM OverrideDecisionStands == Spec => []OverrideStands
<1>1. IInv => OverrideStands
  BY DEF IInv
<1> QED
  BY <1>1, InvInit, InvStep, PTL DEF Spec

\* A hard boundary stays pending until a route decided after it consumes it.
THEOREM BoundaryDecisionStands == Spec => []BoundaryStands
<1>1. IInv => BoundaryStands
  BY DEF IInv
<1> QED
  BY <1>1, InvInit, InvStep, PTL DEF Spec

\* No accepted advance is lost: handlers that read the same lease do not
\* overwrite each other.
THEOREM AdvancesAreKept == Spec => []AcceptedKept
<1>1. IInv => AcceptedKept
  BY DEF IInv
<1> QED
  BY <1>1, InvInit, InvStep, PTL DEF Spec

\* No discarded task's classification goes on running.
THEOREM WorkIsOwned == Spec => []OnlyOwnedWorkRuns
<1>1. IInv => OnlyOwnedWorkRuns
  BY DEF IInv
<1> QED
  BY <1>1, InvInit, InvStep, PTL DEF Spec
=============================================================================
