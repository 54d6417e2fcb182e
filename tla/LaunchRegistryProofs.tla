------------------------ MODULE LaunchRegistryProofs ------------------------
(* Type correctness, the limit on live children and the completeness of    *)
(* the shutdown, for any number of requests and every limit.               *)
EXTENDS LaunchRegistry, FiniteSetTheorems, TLAPS

\* The launches that hold a reserved slot.
Holders == {c \in Creates : launch[c] \in Reserved}

\* The counter counts them.
SlotsCounted == pendingCreates = Cardinality(Holders)

(* Where a request's child is; what the shutdown waits for covers every     *)
(* live child.                                                             *)
ChildInv ==
    \A c \in Creates :
        /\ launch[c] \in {"none", "preparing", "full"} => root[c] = "none"
        /\ launch[c] \in {"starting", "unwinding", "created"} => root[c] # "none"
        /\ c \in children => root[c] # "none"
        /\ root[c] = "none" => cleanup[c] = "none"
        /\ cleanup[c] = "done" /\ IsAlive(c) => c \in Unkillable
        /\ phase = "stopping" /\ IsAlive(c) => c \in awaited

IInv == /\ TypeOK /\ SlotsCounted /\ ChildInv
        /\ LimitHolds /\ LiveChildRegistered /\ ShutdownLeavesNoChild

-----------------------------------------------------------------------------
\* Every set of requests is finite, and a part of it is not larger.
LEMMA SetsOfCreates ==
  ASSUME NEW S \in SUBSET Creates
  PROVE  /\ IsFiniteSet(S) /\ Cardinality(S) \in Nat
         /\ \A T \in SUBSET S : Cardinality(T) <= Cardinality(S)
BY RegistryAssumption, FS_Subset, FS_CardinalityType

\* One launch that starts, keeps or ends its hold of a slot changes the number
\* of holders by one, nothing or minus one.
LEMMA HoldersChange ==
  ASSUME TypeOK, NEW c \in Creates, NEW where \in Launches, Set(c, where)
  PROVE  /\ c \notin Holders /\ where \in Reserved => Cardinality(Holders') = Cardinality(Holders) + 1
         /\ c \in Holders /\ where \notin Reserved => /\ Cardinality(Holders') = Cardinality(Holders) - 1
                                                      /\ Cardinality(Holders) > 0
         /\ (c \in Holders <=> where \in Reserved) => Holders' = Holders
<1>1. IsFiniteSet(Holders) /\ IsFiniteSet(Holders')
  BY SetsOfCreates DEF Holders
<1>2. CASE c \notin Holders /\ where \in Reserved
  <2>1. Holders' = Holders \cup {c}
    BY <1>2 DEF Holders, Set, TypeOK
  <2> QED
    BY <1>1, <1>2, <2>1, FS_AddElement
<1>3. CASE c \in Holders /\ where \notin Reserved
  <2>1. Holders' = Holders \ {c}
    BY <1>3 DEF Holders, Set, TypeOK
  <2>2. Cardinality(Holders) # 0 /\ Cardinality(Holders) \in Nat
    BY <1>1, <1>3, FS_EmptySet, FS_CardinalityType
  <2> QED
    BY <1>1, <1>3, <2>1, <2>2, FS_RemoveElement
<1>4. CASE c \in Holders <=> where \in Reserved
  BY <1>4 DEF Holders, Set, TypeOK
<1> QED
  BY <1>2, <1>3, <1>4

\* Pruning keeps the live children.
LEMMA PruneKeepsLive ==
  ASSUME NEW cs, NEW kept, Prune(cs, kept)
  PROVE  kept \subseteq cs /\ \A c \in cs : IsAlive(c) => c \in kept
BY DEF Prune, Active

\* Room for one more launch is room for one more live child: whoever is alive
\* is registered, and whoever may spawn holds a slot.
LEMMA RoomIsEnough ==
  ASSUME IInv, ~shuttingDown, NEW kept \in SUBSET children, Prune(children, kept), Room(kept)
  PROVE  Cardinality(Occupying) + 1 <= ChildLimit
<1>1. Occupying \subseteq Active(kept) \cup Holders
  BY PruneKeepsLive DEF IInv, Occupying, Active, Holders, Reserved, LiveChildRegistered, shuttingDown
<1>2. Active(kept) \in SUBSET Creates /\ Holders \in SUBSET Creates
  BY DEF Active, Holders, IInv, TypeOK
<1>3. Cardinality(Active(kept) \cup Holders) <= Cardinality(Active(kept)) + Cardinality(Holders)
  <2>1. IsFiniteSet(Active(kept)) /\ IsFiniteSet(Holders)
    BY <1>2, SetsOfCreates
  <2>2. Active(kept) \cap Holders \in SUBSET Creates
    BY <1>2
  <2>3. /\ Cardinality(Active(kept) \cap Holders) \in Nat
        /\ Cardinality(Active(kept)) \in Nat /\ Cardinality(Holders) \in Nat
    BY <1>2, <2>2, SetsOfCreates
  <2>4. Cardinality(Active(kept) \cup Holders)
          = Cardinality(Active(kept)) + Cardinality(Holders) - Cardinality(Active(kept) \cap Holders)
    BY <2>1, FS_Union
  <2> QED
    BY <2>3, <2>4
<1>4. Cardinality(Occupying) <= Cardinality(Active(kept) \cup Holders)
  BY <1>1, <1>2, SetsOfCreates
<1>5. /\ Cardinality(Occupying) \in Nat /\ Cardinality(Active(kept) \cup Holders) \in Nat
      /\ Cardinality(Active(kept)) \in Nat /\ Cardinality(Holders) \in Nat
  <2>1. Occupying \in SUBSET Creates
    BY DEF Occupying
  <2> QED
    BY <1>2, <2>1, SetsOfCreates
<1> QED
  BY <1>3, <1>4, <1>5, RegistryAssumption DEF IInv, Room, SlotsCounted

\* A step after which no more roots live, or launches prepare, keeps the limit.
LEMMA OccupyingShrinks ==
  ASSUME LimitHolds, Occupying' \subseteq Occupying PROVE LimitHolds'
<1>1. Occupying \in SUBSET Creates
  BY DEF Occupying
<1>2. Cardinality(Occupying') \in Nat /\ Cardinality(Occupying) \in Nat
        /\ Cardinality(Occupying') <= Cardinality(Occupying)
  BY <1>1, SetsOfCreates
<1> QED
  BY <1>2, RegistryAssumption DEF LimitHolds

-----------------------------------------------------------------------------
\* The inductive invariant holds initially ...
LEMMA InvInit == Init => IInv
<1> SUFFICES ASSUME Init PROVE IInv
  OBVIOUS
<1>1. Holders = {} /\ Occupying = {}
  BY DEF Init, Holders, Reserved, Occupying, IsAlive
<1>2. TypeOK
  BY DEF Init, TypeOK, Launches
<1>3. SlotsCounted /\ LimitHolds
  BY <1>1, FS_EmptySet, RegistryAssumption DEF Init, SlotsCounted, LimitHolds
<1>4. ChildInv /\ LiveChildRegistered /\ ShutdownLeavesNoChild
  BY DEF Init, ChildInv, LiveChildRegistered, ShutdownLeavesNoChild, IsAlive
<1> QED
  BY <1>2, <1>3, <1>4 DEF IInv

\* ... and is preserved by every step.
LEMMA InvStep == IInv /\ [Next]_vars => IInv'
<1> SUFFICES ASSUME IInv, [Next]_vars PROVE IInv'
  OBVIOUS
<1>0. TypeOK /\ SlotsCounted /\ LimitHolds
  BY DEF IInv
<1>t. Cardinality(Holders) \in Nat
  BY SetsOfCreates DEF Holders
<1> DEFINE Rest == ChildInv /\ LiveChildRegistered /\ ShutdownLeavesNoChild
<1>r. Rest
  BY DEF IInv
<1> USE DEF shutdown, shuttingDown
<1>1. ASSUME NEW c \in Creates, Launch(c) PROVE IInv'
  <2>1. PICK kept \in SUBSET children : Prune(children, kept) /\ children' = kept
    BY <1>1 DEF Launch
  <2>2. Rest' /\ UNCHANGED <<root, phase, awaited, cleanup, aborted>>
    BY <1>0, <1>r, <1>1, <2>1, PruneKeepsLive
    DEF Launch, Set, ChildInv, LiveChildRegistered, ShutdownLeavesNoChild, IsAlive, TypeOK, Launches
  <2>3. children' \subseteq Creates
    BY <1>0, <2>1 DEF TypeOK
  <2>4. CASE (Set(c, "refused") \/ Set(c, "full")) /\ UNCHANGED pendingCreates
    <3>1. TypeOK'
      BY <1>0, <2>2, <2>3, <2>4 DEF TypeOK, Set, Launches
    <3>2. SlotsCounted'
      BY <1>0, <1>1, <2>4, HoldersChange DEF SlotsCounted, Launch, Launches, Reserved, Holders
    <3>3. Occupying' \subseteq Occupying
      BY <1>0, <2>2, <2>4 DEF Occupying, IsAlive, Set, TypeOK
    <3> QED
      BY <1>0, <2>2, <3>1, <3>2, <3>3, OccupyingShrinks DEF IInv
  <2>5. CASE ~shuttingDown /\ Room(children') /\ Set(c, "preparing") /\ Reserve
    <3>1. TypeOK'
      BY <1>0, <2>2, <2>3, <2>5 DEF TypeOK, Set, Launches, Reserve
    <3>2. SlotsCounted'
      BY <1>0, <1>1, <2>5, HoldersChange DEF SlotsCounted, Launch, Launches, Reserved, Holders, Reserve
    <3>3. Occupying' \subseteq Occupying \cup {c}
      BY <1>0, <2>2, <2>5 DEF Occupying, IsAlive, Set, TypeOK
    <3>4. Cardinality(Occupying) + 1 <= ChildLimit
      BY <2>1, <2>5, RoomIsEnough
    <3>5. LimitHolds'
      <4>1. Occupying \in SUBSET Creates /\ Occupying \cup {c} \in SUBSET Creates
        BY DEF Occupying
      <4>2. /\ IsFiniteSet(Occupying) /\ Cardinality(Occupying) \in Nat
            /\ Cardinality(Occupying \cup {c}) \in Nat
            /\ Cardinality(Occupying') \in Nat
            /\ Cardinality(Occupying') <= Cardinality(Occupying \cup {c})
        BY <3>3, <4>1, SetsOfCreates
      <4>3. Cardinality(Occupying \cup {c}) <= Cardinality(Occupying) + 1
        BY <4>2, FS_AddElement
      <4> QED
        BY <3>4, <4>2, <4>3, RegistryAssumption DEF LimitHolds
    <3> QED
      BY <2>2, <3>1, <3>2, <3>5 DEF IInv
  <2> QED
    BY <1>1, <2>1, <2>4, <2>5 DEF Launch, PruneKeepsLive
<1>2. ASSUME NEW c \in Creates, PrepareFails(c) PROVE IInv'
  <2>a. Cardinality(Holders') = Cardinality(Holders) - 1 /\ Cardinality(Holders) > 0
    <3>1. c \in Holders
      BY <1>2 DEF PrepareFails, Holders, Reserved
    <3> QED
      BY <1>0, <1>2, <3>1, HoldersChange DEF PrepareFails, Launches, Reserved
  <2>1. TypeOK' /\ SlotsCounted'
    BY <1>0, <1>t, <1>2, <2>a DEF PrepareFails, Release, SlotsCounted, Launches, Set, TypeOK
  <2>2. Occupying' \subseteq Occupying
    BY <1>0, <1>2 DEF PrepareFails, Occupying, IsAlive, Set, TypeOK
  <2>3. Rest'
    BY <1>0, <1>r, <1>2
    DEF PrepareFails, Set, ChildInv, LiveChildRegistered, ShutdownLeavesNoChild, IsAlive, TypeOK
  <2> QED
    BY <1>0, <2>1, <2>2, <2>3, OccupyingShrinks DEF IInv
<1>3. ASSUME NEW c \in Creates, CreateChild(c) PROVE IInv'
  <2>a. Holders' = Holders /\ launch' \in [Creates -> Launches]
    BY <1>0, <1>3 DEF CreateChild, Holders, Reserved, Launches, Set, TypeOK
  <2>1. TypeOK' /\ SlotsCounted'
    BY <1>0, <1>3, <2>a DEF CreateChild, SlotsCounted, TypeOK
  <2>2. Occupying' \subseteq Occupying
    BY <1>0, <1>3 DEF CreateChild, Occupying, IsAlive, Set, TypeOK
  <2>b. \A d \in Creates : /\ d # c => root'[d] = root[d] /\ launch'[d] = launch[d]
                           /\ d = c => launch'[d] = "starting" /\ root[d] = "none"
    BY <1>0, <1>r, <1>3 DEF CreateChild, Set, ChildInv, TypeOK
  <2>c. phase = "open" /\ children' = children \cup {c}
    BY <1>0, <1>3 DEF CreateChild, MaySpawn
  <2>d. UNCHANGED <<phase, cleanup, awaited>>
    BY <1>3 DEF CreateChild
  <2>e. cleanup[c] = "none"
    BY <1>r, <2>b DEF ChildInv
  <2>f. root'[c] = "alive"
    BY <1>0, <1>3 DEF CreateChild, TypeOK
  <2>3. Rest'
    BY <1>r, <2>b, <2>c, <2>d, <2>e, <2>f DEF ChildInv, LiveChildRegistered, ShutdownLeavesNoChild, IsAlive
  <2> QED
    BY <1>0, <2>1, <2>2, <2>3, OccupyingShrinks DEF IInv
<1>4. ASSUME NEW c \in Creates, Created(c) \/ GiveUp(c) PROVE IInv'
  <2>a. PICK where \in {"created", "refused"} : Set(c, where)
    BY <1>4 DEF Created, GiveUp
  <2>b. c \in Holders
    BY <1>4 DEF Created, GiveUp, Unwound, Holders, Reserved
  <2>c. Cardinality(Holders') = Cardinality(Holders) - 1 /\ Cardinality(Holders) > 0
    BY <1>0, <2>a, <2>b, HoldersChange DEF Launches, Reserved
  <2>1. TypeOK' /\ SlotsCounted'
    BY <1>0, <1>t, <1>4, <2>a, <2>c
    DEF Created, GiveUp, Release, SlotsCounted, Launches, Set, TypeOK
  <2>2. Occupying' \subseteq Occupying
    BY <1>0, <1>4 DEF Created, GiveUp, Occupying, IsAlive, Set, TypeOK
  <2>3. Rest'
    BY <1>0, <1>r, <1>4
    DEF Created, GiveUp, Set, ChildInv, LiveChildRegistered, ShutdownLeavesNoChild,
        IsAlive, TypeOK
  <2> QED
    BY <1>0, <2>1, <2>2, <2>3, OccupyingShrinks DEF IInv
<1>5. ASSUME NEW c \in Creates, StartFails(c) PROVE IInv'
  <2>a. Holders' = Holders /\ launch' \in [Creates -> Launches]
    BY <1>0, <1>5 DEF StartFails, Holders, Reserved, Launches, Set, TypeOK
  <2>1. TypeOK' /\ SlotsCounted'
    BY <1>0, <1>5, <2>a DEF StartFails, Stop, SlotsCounted, TypeOK
  <2>2. Occupying' \subseteq Occupying
    BY <1>0, <1>5 DEF StartFails, Occupying, IsAlive, Set, TypeOK
  <2>3. Rest'
    BY <1>0, <1>r, <1>5
    DEF StartFails, Stop, Set, ChildInv, LiveChildRegistered, ShutdownLeavesNoChild, IsAlive,
        TypeOK
  <2> QED
    BY <1>0, <2>1, <2>2, <2>3, OccupyingShrinks DEF IInv
\* The other steps change no launch and no counter, and start no process.
<1>6. ASSUME TypeOK', Rest', UNCHANGED <<launch, pendingCreates>>,
             \A c \in Creates : root'[c] = "alive" => root[c] = "alive"
      PROVE  IInv'
  <2>1. SlotsCounted'
    BY <1>0, <1>6 DEF SlotsCounted, Holders
  <2>2. Occupying' \subseteq Occupying
    BY <1>6 DEF Occupying, IsAlive
  <2> QED
    BY <1>0, <1>6, <2>1, <2>2, OccupyingShrinks DEF IInv
<1>7. ASSUME NEW c \in Creates,
             Abort(c) \/ StopChild(c) \/ RootExits(c) \/ ChildFails(c) \/ CleanupResolves(c)
      PROVE IInv'
  <2>1. TypeOK'
    BY <1>0, <1>7 DEF Abort, StopChild, Stop, RootExits, ChildFails, CleanupResolves, TypeOK
  <2>2. Rest'
    BY <1>0, <1>r, <1>7
    DEF Abort, StopChild, Stop, RootExits, ChildFails, CleanupResolves, ChildInv,
        LiveChildRegistered, ShutdownLeavesNoChild, IsAlive, TypeOK
  <2>3. /\ UNCHANGED <<launch, pendingCreates>>
        /\ \A d \in Creates : root'[d] = "alive" => root[d] = "alive"
    BY <1>0, <1>7 DEF Abort, StopChild, RootExits, ChildFails, CleanupResolves, TypeOK
  <2> QED
    BY <1>6, <2>1, <2>2, <2>3
<1>8. CASE PruneChildren
  <2>1. TypeOK'
    BY <1>0, <1>8, PruneKeepsLive DEF PruneChildren, TypeOK
  <2>2. Rest'
    BY <1>0, <1>r, <1>8, PruneKeepsLive
    DEF PruneChildren, ChildInv, LiveChildRegistered, ShutdownLeavesNoChild, IsAlive, TypeOK
  <2> QED
    BY <1>6, <1>8, <2>1, <2>2 DEF PruneChildren
<1>9. CASE SessionStart \/ Shutdown
  <2>1. TypeOK'
    BY <1>0, <1>9 DEF SessionStart, Shutdown, CloseSignaling, Stop, TypeOK
  <2>2. Rest'
    BY <1>0, <1>r, <1>9
    DEF SessionStart, Shutdown, CloseSignaling, Stop, ChildInv, LiveChildRegistered,
        ShutdownLeavesNoChild, IsAlive, TypeOK
  <2> QED
    BY <1>6, <1>9, <2>1, <2>2 DEF SessionStart, Shutdown, CloseSignaling
<1>10. CASE StopAll
  <2>1. TypeOK'
    BY <1>0, <1>10 DEF StopAll, Stop, TypeOK
  <2>2. Rest'
    BY <1>0, <1>r, <1>10
    DEF StopAll, Stop, ChildInv, LiveChildRegistered, ShutdownLeavesNoChild, IsAlive, TypeOK
  <2> QED
    BY <1>6, <1>10, <2>1, <2>2 DEF StopAll
<1>11. CASE ShutdownResolves
  <2>1. TypeOK'
    BY <1>0, <1>11 DEF ShutdownResolves, TypeOK
  <2>2. Rest'
    BY <1>0, <1>r, <1>11
    DEF ShutdownResolves, ChildInv, LiveChildRegistered, ShutdownLeavesNoChild, IsAlive, TypeOK
  <2> QED
    BY <1>6, <1>11, <2>1, <2>2 DEF ShutdownResolves
<1>12. CASE UNCHANGED vars
  BY <1>0, <1>r, <1>6, <1>12
  DEF vars, TypeOK, ChildInv, LiveChildRegistered, ShutdownLeavesNoChild, IsAlive
<1> QED
  BY <1>1, <1>2, <1>3, <1>4, <1>5, <1>7, <1>8, <1>9, <1>10, <1>11, <1>12 DEF Next

-----------------------------------------------------------------------------
\* Every reachable state is well typed: the counter of slots in particular
\* never goes below zero.
THEOREM TypeCorrect == Spec => []TypeOK
<1>1. IInv => TypeOK
  BY DEF IInv
<1> QED
  BY <1>1, InvInit, InvStep, PTL DEF Spec

\* Creates that run in parallel never exceed the limit on live children.
THEOREM CapHolds == Spec => []LimitHolds
<1>1. IInv => LimitHolds
  BY DEF IInv
<1> QED
  BY <1>1, InvInit, InvStep, PTL DEF Spec

\* No live child is ever forgotten, and the shutdown takes all of them down.
THEOREM ShutdownIsComplete == Spec => [](LiveChildRegistered /\ ShutdownLeavesNoChild)
<1>1. IInv => LiveChildRegistered /\ ShutdownLeavesNoChild
  BY DEF IInv
<1> QED
  BY <1>1, InvInit, InvStep, PTL DEF Spec
=============================================================================
