--------------------------- MODULE LaunchRegistry ---------------------------
(***************************************************************************)
(* The registry of direct children (extensions/subagents/index.ts): launch *)
(* reserves a slot, awaits context, model and credentials, spawns a child, *)
(* awaits its first prompt, and gives the slot back; the registry forgets  *)
(* exited children beyond a number; the session may shut down at any time. *)
(*                                                                         *)
(* Each action is the code between two awaits.  A child is its root        *)
(* process, which isAlive() looks at, and the cleanup of its tree, which   *)
(* stop() awaits (modules ManagedSubagent and Termination).                *)
(***************************************************************************)
EXTENDS Naturals, FiniteSets

CONSTANTS
    Creates,      \* the create requests ever made
    Signaled,     \* those made over the event bus: they see the session close
    ChildLimit,   \* MAX_ROOT_CHILDREN, or MAX_NESTED_CHILDREN in a child
    MaxRetained,  \* MAX_RETAINED_CHILDREN
    Unkillable    \* those whose root survives until the cleanup's deadline

ASSUME RegistryAssumption ==
    /\ IsFiniteSet(Creates) /\ Signaled \subseteq Creates /\ Unkillable \subseteq Creates
    /\ ChildLimit \in Nat /\ MaxRetained \in Nat

VARIABLES
    launch,          \* request -> where its launch() is
    children,        \* the requests whose child is in the registry
    root,            \* request -> its child's root process
    cleanup,         \* request -> the cleanup of its child's tree: terminationDone
    aborted,         \* request -> has its signal been aborted?
    pendingCreates,  \* reserved slots
    phase,           \* the session: "open", then three steps of its shutdown
    awaited          \* the children whose stop() the shutdown awaits

vars == <<launch, children, root, cleanup, aborted, pendingCreates, phase, awaited>>
shutdown == <<phase, awaited>>

Launches == {"none", "preparing", "starting", "unwinding", "created", "refused", "full"}
Reserved == {"preparing", "starting", "unwinding"}

Init ==
    /\ launch = [c \in Creates |-> "none"]
    /\ children = {}
    /\ root = [c \in Creates |-> "none"]
    /\ cleanup = [c \in Creates |-> "none"]
    /\ aborted = [c \in Creates |-> FALSE]
    /\ pendingCreates = 0
    /\ phase = "open" /\ awaited = {}

shuttingDown == phase # "open"
IsAlive(c) == root[c] = "alive"
Active(cs) == {c \in cs : IsAlive(c)}

\* mutant: stop() has nothing to do for a root that has exited
StopLive(cs) ==
    cleanup' = [c \in Creates |-> IF c \in Active(cs) /\ cleanup[c] = "none" THEN "pending"
                                  ELSE cleanup[c]]

\* child.stop() on each of a set of children
Stop(cs) ==
    cleanup' = [c \in Creates |-> IF c \in cs /\ cleanup[c] = "none" THEN "pending"
                                  ELSE cleanup[c]]

(* pruneChildren(): exited children go, in the order they were last heard   *)
(* of (any, here), until at most MaxRetained are left or none is exited.    *)
Prune(cs, kept) ==
    /\ Active(cs) \subseteq kept /\ kept \subseteq cs
    /\ Cardinality(cs) <= MaxRetained => kept = cs
    /\ Cardinality(cs) > MaxRetained =>
          Cardinality(kept) = IF Cardinality(Active(cs)) > MaxRetained
                              THEN Cardinality(Active(cs)) ELSE MaxRetained

-----------------------------------------------------------------------------
(* launch()                                                                *)

Set(c, where) == launch' = [launch EXCEPT ![c] = where]

Reserve == pendingCreates' = pendingCreates + 1

Release == pendingCreates' = pendingCreates - 1

\* mutant: does not count the launches that have no process yet
RoomAmongActive(cs) == Cardinality(Active(cs)) < ChildLimit

Room(cs) == Cardinality(Active(cs)) + pendingCreates < ChildLimit

\* No task, too deep a nesting or a session that ends: refused at once.
Launch(c) ==
    /\ launch[c] = "none"
    /\ \E kept \in SUBSET children :
          /\ Prune(children, kept)
          /\ children' = kept
          /\ \/ Set(c, "refused") /\ UNCHANGED pendingCreates
             \/ ~shuttingDown /\ ~Room(kept) /\ Set(c, "full") /\ UNCHANGED pendingCreates
             \/ /\ ~shuttingDown /\ Room(kept)
                /\ Set(c, "preparing")
                /\ Reserve
    /\ UNCHANGED <<root, cleanup, aborted, shutdown>>

\* Context, model, credentials or directory fail, or a check between them.
PrepareFails(c) ==
    /\ launch[c] = "preparing"
    /\ Set(c, "refused")
    /\ Release
    /\ UNCHANGED <<children, root, cleanup, aborted, shutdown>>

\* mutant: the session is not looked at again after the last await
MayStillSpawn(c) == ~aborted[c]

MaySpawn(c) == ~aborted[c] /\ ~shuttingDown

CreateChild(c) ==
    /\ launch[c] = "preparing"
    /\ MaySpawn(c)
    /\ Set(c, "starting")
    /\ root' = [root EXCEPT ![c] = "alive"]
    /\ children' = children \cup {c}
    /\ UNCHANGED <<cleanup, aborted, pendingCreates, shutdown>>

\* start() resolves: the launch is over, even if the child fails by then.
Created(c) ==
    /\ launch[c] = "starting"
    /\ MaySpawn(c)
    /\ Set(c, "created")
    /\ Release
    /\ UNCHANGED <<children, root, cleanup, aborted, shutdown>>

\* start() rejects, or a check after it: the child is stopped ...
StartFails(c) ==
    /\ launch[c] = "starting"
    /\ Set(c, "unwinding")
    /\ Stop({c})
    /\ UNCHANGED <<children, root, aborted, pendingCreates, shutdown>>

Unwound(c) == launch[c] = "unwinding" /\ cleanup[c] = "done"

\* ... and the slot is given back once it is down.
GiveUp(c) ==
    /\ Unwound(c)
    /\ Set(c, "refused")
    /\ Release
    /\ UNCHANGED <<children, root, cleanup, aborted, shutdown>>

-----------------------------------------------------------------------------
(* The callers and the session.                                            *)

\* The caller's signal, while launch() listens: a starting child is stopped.
Abort(c) ==
    /\ launch[c] \in {"preparing", "starting"} /\ ~aborted[c]
    /\ aborted' = [aborted EXCEPT ![c] = TRUE]
    /\ Stop(IF launch[c] = "starting" THEN {c} ELSE {})
    /\ UNCHANGED <<launch, children, root, pendingCreates, shutdown>>

\* The stop action of the tool, or of the event bus, for a registered child,
\* which may still be starting.
StopChild(c) ==
    /\ c \in children
    /\ Stop({c})
    /\ UNCHANGED <<launch, children, root, aborted, pendingCreates, shutdown>>

\* The list action, and stop when it returns, prune.
PruneChildren ==
    /\ \E kept \in SUBSET children : Prune(children, kept) /\ children' = kept
    /\ UNCHANGED <<launch, root, cleanup, aborted, pendingCreates, shutdown>>

\* closeSignaling(): the event bus aborts its launches and stops its children
\* (module Signaling).
CloseSignaling ==
    /\ aborted' = [c \in Creates |-> \/ aborted[c]
                                     \/ c \in Signaled /\ launch[c] \in {"preparing", "starting"}]
    /\ Stop({c \in Signaled : launch[c] \in {"starting", "created"}})
    /\ UNCHANGED <<launch, children, root, pendingCreates, awaited>>

\* session_start closes the signaling of an earlier session.
SessionStart == CloseSignaling /\ UNCHANGED phase

\* session_shutdown: no more creation; the signaling is closed first.
Shutdown ==
    /\ ~shuttingDown
    /\ phase' = "signaling"
    /\ CloseSignaling

\* closeSignaling() has resolved: every registered child is stopped.
StopAll ==
    /\ phase = "signaling"
    /\ \A c \in Signaled : launch[c] = "created" => cleanup[c] = "done"
    /\ phase' = "stopping"
    /\ awaited' = children
    /\ Stop(children)
    /\ UNCHANGED <<launch, children, root, aborted, pendingCreates>>

ShutdownResolves ==
    /\ phase = "stopping"
    /\ \A c \in awaited : cleanup[c] = "done"
    /\ phase' = "closed"
    /\ children' = {}
    /\ UNCHANGED <<launch, root, cleanup, aborted, pendingCreates, awaited>>

-----------------------------------------------------------------------------
(* The children (external to this module).                                 *)

\* The root exits, by itself or signalled.
RootExits(c) ==
    /\ IsAlive(c)
    /\ c \notin Unkillable
    /\ root' = [root EXCEPT ![c] = "dead"]
    /\ UNCHANGED <<launch, children, cleanup, aborted, pendingCreates, shutdown>>

\* The pipes close, or the child fails: its tree is terminated.
ChildFails(c) ==
    /\ root[c] # "none" /\ cleanup[c] = "none"
    /\ cleanup' = [cleanup EXCEPT ![c] = "pending"]
    /\ UNCHANGED <<launch, children, root, aborted, pendingCreates, shutdown>>

\* The tree is down, or the deadline has passed on a root that cannot die.
CleanupResolves(c) ==
    /\ cleanup[c] = "pending"
    /\ IsAlive(c) => c \in Unkillable
    /\ cleanup' = [cleanup EXCEPT ![c] = "done"]
    /\ UNCHANGED <<launch, children, root, aborted, pendingCreates, shutdown>>

-----------------------------------------------------------------------------
Next ==
    \/ \E c \in Creates :
          \/ Launch(c) \/ PrepareFails(c) \/ CreateChild(c) \/ Created(c)
          \/ StartFails(c) \/ GiveUp(c) \/ Abort(c) \/ StopChild(c)
          \/ RootExits(c) \/ ChildFails(c) \/ CleanupResolves(c)
    \/ PruneChildren
    \/ SessionStart \/ Shutdown \/ StopAll \/ ShutdownResolves

(* A root being terminated exits, its cleanup resolves, a start whose child *)
(* is down is rejected, and launch and shutdown go on when what they await  *)
(* is there.                                                                *)
Fairness ==
    /\ \A c \in Creates :
          /\ WF_vars(cleanup[c] = "pending" /\ RootExits(c))
          /\ WF_vars(CleanupResolves(c))
          /\ WF_vars(cleanup[c] # "none" /\ StartFails(c))
          /\ WF_vars(GiveUp(c))
    /\ WF_vars(StopAll) /\ WF_vars(ShutdownResolves)

Spec == Init /\ [][Next]_vars /\ Fairness

-----------------------------------------------------------------------------
(* Properties.                                                             *)

\* Type invariant.
TypeOK ==
    /\ launch \in [Creates -> Launches]
    /\ children \subseteq Creates
    /\ root \in [Creates -> {"none", "alive", "dead"}]
    /\ cleanup \in [Creates -> {"none", "pending", "done"}]
    /\ aborted \in [Creates -> BOOLEAN]
    /\ pendingCreates \in Nat
    /\ phase \in {"open", "signaling", "stopping", "closed"}
    /\ awaited \subseteq Creates

\* Live roots and launches that may yet spawn one.
Occupying == {c \in Creates : IsAlive(c) \/ launch[c] = "preparing"}

\* "parallel create tool calls cannot bypass the cap" (index.ts:576): live
\* roots, still exiting ones included, and launches that may yet spawn one
\* never exceed the limit, whatever the registry has forgotten.
LimitHolds == Cardinality(Occupying) <= ChildLimit

\* "Parent/session shutdown terminates its direct children" (README.md:88):
\* when it resolves, only a root that survived its deadline is alive, and no
\* launch still under way starts another.
ShutdownLeavesNoChild ==
    phase = "closed" => \A c \in Creates : IsAlive(c) => c \in Unkillable /\ cleanup[c] = "done"

\* The registry never loses sight of a live child, whatever is pruned: until
\* the shutdown has resolved, stop, the limit and the shutdown itself find it.
LiveChildRegistered ==
    phase # "closed" => \A c \in Creates : IsAlive(c) => c \in children

\* The shutdown resolves, launches under way or not.
ShutdownCompletes == phase = "signaling" ~> phase = "closed"
=============================================================================
