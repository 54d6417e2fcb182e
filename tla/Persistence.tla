------------------------------ MODULE Persistence ------------------------------
(***************************************************************************)
(* What the router keeps between sessions and between pi processes         *)
(* (extensions/router/pi-state.ts, core/start-mode.ts and the session      *)
(* handlers of index.ts).                                                  *)
(*                                                                         *)
(* Two stores outlive a process.  The newest router-state entry of a       *)
(* session's branch holds the mode and the lease; a session that has one   *)
(* resumes in it.  The last-mode log, one file for the machine, holds one  *)
(* line per recorded mode, keyed by repository; a session without an entry *)
(* starts in what configuration says, by default the last recorded mode.   *)
(* Processes append to the log and rewrite it when it is long, with no     *)
(* lock; any of them may be killed between two steps.                      *)
(*                                                                         *)
(* A lease stands for the session it was routed in.  session_start is one  *)
(* phase per await; git, settings and the file system are external, an     *)
(* await of theirs returns when its action is taken.                       *)
(***************************************************************************)
EXTENDS Naturals, Sequences, FiniteSets, Functions, FiniteSetsExt

CONSTANTS
    Procs, Sessions,
    Repos,        \* repository keys
    RepoOf,       \* session -> the key of its working directory's repository, or NoKey
    EnvMode, RepoStart, GlobalStart,  \* configured start modes; RepoStart is per repository
    Stored,       \* session -> the entry an earlier process left in it
    LogsLeft,     \* the logs earlier processes may have left
    CompactAt,    \* LAST_MODE_LOG_COMPACT_AT, 200 in the code
    MaxRecords,   \* records written
    MaxMoves      \* commands, inputs, routed tasks, failures, compactions, session changes

NoKey == ""
None == "none"
Keys == Repos \cup {NoKey}
NoLease == None

ROUTER_MODES == {"off", "shadow", "active"}
UNKNOWN_LAST_MODE == "shadow"

\* what a branch holds that has no entry, and what a killed process wrote of a line
NoEntry == [mode |-> None, lease |-> NoLease, form |-> "current"]
Torn == [key |-> NoKey, mode |-> None, at |-> 0]

Forms == {"current", "invalid", "reviewChild"}
Entries == {NoEntry} \cup [mode : ROUTER_MODES, lease : Sessions \cup {NoLease}, form : Forms]
Records == [key : Keys, mode : ROUTER_MODES, at : Nat \ {0}]

ASSUME PersistenceAssumption ==
    /\ RepoOf \in [Sessions -> Keys]
    /\ {CompactAt, MaxRecords, MaxMoves} \subseteq Nat /\ CompactAt > 0
    /\ None \notin Sessions

\* Earlier processes left whole lines and pieces of lines, and in a session
\* nothing or an entry with a lease of its own or none.
ASSUME StoredAssumption ==
    /\ LogsLeft \subseteq Seq(Records \cup {Torn})
    /\ Stored \in [Sessions -> Entries] /\ \A s \in Sessions : Stored[s].lease \in {NoLease, s}

VARIABLES
    log,        \* the lines of the last-mode file
    writes,     \* the calls of writeLastKnownMode under way
    entry,      \* session -> its newest router-state entry
    phase,      \* process -> where its session handlers are
    session,    \* process -> the session it is in
    mode, lease,          \* process -> the lease owner's mode and lease
    intact,     \* process -> session_start's proposal may still be installed
    begun,      \* process -> what session_start remembers across its awaits
    repoKey, repoKeyCwd, recordedExitMode, modeForNextSession, telemetryHealthy,
    turningOff, \* process -> a /route off waits for the secondary work to be aborted
    made, moves,          \* records and moves so far
    newest,     \* history: key -> the mode last appended for it
    overtaken,  \* history: keys whose newest record a rewrite or a torn line has swallowed
    lineage     \* history: session -> the sessions its branch was copied from, and itself

owner == <<mode, lease, intact>>
memory == <<repoKey, repoKeyCwd, recordedExitMode, modeForNextSession, telemetryHealthy, turningOff>>
file == <<log, writes, made, newest, overtaken>>
vars == <<file, entry, phase, session, owner, begun, memory, moves, lineage>>

NotBegun == [reason |-> None, branch |-> NoEntry, carried |-> None, at |-> None, before |-> None]

-----------------------------------------------------------------------------
(* The start mode.                                                          *)

parseRouterMode(value) == IF value \in ROUTER_MODES THEN value ELSE None
parseStartMode(value) == IF value \in ROUTER_MODES \cup {"last"} THEN value ELSE None

\* `a ?? b`
OrElse(a, b) == IF a # None THEN a ELSE b

(* The first of environment, repository and global configuration that says  *)
(* something meaningful; else the last recorded mode.                       *)
resolveStartMode(key, lastKnown) ==
    LET ofRepo == IF key = NoKey THEN None ELSE parseStartMode(RepoStart[key])
        preference == OrElse(parseStartMode(EnvMode),
                             OrElse(ofRepo, OrElse(parseStartMode(GlobalStart), "last")))
    IN IF preference # "last" THEN preference ELSE OrElse(lastKnown, UNKNOWN_LAST_MODE)

\* before any configuration is read
provisionalMode == OrElse(parseRouterMode(EnvMode), UNKNOWN_LAST_MODE)

-----------------------------------------------------------------------------
(* The last-mode log.  `at` orders the records by the time they were made.  *)

EndsTorn == log # <<>> /\ log[Len(log)] = Torn

\* The lines that parse, by their place in the file.
readLastModeLog(lines) == {i \in DOMAIN lines : lines[i] # Torn}

OfKey(lines, key) == {i \in readLastModeLog(lines) : lines[i].key = key}

\* The mode of the last of the records at these places.
LastMode(lines, places) == IF places = {} THEN None ELSE lines[Max(places)].mode

readLastKnownMode(key) ==
    IF key # NoKey /\ OfKey(log, key) # {} THEN LastMode(log, OfKey(log, key))
    ELSE LastMode(log, readLastModeLog(log))

KeysOf(lines) == {lines[i].key : i \in readLastModeLog(lines)}

\* mutant: a record is kept only where none was kept before
FirstRecords(lines) == {lines[Min(OfKey(lines, k))] : k \in KeysOf(lines)}

\* The newest record of each repository ...
NewestRecords(lines) == {lines[Max(OfKey(lines, k))] : k \in KeysOf(lines)}

\* ... in the order they were made.
InOrder(records) ==
    {lines \in [1..Cardinality(records) -> records] :
        /\ Range(lines) = records
        /\ \A i, j \in DOMAIN lines : i < j => lines[i].at <= lines[j].at}

\* rememberMode of process p, up to the first await of the write; `ends` marks session_shutdown's
Remember(p, key, m, ends) ==
    IF m = recordedExitMode[p]
    THEN /\ phase' = IF ends THEN [phase EXCEPT ![p] = "stopped"] ELSE phase
         /\ UNCHANGED file
    ELSE /\ made < MaxRecords
         /\ made' = made + 1
         /\ writes' = writes \cup {[proc |-> p, rec |-> [key |-> key, mode |-> m, at |-> made'],
                                    pc |-> "append", kept |-> <<>>, missed |-> {}, ends |-> ends]}
         /\ phase' = IF ends THEN [phase EXCEPT ![p] = "recording"] ELSE phase
         /\ UNCHANGED <<log, newest, overtaken>>

\* The write returns (`done`) or fails; the caller goes on.
WriteEnds(w, done) ==
    /\ recordedExitMode' = IF done THEN [recordedExitMode EXCEPT ![w.proc] = w.rec.mode]
                                   ELSE recordedExitMode
    /\ phase' = IF w.ends THEN [phase EXCEPT ![w.proc] = "stopped"] ELSE phase
    /\ UNCHANGED <<repoKey, repoKeyCwd, modeForNextSession, telemetryHealthy, turningOff>>

(* A line appended right behind a torn one runs into it: neither parses.    *)
AppendLine(w) ==
    /\ w.pc = "append"
    /\ LET swallowed == EndsTorn
           others == {[v EXCEPT !.missed = @ \cup {w.rec.key}] : v \in writes \ {w}}
       IN /\ log' = IF swallowed THEN log ELSE Append(log, w.rec)
          /\ overtaken' = IF swallowed THEN overtaken \cup {w.rec.key} ELSE overtaken \ {w.rec.key}
          /\ writes' = others \cup {[w EXCEPT !.pc = "read"]}
    /\ newest' = [newest EXCEPT ![w.rec.key] = w.rec.mode]
    /\ UNCHANGED <<made, entry, phase, session, owner, begun, memory, moves, lineage>>

AppendFails(w) ==
    /\ w.pc = "append"
    /\ writes' = writes \ {w}
    /\ WriteEnds(w, FALSE)
    /\ UNCHANGED <<log, made, newest, overtaken, entry, session, owner, begun, moves, lineage>>

\* compactLastModeLog: nothing to do ...
LogIsShort(w) ==
    /\ w.pc = "read" /\ Cardinality(readLastModeLog(log)) < CompactAt
    /\ writes' = writes \ {w}
    /\ WriteEnds(w, TRUE)
    /\ UNCHANGED <<log, made, newest, overtaken, entry, session, owner, begun, moves, lineage>>

\* ... or the newest records are written to a file of their own ...
CompactionReads(w) ==
    /\ w.pc = "read" /\ Cardinality(readLastModeLog(log)) >= CompactAt
    /\ \E kept \in InOrder(NewestRecords(log)) :
          writes' = (writes \ {w}) \cup {[w EXCEPT !.pc = "rename", !.kept = kept, !.missed = {}]}
    /\ UNCHANGED <<log, made, newest, overtaken, entry, phase, session, owner, begun, memory,
                   moves, lineage>>

\* ... which replaces the log, or fails to.
CompactionReplaces(w) ==
    /\ w.pc = "rename"
    /\ \/ log' = w.kept /\ overtaken' = overtaken \cup w.missed
       \/ UNCHANGED <<log, overtaken>>
    /\ writes' = writes \ {w}
    /\ WriteEnds(w, TRUE)
    /\ UNCHANGED <<made, newest, entry, session, owner, begun, moves, lineage>>

Writing == \E w \in writes :
    AppendLine(w) \/ AppendFails(w) \/ LogIsShort(w) \/ CompactionReads(w) \/ CompactionReplaces(w)

-----------------------------------------------------------------------------
(* A session's own entry.                                                   *)

PersistState(p, m, l) ==
    entry' = [entry EXCEPT ![session[p]] = [mode |-> m, lease |-> l, form |-> "current"]]

(* restoreLeaseState: a lease that does not validate (an older policy       *)
(* version, say) is dropped; a generated reviewer's lease, which older       *)
(* versions persisted, gives back its builder.                              *)
Restored(e) == IF e.form = "invalid" THEN NoLease ELSE e.lease

hasPersistedRouterState(e) == e # NoEntry
-----------------------------------------------------------------------------
(* Processes and their sessions.                                            *)

Init ==
    /\ log \in LogsLeft /\ writes = {} /\ made = Len(log)
    /\ newest = [k \in Keys |-> LastMode(log, OfKey(log, k))]
    /\ overtaken = {}
    /\ entry = Stored
    /\ phase = [p \in Procs |-> "down"] /\ session = [p \in Procs |-> None]
    /\ mode = [p \in Procs |-> provisionalMode] /\ lease = [p \in Procs |-> NoLease]
    /\ intact = [p \in Procs |-> FALSE] /\ begun = [p \in Procs |-> NotBegun]
    /\ repoKey = [p \in Procs |-> NoKey] /\ repoKeyCwd = [p \in Procs |-> None]
    /\ recordedExitMode = [p \in Procs |-> None] /\ modeForNextSession = [p \in Procs |-> None]
    /\ telemetryHealthy = [p \in Procs |-> TRUE] /\ turningOff = [p \in Procs |-> FALSE]
    /\ moves = 0
    /\ lineage = [s \in Sessions |-> IF Stored[s] = NoEntry THEN {} ELSE {s}]

Move == moves < MaxMoves /\ moves' = moves + 1

Starting(p) == phase[p] \in {"loading", "keying", "resolving"}
InSession(p) == Starting(p) \/ phase[p] \in {"running", "aborting"}

\* session s, opened for `reason`: a branch of its own, or a copy of the parent's
Opens(p, s, reason) ==
    LET parent == session[p]
    IN CASE reason = "reload" -> s = session[p] /\ UNCHANGED <<entry, lineage>>
         [] reason = "fork" -> /\ lineage[s] = {} /\ lineage[parent] # {}
                               /\ entry' = [entry EXCEPT ![s] = entry[parent]]
                               /\ lineage' = [lineage EXCEPT ![s] = {s} \cup lineage[parent]]
         [] reason \in {"new", "startup"} -> /\ lineage[s] = {}
                                             /\ lineage' = [lineage EXCEPT ![s] = {s}]
                                             /\ UNCHANGED entry
         [] reason = "resume" -> lineage[s] # {} /\ UNCHANGED <<entry, lineage>>

\* mutant: the restore alone is trusted to replace the lease
TrustRestore(p, reason) == lease[p]

\* RESET, for every reason but reload: the mode is kept, the lease is not
KeptLease(p, reason) == IF reason = "reload" THEN lease[p] ELSE NoLease

(* session_start up to its first await.                                     *)
SessionStarts(p, s, reason) ==
    /\ phase[p] = "stopped" /\ \A q \in Procs \ {p} : session[q] # s
    /\ Move
    /\ Opens(p, s, reason)
    /\ session' = [session EXCEPT ![p] = s]
    /\ lease' = [lease EXCEPT ![p] = KeptLease(p, reason)]
    /\ intact' = [intact EXCEPT ![p] = TRUE]
    /\ begun' = [begun EXCEPT ![p] = [NotBegun EXCEPT !.reason = reason, !.at = mode[p]]]
    /\ phase' = [phase EXCEPT ![p] = "loading"]
    /\ UNCHANGED <<file, mode, memory>>

ProcessStarts(p, s, reason) ==
    /\ phase[p] = "down" /\ reason \in {"startup", "resume"}
    /\ \A q \in Procs : session[q] # s
    /\ Move
    /\ Opens(p, s, reason)
    /\ session' = [session EXCEPT ![p] = s]
    /\ intact' = [intact EXCEPT ![p] = TRUE]
    /\ begun' = [begun EXCEPT ![p] = [NotBegun EXCEPT !.reason = reason, !.at = mode[p]]]
    /\ phase' = [phase EXCEPT ![p] = "loading"]
    /\ UNCHANGED <<file, mode, lease, memory>>

(* The end of session_start: `b` is what it remembers, `resolved` the start  *)
(* mode it read, if it read one.  Its proposal is installed only if nothing  *)
(* happened since it began; else the mode alone is, unless that changed.     *)
Restores(p, b, resolved) ==
    LET proposed == IF hasPersistedRouterState(b.branch) THEN b.branch.mode
                    ELSE IF b.carried # None THEN b.carried
                    ELSE IF resolved # None THEN resolved ELSE mode[p]
        final == IF b.carried # None THEN b.carried ELSE proposed
    IN /\ IF intact[p]
          THEN /\ mode' = [mode EXCEPT ![p] = final]
               /\ lease' = [lease EXCEPT ![p] = Restored(b.branch)]
               /\ IF b.carried # None \/ (resolved # None /\ resolved # b.before)
                  THEN PersistState(p, final, lease'[p]) ELSE UNCHANGED entry
          ELSE IF mode[p] = b.at /\ proposed # b.at
          THEN /\ mode' = [mode EXCEPT ![p] = proposed]
               /\ PersistState(p, proposed, lease[p]) /\ UNCHANGED lease
          ELSE UNCHANGED <<mode, lease, entry>>
       /\ phase' = [phase EXCEPT ![p] = "running"]
       /\ begun' = [begun EXCEPT ![p] = NotBegun]
       /\ intact' = [intact EXCEPT ![p] = FALSE]

\* The repository key is known: read the start mode when the session needs one.
KeyKnown(p, b) ==
    IF b.reason # "reload" /\ ~hasPersistedRouterState(b.branch) /\ b.carried = None
    THEN /\ phase' = [phase EXCEPT ![p] = "resolving"]
         /\ begun' = [begun EXCEPT ![p] = [b EXCEPT !.before = mode[p]]]
         /\ UNCHANGED <<owner, entry>>
    ELSE Restores(p, b, None)

\* The scope is read, and with it the branch and the mode the last session hands over.
ScopeRead(p) ==
    /\ phase[p] = "loading"
    /\ LET b == [begun[p] EXCEPT !.branch = entry[session[p]],
                                 !.carried = IF begun[p].reason = "new"
                                             THEN modeForNextSession[p] ELSE None]
       IN IF repoKeyCwd[p] # session[p] /\ (repoKeyCwd[p] = None \/ RepoOf[repoKeyCwd[p]] # RepoOf[session[p]])
          THEN /\ phase' = [phase EXCEPT ![p] = "keying"]
               /\ begun' = [begun EXCEPT ![p] = b]
               /\ UNCHANGED <<owner, entry>>
          ELSE KeyKnown(p, b)
    /\ modeForNextSession' = [modeForNextSession EXCEPT ![p] = None]
    /\ UNCHANGED <<file, session, repoKey, repoKeyCwd, recordedExitMode, telemetryHealthy,
                   turningOff, moves, lineage>>

RepoKeyResolved(p) ==
    /\ phase[p] = "keying"
    /\ repoKey' = [repoKey EXCEPT ![p] = RepoOf[session[p]]]
    /\ repoKeyCwd' = [repoKeyCwd EXCEPT ![p] = session[p]]
    /\ recordedExitMode' = [recordedExitMode EXCEPT ![p] = None]
    /\ KeyKnown(p, begun[p])
    /\ UNCHANGED <<file, session, modeForNextSession, telemetryHealthy, turningOff, moves, lineage>>

StartModeRead(p) ==
    /\ phase[p] = "resolving"
    /\ LET lastKnown == readLastKnownMode(repoKey[p])
       IN /\ recordedExitMode' = [recordedExitMode EXCEPT ![p] = lastKnown]
          /\ Restores(p, begun[p], resolveStartMode(repoKey[p], lastKnown))
    /\ UNCHANGED <<file, session, repoKey, repoKeyCwd, modeForNextSession, telemetryHealthy,
                   turningOff, moves, lineage>>

(* session_shutdown: the secondary work is aborted, then the mode recorded. *)
SessionStops(p, reason) ==
    /\ phase[p] = "running" /\ Move
    /\ phase' = [phase EXCEPT ![p] = "aborting"]
    /\ modeForNextSession' = IF reason = "new" THEN [modeForNextSession EXCEPT ![p] = mode[p]]
                                               ELSE modeForNextSession
    /\ UNCHANGED <<file, entry, session, owner, begun, repoKey, repoKeyCwd, recordedExitMode,
                   telemetryHealthy, turningOff, lineage>>

ModeRecorded(p) ==
    /\ phase[p] = "aborting"
    /\ Remember(p, repoKey[p], mode[p], TRUE)
    /\ UNCHANGED <<entry, session, owner, begun, memory, moves, lineage>>

(* The process ends, or is killed: what it holds in memory starts over, and  *)
(* a write may have got no further than part of its line.                   *)
ProcessEnds(p) ==
    /\ phase[p] # "down"
    /\ phase' = [phase EXCEPT ![p] = "down"] /\ session' = [session EXCEPT ![p] = None]
    /\ mode' = [mode EXCEPT ![p] = provisionalMode] /\ lease' = [lease EXCEPT ![p] = NoLease]
    /\ intact' = [intact EXCEPT ![p] = FALSE] /\ begun' = [begun EXCEPT ![p] = NotBegun]
    /\ repoKey' = [repoKey EXCEPT ![p] = NoKey] /\ repoKeyCwd' = [repoKeyCwd EXCEPT ![p] = None]
    /\ recordedExitMode' = [recordedExitMode EXCEPT ![p] = None]
    /\ modeForNextSession' = [modeForNextSession EXCEPT ![p] = None]
    /\ telemetryHealthy' = [telemetryHealthy EXCEPT ![p] = TRUE]
    /\ turningOff' = [turningOff EXCEPT ![p] = FALSE]
    /\ LET own == {w \in writes : w.proc = p}
       IN /\ writes' = writes \ own
          /\ \/ log' = log
             \/ /\ \E w \in own : w.pc = "append"
                /\ ~EndsTorn
                /\ log' = Append(log, Torn)
    /\ UNCHANGED <<made, newest, overtaken, entry, moves, lineage>>

-----------------------------------------------------------------------------
(* What happens in a session, its start and its shutdown included.          *)

(* Input, and a routed task.                                                *)
Input(p) ==
    /\ Starting(p) /\ intact[p] /\ mode[p] # "off" /\ Move
    /\ intact' = [intact EXCEPT ![p] = FALSE]
    /\ UNCHANGED <<file, entry, phase, session, mode, lease, begun, memory, lineage>>

TaskRouted(p) ==
    /\ InSession(p) /\ mode[p] # "off" /\ lease[p] # session[p] /\ Move
    /\ lease' = [lease EXCEPT ![p] = session[p]]
    /\ intact' = [intact EXCEPT ![p] = FALSE]
    /\ PersistState(p, mode[p], session[p])
    /\ UNCHANGED <<file, phase, session, mode, begun, memory, lineage>>

(* /route off|shadow|active.  A mode already in force does not disturb the   *)
(* start under way, but is persisted and remembered all the same; off waits  *)
(* for the secondary work first.                                            *)
ModeSet(p, m) ==
    /\ InSession(p) /\ ~turningOff[p] /\ Move
    /\ m = "active" => telemetryHealthy[p]
    /\ mode' = [mode EXCEPT ![p] = m]
    /\ intact' = [intact EXCEPT ![p] = @ /\ mode[p] = m /\ (m # "off" \/ lease[p] = NoLease)]
    /\ IF m = "off"
       THEN turningOff' = [turningOff EXCEPT ![p] = TRUE] /\ UNCHANGED <<entry, phase, file>>
       ELSE PersistState(p, m, lease[p]) /\ Remember(p, repoKey[p], m, FALSE) /\ UNCHANGED turningOff
    /\ UNCHANGED <<session, lease, begun, repoKey, repoKeyCwd, recordedExitMode, modeForNextSession,
                   telemetryHealthy, lineage>>

OffSettles(p) ==
    /\ turningOff[p] /\ InSession(p)
    /\ turningOff' = [turningOff EXCEPT ![p] = FALSE]
    /\ PersistState(p, mode[p], lease[p])
    /\ Remember(p, repoKey[p], mode[p], FALSE)
    /\ UNCHANGED <<session, owner, begun, repoKey, repoKeyCwd, recordedExitMode, modeForNextSession,
                   telemetryHealthy, moves, lineage>>

(* /route reset.                                                            *)
LeaseReset(p) ==
    /\ InSession(p) /\ (lease[p] # NoLease \/ intact[p]) /\ Move
    /\ lease' = [lease EXCEPT ![p] = NoLease] /\ intact' = [intact EXCEPT ![p] = FALSE]
    /\ PersistState(p, mode[p], NoLease)
    /\ UNCHANGED <<file, phase, session, mode, begun, memory, lineage>>

(* Telemetry that has failed ends automatic routing for the session.       *)
DisableForTelemetryFailure(p) ==
    /\ telemetryHealthy' = [telemetryHealthy EXCEPT ![p] = FALSE]
    /\ IF mode[p] = "active"
       THEN /\ mode' = [mode EXCEPT ![p] = "shadow"] /\ intact' = [intact EXCEPT ![p] = FALSE]
            /\ PersistState(p, "shadow", lease[p])
            /\ Remember(p, repoKey[p], "shadow", FALSE)
       ELSE UNCHANGED <<mode, intact, entry, phase, file>>

(* A record of the session cannot be written, which is tried once.          *)
TelemetryFails(p) ==
    /\ InSession(p) /\ telemetryHealthy[p] /\ mode[p] # "off" /\ Move
    /\ DisableForTelemetryFailure(p)
    /\ UNCHANGED <<session, lease, begun, repoKey, repoKeyCwd, recordedExitMode, modeForNextSession,
                   turningOff, lineage>>

(* session_compact, the await before its record taken with it: the mode it  *)
(* remembers is the one then in force.                                      *)
SessionCompacted(p) ==
    /\ phase[p] = "running" /\ Move
    /\ PersistState(p, mode[p], lease[p])
    /\ Remember(p, repoKey[p], mode[p], FALSE)
    /\ UNCHANGED <<session, owner, begun, memory, lineage>>

Next ==
    \/ Writing
    \/ \E p \in Procs :
        \/ \E s \in Sessions, reason \in {"new", "resume", "fork", "reload", "startup"} :
             \/ SessionStarts(p, s, reason)
             \/ ProcessStarts(p, s, reason)
        \/ ScopeRead(p) \/ RepoKeyResolved(p) \/ StartModeRead(p)
        \/ \E reason \in {"new", "other"} : SessionStops(p, reason)
        \/ ModeRecorded(p) \/ ProcessEnds(p)
        \/ Input(p) \/ TaskRouted(p) \/ \E m \in ROUTER_MODES : ModeSet(p, m)
        \/ OffSettles(p) \/ LeaseReset(p) \/ TelemetryFails(p) \/ SessionCompacted(p)

Spec == Init /\ [][Next]_vars
-----------------------------------------------------------------------------
(* Properties.                                                              *)

\* Type invariant.
ModesOrNone == ROUTER_MODES \cup {None}
Reasons == {"new", "resume", "fork", "reload", "startup"}

Writes == [proc : Procs, rec : Records, pc : {"append", "read", "rename"}, kept : Seq(Records),
           missed : SUBSET Keys, ends : BOOLEAN]

FileTypes ==
    /\ log \in Seq(Records \cup {Torn}) /\ writes \subseteq Writes
    /\ made \in Nat /\ moves \in Nat
    /\ newest \in [Keys -> ModesOrNone] /\ overtaken \subseteq Keys

Begun == [reason : Reasons \cup {None}, branch : Entries, carried : ModesOrNone,
          at : ModesOrNone, before : ModesOrNone]
Phases == {"down", "loading", "keying", "resolving", "running", "aborting", "recording", "stopped"}

SessionTypes ==
    /\ entry \in [Sessions -> Entries] /\ lineage \in [Sessions -> SUBSET Sessions]
    /\ phase \in [Procs -> Phases]
    /\ session \in [Procs -> Sessions \cup {None}]
    /\ begun \in [Procs -> Begun]

OwnerTypes ==
    /\ mode \in [Procs -> ROUTER_MODES] /\ lease \in [Procs -> Sessions \cup {NoLease}]
    /\ intact \in [Procs -> BOOLEAN]

MemoryTypes ==
    /\ repoKey \in [Procs -> Keys] /\ repoKeyCwd \in [Procs -> Sessions \cup {None}]
    /\ {recordedExitMode, modeForNextSession} \subseteq [Procs -> ModesOrNone]
    /\ {telemetryHealthy, turningOff} \subseteq [Procs -> BOOLEAN]

TypeOK == FileTypes /\ SessionTypes /\ OwnerTypes /\ MemoryTypes

(* What a repository's log says is the mode last recorded for it: appends   *)
(* of other processes, rewrites, killed writers and rewrites that race       *)
(* rewrites lose no record, but one appended between a rewrite's read and    *)
(* its rename, or right behind the line a killed process left half written.  *)
RecordsSurvive == \A k \in Keys \ overtaken : LastMode(log, OfKey(log, k)) = newest[k]

(* A session only ever holds a lease of its own or of the session it was     *)
(* forked from, whatever input, commands and failures fall into the awaits   *)
(* of session_start: the in-memory lease of the session before never         *)
(* survives into it, nor is it persisted there.                             *)
LeaseIsTheSessions ==
    /\ \A p \in Procs : lease[p] # NoLease => lease[p] \in lineage[session[p]]
    /\ \A s \in Sessions : entry[s].lease # NoLease => entry[s].lease \in lineage[s]
=============================================================================
