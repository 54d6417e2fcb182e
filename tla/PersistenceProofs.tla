-------------------------- MODULE PersistenceProofs --------------------------
(* For any number of processes, sessions, repositories, records and any      *)
(* configuration: type correctness, what the last-mode log keeps, and which  *)
(* session a lease belongs to.                                               *)
EXTENDS Persistence, FiniteSetTheorems, WellFoundedInduction, TLAPS

Lines == Records \cup {Torn}

-----------------------------------------------------------------------------
(* The lines of the log.                                                     *)

\* Among any places of a sequence there is a last one.
LEMMA LastPlace ==
  ASSUME NEW n \in Nat, NEW S \in SUBSET (1..n), S # {}
  PROVE  Max(S) \in S /\ \A i \in S : i <= Max(S)
<1> DEFINE Bounds == {m \in Nat : \A i \in S : i <= m}
<1>1. n \in Bounds
  OBVIOUS
<1>2. PICK m \in Bounds : \A j \in Bounds : ~(<<j, m>> \in OpToRel(<, Nat))
  BY <1>1, NatLessThanWellFounded, WFMin
<1>3. \A j \in Bounds : ~(j < m)
  BY <1>2 DEF OpToRel
<1>4. m \in S
  <2>1. SUFFICES ASSUME m \notin S PROVE FALSE
    OBVIOUS
  <2>2. \A i \in S : i \in Nat /\ i <= m - 1
    BY <2>1
  <2>3. m - 1 \in Nat
    <3>1. PICK i \in S : TRUE
      OBVIOUS
    <3> QED
      BY <2>2, <3>1
  <2> QED
    BY <1>3, <2>2, <2>3
<1>5. \E x \in S : \A y \in S : x >= y
  BY <1>4
<1> QED
  BY <1>5 DEF Max

\* A record is a line that parses.
LEMMA RecordsParse == Torn \notin Records
BY DEF Torn, Records

\* The places of records are places of the file.
LEMMA Places ==
  ASSUME NEW lines \in Seq(Lines)
  PROVE  /\ readLastModeLog(lines) \in SUBSET (1..Len(lines)) /\ Len(lines) \in Nat
         /\ \A i \in readLastModeLog(lines) : lines[i] \in Records
         /\ \A k : OfKey(lines, k) \in SUBSET (1..Len(lines))
BY DEF OfKey, readLastModeLog, Lines

\* What the log says of a key is a mode, or nothing.
LEMMA ModeOfLast ==
  ASSUME NEW lines \in Seq(Lines), NEW places \in SUBSET readLastModeLog(lines)
  PROVE  LastMode(lines, places) \in ModesOrNone
<1>1. CASE places = {}
  BY <1>1 DEF LastMode, ModesOrNone
<1>2. CASE places # {}
  <2>1. Max(places) \in places
    BY <1>2, LastPlace, Places
  <2>2. lines[Max(places)] \in Records
    BY <2>1, Places
  <2> QED
    BY <1>2, <2>2 DEF LastMode, ModesOrNone, Records
<1> QED
  BY <1>1, <1>2

\* A record behind the others is what its key's repository is left with; a
\* torn line changes nothing, and neither what is said of other repositories.
LEMMA Appended ==
  ASSUME NEW lines \in Seq(Lines), NEW r \in Lines, NEW k
  PROVE  LastMode(Append(lines, r), OfKey(Append(lines, r), k))
           = IF r # Torn /\ r.key = k THEN r.mode ELSE LastMode(lines, OfKey(lines, k))
<1> DEFINE more == Append(lines, r)
           n == Len(lines)
<1>1. /\ DOMAIN more = 1..(n + 1) /\ more[n + 1] = r /\ n \in Nat
      /\ \A i \in 1..n : more[i] = lines[i]
      /\ DOMAIN lines = 1..n /\ more \in Seq(Lines) /\ Len(more) = n + 1
  OBVIOUS
<1>2. CASE r # Torn /\ r.key = k
  <2>1. n + 1 \in OfKey(more, k) /\ OfKey(more, k) \in SUBSET (1..(n + 1))
    BY <1>1, <1>2 DEF OfKey, readLastModeLog
  <2>2. Max(OfKey(more, k)) = n + 1
    <3> HIDE DEF more, n
    <3>1. OfKey(more, k) # {} /\ n + 1 \in Nat
      BY <2>1, <1>1
    <3>2. Max(OfKey(more, k)) \in OfKey(more, k) /\ n + 1 <= Max(OfKey(more, k))
      BY <2>1, <3>1, LastPlace
    <3> QED
      BY <2>1, <3>2, <1>1
  <2> QED
    BY <1>1, <1>2, <2>1, <2>2 DEF LastMode
<1>3. CASE ~(r # Torn /\ r.key = k)
  <2>1. OfKey(more, k) = OfKey(lines, k)
    BY <1>1, <1>3 DEF OfKey, readLastModeLog
  <2>2. CASE OfKey(lines, k) = {}
    BY <1>3, <2>1, <2>2 DEF LastMode
  <2>3. CASE OfKey(lines, k) # {}
    <3>1. Max(OfKey(lines, k)) \in 1..n
      BY <2>3, <1>1, LastPlace, Places
    <3> QED
      BY <1>1, <1>3, <2>1, <2>3, <3>1 DEF LastMode
  <2> QED
    BY <2>2, <2>3
<1> QED
  BY <1>2, <1>3

\* A rewrite keeps whole records, and what the log says of every repository.
LEMMA Rewritten ==
  ASSUME NEW lines \in Seq(Lines), NEW kept \in InOrder(NewestRecords(lines))
  PROVE  /\ kept \in Seq(Records)
         /\ \A k : LastMode(kept, OfKey(kept, k)) = LastMode(lines, OfKey(lines, k))
<1> DEFINE newestOf == NewestRecords(lines)
<1>1. \A k \in KeysOf(lines) :
         /\ OfKey(lines, k) # {} /\ Max(OfKey(lines, k)) \in OfKey(lines, k)
         /\ lines[Max(OfKey(lines, k))] \in Records /\ lines[Max(OfKey(lines, k))].key = k
  <2> TAKE k \in KeysOf(lines)
  <2>1. OfKey(lines, k) # {}
    BY DEF KeysOf, OfKey
  <2>2. Max(OfKey(lines, k)) \in OfKey(lines, k)
    BY <2>1, LastPlace, Places
  <2> QED
    BY <2>1, <2>2, Places DEF OfKey
<1>2. newestOf \subseteq Records
  BY <1>1 DEF NewestRecords
<1>3. Cardinality(newestOf) \in Nat
  <2>1. IsFiniteSet({lines[i] : i \in 1..Len(lines)})
    <3>1. lines \in Surjection(1..Len(lines), {lines[i] : i \in 1..Len(lines)})
      BY DEF Surjection
    <3>2. IsFiniteSet(1..Len(lines))
      BY FS_Interval
    <3> QED
      BY <3>1, <3>2, FS_Surjection DEF ExistsSurjection
  <2>2. newestOf \subseteq {lines[i] : i \in 1..Len(lines)}
    BY <1>1, Places DEF NewestRecords
  <2> QED
    BY <2>1, <2>2, FS_Subset, FS_CardinalityType
<1>4. /\ kept \in [1..Cardinality(newestOf) -> newestOf] /\ DOMAIN kept = 1..Cardinality(newestOf)
      /\ \A r \in newestOf : \E i \in DOMAIN kept : kept[i] = r
  BY DEF InOrder, Range
<1>5. kept \in Seq(Records) /\ kept \in Seq(Lines) /\ Len(kept) = Cardinality(newestOf)
  BY <1>2, <1>3, <1>4 DEF Lines
<1>6. ASSUME NEW k PROVE LastMode(kept, OfKey(kept, k)) = LastMode(lines, OfKey(lines, k))
  <2>1. \A i \in DOMAIN kept : kept[i].key \in KeysOf(lines)
                               /\ kept[i] = lines[Max(OfKey(lines, kept[i].key))]
    BY <1>1, <1>4 DEF NewestRecords
  <2>2. CASE k \in KeysOf(lines)
    <3>1. PICK i \in DOMAIN kept : kept[i] = lines[Max(OfKey(lines, k))]
      BY <1>4, <2>2 DEF NewestRecords
    <3>2. i \in OfKey(kept, k)
      BY <1>1, <2>2, <3>1, RecordsParse DEF OfKey, readLastModeLog
    <3>3. Max(OfKey(kept, k)) \in OfKey(kept, k)
      BY <1>5, <3>2, LastPlace, Places
    <3>4. kept[Max(OfKey(kept, k))] = lines[Max(OfKey(lines, k))]
      BY <2>1, <3>3 DEF OfKey, readLastModeLog
    <3> QED
      BY <1>1, <2>2, <3>2, <3>4 DEF LastMode
  <2>3. CASE k \notin KeysOf(lines)
    <3>1. OfKey(lines, k) = {}
      BY <2>3 DEF OfKey, KeysOf
    <3>2. OfKey(kept, k) = {}
      BY <2>1, <2>3 DEF OfKey, readLastModeLog
    <3> QED
      BY <3>1, <3>2 DEF LastMode
  <2> QED
    BY <2>2, <2>3
<1> QED
  BY <1>5, <1>6

-----------------------------------------------------------------------------
(* The file: what its writers do to it.                                      *)

\* What is ready to replace the log says the same, but of the repositories
\* whose records came in between.
LogInv ==
    /\ RecordsSurvive
    /\ \A w \in writes : w.pc = "rename" =>
          \A k \in Keys \ (overtaken \cup w.missed) : LastMode(w.kept, OfKey(w.kept, k)) = newest[k]

\* Configured, recorded and provisional modes are modes.
LEMMA StartModes ==
  /\ provisionalMode \in ROUTER_MODES
  /\ \A key \in Keys, lastKnown \in ModesOrNone : resolveStartMode(key, lastKnown) \in ROUTER_MODES
BY DEF provisionalMode, resolveStartMode, OrElse, parseRouterMode, parseStartMode, ROUTER_MODES,
       ModesOrNone, UNKNOWN_LAST_MODE, None

\* What the log says of a repository is a mode or nothing.
LEMMA RecordedModes ==
  ASSUME FileTypes, NEW key \in Keys PROVE readLastKnownMode(key) \in ModesOrNone
<1>1. log \in Seq(Lines) /\ OfKey(log, key) \in SUBSET readLastModeLog(log)
  BY DEF FileTypes, Writes, Lines, OfKey
<1> QED
  BY <1>1, ModeOfLast DEF readLastKnownMode

\* Nothing happens to the file.
LEMMA FileKept == ASSUME FileTypes, LogInv, UNCHANGED file, moves' \in Nat PROVE FileTypes' /\ LogInv'
BY DEF FileTypes, Writes, LogInv, RecordsSurvive, file

\* A mode to be remembered is a write that begins.
LEMMA RememberKeeps ==
  ASSUME FileTypes, LogInv, NEW p \in Procs, NEW key \in Keys, NEW m \in ROUTER_MODES,
         NEW ends \in BOOLEAN, Remember(p, key, m, ends), moves' \in Nat
  PROVE  FileTypes' /\ LogInv'
<1>1. CASE UNCHANGED file
  BY <1>1, FileKept
<1>2. CASE /\ made' = made + 1 /\ UNCHANGED <<log, newest, overtaken>>
           /\ writes' = writes \cup {[proc |-> p, rec |-> [key |-> key, mode |-> m, at |-> made'],
                                      pc |-> "append", kept |-> <<>>, missed |-> {}, ends |-> ends]}
  <2>1. [key |-> key, mode |-> m, at |-> made'] \in Records /\ made' \in Nat
    BY <1>2 DEF FileTypes, Writes, Records
  <2>2. [proc |-> p, rec |-> [key |-> key, mode |-> m, at |-> made'],
         pc |-> "append", kept |-> <<>>, missed |-> {}, ends |-> ends] \in Writes
    BY <2>1 DEF Writes
  <2>3. FileTypes'
    BY <1>2, <2>1, <2>2 DEF FileTypes
  <2> QED
    BY <1>2, <2>3 DEF LogInv, RecordsSurvive
<1> QED
  BY <1>1, <1>2 DEF Remember

\* A line appended is the newest of its repository, unless a torn one swallows
\* it, and is missed by the rewrites under way.
LEMMA AppendKeeps ==
  ASSUME FileTypes, LogInv, NEW w \in writes, AppendLine(w) PROVE FileTypes' /\ LogInv'
<1> DEFINE others == {[v EXCEPT !.missed = @ \cup {w.rec.key}] : v \in writes \ {w}}
<1>1. /\ w.rec \in Records /\ log \in Seq(Lines) /\ w.rec \in Lines /\ w.rec # Torn
      /\ w.rec.key \in Keys /\ w.rec.mode \in ModesOrNone
  BY RecordsParse DEF FileTypes, Writes, Lines, Records, ModesOrNone
<1>2. /\ writes' = others \cup {[w EXCEPT !.pc = "read"]}
      /\ newest' = [newest EXCEPT ![w.rec.key] = w.rec.mode]
      /\ UNCHANGED <<made, moves>>
      /\ \/ log' = log /\ overtaken' = overtaken \cup {w.rec.key}
         \/ log' = Append(log, w.rec) /\ overtaken' = overtaken \ {w.rec.key}
  BY DEF AppendLine
<1>3. FileTypes'
  <2>1. log' \in Seq(Lines)
    BY <1>1, <1>2
  <2>2. \A v \in Writes : [v EXCEPT !.pc = "read"] \in Writes
                         /\ [v EXCEPT !.missed = @ \cup {w.rec.key}] \in Writes
    BY <1>1 DEF Writes
  <2>4. others \cup {[w EXCEPT !.pc = "read"]} \subseteq Writes
    BY <2>2 DEF FileTypes
  <2>3. newest' \in [Keys -> ModesOrNone] /\ overtaken' \subseteq Keys
    BY <1>1, <1>2 DEF FileTypes, Writes
  <2> QED
    BY <1>2, <2>1, <2>3, <2>4 DEF FileTypes, Lines
<1>4. RecordsSurvive'
  <2> SUFFICES ASSUME NEW k \in Keys, k \notin overtaken' PROVE LastMode(log', OfKey(log', k)) = newest'[k]
    BY DEF RecordsSurvive
  <2>1. CASE log' = log /\ overtaken' = overtaken \cup {w.rec.key}
    BY <1>1, <1>2, <2>1 DEF LogInv, RecordsSurvive, FileTypes
  <2>2. CASE log' = Append(log, w.rec) /\ overtaken' = overtaken \ {w.rec.key}
    <3>1. LastMode(log', OfKey(log', k))
            = IF w.rec.key = k THEN w.rec.mode ELSE LastMode(log, OfKey(log, k))
      BY <1>1, <2>2, Appended
    <3> QED
      BY <1>1, <1>2, <2>2, <3>1 DEF LogInv, RecordsSurvive, FileTypes
  <2> QED
    BY <1>2, <2>1, <2>2
<1>5. ASSUME NEW v \in writes', v.pc = "rename", NEW k \in Keys, k \notin overtaken' \cup v.missed
      PROVE  LastMode(v.kept, OfKey(v.kept, k)) = newest'[k]
  <2>1. PICK u \in writes \ {w} : v = [u EXCEPT !.missed = @ \cup {w.rec.key}]
    BY <1>2, <1>5 DEF FileTypes, Writes
  <2>2. v.pc = u.pc /\ v.kept = u.kept /\ v.missed = u.missed \cup {w.rec.key}
    BY <2>1 DEF FileTypes, Writes
  <2> QED
    BY <1>1, <1>2, <1>5, <2>2 DEF LogInv, FileTypes
<1> QED
  BY <1>3, <1>4, <1>5 DEF LogInv

\* A rewrite keeps what the log says, and then the log says what it kept.
LEMMA WritesKeep ==
  ASSUME FileTypes, LogInv, Writing PROVE FileTypes' /\ LogInv'
<1>1. PICK w \in writes : AppendLine(w) \/ AppendFails(w) \/ LogIsShort(w) \/ CompactionReads(w)
                            \/ CompactionReplaces(w)
  BY DEF Writing
<1>2. CASE AppendFails(w) \/ LogIsShort(w)
  BY <1>2 DEF AppendFails, LogIsShort, FileTypes, LogInv, RecordsSurvive
<1>3. CASE CompactionReads(w)
  <2>1. PICK kept \in InOrder(NewestRecords(log)) :
            writes' = (writes \ {w}) \cup {[w EXCEPT !.pc = "rename", !.kept = kept, !.missed = {}]}
    BY <1>3 DEF CompactionReads
  <2>2. UNCHANGED <<log, made, moves, newest, overtaken>>
    BY <1>3 DEF CompactionReads
  <2>3. /\ kept \in Seq(Records)
        /\ \A k : LastMode(kept, OfKey(kept, k)) = LastMode(log, OfKey(log, k))
    BY Rewritten DEF FileTypes, Writes, Lines
  <2>4. FileTypes'
    BY <2>1, <2>2, <2>3 DEF FileTypes, Writes
  <2>5. ASSUME NEW v \in writes', v.pc = "rename", NEW k \in Keys, k \notin overtaken' \cup v.missed
        PROVE  LastMode(v.kept, OfKey(v.kept, k)) = newest'[k]
    <3>1. CASE v \in writes
      BY <2>2, <2>5, <3>1 DEF LogInv
    <3>2. CASE v = [w EXCEPT !.pc = "rename", !.kept = kept, !.missed = {}]
      <4>1. v.kept = kept
        BY <3>2 DEF FileTypes, Writes
      <4> QED
        BY <2>2, <2>3, <2>5, <4>1 DEF LogInv, RecordsSurvive
    <3> QED
      BY <2>1, <2>5, <3>1, <3>2
  <2> QED
    BY <2>2, <2>4, <2>5 DEF LogInv, RecordsSurvive
<1>4. CASE CompactionReplaces(w)
  <2>1. /\ writes' = writes \ {w} /\ UNCHANGED <<made, moves, newest>> /\ w.pc = "rename"
        /\ \/ log' = w.kept /\ overtaken' = overtaken \cup w.missed
           \/ UNCHANGED <<log, overtaken>>
    BY <1>4 DEF CompactionReplaces
  <2>2. w.kept \in Seq(Lines) /\ w.missed \subseteq Keys
    BY DEF FileTypes, Writes, Lines
  <2> QED
    BY <2>1, <2>2 DEF FileTypes, Writes, LogInv, RecordsSurvive, Lines
<1> QED
  BY <1>1, <1>2, <1>3, <1>4, AppendKeeps

\* A killed writer leaves a line that does not parse, if any.
LEMMA KillKeeps ==
  ASSUME FileTypes, LogInv, NEW p \in Procs, ProcessEnds(p) PROVE FileTypes' /\ LogInv'
<1>1. /\ writes' \subseteq writes /\ log' \in {log, Append(log, Torn)}
      /\ UNCHANGED <<made, moves, newest, overtaken>>
  BY DEF ProcessEnds
<1>2. \A k : LastMode(log', OfKey(log', k)) = LastMode(log, OfKey(log, k))
  BY <1>1, Appended DEF FileTypes, Writes, Lines
<1>3. FileTypes'
  BY <1>1 DEF FileTypes, Writes
<1> QED
  BY <1>1, <1>2, <1>3 DEF LogInv, RecordsSurvive

-----------------------------------------------------------------------------
(* The sessions: which leases they may hold.                                 *)

LeaseInv ==
    /\ \A p \in Procs :
          IF phase[p] = "down"
          THEN session[p] = None /\ lease[p] = NoLease /\ begun[p].branch.lease = NoLease
          ELSE session[p] \in Sessions /\ session[p] \in lineage[session[p]]
    /\ LeaseIsTheSessions
    /\ \A s \in Sessions : lineage[s] = {} \/ s \in lineage[s]
    /\ \A p \in Procs :
          begun[p].branch.lease # NoLease => begun[p].branch.lease \in lineage[session[p]]

\* A process that is gone writes no more.
WriterInv == \A w \in writes : phase[w.proc] # "down"

IInv == TypeOK /\ LogInv /\ LeaseInv /\ WriterInv

\* What a process may hold, persist and remember while it stays in its session.
MayHold(p) == {NoLease, lease[p], session[p], begun[p].branch.lease, entry[session[p]].lease}

Within(p) ==
    /\ UNCHANGED <<session, lineage>> /\ phase[p] # "down"
    /\ \A q \in Procs : phase'[q] = "down" <=> phase[q] = "down"
    /\ \A q \in Procs \ {p} : lease'[q] = lease[q] /\ begun'[q] = begun[q]
    /\ \A s \in Sessions \ {session[p]} : entry'[s] = entry[s]
    /\ {lease'[p], entry'[session[p]].lease, begun'[p].branch.lease} \subseteq MayHold(p)

\* A process that stays in its session finds only leases of that session's
\* lineage.
LEMMA WithinKeeps ==
  ASSUME SessionTypes, LeaseInv, NEW p \in Procs, Within(p) PROVE LeaseInv'
<1>1. session[p] \in Sessions /\ session[p] \in lineage[session[p]]
  BY DEF Within, LeaseInv
<1>2. \A l \in MayHold(p) : l # NoLease => l \in lineage[session[p]]
  BY <1>1 DEF MayHold, LeaseInv, LeaseIsTheSessions
<1>3. \A s \in Sessions : entry'[s].lease # NoLease => entry'[s].lease \in lineage[s]
  BY <1>1, <1>2 DEF Within, LeaseInv, LeaseIsTheSessions
<1>4. \A q \in Procs : lease'[q] # NoLease => lease'[q] \in lineage[session[q]]
  BY <1>1, <1>2 DEF Within, LeaseInv, LeaseIsTheSessions
<1>5. \A q \in Procs : begun'[q].branch.lease # NoLease => begun'[q].branch.lease \in lineage[session[q]]
  BY <1>1, <1>2 DEF Within, LeaseInv
<1>6. \A q \in Procs : phase'[q] = "down" =>
         session[q] = None /\ lease'[q] = NoLease /\ begun'[q].branch.lease = NoLease
  BY DEF Within, LeaseInv
<1> QED
  BY <1>3, <1>4, <1>5, <1>6 DEF Within, LeaseInv, LeaseIsTheSessions

\* The phase a process is in after it began to remember a mode.
LEMMA RememberedPhase ==
  ASSUME SessionTypes, NEW p \in Procs, NEW key, NEW m, NEW ends \in BOOLEAN,
         phase[p] # "down", Remember(p, key, m, ends)
  PROVE  /\ phase' \in {phase, [phase EXCEPT ![p] = "stopped"], [phase EXCEPT ![p] = "recording"]}
         /\ \A q \in Procs : phase'[q] = "down" <=> phase[q] = "down"
BY DEF Remember, SessionTypes

\* A process persists a mode and a lease it may hold.
LEMMA Persisted ==
  ASSUME SessionTypes, NEW p \in Procs, session[p] \in Sessions, NEW m \in ROUTER_MODES,
         NEW l \in Sessions \cup {NoLease}, PersistState(p, m, l)
  PROVE  /\ entry' \in [Sessions -> Entries] /\ entry'[session[p]].lease = l
         /\ \A s \in Sessions \ {session[p]} : entry'[s] = entry[s]
<1>1. [mode |-> m, lease |-> l, form |-> "current"] \in Entries
  BY DEF Entries, Forms
<1> QED
  BY <1>1 DEF PersistState, SessionTypes

\* The end of session_start installs what the branch holds, or leaves what came
\* in between.
LEMMA RestoresKeeps ==
  ASSUME SessionTypes, OwnerTypes, LeaseInv, NEW p \in Procs, Starting(p), NEW b \in Begun,
         NEW resolved \in ModesOrNone, Restores(p, b, resolved), UNCHANGED <<session, lineage>>,
         b.branch \in {begun[p].branch, entry[session[p]]}
  PROVE  SessionTypes' /\ OwnerTypes' /\ Within(p)
<1> DEFINE proposed == IF hasPersistedRouterState(b.branch) THEN b.branch.mode
                       ELSE IF b.carried # None THEN b.carried
                       ELSE IF resolved # None THEN resolved ELSE mode[p]
           final == IF b.carried # None THEN b.carried ELSE proposed
<1>1. session[p] \in Sessions /\ phase[p] # "down"
  BY DEF LeaseInv, Starting
<1>2. /\ b.branch \in Entries /\ b.carried \in ModesOrNone
      /\ mode[p] \in ROUTER_MODES /\ lease[p] \in Sessions \cup {NoLease}
  BY DEF Begun, OwnerTypes
<1>3. proposed \in ROUTER_MODES /\ final \in ROUTER_MODES
  BY <1>2 DEF hasPersistedRouterState, Entries, ModesOrNone
<1>4. Restored(b.branch) \in Sessions \cup {NoLease} /\ Restored(b.branch) \in MayHold(p)
  BY <1>2 DEF Restored, Entries, NoEntry, MayHold
<1>5. /\ phase' = [phase EXCEPT ![p] = "running"] /\ begun' = [begun EXCEPT ![p] = NotBegun]
      /\ intact' = [intact EXCEPT ![p] = FALSE]
  BY DEF Restores
<1>6. \/ /\ mode' = [mode EXCEPT ![p] = final] /\ lease' = [lease EXCEPT ![p] = Restored(b.branch)]
         /\ PersistState(p, final, lease'[p]) \/ UNCHANGED entry
      \/ /\ mode' = [mode EXCEPT ![p] = proposed] /\ UNCHANGED lease
         /\ PersistState(p, proposed, lease[p])
      \/ UNCHANGED <<mode, lease, entry>>
  BY DEF Restores
<1> HIDE DEF proposed, final
<1>7. /\ mode' \in [Procs -> ROUTER_MODES] /\ lease' \in [Procs -> Sessions \cup {NoLease}]
      /\ \A q \in Procs \ {p} : lease'[q] = lease[q]
      /\ lease'[p] \in MayHold(p)
  BY <1>2, <1>3, <1>4, <1>6 DEF OwnerTypes, MayHold
<1>8. /\ entry' \in [Sessions -> Entries] /\ entry'[session[p]].lease \in MayHold(p)
      /\ \A s \in Sessions \ {session[p]} : entry'[s] = entry[s]
  <2>1. CASE UNCHANGED entry
    BY <2>1 DEF SessionTypes, MayHold
  <2>2. CASE PersistState(p, final, lease'[p]) \/ PersistState(p, proposed, lease[p])
    BY <1>1, <1>2, <1>3, <1>7, <2>2, Persisted DEF MayHold
  <2> QED
    BY <1>6, <2>1, <2>2
<1>9. NotBegun \in Begun /\ NotBegun.branch.lease = NoLease
  BY DEF NotBegun, Begun, Entries, NoEntry, Reasons, ModesOrNone
<1>10. SessionTypes' /\ OwnerTypes'
  BY <1>5, <1>7, <1>8, <1>9 DEF SessionTypes, OwnerTypes, Phases
<1> QED
  BY <1>1, <1>5, <1>7, <1>8, <1>9, <1>10 DEF Within, SessionTypes, MayHold

\* With the repository's key known, the mode is resolved or session_start ends.
LEMMA KeyKnownKeeps ==
  ASSUME SessionTypes, OwnerTypes, LeaseInv, NEW p \in Procs, Starting(p), NEW b \in Begun,
         KeyKnown(p, b), UNCHANGED <<session, lineage>>,
         b.branch \in {begun[p].branch, entry[session[p]]}
  PROVE  SessionTypes' /\ OwnerTypes' /\ Within(p)
<1>1. CASE Restores(p, b, None)
  <2>1. None \in ModesOrNone
    BY DEF ModesOrNone
  <2> QED
    BY <1>1, <2>1, RestoresKeeps
<1>2. CASE /\ phase' = [phase EXCEPT ![p] = "resolving"]
           /\ begun' = [begun EXCEPT ![p] = [b EXCEPT !.before = mode[p]]]
           /\ UNCHANGED <<owner, entry>>
  <2>1. /\ [b EXCEPT !.before = mode[p]] \in Begun
        /\ [b EXCEPT !.before = mode[p]].branch = b.branch
    BY DEF Begun, OwnerTypes, ModesOrNone
  <2>2. SessionTypes' /\ OwnerTypes'
    BY <1>2, <2>1 DEF SessionTypes, OwnerTypes, Phases, owner
  <2>3. /\ phase[p] # "down" /\ begun'[p].branch = b.branch
        /\ \A q \in Procs \ {p} : begun'[q] = begun[q]
        /\ \A q \in Procs : phase'[q] = "down" <=> phase[q] = "down"
    BY <1>2, <2>1 DEF SessionTypes, Starting
  <2> QED
    BY <1>2, <2>2, <2>3 DEF Within, MayHold, owner
<1> QED
  BY <1>1, <1>2 DEF KeyKnown

\* A session is opened on its own branch, or on a copy of its parent's.
LEMMA OpensKeeps ==
  ASSUME SessionTypes, LeaseInv, NEW p \in Procs, NEW s \in Sessions, NEW reason \in Reasons,
         Opens(p, s, reason), reason \in {"reload", "fork"} => session[p] \in Sessions
  PROVE  /\ entry' \in [Sessions -> Entries] /\ lineage' \in [Sessions -> SUBSET Sessions]
         /\ \A t \in Sessions : lineage[t] \subseteq lineage'[t]
         /\ \A t \in Sessions : lineage'[t] = {} \/ t \in lineage'[t]
         /\ \A t \in Sessions : entry'[t].lease # NoLease => entry'[t].lease \in lineage'[t]
         /\ s \in lineage'[s] \/ (reason = "reload" /\ s = session[p])
<1> USE DEF SessionTypes, LeaseInv, LeaseIsTheSessions
<1>1. CASE reason = "reload"
  BY <1>1 DEF Opens
<1>2. CASE reason = "fork"
  <2>1. /\ lineage[s] = {} /\ session[p] \in Sessions
        /\ entry' = [entry EXCEPT ![s] = entry[session[p]]]
        /\ lineage' = [lineage EXCEPT ![s] = {s} \cup lineage[session[p]]]
    BY <1>2 DEF Opens
  <2> QED
    BY <2>1
<1>3. CASE reason \in {"new", "startup"}
  <2>1. lineage[s] = {} /\ lineage' = [lineage EXCEPT ![s] = {s}] /\ UNCHANGED entry
    BY <1>3 DEF Opens
  <2> QED
    BY <2>1
<1>4. CASE reason = "resume"
  BY <1>4 DEF Opens
<1> QED
  BY <1>1, <1>2, <1>3, <1>4 DEF Reasons

\* session_start takes the lease of the session before along only on a reload.
LEMMA OpeningKeeps ==
  ASSUME IInv, NEW p \in Procs, NEW s \in Sessions, NEW reason \in Reasons,
         SessionStarts(p, s, reason) \/ ProcessStarts(p, s, reason)
  PROVE  SessionTypes' /\ OwnerTypes' /\ MemoryTypes' /\ LeaseInv'
<1> DEFINE b == [NotBegun EXCEPT !.reason = reason, !.at = mode[p]]
<1>1. /\ session' = [session EXCEPT ![p] = s] /\ intact' = [intact EXCEPT ![p] = TRUE]
      /\ begun' = [begun EXCEPT ![p] = b] /\ phase' = [phase EXCEPT ![p] = "loading"]
      /\ Opens(p, s, reason) /\ UNCHANGED <<mode, memory>>
  BY DEF SessionStarts, ProcessStarts
<1>2. reason \in {"reload", "fork"} => session[p] \in Sessions /\ session[p] \in lineage[session[p]]
  BY DEF SessionStarts, ProcessStarts, IInv, LeaseInv
<1>3. /\ entry' \in [Sessions -> Entries] /\ lineage' \in [Sessions -> SUBSET Sessions]
      /\ \A t \in Sessions : lineage[t] \subseteq lineage'[t]
      /\ \A t \in Sessions : lineage'[t] = {} \/ t \in lineage'[t]
      /\ \A t \in Sessions : entry'[t].lease # NoLease => entry'[t].lease \in lineage'[t]
      /\ s \in lineage'[s]
  BY <1>1, <1>2, OpensKeeps DEF IInv, TypeOK
<1>4. /\ lease' \in [Procs -> Sessions \cup {NoLease}] /\ \A q \in Procs \ {p} : lease'[q] = lease[q]
      /\ lease'[p] = NoLease \/ (lease'[p] = lease[p] /\ s = session[p])
  <2>1. CASE SessionStarts(p, s, reason)
    <3>1. reason = "reload" => s = session[p]
      BY <1>1 DEF Opens
    <3> QED
      BY <2>1, <3>1 DEF SessionStarts, KeptLease, IInv, TypeOK, OwnerTypes
  <2>2. CASE ProcessStarts(p, s, reason)
    BY <2>2 DEF ProcessStarts, IInv, LeaseInv, TypeOK, OwnerTypes
  <2> QED
    BY <2>1, <2>2
<1>5. b \in Begun /\ b.branch.lease = NoLease
  BY DEF NotBegun, Begun, Entries, NoEntry, ModesOrNone, IInv, TypeOK, OwnerTypes
<1> HIDE DEF b
<1>6. SessionTypes' /\ OwnerTypes' /\ MemoryTypes'
  BY <1>1, <1>3, <1>4, <1>5
  DEF IInv, TypeOK, SessionTypes, OwnerTypes, MemoryTypes, Phases, memory
<1>7. /\ session'[p] = s /\ phase'[p] = "loading" /\ begun'[p] = b
      /\ \A q \in Procs \ {p} : session'[q] = session[q] /\ phase'[q] = phase[q] /\ begun'[q] = begun[q]
  BY <1>1 DEF IInv, TypeOK, SessionTypes
<1>8. ASSUME NEW q \in Procs
      PROVE  /\ IF phase'[q] = "down"
                THEN session'[q] = None /\ lease'[q] = NoLease /\ begun'[q].branch.lease = NoLease
                ELSE session'[q] \in Sessions /\ session'[q] \in lineage'[session'[q]]
             /\ lease'[q] # NoLease => lease'[q] \in lineage'[session'[q]]
             /\ begun'[q].branch.lease # NoLease => begun'[q].branch.lease \in lineage'[session'[q]]
  <2>1. CASE q = p
    BY <1>3, <1>4, <1>5, <1>7, <2>1 DEF IInv, LeaseInv, LeaseIsTheSessions
  <2>2. CASE q # p
    BY <1>3, <1>4, <1>7, <2>2 DEF IInv, LeaseInv, LeaseIsTheSessions
  <2> QED
    BY <2>1, <2>2
<1> QED
  BY <1>3, <1>6, <1>8 DEF LeaseInv, LeaseIsTheSessions

-----------------------------------------------------------------------------
(* The steps.                                                                *)

\* At first no process is in a session.
LEMMA Initially == Init => IInv
<1> SUFFICES ASSUME Init PROVE IInv
  OBVIOUS
<1>1. log \in Seq(Lines)
  BY StoredAssumption DEF Init, Lines
<1>2. \A k : LastMode(log, OfKey(log, k)) \in ModesOrNone
  BY <1>1, ModeOfLast DEF OfKey
<1>3. FileTypes /\ LogInv /\ WriterInv
  BY <1>1, <1>2 DEF Init, FileTypes, LogInv, RecordsSurvive, WriterInv, Lines
<1>4. /\ entry \in [Sessions -> Entries] /\ lineage \in [Sessions -> SUBSET Sessions]
      /\ \A s \in Sessions : lineage[s] = {} \/ s \in lineage[s]
      /\ \A s \in Sessions : entry[s].lease # NoLease => entry[s].lease \in lineage[s]
  <2>1. /\ entry = Stored /\ Stored \in [Sessions -> Entries]
        /\ lineage = [s \in Sessions |-> IF Stored[s] = NoEntry THEN {} ELSE {s}]
    BY StoredAssumption DEF Init
  <2>2. \A s \in Sessions :
           /\ Stored[s].lease \in {NoLease, s}
           /\ Stored[s] = NoEntry => Stored[s].lease = NoLease
    BY StoredAssumption DEF NoEntry
  <2> QED
    BY <2>1, <2>2
<1>5. NotBegun \in Begun /\ NotBegun.branch.lease = NoLease
  BY DEF NotBegun, Begun, Entries, NoEntry, Reasons, ModesOrNone
<1>6. SessionTypes
  BY <1>4, <1>5 DEF Init, SessionTypes, Phases
<1>7. OwnerTypes /\ MemoryTypes
  BY StartModes DEF Init, OwnerTypes, MemoryTypes, ModesOrNone, Keys
<1>8. LeaseInv
  BY <1>4, <1>5 DEF Init, LeaseInv, LeaseIsTheSessions
<1> QED
  BY <1>3, <1>6, <1>7, <1>8 DEF IInv, TypeOK

\* session_start, between its awaits.
LEMMA StartStep ==
  ASSUME IInv, NEW p \in Procs, ScopeRead(p) \/ RepoKeyResolved(p) \/ StartModeRead(p)
  PROVE  SessionTypes' /\ OwnerTypes' /\ MemoryTypes' /\ LeaseInv'
<1> USE DEF IInv, TypeOK
<1>1. Starting(p) /\ UNCHANGED <<session, lineage>> /\ session[p] \in Sessions
  BY DEF ScopeRead, RepoKeyResolved, StartModeRead, Starting, LeaseInv
<1>2. CASE ScopeRead(p)
  <2> DEFINE b == [begun[p] EXCEPT !.branch = entry[session[p]],
                                   !.carried = IF begun[p].reason = "new"
                                               THEN modeForNextSession[p] ELSE None]
  <2>1. b \in Begun /\ b.branch = entry[session[p]]
    BY <1>1 DEF Begun, SessionTypes, MemoryTypes, ModesOrNone
  <2>2. \/ KeyKnown(p, b)
        \/ /\ phase' = [phase EXCEPT ![p] = "keying"] /\ begun' = [begun EXCEPT ![p] = b]
           /\ UNCHANGED <<owner, entry>>
    BY <1>2 DEF ScopeRead
  <2>3. MemoryTypes'
    BY <1>2 DEF ScopeRead, MemoryTypes, ModesOrNone
  <2> HIDE DEF b
  <2>4. CASE KeyKnown(p, b)
    BY <1>1, <2>1, <2>3, <2>4, KeyKnownKeeps, WithinKeeps
  <2>5. CASE /\ phase' = [phase EXCEPT ![p] = "keying"] /\ begun' = [begun EXCEPT ![p] = b]
             /\ UNCHANGED <<owner, entry>>
    <3>1. SessionTypes' /\ OwnerTypes'
      BY <1>1, <2>1, <2>5 DEF SessionTypes, OwnerTypes, Phases, owner
    <3>2. Within(p)
      BY <1>1, <2>1, <2>5 DEF Within, MayHold, Starting, SessionTypes, owner
    <3> QED
      BY <2>3, <3>1, <3>2, WithinKeeps
  <2> QED
    BY <2>2, <2>4, <2>5
<1>3. CASE RepoKeyResolved(p)
  <2>1. KeyKnown(p, begun[p]) /\ begun[p] \in Begun
    BY <1>3 DEF RepoKeyResolved, SessionTypes
  <2>2. MemoryTypes'
    BY <1>1, <1>3, PersistenceAssumption DEF RepoKeyResolved, MemoryTypes, ModesOrNone
  <2> QED
    BY <1>1, <2>1, <2>2, KeyKnownKeeps, WithinKeeps
<1>4. CASE StartModeRead(p)
  <2>1. readLastKnownMode(repoKey[p]) \in ModesOrNone /\ repoKey[p] \in Keys
    BY RecordedModes DEF MemoryTypes
  <2>2. resolveStartMode(repoKey[p], readLastKnownMode(repoKey[p])) \in ModesOrNone
    BY <2>1, StartModes DEF ModesOrNone
  <2>3. Restores(p, begun[p], resolveStartMode(repoKey[p], readLastKnownMode(repoKey[p])))
          /\ begun[p] \in Begun
    BY <1>4 DEF StartModeRead, SessionTypes
  <2>4. MemoryTypes'
    BY <1>4, <2>1 DEF StartModeRead, MemoryTypes
  <2> QED
    BY <1>1, <2>2, <2>3, <2>4, RestoresKeeps, WithinKeeps
<1> QED
  BY <1>2, <1>3, <1>4

\* The end of a process forgets what it held, and nothing else.
LEMMA EndStep ==
  ASSUME IInv, NEW p \in Procs, ProcessEnds(p)
  PROVE  SessionTypes' /\ OwnerTypes' /\ MemoryTypes' /\ LeaseInv'
<1> USE DEF IInv, TypeOK
<1>1. NotBegun \in Begun /\ NotBegun.branch.lease = NoLease
  BY DEF NotBegun, Begun, Entries, NoEntry, Reasons, ModesOrNone
<1>2. SessionTypes' /\ OwnerTypes'
  BY <1>1, StartModes DEF ProcessEnds, SessionTypes, OwnerTypes, Phases
<1>3. MemoryTypes'
  BY DEF ProcessEnds, MemoryTypes, ModesOrNone, Keys
<1>4. LeaseInv'
  BY <1>1 DEF ProcessEnds, LeaseInv, LeaseIsTheSessions, SessionTypes, OwnerTypes
<1> QED
  BY <1>2, <1>3, <1>4

\* What happens in a session: the process may route, reset or persist its own
\* lease, change its mode, and begin to remember one.
InItsSession(p) ==
    /\ phase[p] # "down" /\ UNCHANGED <<session, lineage, begun>>
    /\ OwnerTypes' /\ MemoryTypes' /\ moves' \in Nat
    /\ \A q \in Procs \ {p} : lease'[q] = lease[q]
    /\ lease'[p] \in {lease[p], NoLease, session[p]}
    /\ UNCHANGED entry \/ PersistState(p, mode'[p], lease'[p])
    /\ \/ UNCHANGED file /\ phase' \in {phase, [phase EXCEPT ![p] = "aborting"]}
       \/ \E m \in ROUTER_MODES, ends \in BOOLEAN : Remember(p, repoKey[p], m, ends)

\* What a process does within its session keeps the invariant.
LEMMA InItsSessionKeeps == ASSUME IInv, NEW p \in Procs, InItsSession(p) PROVE IInv'
<1> USE DEF IInv, TypeOK
<1>1. /\ phase' \in [Procs -> Phases]
      /\ \A q \in Procs : phase'[q] = "down" <=> phase[q] = "down"
      /\ \A v \in writes' : v \in writes \/ v.proc = p
  <2>1. CASE UNCHANGED file /\ phase' \in {phase, [phase EXCEPT ![p] = "aborting"]}
    BY <2>1 DEF InItsSession, SessionTypes, Phases, file
  <2>2. CASE \E m \in ROUTER_MODES, ends \in BOOLEAN : Remember(p, repoKey[p], m, ends)
    <3>1. PICK m \in ROUTER_MODES, ends \in BOOLEAN : Remember(p, repoKey[p], m, ends)
      BY <2>2
    <3>2. \A v \in writes' : v \in writes \/ v.proc = p
      BY <3>1 DEF Remember, file
    <3> QED
      BY <3>1, <3>2, RememberedPhase DEF InItsSession, SessionTypes, Phases
  <2> QED
    BY <2>1, <2>2 DEF InItsSession
<1>2. FileTypes' /\ LogInv'
  <2>1. repoKey[p] \in Keys
    BY DEF MemoryTypes
  <2> QED
    BY <2>1, FileKept, RememberKeeps DEF InItsSession
<1>3. session[p] \in Sessions
  BY DEF InItsSession, LeaseInv
<1>4. /\ entry' \in [Sessions -> Entries] /\ entry'[session[p]].lease \in {entry[session[p]].lease, lease'[p]}
      /\ \A s \in Sessions \ {session[p]} : entry'[s] = entry[s]
  <2>1. CASE UNCHANGED entry
    BY <2>1 DEF SessionTypes
  <2>2. CASE PersistState(p, mode'[p], lease'[p])
    <3>1. mode'[p] \in ROUTER_MODES /\ lease'[p] \in Sessions \cup {NoLease}
      BY DEF InItsSession, OwnerTypes
    <3> QED
      BY <1>3, <2>2, <3>1, Persisted
  <2> QED
    BY <2>1, <2>2 DEF InItsSession
<1>5. SessionTypes'
  BY <1>1, <1>4 DEF InItsSession, SessionTypes
<1>6. Within(p)
  BY <1>1, <1>4 DEF InItsSession, Within, MayHold
<1>7. WriterInv'
  BY <1>1 DEF WriterInv, InItsSession, FileTypes, Writes
<1> QED
  BY <1>2, <1>5, <1>6, <1>7, WithinKeeps DEF InItsSession

\* Shutdowns, input, commands, routed tasks, failures and compactions are such.
LEMMA SessionStep ==
  ASSUME IInv, NEW p \in Procs,
         \/ \E reason \in {"new", "other"} : SessionStops(p, reason)
         \/ ModeRecorded(p) \/ Input(p) \/ TaskRouted(p)
         \/ \E m \in ROUTER_MODES : ModeSet(p, m)
         \/ OffSettles(p) \/ LeaseReset(p) \/ TelemetryFails(p) \/ SessionCompacted(p)
  PROVE  IInv'
<1> USE DEF IInv, TypeOK, Move, memory
<1>1. moves \in Nat /\ mode[p] \in ROUTER_MODES /\ lease[p] \in Sessions \cup {NoLease} /\ repoKey[p] \in Keys
  BY DEF FileTypes, OwnerTypes, MemoryTypes
<1>2. phase[p] # "down" => session[p] \in Sessions
  BY DEF LeaseInv
<1>3. CASE \E reason \in {"new", "other"} : SessionStops(p, reason)
  <2>1. MemoryTypes' /\ OwnerTypes'
    BY <1>1, <1>3 DEF SessionStops, MemoryTypes, OwnerTypes, owner, ModesOrNone
  <2>2. /\ phase[p] # "down" /\ phase' = [phase EXCEPT ![p] = "aborting"] /\ moves' \in Nat
        /\ UNCHANGED <<session, lineage, begun, lease, entry, file>>
    BY <1>1, <1>3 DEF SessionStops, owner
  <2> QED
    BY <2>1, <2>2, InItsSessionKeeps DEF InItsSession
<1>4. CASE ModeRecorded(p) \/ SessionCompacted(p)
  <2>1. UNCHANGED <<owner, memory>> /\ moves' \in Nat
    <3>1. CASE ModeRecorded(p)
      BY <1>1, <3>1 DEF ModeRecorded, owner
    <3>2. CASE SessionCompacted(p)
      BY <1>1, <3>2 DEF SessionCompacted, owner
    <3> QED
      BY <1>4, <3>1, <3>2
  <2>5. MemoryTypes' /\ OwnerTypes'
    BY <2>1 DEF MemoryTypes, OwnerTypes, owner
  <2>2. phase[p] # "down" /\ UNCHANGED <<mode, lease, session, lineage, begun>>
    BY <1>4 DEF ModeRecorded, SessionCompacted, owner
  <2>3. UNCHANGED entry \/ PersistState(p, mode'[p], lease'[p])
    BY <1>4 DEF ModeRecorded, SessionCompacted, owner
  <2>4. \E ends \in BOOLEAN : Remember(p, repoKey[p], mode[p], ends)
    BY <1>4 DEF ModeRecorded, SessionCompacted
  <2> QED
    BY <1>1, <2>1, <2>2, <2>3, <2>4, <2>5, InItsSessionKeeps DEF InItsSession
<1>5. CASE Input(p) \/ TaskRouted(p) \/ LeaseReset(p)
  <2>1. phase[p] # "down"
    BY <1>5 DEF Input, TaskRouted, LeaseReset, InSession, Starting
  <2>2. MemoryTypes' /\ OwnerTypes'
    BY <1>1, <1>2, <1>5, <2>1 DEF Input, TaskRouted, LeaseReset, MemoryTypes, OwnerTypes
  <2>3. UNCHANGED <<file, phase, session, mode, begun, lineage>> /\ moves' \in Nat
    BY <1>1, <1>5 DEF Input, TaskRouted, LeaseReset
  <2>4. \/ UNCHANGED <<entry, lease>>
        \/ /\ lease' = [lease EXCEPT ![p] = session[p]] \/ lease' = [lease EXCEPT ![p] = NoLease]
           /\ PersistState(p, mode[p], lease'[p])
    BY <1>5 DEF Input, TaskRouted, LeaseReset, PersistState, OwnerTypes
  <2>5. \A q \in Procs \ {p} : lease'[q] = lease[q]
    BY <2>4 DEF OwnerTypes
  <2>6. lease'[p] \in {lease[p], NoLease, session[p]}
    BY <2>4 DEF OwnerTypes
  <2> QED
    BY <2>1, <2>2, <2>3, <2>4, <2>5, <2>6, InItsSessionKeeps DEF InItsSession
<1>6. CASE \E m \in ROUTER_MODES : ModeSet(p, m)
  <2>1. PICK m \in ROUTER_MODES : ModeSet(p, m)
    BY <1>6
  <2>2. phase[p] # "down" /\ UNCHANGED <<session, lineage, begun, lease>> /\ moves' \in Nat
    BY <1>1, <2>1 DEF ModeSet, InSession, Starting
  <2>3. MemoryTypes' /\ OwnerTypes' /\ mode'[p] = m
    BY <2>1 DEF ModeSet, MemoryTypes, OwnerTypes
  <2>4. \/ UNCHANGED <<entry, phase, file>>
        \/ PersistState(p, mode'[p], lease'[p]) /\ Remember(p, repoKey[p], m, FALSE)
    BY <2>1, <2>2, <2>3 DEF ModeSet
  <2> QED
    BY <1>1, <2>2, <2>3, <2>4, InItsSessionKeeps DEF InItsSession
<1>7. CASE OffSettles(p)
  <2>1. phase[p] # "down" /\ UNCHANGED <<session, lineage, begun, lease, mode, moves>>
    BY <1>7 DEF OffSettles, InSession, Starting, owner
  <2>2. MemoryTypes' /\ OwnerTypes'
    BY <1>7 DEF OffSettles, MemoryTypes, OwnerTypes, owner
  <2> QED
    BY <1>1, <1>7, <2>1, <2>2, InItsSessionKeeps DEF OffSettles, InItsSession
<1>8. CASE TelemetryFails(p)
  <2>1. phase[p] # "down" /\ UNCHANGED <<session, lineage, begun, lease>> /\ moves' \in Nat
    BY <1>1, <1>8 DEF TelemetryFails, InSession, Starting
  <2>2. MemoryTypes' /\ OwnerTypes'
    BY <1>8 DEF TelemetryFails, DisableForTelemetryFailure, MemoryTypes, OwnerTypes, ROUTER_MODES
  <2>3. \/ UNCHANGED <<entry, phase, file>>
        \/ /\ mode' = [mode EXCEPT ![p] = "shadow"]
           /\ PersistState(p, "shadow", lease[p]) /\ Remember(p, repoKey[p], "shadow", FALSE)
    BY <1>8 DEF TelemetryFails, DisableForTelemetryFailure
  <2>4. \/ UNCHANGED <<entry, phase, file>>
        \/ PersistState(p, mode'[p], lease'[p]) /\ Remember(p, repoKey[p], "shadow", FALSE)
    BY <2>1, <2>3 DEF OwnerTypes
  <2>5. "shadow" \in ROUTER_MODES
    BY DEF ROUTER_MODES
  <2> QED
    BY <1>1, <2>1, <2>2, <2>4, <2>5, InItsSessionKeeps DEF InItsSession
<1> QED
  BY <1>3, <1>4, <1>5, <1>6, <1>7, <1>8

\* The writers, wherever their processes are.
LEMMA WriteStep == ASSUME IInv, Writing PROVE IInv'
<1> USE DEF IInv, TypeOK
<1>1. FileTypes' /\ LogInv'
  BY WritesKeep
<1>2. PICK w \in writes : AppendLine(w) \/ AppendFails(w) \/ LogIsShort(w) \/ CompactionReads(w)
                            \/ CompactionReplaces(w)
  BY DEF Writing
<1>3. w.proc \in Procs /\ phase[w.proc] # "down" /\ w.rec.mode \in ROUTER_MODES
  BY DEF FileTypes, Writes, Records, WriterInv
<1>4. /\ UNCHANGED <<entry, session, owner, begun, lineage>>
      /\ UNCHANGED <<phase, memory>> \/ \E done \in BOOLEAN : WriteEnds(w, done)
  BY <1>2 DEF AppendLine, AppendFails, LogIsShort, CompactionReads, CompactionReplaces
<1>5. /\ phase' \in {phase, [phase EXCEPT ![w.proc] = "stopped"]}
      /\ recordedExitMode' \in {recordedExitMode, [recordedExitMode EXCEPT ![w.proc] = w.rec.mode]}
      /\ UNCHANGED <<repoKey, repoKeyCwd, modeForNextSession, telemetryHealthy, turningOff>>
  BY <1>4 DEF WriteEnds, memory
<1>6. /\ phase' \in [Procs -> Phases]
      /\ \A q \in Procs : phase'[q] = "down" <=> phase[q] = "down"
  BY <1>3, <1>5 DEF SessionTypes, Phases
<1>7. SessionTypes' /\ OwnerTypes' /\ MemoryTypes'
  BY <1>3, <1>4, <1>5, <1>6 DEF SessionTypes, OwnerTypes, MemoryTypes, owner, ModesOrNone
<1>8. LeaseInv'
  BY <1>4, <1>6 DEF LeaseInv, LeaseIsTheSessions, owner
<1>9. \A v \in writes' : \E u \in writes : v.proc = u.proc
  <2>1. CASE AppendLine(w)
    <3>1. \A v \in writes' : \/ v = [w EXCEPT !.pc = "read"]
                             \/ \E u \in writes : v = [u EXCEPT !.missed = @ \cup {w.rec.key}]
      BY <2>1 DEF AppendLine
    <3> QED
      BY <3>1 DEF FileTypes, Writes
  <2>2. CASE CompactionReads(w)
    BY <2>2 DEF CompactionReads, FileTypes, Writes
  <2>3. CASE writes' = writes \ {w}
    BY <2>3
  <2> QED
    BY <1>2, <2>1, <2>2, <2>3 DEF AppendFails, LogIsShort, CompactionReplaces
<1>10. WriterInv'
  BY <1>6, <1>9 DEF WriterInv, FileTypes, Writes
<1> QED
  BY <1>1, <1>7, <1>8, <1>10

\* Every step keeps the invariant.
LEMMA Inductive == IInv /\ [Next]_vars => IInv'
<1> SUFFICES ASSUME IInv, [Next]_vars PROVE IInv'
  OBVIOUS
<1> USE DEF IInv, TypeOK
<1>1. CASE Writing
  BY <1>1, WriteStep
<1>2. ASSUME NEW p \in Procs, NEW s \in Sessions, NEW reason \in Reasons,
             SessionStarts(p, s, reason) \/ ProcessStarts(p, s, reason)
      PROVE  IInv'
  <2>1. UNCHANGED file /\ moves' \in Nat /\ phase' = [phase EXCEPT ![p] = "loading"]
    BY <1>2 DEF SessionStarts, ProcessStarts, Move, FileTypes
  <2>2. FileTypes' /\ LogInv'
    BY <2>1, FileKept
  <2>3. WriterInv'
    BY <2>1 DEF WriterInv, file, FileTypes, Writes, SessionTypes
  <2> QED
    BY <1>2, <2>2, <2>3, OpeningKeeps
<1>3. ASSUME NEW p \in Procs, ScopeRead(p) \/ RepoKeyResolved(p) \/ StartModeRead(p)
      PROVE  IInv'
  <2>1. UNCHANGED file /\ moves' \in Nat
    BY <1>3 DEF ScopeRead, RepoKeyResolved, StartModeRead, FileTypes
  <2>2. \A q \in Procs : phase'[q] = "down" => phase[q] = "down"
    BY <1>3 DEF ScopeRead, RepoKeyResolved, StartModeRead, KeyKnown, Restores, SessionTypes
  <2>3. WriterInv'
    BY <2>1, <2>2 DEF WriterInv, file, FileTypes, Writes
  <2> QED
    BY <1>3, <2>1, <2>3, FileKept, StartStep
<1>4. ASSUME NEW p \in Procs, ProcessEnds(p) PROVE IInv'
  <2>1. WriterInv'
    BY <1>4 DEF ProcessEnds, WriterInv, FileTypes, Writes, SessionTypes
  <2> QED
    BY <1>4, <2>1, KillKeeps, EndStep
<1>5. CASE UNCHANGED vars
  <2>1. UNCHANGED <<file, entry, phase, session, owner, begun, memory, moves, lineage>>
    BY <1>5 DEF vars
  <2>2. FileTypes' /\ LogInv'
    BY <2>1, FileKept DEF FileTypes
  <2>3. SessionTypes' /\ OwnerTypes' /\ MemoryTypes'
    BY <2>1 DEF SessionTypes, OwnerTypes, MemoryTypes, owner, memory
  <2>4. LeaseInv' /\ WriterInv'
    BY <2>1 DEF LeaseInv, LeaseIsTheSessions, WriterInv, owner, file
  <2> QED
    BY <2>2, <2>3, <2>4
<1> QED
  BY <1>1, <1>2, <1>3, <1>4, <1>5, SessionStep DEF Next, Reasons

-----------------------------------------------------------------------------
(* The theorems.                                                             *)

\* The invariant holds of every reachable state.
LEMMA Invariant == Spec => []IInv
BY Initially, Inductive, PTL DEF Spec

\* Type correctness: whatever was configured, recorded or left by a killed
\* writer, a process is in a mode the router knows.
THEOREM TypeCorrect == Spec => []TypeOK
<1>1. IInv => TypeOK
  BY DEF IInv
<1> QED
  BY <1>1, Invariant, PTL

\* The log says the mode last recorded for a repository, through appends and
\* rewrites of any number of processes that use no lock and may be killed at any
\* step, unless a rewrite has missed the record or a torn line has swallowed it.
THEOREM LogKeepsRecords == Spec => []RecordsSurvive
<1>1. IInv => RecordsSurvive
  BY DEF IInv, LogInv
<1> QED
  BY <1>1, Invariant, PTL

\* No session is left with, or persists, the lease of another it does not
\* descend from, wherever its start was interrupted.
THEOREM LeasesStayHome == Spec => []LeaseIsTheSessions
<1>1. IInv => LeaseIsTheSessions
  BY DEF IInv, LeaseInv
<1> QED
  BY <1>1, Invariant, PTL
=============================================================================
