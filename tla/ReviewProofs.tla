---------------------------- MODULE ReviewProofs ----------------------------
(***************************************************************************)
(* Proofs about module Review, for any number of threads, plans, moves,    *)
(* versions of the work and reviewers, and any history of three attempts   *)
(* or more.                                                                *)
(***************************************************************************)
EXTENDS Review, TLAPS

Threads == [Slots -> Reviews]

\* The stages of a review that is pending.
AtWork == {"evidence", "skipping", "failing", "running", "recording", "applying"}

\* The pending review's thread is at work and nobody has given it up.
PendingInv ==
    pending # 0 => reviews[pending].stage \in AtWork /\ ~reviews[pending].cancelled

\* A user's turn is prepared without a review pending, and none is about to start.
PromptInv ==
    /\ at = "prompted" => pending = 0
    /\ \A s \in Slots : reviews[s].stage = "collecting" => mode = "active" /\ at # "prompted"

\* While the attempt and route are those a pending review of a plan captured, the
\* plan is the one it is about.
PlanInv ==
    (pending # 0 /\ reviews[pending].kind = "plan" /\ ~lease.over) =>
        /\ reviews[pending].choice <= lease.choice
        /\ reviews[pending].choice = lease.choice =>
              lease.phase = "planning" /\ lease.plan = reviews[pending].scope

\* The history of a lease that is planning holds the attempt of its present plan, if
\* that was ever sent to review.
HistoryInv ==
    ~lease.over =>
        /\ \A choice \in reviewed : choice <= lease.choice
        /\ (lease.choice \in reviewed /\ lease.phase = "planning" /\ lease.plan # 0)
              => Attempted(lease, "plan", lease.plan)

IInv == TypeOK /\ PendingInv /\ PromptInv /\ PlanInv /\ HistoryInv

-----------------------------------------------------------------------------
(* What the operators on leases and threads do.                             *)

\* Every attempt key is one.
LEMMA Keys ==
  /\ \A l \in Leases, kind \in {"plan", "completion"}, scope \in Nat : Key(l, kind, scope) \in Attempts
  /\ \A l \in Leases : PlanKey(l) \in Attempts /\ l.plan \in Nat
<1>1. Plans \cup {0} \subseteq Nat
  BY ReviewAssumption
<1>2. \A l \in Leases : l.plan \in Nat /\ l.choice \in Nat
  BY <1>1 DEF Leases
<1>3. \A l \in Leases, kind \in {"plan", "completion"}, scope \in Nat : Key(l, kind, scope) \in Attempts
  BY <1>2 DEF Key, Attempts
<1> QED
  BY <1>2, <1>3 DEF PlanKey

\* The last few of a sequence are a sequence.
LEMMA LastType ==
  ASSUME NEW S, NEW keys \in Seq(S), NEW n \in Nat PROVE Last(keys, n) \in Seq(S)
BY DEF Last

\* So are those other than one of them.
LEMMA OthersType ==
  ASSUME NEW S, NEW keys \in Seq(S), NEW k, \E i \in 1..Len(keys) : keys[i] = k
  PROVE  Others(keys, k) \in Seq(S)
<1> DEFINE i == CHOOSE i \in 1..Len(keys) : keys[i] = k
<1>1. i \in 1..Len(keys)
  OBVIOUS
<1> HIDE DEF i
<1>2. SubSeq(keys, 1, i - 1) \o SubSeq(keys, i + 1, Len(keys)) \in Seq(S)
  <2>1. SubSeq(keys, 1, i - 1) \in Seq(S) /\ SubSeq(keys, i + 1, Len(keys)) \in Seq(S)
    BY <1>1
  <2> QED
    BY <2>1
<1> QED
  BY <1>2 DEF Others, i

\* The history ends with the attempt just recorded and keeps that of the plan.
LEMMA HistoryKeeps ==
  ASSUME NEW l \in Leases, NEW key \in Attempts
  PROVE  /\ History(l, key) \in Seq(Attempts)
         /\ \E i \in 1..Len(History(l, key)) : History(l, key)[i] = key
         /\ (l.phase = "planning" /\ l.plan # 0 /\ Attempted(l, "plan", l.plan))
               => \E i \in 1..Len(History(l, key)) : History(l, key)[i] = PlanKey(l)
<1> DEFINE pinned == l.phase = "planning" /\ l.plan # 0 /\ Attempted(l, "plan", l.plan)
<1>1. PlanKey(l) \in Attempts /\ l.keys \in Seq(Attempts)
  BY Keys DEF Leases
<1>2. CASE pinned
  <2> DEFINE recent == Last(Others(l.keys, PlanKey(l)), MaxHistory - 2)
  <2>1. \E i \in 1..Len(l.keys) : l.keys[i] = PlanKey(l)
    BY <1>2 DEF Attempted, PlanKey
  <2>2. MaxHistory - 2 \in Nat
    BY ReviewAssumption
  <2>3. recent \in Seq(Attempts)
    BY <1>1, <2>1, <2>2, OthersType, LastType
  <2>4. History(l, key) = <<PlanKey(l)>> \o recent \o <<key>>
    BY <1>2 DEF History
  <2> HIDE DEF recent
  <2>5. <<PlanKey(l)>> \o recent \in Seq(Attempts) /\ Len(<<PlanKey(l)>> \o recent) = Len(recent) + 1
        /\ (<<PlanKey(l)>> \o recent)[1] = PlanKey(l)
    BY <1>1, <2>3
  <2> DEFINE front == <<PlanKey(l)>> \o recent
  <2> HIDE DEF front
  <2>6. /\ front \o <<key>> \in Seq(Attempts) /\ Len(front \o <<key>>) = Len(front) + 1
        /\ (front \o <<key>>)[Len(front) + 1] = key /\ (front \o <<key>>)[1] = front[1]
        /\ Len(front) >= 1
    BY <2>3, <2>5 DEF front
  <2> QED
    BY <2>4, <2>5, <2>6 DEF front
<1>3. CASE ~pinned
  <2> DEFINE recent == Last(l.keys, MaxHistory - 1)
  <2>1. recent \in Seq(Attempts)
    BY <1>1, LastType, ReviewAssumption
  <2>2. History(l, key) = Append(recent, key)
    BY <1>3 DEF History
  <2> HIDE DEF recent
  <2> QED
    BY <1>3, <2>1, <2>2
<1> QED
  BY <1>2, <1>3

\* A review given up is abandoned, or running into its abort; others go on.
LEMMA CancelledKeeps ==
  ASSUME NEW rs \in Threads, NEW p \in Slots \cup {0}
  PROVE  /\ Cancelled(rs, p) \in Threads
         /\ \A s \in Slots : s # p => Cancelled(rs, p)[s] = rs[s]
         /\ p # 0 => Cancelled(rs, p)[p].stage \in {"abandoned", "running"}
<1>1. Abandoned \in Reviews /\ [Abandoned EXCEPT !.stage = "running", !.runner = "aborting"] \in Reviews
  BY DEF Abandoned, Free, Reviews
<1>2. CASE p = 0
  BY <1>2, ReviewAssumption DEF Cancelled
<1>3. CASE p # 0
  <2>1. \E r \in {Abandoned, [Abandoned EXCEPT !.stage = "running", !.runner = "aborting"]} :
           Cancelled(rs, p) = [rs EXCEPT ![p] = r]
    BY <1>3 DEF Cancelled
  <2>2. \A r \in {Abandoned, [Abandoned EXCEPT !.stage = "running", !.runner = "aborting"]} :
           r \in Reviews /\ r.stage \in {"abandoned", "running"}
    BY <1>1 DEF Abandoned, Free
  <2> QED
    BY <1>3, <2>1, <2>2 DEF Threads
<1> QED
  BY <1>2, <1>3

\* Work collected comes to nothing; others go on.
LEMMA DisownedKeeps ==
  ASSUME NEW rs \in Threads
  PROVE  /\ Disowned(rs) \in Threads
         /\ \A s \in Slots : /\ Disowned(rs)[s].stage # "collecting"
                             /\ rs[s].stage # "collecting" => Disowned(rs)[s] = rs[s]
                             /\ rs[s].stage = "collecting" => Disowned(rs)[s].stage = "abandoned"
<1>1. Abandoned \in Reviews /\ Abandoned.stage = "abandoned"
  BY DEF Abandoned, Free, Reviews
<1> QED
  BY <1>1 DEF Disowned, Threads

\* So do they when the epoch advances, but no longer as current ones.
LEMMA OutdatedKeeps ==
  ASSUME NEW rs \in Threads
  PROVE  /\ Outdated(rs) \in Threads
         /\ \A s \in Slots : /\ Outdated(rs)[s].stage # "collecting"
                             /\ rs[s].stage # "collecting" => Outdated(rs)[s].stage = rs[s].stage
                             /\ rs[s].stage = "collecting" => Outdated(rs)[s].stage = "abandoned"
<1>1. Disowned(rs) \in Threads
  BY DisownedKeeps
<1>2. \A s \in Slots : Outdated(rs)[s] = [Disowned(rs)[s] EXCEPT !.current = FALSE]
  BY DEF Outdated
<1>3. \A r \in Reviews : [r EXCEPT !.current = FALSE] \in Reviews
                         /\ [r EXCEPT !.current = FALSE].stage = r.stage
  BY DEF Reviews
<1>4. Outdated(rs) \in Threads
  BY <1>1, <1>2, <1>3 DEF Threads, Outdated
<1>5. \A s \in Slots : Disowned(rs)[s] \in Reviews /\ Outdated(rs)[s].stage = Disowned(rs)[s].stage
  BY <1>1, <1>2, <1>3 DEF Threads
<1> QED
  BY <1>4, <1>5, DisownedKeeps

\* What finish() makes of a review is about the same work.
LEMMA FinishedKeeps ==
  ASSUME NEW r \in Reviews, r.stage = "running", NEW status \in {"none", "completed", "unavailable"}
  PROVE  /\ Finished(r, status) \in Reviews
         /\ Finished(r, status).stage \in AtWork
         /\ Finished(r, status).kind = r.kind /\ Finished(r, status).scope = r.scope
         /\ Finished(r, status).choice = r.choice /\ Finished(r, status).cancelled = r.cancelled
BY DEF Finished, Reviews, AtWork

-----------------------------------------------------------------------------
(* What a step other than the start of a plan's review does to the threads  *)
(* and to the lease, and that the invariant needs no more.                  *)

SameReview(r, q) == r.kind = q.kind /\ r.scope = q.scope /\ r.choice = q.choice

\* The review of thread s is about the work the lease holds.
Advisable(s) ==
    /\ mode = "active" /\ ~lease.over
    /\ reviews[s].scope = IF reviews[s].kind = "plan" THEN lease.plan ELSE lease.version
    /\ reviews[s].choice = lease.choice

\* The pending review stays, ends, or is now one of the completion; a thread starts
\* only such a one, and the pending one ends with the lease as it is or with advice.
ThreadStep ==
    /\ pending' \in Slots \cup {0} /\ reviews' \in Threads
    /\ pending' # 0 =>
          /\ reviews'[pending'].stage \in AtWork /\ ~reviews'[pending'].cancelled
          /\ \/ reviews'[pending'].kind = "completion"
             \/ pending' = pending /\ SameReview(reviews'[pending], reviews[pending])
    /\ \A s \in Slots :
          /\ reviews'[s].stage = "collecting" => mode' = "active" /\ at' # "prompted"
          /\ reviews[s].stage = "free" => reviews'[s].stage = "free" \/ reviews'[s].kind = "completion"
          /\ pending = s /\ reviews'[s].stage = "free" => lease' = lease \/ Advisable(s)

\* The lease l is one of the same task that has not forgotten its plan's attempt.
Follows(l) ==
    l.over \/
      /\ ~lease.over /\ lease.choice <= l.choice
      /\ (l.choice = lease.choice /\ l.phase = "planning" /\ l.plan # 0)
            => /\ lease.phase = "planning" /\ l.plan = lease.plan
               /\ Attempted(lease, "plan", lease.plan) => Attempted(l, "plan", l.plan)

\* The lease l is planning what the present one plans.
KeepsPlan(l) ==
    (~l.over /\ l.choice = lease.choice /\ lease.phase = "planning")
        => l.phase = "planning" /\ l.plan = lease.plan

LeaseStep ==
    /\ lease' \in Leases
    /\ pending' # 0 => Follows(lease') /\ KeepsPlan(lease')
    /\ \/ reviewed' = {}
       \/ reviewed' = reviewed /\ Follows(lease')

RunTypes ==
    /\ mode' \in {"off", "shadow", "active"} /\ at' \in Positions
    /\ held' \in [current : BOOLEAN, owns : BOOLEAN]
    /\ at' = "prompted" => pending' = 0

AdviceStep == \A s \in Slots : Delivered(s) => Advisable(s)

OnceStep ==
    \A s \in Slots :
          reviews[s].stage = "free" /\ reviews'[s].stage # "free" /\ reviews'[s].kind = "plan"
             => lease.choice \notin reviewed

Keeps == IInv' /\ AdviceStep /\ OnceStep

\* No thread is named 0.
LEMMA NoSlotZero == 0 \notin Slots
BY ReviewAssumption

\* A lease of the same task keeps the history.
LEMMA FollowsKeeps ==
  ASSUME TypeOK, HistoryInv, LeaseStep PROVE HistoryInv' /\ reviewed' \subseteq Nat
<1>1. CASE reviewed' = {}
  BY <1>1 DEF HistoryInv
<1>2. CASE reviewed' = reviewed /\ Follows(lease')
  <2>1. lease.choice \in Nat /\ lease'.choice \in Nat /\ reviewed \subseteq Nat
    BY DEF TypeOK, LeaseStep, Leases
  <2>2. ASSUME ~lease'.over PROVE ~lease.over /\ lease.choice <= lease'.choice
    BY <1>2, <2>2 DEF Follows
  <2>3. ASSUME ~lease'.over, NEW choice \in reviewed PROVE choice <= lease'.choice
    BY <2>1, <2>2, <2>3 DEF HistoryInv
  <2>4. ASSUME ~lease'.over, lease'.choice \in reviewed, lease'.phase = "planning", lease'.plan # 0
        PROVE  Attempted(lease', "plan", lease'.plan)
    <3>1. lease.choice = lease'.choice
      BY <2>1, <2>2, <2>4 DEF HistoryInv
    <3> QED
      BY <1>2, <2>2, <2>4, <3>1 DEF Follows, HistoryInv
  <2> QED
    BY <1>2, <2>1, <2>3, <2>4 DEF HistoryInv
<1> QED
  BY <1>1, <1>2 DEF LeaseStep

\* A pending review of a plan stays with the plan.
LEMMA PlanKept ==
  ASSUME TypeOK, PlanInv, ThreadStep, LeaseStep PROVE PlanInv'
<1> SUFFICES ASSUME pending' # 0, reviews'[pending'].kind = "plan", ~lease'.over
             PROVE  /\ reviews'[pending'].choice <= lease'.choice
                    /\ reviews'[pending'].choice = lease'.choice =>
                          lease'.phase = "planning" /\ lease'.plan = reviews'[pending'].scope
  BY DEF PlanInv
<1>1. pending' = pending /\ SameReview(reviews'[pending], reviews[pending])
  BY DEF ThreadStep
<1>2. ~lease.over /\ lease.choice <= lease'.choice /\ KeepsPlan(lease')
  BY DEF LeaseStep, Follows
<1>3. lease.choice \in Nat /\ lease'.choice \in Nat
  BY DEF TypeOK, LeaseStep, Leases
<1>4. reviews[pending].choice \in Nat
  BY <1>1, NoSlotZero DEF TypeOK, Reviews
<1>5. reviews[pending].choice <= lease.choice
      /\ (reviews[pending].choice = lease.choice => lease.phase = "planning" /\ lease.plan = reviews[pending].scope)
  BY <1>1, <1>2 DEF PlanInv, SameReview
<1> QED
  BY <1>1, <1>2, <1>3, <1>4, <1>5 DEF SameReview, KeepsPlan

\* Such steps keep the invariant, deliver nothing and review no plan.
LEMMA StepKeeps ==
  ASSUME IInv, ThreadStep, LeaseStep, RunTypes PROVE Keeps
<1>1. HistoryInv' /\ PlanInv' /\ reviewed' \subseteq Nat
  BY FollowsKeeps, PlanKept DEF IInv
<1>2. TypeOK'
  BY <1>1 DEF TypeOK, ThreadStep, LeaseStep, RunTypes, Threads
<1>3. PendingInv' /\ PromptInv'
  BY DEF PendingInv, PromptInv, ThreadStep, RunTypes
<1>4. AdviceStep
  <2>1. Free.stage = "free"
    BY DEF Free
  <2> QED
    BY <2>1 DEF AdviceStep, Delivered, ThreadStep
<1>5. OnceStep
  <2> SUFFICES ASSUME NEW s \in Slots, reviews[s].stage = "free", reviews'[s].stage # "free",
                      reviews'[s].kind = "plan"
               PROVE  FALSE
    BY DEF OnceStep
  <2> QED
    BY DEF ThreadStep
<1> QED
  BY <1>1, <1>2, <1>3, <1>4, <1>5 DEF Keeps, IInv

-----------------------------------------------------------------------------
(* What becomes of a lease.                                                 *)

\* The same lease is one of the same task.
LEMMA SameLease ==
  ASSUME TypeOK, lease' = lease PROVE Follows(lease') /\ KeepsPlan(lease') /\ lease' \in Leases
<1>1. lease.choice \in Nat /\ lease.over \in BOOLEAN
  BY DEF TypeOK, Leases
<1> QED
  BY <1>1 DEF TypeOK, Follows, KeepsPlan

\* What keeps the attempt, the phase and the plan keeps to the task.
LEMMA Unplanned ==
  ASSUME TypeOK, NEW l \in Leases, l.choice = lease.choice, l.over = lease.over,
         \/ l.phase = lease.phase /\ l.plan = lease.plan
         \/ lease.phase # "planning" /\ l.phase # "planning",
         l.keys = lease.keys
  PROVE  Follows(l) /\ KeepsPlan(l)
<1>1. lease.choice \in Nat /\ lease.over \in BOOLEAN
  BY DEF TypeOK, Leases
<1>2. l.plan = lease.plan => (Attempted(lease, "plan", lease.plan) => Attempted(l, "plan", l.plan))
  BY DEF Attempted, Key
<1> QED
  BY <1>1, <1>2 DEF Follows, KeepsPlan

\* So does what moves on to another choice, and what is over.
LEMMA MovedOn ==
  ASSUME TypeOK, NEW l \in Leases, l.over \/ (l.over = lease.over /\ l.choice = lease.choice + 1)
  PROVE  Follows(l) /\ KeepsPlan(l)
<1>1. lease.choice \in Nat /\ lease.over \in BOOLEAN
  BY DEF TypeOK, Leases
<1> QED
  BY <1>1 DEF Follows, KeepsPlan

\* Leases made are leases.
LEMMA LeaseTypes ==
  /\ NoLease \in Leases /\ Over \in Leases /\ Over.over
  /\ \A policy \in Policies : NewLease(policy) \in Leases /\ InitialPhase(policy) # "none"
  /\ \A l \in Leases, step \in Steps : NoteStep(l, step) \in Leases
  /\ \A l \in Leases : Resumed(l) \in Leases
  /\ \A l \in Leases, policy \in Policies : Corrected(l, policy) \in Leases
  /\ \A l \in Leases : \A n \in Moved(l) : n \in Leases
<1>1. \A policy \in Policies : NewLease(policy) \in Leases /\ InitialPhase(policy) # "none"
  BY DEF NewLease, InitialPhase, Policies, Leases
<1>2. NoLease \in Leases /\ Over \in Leases /\ Over.over
  <2>1. NewLease("ordinary") \in Leases
    BY <1>1 DEF Policies
  <2> QED
    BY <2>1 DEF NoLease, Over, NewLease, Leases
<1>3. \A l \in Leases, step \in Steps : NoteStep(l, step) \in Leases
  BY DEF NoteStep, Leases, Steps
<1>4. \A l \in Leases : Resumed(l) \in Leases
  BY DEF Resumed, Leases
<1>5. \A l \in Leases, policy \in Policies : Corrected(l, policy) \in Leases
  <2> TAKE l \in Leases, policy \in Policies
  <2>1. InitialPhase(policy) \in {"ordinary", "planning", "building"}
    BY DEF InitialPhase
  <2>2. [l EXCEPT !.choice = @ + 1] \in Leases
    BY DEF Leases
  <2>3. [l EXCEPT !.choice = @ + 1, !.policy = policy, !.phase = InitialPhase(policy), !.plan = 0]
        \in Leases
    <3>1. \A m \in Leases, phase \in {"ordinary", "planning", "building"} :
             [m EXCEPT !.policy = policy, !.phase = phase, !.plan = 0] \in Leases
      BY DEF Leases
    <3>2. [l EXCEPT !.choice = @ + 1, !.policy = policy, !.phase = InitialPhase(policy), !.plan = 0]
          = [[l EXCEPT !.choice = @ + 1] EXCEPT !.policy = policy, !.phase = InitialPhase(policy), !.plan = 0]
      BY DEF Leases
    <3> QED
      BY <2>1, <2>2, <3>1, <3>2
  <2> QED
    BY <2>2, <2>3 DEF Corrected
<1>6. \A l \in Leases : [l EXCEPT !.choice = @ + 1] \in Leases
  BY DEF Leases
<1>7. \A l \in Leases : \A n \in Moved(l) : n \in Leases
  BY <1>2, <1>6 DEF Moved
<1> QED
  BY <1>1, <1>2, <1>3, <1>4, <1>5, <1>7

\* What the router makes of the present lease is of the same task.
LEMMA Followers ==
  ASSUME TypeOK
  PROVE  /\ \A step \in Steps : Follows(NoteStep(lease, step)) /\ KeepsPlan(NoteStep(lease, step))
         /\ Follows(Resumed(lease)) /\ KeepsPlan(Resumed(lease))
         /\ \A policy \in Policies : Follows(Corrected(lease, policy)) /\ KeepsPlan(Corrected(lease, policy))
         /\ \A l \in Moved(lease) : Follows(l) /\ KeepsPlan(l)
<1>1. lease \in Leases
  BY DEF TypeOK
<1>2. ASSUME NEW step \in Steps PROVE Follows(NoteStep(lease, step)) /\ KeepsPlan(NoteStep(lease, step))
  <2>1. NoteStep(lease, step) \in Leases
    BY <1>1, LeaseTypes
  <2>2. /\ NoteStep(lease, step).choice = lease.choice /\ NoteStep(lease, step).over = lease.over
        /\ NoteStep(lease, step).phase = lease.phase /\ NoteStep(lease, step).plan = lease.plan
        /\ NoteStep(lease, step).keys = lease.keys
    BY <1>1 DEF NoteStep, Leases
  <2> QED
    BY <2>1, <2>2, Unplanned
<1>3. Follows(Resumed(lease)) /\ KeepsPlan(Resumed(lease))
  <2>1. Resumed(lease) \in Leases
    BY <1>1, LeaseTypes
  <2>2. /\ Resumed(lease).choice = lease.choice /\ Resumed(lease).over = lease.over
        /\ Resumed(lease).keys = lease.keys
        /\ \/ Resumed(lease).phase = lease.phase /\ Resumed(lease).plan = lease.plan
           \/ lease.phase # "planning" /\ Resumed(lease).phase # "planning"
    BY <1>1 DEF Resumed, Leases
  <2> QED
    BY <2>1, <2>2, Unplanned
<1>4. ASSUME NEW policy \in Policies
      PROVE  Follows(Corrected(lease, policy)) /\ KeepsPlan(Corrected(lease, policy))
  <2>1. Corrected(lease, policy) \in Leases
    BY <1>1, LeaseTypes
  <2>2. Corrected(lease, policy).choice = lease.choice + 1 /\ Corrected(lease, policy).over = lease.over
    BY <1>1 DEF Corrected, Leases
  <2> QED
    BY <2>1, <2>2, MovedOn
<1>5. ASSUME NEW l \in Moved(lease) PROVE Follows(l) /\ KeepsPlan(l)
  <2>1. l \in Leases
    BY <1>1, LeaseTypes
  <2>2. l.over \/ (l.over = lease.over /\ l.choice = lease.choice + 1)
    BY <1>1, LeaseTypes DEF Moved, Leases
  <2> QED
    BY <2>1, <2>2, MovedOn
<1> QED
  BY <1>2, <1>3, <1>4, <1>5

-----------------------------------------------------------------------------
(* What becomes of the threads.                                             *)

\* The threads rs a step goes on from: those of the state, but for one that may
\* just have ended and was not the pending one.
From(rs) ==
    /\ pending # 0 => rs[pending] = reviews[pending]
    /\ \A s \in Slots : /\ reviews[s].stage = "free" => rs[s].stage = "free"
                        /\ rs[s].stage = "collecting" => reviews[s].stage = "collecting"

\* The pending review stays as it is, or ends in an abort.
Undisturbed ==
    /\ pending' \in Slots \cup {0} /\ reviews' \in Threads
    /\ pending' # 0 => pending' = pending /\ SameReview(reviews'[pending], reviews[pending])
                       /\ reviews'[pending].stage \in AtWork /\ ~reviews'[pending].cancelled
    /\ \A s \in Slots : /\ reviews[s].stage = "free" => reviews'[s].stage = "free"
                        /\ pending = s => reviews'[s].stage # "free"

\* The threads of the state are such.
LEMMA FromState == ASSUME TypeOK PROVE reviews \in Threads /\ From(reviews)
BY DEF TypeOK, Threads, From

\* Threads that stay are undisturbed.
LEMMA Resting ==
  ASSUME TypeOK, PendingInv, UNCHANGED <<pending, reviews>> PROVE Undisturbed
BY NoSlotZero DEF TypeOK, PendingInv, Undisturbed, Threads, SameReview, AtWork

\* Threads undisturbed deliver nothing.
LEMMA UndisturbedStep ==
  ASSUME Undisturbed,
         \A s \in Slots : reviews'[s].stage = "collecting" => mode' = "active" /\ at' # "prompted"
  PROVE  ThreadStep
BY DEF Undisturbed, ThreadStep, SameReview

\* Tidying the tools gives up at most the pending review.
LEMMA SyncedKeeps ==
  ASSUME TypeOK, PendingInv, NEW rs \in Threads, From(rs), NEW l, Synced(rs, pending, l, mode)
  PROVE  /\ Undisturbed
         /\ \A s \in Slots : reviews'[s].stage = "collecting" => rs[s].stage = "collecting"
<1>1. pending \in Slots \cup {0} /\ reviews \in Threads
  BY DEF TypeOK, Threads
<1>2. CASE pending # 0 /\ ~Current(rs, pending, pending, l, mode)
  <2>1. pending' = 0 /\ reviews' = Cancelled(rs, pending)
    BY <1>2 DEF Synced
  <2>2. /\ Cancelled(rs, pending) \in Threads
        /\ \A s \in Slots : s # pending => Cancelled(rs, pending)[s] = rs[s]
        /\ Cancelled(rs, pending)[pending].stage \in {"abandoned", "running"}
    BY <1>1, <1>2, CancelledKeeps
  <2> QED
    BY <1>1, <1>2, <2>1, <2>2 DEF Undisturbed, From, PendingInv, AtWork
<1>3. CASE ~(pending # 0 /\ ~Current(rs, pending, pending, l, mode))
  <2>1. pending' = pending /\ reviews' = rs
    BY <1>3 DEF Synced
  <2>2. pending # 0 => rs[pending] = reviews[pending]
    BY DEF From
  <2> QED
    BY <1>1, <2>1, <2>2, NoSlotZero DEF Undisturbed, From, PendingInv, SameReview, AtWork
<1> QED
  BY <1>2, <1>3

\* So does an advance of the lease, which also disowns work being collected.
LEMMA AdvanceKeeps ==
  ASSUME TypeOK, PendingInv, NEW rs \in Threads, From(rs), NEW l, Advance(rs, pending, l)
  PROVE  lease' = l /\ Undisturbed /\ ThreadStep
<1>1. /\ Disowned(rs) \in Threads
      /\ \A s \in Slots : /\ Disowned(rs)[s].stage # "collecting"
                          /\ rs[s].stage # "collecting" => Disowned(rs)[s] = rs[s]
                          /\ rs[s].stage = "collecting" => Disowned(rs)[s].stage = "abandoned"
  BY DisownedKeeps
<1>2. From(Disowned(rs))
  BY <1>1 DEF From, PendingInv, TypeOK, AtWork
<1>3. lease' = l /\ Synced(Disowned(rs), pending, l, mode)
  BY DEF Advance
<1>4. Undisturbed /\ \A s \in Slots : reviews'[s].stage # "collecting"
  BY <1>1, <1>2, <1>3, SyncedKeeps
<1> QED
  BY <1>3, <1>4, UndisturbedStep

\* An advance of the epoch gives up the pending review and what is collected.
LEMMA SupersedeKeeps ==
  ASSUME TypeOK, PendingInv, Supersede
  PROVE  pending' = 0 /\ ThreadStep /\ held' \in [current : BOOLEAN, owns : BOOLEAN]
<1>1. pending \in Slots \cup {0} /\ reviews \in Threads
  BY DEF TypeOK, Threads
<1> DEFINE rs == Cancelled(reviews, pending)
<1>2. /\ rs \in Threads
      /\ \A s \in Slots : s # pending => rs[s] = reviews[s]
      /\ pending # 0 => rs[pending].stage \in {"abandoned", "running"}
  BY <1>1, CancelledKeeps
<1>3. pending' = 0 /\ reviews' = Outdated(rs)
  BY DEF Supersede
<1> HIDE DEF rs
<1>4. /\ Outdated(rs) \in Threads
      /\ \A s \in Slots : /\ Outdated(rs)[s].stage # "collecting"
                          /\ rs[s].stage # "collecting" => Outdated(rs)[s].stage = rs[s].stage
                          /\ rs[s].stage = "collecting" => Outdated(rs)[s].stage = "abandoned"
  BY <1>2, OutdatedKeeps
<1>5. Undisturbed
  BY <1>1, <1>2, <1>3, <1>4, NoSlotZero DEF Undisturbed, PendingInv, AtWork
<1>6. held' \in [current : BOOLEAN, owns : BOOLEAN]
  BY DEF Supersede, TypeOK
<1> QED
  BY <1>3, <1>4, <1>5, <1>6, UndisturbedStep

\* A thread that goes on stays about the same work, unless it was given up.
LEMMA ThreadGoesOn ==
  ASSUME IInv, NEW s \in Slots, NEW r \in Reviews, reviews[s].stage # "free",
         pending' = pending, reviews' = [reviews EXCEPT ![s] = r], UNCHANGED <<mode, at>>,
         r.stage \in AtWork \cup {"abandoned"},
         pending = s => r.stage \in AtWork /\ ~r.cancelled /\ SameReview(r, reviews[s])
  PROVE  ThreadStep
<1>1. pending \in Slots \cup {0} /\ reviews \in Threads
  BY DEF IInv, TypeOK, Threads
<1>2. reviews' \in Threads /\ reviews'[s] = r /\ \A u \in Slots \ {s} : reviews'[u] = reviews[u]
  BY <1>1 DEF Threads
<1>3. Undisturbed
  BY <1>1, <1>2, NoSlotZero DEF IInv, PendingInv, Undisturbed, SameReview, AtWork
<1>4. \A u \in Slots : reviews'[u].stage = "collecting" => mode' = "active" /\ at' # "prompted"
  BY <1>2 DEF IInv, PromptInv, AtWork
<1> QED
  BY <1>3, <1>4, UndisturbedStep

\* A thread that ends leaves the lease as it is.
LEMMA EndKeeps ==
  ASSUME IInv, NEW s \in Slots, reviews[s].stage # "free", End(reviews, pending, s, mode),
         UNCHANGED <<mode, lease, at>>
  PROVE  ThreadStep
<1> DEFINE q == IF pending = s THEN 0 ELSE pending
           settled == SettledWork(reviews, q, s, mode)
           r == IF settled THEN [Free EXCEPT !.stage = "collecting", !.current = TRUE] ELSE Free
<1>1. pending \in Slots \cup {0} /\ reviews \in Threads
  BY DEF IInv, TypeOK, Threads
<1>2. pending' = q /\ reviews' = [reviews EXCEPT ![s] = r]
  BY DEF End
<1>3. r \in Reviews /\ r.stage \in {"free", "collecting"}
  BY DEF Free, Reviews
<1>4. r.stage = "collecting" => mode = "active" /\ at = "idle"
  BY DEF SettledWork, Free
<1> HIDE DEF r
<1>5. reviews' \in Threads /\ reviews'[s] = r /\ \A u \in Slots \ {s} : reviews'[u] = reviews[u]
  BY <1>1, <1>2, <1>3 DEF Threads
<1>6. \A u \in Slots : reviews'[u].stage = "collecting" => mode' = "active" /\ at' # "prompted"
  BY <1>4, <1>5 DEF IInv, PromptInv
<1> QED
  BY <1>1, <1>2, <1>5, <1>6, NoSlotZero DEF IInv, PendingInv, ThreadStep, SameReview, AtWork

-----------------------------------------------------------------------------
(* The steps of a review's thread.                                          *)

\* A lease that stays is no step of the lease.
LEMMA LeaseRests ==
  ASSUME TypeOK, UNCHANGED <<lease, reviewed>> PROVE LeaseStep
BY SameLease DEF LeaseStep

\* A run that stays where it is.
LEMMA RunRests ==
  ASSUME IInv, UNCHANGED <<mode, at>>, held' \in [current : BOOLEAN, owns : BOOLEAN],
         pending' \in {0, pending}
  PROVE  RunTypes
BY DEF IInv, TypeOK, PromptInv, RunTypes

\* The lease and the run as a thread leaves them that only goes on.
LEMMA AloneKeeps ==
  ASSUME IInv, ThreadStep, UNCHANGED <<mode, lease, at, held, reviewed>>, pending' \in {0, pending}
  PROVE  Keeps
<1>1. LeaseStep
  BY LeaseRests DEF IInv
<1>2. RunTypes
  BY RunRests DEF IInv, TypeOK
<1> QED
  BY <1>1, <1>2, StepKeeps

\* A thread ends, which changes nothing but threads.
LEMMA EndsAlone ==
  ASSUME IInv, NEW s \in Slots, reviews[s].stage # "free", End(reviews, pending, s, mode),
         UNCHANGED <<mode, lease, at, held, reviewed>>
  PROVE  Keeps
<1>1. pending' \in {0, pending}
  BY DEF End
<1> QED
  BY <1>1, EndKeeps, AloneKeeps

\* The next reviewer is about the same work.
LEMMA ClimbKeeps ==
  ASSUME IInv, NEW s \in Slots, reviews[s].stage # "free", Climb(s),
         UNCHANGED <<mode, lease, at, held, reviewed>>
  PROVE  Keeps
<1>1. CASE End(reviews, pending, s, mode)
  BY <1>1, EndsAlone
<1>2. ASSUME reviews[s].left > 0, Current(reviews, pending, s, lease, mode), UNCHANGED pending,
             NEW next \in {[reviews[s] EXCEPT !.stage = "skipping"],
                           [reviews[s] EXCEPT !.stage = "running", !.runner = "creating"]},
             reviews' = [reviews EXCEPT ![s] = [next EXCEPT !.left = @ - 1]]
      PROVE  Keeps
  <2> DEFINE r == [next EXCEPT !.left = @ - 1]
  <2>1. reviews[s] \in Reviews /\ reviews[s].left > 0
    BY <1>2 DEF IInv, TypeOK
  <2>2. /\ next \in Reviews /\ next.left = reviews[s].left /\ next.stage \in AtWork
        /\ SameReview(next, reviews[s]) /\ next.cancelled = reviews[s].cancelled
    BY <2>1 DEF Reviews, AtWork, SameReview
  <2>3. /\ r \in Reviews /\ r.stage \in AtWork
        /\ SameReview(r, reviews[s]) /\ r.cancelled = reviews[s].cancelled
    BY <2>1, <2>2 DEF Reviews, SameReview
  <2>4. ~reviews[s].cancelled
    BY <1>2 DEF Current
  <2> HIDE DEF r
  <2>5. ThreadStep
    BY <1>2, <2>3, <2>4, ThreadGoesOn DEF r
  <2> QED
    BY <1>2, <2>5, AloneKeeps
<1> QED
  BY <1>1, <1>2 DEF Climb

\* Advice is about the work the lease holds.
LEMMA DeliverKeeps ==
  ASSUME IInv, NEW s \in Slots, reviews[s].stage \in AtWork, Deliver(s),
         Current(reviews, pending, s, lease, mode)
  PROVE  Keeps
<1>1. pending = s /\ Advisable(s)
  BY NoSlotZero DEF Current, IInv, PlanInv, Advisable, TypeOK, Reviews
<1>2. lease \in Leases /\ reviews \in Threads /\ reviews[s] \in Reviews
  BY DEF IInv, TypeOK, Threads
<1>3. PICK approved \in BOOLEAN : lease' = Advised(lease, reviews[s].kind, approved)
  BY DEF Deliver
<1>4. lease' \in Leases
  BY <1>2, <1>3 DEF Advised, Leases, Policies
<1>5. /\ lease'.choice = lease.choice /\ lease'.over = lease.over
      /\ lease'.phase # "planning" \/ lease'.plan = 0
  BY <1>2, <1>3 DEF Advised, Leases
<1>6. LeaseStep
  BY <1>2, <1>4, <1>5 DEF LeaseStep, Follows, Deliver, Leases
<1>7. /\ pending' = 0 /\ reviews' = [Disowned(reviews) EXCEPT ![s] = Free]
      /\ UNCHANGED <<mode, at>> /\ held' \in [current : BOOLEAN, owns : BOOLEAN]
  BY DEF Deliver, IInv, TypeOK
<1>8. Free \in Reviews /\ Free.stage = "free"
  BY DEF Free, Reviews
<1>9. ThreadStep
  <2>1. /\ Disowned(reviews) \in Threads
        /\ \A u \in Slots : /\ Disowned(reviews)[u].stage # "collecting"
                            /\ reviews[u].stage # "collecting" => Disowned(reviews)[u] = reviews[u]
    BY <1>2, DisownedKeeps
  <2>2. /\ reviews' \in Threads /\ reviews'[s] = Free
        /\ \A u \in Slots \ {s} : reviews'[u] = Disowned(reviews)[u]
    BY <1>7, <1>8, <2>1 DEF Threads
  <2> QED
    BY <1>1, <1>7, <1>8, <2>1, <2>2 DEF ThreadStep
<1>10. RunTypes
  BY <1>7, RunRests
<1> QED
  BY <1>6, <1>9, <1>10, StepKeeps

\* A step of the runner is about the same work.
LEMMA RunnerKeeps ==
  ASSUME IInv, NEW s \in Slots, NEW r \in Reviews, Runner(s, r),
         \/ r.stage \in AtWork /\ SameReview(r, reviews[s]) /\ r.cancelled = reviews[s].cancelled
         \/ r.stage = "abandoned" /\ reviews[s].cancelled
  PROVE  Keeps
<1>1. /\ reviews[s].stage = "running" /\ reviews' = [reviews EXCEPT ![s] = r]
      /\ UNCHANGED <<mode, lease, pending, at, held, reviewed>>
  BY DEF Runner
<1>2. pending = s => ~reviews[s].cancelled
  BY NoSlotZero DEF IInv, PendingInv
<1>3. r.stage \in AtWork \cup {"abandoned"}
      /\ (pending = s => r.stage \in AtWork /\ ~r.cancelled /\ SameReview(r, reviews[s]))
  BY <1>2
<1>4. ThreadStep
  BY <1>1, <1>3, ThreadGoesOn
<1> QED
  BY <1>1, <1>4, AloneKeeps

\* All the runner's steps are.
LEMMA RunnerStepKeeps ==
  ASSUME IInv, NEW s \in Slots, RunnerStep(s) PROVE Keeps
<1> DEFINE Same(r) == /\ r \in Reviews /\ r.stage \in AtWork
                      /\ SameReview(r, reviews[s]) /\ r.cancelled = reviews[s].cancelled
<1>1. reviews[s] \in Reviews
  BY DEF IInv, TypeOK
<1>2. ASSUME NEW r, Same(r), Runner(s, r) PROVE Keeps
  BY <1>2, RunnerKeeps
<1>3. ASSUME NEW status \in {"none", "completed", "unavailable"}, Runner(s, Finished(reviews[s], status))
      PROVE  Keeps
  <2>1. reviews[s].stage = "running"
    BY <1>3 DEF Runner
  <2>2. Same(Finished(reviews[s], status))
    BY <1>1, <2>1, FinishedKeeps DEF SameReview
  <2> QED
    BY <1>2, <1>3, <2>2
<1>4. CASE SessionCreated(s)
  <2>1. ASSUME Runner(s, [reviews[s] EXCEPT !.runner = "live"]) PROVE Keeps
    <3>1. Same([reviews[s] EXCEPT !.runner = "live"])
      BY <1>1, <2>1 DEF Runner, Reviews, SameReview, AtWork
    <3> QED
      BY <1>2, <2>1, <3>1
  <2> QED
    BY <1>3, <1>4, <2>1 DEF SessionCreated
<1>5. CASE ReviewerActs(s)
  <2>1. PICK answer \in {"given", "spoilt"} : Runner(s, [reviews[s] EXCEPT !.answer = answer])
    BY <1>5 DEF ReviewerActs
  <2>2. Same([reviews[s] EXCEPT !.answer = answer])
    BY <1>1, <2>1 DEF Runner, Reviews, SameReview, AtWork
  <2> QED
    BY <1>2, <2>1, <2>2
<1>6. CASE PromptReturns(s)
  BY <1>3, <1>6 DEF PromptReturns
<1>7. CASE TimerFires(s)
  BY <1>3, <1>7 DEF TimerFires
<1>8. CASE Settles(s)
  <2>1. CASE reviews[s].cancelled
    <3>1. Abandoned \in Reviews /\ Abandoned.stage = "abandoned"
      BY DEF Abandoned, Free, Reviews
    <3>2. Runner(s, Abandoned)
      BY <1>8, <2>1 DEF Settles
    <3> QED
      BY <2>1, <3>1, <3>2, RunnerKeeps
  <2>2. CASE ~reviews[s].cancelled
    <3>1. Runner(s, [reviews[s] EXCEPT !.stage = "recording", !.runner = "none"])
      BY <1>8, <2>2 DEF Settles
    <3>2. Same([reviews[s] EXCEPT !.stage = "recording", !.runner = "none"])
      BY <1>1 DEF Reviews, SameReview, AtWork
    <3> QED
      BY <1>2, <3>1, <3>2
  <2> QED
    BY <2>1, <2>2
<1> QED
  BY <1>4, <1>5, <1>6, <1>7, <1>8 DEF RunnerStep, AbortReturns, GraceEnds

\* The start of a completion's review records its attempt; the plan's is kept.
LEMMA MarkedKeeps ==
  ASSUME TypeOK, NEW key \in Attempts
  PROVE  LET marked == [lease EXCEPT !.keys = History(lease, key)]
         IN  marked \in Leases /\ Follows(marked) /\ KeepsPlan(marked)
<1> DEFINE marked == [lease EXCEPT !.keys = History(lease, key)]
<1>1. lease \in Leases
  BY DEF TypeOK
<1>2. History(lease, key) \in Seq(Attempts)
  BY <1>1, HistoryKeeps
<1>3. /\ marked \in Leases /\ marked.keys = History(lease, key)
      /\ marked.choice = lease.choice /\ marked.over = lease.over
      /\ marked.phase = lease.phase /\ marked.plan = lease.plan
  BY <1>1, <1>2 DEF Leases
<1>4. (lease.phase = "planning" /\ lease.plan # 0 /\ Attempted(lease, "plan", lease.plan))
         => \E i \in 1..Len(History(lease, key)) : History(lease, key)[i] = PlanKey(lease)
  BY <1>1, HistoryKeeps
<1> HIDE DEF marked
<1>5. (lease.phase = "planning" /\ lease.plan # 0 /\ Attempted(lease, "plan", lease.plan))
         => Attempted(marked, "plan", marked.plan)
  BY <1>3, <1>4 DEF Attempted, PlanKey, Key
<1>6. lease.choice \in Nat /\ lease.over \in BOOLEAN
  BY <1>1 DEF Leases
<1>7. Follows(marked) /\ KeepsPlan(marked)
  BY <1>3, <1>5, <1>6 DEF Follows, KeepsPlan
<1> QED
  BY <1>3, <1>7 DEF marked

\* Work is sent to a review of its completion, or its missing evidence is noted.
LEMMA ReviewCompletionKeeps ==
  ASSUME IInv, NEW rs \in Threads, From(rs), ReviewCompletion(rs), mode' = mode, at' # "prompted",
         \A s \in Slots : rs[s].stage = "collecting" => reviews[s].stage = "collecting"
  PROVE  ThreadStep /\ LeaseStep
<1>1. /\ pending \in Slots \cup {0} /\ reviews \in Threads /\ lease \in Leases /\ lease.version \in Nat
      /\ TypeOK /\ PendingInv
  BY DEF IInv, TypeOK, Threads, Leases
<1>2. ASSUME NEW s \in Slots, MayStart(pending, "completion", lease.version), FirstFree(rs, s),
             Start(rs, s, "completion", lease.version)
      PROVE  ThreadStep /\ LeaseStep
  <2> DEFINE key == Key(lease, "completion", lease.version)
  <2>1. key \in Attempts
    BY <1>1, Keys
  <2>2. PICK stage \in {"evidence", "failing"} :
           /\ lease' = [lease EXCEPT !.keys = History(lease, key)] /\ pending' = s
           /\ reviews' = [Disowned(rs) EXCEPT ![s] =
                 [Free EXCEPT !.stage = stage, !.kind = "completion", !.scope = lease.version,
                              !.choice = lease.choice, !.current = TRUE, !.left = MaxReviewers]]
           /\ reviewed' = reviewed
    BY <1>2 DEF Start
  <2> DEFINE r == [Free EXCEPT !.stage = stage, !.kind = "completion", !.scope = lease.version,
                               !.choice = lease.choice, !.current = TRUE, !.left = MaxReviewers]
  <2>3. r \in Reviews /\ r.stage \in AtWork /\ ~r.cancelled /\ r.kind = "completion"
    BY <1>1, ReviewAssumption DEF Free, Reviews, AtWork, Leases
  <2>4. LeaseStep
    BY <1>1, <2>1, <2>2, MarkedKeeps DEF LeaseStep
  <2>5. /\ Disowned(rs) \in Threads
        /\ \A u \in Slots : /\ Disowned(rs)[u].stage # "collecting"
                            /\ rs[u].stage # "collecting" => Disowned(rs)[u] = rs[u]
    BY DisownedKeeps
  <2> HIDE DEF r
  <2>6. /\ reviews' \in Threads /\ reviews'[s] = r
        /\ \A u \in Slots \ {s} : reviews'[u] = Disowned(rs)[u]
    BY <2>2, <2>3, <2>5 DEF Threads, r
  <2>7. pending = 0
    BY <1>2 DEF MayStart
  <2>8. ThreadStep
    <3>1. /\ pending' \in Slots \cup {0} /\ reviews'[pending'] = r
          /\ reviews'[pending'].stage \in AtWork /\ ~reviews'[pending'].cancelled
      BY <2>2, <2>3, <2>6
    <3>2. ASSUME NEW u \in Slots
          PROVE  /\ reviews'[u].stage # "collecting"
                 /\ reviews[u].stage = "free" => reviews'[u].stage = "free" \/ reviews'[u].kind = "completion"
                 /\ pending # u
      BY <2>3, <2>5, <2>6, <2>7, NoSlotZero DEF From, AtWork
    <3> QED
      BY <2>3, <2>6, <3>1, <3>2 DEF ThreadStep
  <2> QED
    BY <2>4, <2>8
<1>3. ASSUME reviews' = rs, UNCHANGED <<lease, pending, reviewed>> PROVE ThreadStep /\ LeaseStep
  <2>1. LeaseStep
    BY <1>1, <1>3, LeaseRests
  <2>2. Undisturbed
    BY <1>1, <1>3, NoSlotZero DEF Undisturbed, From, PendingInv, SameReview, AtWork
  <2>3. \A s \in Slots : reviews'[s].stage = "collecting" => mode' = "active" /\ at' # "prompted"
    BY <1>3 DEF IInv, PromptInv
  <2> QED
    BY <2>1, <2>2, <2>3, UndisturbedStep
<1>4. ASSUME Advance(rs, pending, NoteStep(lease, "completion_evidence")), UNCHANGED reviewed
      PROVE  ThreadStep /\ LeaseStep
  <2>1. lease' = NoteStep(lease, "completion_evidence") /\ ThreadStep
    BY <1>1, <1>4, AdvanceKeeps
  <2>2. "completion_evidence" \in Steps
    BY DEF Steps
  <2>3. LeaseStep
    BY <1>1, <1>4, <2>1, <2>2, LeaseTypes, Followers DEF LeaseStep
  <2> QED
    BY <2>1, <2>3
<1> QED
  BY <1>2, <1>3, <1>4 DEF ReviewCompletion

\* Every step of a thread keeps the invariant.
LEMMA ThreadKeeps ==
  ASSUME IInv, NEW s \in Slots, Thread(s) PROVE Keeps
<1>1. CASE EvidenceReady(s)
  BY <1>1, ClimbKeeps DEF EvidenceReady
<1>2. CASE StageRecorded(s)
  BY <1>2, ClimbKeeps, EndsAlone DEF StageRecorded
<1>3. CASE OutcomeRecorded(s)
  <2>1. reviews[s].stage = "recording" /\ reviews[s] \in Reviews
    BY <1>3 DEF OutcomeRecorded, IInv, TypeOK
  <2>2. ASSUME reviews' = [reviews EXCEPT ![s].stage = "applying"],
               Current(reviews, pending, s, lease, mode),
               UNCHANGED <<mode, lease, pending, at, held, reviewed>>
        PROVE  Keeps
    <3> DEFINE r == [reviews[s] EXCEPT !.stage = "applying"]
    <3>1. r \in Reviews /\ r.stage \in AtWork /\ SameReview(r, reviews[s]) /\ r.cancelled = reviews[s].cancelled
      BY <2>1 DEF Reviews, AtWork, SameReview
    <3>2. reviews' = [reviews EXCEPT ![s] = r] /\ ~reviews[s].cancelled
      BY <2>2 DEF Current
    <3> HIDE DEF r
    <3>3. ThreadStep
      BY <2>1, <2>2, <3>1, <3>2, ThreadGoesOn
    <3> QED
      BY <2>2, <3>3, AloneKeeps
  <2>3. ASSUME Current(reviews, pending, s, lease, mode), Deliver(s) PROVE Keeps
    BY <2>1, <2>3, DeliverKeeps DEF AtWork
  <2>4. ASSUME End(reviews, pending, s, mode) \/ Climb(s), UNCHANGED <<mode, lease, at, held, reviewed>>
        PROVE  Keeps
    BY <2>1, <2>4, EndsAlone, ClimbKeeps
  <2> QED
    BY <1>3, <2>2, <2>3, <2>4 DEF OutcomeRecorded
<1>4. CASE PreparationAwaited(s)
  <2>1. reviews[s].stage = "applying"
    BY <1>4 DEF PreparationAwaited
  <2>2. ASSUME Current(reviews, pending, s, lease, mode), Deliver(s) PROVE Keeps
    BY <2>1, <2>2, DeliverKeeps DEF AtWork
  <2>3. ASSUME End(reviews, pending, s, mode), UNCHANGED <<mode, lease, at, held, reviewed>> PROVE Keeps
    BY <2>1, <2>3, EndsAlone
  <2> QED
    BY <1>4, <2>2, <2>3 DEF PreparationAwaited
<1>5. CASE SettledWorkCollected(s)
  <2> DEFINE rs == [reviews EXCEPT ![s] = Free]
  <2>1. /\ reviews[s].stage = "collecting" /\ ReviewCompletion(rs) /\ UNCHANGED <<mode, at>>
        /\ held' \in [current : BOOLEAN, owns : BOOLEAN]
    BY <1>5 DEF SettledWorkCollected, IInv, TypeOK
  <2>2. Free \in Reviews /\ Free.stage = "free"
    BY DEF Free, Reviews
  <2>3. rs \in Threads /\ rs[s] = Free /\ \A u \in Slots \ {s} : rs[u] = reviews[u]
    BY <2>2 DEF IInv, TypeOK, Threads
  <2>4. pending # s /\ pending \in Slots \cup {0} /\ at # "prompted"
    BY <2>1, NoSlotZero DEF IInv, TypeOK, PendingInv, PromptInv, AtWork
  <2> HIDE DEF rs
  <2>5. From(rs) /\ \A u \in Slots : rs[u].stage = "collecting" => reviews[u].stage = "collecting"
    BY <2>2, <2>3, <2>4 DEF From
  <2>6. ThreadStep /\ LeaseStep
    BY <2>1, <2>3, <2>4, <2>5, ReviewCompletionKeeps
  <2>7. RunTypes
    BY <2>1, <2>4 DEF RunTypes, IInv, TypeOK
  <2> QED
    BY <2>6, <2>7, StepKeeps
<1> QED
  BY <1>1, <1>2, <1>3, <1>4, <1>5 DEF Thread

-----------------------------------------------------------------------------
(* Input, modes, sessions and corrections.                                  *)

\* Threads and lease are left alone by a step of Pi's run.
LEMMA RunMoves ==
  ASSUME IInv, UNCHANGED <<mode, lease, pending, reviews, reviewed>>, at' \in Positions \ {"prompted"},
         held' \in [current : BOOLEAN, owns : BOOLEAN]
  PROVE  Keeps
<1>1. LeaseStep
  BY LeaseRests DEF IInv
<1>2. ThreadStep
  <2>1. Undisturbed
    BY Resting DEF IInv
  <2>2. \A s \in Slots : reviews'[s].stage = "collecting" => mode' = "active" /\ at' # "prompted"
    BY DEF IInv, PromptInv
  <2> QED
    BY <2>1, <2>2, UndisturbedStep
<1>3. RunTypes
  BY DEF RunTypes, IInv, TypeOK
<1> QED
  BY <1>1, <1>2, <1>3, StepKeeps

\* A step that advances the lease to one of the same task.
LEMMA AdvancesKeep ==
  ASSUME IInv, NEW l \in Leases, Follows(l), KeepsPlan(l), Advance(reviews, pending, l),
         at' \in Positions, at' = "prompted" => at = "prompted",
         UNCHANGED <<mode, reviewed>>, held' \in [current : BOOLEAN, owns : BOOLEAN]
  PROVE  Keeps
<1>1. lease' = l /\ Undisturbed /\ ThreadStep
  BY FromState, AdvanceKeeps DEF IInv
<1>2. LeaseStep
  BY <1>1 DEF LeaseStep
<1>3. RunTypes
  BY <1>1 DEF RunTypes, Undisturbed, IInv, TypeOK, PromptInv
<1> QED
  BY <1>1, <1>2, <1>3, StepKeeps

\* Whatever advances the epoch leaves no review.
LEMMA SupersedesKeep ==
  ASSUME IInv, Supersede, mode' \in {"off", "shadow", "active"}, at' = at,
         \/ UNCHANGED <<lease, reviewed>>
         \/ lease' = NoLease /\ reviewed' = {}
  PROVE  Keeps
<1>1. pending' = 0 /\ ThreadStep /\ held' \in [current : BOOLEAN, owns : BOOLEAN]
  BY SupersedeKeeps DEF IInv
<1>2. LeaseStep
  BY <1>1, LeaseRests, LeaseTypes DEF IInv, LeaseStep
<1>3. RunTypes
  BY <1>1 DEF RunTypes, IInv, TypeOK
<1> QED
  BY <1>1, <1>2, <1>3, StepKeeps

\* Input ends every review; in mode "off" there is none that is current.
LEMMA InputKeeps == ASSUME IInv, Input PROVE Keeps
<1>1. /\ at' = "prompted" /\ UNCHANGED <<mode, lease, reviewed>>
      /\ held' \in [current : BOOLEAN, owns : BOOLEAN]
  BY DEF Input
<1>2. pending' = 0 /\ ThreadStep
  <2>1. CASE mode = "off"
    <3>1. Synced(reviews, pending, lease, mode)
      BY <2>1 DEF Input
    <3>2. /\ Undisturbed
          /\ \A s \in Slots : reviews'[s].stage = "collecting" => reviews[s].stage = "collecting"
      BY <3>1, FromState, SyncedKeeps DEF IInv
    <3>3. \A s \in Slots : reviews'[s].stage # "collecting"
      BY <2>1, <3>2 DEF IInv, PromptInv
    <3>4. pending' = 0
      BY <2>1, <3>1 DEF Synced, Current
    <3> QED
      BY <3>2, <3>3, <3>4, UndisturbedStep
  <2>2. CASE mode # "off"
    <3> DEFINE rs == Cancelled(reviews, pending)
    <3>1. pending' = 0 /\ reviews' = Outdated(rs)
      BY <2>2 DEF Input
    <3>2. pending \in Slots \cup {0} /\ reviews \in Threads
      BY DEF IInv, TypeOK, Threads
    <3>3. /\ rs \in Threads
          /\ \A s \in Slots : s # pending => rs[s] = reviews[s]
          /\ pending # 0 => rs[pending].stage \in {"abandoned", "running"}
      BY <3>2, CancelledKeeps
    <3> HIDE DEF rs
    <3>4. /\ Outdated(rs) \in Threads
          /\ \A s \in Slots : /\ Outdated(rs)[s].stage # "collecting"
                              /\ rs[s].stage # "collecting" => Outdated(rs)[s].stage = rs[s].stage
                              /\ rs[s].stage = "collecting" => Outdated(rs)[s].stage = "abandoned"
      BY <3>3, OutdatedKeeps
    <3>5. Undisturbed
      BY <3>1, <3>2, <3>3, <3>4, NoSlotZero DEF Undisturbed, IInv, PendingInv, AtWork
    <3> QED
      BY <3>1, <3>4, <3>5, UndisturbedStep
  <2> QED
    BY <2>1, <2>2
<1>3. LeaseStep
  BY <1>1, LeaseRests DEF IInv
<1>4. RunTypes
  BY <1>1, <1>2 DEF RunTypes, IInv, TypeOK, Positions
<1> QED
  BY <1>2, <1>3, <1>4, StepKeeps

\* The lease owner and the operator, from outside Pi's runs.
LEMMA OutsideKeeps == ASSUME IInv, Outside PROVE Keeps
<1>1. CASE Input
  BY <1>1, InputKeeps
<1>2. CASE BusyInput
  BY <1>2, SupersedesKeep DEF BusyInput, IInv, TypeOK
<1>3. CASE Compacted
  BY <1>3, SupersedesKeep DEF Compacted, IInv, TypeOK
<1>4. CASE SessionReplaced
  BY <1>4, SupersedesKeep DEF SessionReplaced, IInv, TypeOK
<1>5. CASE \E m \in {"off", "shadow", "active"} : ModeSet(m)
  BY <1>5, SupersedesKeep DEF ModeSet, IInv, TypeOK
<1>6. CASE Correct
  <2>1. PICK policy \in Policies : Replace(reviews, pending, Corrected(lease, policy), at)
    BY <1>6 DEF Correct
  <2> DEFINE l == Corrected(lease, policy)
  <2>2. l \in Leases /\ Follows(l) /\ KeepsPlan(l)
    BY LeaseTypes, Followers DEF IInv, TypeOK
  <2> HIDE DEF l
  <2>3. /\ Advance(reviews, pending, l) /\ UNCHANGED <<mode, at, reviewed>>
        /\ at' \in Positions /\ held' \in [current : BOOLEAN, owns : BOOLEAN]
    BY <1>6, <2>1 DEF Correct, Replace, IInv, TypeOK, l
  <2> QED
    BY <2>2, <2>3, AdvancesKeep
<1> QED
  BY <1>1, <1>2, <1>3, <1>4, <1>5, <1>6 DEF Outside

-----------------------------------------------------------------------------
(* Pi's runs.                                                               *)

\* Handlers read what they read.
LEMMA HeldTypes ==
  /\ Nothing \in [current : BOOLEAN, owns : BOOLEAN]
  /\ \A c, o \in BOOLEAN : [current |-> c, owns |-> o] \in [current : BOOLEAN, owns : BOOLEAN]
BY DEF Nothing

\* A step that moves the lease on, or leaves it.
LEMMA MovesKeep ==
  ASSUME IInv, UNCHANGED <<mode, reviewed>>, at' \in Positions \ {"prompted"},
         held' \in [current : BOOLEAN, owns : BOOLEAN],
         \/ UNCHANGED <<lease, pending, reviews>>
         \/ \E l \in Moved(lease) : Advance(reviews, pending, l)
  PROVE  Keeps
<1>1. CASE UNCHANGED <<lease, pending, reviews>>
  BY <1>1, RunMoves
<1>2. ASSUME NEW l \in Moved(lease), Advance(reviews, pending, l) PROVE Keeps
  <2>1. l \in Leases /\ Follows(l) /\ KeepsPlan(l)
    BY LeaseTypes, Followers DEF IInv, TypeOK
  <2> QED
    BY <1>2, <2>1, AdvancesKeep
<1> QED
  BY <1>1, <1>2

\* A fallback gives up the review of the attempt that failed.
LEMMA FallbackKeeps ==
  ASSUME IInv, NEW from, NEW to \in Positions \ {"prompted"}, Fallback(from, to) PROVE Keeps
<1>1. /\ pending' = 0 /\ reviews' = Cancelled(reviews, pending) /\ at' = to
      /\ UNCHANGED <<mode, lease, reviewed>> /\ held' \in [current : BOOLEAN, owns : BOOLEAN]
  BY DEF Fallback
<1>2. pending \in Slots \cup {0} /\ reviews \in Threads
  BY DEF IInv, TypeOK, Threads
<1>3. /\ Cancelled(reviews, pending) \in Threads
      /\ \A s \in Slots : s # pending => Cancelled(reviews, pending)[s] = reviews[s]
      /\ pending # 0 => Cancelled(reviews, pending)[pending].stage \in {"abandoned", "running"}
  BY <1>2, CancelledKeeps
<1>4. Undisturbed
  BY <1>1, <1>2, <1>3, NoSlotZero DEF Undisturbed, IInv, PendingInv, AtWork
<1>5. \A s \in Slots : reviews'[s].stage = "collecting" => mode' = "active" /\ at' # "prompted"
  BY <1>1, <1>2, <1>3, NoSlotZero DEF IInv, PromptInv
<1>6. LeaseStep
  BY <1>1, LeaseRests DEF IInv
<1>7. RunTypes
  BY <1>1 DEF RunTypes, IInv, TypeOK
<1> QED
  BY <1>4, <1>5, <1>6, <1>7, UndisturbedStep, StepKeeps

\* A user's turn starts without a review pending, on its task's lease or a new one.
LEMMA TurnKeeps == ASSUME IInv, TurnRouted PROVE Keeps
<1>1. /\ at = "prompted" /\ at' = "running" /\ mode' = mode /\ pending = 0
      /\ held' \in [current : BOOLEAN, owns : BOOLEAN]
  BY HeldTypes DEF TurnRouted, RunStarts, IInv, PromptInv
<1>2. CASE UNCHANGED <<lease, pending, reviews, reviewed>>
  BY <1>1, <1>2, RunMoves DEF Positions
<1>3. ASSUME NEW l \in TurnLeases, Advance(reviews, pending, l),
             reviewed' = IF l.keys = <<>> THEN {} ELSE reviewed
      PROVE  Keeps
  <2> DEFINE resumed == IF mode = "active" THEN Resumed(lease) ELSE lease
  <2>1. lease \in Leases /\ resumed \in Leases /\ Follows(resumed)
    <3>1. lease \in Leases /\ Resumed(lease) \in Leases /\ Follows(Resumed(lease))
      BY LeaseTypes, Followers DEF IInv, TypeOK
    <3>2. Follows(lease)
      BY <3>1 DEF Follows, Leases
    <3> QED
      BY <3>1, <3>2
  <2>2. \A p \in Policies : NewLease(p) \in Leases /\ NewLease(p).keys = <<>>
    BY LeaseTypes DEF NewLease
  <2> HIDE DEF resumed
  <2>3. ASSUME NEW u \in Leases, u.keys = <<>> \/ Follows(u), NEW n \in Moved(u)
        PROVE  n \in Leases /\ (n.keys = <<>> \/ Follows(n))
    <3>1. n \in Leases
      BY <2>3, LeaseTypes
    <3>2. n.over \/ (n.over = u.over /\ n.keys = u.keys /\ n.choice = u.choice + 1)
      BY <2>3, LeaseTypes DEF Moved, Leases
    <3>3. lease.choice \in Nat /\ u.choice \in Nat /\ u.over \in BOOLEAN
      BY <2>1 DEF Leases
    <3> QED
      BY <2>3, <3>1, <3>2, <3>3 DEF Follows
  <2>4. l \in Leases /\ (l.keys = <<>> \/ Follows(l))
    <3>1. \A u \in {NewLease(p) : p \in Policies} \cup {resumed} :
             u \in Leases /\ (u.keys = <<>> \/ Follows(u))
      BY <2>1, <2>2
    <3>2. \/ l \in {NewLease(p) : p \in Policies} \cup {resumed}
          \/ \E u \in {NewLease(p) : p \in Policies} \cup {resumed} : l \in Moved(u)
      BY <1>3 DEF TurnLeases, resumed
    <3> QED
      BY <2>3, <3>1, <3>2
  <2>5. lease' = l /\ Undisturbed /\ ThreadStep
    BY <1>3, FromState, AdvanceKeeps DEF IInv
  <2>6. pending' = 0
    BY <1>1, <2>5 DEF Undisturbed
  <2>7. LeaseStep
    BY <1>3, <2>4, <2>5, <2>6 DEF LeaseStep
  <2>8. RunTypes
    BY <1>1, <2>6 DEF RunTypes, IInv, TypeOK, Positions
  <2> QED
    BY <2>5, <2>7, <2>8, StepKeeps
<1> QED
  BY <1>2, <1>3 DEF TurnRouted

\* What the run has changed is on record in the lease.
LEMMA ToolKeeps == ASSUME IInv, ToolEnds PROVE Keeps
<1>1. PICK mutation, reopens \in BOOLEAN :
         Replace(reviews, pending,
                 [(IF mutation \/ reopens THEN Resumed(lease) ELSE lease)
                     EXCEPT !.version = @ + 1, !.mutated = @ \/ mutation], at)
  BY DEF ToolEnds
<1> DEFINE m == IF mutation \/ reopens THEN Resumed(lease) ELSE lease
           l == [m EXCEPT !.version = @ + 1, !.mutated = @ \/ mutation]
<1>2. lease \in Leases /\ m \in Leases
  BY LeaseTypes DEF IInv, TypeOK
<1>3. /\ m.choice = lease.choice /\ m.over = lease.over /\ m.keys = lease.keys
      /\ \/ m.phase = lease.phase /\ m.plan = lease.plan
         \/ lease.phase # "planning" /\ m.phase # "planning"
  BY <1>2 DEF Resumed, Leases
<1> HIDE DEF m
<1>4. /\ l \in Leases
      /\ l.choice = m.choice /\ l.over = m.over /\ l.keys = m.keys
      /\ l.phase = m.phase /\ l.plan = m.plan
  <2>1. \A version \in Nat, mutated \in BOOLEAN :
           LET n == [m EXCEPT !.version = version, !.mutated = mutated]
           IN  /\ n \in Leases /\ n.choice = m.choice /\ n.over = m.over /\ n.keys = m.keys
               /\ n.phase = m.phase /\ n.plan = m.plan
    BY <1>2 DEF Leases
  <2>2. m.version + 1 \in Nat
    BY <1>2 DEF Leases
  <2>3. (m.mutated \/ mutation) \in BOOLEAN
    OBVIOUS
  <2> QED
    BY <2>1, <2>2, <2>3
<1>5. /\ Advance(reviews, pending, l) /\ at' = at
      /\ held' \in [current : BOOLEAN, owns : BOOLEAN]
  BY <1>1 DEF Replace, m, IInv, TypeOK
<1> HIDE DEF l
<1>6. Follows(l) /\ KeepsPlan(l)
  BY <1>3, <1>4, Unplanned DEF IInv
<1>7. UNCHANGED <<mode, reviewed>> /\ at' \in Positions
  BY <1>5 DEF ToolEnds, IInv, TypeOK
<1> QED
  BY <1>4, <1>5, <1>6, <1>7, AdvancesKeep

\* A plan submitted gives up the review of the one before.
LEMMA SubmitKeeps == ASSUME IInv, NEW plan \in Plans, SubmitPlan(plan) PROVE Keeps
<1> DEFINE rs == Cancelled(reviews, pending)
           l == [lease EXCEPT !.policy = "plan_review_then_completion_review",
                              !.plan = plan, !.keys = <<>>]
<1>1. /\ lease' = l /\ Synced(Disowned(rs), 0, l, mode)
      /\ UNCHANGED <<mode, at>> /\ reviewed' = {}
      /\ held' \in [current : BOOLEAN, owns : BOOLEAN]
  BY DEF SubmitPlan, Replace, Advance, IInv, TypeOK
<1>2. l \in Leases
  <2>1. lease \in Leases /\ "plan_review_then_completion_review" \in Policies /\ <<>> \in Seq(Attempts)
    BY DEF IInv, TypeOK, Policies
  <2> QED
    BY <2>1 DEF Leases
<1>3. pending' = 0 /\ reviews' = Disowned(rs)
  BY <1>1 DEF Synced
<1>4. pending \in Slots \cup {0} /\ reviews \in Threads
  BY DEF IInv, TypeOK, Threads
<1>5. /\ rs \in Threads
      /\ \A s \in Slots : s # pending => rs[s] = reviews[s]
      /\ pending # 0 => rs[pending].stage \in {"abandoned", "running"}
  BY <1>4, CancelledKeeps
<1> HIDE DEF rs, l
<1>6. /\ Disowned(rs) \in Threads
      /\ \A s \in Slots : /\ Disowned(rs)[s].stage # "collecting"
                          /\ rs[s].stage # "collecting" => Disowned(rs)[s] = rs[s]
                          /\ rs[s].stage = "collecting" => Disowned(rs)[s].stage = "abandoned"
  BY <1>5, DisownedKeeps
<1>7. Undisturbed
  BY <1>3, <1>4, <1>5, <1>6, NoSlotZero DEF Undisturbed, IInv, PendingInv, AtWork
<1>8. ThreadStep
  BY <1>3, <1>6, <1>7, UndisturbedStep
<1>9. LeaseStep
  BY <1>1, <1>2, <1>3 DEF LeaseStep
<1>10. RunTypes
  BY <1>1, <1>3 DEF RunTypes, IInv, TypeOK
<1> QED
  BY <1>8, <1>9, <1>10, StepKeeps

\* Every step of Pi's runs and of the preparation of custom ones.
LEMMA RunKeeps == ASSUME IInv, Run \/ Preparation PROVE Keeps
<1>1. CASE TurnRouted
  BY <1>1, TurnKeeps
<1>2. CASE CustomStarts
  BY <1>2, RunMoves, HeldTypes DEF CustomStarts, RunStarts, Positions
<1>3. CASE ToolEnds
  BY <1>3, ToolKeeps
<1>4. CASE \E plan \in Plans : SubmitPlan(plan)
  BY <1>4, SubmitKeeps
<1>5. CASE RunEnds
  BY <1>5, RunMoves, HeldTypes DEF RunEnds, Positions
<1>6. CASE RunRecorded
  <2>1. held' \in [current : BOOLEAN, owns : BOOLEAN]
    BY <1>6 DEF RunRecorded, IInv, TypeOK
  <2> QED
    BY <1>6, <2>1, RunMoves DEF RunRecorded, Positions
<1>7. CASE RunFails
  BY <1>7, FallbackKeeps DEF RunFails, Positions
<1>8. CASE RunFellBack
  BY <1>8, MovesKeep, HeldTypes DEF RunFellBack, FallbackInstalled, Positions
<1>9. CASE CustomDrained
  <2>1. held' \in [current : BOOLEAN, owns : BOOLEAN]
    BY <1>9, HeldTypes DEF CustomDrained, RunStarts, IInv, TypeOK
  <2>2. at' \in Positions \ {"prompted"}
    BY <1>9 DEF CustomDrained, RunStarts, Positions
  <2> QED
    BY <1>9, <2>1, <2>2, RunMoves DEF CustomDrained
<1>10. CASE CustomFitted
  BY <1>10, MovesKeep, HeldTypes DEF CustomFitted, RunStarts, Positions
<1>11. CASE CustomRefits
  BY <1>11, FallbackKeeps DEF CustomRefits, Positions
<1>12. CASE CustomRefitted
  BY <1>12, MovesKeep, HeldTypes DEF CustomRefitted, RunStarts, FallbackInstalled, Positions
<1> QED
  BY <1>1, <1>2, <1>3, <1>4, <1>5, <1>6, <1>7, <1>8, <1>9, <1>10, <1>11, <1>12 DEF Run, Preparation

-----------------------------------------------------------------------------
(* agent_settled.                                                           *)

\* A plan's review starts only if its attempt is not on record, and puts it there.
LEMMA PlanReviewKeeps ==
  ASSUME IInv, Reviewable, NeedsPlanReview, MayStart(pending, "plan", lease.plan),
         NEW s \in Slots, FirstFree(reviews, s), Start(reviews, s, "plan", lease.plan),
         mode' = mode, at' \in Positions \ {"prompted"}, held' = held
  PROVE  Keeps
<1> DEFINE key == PlanKey(lease)
<1>1. /\ lease \in Leases /\ reviews \in Threads /\ key \in Attempts
      /\ lease.plan \in Nat /\ lease.choice \in Nat
  BY Keys DEF IInv, TypeOK, Threads, Leases
<1>2. /\ pending = 0 /\ ~Attempted(lease, "plan", lease.plan)
      /\ lease.phase = "planning" /\ lease.plan # 0 /\ ~lease.over
  BY DEF MayStart, NeedsPlanReview, Reviewable
<1>3. PICK stage \in {"evidence", "failing"} :
         /\ lease' = [lease EXCEPT !.keys = History(lease, key)] /\ pending' = s
         /\ reviews' = [Disowned(reviews) EXCEPT ![s] =
               [Free EXCEPT !.stage = stage, !.kind = "plan", !.scope = lease.plan,
                            !.choice = lease.choice, !.current = TRUE, !.left = MaxReviewers]]
         /\ reviewed' = reviewed \cup {lease.choice}
  BY DEF Start, PlanKey
<1> DEFINE r == [Free EXCEPT !.stage = stage, !.kind = "plan", !.scope = lease.plan,
                             !.choice = lease.choice, !.current = TRUE, !.left = MaxReviewers]
<1>4. /\ r \in Reviews /\ r.stage \in AtWork /\ ~r.cancelled
      /\ r.kind = "plan" /\ r.scope = lease.plan /\ r.choice = lease.choice
  BY <1>1, ReviewAssumption DEF Free, Reviews, AtWork
<1>5. /\ Disowned(reviews) \in Threads
      /\ \A u \in Slots : /\ Disowned(reviews)[u].stage # "collecting"
                          /\ reviews[u].stage # "collecting" => Disowned(reviews)[u] = reviews[u]
  BY <1>1, DisownedKeeps
<1> HIDE DEF r
<1>6. /\ reviews' \in Threads /\ reviews'[s] = r
      /\ \A u \in Slots \ {s} : reviews'[u] = Disowned(reviews)[u]
  BY <1>3, <1>4, <1>5 DEF Threads, r
<1>7. /\ History(lease, key) \in Seq(Attempts)
      /\ \E i \in 1..Len(History(lease, key)) : History(lease, key)[i] = key
  BY <1>1, HistoryKeeps
<1>8. /\ lease' \in Leases /\ lease'.keys = History(lease, key)
      /\ lease'.choice = lease.choice /\ lease'.over = lease.over
      /\ lease'.phase = lease.phase /\ lease'.plan = lease.plan
  BY <1>1, <1>3, <1>7 DEF Leases
<1>9. Attempted(lease', "plan", lease'.plan)
  BY <1>7, <1>8 DEF Attempted, PlanKey, Key
<1>10. HistoryInv'
  <2>1. \A choice \in reviewed : choice <= lease.choice
    BY <1>2 DEF IInv, HistoryInv
  <2> QED
    BY <1>1, <1>3, <1>8, <1>9, <2>1 DEF HistoryInv
<1>11. TypeOK'
  BY <1>1, <1>3, <1>6, <1>8 DEF IInv, TypeOK, Threads
<1>12. PendingInv' /\ PlanInv'
  <2>1. reviews'[pending'] = r /\ lease'.choice \in Nat
    BY <1>1, <1>3, <1>6, <1>8
  <2> QED
    BY <1>1, <1>2, <1>4, <1>8, <2>1 DEF PendingInv, PlanInv
<1>13. PromptInv'
  BY <1>4, <1>5, <1>6 DEF PromptInv, AtWork
<1>14. AdviceStep
  BY <1>2, NoSlotZero DEF AdviceStep, Delivered
<1>15. OnceStep
  <2>1. lease.choice \notin reviewed
    BY <1>2 DEF IInv, HistoryInv
  <2> QED
    BY <2>1 DEF OnceStep
<1> QED
  BY <1>10, <1>11, <1>12, <1>13, <1>14, <1>15 DEF Keeps, IInv

\* Every step of the settlement.
LEMMA SettlementKeeps == ASSUME IInv, Settlement PROVE Keeps
<1>1. CASE RunSettles
  <2>1. at = "ended" /\ mode' = mode
    BY <1>1 DEF RunSettles, Settling
  <2>2. ASSUME UNCHANGED <<lease, pending, reviews, reviewed>>, at' \in {"collecting", "closing"},
               held' \in {held, [held EXCEPT !.owns = TRUE]}
        PROVE  Keeps
    <3>1. held' \in [current : BOOLEAN, owns : BOOLEAN]
      BY <2>2 DEF IInv, TypeOK
    <3> QED
      BY <2>1, <2>2, <3>1, RunMoves DEF Positions
  <2>3. ASSUME Advance(reviews, pending, NoteStep(lease, "action_plan")), at' = "noting",
               UNCHANGED <<held, reviewed>>
        PROVE  Keeps
    <3> DEFINE l == NoteStep(lease, "action_plan")
    <3>1. l \in Leases /\ Follows(l) /\ KeepsPlan(l)
      BY LeaseTypes, Followers DEF IInv, TypeOK, Steps
    <3>2. held' \in [current : BOOLEAN, owns : BOOLEAN] /\ at' \in Positions /\ at' # "prompted"
      BY <2>3 DEF IInv, TypeOK, Positions
    <3> HIDE DEF l
    <3> QED
      BY <2>1, <2>3, <3>1, <3>2, AdvancesKeep DEF l
  <2>4. ASSUME Reviewable, NeedsPlanReview, MayStart(pending, "plan", lease.plan), at' = "closing",
               NEW s \in Slots, FirstFree(reviews, s), Start(reviews, s, "plan", lease.plan), held' = held
        PROVE  Keeps
    BY <2>1, <2>4, PlanReviewKeeps DEF Positions
  <2> QED
    BY <1>1, <2>2, <2>3, <2>4 DEF RunSettles, Settling
<1>2. CASE Noted
  <2>1. held' \in [current : BOOLEAN, owns : BOOLEAN]
    BY <1>2 DEF Noted, IInv, TypeOK
  <2>2. at' \in Positions \ {"prompted"}
    BY <1>2 DEF Noted, Positions
  <2> QED
    BY <1>2, <2>1, <2>2, RunMoves DEF Noted
<1>3. CASE Collected
  <2>1. /\ at' = "closing" /\ mode' = mode
        /\ held' \in [current : BOOLEAN, owns : BOOLEAN]
    BY <1>3 DEF Collected, Settling, IInv, TypeOK
  <2>2. CASE UNCHANGED <<lease, pending, reviews, reviewed>>
    BY <2>1, <2>2, RunMoves DEF Positions
  <2>3. CASE ReviewCompletion(reviews)
    <3>1. ThreadStep /\ LeaseStep
      BY <2>1, <2>3, FromState, ReviewCompletionKeeps DEF IInv
    <3>2. RunTypes
      BY <2>1 DEF RunTypes, IInv, TypeOK, Positions
    <3> QED
      BY <3>1, <3>2, StepKeeps
  <2> QED
    BY <1>3, <2>2, <2>3 DEF Collected
<1>4. CASE RunClosed
  <2>1. /\ Synced(reviews, pending, lease, mode) /\ at' = "idle"
        /\ UNCHANGED <<mode, lease, held, reviewed>>
    BY <1>4 DEF RunClosed, Settling
  <2>2. /\ Undisturbed
        /\ \A s \in Slots : reviews'[s].stage = "collecting" => reviews[s].stage = "collecting"
    BY <2>1, FromState, SyncedKeeps DEF IInv
  <2>3. ThreadStep
    BY <2>1, <2>2, UndisturbedStep DEF IInv, PromptInv
  <2>4. LeaseStep
    BY <2>1, LeaseRests DEF IInv
  <2>5. RunTypes
    BY <2>1 DEF RunTypes, IInv, TypeOK, Positions
  <2> QED
    BY <2>3, <2>4, <2>5, StepKeeps
<1> QED
  BY <1>1, <1>2, <1>3, <1>4 DEF Settlement

-----------------------------------------------------------------------------
(* The theorems.                                                            *)

\* At first there is neither a lease nor a review.
LEMMA Initially == Init => IInv
<1> SUFFICES ASSUME Init PROVE IInv
  OBVIOUS
<1>1. NoLease \in Leases /\ Free \in Reviews /\ Free.stage = "free"
  BY LeaseTypes DEF Free, Reviews
<1>2. TypeOK
  BY <1>1, HeldTypes DEF Init, TypeOK, Positions
<1> QED
  BY <1>1, <1>2 DEF Init, IInv, PendingInv, PromptInv, PlanInv, HistoryInv

\* Every step keeps the invariant, gives advice on current work and reviews no plan
\* again.
LEMMA Inductive == ASSUME IInv, Next PROVE Keeps
BY ThreadKeeps, RunnerStepKeeps, OutsideKeeps, RunKeeps, SettlementKeeps DEF Next

\* So does a step that changes nothing.
LEMMA Stutters == ASSUME IInv, UNCHANGED vars PROVE Keeps
BY AloneKeeps, Resting, UndisturbedStep DEF vars, IInv, PromptInv

\* The invariant holds of every reachable state.
LEMMA Invariant == Spec => []IInv
<1>1. IInv /\ [Next]_vars => IInv'
  BY Inductive, Stutters DEF Keeps
<1> QED
  BY Initially, <1>1, PTL DEF Spec

\* Type correctness of the lease, its reviews and the run.
THEOREM TypeCorrect == Spec => []TypeOK
<1>1. IInv => TypeOK
  BY DEF IInv
<1> QED
  BY Invariant, <1>1, PTL

\* Advice is on the plan, or the evidence, of the attempt the reviewer was shown:
\* however often the lease was resubmitted, extended, moved, corrected, reopened or
\* reloaded between any two awaits of the review (startIndependentReview and
\* reviewCurrent).
THEOREM AdviceIsOnCurrentWork == Spec => AdviceOnCurrentWork
<1>1. IInv /\ [Next]_vars => [AdviceStep]_vars
  BY Inductive, Stutters DEF Keeps
<1>2. AdviceStep <=> \A s \in Slots : Delivered(s) =>
          /\ mode = "active" /\ ~lease.over
          /\ reviews[s].scope = IF reviews[s].kind = "plan" THEN lease.plan ELSE lease.version
          /\ reviews[s].choice = lease.choice
  BY DEF AdviceStep, Advisable
<1> QED
  BY Invariant, <1>1, <1>2, PTL DEF Spec, AdviceOnCurrentWork

\* A plan is sent to review once per attempt and route, however many reviews of later
\* evidence have pushed older attempts out of the history (reviewAttemptHistory).
THEOREM PlanIsReviewedOnce == Spec => PlanReviewedOnce
<1>1. IInv /\ [Next]_vars => [OnceStep]_vars
  BY Inductive, Stutters DEF Keeps
<1> QED
  BY Invariant, <1>1, PTL DEF Spec, PlanReviewedOnce, OnceStep
=============================================================================
